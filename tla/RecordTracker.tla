---------------------------- MODULE RecordTracker ----------------------------
(***************************************************************************)
(* record.Tracker (src/services/tracker/record/record.go): a participant   *)
(* of the media room that writes every track it is subscribed to into a    *)
(* temporary file, uploads the file when the track ends, and announces     *)
(* both on the queue.  Callbacks of the media library, the goroutines that *)
(* write the tracks and Close interleave at Tracker.mutex and at writers.  *)
(***************************************************************************)
EXTENDS Integers, FiniteSets

CONSTANTS Tracks,   \* remote tracks the library reports
          Closers,  \* goroutines that call Close
          Nobody    \* nobody

ASSUME TrackerAssumption ==
  IsFiniteSet(Tracks) /\ IsFiniteSet(Closers) /\ Nobody \notin Closers

VARIABLES
  trackerMutex, \* Tracker.mutex: Nobody or the closer inside Close
  closed,       \* Tracker.closed
  connected,    \* room.Disconnect was not called
  writers,      \* Tracker.writers, the counter of the WaitGroup
  track,        \* what became of each track, see Track
  closer        \* the calls of Close: "no", "waiting", "returned"

trackerVars == <<trackerMutex, closed, connected, writers, track, closer>>

\* pc: "admitted" between the unlock and writers.Add in the callback; "starting" to
\* "reporting" the goroutine of writeTrack.  started: recordStarted.  emitted: the
\* jobs put on the queue (event: StoreEvent, process: ProcessTrack, and the updates
\* RecordingStarted and RecordingFinished).
Working == {"starting", "writing", "announcing", "ended", "uploaded", "reporting"}

Track == [pc : {"none", "ignored", "admitted", "done"} \cup Working,
          file : BOOLEAN, started : BOOLEAN, stored : BOOLEAN,
          emitted : SUBSET {"event", "started", "process", "finished"}]

TrackerTypeOK ==
  /\ trackerMutex \in Closers \cup {Nobody}
  /\ closed \in BOOLEAN /\ connected \in BOOLEAN
  /\ writers \in Nat
  /\ track \in [Tracks -> Track]
  /\ closer \in [Closers -> {"no", "waiting", "returned"}]

TrackerInit ==
  /\ trackerMutex = Nobody /\ closed = FALSE /\ connected = TRUE /\ writers = 0
  /\ track = [t \in Tracks |-> [pc |-> "none", file |-> FALSE, started |-> FALSE,
                                stored |-> FALSE, emitted |-> {}]]
  /\ closer = [c \in Closers |-> "no"]

-------------------------------------------------------------------------------
(* OnTrackSubscribed *)

Subscribed(t) ==
  /\ track[t].pc = "none" /\ trackerMutex = Nobody
  /\ track' = [track EXCEPT ![t].pc = IF closed THEN "ignored" ELSE "admitted"]
  /\ UNCHANGED <<trackerMutex, closed, connected, writers, closer>>

AddWriter(t) ==
  /\ track[t].pc = "admitted"
  /\ writers' = writers + 1
  /\ track' = [track EXCEPT ![t].pc = "starting"]
  /\ UNCHANGED <<trackerMutex, closed, connected, closer>>

-------------------------------------------------------------------------------
(* writeTrack, and writers.Done after it *)

At(t, pc) == track[t].pc = pc /\ UNCHANGED <<trackerMutex, closed, connected, closer>>

Stays(t, r) == track' = [track EXCEPT ![t] = r] /\ UNCHANGED writers

\* Variant: writers.Done is forgotten.
LeavesCounted(t, r) ==
  /\ track' = [track EXCEPT ![t] = [r EXCEPT !.pc = "done"]]
  /\ UNCHANGED writers

Leaves(t, r) ==
  /\ track' = [track EXCEPT ![t] = [r EXCEPT !.pc = "done"]]
  /\ writers' = writers - 1

\* The temporary file is created, or the goroutine gives up.
CreateFile(t) ==
  /\ At(t, "starting")
  /\ \/ Stays(t, [track[t] EXCEPT !.pc = "writing", !.file = TRUE])
     \/ Leaves(t, track[t])

\* Six seconds are written: RecordStarted puts its first job, or fails to.
Announce(t) ==
  /\ At(t, "writing") /\ ~track[t].started
  /\ \/ Stays(t, [track[t] EXCEPT !.pc = "announcing", !.emitted = @ \cup {"event"}])
     \/ Stays(t, [track[t] EXCEPT !.started = TRUE])

\* The second job of RecordStarted; recordStarted is set whatever happened.
Announced(t) ==
  /\ At(t, "announcing")
  /\ \E put \in SUBSET {"started"} :
       Stays(t, [track[t] EXCEPT !.pc = "writing", !.started = TRUE,
                                 !.emitted = @ \cup put])

\* The track ended (or no WebM writer could be made): a short one is removed.
TrackEnds(t) ==
  /\ At(t, "writing")
  /\ IF track[t].started
     THEN Stays(t, [track[t] EXCEPT !.pc = "ended"])
     ELSE Leaves(t, [track[t] EXCEPT !.file = FALSE])

\* PutObject, and on success the file is removed; on failure it is left behind.
Upload(t) ==
  /\ At(t, "ended")
  /\ \/ Stays(t, [track[t] EXCEPT !.pc = "uploaded", !.stored = TRUE, !.file = FALSE])
     \/ Leaves(t, track[t])

\* The two jobs of RecordFinished; the second is not put if the first fails.
Finish(t) ==
  /\ At(t, "uploaded")
  /\ \/ Stays(t, [track[t] EXCEPT !.pc = "reporting", !.emitted = @ \cup {"process"}])
     \/ Leaves(t, track[t])

Finished(t) ==
  /\ At(t, "reporting")
  /\ \E put \in SUBSET {"finished"} : Leaves(t, [track[t] EXCEPT !.emitted = @ \cup put])

Write(t) == CreateFile(t) \/ Announce(t) \/ Announced(t)

Report(t) == Upload(t) \/ Finish(t) \/ Finished(t)

-------------------------------------------------------------------------------
(* Close *)

Close(c) ==
  /\ closer[c] = "no" /\ trackerMutex = Nobody
  /\ IF closed
     THEN /\ closer' = [closer EXCEPT ![c] = "returned"]
          /\ UNCHANGED <<trackerMutex, connected>>
     ELSE /\ closer' = [closer EXCEPT ![c] = "waiting"]
          /\ trackerMutex' = c /\ connected' = FALSE
  /\ UNCHANGED <<closed, writers, track>>

\* Variant: closed is set and the mutex released before the writers are done.
CloseReturnsAtOnce(c) ==
  /\ closer[c] = "waiting"
  /\ closed' = TRUE /\ trackerMutex' = Nobody
  /\ closer' = [closer EXCEPT ![c] = "returned"]
  /\ UNCHANGED <<connected, writers, track>>

\* writers.Wait returns, with the mutex held all the while.
CloseReturns(c) ==
  /\ closer[c] = "waiting" /\ writers = 0
  /\ closed' = TRUE /\ trackerMutex' = Nobody
  /\ closer' = [closer EXCEPT ![c] = "returned"]
  /\ UNCHANGED <<connected, writers, track>>

TrackerNext ==
  \/ \E t \in Tracks : \/ Subscribed(t) \/ AddWriter(t)
                       \/ Write(t) \/ TrackEnds(t) \/ Report(t)
  \/ \E c \in Closers : Close(c) \/ CloseReturns(c)

TrackerSpec == TrackerInit /\ [][TrackerNext]_trackerVars

-------------------------------------------------------------------------------
(* Properties *)

AtWork == {t \in Tracks : track[t].pc \in Working \cup {"admitted"}}

\* When Close returns, every track counted in writers is written, and no counted one
\* remains: what it may have missed is only in the callback (Close).
CloseWaitsForCounted ==
  [][\A c \in Closers : closer[c] = "waiting" /\ closer'[c] = "returned" =>
       \A t \in Tracks : track[t].pc \notin Working]_trackerVars

\* "Using mutext to protect waitgroup from calling Wait before Add" (record.go): when
\* Close has returned, nobody admitted is still writing.
CloseWaitsForWriters == closed => AtWork = {}
===============================================================================
