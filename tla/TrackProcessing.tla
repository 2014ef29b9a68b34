--------------------------- MODULE TrackProcessing ---------------------------
(***************************************************************************)
(* How the tracks of a recording become its published files: the tracker   *)
(* uploads each track and puts jobs on the queue (tracker/record), and the *)
(* AVP workers convert it (cmd/avp/queue, internal/dash).                  *)
(*                                                                         *)
(* The queue delivers a job at least once: a ProcessTrack job stays until  *)
(* somebody deletes or buries it, and it is reserved by a worker as long   *)
(* as AutoTouch renews the reservation.  What the workers report goes to   *)
(* RecordingBooks.  Timeline events (StoreEvent) are left out.             *)
(***************************************************************************)
EXTENDS TrackUpdates

CONSTANTS Workers,      \* goroutines of AVP processes
          MaxAttempts,  \* bound: deliveries after which a ProcessTrack job is too old
          Free          \* not reserved

ASSUME ProcessingAssumption == Free \notin Workers /\ MaxAttempts \in Nat \ {0}

VARIABLES
  source,   \* what the tracker has done for each track
  object,   \* the object of the track and the converted files in the storage
  process,  \* ProcessTrack jobs: state, worker that reserved it, deliveries
  worker    \* what each AVP worker executes

processingVars == <<source, object, updates, process, worker>>

ProcessingTypeOK ==
  /\ source \in [Tracks -> {"recording", "announced", "uploaded", "reporting", "done"}]
  /\ object \in [Tracks -> [raw : {"none", "stored", "removed"}, converted : BOOLEAN]]
  /\ updates \in [Kinds -> [Tracks -> 0..MaxCopies]]
  /\ process \in [Tracks -> [state : {"none", "queued", "deleted", "buried"},
                             holder : Workers \cup {Free}, attempts : 0..MaxAttempts]]
  /\ worker \in [Workers -> [pc : {"idle", "starting", "downloading", "converting",
                                   "removing", "reporting", "deleting"},
                             track : Tracks \cup {None}]]

ProcessingInit ==
  /\ source = [t \in Tracks |-> "recording"]
  /\ object = [t \in Tracks |-> [raw |-> "none", converted |-> FALSE]]
  /\ updates = [k \in Kinds |-> [t \in Tracks |-> 0]]
  /\ process = [t \in Tracks |-> [state |-> "none", holder |-> Free, attempts |-> 0]]
  /\ worker = [w \in Workers |-> [pc |-> "idle", track |-> None]]

\* An update is put on the queue.
Put(k, t) ==
  updates' = [updates EXCEPT ![k][t] = Added(@)]

\* RecordingBooks is done with a copy.
Received(k, t) ==
  /\ updates' = [updates EXCEPT ![k][t] = Less(@)]
  /\ UNCHANGED <<source, object, process, worker>>

-------------------------------------------------------------------------------
(* The tracker, see RecordTracker *)

Advances(t, from, to) == source[t] = from /\ source' = [source EXCEPT ![t] = to]

\* RecordStarted; if its job cannot be put the track is recorded all the same.
Announce(t) ==
  /\ Advances(t, "recording", "announced")
  /\ Put("RecordingStarted", t) \/ UNCHANGED updates
  /\ UNCHANGED <<object, process, worker>>

\* The track ended: too short, not uploaded, or uploaded.
Upload(t) ==
  /\ \/ Advances(t, "recording", "done") /\ UNCHANGED object
     \/ Advances(t, "announced", "done") /\ UNCHANGED object
     \/ Advances(t, "announced", "uploaded") /\ object' = [object EXCEPT ![t].raw = "stored"]
  /\ UNCHANGED <<updates, process, worker>>

\* RecordFinished puts the ProcessTrack job, then the update.
Finish(t) ==
  /\ \/ Advances(t, "uploaded", "done") /\ UNCHANGED process
     \/ /\ Advances(t, "uploaded", "reporting")
        /\ process' = [process EXCEPT ![t].state = "queued"]
  /\ UNCHANGED <<object, updates, worker>>

Finished(t) ==
  /\ Advances(t, "reporting", "done")
  /\ Put("RecordingFinished", t) \/ UNCHANGED updates
  /\ UNCHANGED <<object, process, worker>>

-------------------------------------------------------------------------------
(* AVP: processTrack under AutoTouch *)

At(w, t, pc) == worker[w].pc = pc /\ worker[w].track = t

Goes(w, pc) == worker' = [worker EXCEPT ![w].pc = pc]

Idles(w) == worker' = [worker EXCEPT ![w] = [pc |-> "idle", track |-> None]]

Reserve(w, t) ==
  /\ worker[w].pc = "idle" /\ process[t].state = "queued" /\ process[t].holder = Free
  /\ process' = [process EXCEPT ![t].holder = w,
                                ![t].attempts = IF @ < MaxAttempts THEN @ + 1 ELSE @]
  /\ worker' = [worker EXCEPT ![w] = [pc |-> "starting", track |-> t]]
  /\ UNCHANGED <<source, object, updates>>

\* A touch failed, which ends AutoTouch's goroutine, or the worker is gone: the
\* reservation runs out.
Lapse(t) ==
  /\ process[t].state = "queued" /\ process[t].holder # Free
  /\ process' = [process EXCEPT ![t].holder = Free]
  /\ UNCHANGED <<source, object, updates, worker>>

EmitStarted(w, t) ==
  /\ At(w, t, "starting")
  /\ Put("ProcessingStarted", t) /\ Goes(w, "downloading")
  /\ UNCHANGED <<source, object, process>>

\* Variant: the object is removed once it is downloaded.
DownloadRemoving(w, t) ==
  /\ At(w, t, "downloading") /\ object[t].raw = "stored"
  /\ object' = [object EXCEPT ![t].raw = "removed"]
  /\ Goes(w, "converting")
  /\ UNCHANGED <<source, updates, process>>

\* ConvertVideo and ConvertAudio: downloads the object, ...
Download(w, t) ==
  /\ At(w, t, "downloading") /\ object[t].raw = "stored"
  /\ Goes(w, "converting")
  /\ UNCHANGED <<source, object, updates, process>>

\* Variant: the emission and the conversion are swapped.
ConvertReporting(w, t) ==
  /\ At(w, t, "converting")
  /\ Put("ProcessingFinished", t)
  /\ Goes(w, "removing")
  /\ UNCHANGED <<source, object, process>>

\* ... uploads the converted files, ...
Convert(w, t) ==
  /\ At(w, t, "converting")
  /\ object' = [object EXCEPT ![t].converted = TRUE]
  /\ Goes(w, "removing")
  /\ UNCHANGED <<source, updates, process>>

\* ... and removes the object.
RemoveRaw(w, t) ==
  /\ At(w, t, "removing")
  /\ object' = [object EXCEPT ![t].raw = "removed"]
  /\ Goes(w, "reporting")
  /\ UNCHANGED <<source, updates, process>>

EmitFinished(w, t) ==
  /\ At(w, t, "reporting")
  /\ Put("ProcessingFinished", t) /\ Goes(w, "deleting")
  /\ UNCHANGED <<source, object, process>>

\* The queue settles a job for the worker that reserved it; it deletes one that is
\* not reserved for anybody; otherwise it answers that the job is not found.
Settles(w, t, by, state) ==
  process' = [process EXCEPT ![t] =
    IF @.state = "queued" /\ @.holder \in by
    THEN [@ EXCEPT !.state = state, !.holder = Free] ELSE @]

Delete(w, t) ==
  /\ At(w, t, "deleting") /\ Settles(w, t, {w, Free}, "deleted") /\ Idles(w)
  /\ UNCHANGED <<source, object, updates>>

\* Some call of the handler failed.
Failing(w, t) == worker[w].track = t /\ worker[w].pc \notin {"idle", "deleting"}

\* Variant: the worker never gives up.
RetryForever(w, t) ==
  /\ Failing(w, t) /\ Settles(w, t, {w}, "queued") /\ Idles(w)
  /\ UNCHANGED <<source, object, updates>>

\* jobRetry: released with a delay, or buried once it is too old.
Retry(w, t) ==
  /\ Failing(w, t)
  /\ Settles(w, t, {w}, IF process[t].attempts < MaxAttempts THEN "queued" ELSE "buried")
  /\ Idles(w)
  /\ UNCHANGED <<source, object, updates>>

\* Delete, Release or Bury itself failed, which is only logged; or the process died.
Leave(w) ==
  /\ worker[w].pc # "idle" /\ Idles(w)
  /\ UNCHANGED <<source, object, updates, process>>

Work(w) ==
  \/ Leave(w)
  \/ \E t \in Tracks : \/ EmitStarted(w, t) \/ Download(w, t) \/ Convert(w, t) \/ RemoveRaw(w, t)
                       \/ EmitFinished(w, t) \/ Delete(w, t) \/ Retry(w, t)

ProcessingNext ==
  \/ \E t \in Tracks : Announce(t) \/ Upload(t) \/ Finish(t) \/ Finished(t) \/ Lapse(t)
  \/ \E w \in Workers : (\E t \in Tracks : Reserve(w, t)) \/ Work(w)
  \/ \E k \in Kinds, t \in Tracks : Received(k, t)

ProcessingSpec == ProcessingInit /\ [][ProcessingNext]_processingVars

\* Workers take jobs and finish what they began; a reservation nobody uses lapses.
ProcessingFairness ==
  /\ \A t \in Tracks :
       /\ SF_processingVars(\E w \in Workers : Reserve(w, t))
       /\ WF_processingVars((\A w \in Workers : worker[w].track # t) /\ Lapse(t))
  /\ \A w \in Workers : WF_processingVars(Work(w))

FairProcessingSpec == ProcessingSpec /\ ProcessingFairness

-------------------------------------------------------------------------------
(* Properties *)

\* A track whose ProcessTrack job exists is in the storage, raw or converted, and the
\* raw object is removed only when the converted files are there: no attempt of any
\* worker loses the track (writeTrack, Converter).
NoTrackIsLost ==
  \A t \in Tracks : /\ process[t].state # "none" => object[t].raw # "none"
                    /\ object[t].raw = "removed" => object[t].converted

\* A ProcessTrack job circulates for ever only if its reservation lapses again and
\* again: one that is kept alive is converted, or buried in the end (jobRetry).
EveryJobIsSettled ==
  \A t \in Tracks : <>[](process[t].state = "queued") => []<><<Lapse(t)>>_processingVars

\* Seen from the books, a track is recorded, queued or converted, and no update says
\* more than is true, whatever fails or is repeated (processTrack).
Stage == [t \in Tracks |-> IF object[t].converted THEN "converted"
                          ELSE IF process[t].state # "none" THEN "queued" ELSE "recorded"]

Progress == INSTANCE TrackProgress WITH stage <- Stage

ImplementsProgress == Progress!ProgressSpec
===============================================================================
