---------------------------- MODULE TalkRecording ----------------------------
(***************************************************************************)
(* The recording of one talk: its owner's requests                         *)
(* (src/services/confa/talk), the start and stop jobs they put, the        *)
(* goroutines of the confa service that handle the jobs                    *)
(* (src/services/cmd/confa/queue), and what they call: the RTC service,    *)
(* which keeps the recording's document, and the tracker service.          *)
(*                                                                         *)
(* Every external call is an action of its own, and may fail before or     *)
(* after its effect (GiveUp).  A reservation lasts 30 s and nobody renews  *)
(* it, so a ready job may be taken by any goroutine while another works on *)
(* it.  A talk has its own room and its recording the talk's id as key;    *)
(* the unique index on room and key leaves room for one recording.         *)
(* The tracker is an abstraction of TrackerRuntime for that room.          *)
(***************************************************************************)
EXTENDS Naturals, FiniteSets

CONSTANTS Handlers,    \* goroutines of confa processes
          MaxRequests  \* bound: jobs the owner puts

ASSUME TalkAssumption == MaxRequests \in Nat /\ IsFiniteSet(Handlers)

VARIABLES talk,     \* Talk.State
          doc,      \* the Recording document: none, active or stopped
          tracker,  \* of the room: none, on, closed, or removed by the GC
          leaked,   \* the tracker runtime's mutex was not unlocked (StopTracker)
          events,   \* RecordingStarted and RecordingStopped events emitted
          owner,    \* the owner's request that has read the talk
          job,      \* jobs put so far
          handler   \* what each goroutine executes

vars == <<talk, doc, tracker, leaked, events, owner, job, handler>>

Jobs == 1..(MaxRequests + 1)

StartPcs == {"fetchOrStart", "startTracker", "emitStarted", "putAutostop", "setRecording"}
StopPcs == {"stop", "stopTracker", "emitStopped", "setEnded"}

Job == [kind : {"start", "stop"}, by : Jobs \cup {0},
        state : {"unused", "delayed", "ready", "deleted", "buried"}]

Handling == [pc : {"idle", "delete"} \cup StartPcs \cup StopPcs,
             job : Jobs \cup {0}, existed : BOOLEAN]

Types ==
  /\ talk \in {"LIVE", "RECORDING", "ENDED"}
  /\ doc \in {"none", "active", "stopped"}
  /\ tracker \in {"none", "on", "closed", "removed"}
  /\ leaked \in BOOLEAN
  /\ events \in [{"started", "stopped"} -> 0..2]
  /\ owner \in {"idle", "start", "stop"}
  /\ job \in [Jobs -> Job]
  /\ handler \in [Handlers -> Handling]

\* A goroutine handles a job of the kind its code is for (the router of the tubes).
RightHandler ==
  \A h \in Handlers :
    /\ handler[h].pc = "idle" <=> handler[h].job = 0
    /\ handler[h].pc \in StartPcs => job[handler[h].job].kind = "start"
    /\ handler[h].pc \in StopPcs => job[handler[h].job].kind = "stop"

TypeOK == Types /\ RightHandler

Idle == [pc |-> "idle", job |-> 0, existed |-> FALSE]
Unused == [kind |-> "start", by |-> 0, state |-> "unused"]

\* A talk is created live, with a room of its own.
Init ==
  /\ talk = "LIVE" /\ doc = "none" /\ tracker = "none" /\ leaked = FALSE
  /\ events = [kind \in {"started", "stopped"} |-> 0]
  /\ owner = "idle"
  /\ job = [j \in Jobs |-> Unused]
  /\ handler = [h \in Handlers |-> Idle]

-------------------------------------------------------------------------------
(* The owner and the queue *)

UsedJobs == {j \in Jobs : job[j].state # "unused"}

Put(kind, state, by) ==
  \E j \in Jobs \ UsedJobs :
    /\ 1..(j - 1) \subseteq UsedJobs
    /\ job' = [job EXCEPT ![j] = [kind |-> kind, by |-> by, state |-> state]]

\* User.StartRecording and StopRecording read the talk; in any other state they fail.
Request(op) ==
  /\ owner = "idle" /\ talk = (IF op = "start" THEN "LIVE" ELSE "RECORDING")
  /\ Cardinality({j \in UsedJobs : job[j].by = 0}) < MaxRequests
  /\ owner' = op
  /\ UNCHANGED <<talk, doc, tracker, leaked, events, job, handler>>

\* The request puts its job, however the talk changed meanwhile; or it fails.
Answer ==
  /\ owner # "idle" /\ owner' = "idle"
  /\ Put(owner, "ready", 0) \/ UNCHANGED job
  /\ UNCHANGED <<talk, doc, tracker, leaked, events, handler>>

\* A start job is settled minutes after it was put (maxAge of 2 min).
Settled(j) ==
  /\ job[j].state \in {"deleted", "buried"}
  /\ \A h \in Handlers : handler[h].job # j

\* The 60 min of an autostop pass, long after the job that put it was settled.
DelayEnds(j) ==
  /\ job[j].state = "delayed" /\ Settled(job[j].by)
  /\ job' = [job EXCEPT ![j].state = "ready"]
  /\ UNCHANGED <<talk, doc, tracker, leaked, events, owner, handler>>

Take(h, j) ==
  /\ handler[h].pc = "idle" /\ job[j].state = "ready"
  /\ handler' = [handler EXCEPT ![h] =
       [pc |-> IF job[j].kind = "start" THEN "fetchOrStart" ELSE "stop",
        job |-> j, existed |-> FALSE]]
  /\ UNCHANGED <<talk, doc, tracker, leaked, events, owner, job>>

Becomes(h, state) ==
  job' = [job EXCEPT ![handler[h].job].state = IF @ = "ready" THEN state ELSE @]

Rests(h) == handler' = [handler EXCEPT ![h] = Idle]

\* jobDelete.
Delete(h) ==
  /\ handler[h].pc = "delete"
  /\ Becomes(h, "deleted") /\ Rests(h)
  /\ UNCHANGED <<talk, doc, tracker, leaked, events, owner>>

\* jobRetry releases the job; or the goroutine died, or the job could not be released,
\* buried or deleted: it becomes ready again all the same.
GiveUp(h) ==
  /\ handler[h].pc # "idle" /\ Rests(h)
  /\ UNCHANGED <<talk, doc, tracker, leaked, events, owner, job>>

\* jobRetry of a job that is too old.
Bury(h) ==
  /\ handler[h].pc \in StartPcs \cup StopPcs
  /\ Becomes(h, "buried") /\ Rests(h)
  /\ UNCHANGED <<talk, doc, tracker, leaked, events, owner>>

-------------------------------------------------------------------------------
(* startRecording *)

At(h, pc) == handler[h].pc = pc
Goto(h, pc) == handler' = [handler EXCEPT ![h].pc = pc]

\* Variants: a stopped recording is started again; a recording found is taken as new;
\* one that is found needs no tracker.
FetchOrStartAgain(h) ==
  /\ At(h, "fetchOrStart") /\ doc' = "active"
  /\ handler' = [handler EXCEPT ![h].pc = "startTracker", ![h].existed = (doc = "active")]
  /\ UNCHANGED <<talk, tracker, leaked, events, owner, job>>

FetchOrStartNew(h) ==
  /\ At(h, "fetchOrStart") /\ doc # "stopped" /\ doc' = "active"
  /\ handler' = [handler EXCEPT ![h].pc = "startTracker", ![h].existed = FALSE]
  /\ UNCHANGED <<talk, tracker, leaked, events, owner, job>>

FetchOrSkip(h) ==
  /\ At(h, "fetchOrStart") /\ doc # "stopped" /\ doc' = "active"
  /\ handler' = [handler EXCEPT
       ![h].pc = IF doc = "active" THEN "setRecording" ELSE "startTracker",
       ![h].existed = (doc = "active")]
  /\ UNCHANGED <<talk, tracker, leaked, events, owner, job>>

\* records.FetchOrStart; with a stopped recording it fails with ErrDuplicateEntry.
FetchOrStart(h) ==
  /\ At(h, "fetchOrStart") /\ doc # "stopped" /\ doc' = "active"
  /\ handler' = [handler EXCEPT ![h].pc = "startTracker", ![h].existed = (doc = "active")]
  /\ UNCHANGED <<talk, tracker, leaked, events, owner, job>>

\* tracker.Start finds a live tracker or creates one.
StartTracker(h) ==
  /\ At(h, "startTracker") /\ ~leaked /\ tracker' = "on"
  /\ Goto(h, IF handler[h].existed THEN "setRecording" ELSE "emitStarted")
  /\ UNCHANGED <<talk, doc, leaked, events, owner, job>>

\* Two is as many as a property tells apart.
Emits(kind) == events' = [events EXCEPT ![kind] = IF @ < 2 THEN @ + 1 ELSE @]

EmitStarted(h) ==
  /\ At(h, "emitStarted") /\ Emits("started") /\ Goto(h, "putAutostop")
  /\ UNCHANGED <<talk, doc, tracker, leaked, owner, job>>

\* emitter.StopRecording with autostopAfter.
PutAutostop(h) ==
  /\ At(h, "putAutostop") /\ Put("stop", "delayed", handler[h].job)
  /\ Goto(h, "setRecording")
  /\ UNCHANGED <<talk, doc, tracker, leaked, events, owner>>

\* talks.UpdateOne changes the state of a talk that is in the expected one; otherwise
\* ErrNotFound, after which the job is deleted as well.
Advance(h, from, to) ==
  /\ talk' = IF talk = from THEN to ELSE talk
  /\ Goto(h, "delete")
  /\ UNCHANGED <<doc, tracker, leaked, events, owner, job>>

SetRecording(h) == At(h, "setRecording") /\ Advance(h, "LIVE", "RECORDING")

-------------------------------------------------------------------------------
(* stopRecording *)

\* Variant: NotFound is taken for done.
StopOrDelete(h) ==
  /\ At(h, "stop")
  /\ doc' = IF doc = "active" THEN "stopped" ELSE doc
  /\ Goto(h, IF doc = "active" THEN "stopTracker" ELSE "delete")
  /\ UNCHANGED <<talk, tracker, leaked, events, owner, job>>

\* records.Stop; NotFound is taken for already stopped.
Stop(h) ==
  /\ At(h, "stop")
  /\ doc' = IF doc = "active" THEN "stopped" ELSE doc
  /\ Goto(h, IF doc = "active" THEN "stopTracker" ELSE "setEnded")
  /\ UNCHANGED <<talk, tracker, leaked, events, owner, job>>

\* tracker.Stop; a tracker that is not registered leaves the mutex locked and NotFound.
StopTracker(h) ==
  /\ At(h, "stopTracker") /\ ~leaked
  /\ \/ /\ tracker \in {"on", "closed"} /\ tracker' = "closed"
        /\ Goto(h, "emitStopped") /\ UNCHANGED leaked
     \/ /\ tracker \in {"none", "removed"} /\ leaked' = TRUE
        /\ Goto(h, "setEnded") /\ UNCHANGED tracker
  /\ UNCHANGED <<talk, doc, events, owner, job>>

EmitStopped(h) ==
  /\ At(h, "emitStopped") /\ Emits("stopped") /\ Goto(h, "setEnded")
  /\ UNCHANGED <<talk, doc, tracker, leaked, owner, job>>

SetEnded(h) == At(h, "setEnded") /\ Advance(h, "RECORDING", "ENDED")

-------------------------------------------------------------------------------
\* Variant: the GC passes over trackers that are still on.
ExpireClosed ==
  /\ tracker = "closed" /\ ~leaked /\ tracker' = "removed"
  /\ UNCHANGED <<talk, doc, leaked, events, owner, job, handler>>

\* The tracker's hour is over and the GC collects it; no call has just renewed it.
Expire ==
  /\ tracker \in {"on", "closed"} /\ ~leaked
  /\ \A h \in Handlers : handler[h].pc \notin {"emitStarted", "putAutostop", "setRecording"}
  /\ tracker' = "removed"
  /\ UNCHANGED <<talk, doc, leaked, events, owner, job, handler>>

Work(h) ==
  \/ FetchOrStart(h) \/ StartTracker(h) \/ EmitStarted(h) \/ PutAutostop(h)
  \/ SetRecording(h) \/ Stop(h) \/ StopTracker(h) \/ EmitStopped(h) \/ SetEnded(h)
  \/ Delete(h)

Next ==
  \/ Answer \/ Expire \/ (\E op \in {"start", "stop"} : Request(op))
  \/ \E j \in Jobs : DelayEnds(j)
  \/ \E h \in Handlers : Work(h) \/ GiveUp(h) \/ Bury(h) \/ \E j \in Jobs : Take(h, j)

Spec == Init /\ [][Next]_vars

\* Goroutines take ready jobs and finish or give up what they began; a job that is
\* handled again and again gets too old; delays and expiries pass.
Fairness ==
  /\ WF_vars(Expire) /\ WF_vars(\E j \in Jobs : DelayEnds(j))
  /\ \A h \in Handlers : WF_vars(Work(h) \/ GiveUp(h))
  /\ \A j \in Jobs :
       /\ SF_vars(\E h \in Handlers : Take(h, j))
       /\ SF_vars(\E h \in Handlers : handler[h].job = j /\ Bury(h))

FairSpec == Spec /\ Fairness

-------------------------------------------------------------------------------
(* Properties *)

\* A talk has ended only if its recording was stopped and is never resumed, whatever
\* jobs are still delivered (stopRecording, FetchOrStart and the unique indexes).
EndedIsStopped == talk = "ENDED" => doc = "stopped"

\* Peers are told once that the recording started and once that it stopped, although
\* both jobs are repeated and handled concurrently (StartRecording, StopRecording).
EventsOnce == \A kind \in {"started", "stopped"} : events[kind] <= 1

\* A talk is shown as recording only after a tracker was started for it
\* (startRecording, retried after any of its calls failed).
NoSilentRecording == talk # "LIVE" => tracker # "none"

\* The state only goes from live to recording, while a started recording's document is
\* there, and to ended, once it is stopped: a late start job revives no talk that has
\* ended, and a stop job ends none that is not recorded (StateIn).
TalkAdvances ==
  [][talk # talk' => \/ talk = "LIVE" /\ talk' = "RECORDING" /\ doc # "none"
                     \/ talk = "RECORDING" /\ talk' = "ENDED" /\ doc = "stopped"]_vars

\* Once the recording is stopped its tracker is closed or expires, and no start job
\* that is still delivered brings it back, unless the tracker service hangs.
StoppedTrackerEnds == [](doc = "stopped" => <>(leaked \/ [](tracker # "on")))

\* A stop job, put by the owner or by startRecording, that meets a recorded talk ends
\* it, unless a stop job was buried or the tracker service hangs (stopRecording).
StopEndsTalk ==
  \A j \in Jobs :
    (/\ talk = "RECORDING" /\ job[j].kind = "stop" /\ job[j].state \in {"ready", "delayed"}
     /\ \A h \in Handlers : handler[h].job # j)
      ~> \/ talk = "ENDED" \/ leaked
         \/ \E i \in Jobs : job[i].kind = "stop" /\ job[i].state = "buried"
===============================================================================
