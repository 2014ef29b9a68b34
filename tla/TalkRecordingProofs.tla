-------------------------- MODULE TalkRecordingProofs --------------------------
(***************************************************************************)
(* Proofs about TalkRecording, for any number of goroutines and requests:  *)
(* a talk that ended has a recording that was stopped for good, a talk is  *)
(* shown as recording only once a tracker was started, and peers are told  *)
(* of the start and of the stop at most once.                              *)
(***************************************************************************)
EXTENDS TalkRecording, TLAPS

Pcs == {"idle", "delete"} \cup StartPcs \cup StopPcs

\* The fields of a job and of what a goroutine handles have the types of their records.
LEMMA FieldTypes ==
  ASSUME Types
  PROVE  /\ \A h \in Handlers : /\ handler[h] \in Handling
                                /\ handler[h].pc \in Pcs
                                /\ handler[h].job \in Jobs \cup {0}
                                /\ handler[h].existed \in BOOLEAN
         /\ \A j \in Jobs : /\ job[j] \in Job
                            /\ job[j].kind \in {"start", "stop"}
BY DEF Types, Job, Handling, Pcs

\* What changes when goroutine h goes on in its job.
LEMMA GotoFacts ==
  ASSUME Types, NEW h \in Handlers, NEW pc \in Pcs, Goto(h, pc)
  PROVE  /\ handler' \in [Handlers -> Handling]
         /\ handler'[h].pc = pc /\ handler'[h].job = handler[h].job
         /\ handler'[h].existed = handler[h].existed
         /\ \A g \in Handlers : g # h => handler'[g] = handler[g]
<1>1. [handler[h] EXCEPT !.pc = pc] \in Handling
  BY FieldTypes DEF Handling, Pcs
<1> QED BY <1>1 DEF Goto, Types, Handling

\* What changes when goroutine h has finished or given up its job.
LEMMA RestFacts ==
  ASSUME Types, NEW h \in Handlers, Rests(h)
  PROVE  /\ handler' \in [Handlers -> Handling]
         /\ handler'[h] = Idle
         /\ \A g \in Handlers : g # h => handler'[g] = handler[g]
<1>1. Idle \in Handling
  BY DEF Idle, Handling
<1> QED BY <1>1 DEF Rests, Types

\* A put fills a slot that was not used and leaves the jobs that were put alone.
LEMMA PutFacts ==
  ASSUME Types, NEW kind \in {"start", "stop"}, NEW state \in {"delayed", "ready"},
         NEW by \in Jobs \cup {0}, Put(kind, state, by)
  PROVE  /\ job' \in [Jobs -> Job]
         /\ \A j \in Jobs : job[j].state # "unused" => job'[j] = job[j]
         /\ \A j \in Jobs : job'[j] = job[j]
                            \/ job'[j] = [kind |-> kind, by |-> by, state |-> state]
<1>1. [kind |-> kind, by |-> by, state |-> state] \in Job
  BY DEF Job
<1> QED BY <1>1 DEF Put, UsedJobs, Types

\* A job that changes its state keeps its kind.
LEMMA StateFacts ==
  ASSUME Types, NEW j \in Jobs, NEW state \in {"delayed", "ready", "deleted", "buried"},
         \/ job' = [job EXCEPT ![j].state = state]
         \/ job' = [job EXCEPT ![j].state = IF @ = "ready" THEN state ELSE @]
  PROVE  /\ job' \in [Jobs -> Job]
         /\ \A i \in Jobs : /\ job'[i].kind = job[i].kind
                            /\ job[i].state # "unused" => job'[i].state # "unused"
<1>1. job[j] \in Job /\ [job[j] EXCEPT !.state = state] \in Job
  BY DEF Types, Job
<1>2. PICK s \in {job[j].state, state} : job' = [job EXCEPT ![j].state = s]
  BY DEF Types
<1>3. [job[j] EXCEPT !.state = s] \in Job
  BY <1>1, <1>2 DEF Job
<1> QED BY <1>2, <1>3 DEF Types, Job

-------------------------------------------------------------------------------
\* A goroutine works on a job that was put, so that a later put leaves its kind alone.
TypeInv ==
  /\ TypeOK
  /\ \A h \in Handlers : handler[h].job # 0 => job[handler[h].job].state # "unused"

\* Every step keeps the types.
LEMMA TypeStep == TypeInv /\ [Next]_vars => TypeInv'
<1> SUFFICES ASSUME TypeInv, [Next]_vars PROVE TypeInv'
  OBVIOUS
<1>0. Types /\ RightHandler
  BY DEF TypeInv, TypeOK
<1> USE <1>0, FieldTypes
<1>1. ASSUME NEW op \in {"start", "stop"}, Request(op) PROVE TypeInv'
  BY <1>1 DEF Request, TypeInv, TypeOK, Types, RightHandler
<1>2. ASSUME Answer PROVE TypeInv'
  <2>1. /\ job' \in [Jobs -> Job]
        /\ \A j \in Jobs : job[j].state # "unused" => job'[j] = job[j]
    BY <1>2, PutFacts DEF Answer, Types
  <2> QED BY <1>2, <2>1 DEF Answer, TypeInv, TypeOK, Types, RightHandler, StartPcs, StopPcs
<1>3. ASSUME NEW j \in Jobs, DelayEnds(j) PROVE TypeInv'
  <2>1. /\ job' \in [Jobs -> Job]
        /\ \A i \in Jobs : /\ job'[i].kind = job[i].kind
                           /\ job[i].state # "unused" => job'[i].state # "unused"
    BY <1>3, StateFacts DEF DelayEnds
  <2> QED BY <1>3, <2>1 DEF DelayEnds, TypeInv, TypeOK, Types, RightHandler, StartPcs, StopPcs
<1>4. ASSUME Expire PROVE TypeInv'
  BY <1>4 DEF Expire, TypeInv, TypeOK, Types, RightHandler
<1>5. ASSUME NEW h \in Handlers, NEW j \in Jobs, Take(h, j) PROVE TypeInv'
  <2> DEFINE pc == IF job[j].kind = "start" THEN "fetchOrStart" ELSE "stop"
  <2>1. [pc |-> pc, job |-> j, existed |-> FALSE] \in Handling
    BY DEF Handling, StartPcs, StopPcs
  <2>2. handler' = [handler EXCEPT ![h] = [pc |-> pc, job |-> j, existed |-> FALSE]]
    BY <1>5 DEF Take
  <2> HIDE DEF pc
  <2>3. /\ handler' \in [Handlers -> Handling]
        /\ handler'[h].pc = pc /\ handler'[h].job = j
        /\ \A g \in Handlers : g # h => handler'[g] = handler[g]
    BY <2>1, <2>2 DEF Types
  <2>4. /\ pc # "idle" /\ j # 0
        /\ pc \in StartPcs => job[j].kind = "start"
        /\ pc \in StopPcs => job[j].kind = "stop"
    BY DEF pc, StartPcs, StopPcs, Jobs
  <2>5. UNCHANGED job /\ job[j].state # "unused"
    BY <1>5 DEF Take
  <2>6. Types'
    BY <1>5, <2>3 DEF Take, Types
  <2>7. RightHandler'
    BY <2>3, <2>4, <2>5 DEF RightHandler
  <2> QED BY <2>3, <2>5, <2>6, <2>7 DEF TypeInv, TypeOK
<1>6. ASSUME NEW h \in Handlers, GiveUp(h) \/ Bury(h) \/ Delete(h) PROVE TypeInv'
  <2>1. /\ handler' \in [Handlers -> Handling]
        /\ handler'[h] = Idle
        /\ \A g \in Handlers : g # h => handler'[g] = handler[g]
    BY <1>6, RestFacts DEF GiveUp, Bury, Delete
  <2>2. handler[h].pc # "idle"
    BY <1>6 DEF GiveUp, Bury, Delete, StartPcs, StopPcs
  <2>3. handler[h].job \in Jobs
    BY <2>2 DEF RightHandler
  <2>4. /\ job' \in [Jobs -> Job]
        /\ \A i \in Jobs : /\ job'[i].kind = job[i].kind
                           /\ job[i].state # "unused" => job'[i].state # "unused"
    BY <1>6, <2>3, StateFacts DEF GiveUp, Bury, Delete, Becomes, Types
  <2>5. Types'
    BY <1>6, <2>1, <2>4 DEF GiveUp, Bury, Delete, Types
  <2>6. Idle.pc = "idle" /\ Idle.job = 0
    BY DEF Idle
  <2>7. RightHandler'
    <3> SUFFICES ASSUME NEW g \in Handlers
                 PROVE  /\ handler'[g].pc = "idle" <=> handler'[g].job = 0
                        /\ handler'[g].pc \in StartPcs => job'[handler'[g].job].kind = "start"
                        /\ handler'[g].pc \in StopPcs => job'[handler'[g].job].kind = "stop"
      BY DEF RightHandler
    <3>1. CASE g = h
      BY <2>1, <2>6, <3>1 DEF StartPcs, StopPcs
    <3>2. CASE g # h
      <4>1. handler'[g] = handler[g]
        BY <2>1, <3>2
      <4>2. handler[g].pc # "idle" => handler[g].job \in Jobs
        BY DEF RightHandler
      <4> QED BY <2>4, <4>1, <4>2 DEF RightHandler, StartPcs, StopPcs
    <3> QED BY <3>1, <3>2
  <2>8. \A g \in Handlers : handler'[g].job # 0 => job'[handler'[g].job].state # "unused"
    <3>1. ASSUME NEW g \in Handlers, handler'[g].job # 0 PROVE job'[handler'[g].job].state # "unused"
      <4>1. handler'[g] = handler[g]
        BY <2>1, <2>6, <3>1
      <4>2. handler[g].job \in Jobs /\ job[handler[g].job].state # "unused"
        BY <3>1, <4>1 DEF TypeInv
      <4> QED BY <2>4, <4>1, <4>2
    <3> QED BY <3>1
  <2> QED BY <2>5, <2>7, <2>8 DEF TypeInv, TypeOK
\* What remains for a step that goes on within a job of the same kind.
<1>a. ASSUME NEW h \in Handlers, NEW pc \in Pcs,
             handler' \in [Handlers -> Handling],
             handler'[h].pc = pc, handler'[h].job = handler[h].job,
             \A g \in Handlers : g # h => handler'[g] = handler[g],
             \/ handler[h].pc \in StartPcs /\ pc \in StartPcs \cup {"delete"}
             \/ handler[h].pc \in StopPcs /\ pc \in StopPcs \cup {"delete"},
             job' \in [Jobs -> Job],
             \A j \in Jobs : job[j].state # "unused" => job'[j] = job[j],
             Types'
      PROVE  TypeInv'
  <2>1. handler[h].pc # "idle" /\ handler'[h].pc # "idle"
    BY <1>a DEF StartPcs, StopPcs
  <2>2. \A g \in Handlers : /\ handler'[g].job = handler[g].job
                            /\ handler[g].job # 0 => job'[handler[g].job] = job[handler[g].job]
    BY <1>a DEF TypeInv
  <2>3. \A g \in Handlers : handler[g].pc # "idle" => job'[handler[g].job] = job[handler[g].job]
    BY <2>2 DEF RightHandler
  <2>4. RightHandler'
    BY <1>a, <2>1, <2>2, <2>3 DEF RightHandler, StartPcs, StopPcs
  <2> QED BY <1>a, <2>2, <2>4 DEF TypeInv, TypeOK
<1>7. ASSUME NEW h \in Handlers, FetchOrStart(h) PROVE TypeInv'
  <2>1. [handler[h] EXCEPT !.pc = "startTracker", !.existed = (doc = "active")] \in Handling
    BY DEF Handling, StartPcs
  <2>2. /\ handler' \in [Handlers -> Handling]
        /\ handler'[h].pc = "startTracker" /\ handler'[h].job = handler[h].job
        /\ \A g \in Handlers : g # h => handler'[g] = handler[g]
    BY <1>7, <2>1 DEF FetchOrStart, Types, Handling
  <2>3. Types'
    BY <1>7, <2>2 DEF FetchOrStart, Types
  <2>4. handler[h].pc \in StartPcs /\ "startTracker" \in StartPcs \cap Pcs
    BY <1>7 DEF FetchOrStart, At, StartPcs, Pcs
  <2>5. UNCHANGED job /\ job \in [Jobs -> Job]
    BY <1>7 DEF FetchOrStart, Types
  <2> QED BY <1>a, <2>2, <2>3, <2>4, <2>5
\* The steps that go on with Goto.
<1>b. ASSUME NEW h \in Handlers, NEW pc \in Pcs, Goto(h, pc),
             \/ handler[h].pc \in StartPcs /\ pc \in StartPcs \cup {"delete"}
             \/ handler[h].pc \in StopPcs /\ pc \in StopPcs \cup {"delete"},
             job' \in [Jobs -> Job],
             \A j \in Jobs : job[j].state # "unused" => job'[j] = job[j],
             handler' \in [Handlers -> Handling] => Types'
      PROVE  TypeInv'
  <2>1. /\ handler' \in [Handlers -> Handling]
        /\ handler'[h].pc = pc /\ handler'[h].job = handler[h].job
        /\ \A g \in Handlers : g # h => handler'[g] = handler[g]
    BY <1>b, GotoFacts
  <2> QED BY <1>a, <1>b, <2>1
<1>8. ASSUME NEW h \in Handlers, PutAutostop(h) PROVE TypeInv'
  <2>1. /\ handler[h].pc = "putAutostop" /\ Goto(h, "setRecording")
        /\ Put("stop", "delayed", handler[h].job)
    BY <1>8 DEF PutAutostop, At
  <2>2. /\ job' \in [Jobs -> Job]
        /\ \A j \in Jobs : job[j].state # "unused" => job'[j] = job[j]
    BY <2>1, PutFacts
  <2>3. handler' \in [Handlers -> Handling] => Types'
    BY <1>8, <2>2 DEF PutAutostop, Types
  <2>4. "putAutostop" \in StartPcs /\ "setRecording" \in StartPcs \cap Pcs
    BY DEF StartPcs, Pcs
  <2> QED BY <1>b, <2>1, <2>2, <2>3, <2>4
<1>9. ASSUME NEW h \in Handlers,
             \/ StartTracker(h) \/ EmitStarted(h) \/ SetRecording(h) \/ Stop(h)
             \/ StopTracker(h) \/ EmitStopped(h) \/ SetEnded(h)
      PROVE  TypeInv'
  <2>1. PICK pc \in Pcs :
          /\ Goto(h, pc)
          /\ \/ handler[h].pc \in StartPcs /\ pc \in StartPcs \cup {"delete"}
             \/ handler[h].pc \in StopPcs /\ pc \in StopPcs \cup {"delete"}
    BY <1>9 DEF StartTracker, EmitStarted, SetRecording, Stop, StopTracker, EmitStopped,
       SetEnded, Advance, At, Pcs, StartPcs, StopPcs
  <2>2. UNCHANGED job /\ job \in [Jobs -> Job]
    BY <1>9 DEF StartTracker, EmitStarted, SetRecording, Stop, StopTracker, EmitStopped,
       SetEnded, Advance, Types
  <2>3. events' \in [{"started", "stopped"} -> 0..2]
    BY <1>9 DEF StartTracker, EmitStarted, SetRecording, Stop, StopTracker, EmitStopped,
       SetEnded, Advance, Emits, Types
  <2>4. handler' \in [Handlers -> Handling] => Types'
    BY <1>9, <2>2, <2>3 DEF StartTracker, EmitStarted, SetRecording, Stop, StopTracker,
       EmitStopped, SetEnded, Advance, Types
  <2> QED BY <1>b, <2>1, <2>2, <2>4
<1>10. ASSUME UNCHANGED vars PROVE TypeInv'
  BY <1>10 DEF vars, TypeInv, TypeOK, Types, RightHandler
<1> QED BY <1>1, <1>2, <1>3, <1>4, <1>5, <1>6, <1>7, <1>8, <1>9, <1>10 DEF Next, Work

\* The initial state has the types.
LEMMA TypeInit == Init => TypeInv
<1>1. Unused \in Job /\ Idle \in Handling
  BY DEF Unused, Idle, Job, Handling
<1>2. Idle.pc = "idle" /\ Idle.job = 0
  BY DEF Idle
<1>3. Init => Types
  <2> SUFFICES ASSUME Init PROVE Types
    OBVIOUS
  <2>1. events \in [{"started", "stopped"} -> 0..2]
    BY DEF Init
  <2>2. job \in [Jobs -> Job] /\ handler \in [Handlers -> Handling]
    BY <1>1 DEF Init
  <2>3. leaked \in BOOLEAN
    BY DEF Init
  <2> QED BY <2>1, <2>2, <2>3 DEF Init, Types
<1>4. Init => \A h \in Handlers : handler[h].pc = "idle" /\ handler[h].job = 0
  BY <1>2 DEF Init
<1>5. Init => RightHandler
  BY <1>4 DEF RightHandler, StartPcs, StopPcs
<1> QED BY <1>3, <1>4, <1>5 DEF TypeInv, TypeOK

\* Every variable keeps its type, and no goroutine gets a job of the wrong kind, however
\* jobs are released, repeated and delayed (startRecording, stopRecording).
THEOREM TalkTypes == Spec => []TypeOK
<1>1. Spec => []TypeInv
  BY TypeInit, TypeStep, PTL DEF Spec
<1> QED BY <1>1, PTL DEF TypeInv

-------------------------------------------------------------------------------
AfterFetch == StartPcs \ {"fetchOrStart"}
AfterStop == StopPcs \ {"stop"}

\* A stop job, the request for one and a talk past LIVE all come from a start job that
\* has started the recording; whoever has been at records.Stop leaves it stopped.
StopInv ==
  /\ owner = "stop" \/ talk # "LIVE" => doc # "none"
  /\ \A j \in Jobs : job[j].kind = "stop" => doc # "none"
  /\ \A h \in Handlers : /\ handler[h].pc \in AfterFetch \cup StopPcs => doc # "none"
                         /\ handler[h].pc \in AfterStop => doc = "stopped"
  /\ EndedIsStopped

\* A talk past LIVE, and a goroutine that may make it so, has had its tracker started.
TrackInv ==
  /\ NoSilentRecording
  /\ \A h \in Handlers :
       handler[h].pc \in {"emitStarted", "putAutostop", "setRecording"} => tracker # "none"

\* A goroutine that will tell the peers of the start, or of the stop.
Starts(h) ==
  \/ handler[h].pc = "emitStarted"
  \/ handler[h].pc = "startTracker" /\ ~handler[h].existed
Stops(h) == handler[h].pc \in {"stopTracker", "emitStopped"}

\* Only the one goroutine that created the document tells of the start, and only the one
\* that stopped it tells of the stop, if it has not done so yet.
EventInv ==
  /\ doc = "none" => events["started"] = 0 /\ \A h \in Handlers : ~Starts(h)
  /\ doc # "stopped" => events["stopped"] = 0 /\ \A h \in Handlers : ~Stops(h)
  /\ \A h \in Handlers : /\ Starts(h) => events["started"] = 0
                         /\ Stops(h) => events["stopped"] = 0
  /\ \A g, h \in Handlers : (Starts(g) /\ Starts(h)) \/ (Stops(g) /\ Stops(h)) => g = h
  /\ EventsOnce

TalkInv == TypeInv /\ StopInv /\ TrackInv /\ EventInv

\* The steps that are not a goroutine's own, and those that end its work on a job.
LEMMA QueueStep ==
  ASSUME TalkInv,
         \/ \E op \in {"start", "stop"} : Request(op)
         \/ Answer \/ Expire \/ \E j \in Jobs : DelayEnds(j)
         \/ UNCHANGED vars
  PROVE  StopInv' /\ TrackInv' /\ EventInv'
<1>1. Types
  BY DEF TalkInv, TypeInv, TypeOK
<1>2. CASE \E op \in {"start", "stop"} : Request(op)
  BY <1>2 DEF Request, TalkInv, StopInv, TrackInv, EventInv, EndedIsStopped,
     NoSilentRecording, EventsOnce, Starts, Stops
<1>3. CASE Answer
  <2>1. \A j \in Jobs : job'[j].kind = "stop" => job[j].kind = "stop" \/ owner = "stop"
    <3>1. CASE UNCHANGED job
      BY <3>1
    <3>2. CASE Put(owner, "ready", 0)
      <4>1. owner \in {"start", "stop"}
        BY <1>1, <1>3 DEF Answer, Types
      <4>2. \A j \in Jobs : \/ job'[j] = job[j]
                            \/ job'[j] = [kind |-> owner, by |-> 0, state |-> "ready"]
        BY <1>1, <3>2, <4>1, PutFacts
      <4> QED BY <4>2
    <3> QED BY <1>3, <3>1, <3>2 DEF Answer
  <2> QED BY <1>3, <2>1 DEF Answer, TalkInv, StopInv, TrackInv, EventInv, EndedIsStopped,
     NoSilentRecording, EventsOnce, Starts, Stops
<1>4. CASE Expire
  BY <1>4 DEF Expire, TalkInv, StopInv, TrackInv, EventInv, EndedIsStopped,
     NoSilentRecording, EventsOnce, Starts, Stops
<1>5. CASE \E j \in Jobs : DelayEnds(j)
  <2>1. \A j \in Jobs : job'[j].kind = job[j].kind
    BY <1>1, <1>5, StateFacts DEF DelayEnds
  <2> QED BY <1>5, <2>1 DEF DelayEnds, TalkInv, StopInv, TrackInv, EventInv,
     EndedIsStopped, NoSilentRecording, EventsOnce, Starts, Stops
<1>6. CASE UNCHANGED vars
  BY <1>6 DEF vars, TalkInv, StopInv, TrackInv, EventInv, EndedIsStopped,
     NoSilentRecording, EventsOnce, Starts, Stops
<1> QED BY <1>2, <1>3, <1>4, <1>5, <1>6

\* A goroutine that takes a job, or is done with it.
LEMMA JobStep ==
  ASSUME TalkInv, NEW h \in Handlers,
         GiveUp(h) \/ Bury(h) \/ Delete(h) \/ \E j \in Jobs : Take(h, j)
  PROVE  StopInv' /\ TrackInv' /\ EventInv'
<1>1. Types /\ RightHandler
  BY DEF TalkInv, TypeInv, TypeOK
<1>2. UNCHANGED <<talk, doc, tracker, events, owner>>
  BY DEF GiveUp, Bury, Delete, Take
<1>3. \A j \in Jobs : job'[j].kind = job[j].kind
  <2>1. CASE GiveUp(h) \/ \E j \in Jobs : Take(h, j)
    BY <2>1 DEF GiveUp, Take
  <2>2. CASE Bury(h) \/ Delete(h)
    <3>1. handler[h].job \in Jobs
      BY <1>1, <2>2, FieldTypes DEF Bury, Delete, RightHandler, StartPcs, StopPcs
    <3> QED BY <1>1, <2>2, <3>1, StateFacts DEF Bury, Delete, Becomes
  <2> QED BY <2>1, <2>2
<1>4. /\ handler'[h].pc \in {"idle", "fetchOrStart", "stop"}
      /\ handler'[h].pc = "stop" => doc # "none"
      /\ \A g \in Handlers : g # h => handler'[g] = handler[g]
  <2>1. CASE GiveUp(h) \/ Bury(h) \/ Delete(h)
    BY <1>1, <2>1, RestFacts DEF GiveUp, Bury, Delete, Idle
  <2>2. ASSUME NEW j \in Jobs, Take(h, j)
        PROVE  /\ handler'[h].pc \in {"fetchOrStart", "stop"}
               /\ handler'[h].pc = "stop" => job[j].kind = "stop"
               /\ \A g \in Handlers : g # h => handler'[g] = handler[g]
    <3> DEFINE pc == IF job[j].kind = "start" THEN "fetchOrStart" ELSE "stop"
    <3>1. handler' = [handler EXCEPT ![h] = [pc |-> pc, job |-> j, existed |-> FALSE]]
      BY <2>2 DEF Take
    <3>2. job[j].kind \in {"start", "stop"}
      BY <1>1, FieldTypes
    <3>3. handler'[h].pc = pc /\ \A g \in Handlers : g # h => handler'[g] = handler[g]
      BY <1>1, <3>1 DEF Types
    <3> QED BY <3>2, <3>3
  <2> QED BY <2>1, <2>2 DEF TalkInv, StopInv
<1>5. StopInv'
  BY <1>2, <1>3, <1>4 DEF TalkInv, StopInv, EndedIsStopped, AfterFetch, AfterStop, StartPcs, StopPcs
<1>6. TrackInv'
  BY <1>2, <1>4 DEF TalkInv, TrackInv, NoSilentRecording
<1>7. \A g \in Handlers : /\ Starts(g)' => g # h /\ Starts(g)
                          /\ Stops(g)' => g # h /\ Stops(g)
  BY <1>4 DEF Starts, Stops
<1>8. EventInv'
  BY <1>2, <1>7 DEF TalkInv, EventInv, EventsOnce
<1> QED BY <1>5, <1>6, <1>8

\* startRecording.
LEMMA StartStep ==
  ASSUME TalkInv, NEW h \in Handlers,
         FetchOrStart(h) \/ StartTracker(h) \/ EmitStarted(h) \/ PutAutostop(h) \/ SetRecording(h)
  PROVE  StopInv' /\ TrackInv' /\ EventInv'
<1>1. Types /\ RightHandler
  BY DEF TalkInv, TypeInv, TypeOK
<1>2. CASE FetchOrStart(h)
  <2>1. /\ handler'[h].pc = "startTracker" /\ handler'[h].existed = (doc = "active")
        /\ \A g \in Handlers : g # h => handler'[g] = handler[g]
    BY <1>1, <1>2, FieldTypes DEF FetchOrStart, Types, Handling
  <2>2. /\ UNCHANGED <<talk, tracker, events, owner, job>>
        /\ handler[h].pc = "fetchOrStart" /\ doc # "stopped" /\ doc' = "active"
    BY <1>2 DEF FetchOrStart, At
  <2>3. StopInv'
    BY <2>1, <2>2 DEF TalkInv, StopInv, EndedIsStopped, AfterFetch, AfterStop, StartPcs, StopPcs
  <2>4. TrackInv'
    BY <2>1, <2>2 DEF TalkInv, TrackInv, NoSilentRecording
  <2>5. \A g \in Handlers : /\ Starts(g)' => Starts(g) \/ (g = h /\ doc = "none")
                            /\ Stops(g)' => g # h /\ Stops(g)
    BY <1>1, <2>1, <2>2 DEF Starts, Stops, Types
  <2> QED BY <2>2, <2>3, <2>4, <2>5 DEF TalkInv, EventInv, EventsOnce
<1>3. CASE StartTracker(h)
  <2>1. /\ handler'[h].pc = IF handler[h].existed THEN "setRecording" ELSE "emitStarted"
        /\ \A g \in Handlers : g # h => handler'[g] = handler[g]
    BY <1>1, <1>3, GotoFacts DEF StartTracker, Pcs, StartPcs
  <2>2. /\ UNCHANGED <<talk, doc, events, owner, job>>
        /\ handler[h].pc = "startTracker" /\ tracker' = "on"
    BY <1>3 DEF StartTracker, At
  <2>3. StopInv'
    BY <2>1, <2>2 DEF TalkInv, StopInv, EndedIsStopped, AfterFetch, AfterStop, StartPcs, StopPcs
  <2>4. TrackInv'
    BY <2>2 DEF TrackInv, NoSilentRecording
  <2>5. \A g \in Handlers : /\ Starts(g)' => Starts(g)
                            /\ Stops(g)' => Stops(g)
    BY <2>1, <2>2 DEF Starts, Stops
  <2> QED BY <2>2, <2>3, <2>4, <2>5 DEF TalkInv, EventInv, EventsOnce
<1>4. CASE EmitStarted(h)
  <2>1. /\ handler'[h].pc = "putAutostop"
        /\ \A g \in Handlers : g # h => handler'[g] = handler[g]
    BY <1>1, <1>4, GotoFacts DEF EmitStarted, Pcs, StartPcs
  <2>2. /\ UNCHANGED <<talk, doc, tracker, owner, job>>
        /\ handler[h].pc = "emitStarted" /\ Emits("started")
    BY <1>4 DEF EmitStarted, At
  <2>3. StopInv'
    BY <2>1, <2>2 DEF TalkInv, StopInv, EndedIsStopped, AfterFetch, AfterStop, StartPcs, StopPcs
  <2>4. TrackInv'
    BY <2>1, <2>2 DEF TalkInv, TrackInv, NoSilentRecording
  <2>5. Starts(h)
    BY <2>2 DEF Starts
  <2>6. events["started"] = 0 /\ doc # "none" /\ \A g \in Handlers : Starts(g) => g = h
    BY <2>5 DEF TalkInv, EventInv
  <2>7. events'["started"] = 1 /\ events'["stopped"] = events["stopped"]
    BY <1>1, <2>2, <2>6 DEF Emits, Types
  <2>8. \A g \in Handlers : ~Starts(g)' /\ (Stops(g)' => Stops(g))
    BY <2>1, <2>6 DEF Starts, Stops
  <2> QED BY <2>2, <2>3, <2>4, <2>6, <2>7, <2>8 DEF TalkInv, EventInv, EventsOnce
<1>5. CASE PutAutostop(h) \/ SetRecording(h)
  <2>1. /\ handler'[h].pc \in {"setRecording", "delete"}
        /\ \A g \in Handlers : g # h => handler'[g] = handler[g]
    BY <1>1, <1>5, GotoFacts DEF PutAutostop, SetRecording, Advance, Pcs, StartPcs
  <2>2. /\ UNCHANGED <<doc, tracker, events, owner>>
        /\ handler[h].pc \in {"putAutostop", "setRecording"}
        /\ talk' = talk \/ (talk = "LIVE" /\ talk' = "RECORDING")
    BY <1>5 DEF PutAutostop, SetRecording, Advance, At
  <2>3. doc # "none" /\ tracker # "none"
    BY <2>2 DEF TalkInv, StopInv, TrackInv, AfterFetch, StartPcs
  <2>4. StopInv'
    BY <2>1, <2>2, <2>3 DEF TalkInv, StopInv, EndedIsStopped, AfterFetch, AfterStop, StartPcs, StopPcs
  <2>5. TrackInv'
    BY <2>2, <2>3 DEF TrackInv, NoSilentRecording
  <2>6. \A g \in Handlers : /\ Starts(g)' => Starts(g)
                            /\ Stops(g)' => Stops(g)
    BY <2>1 DEF Starts, Stops
  <2> QED BY <2>2, <2>4, <2>5, <2>6 DEF TalkInv, EventInv, EventsOnce
<1> QED BY <1>2, <1>3, <1>4, <1>5

\* stopRecording.
LEMMA StopStep ==
  ASSUME TalkInv, NEW h \in Handlers,
         Stop(h) \/ StopTracker(h) \/ EmitStopped(h) \/ SetEnded(h)
  PROVE  StopInv' /\ TrackInv' /\ EventInv'
<1>1. Types /\ RightHandler
  BY DEF TalkInv, TypeInv, TypeOK
<1>2. CASE Stop(h)
  <2>1. /\ handler'[h].pc = IF doc = "active" THEN "stopTracker" ELSE "setEnded"
        /\ \A g \in Handlers : g # h => handler'[g] = handler[g]
    BY <1>1, <1>2, GotoFacts DEF Stop, Pcs, StopPcs
  <2>2. /\ UNCHANGED <<talk, tracker, events, owner, job>>
        /\ handler[h].pc = "stop" /\ doc' = IF doc = "active" THEN "stopped" ELSE doc
    BY <1>2 DEF Stop, At
  <2>3. doc \in {"active", "stopped"} /\ doc' = "stopped"
    BY <1>1, <2>2 DEF TalkInv, StopInv, StopPcs, Types
  <2>4. StopInv'
    BY <2>2, <2>3 DEF StopInv, EndedIsStopped
  <2>5. TrackInv'
    BY <2>1, <2>2 DEF TalkInv, TrackInv, NoSilentRecording
  <2>6. \A g \in Handlers : /\ Starts(g)' => Starts(g)
                            /\ Stops(g)' => Stops(g) \/ (g = h /\ doc = "active")
    BY <2>1 DEF Starts, Stops
  <2> QED BY <2>2, <2>3, <2>4, <2>5, <2>6 DEF TalkInv, EventInv, EventsOnce
<1>3. CASE StopTracker(h)
  <2>1. /\ handler'[h].pc \in {"emitStopped", "setEnded"}
        /\ \A g \in Handlers : g # h => handler'[g] = handler[g]
    BY <1>1, <1>3, GotoFacts DEF StopTracker, Pcs, StopPcs
  <2>2. /\ UNCHANGED <<talk, doc, events, owner, job>>
        /\ handler[h].pc = "stopTracker" /\ (tracker # "none" => tracker' # "none")
    BY <1>3 DEF StopTracker, At
  <2>3. doc = "stopped" /\ Stops(h)
    BY <2>2 DEF TalkInv, StopInv, AfterStop, StopPcs, Stops
  <2>4. StopInv'
    BY <2>2, <2>3 DEF TalkInv, StopInv, EndedIsStopped
  <2>5. TrackInv'
    BY <2>1, <2>2 DEF TalkInv, TrackInv, NoSilentRecording
  <2>6. \A g \in Handlers : (Starts(g)' => Starts(g)) /\ (Stops(g)' => Stops(g))
    BY <2>1, <2>3 DEF Starts, Stops
  <2> QED BY <2>2, <2>3, <2>4, <2>5, <2>6 DEF TalkInv, EventInv, EventsOnce
<1>4. CASE EmitStopped(h)
  <2>1. /\ handler'[h].pc = "setEnded"
        /\ \A g \in Handlers : g # h => handler'[g] = handler[g]
    BY <1>1, <1>4, GotoFacts DEF EmitStopped, Pcs, StopPcs
  <2>2. /\ UNCHANGED <<talk, doc, tracker, owner, job>>
        /\ handler[h].pc = "emitStopped" /\ Emits("stopped")
    BY <1>4 DEF EmitStopped, At
  <2>3. doc = "stopped" /\ Stops(h)
    BY <2>2 DEF TalkInv, StopInv, AfterStop, StopPcs, Stops
  <2>4. StopInv'
    BY <2>2, <2>3 DEF TalkInv, StopInv, EndedIsStopped
  <2>5. TrackInv'
    BY <2>1, <2>2 DEF TalkInv, TrackInv, NoSilentRecording
  <2>6. events["stopped"] = 0 /\ \A g \in Handlers : Stops(g) => g = h
    BY <2>3 DEF TalkInv, EventInv
  <2>7. events'["stopped"] = 1 /\ events'["started"] = events["started"]
    BY <1>1, <2>2, <2>6 DEF Emits, Types
  <2>8. \A g \in Handlers : ~Stops(g)' /\ (Starts(g)' => Starts(g))
    BY <2>1, <2>6 DEF Starts, Stops
  <2> QED BY <2>2, <2>3, <2>4, <2>5, <2>7, <2>8 DEF TalkInv, EventInv, EventsOnce
<1>5. CASE SetEnded(h)
  <2>1. /\ handler'[h].pc = "delete"
        /\ \A g \in Handlers : g # h => handler'[g] = handler[g]
    BY <1>1, <1>5, GotoFacts DEF SetEnded, Advance, Pcs
  <2>2. /\ UNCHANGED <<doc, tracker, events, owner, job>>
        /\ handler[h].pc = "setEnded"
        /\ talk' = talk \/ (talk = "RECORDING" /\ talk' = "ENDED")
    BY <1>5 DEF SetEnded, Advance, At
  <2>3. doc = "stopped"
    BY <2>2 DEF TalkInv, StopInv, AfterStop, StopPcs
  <2>4. StopInv'
    BY <2>2, <2>3 DEF TalkInv, StopInv, EndedIsStopped
  <2>5. TrackInv'
    BY <2>1, <2>2 DEF TalkInv, TrackInv, NoSilentRecording
  <2>6. \A g \in Handlers : (Starts(g)' => Starts(g)) /\ (Stops(g)' => Stops(g))
    BY <2>1 DEF Starts, Stops
  <2> QED BY <2>2, <2>4, <2>5, <2>6 DEF TalkInv, EventInv, EventsOnce
<1> QED BY <1>2, <1>3, <1>4, <1>5

LEMMA TalkStep == TalkInv /\ [Next]_vars => TalkInv'
<1> SUFFICES ASSUME TalkInv, [Next]_vars PROVE TalkInv'
  OBVIOUS
<1>1. TypeInv'
  BY TypeStep DEF TalkInv
<1>2. CASE \/ \E op \in {"start", "stop"} : Request(op)
           \/ Answer \/ Expire \/ \E j \in Jobs : DelayEnds(j)
           \/ UNCHANGED vars
  BY <1>1, <1>2, QueueStep DEF TalkInv
<1>3. ASSUME NEW h \in Handlers, Work(h) \/ GiveUp(h) \/ Bury(h) \/ \E j \in Jobs : Take(h, j)
      PROVE  TalkInv'
  BY <1>1, <1>3, JobStep, StartStep, StopStep DEF Work, TalkInv
<1> QED BY <1>2, <1>3 DEF Next

LEMMA TalkInit == Init => TalkInv
<1> SUFFICES ASSUME Init PROVE TalkInv
  OBVIOUS
<1>1. TypeInv
  BY TypeInit
<1>2. \A h \in Handlers : handler[h].pc = "idle"
  BY DEF Init, Idle
<1>3. \A j \in Jobs : job[j].kind = "start"
  BY DEF Init, Unused
<1>4. StopInv /\ TrackInv
  BY <1>2, <1>3 DEF Init, StopInv, TrackInv, EndedIsStopped, NoSilentRecording,
     AfterFetch, AfterStop, StartPcs, StopPcs
<1>5. \A h \in Handlers : ~Starts(h) /\ ~Stops(h)
  BY <1>2 DEF Starts, Stops
<1>6. events["started"] = 0 /\ events["stopped"] = 0
  BY DEF Init
<1>7. EventInv
  BY <1>5, <1>6 DEF EventInv, EventsOnce
<1> QED BY <1>1, <1>4, <1>7 DEF TalkInv

LEMMA TalkInvariant == Spec => []TalkInv
BY TalkInit, TalkStep, PTL DEF Spec

\* A talk has ended only when its recording was stopped, and no job that is still
\* delivered starts it again (stopRecording, FetchOrStart).
THEOREM EndedTalkIsStopped == Spec => []EndedIsStopped
<1>1. TalkInv => EndedIsStopped
  BY DEF TalkInv, StopInv
<1> QED BY <1>1, TalkInvariant, PTL

\* Nobody sees a talk as recording before a tracker was started for it, whichever of
\* the calls of startRecording failed and were repeated.
THEOREM RecordedTalkHasTracker == Spec => []NoSilentRecording
<1>1. TalkInv => NoSilentRecording
  BY DEF TalkInv, TrackInv
<1> QED BY <1>1, TalkInvariant, PTL

\* Peers are told of the start and of the stop at most once, with any number of
\* goroutines on any number of jobs (StartRecording, StopRecording of the RTC service).
THEOREM PeersAreToldOnce == Spec => []EventsOnce
<1>1. TalkInv => EventsOnce
  BY DEF TalkInv, EventInv
<1> QED BY <1>1, TalkInvariant, PTL

\* The state of a talk never goes back, and advances only with its recording, whatever
\* is delivered late (UpdateOne with StateIn).
THEOREM StateAdvances == Spec => TalkAdvances
<1> DEFINE Advances == \/ talk = "LIVE" /\ talk' = "RECORDING" /\ doc # "none"
                       \/ talk = "RECORDING" /\ talk' = "ENDED" /\ doc = "stopped"
<1>1. TalkInv /\ [Next]_vars => [talk # talk' => Advances]_vars
  <2> SUFFICES ASSUME TalkInv, Next, talk # talk' PROVE Advances
    BY DEF vars
  <2>1. PICK h \in Handlers : SetRecording(h) \/ SetEnded(h)
    BY DEF Next, Work, Request, Answer, Expire, DelayEnds, GiveUp, Bury, Delete, Take,
       FetchOrStart, StartTracker, EmitStarted, PutAutostop, Stop, StopTracker, EmitStopped
  <2> QED BY <2>1 DEF SetRecording, SetEnded, Advance, At, TalkInv, StopInv, AfterFetch,
     AfterStop, StartPcs, StopPcs
<1> QED BY <1>1, TalkInvariant, PTL DEF Spec, TalkAdvances
===============================================================================
