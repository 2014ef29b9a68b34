---------------------------- MODULE ServiceProcess ----------------------------
(***************************************************************************)
(* The processes of the system (src/services/cmd/*/main.go): what each     *)
(* starts, in which order it stops it after an interrupt, and what is      *)
(* still at work then.  The consumers share one library (beanstalk.Consumer *)
(* of vendor/github.com/prep/beanstalk); the tracker runs a RecordTracker. *)
(* Of the tracker's Runtime (TrackerRuntime) only what keeps its Run from  *)
(* returning is here.                                                      *)
(*                                                                         *)
(* A process that fails is started again (restart: on-failure), one that   *)
(* exits is not.  Requests in flight are left out: main cancels the context *)
(* it gives to Server.Shutdown first, so that no step waits for them.      *)
(* Reservations that lapse while a handler works are in TrackProcessing.   *)
(***************************************************************************)
EXTENDS RecordTracker, Sequences

CONSTANTS Services,    \* the processes, of which a behaviour follows one
          Jobs,        \* jobs in the tubes the service consumes
          Emitting,    \* those whose handler ends by putting another job
          Workers,     \* goroutines of the consumer
          MaxAttempts, \* bound: deliveries after which a job is too old
          MaxStarts,   \* bound: the last start is neither interrupted nor killed
          NoJob         \* no job

ASSUME ProcessAssumption ==
  /\ Services \subseteq {"rtc", "confa", "iam", "tracker", "avp", "sender", "gateway"}
  /\ Emitting \subseteq Jobs /\ NoJob \notin Jobs
  /\ IsFiniteSet(Jobs) /\ IsFiniteSet(Workers)
  /\ MaxAttempts \in Nat \ {0} /\ MaxStarts \in Nat \ {0}

-------------------------------------------------------------------------------
(* The mains: the goroutines each starts, and the steps after the interrupt.   *)
(* "web" and "rpc" are Server.Shutdown, "producer" is Producer.Stop, and       *)
(* "consumer" and "runtime" wait for consumer.Receive and Runtime.Run.         *)

RtcMain ==
  [starts |-> {"web", "rpc", "watcher", "consumer"},
   stops |-> <<"web", "rpc", "producer", "consumer">>]

ConfaMain ==
  [starts |-> {"web", "consumer"}, stops |-> <<"web", "producer", "consumer">>]

IamMain == [starts |-> {"web", "rpc"}, stops |-> <<"web", "rpc", "producer">>]

TrackerMain == [starts |-> {"rpc", "runtime"}, stops |-> <<"rpc", "producer", "runtime">>]

AvpMain == [starts |-> {"consumer"}, stops |-> <<"consumer", "producer">>]

SenderMain == [starts |-> {"consumer"}, stops |-> <<"consumer">>]

\* The main goroutine itself listens, and nobody tells the server to stop.
GatewayMain == [starts |-> {"web"}, stops |-> <<"listening", "web">>]

Main == [rtc |-> RtcMain, confa |-> ConfaMain, iam |-> IamMain, tracker |-> TrackerMain,
         avp |-> AvpMain, sender |-> SenderMain, gateway |-> GatewayMain]

VARIABLES
  service,    \* the service the process runs
  process,    \* status, starts, interrupted (its context is cancelled), and the
              \* steps main still has to take
  producing,  \* the producer has connections
  worker,     \* the goroutines of the consumer: pc and job
  job,        \* the jobs: state, deliveries, and what handlers did for them
  late,       \* tracks whose upload begins after the interrupt
  runtime     \* of the tracker process, what requests made of Runtime (TrackerRuntime)

ownVars == <<service, process, producing, worker, job, late, runtime>>
allVars == <<trackerVars, ownVars>>

Starts(goroutine) == goroutine \in Main[service].starts

ProcessTypeOK ==
  /\ service \in Services
  /\ process \in [status : {"running", "exited", "failed"}, starts : 1..MaxStarts,
                  interrupted : BOOLEAN, todo : Seq({"web", "rpc", "producer", "consumer",
                                                     "runtime", "listening"})]
  /\ producing \in BOOLEAN
  /\ worker \in [Workers -> [pc : {"asking", "working", "emitting", "deleting",
                                   "retrying", "returned"}, job : Jobs \cup {NoJob}]]
  /\ job \in [Jobs -> [state : {"ready", "reserved", "deleted", "buried"},
                       attempts : 0..MaxAttempts, done : BOOLEAN, emitted : BOOLEAN]]
  /\ late \subseteq Tracks
  /\ runtime \in {"sound", "overcounted", "stuck"}

\* The workers right after the start.
Fresh(s) == [w \in Workers |->
               [pc |-> IF "consumer" \in Main[s].starts THEN "asking" ELSE "returned",
                job |-> NoJob]]

ProcessInit ==
  /\ TrackerInit
  /\ service \in Services
  /\ process = [status |-> "running", starts |-> 1, interrupted |-> FALSE,
                todo |-> Main[service].stops]
  /\ producing = TRUE
  /\ worker = Fresh(service)
  /\ job = [j \in Jobs |-> [state |-> "ready", attempts |-> 0,
                            done |-> FALSE, emitted |-> FALSE]]
  /\ late = {} /\ runtime = "sound"

Running == process.status = "running"

-------------------------------------------------------------------------------
(* main *)

\* os.Interrupt arrives, and main cancels the context of everything it started.
Interrupt ==
  /\ Running /\ ~process.interrupted /\ process.starts < MaxStarts
  /\ process' = [process EXCEPT !.interrupted = TRUE]
  /\ late' = {t \in Tracks : track[t].pc \in {"none", "admitted", "starting", "writing",
                                              "announcing"}}
  /\ UNCHANGED <<trackerVars, service, producing, worker, job, runtime>>

\* Main takes its next step.
Steps(name) ==
  /\ Running /\ process.interrupted
  /\ process.todo # <<>> /\ Head(process.todo) = name
  /\ process' = [process EXCEPT !.todo = Tail(@)]
  /\ UNCHANGED <<trackerVars, service, worker, job, late, runtime>>

\* The context is cancelled already: Shutdown closes the listener and returns.
StopServer == (Steps("web") \/ Steps("rpc")) /\ UNCHANGED producing

StopProducer == Steps("producer") /\ producing' = FALSE

AwaitConsumer ==
  /\ Steps("consumer") /\ \A w \in Workers : worker[w].pc = "returned"
  /\ UNCHANGED producing

\* Run has closed the tracker, and trackersClosed.Wait returns; a process that was
\* started again has no tracker.
AwaitRuntime ==
  /\ Steps("runtime") /\ runtime = "sound" /\ (closed \/ process.starts > 1)
  /\ UNCHANGED producing

\* The connections close with the process: the server releases what they reserved.
Released ==
  [j \in Jobs |-> IF job[j].state = "reserved" THEN [job[j] EXCEPT !.state = "ready"]
                                               ELSE job[j]]

Ends(status) ==
  /\ process' = [process EXCEPT !.status = status]
  /\ job' = Released
  /\ UNCHANGED <<trackerVars, service, producing, worker, late, runtime>>

Exit == Running /\ process.interrupted /\ process.todo = <<>> /\ Ends("exited")

\* A server cannot listen and calls log.Fatal, a goroutine panics, or the process is
\* killed: SIGTERM is not handled.
Crash == Running /\ process.starts < MaxStarts /\ Ends("failed")

\* SharedWatcher.Serve returns context.Canceled and not ErrShuttingDown: main's
\* goroutine calls log.Fatal, whatever main is waiting for.
WatcherFails == Running /\ process.interrupted /\ Starts("watcher") /\ Ends("failed")

\* restart: on-failure.
Restart ==
  /\ process.status = "failed" /\ process.starts < MaxStarts
  /\ process' = [status |-> "running", starts |-> process.starts + 1,
                 interrupted |-> FALSE, todo |-> Main[service].stops]
  /\ producing' = TRUE /\ worker' = Fresh(service) /\ runtime' = "sound"
  /\ UNCHANGED <<trackerVars, service, job, late>>

-------------------------------------------------------------------------------
(* Consumer.worker, and a JobHandle *)

WorkerAt(w, pc) ==
  /\ Running /\ worker[w].pc = pc
  /\ UNCHANGED <<trackerVars, service, process, producing, late, runtime>>

Goes(w, pc) == worker' = [worker EXCEPT ![w].pc = pc]

\* A job may be handed over even when the context is cancelled.
Take(w, j) ==
  /\ WorkerAt(w, "asking") /\ job[j].state = "ready"
  /\ worker' = [worker EXCEPT ![w] = [pc |-> "working", job |-> j]]
  /\ job' = [job EXCEPT ![j].state = "reserved",
                        ![j].attempts = IF @ < MaxAttempts THEN @ + 1 ELSE @]

WorkerReturns(w) ==
  /\ WorkerAt(w, "asking") /\ process.interrupted
  /\ Goes(w, "returned") /\ UNCHANGED job

\* The handler has a context of its own, so it ends the job: its effect, ...
Work(w) ==
  /\ WorkerAt(w, "working")
  /\ \/ /\ job' = [job EXCEPT ![worker[w].job].done = TRUE]
        /\ Goes(w, IF worker[w].job \in Emitting THEN "emitting" ELSE "deleting")
     \/ Goes(w, "retrying") /\ UNCHANGED job

\* ... the job it puts, which a stopped producer refuses, ...
Emit(w) ==
  /\ WorkerAt(w, "emitting")
  /\ \/ /\ producing
        /\ job' = [job EXCEPT ![worker[w].job].emitted = TRUE]
        /\ Goes(w, "deleting")
     \/ Goes(w, "retrying") /\ UNCHANGED job

Settles(w, state) ==
  /\ job' = [job EXCEPT ![worker[w].job].state = state]
  /\ worker' = [worker EXCEPT ![w] = [pc |-> "asking", job |-> NoJob]]

\* ... and jobDelete, or jobRetry when something failed.
Delete(w) == WorkerAt(w, "deleting") /\ Settles(w, "deleted")

\* Variant: a job that failed is deleted.
RetryDeleting(w) == WorkerAt(w, "retrying") /\ Settles(w, "deleted")

Retry(w) ==
  /\ WorkerAt(w, "retrying")
  /\ \/ Settles(w, "buried")
     \/ job[worker[w].job].attempts < MaxAttempts /\ Settles(w, "ready")

-------------------------------------------------------------------------------
(* The tracker *)

\* A step of the tracker, in the process that started it.  Stopped producers put
\* nothing, and an upload that begins with the cancelled context fails.
Records(A) ==
  /\ service = "tracker" /\ Running /\ process.starts = 1
  /\ A
  /\ producing \/ \A t \in Tracks : track'[t].emitted = track[t].emitted
  /\ \A t \in late : track'[t].stored = track[t].stored
  /\ UNCHANGED ownVars

\* Runtime.Run closes the tracker, if it can.
RunCloses == process.interrupted /\ runtime # "stuck" /\ \E c \in Closers : Close(c)

\* A request does to Runtime what its Run, that has not returned, never recovers from.
RuntimeBecomes(fault) ==
  /\ service = "tracker" /\ Running /\ process.todo # <<>>
  /\ runtime' = fault
  /\ UNCHANGED <<trackerVars, service, process, producing, worker, job, late>>

\* A StartTracker finds a live tracker, or fails: nobody calls trackersClosed.Done.
StartOvercounts == runtime = "sound" /\ RuntimeBecomes("overcounted")

\* StopTracker finds nothing and keeps the mutex, so that Run closes nothing any more;
\* nor does it close a tracker that was made on an entry no longer registered.
StopLeaks == runtime # "stuck" /\ RuntimeBecomes("stuck")

ProcessNext ==
  \/ Interrupt \/ StopServer \/ StopProducer \/ AwaitConsumer \/ AwaitRuntime
  \/ Exit \/ Crash \/ WatcherFails \/ Restart \/ StartOvercounts \/ StopLeaks
  \/ \E w \in Workers : \/ \E j \in Jobs : Take(w, j)
                        \/ WorkerReturns(w) \/ Work(w) \/ Emit(w) \/ Delete(w) \/ Retry(w)
  \/ Records(TrackerNext)

\* Goroutines run, calls return, and what failed is started again.  A track lasts as
\* long as the speaker likes, but ends when the room is disconnected: ReadRTP returns
\* io.EOF.
ProcessFairness ==
  /\ WF_allVars(StopServer \/ StopProducer \/ AwaitConsumer \/ AwaitRuntime \/ Exit)
  /\ WF_allVars(Restart)
  /\ \A w \in Workers : /\ WF_allVars(Work(w) \/ Emit(w) \/ Delete(w) \/ Retry(w))
                        /\ WF_allVars(WorkerReturns(w))
                        /\ WF_allVars(\E j \in Jobs : Take(w, j))
  /\ \A t \in Tracks : /\ WF_allVars(Records(AddWriter(t)))
                       /\ WF_allVars(Records(Write(t))) /\ WF_allVars(Records(Report(t)))
                       /\ WF_allVars(Records(~connected /\ TrackEnds(t)))
  /\ WF_allVars(Records(RunCloses))
  /\ \A c \in Closers : WF_allVars(Records(CloseReturns(c)))

ProcessSpec == ProcessInit /\ [][ProcessNext]_allVars /\ ProcessFairness

-------------------------------------------------------------------------------
(* Properties *)

\* Nothing the process started to finish is cut off by its end.
Orderly ==
  /\ process.status = "exited"
  /\ \A w \in Workers : worker[w].pc = "returned"
  /\ service = "tracker" => closed \/ process.starts > 1

\* After an interrupt main waits for its workers and its tracker, and for nothing that
\* never comes: it exits and has cut off neither, unless a goroutine has failed.  The
\* gateway never stops, and neither does a tracker process whose runtime a request has
\* spoilt; it still closes its tracker if it is only overcounted (the steps after the
\* signal in every main.go, Runtime.Run).
ShutdownEnds ==
  process.interrupted /\ service # "gateway" ~>
    \/ process.status = "failed" \/ Orderly
    \/ runtime = "stuck"
    \/ runtime = "overcounted" /\ (closed \/ process.starts > 1)

\* However often the process fails or is interrupted in the middle of a job, the job
\* has its effect and puts what follows from it before it is deleted, or is buried, or
\* is back on the queue of a service that was stopped (Consumer.worker, jobRetry).
NoJobIsLost ==
  Starts("consumer") =>
    \A j \in Jobs :
      <>( \/ job[j].state = "deleted" /\ job[j].done /\ (j \in Emitting => job[j].emitted)
          \/ job[j].state = "buried"
          \/ job[j].state = "ready" /\ process.status = "exited" )
===============================================================================
