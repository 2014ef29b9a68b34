---------------------------- MODULE TrackerRuntime ----------------------------
(***************************************************************************)
(* The tracker runtime (src/services/tracker/tracker.go): a registry of    *)
(* one tracker per (room, role), started and stopped by RPC calls, and a   *)
(* Run goroutine that collects expired and failed entries and closes all   *)
(* of them on shutdown.                                                    *)
(*                                                                         *)
(* Goroutines interleave at the runtime mutex, at the mutex of an entry    *)
(* and around the two slow external calls (newTracker, Tracker.Close):     *)
(* what a goroutine does from a Lock to its Unlock without such a call is  *)
(* one action.  Runtime.ctx is left out: it is only the parent of the      *)
(* contexts of the entries, whose own cancelCtx is modelled.               *)
(***************************************************************************)
EXTENDS Integers, FiniteSets

CONSTANTS Callers,      \* goroutines that serve Start and Stop requests
          Keys,         \* (room, role) pairs
          Entries,      \* addresses of trackerEntry values
          Expiries,     \* values of expireAt callers ask for
          MaxCalls,     \* bound: requests served
          MaxTime,      \* bound: clock
          None, Free, Closer   \* no entry; nobody; a goroutine of closeTrackers

ASSUME RuntimeAssumption ==
  /\ IsFiniteSet(Callers) /\ IsFiniteSet(Entries)
  /\ Expiries \subseteq Nat /\ MaxCalls \in Nat /\ MaxTime \in Nat
  /\ None \notin Entries
  /\ Free \notin Callers /\ Closer \notin Callers /\ Free # Closer

VARIABLES
  mutex,          \* Runtime.mutex: "free", held by "run", or "leaked" by StopTracker
  shuttingDown,   \* Runtime.shuttingDown
  trackers,       \* Runtime.trackers: key -> entry or None
  trackersClosed, \* Runtime.trackersClosed, the counter of the WaitGroup
  entry,          \* the trackerEntry values, see Entry
  call,           \* what each caller executes, see Call
  run,            \* where the Run goroutine is: pc, and the locals of its loop
  env             \* clock, cancellation of Run's context, requests served, crash

vars == <<mutex, shuttingDown, trackers, trackersClosed, entry, call, run, env>>

\* key, closers (goroutines of closeTrackers that have not locked the entry) and
\* running (trackers newTracker made for it and nobody closed) are not fields of
\* the code's struct.
Entry == [status : {"unused", "init", "live", "closing", "closed", "error"},
          key : Keys \cup {None}, expireAt : Nat, cancelled : BOOLEAN,
          lock : Callers \cup {Free, Closer}, closers : Nat, running : Int]

\* on is the entry a call has found.
Call == [op : {"idle", "starting", "creating", "stopping"},
         on : Entries \cup {None}]

TypeOK ==
  /\ mutex \in {"free", "run", "leaked"}
  /\ shuttingDown \in BOOLEAN
  /\ trackers \in [Keys -> Entries \cup {None}]
  /\ trackersClosed \in Int
  /\ entry \in [Entries -> Entry]
  /\ call \in [Callers -> Call]
  /\ run \in [pc : {"sleep", "gc", "wait", "done"}, todo : SUBSET Keys,
              toClose : SUBSET Entries, at : Nat]
  /\ env \in [now : Nat, ctxDone : BOOLEAN, calls : Nat, crashed : BOOLEAN]

Unused == [status |-> "unused", key |-> None, expireAt |-> 0, cancelled |-> FALSE,
           lock |-> Free, closers |-> 0, running |-> 0]

Init ==
  /\ mutex = "free" /\ shuttingDown = FALSE
  /\ trackers = [k \in Keys |-> None]
  /\ trackersClosed = 0
  /\ entry = [e \in Entries |-> Unused]
  /\ call = [p \in Callers |-> [op |-> "idle", on |-> None]]
  /\ run = [pc |-> "sleep", todo |-> {}, toClose |-> {}, at |-> 0]
  /\ env = [now |-> 0, ctxDone |-> FALSE, calls |-> 0, crashed |-> FALSE]

-------------------------------------------------------------------------------
(* RPC callers *)

\* A request arrives and its handler gets the runtime mutex.
Request(p) ==
  /\ ~env.crashed /\ mutex = "free"
  /\ call[p].op = "idle" /\ env.calls < MaxCalls
  /\ env' = [env EXCEPT !.calls = @ + 1]

Perform(p, op, e) ==
  call' = [call EXCEPT ![p] = [op |-> op, on |-> e]]

Return(p) == call' = [call EXCEPT ![p] = [op |-> "idle", on |-> None]]

\* StartTracker and StopTracker fail once Run is shutting down.
Refuse(p) ==
  /\ Request(p) /\ shuttingDown
  /\ UNCHANGED <<mutex, shuttingDown, trackers, trackersClosed, entry, call, run>>

\* StartTracker under the runtime mutex: find or allocate the entry and count
\* the call in the wait group, in both cases.
StartRegister(p, k, t) ==
  /\ Request(p) /\ ~shuttingDown
  /\ \E e \in Entries :
       /\ \/ trackers[k] = e /\ entry' = [entry EXCEPT ![e].expireAt = t]
          \/ /\ trackers[k] = None /\ entry[e].status = "unused"
             /\ entry' = [entry EXCEPT ![e].status = "init", ![e].key = k,
                                       ![e].expireAt = t]
       /\ trackers' = [trackers EXCEPT ![k] = e]
       /\ Perform(p, "starting", e)
  /\ trackersClosed' = trackersClosed + 1
  /\ UNCHANGED <<mutex, shuttingDown, run>>

\* Variant: entry.Lock is forgotten.
LocksNothing(p, op, e) == ~env.crashed /\ call[p].op = op /\ call[p].on = e

\* Caller p is at op and gets the lock of its entry e.
Locks(p, op, e) ==
  /\ ~env.crashed /\ call[p].op = op
  /\ call[p].on = e /\ entry[e].lock = Free

StartFindsLive(p, e) ==
  /\ Locks(p, "starting", e) /\ entry[e].status = "live"
  /\ Return(p)
  /\ UNCHANGED <<mutex, shuttingDown, trackers, trackersClosed, entry, run, env>>

\* Not live, whatever else it is: newTracker is called under the entry's lock.
StartCreate(p, e) ==
  /\ Locks(p, "starting", e) /\ entry[e].status # "live"
  /\ entry' = [entry EXCEPT ![e].lock = p]
  /\ call' = [call EXCEPT ![p].op = "creating"]
  /\ UNCHANGED <<mutex, shuttingDown, trackers, trackersClosed, run, env>>

\* newTracker returned, with a tracker or with an error.
StartReturn(p, e) ==
  /\ ~env.crashed /\ call[p].op = "creating" /\ call[p].on = e
  /\ \/ /\ entry' = [entry EXCEPT ![e].status = "live", ![e].lock = Free,
                                  ![e].running = @ + 1]
        /\ Return(p)
     \/ /\ entry' = [entry EXCEPT ![e].status = "error", ![e].lock = Free]
        /\ Return(p)
  /\ UNCHANGED <<mutex, shuttingDown, trackers, trackersClosed, run, env>>

\* StopTracker finds the entry and starts a closing goroutine.
StopFound(p, k) ==
  /\ Request(p) /\ ~shuttingDown
  /\ \E e \in Entries :
       /\ trackers[k] = e
       /\ entry' = [entry EXCEPT ![e].closers = @ + 1]
       /\ Perform(p, "stopping", e)
  /\ UNCHANGED <<mutex, shuttingDown, trackers, trackersClosed, run>>

\* StopTracker does not find the entry: it returns without unlocking the mutex.
StopNotFound(p, k) ==
  /\ Request(p) /\ ~shuttingDown
  /\ trackers[k] = None
  /\ mutex' = "leaked"
  /\ UNCHANGED <<shuttingDown, trackers, trackersClosed, entry, call, run>>

\* Variant: entry.Unlock is forgotten.
StopReturnLocked(p, e) ==
  /\ Locks(p, "stopping", e)
  /\ Return(p)
  /\ entry' = [entry EXCEPT ![e].lock = p]
  /\ UNCHANGED <<mutex, shuttingDown, trackers, trackersClosed, run, env>>

\* StopTracker reads the entry, which its goroutine has closed or not.
StopReturn(p, e) ==
  /\ Locks(p, "stopping", e)
  /\ Return(p)
  /\ UNCHANGED <<mutex, shuttingDown, trackers, trackersClosed, entry, run, env>>

-------------------------------------------------------------------------------
(* Goroutines of closeTrackers *)

Settled == {"error", "closing", "closed"}

CloseSkip(e) ==
  /\ ~env.crashed /\ entry[e].closers > 0 /\ entry[e].lock = Free
  /\ entry[e].status \in Settled
  /\ entry' = [entry EXCEPT ![e].closers = @ - 1]
  /\ UNCHANGED <<mutex, shuttingDown, trackers, trackersClosed, call, run, env>>

\* The goroutine calls Tracker.Close.  An entry whose creation has not begun has
\* no tracker: the nil dereference takes the process down.
CloseBegin(e) ==
  /\ ~env.crashed /\ entry[e].closers > 0 /\ entry[e].lock = Free
  /\ entry[e].status \notin Settled
  /\ entry' = [entry EXCEPT ![e].closers = @ - 1, ![e].status = "closing",
                            ![e].lock = Closer]
  /\ env' = [env EXCEPT !.crashed = (entry[e].status = "init")]
  /\ UNCHANGED <<mutex, shuttingDown, trackers, trackersClosed, call, run>>

\* Tracker.Close returned.
CloseEnd(e) ==
  /\ ~env.crashed /\ entry[e].lock = Closer
  /\ entry' = [entry EXCEPT ![e].running = @ - 1, ![e].cancelled = TRUE,
                            ![e].status = "closed", ![e].lock = Free]
  /\ trackersClosed' = trackersClosed - 1
  /\ UNCHANGED <<mutex, shuttingDown, trackers, call, run, env>>

\* closeTrackers: one goroutine for each entry of a set.
SpawnClosers(S) ==
  entry' = [e \in Entries |->
              [entry[e] EXCEPT !.closers = IF e \in S THEN @ + 1 ELSE @]]

-------------------------------------------------------------------------------
(* The Run goroutine *)

\* gcPeriod elapsed: take the mutex and visit every key.
GCBegin ==
  /\ ~env.crashed /\ run.pc = "sleep" /\ mutex = "free"
  /\ mutex' = "run"
  /\ run' = [pc |-> "gc", todo |-> {k \in Keys : trackers[k] # None},
             toClose |-> {}, at |-> env.now]
  /\ UNCHANGED <<shuttingDown, trackers, trackersClosed, entry, call, env>>

\* Variant: expiry is ignored.
CollectableOnError(e) == entry[e].status = "error"

Collectable(e) == entry[e].status = "error" \/ entry[e].expireAt <= run.at

\* One key of the loop: the status is read without the lock of the entry.
GCVisit(k) ==
  /\ ~env.crashed /\ run.pc = "gc" /\ k \in run.todo
  /\ IF Collectable(trackers[k])
     THEN /\ trackers' = [trackers EXCEPT ![k] = None]
          /\ run' = [run EXCEPT !.todo = @ \ {k}, !.toClose = @ \cup {trackers[k]}]
     ELSE /\ run' = [run EXCEPT !.todo = @ \ {k}]
          /\ UNCHANGED trackers
  /\ UNCHANGED <<mutex, shuttingDown, trackersClosed, entry, call, env>>

\* Unlock, and close what was collected.
GCEnd ==
  /\ ~env.crashed /\ run.pc = "gc" /\ run.todo = {}
  /\ mutex' = "free"
  /\ SpawnClosers(run.toClose)
  /\ run' = [run EXCEPT !.pc = "sleep", !.toClose = {}]
  /\ UNCHANGED <<shuttingDown, trackers, trackersClosed, call, env>>

\* The context is cancelled: refuse new calls, close what is registered.
RunShutdown ==
  /\ ~env.crashed /\ run.pc = "sleep" /\ env.ctxDone /\ mutex = "free"
  /\ shuttingDown' = TRUE
  /\ SpawnClosers({trackers[k] : k \in Keys})
  /\ run' = [run EXCEPT !.pc = "wait"]
  /\ UNCHANGED <<mutex, trackers, trackersClosed, call, env>>

\* Variant: Run does not wait.
RunReturnAtOnce ==
  /\ ~env.crashed /\ run.pc = "wait"
  /\ run' = [run EXCEPT !.pc = "done"]
  /\ UNCHANGED <<mutex, shuttingDown, trackers, trackersClosed, entry, call, env>>

\* trackersClosed.Wait returned.
RunReturn ==
  /\ ~env.crashed /\ run.pc = "wait" /\ trackersClosed = 0
  /\ run' = [run EXCEPT !.pc = "done"]
  /\ UNCHANGED <<mutex, shuttingDown, trackers, trackersClosed, entry, call, env>>

-------------------------------------------------------------------------------
\* External: time passes, the process is asked to stop.
Tick ==
  /\ env.now < MaxTime
  /\ env' = [env EXCEPT !.now = @ + 1]
  /\ UNCHANGED <<mutex, shuttingDown, trackers, trackersClosed, entry, call, run>>

CancelContext ==
  /\ ~env.ctxDone
  /\ env' = [env EXCEPT !.ctxDone = TRUE]
  /\ UNCHANGED <<mutex, shuttingDown, trackers, trackersClosed, entry, call, run>>

EntryStep(p, e) ==
  StartFindsLive(p, e) \/ StartCreate(p, e) \/ StartReturn(p, e) \/ StopReturn(p, e)

CloserStep(e) == CloseSkip(e) \/ CloseBegin(e) \/ CloseEnd(e)

GCStep == GCBegin \/ GCEnd \/ \E k \in Keys : GCVisit(k)

Next ==
  \/ \E p \in Callers : Refuse(p)
  \/ \E p \in Callers, k \in Keys : StopFound(p, k) \/ StopNotFound(p, k)
  \/ \E p \in Callers, k \in Keys, t \in Expiries : StartRegister(p, k, t)
  \/ \E p \in Callers, e \in Entries : EntryStep(p, e)
  \/ \E e \in Entries : CloserStep(e)
  \/ GCStep \/ RunShutdown \/ RunReturn
  \/ Tick \/ CancelContext

Spec == Init /\ [][Next]_vars

\* Every goroutine that can run does: newTracker and Tracker.Close return, Run is
\* scheduled, and select, offered a cancelled context again and again, takes it.
Fairness ==
  /\ \A p \in Callers, e \in Entries : WF_vars(EntryStep(p, e))
  /\ \A e \in Entries : WF_vars(CloserStep(e))
  /\ WF_vars(GCStep) /\ SF_vars(RunShutdown) /\ WF_vars(RunReturn)
  /\ WF_vars(Tick)

FairSpec == Spec /\ Fairness

-------------------------------------------------------------------------------
(* Properties *)

Starting == {p \in Callers : call[p].op \in {"starting", "creating"}}
Alive == {e \in Entries : entry[e].running > 0}

\* Run returns, and the process exits, only after every tracker is closed and no
\* StartTracker is about to create another one (Run, closeTrackers, StartTracker).
ShutdownComplete == run.pc = "done" => Alive = {} /\ Starting = {}

\* The wait group never counts less than what Run must wait for: the calls that
\* may still create a tracker and the trackers that run (Add and Done).
WaitGroupCovers == trackersClosed >= Cardinality(Starting) + Cardinality(Alive)

\* An entry has a running tracker exactly while it is live or being closed: none
\* is closed twice and none is overwritten by a second one (StartTracker on a
\* live, closed or failed entry against the goroutines of closeTrackers).
OneTrackerPerEntry ==
  ~env.crashed => \A e \in Entries :
    entry[e].running = IF entry[e].status \in {"live", "closing"} THEN 1 ELSE 0

\* A running tracker that no goroutine is going to close: it left the registry,
\* or was created on an entry that Run had already visited while shutting down.
Stranded(e) ==
  /\ e \in Alive /\ entry[e].closers = 0 /\ entry[e].lock # Closer
  /\ e \notin run.toClose
  /\ shuttingDown \/ trackers[entry[e].key] # e

\* More was added to the wait group than will ever be subtracted: a StartTracker
\* call that found a live tracker or failed is never subtracted.
Overcounted == trackersClosed > Cardinality(Starting) + Cardinality(Alive)

\* After Run's context is cancelled, Run returns, unless one of the four faults of
\* the code got in the way: a leaked mutex, a crash, an overcounted wait group or
\* a stranded tracker (Run, the ctx.Done branch).
ShutdownTerminates ==
  env.ctxDone ~> \/ run.pc = "done"
                 \/ env.crashed \/ mutex = "leaked"
                 \/ Overcounted \/ \E e \in Entries : Stranded(e)

\* A registered tracker whose expiry has passed is closed or renewed, unless the
\* mutex leaked, the process crashed, or Run was told to stop (the GC cycle of Run).
ExpiredIsCollected ==
  \A e \in Entries, k \in Keys :
    (e \in Alive /\ trackers[k] = e /\ entry[e].expireAt <= env.now)
      ~> \/ e \notin Alive \/ entry[e].expireAt > env.now
         \/ env.crashed \/ mutex = "leaked" \/ env.ctxDone

\* What tracker.go:128 says of Run: "remove and close expired peer".  Every tracker
\* that outlives its expiry is closed, registered or not.
ExpiredIsClosed ==
  \A e \in Entries :
    (e \in Alive /\ entry[e].expireAt <= env.now)
      ~> \/ e \notin Alive \/ entry[e].expireAt > env.now
         \/ env.crashed \/ mutex = "leaked" \/ env.ctxDone

\* What tracker.go:48 says: "Context passed to `newTracker` will be cancelled only
\* when tracker is closed".
LiveTrackerHasContext ==
  \A e \in Entries : entry[e].status = "live" => ~entry[e].cancelled
===============================================================================
