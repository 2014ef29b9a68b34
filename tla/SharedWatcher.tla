---------------------------- MODULE SharedWatcher ----------------------------
(***************************************************************************)
(* event.SharedWatcher and event.sharedRoom (src/services/event/shared.go):*)
(* a cache of rooms, one source cursor each, that all peers of a room      *)
(* share.  Watch creates and starts rooms on demand, Serve collects those  *)
(* without cursors once per period, and Shutdown closes all of them.       *)
(*                                                                         *)
(* What happens inside a room is EventRoom; here a room is its iteration   *)
(* and the number of its open cursors.  Goroutines interleave at           *)
(* SharedWatcher.m, at sharedRoom.m, and at the calls that may block.      *)
(***************************************************************************)
EXTENDS Integers, FiniteSets

CONSTANTS Calls,       \* goroutines that Watch a room and then use its cursor
          Keys,        \* room ids
          Rooms,       \* addresses of sharedRoom values
          MaxWatches,  \* bound: calls of Watch
          None, Free   \* no room or no key; nobody

ASSUME WatcherAssumption ==
  /\ IsFiniteSet(Calls) /\ IsFiniteSet(Rooms) /\ MaxWatches \in Nat
  /\ None \notin Rooms /\ None \notin Keys /\ Free \notin Calls

\* Shutdown runs inside Serve when its context ends, or on a goroutine of its own.
Shutters == {"serve", "caller"}

VARIABLES
  mutex,         \* who holds SharedWatcher.m for writing across actions
  shuttingDown,  \* SharedWatcher.shuttingDown
  rooms,         \* SharedWatcher.rooms: room id -> sharedRoom or None
  room,          \* the sharedRoom values, see Room
  call,          \* the calls of Watch
  serve,         \* where Serve is, its candidates and the one it removes; history: kept,
                 \* the calls whose cursor is open since before the sweep
  down,          \* the calls of Shutdown: pc, and the rooms wg counts
  env            \* serveCtx cancelled, calls of Watch so far, process crashed

vars == <<mutex, shuttingDown, rooms, room, call, serve, down, env>>

\* iterator is the counter of the WaitGroup; started: room, roomID and watching are
\* set; iteration: the goroutine of GetOrStart; closing: a goroutine in Close.
Room == [key : Keys \cup {None}, lock : Calls \cup {Free}, iterator : Nat,
         started : BOOLEAN, iteration : {"none", "running", "ended", "failed"},
         cancelled : BOOLEAN, opened : Nat,
         closing : {"no", "called", "waiting", "done"}]

TypeOK ==
  /\ mutex \in {"init", "free", "gc"} \cup Shutters
  /\ shuttingDown \in BOOLEAN
  /\ rooms \in [Keys -> Rooms \cup {None}]
  /\ room \in [Rooms -> Room]
  /\ call \in [Calls -> [pc : {"idle", "lookup", "create", "found", "watching",
                               "iterating", "ready", "open"},
                         key : Keys \cup {None}, on : Rooms \cup {None}]]
  /\ serve \in [pc : {"new", "check", "collect", "timer", "lock", "sweep", "remove",
                      "down", "returned"},
                candidates : SUBSET Rooms, victim : Rooms \cup {None}, kept : SUBSET Calls]
  /\ down \in [Shutters -> [pc : {"none", "asked", "waiting", "done"},
                            waits : SUBSET Rooms]]
  /\ env \in [ctxDone : BOOLEAN, watches : Nat, crashed : BOOLEAN]

\* NewSharedWatcher returns with SharedWatcher.m locked.
Init ==
  /\ mutex = "init" /\ shuttingDown = FALSE
  /\ rooms = [k \in Keys |-> None]
  /\ room = [r \in Rooms |-> [key |-> None, lock |-> Free, iterator |-> 0,
                              started |-> FALSE, iteration |-> "none",
                              cancelled |-> FALSE, opened |-> 0, closing |-> "no"]]
  /\ call = [c \in Calls |-> [pc |-> "idle", key |-> None, on |-> None]]
  /\ serve = [pc |-> "new", candidates |-> {}, victim |-> None, kept |-> {}]
  /\ down = [s \in Shutters |-> [pc |-> "none", waits |-> {}]]
  /\ env = [ctxDone |-> FALSE, watches |-> 0, crashed |-> FALSE]

-------------------------------------------------------------------------------
(* Watch *)

At(c, pc) == ~env.crashed /\ call[c].pc = pc

Goes(c, pc, r) == call' = [call EXCEPT ![c].pc = pc, ![c].on = r]

Arrive(c, k) ==
  /\ At(c, "idle") /\ env.watches < MaxWatches
  /\ env' = [env EXCEPT !.watches = @ + 1]
  /\ call' = IF shuttingDown THEN call
             ELSE [call EXCEPT ![c].pc = "lookup", ![c].key = k]
  /\ UNCHANGED <<mutex, shuttingDown, rooms, room, serve, down>>

\* getOrCreate with the read lock, then again with the write lock.
LookUp(c) ==
  /\ At(c, "lookup") /\ mutex = "free"
  /\ LET r == rooms[call[c].key]
     IN Goes(c, IF r = None THEN "create" ELSE "found", r)
  /\ UNCHANGED <<mutex, shuttingDown, rooms, room, serve, down, env>>

Create(c) ==
  /\ At(c, "create") /\ mutex = "free"
  /\ \E r \in Rooms :
       /\ \/ rooms[call[c].key] = r /\ UNCHANGED <<rooms, room>>
          \/ /\ rooms[call[c].key] = None /\ room[r].key = None
             /\ rooms' = [rooms EXCEPT ![call[c].key] = r]
             /\ room' = [room EXCEPT ![r].key = call[c].key]
       /\ Goes(c, "found", r)
  /\ UNCHANGED <<mutex, shuttingDown, serve, down, env>>

\* GetOrStart takes sharedRoom.m; it keeps it while the source is asked for a cursor.
FindsStarted(c, r) ==
  /\ At(c, "found") /\ call[c].on = r
  /\ room[r].lock = Free /\ room[r].started
  /\ Goes(c, "ready", r)
  /\ UNCHANGED <<mutex, shuttingDown, rooms, room, serve, down, env>>

\* Variant: the iteration is not counted.
StartUncounted(c, r) ==
  /\ At(c, "found") /\ call[c].on = r
  /\ room[r].lock = Free /\ ~room[r].started
  /\ room' = [room EXCEPT ![r].lock = c]
  /\ Goes(c, "watching", r)
  /\ UNCHANGED <<mutex, shuttingDown, rooms, serve, down, env>>

Start(c, r) ==
  /\ At(c, "found") /\ call[c].on = r
  /\ room[r].lock = Free /\ ~room[r].started
  /\ room' = [room EXCEPT ![r].lock = c, ![r].iterator = @ + 1]
  /\ Goes(c, "watching", r)
  /\ UNCHANGED <<mutex, shuttingDown, rooms, serve, down, env>>

\* The source returns an error: iterator.Done is not called.
StartFails(c, r) ==
  /\ At(c, "watching") /\ call[c].on = r
  /\ room' = [room EXCEPT ![r].lock = Free]
  /\ Goes(c, "idle", None)
  /\ UNCHANGED <<mutex, shuttingDown, rooms, serve, down, env>>

\* The source returns a cursor, and the goroutine that iterates the room runs
\* before the fields of the sharedRoom are set.
StartIterates(c, r) ==
  /\ At(c, "watching") /\ call[c].on = r
  /\ room' = [room EXCEPT ![r].iteration = "running"]
  /\ Goes(c, "iterating", r)
  /\ UNCHANGED <<mutex, shuttingDown, rooms, serve, down, env>>

StartReturns(c, r) ==
  /\ At(c, "iterating") /\ call[c].on = r
  /\ room' = [room EXCEPT ![r].started = TRUE, ![r].lock = Free]
  /\ Goes(c, "ready", r)
  /\ UNCHANGED <<mutex, shuttingDown, rooms, serve, down, env>>

\* Watch returns room.SharedCursor(), whatever became of the room meanwhile.
OpenCursor(c, r) ==
  /\ At(c, "ready") /\ call[c].on = r
  /\ room' = [room EXCEPT ![r].opened = @ + 1]
  /\ Goes(c, "open", r)
  /\ UNCHANGED <<mutex, shuttingDown, rooms, serve, down, env>>

\* The peer closes its cursor, or Next closed it (SharedCursor.Close).
CloseCursor(c, r) ==
  /\ At(c, "open") /\ call[c].on = r
  /\ room' = [room EXCEPT ![r].opened = @ - 1]
  /\ Goes(c, "idle", None)
  /\ serve' = [serve EXCEPT !.kept = @ \ {c}]
  /\ UNCHANGED <<mutex, shuttingDown, rooms, down, env>>

-------------------------------------------------------------------------------
(* The goroutine that iterates a room, and sharedRoom.Close *)

\* Room.Next returned ErrCursorClosed or context.Canceled, ...
IterationEnds(r) ==
  /\ ~env.crashed /\ room[r].iteration = "running"
  /\ room' = [room EXCEPT ![r].iteration = "ended", ![r].iterator = @ - 1]
  /\ UNCHANGED <<mutex, shuttingDown, rooms, call, serve, down, env>>

\* ... or another error: the goroutine returns without iterator.Done.
IterationFails(r) ==
  /\ ~env.crashed /\ room[r].iteration = "running"
  /\ room' = [room EXCEPT ![r].iteration = "failed"]
  /\ UNCHANGED <<mutex, shuttingDown, rooms, call, serve, down, env>>

\* Variant: Close does not cancel the context of the room.
CloseWaits(r) ==
  /\ ~env.crashed /\ room[r].closing = "called"
  /\ room' = [room EXCEPT ![r].closing = "waiting"]
  /\ UNCHANGED <<mutex, shuttingDown, rooms, call, serve, down, env>>

CloseCancels(r) ==
  /\ ~env.crashed /\ room[r].closing = "called"
  /\ room' = [room EXCEPT ![r].closing = "waiting", ![r].cancelled = TRUE]
  /\ UNCHANGED <<mutex, shuttingDown, rooms, call, serve, down, env>>

\* iterator.Wait returns; sharedRoom.room is nil unless the room was started.
CloseEnds(r) ==
  /\ ~env.crashed /\ room[r].closing = "waiting" /\ room[r].iterator = 0
  /\ IF room[r].started
     THEN room' = [room EXCEPT ![r].closing = "done"] /\ UNCHANGED env
     ELSE env' = [env EXCEPT !.crashed = TRUE] /\ UNCHANGED room
  /\ UNCHANGED <<mutex, shuttingDown, rooms, call, serve, down>>

\* Close is called on the rooms rs, each on a new goroutine.
ClosingAll(rs) ==
  [r \in Rooms |-> IF r \in rs /\ room[r].closing # "waiting"
                   THEN [room[r] EXCEPT !.closing = "called"] ELSE room[r]]

Registered(r) == \E k \in Keys : rooms[k] = r

-------------------------------------------------------------------------------
(* Serve *)

Serves(pc) == ~env.crashed /\ serve.pc = pc

ServeStarts ==
  /\ Serves("new")
  /\ mutex' = "free" /\ serve' = [serve EXCEPT !.pc = "check"]
  /\ UNCHANGED <<shuttingDown, rooms, room, call, down, env>>

ServeChecks ==
  /\ Serves("check")
  /\ serve' = [serve EXCEPT !.pc = IF shuttingDown THEN "returned" ELSE "collect"]
  /\ UNCHANGED <<mutex, shuttingDown, rooms, room, call, down, env>>

\* Under the read lock: OpenedCursors is 0 also for a room that is not started.
Collect ==
  /\ Serves("collect") /\ mutex = "free"
  /\ LET unused == {r \in Rooms : Registered(r) /\ room[r].opened = 0}
     IN serve' = [serve EXCEPT !.pc = "timer", !.candidates = unused]
  /\ UNCHANGED <<mutex, shuttingDown, rooms, room, call, down, env>>

TimerFires ==
  /\ Serves("timer")
  /\ serve' = [serve EXCEPT !.pc = IF serve.candidates = {} THEN "check" ELSE "lock"]
  /\ UNCHANGED <<mutex, shuttingDown, rooms, room, call, down, env>>

ContextEnds ==
  /\ Serves("timer") /\ env.ctxDone
  /\ serve' = [serve EXCEPT !.pc = "down"]
  /\ shuttingDown' = TRUE
  /\ down' = [down EXCEPT !["serve"].pc = "asked"]
  /\ UNCHANGED <<mutex, rooms, room, call, env>>

SweepBegins ==
  /\ Serves("lock") /\ mutex = "free"
  /\ mutex' = "gc"
  /\ serve' = [serve EXCEPT !.pc = "sweep", !.kept = {c \in Calls : call[c].pc = "open"}]
  /\ UNCHANGED <<shuttingDown, rooms, room, call, down, env>>

\* Variant: the cursors are not counted again.
SweepUnchecked(r) ==
  /\ Serves("sweep") /\ r \in serve.candidates
  /\ serve' = [serve EXCEPT !.pc = "remove", !.victim = r]
  /\ UNCHANGED <<mutex, shuttingDown, rooms, room, call, down, env>>

\* A Watch that has found or started the room opens its cursor without SharedWatcher.m:
\* what is counted here may be out of date when the room is removed.
SweepChecks(r) ==
  /\ Serves("sweep") /\ r \in serve.candidates
  /\ serve' = IF room[r].opened # 0 THEN [serve EXCEPT !.candidates = @ \ {r}]
              ELSE [serve EXCEPT !.pc = "remove", !.victim = r]
  /\ UNCHANGED <<mutex, shuttingDown, rooms, room, call, down, env>>

Removed(r) ==
  serve' = [serve EXCEPT !.pc = "sweep", !.candidates = @ \ {r}, !.victim = None]

\* Variants: the room stays in the map, or leaves it without being closed.
SweepKeeping ==
  /\ Serves("remove") /\ Removed(serve.victim)
  /\ room' = ClosingAll({serve.victim})
  /\ UNCHANGED <<mutex, shuttingDown, rooms, call, down, env>>

SweepForgetting ==
  /\ Serves("remove") /\ Removed(serve.victim)
  /\ LET r == serve.victim
     IN rooms' = IF room[r].started THEN [rooms EXCEPT ![room[r].key] = None] ELSE rooms
  /\ UNCHANGED <<mutex, shuttingDown, room, call, down, env>>

\* The id of a room that is not started is uuid.Nil: the delete finds nothing.
SweepRemoves ==
  /\ Serves("remove") /\ Removed(serve.victim)
  /\ LET r == serve.victim
     IN /\ room' = ClosingAll({r})
        /\ rooms' = IF room[r].started THEN [rooms EXCEPT ![room[r].key] = None] ELSE rooms
  /\ UNCHANGED <<mutex, shuttingDown, call, down, env>>

SweepEnds ==
  /\ Serves("sweep") /\ serve.candidates = {}
  /\ mutex' = "free" /\ serve' = [serve EXCEPT !.pc = "check", !.kept = {}]
  /\ UNCHANGED <<shuttingDown, rooms, room, call, down, env>>

ServeReturns ==
  /\ Serves("down") /\ down["serve"].pc = "done"
  /\ serve' = [serve EXCEPT !.pc = "returned"]
  /\ UNCHANGED <<mutex, shuttingDown, rooms, room, call, down, env>>

-------------------------------------------------------------------------------
(* Shutdown *)

ShutdownCalled ==
  /\ ~env.crashed /\ down["caller"].pc = "none"
  /\ shuttingDown' = TRUE
  /\ down' = [down EXCEPT !["caller"].pc = "asked"]
  /\ UNCHANGED <<mutex, rooms, room, call, serve, env>>

\* SharedWatcher.m is held until every Close has returned.
ShutdownLocks(s) ==
  /\ ~env.crashed /\ down[s].pc = "asked" /\ mutex = "free"
  /\ mutex' = s
  /\ LET rs == {r \in Rooms : Registered(r)}
     IN down' = [down EXCEPT ![s] = [pc |-> "waiting", waits |-> rs]]
        /\ room' = ClosingAll(rs)
  /\ rooms' = [k \in Keys |-> None]
  /\ UNCHANGED <<shuttingDown, call, serve, env>>

ShutdownReturns(s) ==
  /\ ~env.crashed /\ down[s].pc = "waiting"
  /\ \A r \in down[s].waits : room[r].closing = "done"
  /\ mutex' = "free"
  /\ down' = [down EXCEPT ![s].pc = "done"]
  /\ UNCHANGED <<shuttingDown, rooms, room, call, serve, env>>

-------------------------------------------------------------------------------
\* The context given to Serve, the parent of the contexts of all rooms, ends.
CancelContext ==
  /\ ~env.crashed /\ ~env.ctxDone
  /\ env' = [env EXCEPT !.ctxDone = TRUE]
  /\ UNCHANGED <<mutex, shuttingDown, rooms, room, call, serve, down>>

StartStep(c, r) ==
  FindsStarted(c, r) \/ Start(c, r) \/ StartFails(c, r) \/ StartIterates(c, r)
  \/ StartReturns(c, r) \/ OpenCursor(c, r)

WatchStep(c) == LookUp(c) \/ Create(c) \/ \E r \in Rooms : StartStep(c, r)

CloseStep(r) == CloseCancels(r) \/ CloseEnds(r)

ServeStep ==
  ServeStarts \/ ServeChecks \/ Collect \/ TimerFires \/ ContextEnds
  \/ SweepBegins \/ (\E r \in Rooms : SweepChecks(r)) \/ SweepRemoves \/ SweepEnds
  \/ ServeReturns

ShutdownStep(s) == ShutdownLocks(s) \/ ShutdownReturns(s)

Next ==
  \/ \E c \in Calls : \/ \E k \in Keys : Arrive(c, k)
                      \/ WatchStep(c)
                      \/ \E r \in Rooms : CloseCursor(c, r)
  \/ \E r \in Rooms : IterationEnds(r) \/ IterationFails(r) \/ CloseStep(r)
  \/ ServeStep \/ ShutdownCalled \/ CancelContext
  \/ \E s \in Shutters : ShutdownStep(s)

Spec == Init /\ [][Next]_vars

\* Goroutines are scheduled and sync.Mutex and sync.RWMutex starve nobody; the
\* source answers, and a cursor whose context is cancelled returns an error.
\* Nothing makes a peer close its cursor or a source end.
Fairness ==
  /\ SF_vars(ServeStep)
  /\ \A s \in Shutters : SF_vars(ShutdownStep(s))
  /\ \A c \in Calls : SF_vars(WatchStep(c))
  /\ \A r \in Rooms :
       /\ WF_vars(CloseStep(r))
       /\ WF_vars((room[r].cancelled \/ env.ctxDone)
                  /\ (IterationEnds(r) \/ IterationFails(r)))

FairSpec == Spec /\ Fairness

-------------------------------------------------------------------------------
(* Properties *)

\* Until a shutdown every room that is iterated can still be found by Watch and the
\* GC, or is being closed: no source cursor is stranded (getOrCreate, Serve).
NoRoomIsStranded ==
  \A r \in Rooms : room[r].iteration = "running" /\ ~shuttingDown =>
    rooms[room[r].key] = r \/ room[r].closing # "no"

\* Close returns only after the goroutine that iterates the room, which is then
\* never started again (GetOrStart, Close).
ClosedRoomIsNotIterated ==
  \A r \in Rooms : room[r].closing = "done" => room[r].iteration \in {"ended"}

\* Until a shutdown a peer keeps its room: one whose cursor is open since before the
\* GC took the lock of the map never sees the room leave it.  The GC counts the
\* cursors again for this, after the period for which its candidates waited (Serve);
\* it is not so of a cursor opened while it sweeps.
UsedRoomsStay ==
  [][\A k \in Keys, r \in Rooms : rooms[k] = r /\ rooms'[k] # r /\ ~shuttingDown =>
       \A c \in serve.kept : call[c].on # r]_vars

\* What makes iterator.Wait hang: a start or an iteration that failed was counted
\* and will never be done.
LeftCounted(r) ==
  room[r].iterator > Cardinality({c \in Calls : call[c].on = r /\ call[c].pc = "watching"})
                     + (IF room[r].iteration = "running" THEN 1 ELSE 0)

Halted == env.crashed \/ \E r \in Rooms : LeftCounted(r)

\* A started room without cursors does not stay in the map (Serve).
UnusedRoomIsCollected ==
  \A r \in Rooms :
    []<>~(Registered(r) /\ room[r].started /\ room[r].opened = 0
          /\ ~shuttingDown /\ ~env.crashed)

\* Shutdown returns, unless some room failed or was never started (Shutdown, Close).
ShutdownTerminates ==
  \A s \in Shutters : down[s].pc = "asked" ~> down[s].pc = "done" \/ Halted

\* Watch answers, also when it meets the GC or a shutdown (Watch).
WatchReturns ==
  \A c \in Calls : call[c].pc = "lookup" ~> call[c].pc \in {"idle", "open"} \/ Halted

\* "GC cycle will clean up unused rooms", started or not (the comment on Serve).
UnusedRoomIsCleaned ==
  \A r \in Rooms :
    []<>~(Registered(r) /\ room[r].opened = 0 /\ ~shuttingDown /\ ~env.crashed
          /\ \A c \in Calls : call[c].on # r)
===============================================================================
