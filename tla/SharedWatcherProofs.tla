------------------------- MODULE SharedWatcherProofs -------------------------
(***************************************************************************)
(* Proofs about SharedWatcher, for any number of goroutines, keys and      *)
(* rooms: Watch calls that race with each other, with the GC and with a    *)
(* shutdown lose no room that is iterated, the GC takes the room of nobody *)
(* who had it when the sweep began and closes the rooms it takes, and a    *)
(* closed room is not iterated.                                            *)
(***************************************************************************)
EXTENDS SharedWatcher, FiniteSetTheorems, TLAPS

\* The types of TypeOK that the proofs need; that no room counts less than zero
\* cursors is not among them.
RoomType ==
  [key : Keys \cup {None}, lock : Calls \cup {Free}, iterator : Nat,
   started : BOOLEAN, iteration : {"none", "running", "ended", "failed"},
   cancelled : BOOLEAN, opened : Int,
   closing : {"no", "called", "waiting", "done"}]

CallType ==
  [pc : {"idle", "lookup", "create", "found", "watching", "iterating", "ready", "open"},
   key : Keys \cup {None}, on : Rooms \cup {None}]

ServeType ==
  [pc : {"new", "check", "collect", "timer", "lock", "sweep", "remove", "down", "returned"},
   candidates : SUBSET Rooms, victim : Rooms \cup {None}, kept : SUBSET Calls]

DownType == [pc : {"none", "asked", "waiting", "done"}, waits : SUBSET Rooms]

Types ==
  /\ shuttingDown \in BOOLEAN
  /\ rooms \in [Keys -> Rooms \cup {None}]
  /\ room \in [Rooms -> RoomType]
  /\ call \in [Calls -> CallType]
  /\ serve \in ServeType
  /\ down \in [Shutters -> DownType]

Holding == {"watching", "iterating"}
Using == {"found", "ready", "open"} \cup Holding

\* A room in the map and a room that a call uses have their key; a call that looks
\* for a room has one.
Keyed ==
  /\ \A k \in Keys : rooms[k] # None => room[rooms[k]].key = k
  /\ \A c \in Calls : /\ call[c].pc \in {"lookup", "create"} => call[c].key \in Keys
                      /\ call[c].pc \in Using =>
                           call[c].on \in Rooms /\ room[call[c].on].key # None

\* Who asked for a shutdown has first told that there is one.
ShutdownIsTold == \A s \in Shutters : down[s].pc # "none" => shuttingDown

\* A room that was created is in the map or being closed.
Reachable ==
  ~shuttingDown => \A r \in Rooms : room[r].key # None =>
                     rooms[room[r].key] = r \/ room[r].closing # "no"

\* What the GC has not swept yet is in the map.
CandidatesReachable ==
  ~shuttingDown => \A r \in serve.candidates : room[r].key # None /\ rooms[room[r].key] = r

\* The wait group of a room counts its iteration from before it starts, and one call
\* at a time starts it, under the lock of the room.
Counted ==
  /\ \A c \in Calls : call[c].pc \in Holding =>
       /\ room[call[c].on].lock = c /\ ~room[call[c].on].started
       /\ call[c].pc = "watching" =>
            room[call[c].on].iteration = "none" /\ room[call[c].on].iterator # 0
       /\ call[c].pc = "iterating" => room[call[c].on].iteration # "none"
  /\ \A r \in Rooms :
       /\ room[r].iteration # "none" => room[r].key # None
       /\ room[r].iteration \in {"running", "failed"} => room[r].iterator # 0
       /\ room[r].started => room[r].iteration # "none"
       /\ room[r].iteration # "none" /\ ~room[r].started => room[r].lock # Free
       /\ room[r].closing = "done" => room[r].started /\ room[r].iteration = "ended"

\* A room counts the cursors that are open on it.
OpenOn(r) == {c \in Calls : call[c].pc = "open" /\ call[c].on = r}
CursorsCounted == \A r \in Rooms : room[r].opened = Cardinality(OpenOn(r))

\* None of the cursors that are open since before the sweep is on the room that the GC is
\* about to remove: it has counted them.
SweepChecked ==
  /\ \A c \in serve.kept : call[c].pc = "open"
  /\ serve.pc = "remove" => /\ serve.victim \in serve.candidates
                            /\ \A c \in serve.kept : call[c].on # serve.victim

WatcherInv ==
  /\ Types /\ Keyed /\ ShutdownIsTold /\ Reachable /\ CandidatesReachable /\ Counted
  /\ CursorsCounted /\ SweepChecked

-------------------------------------------------------------------------------
\* The fields of a room, of a call and of Serve have the types of their records.
LEMMA FieldTypes ==
  ASSUME Types
  PROVE  /\ \A r \in Rooms : /\ room[r] \in RoomType
                             /\ room[r].key \in Keys \cup {None}
                             /\ room[r].lock \in Calls \cup {Free}
                             /\ room[r].iterator \in Nat
                             /\ room[r].started \in BOOLEAN
                             /\ room[r].iteration \in {"none", "running", "ended", "failed"}
                             /\ room[r].opened \in Int
                             /\ room[r].closing \in {"no", "called", "waiting", "done"}
         /\ \A c \in Calls : /\ call[c] \in CallType
                             /\ call[c].key \in Keys \cup {None}
                             /\ call[c].on \in Rooms \cup {None}
         /\ serve \in ServeType
         /\ serve.candidates \in SUBSET Rooms /\ serve.kept \in SUBSET Calls
         /\ \A s \in Shutters : down[s] \in DownType
BY DEF Types, RoomType, CallType, ServeType, DownType

\* What changes when call c goes on with room r, or with none.
LEMMA GoesFacts ==
  ASSUME Types, NEW c \in Calls, NEW r \in Rooms \cup {None},
         NEW pc \in {"idle", "create", "found", "watching", "iterating", "ready", "open"},
         Goes(c, pc, r)
  PROVE  /\ call' \in [Calls -> CallType]
         /\ call'[c].pc = pc /\ call'[c].on = r /\ call'[c].key = call[c].key
         /\ \A d \in Calls : d # c => call'[d] = call[d]
<1>1. call[c] \in CallType
  BY FieldTypes
<1>2. [[call[c] EXCEPT !.pc = pc] EXCEPT !.on = r] \in CallType
  BY <1>1 DEF CallType
<1>3. call' = [call EXCEPT ![c] = [[call[c] EXCEPT !.pc = pc] EXCEPT !.on = r]]
  BY DEF Goes, Types
<1> QED BY <1>1, <1>2, <1>3 DEF Types, CallType

\* What changes when a room does.
LEMMA RoomFacts ==
  ASSUME Types, NEW r \in Rooms, NEW new \in RoomType, room' = [room EXCEPT ![r] = new]
  PROVE  /\ room' \in [Rooms -> RoomType]
         /\ room'[r] = new
         /\ \A s \in Rooms : s # r => room'[s] = room[s]
BY DEF Types

\* The rooms that are asked to close keep everything but that.
LEMMA ClosingFacts ==
  ASSUME Types, NEW rs \in SUBSET Rooms, room' = ClosingAll(rs)
  PROVE  /\ room' \in [Rooms -> RoomType]
         /\ \A r \in Rooms :
              /\ room'[r].key = room[r].key /\ room'[r].lock = room[r].lock
              /\ room'[r].iterator = room[r].iterator /\ room'[r].started = room[r].started
              /\ room'[r].iteration = room[r].iteration
              /\ room'[r].opened = room[r].opened
              /\ room'[r].closing = room[r].closing \/ room'[r].closing = "called"
              /\ r \in rs => room'[r].closing # "no"
<1>1. \A r \in Rooms : [room[r] EXCEPT !.closing = "called"] \in RoomType
  BY FieldTypes DEF RoomType
<1>2. \A r \in Rooms : room'[r] = IF r \in rs /\ room[r].closing # "waiting"
                                  THEN [room[r] EXCEPT !.closing = "called"] ELSE room[r]
  BY DEF ClosingAll
<1>3. room' \in [Rooms -> RoomType]
  BY <1>1, FieldTypes DEF ClosingAll
<1> QED BY <1>2, <1>3, FieldTypes DEF RoomType

\* The calls with a cursor on a room are finitely many.
LEMMA OpenOnFinite ==
  \A r \in Rooms : IsFiniteSet(OpenOn(r)) /\ Cardinality(OpenOn(r)) \in Nat
BY WatcherAssumption, FS_Subset, FS_CardinalityType DEF OpenOn

\* A step that neither opens nor closes a cursor.
LEMMA CursorsStay ==
  ASSUME Types, CursorsCounted, SweepChecked, UNCHANGED serve,
         \A r \in Rooms : room'[r].opened = room[r].opened,
         \A c \in Calls : call[c].pc = "open" \/ call'[c].pc = "open" => call'[c] = call[c]
  PROVE  CursorsCounted' /\ SweepChecked'
<1>1. \A r \in Rooms : OpenOn(r)' = OpenOn(r)
  BY DEF OpenOn
<1>2. CursorsCounted'
  BY <1>1 DEF CursorsCounted
<1>3. SweepChecked'
  BY FieldTypes DEF SweepChecked
<1> QED BY <1>2, <1>3

\* A step of call c, which opens a cursor on room r, closes the one it has there, or
\* does neither.
LEMMA CursorsMove ==
  ASSUME Types, CursorsCounted, SweepChecked, NEW c \in Calls, NEW r \in Rooms,
         \A d \in Calls : d # c => call'[d] = call[d],
         \A s \in Rooms : s # r => room'[s] = room[s],
         call[c].on = r, call'[c].on \in {r, None}, call'[c].pc = "open" => call'[c].on = r,
         ~(call[c].pc = "open" /\ call'[c].pc = "open"),
         room'[r].opened = IF call'[c].pc = "open" THEN room[r].opened + 1
                           ELSE IF call[c].pc = "open" THEN room[r].opened - 1
                           ELSE room[r].opened,
         serve'.pc = serve.pc, serve'.candidates = serve.candidates,
         serve'.victim = serve.victim, serve'.kept \subseteq serve.kept \ {c}
  PROVE  CursorsCounted' /\ SweepChecked'
<1>1. ASSUME NEW s \in Rooms, s # r PROVE OpenOn(s)' = OpenOn(s) /\ room'[s] = room[s]
  BY <1>1, WatcherAssumption DEF OpenOn
<1>2. room'[r].opened = Cardinality(OpenOn(r)')
  <2>0. room[r].opened = Cardinality(OpenOn(r)) /\ IsFiniteSet(OpenOn(r))
    BY OpenOnFinite DEF CursorsCounted
  <2>1. CASE call'[c].pc = "open"
    <3>1. OpenOn(r)' = OpenOn(r) \cup {c} /\ c \notin OpenOn(r)
      BY <2>1 DEF OpenOn
    <3>2. Cardinality(OpenOn(r) \cup {c}) = Cardinality(OpenOn(r)) + 1
      BY <2>0, <3>1, FS_AddElement
    <3> QED BY <2>0, <2>1, <3>1, <3>2
  <2>2. CASE call[c].pc = "open"
    <3>1. OpenOn(r)' = OpenOn(r) \ {c} /\ c \in OpenOn(r) /\ call'[c].pc # "open"
      BY <2>2 DEF OpenOn
    <3> QED BY <2>0, <2>2, <3>1, FS_RemoveElement
  <2>3. CASE call'[c].pc # "open" /\ call[c].pc # "open"
    <3>1. OpenOn(r)' = OpenOn(r)
      BY <2>3 DEF OpenOn
    <3> QED BY <2>0, <2>3, <3>1
  <2> QED BY <2>1, <2>2, <2>3
<1>3. CursorsCounted'
  BY <1>1, <1>2 DEF CursorsCounted
<1>4. SweepChecked'
  BY FieldTypes DEF SweepChecked
<1> QED BY <1>3, <1>4

-------------------------------------------------------------------------------
\* The steps of Watch keep the invariant.

LEMMA ArriveStep ==
  ASSUME WatcherInv, NEW c \in Calls, NEW k \in Keys, Arrive(c, k)
  PROVE  WatcherInv'
<1> USE FieldTypes DEF WatcherInv
<1>1. CASE shuttingDown
  <2>1. UNCHANGED <<shuttingDown, rooms, room, call, serve, down>>
    BY <1>1 DEF Arrive
  <2>2. CursorsCounted' /\ SweepChecked'
    BY <2>1, CursorsStay
  <2> QED BY <2>1, <2>2 DEF Types, Keyed, ShutdownIsTold, Reachable, CandidatesReachable,
                            Counted
<1>2. CASE ~shuttingDown
  <2>1. call' = [call EXCEPT ![c] = [[call[c] EXCEPT !.pc = "lookup"] EXCEPT !.key = k]]
    BY <1>2 DEF Arrive, Types
  <2>2. [[call[c] EXCEPT !.pc = "lookup"] EXCEPT !.key = k] \in CallType
    BY DEF CallType
  <2>3. /\ call' \in [Calls -> CallType]
        /\ call'[c].pc = "lookup" /\ call'[c].key = k
        /\ \A d \in Calls : d # c => call'[d] = call[d]
    BY <2>1, <2>2 DEF Types, CallType
  <2>4. UNCHANGED <<shuttingDown, rooms, room, serve, down>>
    BY DEF Arrive
  <2>5. CursorsCounted' /\ SweepChecked'
    <3>1. call[c].pc # "open"
      BY DEF Arrive, At
    <3> QED BY <2>3, <2>4, <3>1, CursorsStay
  <2> QED BY <2>3, <2>4, <2>5 DEF Types, Keyed, ShutdownIsTold, Reachable,
                             CandidatesReachable, Counted, Holding, Using
<1> QED BY <1>1, <1>2

LEMMA LookUpStep ==
  ASSUME WatcherInv, NEW c \in Calls, LookUp(c) \/ \E r \in Rooms : FindsStarted(c, r)
  PROVE  WatcherInv'
<1> USE FieldTypes DEF WatcherInv
<1>1. PICK r \in Rooms \cup {None}, pc \in {"create", "found", "ready"} :
        /\ Goes(c, pc, r)
        /\ call[c].pc \in {"lookup", "found"}
        /\ pc = "create" => call[c].key \in Keys
        /\ pc \in Using => r \in Rooms /\ room[r].key # None
  <2>1. CASE LookUp(c)
    <3>1. call[c].pc = "lookup" /\ call[c].key \in Keys
      BY <2>1 DEF LookUp, At, Keyed
    <3>2. rooms[call[c].key] \in Rooms \cup {None}
      BY <3>1 DEF Types
    <3>3. CASE rooms[call[c].key] = None
      BY <2>1, <3>1, <3>3 DEF LookUp, Using, Holding
    <3>4. CASE rooms[call[c].key] # None
      BY <2>1, <3>1, <3>2, <3>4, WatcherAssumption DEF LookUp, Keyed, Using, Holding
    <3> QED BY <3>3, <3>4
  <2>2. CASE \E r \in Rooms : FindsStarted(c, r)
    BY <2>2 DEF FindsStarted, At, Keyed, Using, Holding
  <2> QED BY <2>1, <2>2
<1>2. /\ call' \in [Calls -> CallType]
      /\ call'[c].pc = pc /\ call'[c].on = r /\ call'[c].key = call[c].key
      /\ \A d \in Calls : d # c => call'[d] = call[d]
  BY <1>1, GoesFacts
<1>3. UNCHANGED <<shuttingDown, rooms, room, serve, down>>
  BY DEF LookUp, FindsStarted
<1>4. CursorsCounted' /\ SweepChecked'
  BY <1>1, <1>2, <1>3, CursorsStay
<1> QED BY <1>1, <1>2, <1>3, <1>4 DEF Types, Keyed, ShutdownIsTold, Reachable,
                                CandidatesReachable, Counted, Holding, Using

LEMMA CreateStep ==
  ASSUME WatcherInv, NEW c \in Calls, Create(c)
  PROVE  WatcherInv'
<1> USE FieldTypes DEF WatcherInv
<1>1. call[c].pc = "create" /\ call[c].key \in Keys
  BY DEF Create, At, Keyed
<1>2. PICK r \in Rooms :
        /\ \/ rooms[call[c].key] = r /\ UNCHANGED <<rooms, room>>
           \/ /\ rooms[call[c].key] = None /\ room[r].key = None
              /\ rooms' = [rooms EXCEPT ![call[c].key] = r]
              /\ room' = [room EXCEPT ![r].key = call[c].key]
        /\ Goes(c, "found", r)
  BY DEF Create
<1>3. /\ call' \in [Calls -> CallType]
      /\ call'[c].pc = "found" /\ call'[c].on = r
      /\ \A d \in Calls : d # c => call'[d] = call[d]
  BY <1>2, GoesFacts
<1>4. UNCHANGED <<shuttingDown, serve, down>>
  BY DEF Create
<1>5. CASE rooms[call[c].key] = r /\ UNCHANGED <<rooms, room>>
  <2>1. room[r].key = call[c].key
    BY <1>1, <1>5, WatcherAssumption DEF Keyed
  <2>2. CursorsCounted' /\ SweepChecked'
    BY <1>1, <1>3, <1>4, <1>5, CursorsStay
  <2> QED BY <1>1, <1>3, <1>4, <1>5, <2>1, <2>2, WatcherAssumption
          DEF Types, Keyed, ShutdownIsTold, Reachable, CandidatesReachable, Counted,
              Holding, Using
<1>6. CASE /\ rooms[call[c].key] = None /\ room[r].key = None
           /\ rooms' = [rooms EXCEPT ![call[c].key] = r]
           /\ room' = [room EXCEPT ![r].key = call[c].key]
  <2> DEFINE k == call[c].key
             new == [room[r] EXCEPT !.key = k]
  <2>1. new \in RoomType
    BY <1>1 DEF RoomType
  <2>2. new.key = k /\ new.lock = room[r].lock /\ new.started = room[r].started
        /\ new.iterator = room[r].iterator /\ new.iteration = room[r].iteration
        /\ new.closing = room[r].closing /\ new.opened = room[r].opened
    BY DEF RoomType
  <2>3. room' = [room EXCEPT ![r] = new]
    BY <1>6 DEF Types
  <2>4. /\ room' \in [Rooms -> RoomType] /\ room'[r] = new
        /\ \A s \in Rooms : s # r => room'[s] = room[s]
    BY <2>1, <2>3, RoomFacts
  <2>5. /\ rooms' \in [Keys -> Rooms \cup {None}] /\ rooms'[k] = r /\ rooms[k] = None
        /\ \A l \in Keys : l # k => rooms'[l] = rooms[l]
    BY <1>1, <1>6 DEF Types
  <2>6. room[r].key = None /\ k \in Keys
    BY <1>1, <1>6
  <2> HIDE DEF k, new
  <2>7. Types' /\ ShutdownIsTold'
    BY <1>3, <1>4, <2>4, <2>5 DEF Types, ShutdownIsTold
  <2>8. Keyed'
    <3>1. \A l \in Keys : rooms'[l] # None => room'[rooms'[l]].key = l
      <4> SUFFICES ASSUME NEW l \in Keys, rooms'[l] # None
                   PROVE  room'[rooms'[l]].key = l
        OBVIOUS
      <4>1. CASE l = k
        BY <4>1, <2>2, <2>4, <2>5
      <4>2. CASE l # k
        <5>1. rooms[l] \in Rooms /\ room[rooms[l]].key = l
          BY <4>2, <2>5 DEF Types, Keyed
        <5>2. rooms[l] # r
          BY <5>1, <2>6, WatcherAssumption
        <5> QED BY <4>2, <5>1, <5>2, <2>4, <2>5
      <4> QED BY <4>1, <4>2
    <3>2. \A d \in Calls : /\ call'[d].pc \in {"lookup", "create"} => call'[d].key \in Keys
                           /\ call'[d].pc \in Using =>
                                call'[d].on \in Rooms /\ room'[call'[d].on].key # None
      BY <1>3, <2>2, <2>4, <2>6, WatcherAssumption DEF Keyed, Using, Holding
    <3> QED BY <3>1, <3>2 DEF Keyed
  <2>9. Reachable'
    BY <1>4, <2>2, <2>4, <2>5, <2>6, WatcherAssumption DEF Reachable, Types
  <2>10. CandidatesReachable'
    BY <1>4, <2>2, <2>4, <2>5, <2>6, WatcherAssumption DEF CandidatesReachable, Types, ServeType
  <2>11. Counted'
    <3>1. \A d \in Calls : call'[d].pc \in Holding =>
            d # c /\ call'[d] = call[d] /\ call[d].on \in Rooms /\ call[d].on # r
      BY <1>3, <2>6 DEF Holding, Using, Keyed
    <3> QED BY <3>1, <2>2, <2>4, <2>6, WatcherAssumption DEF Counted
  <2>12. CursorsCounted' /\ SweepChecked'
    BY <1>1, <1>3, <1>4, <2>2, <2>4, CursorsStay
  <2> QED BY <2>7, <2>8, <2>9, <2>10, <2>11, <2>12
<1> QED BY <1>2, <1>5, <1>6

\* Call c, in room r, goes on to pc and keeps or leaves the room, whose value becomes
\* new; only who holds the lock of the room changes what Counted speaks of, and a cursor
\* that is closed is no longer one of those the sweep keeps.
MovesOn(c, r, new, pc, on) ==
  /\ new \in RoomType /\ room' = [room EXCEPT ![r] = new]
  /\ pc \in {"idle", "watching", "iterating", "ready", "open"} /\ on \in {r, None}
  /\ Goes(c, pc, on) /\ UNCHANGED <<shuttingDown, rooms, down>>
  /\ serve' = IF call[c].pc = "open" THEN [serve EXCEPT !.kept = @ \ {c}] ELSE serve
  /\ ~(call[c].pc = "open" /\ pc = "open")
  /\ new.opened = IF pc = "open" THEN room[r].opened + 1
                  ELSE IF call[c].pc = "open" THEN room[r].opened - 1 ELSE room[r].opened
  /\ call[c].pc \in Using /\ call[c].on = r /\ (pc # "idle" => on = r)
  /\ new.key = room[r].key /\ new.closing = room[r].closing
  /\ \A d \in Calls : d # c /\ call[d].pc \in Holding /\ call[d].on = r =>
       /\ new.lock = room[r].lock /\ new.started = room[r].started
       /\ new.iteration = room[r].iteration /\ new.iterator = room[r].iterator
  /\ pc \in Holding =>
       /\ new.lock = c /\ ~new.started
       /\ pc = "watching" => new.iteration = "none" /\ new.iterator # 0
       /\ pc = "iterating" => new.iteration # "none"
  /\ new.iteration \in {"running", "failed"} => new.iterator # 0
  /\ new.started => new.iteration # "none"
  /\ new.iteration # "none" /\ ~new.started => new.lock # Free
  /\ new.closing = "done" => new.started /\ new.iteration = "ended"

LEMMA HoldStep ==
  ASSUME WatcherInv, NEW c \in Calls, NEW r \in Rooms, NEW new, NEW pc, NEW on,
         MovesOn(c, r, new, pc, on)
  PROVE  WatcherInv'
<1> USE FieldTypes DEF WatcherInv, MovesOn
<1>1. /\ call' \in [Calls -> CallType]
      /\ call'[c].pc = pc /\ call'[c].on = on
      /\ \A d \in Calls : d # c => call'[d] = call[d]
  BY GoesFacts
<1>2. /\ room' \in [Rooms -> RoomType] /\ room'[r] = new
      /\ \A s \in Rooms : s # r => room'[s] = room[s]
  BY RoomFacts
<1>3. room[r].key # None /\ room[r].key \in Keys
  BY DEF Keyed
<1>4. \A s \in Rooms : room'[s].key = room[s].key /\ room'[s].closing = room[s].closing
  BY <1>2
<1>a. /\ serve' \in ServeType /\ serve'.pc = serve.pc /\ serve'.victim = serve.victim
      /\ serve'.candidates = serve.candidates /\ serve'.kept \subseteq serve.kept \ {c}
  <2>1. CASE call[c].pc = "open"
    <3>1. serve' = [serve EXCEPT !.kept = serve.kept \ {c}] /\ serve.kept \ {c} \in SUBSET Calls
      BY <2>1
    <3> QED BY <3>1 DEF ServeType
  <2>2. CASE call[c].pc # "open"
    BY <2>2 DEF SweepChecked
  <2> QED BY <2>1, <2>2
<1>5. Types' /\ ShutdownIsTold'
  BY <1>1, <1>2, <1>a DEF Types, ShutdownIsTold
<1>6. Keyed'
  BY <1>1, <1>3, <1>4 DEF Keyed, Using, Holding, Types
<1>7. Reachable' /\ CandidatesReachable'
  BY <1>4, <1>a DEF Reachable, CandidatesReachable, ServeType
<1>8. Counted'
  <2>1. ASSUME NEW d \in Calls, call'[d].pc \in Holding
        PROVE  /\ room'[call'[d].on].lock = d /\ ~room'[call'[d].on].started
               /\ call'[d].pc = "watching" =>
                    room'[call'[d].on].iteration = "none" /\ room'[call'[d].on].iterator # 0
               /\ call'[d].pc = "iterating" => room'[call'[d].on].iteration # "none"
    <3>1. CASE d = c
      BY <2>1, <3>1, <1>1, <1>2 DEF Holding
    <3>2. CASE d # c
      <4>1. call'[d] = call[d] /\ call[d].on \in Rooms
        BY <2>1, <3>2, <1>1 DEF Keyed, Using
      <4>2. CASE call[d].on = r
        BY <2>1, <3>2, <4>1, <4>2, <1>2 DEF Counted
      <4>3. CASE call[d].on # r
        BY <2>1, <3>2, <4>1, <4>3, <1>2 DEF Counted
      <4> QED BY <4>2, <4>3
    <3> QED BY <3>1, <3>2
  <2>2. ASSUME NEW s \in Rooms
        PROVE  /\ room'[s].iteration # "none" => room'[s].key # None
               /\ room'[s].iteration \in {"running", "failed"} => room'[s].iterator # 0
               /\ room'[s].started => room'[s].iteration # "none"
               /\ room'[s].iteration # "none" /\ ~room'[s].started => room'[s].lock # Free
               /\ room'[s].closing = "done" => room'[s].started /\ room'[s].iteration = "ended"
    BY <1>2, <1>3 DEF Counted
  <2> QED BY <2>1, <2>2 DEF Counted
<1>9. CursorsCounted' /\ SweepChecked'
  BY <1>1, <1>2, <1>a, CursorsMove
<1> QED BY <1>5, <1>6, <1>7, <1>8, <1>9

LEMMA StartLocksStep ==
  ASSUME WatcherInv, NEW c \in Calls, NEW r \in Rooms, Start(c, r)
  PROVE  WatcherInv'
<1> USE FieldTypes DEF WatcherInv
<1> DEFINE new == [[room[r] EXCEPT !.lock = c] EXCEPT !.iterator = room[r].iterator + 1]
<1>1. new \in RoomType
  <2>1. [room[r] EXCEPT !.lock = c] \in RoomType
    BY DEF RoomType
  <2>2. room[r].iterator + 1 \in Nat
    OBVIOUS
  <2> QED BY <2>1, <2>2 DEF RoomType
<1>2. new = [room[r] EXCEPT !.lock = c, !.iterator = @ + 1]
      /\ new.key = room[r].key /\ new.closing = room[r].closing /\ new.lock = c
      /\ new.iterator = room[r].iterator + 1 /\ new.started = room[r].started
      /\ new.iteration = room[r].iteration /\ new.opened = room[r].opened
  BY DEF RoomType
<1>3. room' = [room EXCEPT ![r] = new]
  BY DEF Start, Types
<1>4. /\ call[c].pc = "found" /\ call[c].on = r /\ Goes(c, "watching", r)
      /\ UNCHANGED <<shuttingDown, rooms, serve, down>>
  BY DEF Start, At
<1> HIDE DEF new
<1>5. room[r].lock = Free /\ ~room[r].started
  BY DEF Start
<1>6. room[r].iteration = "none" /\ room[r].closing # "done" /\ room[r].iterator + 1 # 0
  BY <1>5 DEF Counted
<1>7. \A d \in Calls : ~(call[d].pc \in Holding /\ call[d].on = r)
  BY <1>5, WatcherAssumption DEF Counted
<1>8. MovesOn(c, r, new, "watching", r)
  BY <1>1, <1>2, <1>3, <1>4, <1>5, <1>6, <1>7 DEF MovesOn, Using, Holding
<1> QED BY <1>8, HoldStep

LEMMA StartFailsStep ==
  ASSUME WatcherInv, NEW c \in Calls, NEW r \in Rooms, StartFails(c, r)
  PROVE  WatcherInv'
<1> USE FieldTypes DEF WatcherInv
<1> DEFINE new == [room[r] EXCEPT !.lock = Free]
<1>1. new \in RoomType
  BY DEF RoomType
<1>2. new.lock = Free /\ new.started = room[r].started /\ new.iteration = room[r].iteration
      /\ new.key = room[r].key /\ new.closing = room[r].closing
      /\ new.iterator = room[r].iterator /\ new.opened = room[r].opened
  BY DEF RoomType
<1>3. room' = [room EXCEPT ![r] = new]
  BY DEF StartFails, Types
<1>4. /\ call[c].pc = "watching" /\ call[c].on = r /\ Goes(c, "idle", None)
      /\ UNCHANGED <<shuttingDown, rooms, serve, down>>
  BY DEF StartFails, At
<1> HIDE DEF new
<1>5. /\ room[r].lock = c /\ ~room[r].started
      /\ call[c].pc = "watching" => room[r].iteration = "none" /\ room[r].iterator # 0
      /\ call[c].pc = "iterating" => room[r].iteration # "none"
  BY <1>4 DEF Counted, Holding
<1>6. room[r].closing # "done"
  BY <1>5 DEF Counted
<1>7. \A d \in Calls : d # c => ~(call[d].pc \in Holding /\ call[d].on = r)
  BY <1>5 DEF Counted
<1>8. room[r].iteration \in {"running", "failed"} => room[r].iterator # 0
  BY DEF Counted
<1>9. MovesOn(c, r, new, "idle", None)
  BY <1>1, <1>2, <1>3, <1>4, <1>5, <1>6, <1>7, <1>8, WatcherAssumption DEF MovesOn, Using, Holding
<1> QED BY <1>9, HoldStep

LEMMA StartIteratesStep ==
  ASSUME WatcherInv, NEW c \in Calls, NEW r \in Rooms, StartIterates(c, r)
  PROVE  WatcherInv'
<1> USE FieldTypes DEF WatcherInv
<1> DEFINE new == [room[r] EXCEPT !.iteration = "running"]
<1>1. new \in RoomType
  BY DEF RoomType
<1>2. new.lock = room[r].lock /\ new.started = room[r].started /\ new.iteration = "running"
      /\ new.key = room[r].key /\ new.closing = room[r].closing
      /\ new.iterator = room[r].iterator /\ new.opened = room[r].opened
  BY DEF RoomType
<1>3. room' = [room EXCEPT ![r] = new]
  BY DEF StartIterates, Types
<1>4. /\ call[c].pc = "watching" /\ call[c].on = r /\ Goes(c, "iterating", r)
      /\ UNCHANGED <<shuttingDown, rooms, serve, down>>
  BY DEF StartIterates, At
<1> HIDE DEF new
<1>5. /\ room[r].lock = c /\ ~room[r].started
      /\ call[c].pc = "watching" => room[r].iteration = "none" /\ room[r].iterator # 0
      /\ call[c].pc = "iterating" => room[r].iteration # "none"
  BY <1>4 DEF Counted, Holding
<1>6. room[r].closing # "done"
  BY <1>5 DEF Counted
<1>7. \A d \in Calls : d # c => ~(call[d].pc \in Holding /\ call[d].on = r)
  BY <1>5 DEF Counted
<1>8. room[r].iteration \in {"running", "failed"} => room[r].iterator # 0
  BY DEF Counted
<1>9. MovesOn(c, r, new, "iterating", r)
  BY <1>1, <1>2, <1>3, <1>4, <1>5, <1>6, <1>7, <1>8, WatcherAssumption DEF MovesOn, Using, Holding
<1> QED BY <1>9, HoldStep

LEMMA StartReturnsStep ==
  ASSUME WatcherInv, NEW c \in Calls, NEW r \in Rooms, StartReturns(c, r)
  PROVE  WatcherInv'
<1> USE FieldTypes DEF WatcherInv
<1> DEFINE new == [[room[r] EXCEPT !.started = TRUE] EXCEPT !.lock = Free]
<1>1. new \in RoomType
  BY DEF RoomType
<1>2. new = [room[r] EXCEPT !.started = TRUE, !.lock = Free]
      /\ new.lock = Free /\ new.started = TRUE /\ new.iteration = room[r].iteration
      /\ new.key = room[r].key /\ new.closing = room[r].closing
      /\ new.iterator = room[r].iterator /\ new.opened = room[r].opened
  BY DEF RoomType
<1>3. room' = [room EXCEPT ![r] = new]
  BY DEF StartReturns, Types
<1>4. /\ call[c].pc = "iterating" /\ call[c].on = r /\ Goes(c, "ready", r)
      /\ UNCHANGED <<shuttingDown, rooms, serve, down>>
  BY DEF StartReturns, At
<1> HIDE DEF new
<1>5. /\ room[r].lock = c /\ ~room[r].started
      /\ call[c].pc = "watching" => room[r].iteration = "none" /\ room[r].iterator # 0
      /\ call[c].pc = "iterating" => room[r].iteration # "none"
  BY <1>4 DEF Counted, Holding
<1>6. room[r].closing # "done"
  BY <1>5 DEF Counted
<1>7. \A d \in Calls : d # c => ~(call[d].pc \in Holding /\ call[d].on = r)
  BY <1>5 DEF Counted
<1>8. room[r].iteration \in {"running", "failed"} => room[r].iterator # 0
  BY DEF Counted
<1>9. MovesOn(c, r, new, "ready", r)
  BY <1>1, <1>2, <1>3, <1>4, <1>5, <1>6, <1>7, <1>8, WatcherAssumption DEF MovesOn, Using, Holding
<1> QED BY <1>9, HoldStep

LEMMA OpenCursorStep ==
  ASSUME WatcherInv, NEW c \in Calls, NEW r \in Rooms, OpenCursor(c, r)
  PROVE  WatcherInv'
<1> USE FieldTypes DEF WatcherInv
<1> DEFINE new == [room[r] EXCEPT !.opened = @ + 1]
<1>1. new \in RoomType
  BY DEF RoomType
<1>2. new.lock = room[r].lock /\ new.started = room[r].started
      /\ new.iteration = room[r].iteration
      /\ new.key = room[r].key /\ new.closing = room[r].closing
      /\ new.iterator = room[r].iterator /\ new.opened = room[r].opened + 1
  BY DEF RoomType
<1>3. room' = [room EXCEPT ![r] = new]
  BY DEF OpenCursor, Types
<1>4. /\ call[c].pc = "ready" /\ call[c].on = r /\ Goes(c, "open", r)
      /\ UNCHANGED <<shuttingDown, rooms, serve, down>>
  BY DEF OpenCursor, At
<1> HIDE DEF new
<1>5. /\ room[r].iteration \in {"running", "failed"} => room[r].iterator # 0
      /\ room[r].started => room[r].iteration # "none"
      /\ room[r].iteration # "none" /\ ~room[r].started => room[r].lock # Free
      /\ room[r].closing = "done" => room[r].started /\ room[r].iteration = "ended"
  BY DEF Counted
<1>6. MovesOn(c, r, new, "open", r)
  BY <1>1, <1>2, <1>3, <1>4, <1>5 DEF MovesOn, Using, Holding
<1> QED BY <1>6, HoldStep

LEMMA CloseCursorStep ==
  ASSUME WatcherInv, NEW c \in Calls, NEW r \in Rooms, CloseCursor(c, r)
  PROVE  WatcherInv'
<1> USE FieldTypes DEF WatcherInv
<1> DEFINE new == [room[r] EXCEPT !.opened = @ - 1]
<1>1. new \in RoomType
  BY DEF RoomType
<1>2. new.lock = room[r].lock /\ new.started = room[r].started
      /\ new.iteration = room[r].iteration
      /\ new.key = room[r].key /\ new.closing = room[r].closing
      /\ new.iterator = room[r].iterator /\ new.opened = room[r].opened - 1
  BY DEF RoomType
<1>3. room' = [room EXCEPT ![r] = new]
  BY DEF CloseCursor, Types
<1>4. /\ call[c].pc = "open" /\ call[c].on = r /\ Goes(c, "idle", None)
      /\ UNCHANGED <<shuttingDown, rooms, down>> /\ serve' = [serve EXCEPT !.kept = @ \ {c}]
  BY DEF CloseCursor, At
<1> HIDE DEF new
<1>5. /\ room[r].iteration \in {"running", "failed"} => room[r].iterator # 0
      /\ room[r].started => room[r].iteration # "none"
      /\ room[r].iteration # "none" /\ ~room[r].started => room[r].lock # Free
      /\ room[r].closing = "done" => room[r].started /\ room[r].iteration = "ended"
  BY DEF Counted
<1>6. MovesOn(c, r, new, "idle", None)
  BY <1>1, <1>2, <1>3, <1>4, <1>5 DEF MovesOn, Using, Holding
<1> QED BY <1>6, HoldStep
-------------------------------------------------------------------------------
\* So do the goroutines that iterate and close a room.

\* Room r becomes new; who may use it and where it is found stay as they are.
RoomMoves(r, new) ==
  /\ new \in RoomType /\ room' = [room EXCEPT ![r] = new]
  /\ UNCHANGED <<shuttingDown, rooms, call, serve, down>>
  /\ new.key = room[r].key /\ new.lock = room[r].lock /\ new.started = room[r].started
  /\ new.opened = room[r].opened /\ (room[r].closing # "no" => new.closing # "no")
  /\ \A d \in Calls : call[d].pc = "watching" /\ call[d].on = r =>
       new.iteration = "none" /\ new.iterator # 0
  /\ new.iteration = "none" <=> room[r].iteration = "none"
  /\ new.iteration \in {"running", "failed"} => new.iterator # 0
  /\ new.closing = "done" => new.started /\ new.iteration = "ended"

LEMMA RoomMovesStep ==
  ASSUME WatcherInv, NEW r \in Rooms, NEW new, RoomMoves(r, new)
  PROVE  WatcherInv'
<1> USE FieldTypes DEF WatcherInv, RoomMoves
<1>1. /\ room' \in [Rooms -> RoomType] /\ room'[r] = new
      /\ \A s \in Rooms : s # r => room'[s] = room[s]
  BY RoomFacts
<1>2. \A s \in Rooms : /\ room'[s].key = room[s].key /\ room'[s].lock = room[s].lock
                       /\ room'[s].started = room[s].started
                       /\ room[s].closing # "no" => room'[s].closing # "no"
                       /\ room'[s].iteration = "none" <=> room[s].iteration = "none"
  BY <1>1
<1>3. Types' /\ ShutdownIsTold'
  BY <1>1 DEF Types, ShutdownIsTold
<1>4. Keyed'
  BY <1>2 DEF Keyed, Using, Holding, Types
<1>5. Reachable' /\ CandidatesReachable'
  BY <1>2 DEF Reachable, CandidatesReachable, ServeType
<1>6. Counted'
  <2>1. ASSUME NEW d \in Calls, call'[d].pc \in Holding
        PROVE  /\ room'[call'[d].on].lock = d /\ ~room'[call'[d].on].started
               /\ call'[d].pc = "watching" =>
                    room'[call'[d].on].iteration = "none" /\ room'[call'[d].on].iterator # 0
               /\ call'[d].pc = "iterating" => room'[call'[d].on].iteration # "none"
    <3>1. call'[d] = call[d] /\ call[d].on \in Rooms
      BY <2>1 DEF Keyed, Using
    <3>2. CASE call[d].on = r
      BY <2>1, <3>1, <3>2, <1>1, <1>2 DEF Counted
    <3>3. CASE call[d].on # r
      BY <2>1, <3>1, <3>3, <1>1 DEF Counted
    <3> QED BY <3>2, <3>3
  <2>2. ASSUME NEW s \in Rooms
        PROVE  /\ room'[s].iteration # "none" => room'[s].key # None
               /\ room'[s].iteration \in {"running", "failed"} => room'[s].iterator # 0
               /\ room'[s].started => room'[s].iteration # "none"
               /\ room'[s].iteration # "none" /\ ~room'[s].started => room'[s].lock # Free
               /\ room'[s].closing = "done" => room'[s].started /\ room'[s].iteration = "ended"
    BY <1>1, <1>2 DEF Counted
  <2> QED BY <2>1, <2>2 DEF Counted
<1>7. CursorsCounted' /\ SweepChecked'
  BY <1>1, CursorsStay
<1> QED BY <1>3, <1>4, <1>5, <1>6, <1>7

LEMMA IterationStep ==
  ASSUME WatcherInv, NEW r \in Rooms, IterationEnds(r) \/ IterationFails(r)
  PROVE  WatcherInv'
<1> USE FieldTypes DEF WatcherInv
<1>1. /\ room[r].iteration = "running" /\ room[r].iterator # 0 /\ room[r].closing # "done"
      /\ \A d \in Calls : ~(call[d].pc = "watching" /\ call[d].on = r)
      /\ UNCHANGED <<shuttingDown, rooms, call, serve, down>>
  BY DEF IterationEnds, IterationFails, Counted, Holding
<1>2. CASE IterationEnds(r)
  <2> DEFINE new == [[room[r] EXCEPT !.iteration = "ended"]
                              EXCEPT !.iterator = room[r].iterator - 1]
  <2>1. [room[r] EXCEPT !.iteration = "ended"] \in RoomType /\ room[r].iterator - 1 \in Nat
    BY <1>1 DEF RoomType
  <2>2. new \in RoomType
    BY <2>1 DEF RoomType
  <2>3. /\ new = [room[r] EXCEPT !.iteration = "ended", !.iterator = @ - 1]
        /\ new.key = room[r].key /\ new.lock = room[r].lock /\ new.started = room[r].started
        /\ new.closing = room[r].closing /\ new.iteration = "ended"
        /\ new.opened = room[r].opened
    BY DEF RoomType
  <2>4. room' = [room EXCEPT ![r] = new]
    BY <1>2, <2>3 DEF IterationEnds, Types
  <2> HIDE DEF new
  <2>5. RoomMoves(r, new)
    BY <1>1, <2>2, <2>3, <2>4 DEF RoomMoves
  <2> QED BY <2>5, RoomMovesStep
<1>3. CASE IterationFails(r)
  <2> DEFINE new == [room[r] EXCEPT !.iteration = "failed"]
  <2>1. /\ new \in RoomType
        /\ new.key = room[r].key /\ new.lock = room[r].lock /\ new.started = room[r].started
        /\ new.closing = room[r].closing /\ new.iteration = "failed"
        /\ new.opened = room[r].opened
        /\ new.iterator = room[r].iterator
    BY DEF RoomType
  <2>2. room' = [room EXCEPT ![r] = new]
    BY <1>3 DEF IterationFails, Types
  <2> HIDE DEF new
  <2>3. RoomMoves(r, new)
    BY <1>1, <2>1, <2>2 DEF RoomMoves
  <2> QED BY <2>3, RoomMovesStep
<1> QED BY <1>2, <1>3

LEMMA ClosesStep ==
  ASSUME WatcherInv, NEW r \in Rooms, CloseStep(r)
  PROVE  WatcherInv'
<1> USE FieldTypes DEF WatcherInv
<1>1. /\ \A d \in Calls : call[d].pc = "watching" /\ call[d].on = r =>
           room[r].iteration = "none" /\ room[r].iterator # 0
      /\ room[r].iteration \in {"running", "failed"} => room[r].iterator # 0
      /\ room[r].started => room[r].iteration # "none"
  BY DEF Counted, Holding
<1>2. UNCHANGED <<shuttingDown, rooms, call, serve, down>>
  BY DEF CloseStep, CloseCancels, CloseEnds
<1>3. CASE CloseCancels(r)
  <2> DEFINE new == [[room[r] EXCEPT !.closing = "waiting"] EXCEPT !.cancelled = TRUE]
  <2>1. new \in RoomType
    BY DEF RoomType
  <2>2. /\ new = [room[r] EXCEPT !.closing = "waiting", !.cancelled = TRUE]
        /\ new.key = room[r].key /\ new.lock = room[r].lock /\ new.started = room[r].started
        /\ new.closing = "waiting" /\ new.iteration = room[r].iteration
        /\ new.opened = room[r].opened
        /\ new.iterator = room[r].iterator
    BY DEF RoomType
  <2>3. room' = [room EXCEPT ![r] = new]
    BY <1>3, <2>2 DEF CloseCancels, Types
  <2> HIDE DEF new
  <2>4. RoomMoves(r, new)
    BY <1>1, <1>2, <2>1, <2>2, <2>3 DEF RoomMoves
  <2> QED BY <2>4, RoomMovesStep
<1>4. CASE CloseEnds(r) /\ room[r].started
  <2> DEFINE new == [room[r] EXCEPT !.closing = "done"]
  <2>1. /\ new \in RoomType
        /\ new.key = room[r].key /\ new.lock = room[r].lock /\ new.started = room[r].started
        /\ new.closing = "done" /\ new.iteration = room[r].iteration
        /\ new.opened = room[r].opened
        /\ new.iterator = room[r].iterator
    BY DEF RoomType
  <2>2. room' = [room EXCEPT ![r] = new] /\ room[r].iterator = 0 /\ room[r].started
    BY <1>4 DEF CloseEnds, Types
  <2> HIDE DEF new
  <2>3. RoomMoves(r, new)
    BY <1>1, <1>2, <2>1, <2>2 DEF RoomMoves
  <2> QED BY <2>3, RoomMovesStep
<1>5. CASE CloseEnds(r) /\ ~room[r].started
  <2>1. UNCHANGED room
    BY <1>5 DEF CloseEnds
  <2>2. CursorsCounted' /\ SweepChecked'
    BY <1>2, <2>1, CursorsStay
  <2> QED BY <1>2, <2>1, <2>2 DEF Types, Keyed, ShutdownIsTold, Reachable,
                                 CandidatesReachable, Counted
<1> QED BY <1>3, <1>4, <1>5 DEF CloseStep
-------------------------------------------------------------------------------
\* So do the GC and the shutdowns.

\* The GC counts the cursors of a room: one that is counted at zero is the room of none
\* of those it keeps.
LEMMA SweepChecksStep ==
  ASSUME WatcherInv, NEW r \in Rooms, SweepChecks(r)
  PROVE  WatcherInv'
<1> USE FieldTypes DEF WatcherInv
<1>1. r \in serve.candidates /\ UNCHANGED <<shuttingDown, rooms, room, call, down>>
  BY DEF SweepChecks
<1>2. /\ serve' \in ServeType /\ serve'.kept = serve.kept
      /\ serve'.candidates \subseteq serve.candidates
      /\ serve'.pc = "remove" => /\ room[r].opened = 0
                                /\ serve'.victim = r /\ r \in serve'.candidates
  <2>1. CASE room[r].opened # 0
    <3>1. serve' = [serve EXCEPT !.candidates = serve.candidates \ {r}] /\ serve.pc = "sweep"
      BY <2>1 DEF SweepChecks, Serves
    <3>2. serve.candidates \ {r} \in SUBSET Rooms
      OBVIOUS
    <3> QED BY <3>1, <3>2 DEF ServeType
  <2>2. CASE room[r].opened = 0
    <3>1. serve' = [serve EXCEPT !.pc = "remove", !.victim = r]
      BY <2>2 DEF SweepChecks
    <3> QED BY <1>1, <2>2, <3>1 DEF ServeType
  <2> QED BY <2>1, <2>2
<1>3. CursorsCounted'
  BY <1>1 DEF CursorsCounted, OpenOn
<1>4. SweepChecked'
  <2>1. room[r].opened = 0 => OpenOn(r) = {}
    BY OpenOnFinite, FS_EmptySet DEF CursorsCounted
  <2>2. room[r].opened = 0 => \A c \in serve.kept : call[c].on # r
    BY <2>1 DEF SweepChecked, OpenOn
  <2> QED BY <1>1, <1>2, <2>2 DEF SweepChecked
<1> QED BY <1>1, <1>2, <1>3, <1>4 DEF Types, Keyed, ShutdownIsTold, Reachable,
                                    CandidatesReachable, Counted

LEMMA SweepRemovesStep ==
  ASSUME WatcherInv, SweepRemoves
  PROVE  WatcherInv'
<1> USE FieldTypes DEF WatcherInv
<1> DEFINE r == serve.victim
<1>1. r \in serve.candidates /\ r \in Rooms /\ UNCHANGED <<shuttingDown, call, down>>
  BY DEF SweepRemoves, Serves, SweepChecked
<1>2. /\ serve' \in ServeType /\ serve'.candidates = serve.candidates \ {r}
      /\ serve'.pc = "sweep" /\ serve'.kept = serve.kept
  <2>1. serve' = [serve EXCEPT !.pc = "sweep", !.candidates = serve.candidates \ {r},
                               !.victim = None]
    BY DEF SweepRemoves, Removed
  <2>2. serve.candidates \ {r} \in SUBSET Rooms
    OBVIOUS
  <2> HIDE DEF r
  <2> QED BY <2>1, <2>2 DEF ServeType
<1>3. /\ room' = ClosingAll({r})
      /\ rooms' = IF room[r].started THEN [rooms EXCEPT ![room[r].key] = None] ELSE rooms
  BY DEF SweepRemoves
<1> HIDE DEF r
<1>4. /\ room' \in [Rooms -> RoomType]
      /\ \A s \in Rooms :
           /\ room'[s].key = room[s].key /\ room'[s].lock = room[s].lock
           /\ room'[s].iterator = room[s].iterator /\ room'[s].started = room[s].started
           /\ room'[s].iteration = room[s].iteration /\ room'[s].opened = room[s].opened
           /\ room'[s].closing = room[s].closing \/ room'[s].closing = "called"
           /\ s = r => room'[s].closing # "no"
  <2>1. {r} \in SUBSET Rooms
    BY <1>1
  <2> QED BY <1>3, <2>1, ClosingFacts
<1>5. /\ rooms' \in [Keys -> Rooms \cup {None}]
      /\ \A k \in Keys : rooms'[k] = rooms[k] \/ (rooms'[k] = None /\ k = room[r].key)
  BY <1>3 DEF Types
<1>6. Types' /\ ShutdownIsTold'
  BY <1>1, <1>2, <1>4, <1>5 DEF Types, ShutdownIsTold
<1>7. Keyed'
  <2>1. \A k \in Keys : rooms'[k] # None => room'[rooms'[k]].key = k
    BY <1>4, <1>5 DEF Keyed, Types
  <2>2. \A d \in Calls : call'[d].pc \in Using =>
          call'[d].on \in Rooms /\ room'[call'[d].on].key # None
    BY <1>1, <1>4 DEF Keyed
  <2> QED BY <1>1, <1>4, <2>1, <2>2 DEF Keyed
<1>8. ~shuttingDown => room[r].key \in Keys /\ rooms[room[r].key] = r
  BY <1>1 DEF CandidatesReachable
<1>9. Reachable'
  BY <1>1, <1>4, <1>5, <1>8 DEF Reachable
<1>10. CandidatesReachable'
  BY <1>1, <1>2, <1>4, <1>5, <1>8 DEF CandidatesReachable
<1>11. Counted'
  <2>1. \A d \in Calls : call[d].pc \in Holding => call[d].on \in Rooms
    BY DEF Keyed, Using
  <2> QED BY <1>1, <1>4, <2>1 DEF Counted
<1>12. CursorsCounted'
  <2>1. \A s \in Rooms : OpenOn(s)' = OpenOn(s)
    BY <1>1 DEF OpenOn
  <2> QED BY <1>4, <2>1 DEF CursorsCounted
<1>13. SweepChecked'
  BY <1>1, <1>2 DEF SweepChecked
<1> QED BY <1>6, <1>7, <1>9, <1>10, <1>11, <1>12, <1>13

LEMMA ShutdownLocksStep ==
  ASSUME WatcherInv, NEW s \in Shutters, ShutdownLocks(s)
  PROVE  WatcherInv'
<1> USE FieldTypes DEF WatcherInv
<1> DEFINE rs == {r \in Rooms : Registered(r)}
<1>1. shuttingDown /\ UNCHANGED <<shuttingDown, call, serve>>
  BY DEF ShutdownLocks, ShutdownIsTold
<1>2. /\ rooms' = [k \in Keys |-> None] /\ room' = ClosingAll(rs)
      /\ down' = [down EXCEPT ![s] = [pc |-> "waiting", waits |-> rs]]
  BY DEF ShutdownLocks
<1>3. rs \in SUBSET Rooms
  OBVIOUS
<1> HIDE DEF rs
<1>4. down' \in [Shutters -> DownType]
  <2>1. [pc |-> "waiting", waits |-> rs] \in DownType
    BY <1>3 DEF DownType
  <2> QED BY <1>2, <2>1 DEF Types
<1>5. /\ room' \in [Rooms -> RoomType]
      /\ \A r \in Rooms :
           /\ room'[r].key = room[r].key /\ room'[r].lock = room[r].lock
           /\ room'[r].iterator = room[r].iterator /\ room'[r].started = room[r].started
           /\ room'[r].iteration = room[r].iteration /\ room'[r].opened = room[r].opened
           /\ room'[r].closing = room[r].closing \/ room'[r].closing = "called"
  BY <1>2, <1>3, ClosingFacts
<1>6. Types' /\ ShutdownIsTold' /\ Reachable' /\ CandidatesReachable'
  BY <1>1, <1>2, <1>4, <1>5
     DEF Types, ShutdownIsTold, Reachable, CandidatesReachable
<1>7. Keyed'
  <2>1. \A d \in Calls : call'[d].pc \in Using =>
          call'[d].on \in Rooms /\ room'[call'[d].on].key # None
    BY <1>1, <1>5 DEF Keyed
  <2> QED BY <1>1, <1>2, <2>1 DEF Keyed
<1>8. Counted'
  <2>1. \A d \in Calls : call[d].pc \in Holding => call[d].on \in Rooms
    BY DEF Keyed, Using
  <2> QED BY <1>1, <1>5, <2>1 DEF Counted
<1>9. CursorsCounted' /\ SweepChecked'
  BY <1>1, <1>5, CursorsStay
<1> QED BY <1>6, <1>7, <1>8, <1>9

LEMMA CollectStep ==
  ASSUME WatcherInv, Collect
  PROVE  WatcherInv'
<1> USE FieldTypes DEF WatcherInv
<1>1. UNCHANGED <<shuttingDown, rooms, room, call, down>>
  BY DEF Collect
<1> DEFINE unused == {r \in Rooms : Registered(r) /\ room[r].opened = 0}
<1>2. unused \in SUBSET Rooms /\ serve' = [serve EXCEPT !.pc = "timer", !.candidates = unused]
  BY DEF Collect
<1>3. /\ serve' \in ServeType /\ serve'.candidates = unused
      /\ serve'.pc = "timer" /\ serve'.kept = serve.kept
  <2> HIDE DEF unused
  <2> QED BY <1>2 DEF ServeType
<1>4. \A r \in serve'.candidates : room[r].key # None /\ rooms[room[r].key] = r
  BY <1>3, WatcherAssumption DEF Registered, Keyed, Types
<1>5. CursorsCounted' /\ SweepChecked'
  BY <1>1, <1>3 DEF CursorsCounted, OpenOn, SweepChecked
<1> QED BY <1>1, <1>3, <1>4, <1>5 DEF Types, Keyed, ShutdownIsTold, Reachable,
                                    CandidatesReachable, Counted

\* The other steps of Serve and Shutdown move only them, or tell of a shutdown.
LEMMA QuietStep ==
  ASSUME WatcherInv,
         \/ ServeStarts \/ ServeChecks \/ TimerFires \/ ContextEnds \/ SweepBegins
         \/ SweepEnds \/ ServeReturns \/ ShutdownCalled \/ CancelContext
         \/ (\E s \in Shutters : ShutdownReturns(s)) \/ UNCHANGED vars
  PROVE  WatcherInv'
<1> USE FieldTypes DEF WatcherInv
<1>1. /\ UNCHANGED <<rooms, room, call>>
      /\ serve' \in ServeType /\ serve'.candidates = serve.candidates
      /\ \/ UNCHANGED serve
         \/ serve'.pc # "remove" /\ \A c \in serve'.kept : call[c].pc = "open"
  <2>1. CASE ServeStarts \/ ServeChecks \/ TimerFires \/ ContextEnds \/ ServeReturns
    <3>1. PICK pc \in {"check", "collect", "lock", "down", "returned"} :
            serve' = [serve EXCEPT !.pc = pc]
      BY <2>1 DEF ServeStarts, ServeChecks, TimerFires, ContextEnds, ServeReturns
    <3>2. /\ serve' \in ServeType /\ serve'.candidates = serve.candidates
          /\ serve'.pc # "remove" /\ serve'.kept = serve.kept
      BY <3>1 DEF ServeType
    <3> QED BY <2>1, <3>2
            DEF ServeStarts, ServeChecks, TimerFires, ContextEnds, ServeReturns, SweepChecked
  <2>2. CASE SweepBegins \/ SweepEnds
    <3>1. PICK pc \in {"check", "sweep"}, kept \in {{}, {c \in Calls : call[c].pc = "open"}} :
            serve' = [serve EXCEPT !.pc = pc, !.kept = kept]
      BY <2>2 DEF SweepBegins, SweepEnds
    <3>2. kept \in SUBSET Calls
      BY <3>1
    <3>3. /\ serve' \in ServeType /\ serve'.candidates = serve.candidates
          /\ serve'.pc # "remove" /\ serve'.kept = kept
      BY <3>1, <3>2 DEF ServeType
    <3> QED BY <2>2, <3>1, <3>3 DEF SweepBegins, SweepEnds
  <2>3. CASE \/ ShutdownCalled \/ CancelContext
             \/ (\E s \in Shutters : ShutdownReturns(s)) \/ UNCHANGED vars
    BY <2>3 DEF ShutdownCalled, CancelContext, ShutdownReturns, vars
  <2> QED BY <2>1, <2>2, <2>3
<1>2. /\ shuttingDown' \in BOOLEAN /\ (shuttingDown => shuttingDown')
      /\ down' \in [Shutters -> DownType]
      /\ \A s \in Shutters : down'[s].pc # "none" => shuttingDown'
  <2>1. CASE ContextEnds \/ ShutdownCalled
    <3>1. PICK s \in Shutters : down' = [down EXCEPT ![s].pc = "asked"]
      BY <2>1 DEF ContextEnds, ShutdownCalled, Shutters
    <3>2. [down[s] EXCEPT !.pc = "asked"] \in DownType
      BY DEF DownType
    <3>3. down' \in [Shutters -> DownType]
      BY <3>1, <3>2 DEF Types
    <3> QED BY <2>1, <3>3 DEF ContextEnds, ShutdownCalled
  <2>2. CASE \E s \in Shutters : ShutdownReturns(s)
    <3>1. PICK s \in Shutters : /\ down[s].pc = "waiting"
                                /\ down' = [down EXCEPT ![s].pc = "done"]
                                /\ UNCHANGED shuttingDown
      BY <2>2 DEF ShutdownReturns
    <3>2. [down[s] EXCEPT !.pc = "done"] \in DownType
      BY DEF DownType
    <3>3. down' \in [Shutters -> DownType] /\ \A t \in Shutters : t # s => down'[t] = down[t]
      BY <3>1, <3>2 DEF Types
    <3>4. shuttingDown
      BY <3>1 DEF ShutdownIsTold
    <3> QED BY <3>1, <3>3, <3>4 DEF Types
  <2>3. CASE \/ ServeStarts \/ ServeChecks \/ TimerFires \/ SweepBegins \/ SweepEnds
             \/ ServeReturns \/ CancelContext \/ UNCHANGED vars
    <3>1. UNCHANGED <<shuttingDown, down>>
      BY <2>3 DEF ServeStarts, ServeChecks, TimerFires, SweepBegins, SweepEnds,
                  ServeReturns, CancelContext, vars
    <3> QED BY <3>1 DEF Types, ShutdownIsTold
  <2> QED BY <2>1, <2>2, <2>3
<1>3. CursorsCounted' /\ SweepChecked'
  BY <1>1 DEF CursorsCounted, OpenOn, SweepChecked
<1> QED BY <1>1, <1>2, <1>3 DEF Types, Keyed, ShutdownIsTold, Reachable,
                                CandidatesReachable, Counted

-------------------------------------------------------------------------------
\* The invariant holds initially and every step keeps it.

LEMMA WatcherInit == Init => WatcherInv
<1> SUFFICES ASSUME Init PROVE WatcherInv
  OBVIOUS
<1>1. \A r \in Rooms : room[r] = [key |-> None, lock |-> Free, iterator |-> 0,
                                  started |-> FALSE, iteration |-> "none",
                                  cancelled |-> FALSE, opened |-> 0, closing |-> "no"]
  BY DEF Init
<1>2. \A c \in Calls : call[c] = [pc |-> "idle", key |-> None, on |-> None]
  BY DEF Init
<1>3. Types
  <2>1. room \in [Rooms -> RoomType] /\ call \in [Calls -> CallType]
    BY DEF Init, RoomType, CallType
  <2>2. serve \in ServeType /\ down \in [Shutters -> DownType]
    BY DEF Init, ServeType, DownType
  <2> QED BY <2>1, <2>2 DEF Types, Init
<1>4. /\ serve.candidates = {} /\ serve.kept = {} /\ serve.pc = "new"
      /\ \A s \in Shutters : down[s].pc = "none"
  BY DEF Init
<1>5. Keyed /\ ShutdownIsTold
  BY <1>2, <1>4 DEF Keyed, ShutdownIsTold, Init, Using, Holding
<1>6. Reachable /\ CandidatesReachable
  BY <1>1, <1>4 DEF Reachable, CandidatesReachable
<1>7. Counted
  BY <1>1, <1>2 DEF Counted, Holding
<1>8. CursorsCounted
  <2>1. \A r \in Rooms : OpenOn(r) = {} /\ room[r].opened = 0
    BY <1>1, <1>2 DEF OpenOn
  <2> QED BY <2>1, FS_EmptySet DEF CursorsCounted
<1>9. SweepChecked
  BY <1>4 DEF SweepChecked
<1> QED BY <1>3, <1>5, <1>6, <1>7, <1>8, <1>9 DEF WatcherInv

LEMMA WatcherNext == WatcherInv /\ [Next]_vars => WatcherInv'
<1> SUFFICES ASSUME WatcherInv, [Next]_vars PROVE WatcherInv'
  OBVIOUS
<1>1. ASSUME NEW c \in Calls, NEW k \in Keys, Arrive(c, k) PROVE WatcherInv'
  BY <1>1, ArriveStep
<1>2. ASSUME NEW c \in Calls, WatchStep(c) PROVE WatcherInv'
  <2>1. CASE LookUp(c) \/ \E r \in Rooms : FindsStarted(c, r)
    BY <2>1, LookUpStep
  <2>2. CASE Create(c)
    BY <2>2, CreateStep
  <2>3. ASSUME NEW r \in Rooms, Start(c, r) PROVE WatcherInv'
    BY <2>3, StartLocksStep
  <2>4. ASSUME NEW r \in Rooms, StartFails(c, r) PROVE WatcherInv'
    BY <2>4, StartFailsStep
  <2>5. ASSUME NEW r \in Rooms, StartIterates(c, r) PROVE WatcherInv'
    BY <2>5, StartIteratesStep
  <2>6. ASSUME NEW r \in Rooms, StartReturns(c, r) PROVE WatcherInv'
    BY <2>6, StartReturnsStep
  <2>7. ASSUME NEW r \in Rooms, OpenCursor(c, r) PROVE WatcherInv'
    BY <2>7, OpenCursorStep
  <2> QED BY <1>2, <2>1, <2>2, <2>3, <2>4, <2>5, <2>6, <2>7 DEF WatchStep, StartStep
<1>3. ASSUME NEW c \in Calls, NEW r \in Rooms, CloseCursor(c, r) PROVE WatcherInv'
  BY <1>3, CloseCursorStep
<1>4. ASSUME NEW r \in Rooms, IterationEnds(r) \/ IterationFails(r) PROVE WatcherInv'
  BY <1>4, IterationStep
<1>5. ASSUME NEW r \in Rooms, CloseStep(r) PROVE WatcherInv'
  BY <1>5, ClosesStep
<1>6. CASE (\E r \in Rooms : SweepChecks(r)) \/ SweepRemoves
  BY <1>6, SweepChecksStep, SweepRemovesStep
<1>7. CASE Collect
  BY <1>7, CollectStep
<1>8. ASSUME NEW s \in Shutters, ShutdownLocks(s) PROVE WatcherInv'
  BY <1>8, ShutdownLocksStep
<1>9. CASE \/ ServeStarts \/ ServeChecks \/ TimerFires \/ ContextEnds \/ SweepBegins
           \/ SweepEnds \/ ServeReturns \/ ShutdownCalled \/ CancelContext
           \/ (\E s \in Shutters : ShutdownReturns(s)) \/ UNCHANGED vars
  BY <1>9, QuietStep
<1>10. CASE ServeStep
  BY <1>10, <1>6, <1>7, <1>9 DEF ServeStep
<1>11. ASSUME NEW s \in Shutters, ShutdownStep(s) PROVE WatcherInv'
  BY <1>11, <1>8, <1>9 DEF ShutdownStep
<1> QED BY <1>1, <1>2, <1>3, <1>4, <1>5, <1>9, <1>10, <1>11 DEF Next

\* Every state of the specification satisfies the invariant (SharedWatcher).
THEOREM WatcherIsInvariant == Spec => []WatcherInv
BY WatcherInit, WatcherNext, PTL DEF Spec

\* However the calls of Watch interleave with each other and with the GC, no room
\* that is iterated leaves the map without being closed (getOrCreate, Serve).
THEOREM RoomsAreReachable == Spec => []NoRoomIsStranded
<1>1. WatcherInv => NoRoomIsStranded
  BY DEF WatcherInv, Counted, Reachable, NoRoomIsStranded
<1> QED BY <1>1, WatcherIsInvariant, PTL

\* When Close has returned, the goroutine that iterated the room has ended, and the
\* room is not iterated again (GetOrStart, Close).
THEOREM ClosedRoomsRest == Spec => []ClosedRoomIsNotIterated
<1>1. WatcherInv => ClosedRoomIsNotIterated
  BY DEF WatcherInv, Counted, ClosedRoomIsNotIterated
<1> QED BY <1>1, WatcherIsInvariant, PTL

\* Until a shutdown no peer loses the room it had when the sweep began: the GC counts
\* the cursors again under the lock of the map (Serve).
THEOREM PeersKeepTheirRooms == Spec => UsedRoomsStay
<1> DEFINE Stays == \A k \in Keys, r \in Rooms :
             rooms[k] = r /\ rooms'[k] # r /\ ~shuttingDown =>
               \A c \in serve.kept : call[c].on # r
<1>1. WatcherInv /\ [Next]_vars => [Stays]_vars
  <2> SUFFICES ASSUME WatcherInv, Next, NEW k \in Keys, NEW r \in Rooms,
                      rooms[k] = r, rooms'[k] # r, ~shuttingDown
               PROVE  \A c \in serve.kept : call[c].on # r
    OBVIOUS
  <2> USE FieldTypes DEF WatcherInv
  <2>1. CASE \E c \in Calls : Create(c)
    <3>1. PICK c \in Calls : Create(c)
      BY <2>1
    <3>2. call[c].key \in Keys
      BY <3>1 DEF Create, At, Keyed
    <3> QED BY <3>1, <3>2, WatcherAssumption DEF Create, Types
  <2>2. CASE SweepRemoves
    <3>1. /\ serve.victim \in serve.candidates
          /\ \A c \in serve.kept : call[c].on # serve.victim
      BY <2>2 DEF SweepRemoves, Serves, SweepChecked
    <3>2. rooms' = [rooms EXCEPT ![room[serve.victim].key] = None]
      BY <2>2 DEF SweepRemoves
    <3>3. rooms[room[serve.victim].key] = serve.victim
      BY <3>1 DEF CandidatesReachable
    <3>4. k = room[serve.victim].key
      BY <3>2 DEF Types
    <3> QED BY <3>1, <3>3, <3>4
  <2>3. CASE \E s \in Shutters : ShutdownLocks(s)
    BY <2>3 DEF ShutdownLocks, ShutdownIsTold
  <2>4. CASE ~((\E c \in Calls : Create(c)) \/ SweepRemoves
               \/ \E s \in Shutters : ShutdownLocks(s))
    <3>1. UNCHANGED rooms
      BY <2>4 DEF Next, Arrive, WatchStep, LookUp, StartStep, FindsStarted, Start,
           StartFails, StartIterates, StartReturns, OpenCursor, CloseCursor,
           IterationEnds, IterationFails, CloseStep, CloseCancels, CloseEnds, ServeStep,
           ServeStarts, ServeChecks, Collect, TimerFires, ContextEnds, SweepBegins,
           SweepChecks, SweepEnds, ServeReturns, ShutdownCalled, CancelContext,
           ShutdownStep, ShutdownReturns
    <3> QED BY <3>1
  <2> QED BY <2>1, <2>2, <2>3, <2>4
<1> QED BY <1>1, WatcherIsInvariant, PTL DEF Spec, UsedRoomsStay

\* The room of every open cursor can still be found, or is being closed.
CursorsAreInLiveRooms ==
  \A c \in Calls : call[c].pc = "open" /\ ~shuttingDown =>
    LET r == call[c].on IN rooms[room[r].key] = r \/ room[r].closing # "no"

\* A cursor that was opened while the GC removed its room, between the check and the
\* delete or later, is on a room that is being closed and so learns of it: no peer is left
\* on a room that nobody else can find (Watch, Serve).
THEOREM LateCursorsAreTold == Spec => []CursorsAreInLiveRooms
<1>1. WatcherInv => CursorsAreInLiveRooms
  BY DEF WatcherInv, Keyed, Using, Reachable, CursorsAreInLiveRooms
<1> QED BY <1>1, WatcherIsInvariant, PTL
=============================================================================
