----------------------------- MODULE EventProofs -----------------------------
(***************************************************************************)
(* Proofs about the events of a room: EventRoom keeps its capacity, counts *)
(* its opened cursors and implements EventFeed (its safety part); under    *)
(* PeerEvents and EventStore no event that was taken is lost or stored     *)
(* twice, every session says that it joined and left when it does, and the *)
(* pages of the history have every event once and in order.                *)
(***************************************************************************)
EXTENDS EventRoom, PeerEvents, FiniteSetTheorems, TLAPS

\* The cursors the room counts.
Opened == {c \in Cursors : cursor[c].state # "none" /\ ~cursor[c].closed}

\* The list: how long it is, which nodes are evicted, and that every cursor is at a
\* node that exists.  Nodes are evicted only from a full list, which is why a cursor
\* found at an evicted node is more than Cap events behind.
ListInv ==
  /\ Capacity /\ EvictionIsDue
  /\ tail > 0 \/ iteration = "evicting" => len = Cap
  /\ \A c \in Cursors : cursor[c].node <= head /\ (cursor[c].state = "none" => ~cursor[c].closed)

RoomInv == TypeOK /\ ListInv /\ OpenedCursorsExact

\* A cursor has the type of its record, and so do its updates.
LEMMA CursorTypes ==
  ASSUME TypeOK
  PROVE  /\ \A c \in Cursors : /\ cursor[c] \in Cursor /\ cursor[c].node \in Nat
                               /\ cursor[c].closed \in BOOLEAN
                               /\ cursor[c].cancelled \in BOOLEAN
         /\ \A c \in Cursors : [cursor[c] EXCEPT !.node = @ + 1] \in Cursor
BY DEF TypeOK, Cursor

\* The counted cursors are finite.
LEMMA OpenedFinite == IsFiniteSet(Opened) /\ Cardinality(Opened) \in Nat
<1>1. Opened \subseteq Cursors
  BY DEF Opened
<1> QED BY <1>1, RoomAssumption, FS_Subset, FS_CardinalityType

\* The steps of the iterating goroutine keep the list and leave the cursors alone.
LEMMA RoomStepInv == RoomInv /\ (RoomStep \/ SourceEnds) => RoomInv'
<1> SUFFICES ASSUME RoomInv, RoomStep \/ SourceEnds PROVE RoomInv'
  OBVIOUS
<1> USE RoomAssumption
<1>0. TypeOK /\ ListInv /\ OpenedCursorsExact
  BY DEF RoomInv
<1>1. openedCursors' = openedCursors /\ cursor' = cursor
  BY DEF RoomStep, SourceEnds, Publish, Evict, CloseNode, CloseDone
<1>2. OpenedCursorsExact'
  BY <1>0, <1>1 DEF OpenedCursorsExact
<1>3. \A c \in Cursors : /\ cursor[c].node \in Nat /\ cursor[c].node <= head
                         /\ cursor[c].state = "none" => ~cursor[c].closed
  BY <1>0, CursorTypes DEF ListInv
<1>4. head \in Nat /\ tail \in Nat /\ len \in Nat /\ Cap \in Nat /\ sweep \in Nat
  BY <1>0 DEF TypeOK
<1>5. CASE Publish
  <2>1. head' = head + 1 /\ UNCHANGED <<tail, evicted, sweep, reset>> /\ iteration = "reading"
    BY <1>5 DEF Publish
  <2>2. \/ len + 1 <= Cap /\ len' = len + 1 /\ iteration' = "reading"
        \/ len + 1 > Cap /\ len' = len /\ iteration' = "evicting"
    BY <1>4, <1>5, <2>1 DEF Publish
  <2>3. TypeOK'
    BY <1>0, <1>1, <1>4, <2>1, <2>2 DEF TypeOK
  <2>4. Capacity' /\ (tail' > 0 \/ iteration' = "evicting" => len' = Cap)
    BY <1>0, <1>4, <2>1, <2>2 DEF ListInv, Capacity
  <2>5. EvictionIsDue'
    BY <1>0, <2>1 DEF ListInv, EvictionIsDue
  <2>6. \A c \in Cursors : cursor'[c].node <= head' /\ (cursor'[c].state = "none" => ~cursor'[c].closed)
    BY <1>1, <1>3, <1>4, <2>1
  <2> QED BY <2>3, <2>4, <2>5, <2>6, <1>2 DEF ListInv, RoomInv
<1>6. CASE Evict
  <2>1. /\ iteration = "evicting" /\ iteration' = "reading"
        /\ evicted' = evicted \cup {tail} /\ tail' = tail + 1
        /\ UNCHANGED <<head, len, sweep, reset>>
    BY <1>6 DEF Evict
  <2>2. TypeOK'
    BY <1>0, <1>1, <1>4, <2>1 DEF TypeOK
  <2>3. Capacity' /\ (tail' > 0 \/ iteration' = "evicting" => len' = Cap)
    BY <1>0, <1>4, <2>1 DEF ListInv, Capacity
  <2>4. EvictionIsDue'
    <3>1. evicted = 0..(tail - 1)
      BY <1>0, <2>1 DEF ListInv, EvictionIsDue
    <3>2. 0..(tail - 1) \cup {tail} = 0..tail
      BY <1>4
    <3> QED BY <1>4, <2>1, <3>1, <3>2 DEF EvictionIsDue
  <2> QED BY <1>1, <1>2, <1>3, <2>1, <2>2, <2>3, <2>4 DEF ListInv, RoomInv
<1>7. CASE CloseNode \/ CloseDone \/ SourceEnds
  <2>1. /\ iteration' \in {"closing", "closed"} /\ UNCHANGED <<head, tail, len>>
        /\ evicted' = evicted \/ evicted' = evicted \cup {sweep}
        /\ sweep' = sweep \/ sweep' = sweep + 1 \/ sweep' = tail
        /\ reset' \in BOOLEAN
        /\ iteration # "evicting"
    BY <1>0, <1>7 DEF CloseNode, CloseDone, SourceEnds, TypeOK
  <2>2. TypeOK'
    <3>1. evicted' \subseteq Nat
      BY <1>0, <1>4, <2>1 DEF TypeOK
    <3>2. sweep' \in Nat
      BY <1>4, <2>1
    <3> QED BY <1>0, <1>1, <2>1, <3>1, <3>2 DEF TypeOK
  <2>3. Capacity' /\ (tail' > 0 \/ iteration' = "evicting" => len' = Cap)
    BY <1>0, <1>4, <2>1 DEF ListInv, Capacity
  <2>4. EvictionIsDue'
    BY <2>1 DEF EvictionIsDue
  <2> QED BY <1>1, <1>2, <1>3, <2>1, <2>2, <2>3, <2>4 DEF ListInv, RoomInv
<1> QED BY <1>2, <1>5, <1>6, <1>7 DEF RoomStep, RoomInv

\* A step of one cursor keeps the invariant if it leaves the cursor at a node that
\* exists and openedCursors follows whether the cursor counts.
LEMMA CursorStepInv ==
  ASSUME RoomInv, NEW c \in Cursors, NEW r \in Cursor,
         cursor' = [cursor EXCEPT ![c] = r], UNCHANGED roomVars,
         r.node <= head, r.state # "none",
         \/ (r.closed <=> c \notin Opened) /\ openedCursors' = openedCursors
         \/ ~r.closed /\ c \notin Opened /\ openedCursors' = openedCursors + 1
         \/ r.closed /\ c \in Opened /\ openedCursors' = openedCursors - 1
  PROVE  RoomInv'
<1> USE RoomAssumption
<1>0. TypeOK /\ ListInv /\ openedCursors = Cardinality(Opened)
  BY DEF RoomInv, OpenedCursorsExact, Opened
<1>1. \A d \in Cursors : cursor'[d] = IF d = c THEN r ELSE cursor[d]
  BY <1>0 DEF TypeOK
<1>2. ListInv'
  BY <1>0, <1>1 DEF roomVars, ListInv, Capacity, EvictionIsDue
<1>3. openedCursors' = Cardinality(Opened') /\ openedCursors' \in Nat
  <2>1. CASE (r.closed <=> c \notin Opened) /\ openedCursors' = openedCursors
    <3>1. Opened' = Opened
      BY <1>1, <2>1 DEF Opened, Cursor
    <3> QED BY <1>0, <2>1, <3>1, OpenedFinite
  <2>2. CASE ~r.closed /\ c \notin Opened /\ openedCursors' = openedCursors + 1
    <3>1. Opened' = Opened \cup {c}
      BY <1>1, <2>2 DEF Opened, Cursor
    <3>2. Cardinality(Opened \cup {c}) = Cardinality(Opened) + 1
      BY <2>2, OpenedFinite, FS_AddElement
    <3> QED BY <1>0, <2>2, <3>1, <3>2, OpenedFinite
  <2>3. CASE r.closed /\ c \in Opened /\ openedCursors' = openedCursors - 1
    <3>1. Opened' = Opened \ {c}
      BY <1>1, <2>3 DEF Opened, Cursor
    <3>2. Cardinality(Opened \ {c}) = Cardinality(Opened) - 1 /\ IsFiniteSet(Opened \ {c})
      BY <2>3, OpenedFinite, FS_RemoveElement
    <3>3. Cardinality(Opened \ {c}) \in Nat
      BY <3>2, FS_CardinalityType
    <3> QED BY <1>0, <2>3, <3>1, <3>2, <3>3
  <2> QED BY <2>1, <2>2, <2>3
<1>4. TypeOK'
  BY <1>0, <1>3 DEF roomVars, TypeOK
<1> QED BY <1>2, <1>3, <1>4 DEF RoomInv, OpenedCursorsExact, Opened

\* Every step of a cursor or its consumer keeps the invariant.
LEMMA CursorActionInv ==
  ASSUME RoomInv, NEW c \in Cursors,
         Open(c) \/ CloseCursor(c) \/ Cancel(c) \/ ConsumerStep(c)
  PROVE  RoomInv'
<1>0. TypeOK /\ ListInv
  BY DEF RoomInv
<1>1. /\ cursor[c] \in Cursor /\ cursor[c].node \in Nat /\ cursor[c].node <= head
      /\ head \in Nat /\ (cursor[c].state = "none" => ~cursor[c].closed)
  BY <1>0, CursorTypes DEF TypeOK, ListInv
<1>2. c \in Opened <=> cursor[c].state # "none" /\ ~cursor[c].closed
  BY DEF Opened
<1>3. CASE Open(c)
  <2> DEFINE r == [cursor[c] EXCEPT !.state = "idle", !.node = head]
  <2>1. r \in Cursor /\ r.node = head /\ r.state # "none" /\ r.closed = cursor[c].closed
    <3>1. r.node = head /\ r.state = "idle" /\ r.closed = cursor[c].closed
      BY <1>1 DEF Cursor
    <3>2. r \in Cursor
      BY <1>1 DEF Cursor
    <3> QED BY <3>1, <3>2
  <2>2. cursor' = [cursor EXCEPT ![c] = r] /\ UNCHANGED roomVars
        /\ openedCursors' = openedCursors + 1 /\ cursor[c].state = "none"
    BY <1>0, <1>3 DEF Open, TypeOK, Cursor
  <2> HIDE DEF r
  <2>3. ~r.closed /\ c \notin Opened /\ r.node <= head
    BY <1>1, <1>2, <2>1, <2>2
  <2> QED BY <2>1, <2>2, <2>3, CursorStepInv
<1>4. ASSUME NEW s \in {"idle", "waiting", "ended"}, CloseAndEnter(c, s),
             cursor[c].state # "none"
      PROVE  RoomInv'
  <2> DEFINE r == [cursor[c] EXCEPT !.closed = TRUE, !.state = s]
  <2>1. r \in Cursor /\ r.node <= head /\ r.state # "none" /\ r.closed
    BY <1>1 DEF Cursor
  <2>2. cursor' = [cursor EXCEPT ![c] = r] /\ UNCHANGED roomVars
    BY <1>0, <1>4 DEF CloseAndEnter, TypeOK, Cursor
  <2>3. \/ cursor[c].closed /\ openedCursors' = openedCursors
        \/ ~cursor[c].closed /\ openedCursors' = openedCursors - 1
    BY <1>4 DEF CloseAndEnter
  <2> HIDE DEF r
  <2> QED BY <1>2, <1>4, <2>1, <2>2, <2>3, CursorStepInv
<1>5. CASE CloseCursor(c)
  BY <1>1, <1>4, <1>5 DEF CloseCursor, Cursor
<1>6. CASE NextEvicted(c) \/ NextStopped(c)
  BY <1>4, <1>6 DEF NextEvicted, NextStopped
<1>7. ASSUME NEW r \in Cursor, cursor' = [cursor EXCEPT ![c] = r],
             UNCHANGED <<roomVars, openedCursors>>, r.node <= head,
             r.state # "none", r.closed = cursor[c].closed, cursor[c].state # "none"
      PROVE  RoomInv'
  BY <1>1, <1>2, <1>7, CursorStepInv
<1>8. CASE Cancel(c)
  <2> DEFINE r == [cursor[c] EXCEPT !.cancelled = TRUE]
  <2>1. /\ r \in Cursor /\ cursor' = [cursor EXCEPT ![c] = r] /\ r.node <= head
        /\ r.state # "none" /\ r.closed = cursor[c].closed
    BY <1>0, <1>1, <1>8 DEF Cancel, TypeOK, Cursor
  <2> HIDE DEF r
  <2> QED BY <1>7, <1>8, <2>1 DEF Cancel
<1>9. CASE NextWaits(c)
  <2> DEFINE r == [cursor[c] EXCEPT !.state = "waiting"]
  <2>1. /\ r \in Cursor /\ cursor' = [cursor EXCEPT ![c] = r] /\ r.node <= head
        /\ r.state # "none" /\ r.closed = cursor[c].closed
    BY <1>0, <1>1, <1>9 DEF NextWaits, TypeOK, Cursor
  <2> HIDE DEF r
  <2> QED BY <1>7, <1>9, <2>1 DEF NextWaits
<1>10. CASE NextDelivers(c)
  <2> DEFINE r == [cursor[c] EXCEPT !.state = "idle", !.node = @ + 1]
  <2>1. /\ r \in Cursor /\ cursor' = [cursor EXCEPT ![c] = r] /\ r.node <= head
        /\ r.state # "none" /\ r.closed = cursor[c].closed
    BY <1>0, <1>1, <1>10 DEF NextDelivers, TypeOK, Cursor
  <2> HIDE DEF r
  <2> QED BY <1>7, <1>10, <2>1 DEF NextDelivers
<1> QED BY <1>3, <1>5, <1>6, <1>8, <1>9, <1>10 DEF ConsumerStep

\* The invariant holds initially and every step keeps it.
LEMMA RoomInvStep == RoomInv /\ [Next]_vars => RoomInv'
<1>1. ASSUME RoomInv, UNCHANGED vars PROVE RoomInv'
  BY <1>1 DEF vars, RoomInv, TypeOK, ListInv, Capacity, EvictionIsDue, OpenedCursorsExact
<1> QED BY <1>1, RoomStepInv, CursorActionInv DEF Next

\* The empty room satisfies the invariant.
LEMMA RoomInvInit == Init => RoomInv
<1> SUFFICES ASSUME Init PROVE RoomInv
  OBVIOUS
<1>1. TypeOK
  BY DEF Init, TypeOK, Cursor
<1>2. ListInv
  BY RoomAssumption DEF Init, ListInv, Capacity, EvictionIsDue
<1>3. {c \in Cursors : cursor[c].state # "none" /\ ~cursor[c].closed} = {}
  BY DEF Init
<1> QED BY <1>1, <1>2, <1>3, FS_EmptySet DEF Init, RoomInv, OpenedCursorsExact

\* The room never holds more than Cap events after its tail, evicts a node only when
\* the list is full, and counts its opened cursors exactly (Room.Next,
\* SharedCursor.Close).
THEOREM RoomIsSound == Spec => [](TypeOK /\ Capacity /\ EvictionIsDue /\ OpenedCursorsExact)
<1>1. RoomInv => TypeOK /\ Capacity /\ EvictionIsDue /\ OpenedCursorsExact
  BY DEF RoomInv, ListInv
<1> QED BY <1>1, RoomInvInit, RoomInvStep, PTL DEF Spec

-------------------------------------------------------------------------------
(* The room implements the feed *)

\* How the steps of the code show in the feed.
LEMMA FeedStep == RoomInv /\ [Next]_vars => [Feed!Next]_Feed!vars
<1> SUFFICES ASSUME RoomInv, [Next]_vars PROVE [Feed!Next]_Feed!vars
  OBVIOUS
<1>0. TypeOK /\ ListInv
  BY DEF RoomInv
<1>1. CASE Publish
  <2>1. Feed!Publish
    BY <1>1 DEF Publish, Feed!Publish, FeedOpen, FeedReader
  <2> QED BY <2>1 DEF Feed!Next
<1>2. CASE Evict \/ CloseNode \/ CloseDone
  BY <1>2 DEF Evict, CloseNode, CloseDone, Feed!vars, FeedOpen, FeedReader
<1>3. CASE SourceEnds
  <2>1. Feed!Shut
    BY <1>3 DEF SourceEnds, Feed!Shut, FeedOpen, FeedReader
  <2> QED BY <2>1 DEF Feed!Next
<1>4. ASSUME NEW c \in Cursors,
             Open(c) \/ CloseCursor(c) \/ Cancel(c) \/ ConsumerStep(c)
      PROVE  [Feed!Next]_Feed!vars
  <2> DEFINE x == cursor[c]
             y == cursor'[c]
             l == x.closed \/ x.cancelled
  <2>1. x \in Cursor /\ x.node \in Nat /\ head \in Nat /\ Cap \in Nat /\ c \in DOMAIN cursor
    BY <1>0, CursorTypes, RoomAssumption DEF TypeOK
  <2>2. FeedReader' = [FeedReader EXCEPT ![c] = AsReader(y)] /\ FeedOpen' = FeedOpen
        /\ head' = head /\ FeedReader[c] = AsReader(x) /\ FeedReader = [FeedReader EXCEPT ![c] = @]
    <3>1. /\ cursor' = [cursor EXCEPT ![c] = cursor'[c]]
          /\ UNCHANGED roomVars
      BY <1>0, <1>4 DEF Open, CloseCursor, Cancel, ConsumerStep, NextWaits, NextDelivers,
         NextEvicted, NextStopped, CloseAndEnter, TypeOK
    <3>2. \A d \in Cursors \ {c} : cursor'[d] = cursor[d]
      BY <1>0, <3>1 DEF TypeOK
    <3> HIDE DEF y
    <3> QED BY <3>1, <3>2 DEF FeedReader, FeedOpen, roomVars, y
  <2>3. ASSUME NEW s \in {"out", "in", "ended"}, NEW t \in {"out", "in", "ended"},
               s = AsReader(x).state, t = AsReader(y).state
        PROVE  /\ AsReader(x) = [state |-> s, pos |-> x.node, leaving |-> x.closed \/ x.cancelled]
               /\ AsReader(y) = [state |-> t, pos |-> y.node, leaving |-> y.closed \/ y.cancelled]
    BY <2>3 DEF AsReader
  <2>4. CASE Open(c)
    <3>1. /\ x.state = "none" /\ y.state = "idle" /\ y.node = head
          /\ y.closed = x.closed /\ y.cancelled = x.cancelled
      BY <1>0, <2>1, <2>4 DEF Open, TypeOK, Cursor
    <3>2. AsReader(x).state = "out" /\ AsReader(y).state = "in"
      BY <3>1 DEF AsReader
    <3> HIDE DEF x, y
    <3>3. AsReader(y) = Feed!Reading("in", head, AsReader(x).leaving)
      <4>1. AsReader(x) = [state |-> "out", pos |-> x.node, leaving |-> l]
        BY <3>1 DEF AsReader, l
      <4>2. AsReader(y) = [state |-> "in", pos |-> head, leaving |-> l]
        BY <3>1 DEF AsReader, l
      <4> HIDE DEF l
      <4> QED BY <4>1, <4>2 DEF Feed!Reading
    <3>4. Feed!Join(c)
      BY <2>2, <3>2, <3>3 DEF Feed!Join
    <3> QED BY <3>4 DEF Feed!Next
  <2>5. ASSUME x.state # "none", y.closed = TRUE \/ y.cancelled = TRUE,
               y.closed = TRUE \/ y.closed = x.closed,
               y.cancelled = TRUE \/ y.cancelled = x.cancelled,
               y.node = x.node, y.state = x.state
        PROVE  Feed!Leave(c)
    <3>1. AsReader(x).state # "out" /\ AsReader(y).state = AsReader(x).state
          /\ AsReader(x).state \in {"in", "ended"}
      BY <2>5 DEF AsReader
    <3> HIDE DEF x, y
    <3>2. AsReader(y) = Feed!Reading(AsReader(x).state, AsReader(x).pos, TRUE)
      <4>0. PICK s \in {"in", "ended"} : AsReader(x).state = s /\ AsReader(y).state = s
        BY <3>1
      <4>1. AsReader(x) = [state |-> s, pos |-> x.node, leaving |-> l]
        BY <4>0 DEF AsReader, l
      <4>2. AsReader(y) = [state |-> s, pos |-> x.node, leaving |-> TRUE]
        BY <2>5, <4>0 DEF AsReader
      <4> HIDE DEF l
      <4> QED BY <4>1, <4>2 DEF Feed!Reading
    <3> QED BY <2>2, <3>1, <3>2 DEF Feed!Leave
  <2>6. CASE CloseCursor(c)
    <3>1. /\ x.state # "none" /\ y.closed = TRUE /\ y.cancelled = x.cancelled
          /\ y.node = x.node /\ y.state = x.state
      BY <1>0, <2>1, <2>6 DEF CloseCursor, CloseAndEnter, TypeOK, Cursor
    <3> HIDE DEF x, y
    <3> QED BY <2>5, <3>1 DEF Feed!Next
  <2>7. CASE Cancel(c)
    <3>1. /\ x.state # "none" /\ y.cancelled = TRUE /\ y.closed = x.closed
          /\ y.node = x.node /\ y.state = x.state
      BY <1>0, <2>1, <2>7 DEF Cancel, TypeOK, Cursor
    <3> HIDE DEF x, y
    <3> QED BY <2>5, <3>1 DEF Feed!Next
  <2>8. CASE NextWaits(c)
    <3>1. /\ x.state = "idle" /\ y.state = "waiting" /\ y.cancelled = x.cancelled
          /\ y.closed = x.closed /\ y.node = x.node
      BY <1>0, <2>1, <2>8 DEF NextWaits, TypeOK, Cursor
    <3>2. AsReader(x).state = "in" /\ AsReader(y).state = "in"
      BY <3>1 DEF AsReader
    <3> HIDE DEF x, y
    <3>3. AsReader(y) = AsReader(x)
      BY <2>3, <3>1, <3>2
    <3> QED BY <2>2, <3>3 DEF Feed!vars
  <2>9. CASE NextDelivers(c)
    <3>1. /\ x.state = "waiting" /\ y.state = "idle" /\ y.cancelled = x.cancelled
          /\ y.closed = x.closed /\ y.node = x.node + 1 /\ x.node < head
      BY <1>0, <2>1, <2>9 DEF NextDelivers, TypeOK, Cursor
    <3>2. AsReader(x).state = "in" /\ AsReader(y).state = "in" /\ AsReader(x).pos = x.node
      BY <3>1 DEF AsReader
    <3> HIDE DEF x, y
    <3>3. AsReader(y) = [AsReader(x) EXCEPT !.pos = @ + 1]
      BY <2>3, <3>1, <3>2
    <3>4. Feed!Read(c)
      BY <2>2, <3>1, <3>2, <3>3 DEF Feed!Read
    <3> QED BY <3>4 DEF Feed!Next
  <2>10. CASE NextEvicted(c) \/ NextStopped(c)
    <3>1. /\ x.state \in {"idle", "waiting"} /\ y.state = "ended" /\ y.cancelled = x.cancelled
          /\ y.closed = TRUE /\ y.node = x.node
      <4>1. CloseAndEnter(c, "ended") /\ x.state \in {"idle", "waiting"}
        BY <2>10 DEF NextEvicted, NextStopped
      <4>2. cursor' = [cursor EXCEPT ![c].closed = TRUE, ![c].state = "ended"]
        BY <4>1 DEF CloseAndEnter
      <4>3. y = [x EXCEPT !.closed = TRUE, !.state = "ended"]
        BY <2>1, <4>2
      <4> QED BY <2>1, <4>1, <4>3 DEF Cursor
    <3>2. AsReader(x).state = "in" /\ AsReader(y).state = "ended" /\ AsReader(x).pos = x.node
          /\ AsReader(x).leaving = (x.closed \/ x.cancelled)
      BY <3>1 DEF AsReader
    <3>3. (x.closed \/ x.cancelled) \/ ~FeedOpen \/ head > x.node + Cap
      <4>1. CASE NextStopped(c)
        BY <4>1 DEF NextStopped
      <4>2. CASE NextEvicted(c) /\ FeedOpen
        <5>1. x.node \in 0..(tail - 1) /\ tail \in Nat /\ len \in Nat
          BY <1>0, <4>2 DEF NextEvicted, FeedOpen, ListInv, EvictionIsDue, TypeOK
        <5>2. head >= tail + Cap
          BY <1>0, <2>1, <5>1 DEF ListInv, Capacity
        <5> QED BY <2>1, <5>1, <5>2
      <4> QED BY <2>10, <4>1, <4>2
    <3> HIDE DEF x, y
    <3>4. AsReader(y) = Feed!Reading("ended", AsReader(x).pos, TRUE)
      <4>1. AsReader(x) = [state |-> "in", pos |-> x.node, leaving |-> l]
        BY <3>1 DEF AsReader, l
      <4>2. AsReader(y) = [state |-> "ended", pos |-> x.node, leaving |-> TRUE]
        BY <3>1 DEF AsReader
      <4> HIDE DEF l
      <4> QED BY <4>1, <4>2 DEF Feed!Reading
    <3>5. Feed!End(c)
      BY <2>2, <3>2, <3>3, <3>4 DEF Feed!End
    <3> QED BY <3>5 DEF Feed!Next
  <2> QED BY <1>4, <2>4, <2>6, <2>7, <2>8, <2>9, <2>10 DEF ConsumerStep
<1>5. CASE UNCHANGED vars
  BY <1>5 DEF vars, Feed!vars, FeedOpen, FeedReader
<1> QED BY <1>1, <1>2, <1>3, <1>4, <1>5 DEF Next, RoomStep

\* Every cursor gets each event published after it was opened once and in order,
\* and is ended only if it or the room was closed or it is more than Cap events
\* behind: whatever the interleaving of the iterating goroutine with the cursors.
THEOREM RoomImplementsFeed == Spec => Feed!Spec
<1>1. Init => Feed!Init
  <2> SUFFICES ASSUME Init PROVE Feed!Init
    OBVIOUS
  <2>1. FeedReader = [c \in Cursors |-> [state |-> "out", pos |-> 0, leaving |-> FALSE]]
    BY DEF Init, FeedReader, AsReader
  <2>2. FeedOpen = TRUE /\ head = 0
    BY DEF Init, FeedOpen
  <2> QED BY <2>1, <2>2 DEF Feed!Init, Feed!Reading
<1> QED BY <1>1, RoomInvInit, RoomInvStep, FeedStep, PTL DEF Spec, Feed!Spec

-------------------------------------------------------------------------------
(* The store of the events *)

Event == [id : Ids, kind : {"joined", "message", "left"}]

JobStates == {"none", "ready", "reserved", "deleted", "buried"}
HandlerStates == [event : Ids \cup {0}, step : {"idle", "create", "delete", "retry"}]

\* The types of what the store keeps, the readers of the history left out.
StoreTypes ==
  /\ now \in Nat \ {0}
  /\ createdAt \in [Ids -> Nat]
  /\ job \in [Ids -> JobStates] /\ handler \in [Handlers -> HandlerStates]
  /\ log \in Seq(Ids)

\* Only events that were emitted are in the queue, with a handler or in the log.
OnlyEmitted ==
  /\ \A e \in Ids : job[e] # "none" => createdAt[e] # 0
  /\ \A h \in Handlers : handler[h].step # "idle" => /\ handler[h].event \in Ids
                                                     /\ createdAt[handler[h].event] # 0
  /\ \A e \in Stored : createdAt[e] # 0

\* What a handler is about to delete is stored, by itself or by another handler.
DeletesStored ==
  \A h \in Handlers : handler[h].step = "delete" => handler[h].event \in Stored

StoreInv == StoreTypes /\ OnlyEmitted /\ DeletesStored /\ NoEventIsLost

\* What a step does to the log: nothing, or it appends an event that was emitted.
LogGrows ==
  \/ log' = log
  \/ \E e \in Ids : e \notin Stored /\ createdAt[e] # 0 /\ log' = Append(log, e)

\* Appending an event that is not stored keeps the log without duplicates.
LEMMA AppendToLog ==
  ASSUME NEW l \in Seq(Ids), NEW e \in Ids, IsInjective(l), e \notin Range(l)
  PROVE  /\ Append(l, e) \in Seq(Ids) /\ IsInjective(Append(l, e))
         /\ Range(Append(l, e)) = Range(l) \cup {e}
<1> DEFINE n == Append(l, e)
<1>1. /\ n \in Seq(Ids) /\ DOMAIN n = 1..(Len(l) + 1) /\ DOMAIN l = 1..Len(l)
      /\ Len(l) \in Nat /\ n[Len(l) + 1] = e /\ \A i \in 1..Len(l) : n[i] = l[i]
  OBVIOUS
<1> HIDE DEF n
<1>2. \A i \in 1..Len(l) : l[i] # e
  BY <1>1 DEF Range
<1>3. IsInjective(n)
  BY <1>1, <1>2 DEF IsInjective
<1>4. Range(n) = Range(l) \cup {e}
  <2>1. \A x \in Range(n) : x \in Range(l) \cup {e}
    BY <1>1 DEF Range
  <2>2. \A x \in Range(l) : x \in Range(n)
    BY <1>1 DEF Range
  <2>3. e \in Range(n)
    BY <1>1 DEF Range
  <2> QED BY <2>1, <2>2, <2>3
<1> QED BY <1>1, <1>3, <1>4 DEF n

\* A log that grew has the events it had and, at most, one more.
LEMMA LogGrowth ==
  ASSUME StoreInv, LogGrows
  PROVE  /\ log' \in Seq(Ids) /\ IsInjective(log') /\ Stored \subseteq Stored'
         /\ \A e \in Stored' : e \in Stored \/ createdAt[e] # 0
<1>0. log \in Seq(Ids) /\ IsInjective(log)
  BY DEF StoreInv, StoreTypes, NoEventIsLost
<1>1. CASE log' = log
  BY <1>0, <1>1 DEF Stored
<1>2. ASSUME NEW e \in Ids, e \notin Stored, createdAt[e] # 0, log' = Append(log, e)
      PROVE  /\ log' \in Seq(Ids) /\ IsInjective(log') /\ Stored \subseteq Stored'
             /\ \A f \in Stored' : f \in Stored \/ createdAt[f] # 0
  <2>1. /\ log' \in Seq(Ids) /\ IsInjective(log')
        /\ Range(log') = Range(log) \cup {e}
    BY <1>0, <1>2, AppendToLog DEF Stored
  <2> QED BY <1>2, <2>1 DEF Stored
<1> QED BY <1>1, <1>2 DEF LogGrows

\* What a handler works on, as the invariant has it.
LEMMA HandlerFields ==
  ASSUME StoreInv, NEW h \in Handlers
  PROVE  /\ handler[h].event \in Ids \cup {0}
         /\ handler[h].step \in {"idle", "create", "delete", "retry"}
         /\ handler[h].step # "idle" => /\ handler[h].event \in Ids
                                        /\ createdAt[handler[h].event] # 0
         /\ handler[h].step = "delete" => handler[h].event \in Stored
BY DEF StoreInv, StoreTypes, OnlyEmitted, DeletesStored, HandlerStates

\* A step keeps the invariant if it changes one handler and the jobs in a way that
\* fits the log.
LEMMA StoreChange ==
  ASSUME StoreInv, LogGrows, UNCHANGED createdAt, now' \in Nat \ {0},
         handler' \in [Handlers -> HandlerStates],
         \A h \in Handlers : \/ handler'[h] = handler[h]
                            \/ /\ handler'[h].step # "idle" =>
                                     /\ handler'[h].event \in Ids
                                     /\ createdAt[handler'[h].event] # 0
                               /\ handler'[h].step = "delete" =>
                                     handler'[h].event \in Stored',
         job' \in [Ids -> JobStates],
         \A e \in Ids : job'[e] # "none" => createdAt[e] # 0,
         \A e \in Ids : job'[e] = "deleted" => job[e] = "deleted" \/ e \in Stored'
  PROVE  StoreInv'
<1>1. /\ log' \in Seq(Ids) /\ IsInjective(log') /\ Stored \subseteq Stored'
      /\ \A e \in Stored' : e \in Stored \/ createdAt[e] # 0
  BY LogGrowth
<1>2. StoreTypes'
  BY <1>1 DEF StoreInv, StoreTypes
<1>3. OnlyEmitted'
  BY <1>1 DEF StoreInv, OnlyEmitted
<1>4. DeletesStored'
  BY <1>1 DEF StoreInv, DeletesStored
<1>5. NoEventIsLost'
  BY <1>1 DEF StoreInv, NoEventIsLost
<1> QED BY <1>2, <1>3, <1>4, <1>5 DEF StoreInv

\* The next call of a handler.
LEMMA ThenState ==
  ASSUME StoreInv, NEW h \in Handlers, NEW x \in {"delete", "retry"}, Then(h, x)
  PROVE  handler' = [handler EXCEPT ![h] = [event |-> handler[h].event, step |-> x]]
<1>1. handler \in [Handlers -> HandlerStates]
  BY DEF StoreInv, StoreTypes
<1>2. [handler[h] EXCEPT !.step = x] = [event |-> handler[h].event, step |-> x]
  BY <1>1 DEF HandlerStates
<1>3. handler' = [handler EXCEPT ![h] = [handler[h] EXCEPT !.step = x]]
  BY <1>1 DEF Then
<1> QED BY <1>2, <1>3

\* The handlers and the queue keep the invariant.
LEMMA HandlerStep ==
  ASSUME StoreInv, NEW h \in Handlers, Reserve(h) \/ Create(h) \/ Delete(h) \/ Retry(h)
  PROVE  StoreInv' /\ LogGrows
<1>0. /\ now \in Nat \ {0} /\ job \in [Ids -> JobStates]
      /\ \A e \in Ids : job[e] # "none" => createdAt[e] # 0
      /\ \A e \in Ids : job[e] = "deleted" => e \in Stored
  BY DEF StoreInv, StoreTypes, OnlyEmitted, NoEventIsLost
<1>1. /\ handler[h].event \in Ids \cup {0}
      /\ handler[h].step # "idle" => handler[h].event \in Ids
                                     /\ createdAt[handler[h].event] # 0
      /\ handler[h].step = "delete" => handler[h].event \in Stored
  BY HandlerFields
\* A new state of h and of the jobs, each of which fits the log.
<1>2. ASSUME LogGrows, UNCHANGED <<createdAt, now>>,
             NEW r \in HandlerStates, handler' = [handler EXCEPT ![h] = r],
             r.step # "idle" => r.event \in Ids /\ createdAt[r.event] # 0,
             r.step = "delete" => r.event \in Stored',
             job' \in [Ids -> JobStates],
             \A e \in Ids : job'[e] # "none" => createdAt[e] # 0,
             \A e \in Ids : job'[e] = "deleted" => job[e] = "deleted" \/ e \in Stored'
      PROVE  StoreInv'
  <2>1. handler \in [Handlers -> HandlerStates]
    BY DEF StoreInv, StoreTypes
  <2>2. handler' \in [Handlers -> HandlerStates]
    BY <1>2, <2>1
  <2>3. \A g \in Handlers : handler'[g] = IF g = h THEN r ELSE handler[g]
    BY <1>2, <2>1
  <2>4. \A g \in Handlers : \/ handler'[g] = handler[g]
                            \/ /\ handler'[g].step # "idle" =>
                                     /\ handler'[g].event \in Ids
                                     /\ createdAt[handler'[g].event] # 0
                               /\ handler'[g].step = "delete" =>
                                     handler'[g].event \in Stored'
    BY <1>2, <2>3
  <2>5. now' \in Nat \ {0}
    BY <1>0, <1>2
  <2> QED BY <1>2, <2>2, <2>4, <2>5, StoreChange
<1>3. CASE Reserve(h)
  <2>1. PICK e \in Ids :
          /\ job[e] = "ready" /\ job' = [job EXCEPT ![e] = "reserved"]
          /\ handler' = [handler EXCEPT ![h] = [event |-> e, step |-> "create"]]
          /\ UNCHANGED <<now, createdAt, log>>
    BY <1>3 DEF Reserve
  <2> DEFINE r == [event |-> e, step |-> "create"]
  <2>2. r \in HandlerStates /\ r.step = "create" /\ r.event = e
    BY DEF HandlerStates
  <2>3. createdAt[e] # 0 /\ LogGrows
    BY <1>0, <2>1 DEF LogGrows
  <2>4. /\ job' \in [Ids -> JobStates]
        /\ job'[e] = "reserved" /\ \A f \in Ids \ {e} : job'[f] = job[f]
    <3>1. job \in [Ids -> JobStates] /\ "reserved" \in JobStates
      BY <1>0 DEF JobStates
    <3>2. job' = [job EXCEPT ![e] = "reserved"]
      BY <2>1
    <3> QED BY <3>1, <3>2
  <2> HIDE DEF r
  <2>5. handler' = [handler EXCEPT ![h] = r]
    BY <2>1 DEF r
  <2> QED BY <1>0, <1>2, <2>1, <2>2, <2>3, <2>4, <2>5
<1>4. CASE Create(h)
  <2>1. /\ handler[h].step = "create" /\ handler[h].event \in Ids
        /\ createdAt[handler[h].event] # 0 /\ UNCHANGED <<now, createdAt, job>>
    BY <1>1, <1>4 DEF Create
  <2>2. LogGrows /\ \E x \in {"delete", "retry"} :
          Then(h, x) /\ (x = "delete" => handler[h].event \in Range(log'))
    <3>1. log \in Seq(Ids) /\ IsInjective(log)
      BY DEF StoreInv, StoreTypes, NoEventIsLost
    <3>2. CASE Duplicate(h)
      BY <3>2 DEF Duplicate, LogGrows, Stored
    <3>3. CASE Insert(h)
      <4>1. handler[h].event \notin Range(log)
        BY <3>3 DEF Insert, Stored
      <4>2. handler[h].event \in Range(Append(log, handler[h].event))
        BY <2>1, <3>1, <4>1, AppendToLog
      <4>3. \/ Then(h, "delete") /\ log' = Append(log, handler[h].event)
            \/ Then(h, "retry") /\ log' \in {log, Append(log, handler[h].event)}
        BY <3>3 DEF Insert
      <4>4. LogGrows
        BY <2>1, <4>1, <4>3 DEF LogGrows, Stored
      <4> QED BY <4>2, <4>3, <4>4
    <3> QED BY <1>4, <3>2, <3>3 DEF Create
  <2>3. PICK x \in {"delete", "retry"} : /\ Then(h, x)
                                         /\ x = "delete" => handler[h].event \in Stored'
    BY <2>2 DEF Stored
  <2> DEFINE r == [event |-> handler[h].event, step |-> x]
  <2>4. handler' = [handler EXCEPT ![h] = r]
    BY <2>3, ThenState
  <2>5. r \in HandlerStates /\ r.step = x /\ r.event = handler[h].event
    BY <1>1 DEF HandlerStates
  <2>6. job' = job
    BY <2>1
  <2> HIDE DEF r
  <2> QED BY <1>0, <1>2, <2>1, <2>2, <2>3, <2>4, <2>5, <2>6
<1>5. CASE Delete(h) \/ Retry(h)
  <2>1. /\ handler[h].step \in {"delete", "retry"} /\ handler' = [handler EXCEPT ![h] = Idle]
        /\ UNCHANGED <<now, createdAt, log>>
    BY <1>5 DEF Delete, Retry
  <2>2. Idle \in HandlerStates /\ Idle.step = "idle"
    BY DEF Idle, HandlerStates
  <2>3. LogGrows /\ Stored' = Stored
    BY <2>1 DEF LogGrows, Stored
  <2>4. handler[h].event \in Ids /\ createdAt[handler[h].event] # 0
    BY <1>1, <2>1
  <2>5. \/ job' = job
        \/ \E x \in {"ready", "buried", "deleted"} :
              /\ job' = [job EXCEPT ![handler[h].event] = x]
              /\ x = "deleted" => handler[h].step = "delete"
    BY <1>5 DEF Delete, Retry
  <2>6. job' \in [Ids -> JobStates]
    BY <1>0, <2>4, <2>5 DEF JobStates
  <2>7. \A e \in Ids : \/ job'[e] = job[e]
                       \/ e = handler[h].event /\ (job'[e] = "deleted" => e \in Stored)
    BY <1>0, <1>1, <2>4, <2>5
  <2> HIDE DEF Idle
  <2> QED BY <1>0, <1>2, <2>1, <2>2, <2>3, <2>4, <2>6, <2>7
<1> QED BY <1>3, <1>4, <1>5

\* Every step of the store keeps its invariant, and gives no event another time.
LEMMA StoreStepInv ==
  ASSUME StoreInv, StoreNext
  PROVE  StoreInv' /\ LogGrows /\ UNCHANGED createdAt
<1>1. UNCHANGED createdAt
  BY DEF StoreNext, Tick, Reserve, Create, Delete, Retry, Lapse, StartReading, ReadPage,
         StopReading
<1>2. CASE Tick
  <2>1. now' = now + 1 /\ UNCHANGED <<createdAt, job, handler, log>>
    BY <1>2 DEF Tick
  <2>2. StoreTypes'
    BY <2>1 DEF StoreInv, StoreTypes
  <2> QED BY <2>1, <2>2 DEF StoreInv, OnlyEmitted, DeletesStored, NoEventIsLost, Stored, LogGrows
<1>3. CASE \E h \in Handlers : Reserve(h) \/ Create(h) \/ Delete(h) \/ Retry(h)
  BY <1>1, <1>3, HandlerStep
<1>4. ASSUME NEW e \in Ids, Lapse(e) PROVE StoreInv' /\ LogGrows
  <2>1. /\ job[e] = "reserved" /\ job' = [job EXCEPT ![e] = "ready"]
        /\ UNCHANGED <<now, createdAt, log>>
    BY <1>4 DEF Lapse
  <2>2. LogGrows /\ Stored' = Stored
    BY <2>1 DEF LogGrows, Stored
  <2>3. /\ now \in Nat \ {0} /\ job \in [Ids -> JobStates]
        /\ \A f \in Ids : job[f] # "none" => createdAt[f] # 0
        /\ handler \in [Handlers -> HandlerStates]
    BY DEF StoreInv, StoreTypes, OnlyEmitted
  <2>4. /\ job' \in [Ids -> JobStates]
        /\ job'[e] = "ready" /\ \A f \in Ids \ {e} : job'[f] = job[f]
    <3>1. job \in [Ids -> JobStates] /\ "ready" \in JobStates
      BY <2>3 DEF JobStates
    <3>2. job' = [job EXCEPT ![e] = "ready"]
      BY <2>1
    <3> QED BY <3>1, <3>2
  <2>5. Idle \in HandlerStates /\ Idle.step = "idle"
    BY DEF Idle, HandlerStates
  <2> HIDE DEF Idle
  <2>6. \/ handler' = handler
        \/ handler' = [h \in Handlers |-> IF holder[e] = h THEN Idle ELSE handler[h]]
    BY <1>4 DEF Lapse
  <2>7. /\ handler' \in [Handlers -> HandlerStates]
        /\ \A h \in Handlers : handler'[h] = handler[h] \/ handler'[h] = Idle
    BY <2>3, <2>5, <2>6
  <2>8. \A h \in Handlers : \/ handler'[h] = handler[h]
                            \/ /\ handler'[h].step # "idle" =>
                                     /\ handler'[h].event \in Ids
                                     /\ createdAt[handler'[h].event] # 0
                               /\ handler'[h].step = "delete" =>
                                     handler'[h].event \in Stored'
    BY <2>5, <2>7
  <2>9. now' \in Nat \ {0} /\ createdAt[e] # 0 /\ createdAt' = createdAt
    BY <2>1, <2>3
  <2>10. /\ \A f \in Ids : job'[f] # "none" => createdAt[f] # 0
         /\ \A f \in Ids : job'[f] = "deleted" => job[f] = "deleted" \/ f \in Stored'
    BY <2>3, <2>4, <2>9
  <2> QED BY <2>2, <2>4, <2>7, <2>8, <2>9, <2>10, StoreChange
<1>5. CASE \E r \in Readers : StartReading(r) \/ ReadPage(r) \/ StopReading(r)
  <2>1. UNCHANGED <<now, createdAt, job, handler, log>>
    BY <1>5 DEF StartReading, ReadPage, StopReading
  <2> QED BY <2>1 DEF StoreInv, StoreTypes, OnlyEmitted, DeletesStored, NoEventIsLost,
                      Stored, LogGrows
<1> QED BY <1>1, <1>2, <1>3, <1>4, <1>5 DEF StoreNext

-------------------------------------------------------------------------------
(* The sessions *)

SessionTypes ==
  /\ phase \in [Sessions -> {"request", "refused", "accepted", "watching", "serving",
                             "leaving", "left", "closed"}]
  /\ running \in [Sessions -> SUBSET Workers]
  /\ opened \in [Sessions -> Nat]
  /\ emitted \in [Sessions -> Seq(Event)]

Unannounced == {"request", "refused", "accepted", "watching"}

\* A session has emitted nothing before Join, and from Join to Leave it has said that
\* it joined and not yet that it left; only then its workers run.
Announced(s) ==
  /\ phase[s] \in Unannounced <=> emitted[s] = <<>>
  /\ phase[s] \in {"serving", "leaving"} =>
        \A i \in DOMAIN emitted[s] : emitted[s][i].kind # "left"
  /\ running[s] # {} => phase[s] = "serving"

\* LeftIsLast of one session.
Ordered(s) ==
  \A i \in DOMAIN emitted[s] :
    /\ emitted[s][i].kind = "joined" <=> i = 1
    /\ emitted[s][i].kind = "left" => i = Len(emitted[s])

\* The cursor of a session was opened in the log as it is, what the session has emitted
\* has its time, and its first event is not in the part of the log that its cursor
\* skips.
Seen(s) ==
  /\ opened[s] <= Len(log)
  /\ \A i \in DOMAIN emitted[s] : createdAt[emitted[s][i].id] # 0
  /\ emitted[s] # <<>> =>
        \A i \in DOMAIN log : log[i] = emitted[s][1].id => i > opened[s]

SessionOK(s) == Announced(s) /\ Ordered(s) /\ Seen(s)

SessionInv == SessionTypes /\ \A s \in Sessions : SessionOK(s)

\* The invariant implies the two properties of sessions.
LEMMA SessionGoals == SessionInv => LeftIsLast /\ OwnJoinIsSeen
BY DEF SessionInv, SessionOK, Ordered, Seen, LeftIsLast, OwnJoinIsSeen

\* A session that takes no step stays as it is, whatever is stored or emitted.
LEMMA SessionStays ==
  ASSUME StoreInv, SessionInv, LogGrows, NEW s \in Sessions, SessionOK(s),
         \A e \in Ids : createdAt[e] # 0 => createdAt'[e] # 0,
         phase'[s] = phase[s], running'[s] = running[s], opened'[s] = opened[s],
         emitted'[s] = emitted[s]
  PROVE  SessionOK(s)'
<1>1. Announced(s)' /\ Ordered(s)'
  BY DEF SessionOK, Announced, Ordered, Unannounced
<1>2. /\ log \in Seq(Ids) /\ opened[s] \in Nat /\ emitted[s] \in Seq(Event)
      /\ opened[s] <= Len(log)
      /\ \A i \in DOMAIN emitted[s] : createdAt[emitted[s][i].id] # 0
      /\ emitted[s] # <<>> =>
            \A i \in DOMAIN log : log[i] = emitted[s][1].id => i > opened[s]
  BY DEF StoreInv, StoreTypes, SessionInv, SessionTypes, SessionOK, Seen
<1>3. \A i \in DOMAIN emitted[s] : emitted[s][i].id \in Ids
  <2>1. \A i \in DOMAIN emitted[s] : emitted[s][i] \in Event
    BY <1>2
  <2> QED BY <2>1 DEF Event
<1>4. \/ log' = log
      \/ /\ Len(log') = Len(log) + 1 /\ DOMAIN log' = 1..(Len(log) + 1)
         /\ DOMAIN log = 1..Len(log) /\ Len(log) \in Nat
         /\ \A i \in DOMAIN log : log'[i] = log[i]
  <2>1. ASSUME NEW e \in Ids, log' = Append(log, e)
        PROVE  /\ Len(log') = Len(log) + 1 /\ DOMAIN log' = 1..(Len(log) + 1)
               /\ DOMAIN log = 1..Len(log) /\ Len(log) \in Nat
               /\ \A i \in DOMAIN log : log'[i] = log[i]
    BY <1>2, <2>1
  <2> QED BY <2>1 DEF LogGrows
<1>5. Seen(s)'
  BY <1>2, <1>3, <1>4 DEF Seen
<1> QED BY <1>1, <1>5 DEF SessionOK

\* The emission of an event keeps the store, and puts nothing into the log.
LEMMA EmitInv ==
  ASSUME StoreInv, NEW e \in Ids, NEW ok \in BOOLEAN, EmitEvent(e, ok)
  PROVE  /\ StoreInv' /\ LogGrows /\ UNCHANGED log /\ e \notin Stored
         /\ createdAt'[e] # 0
         /\ \A f \in Ids : createdAt[f] # 0 => createdAt'[f] # 0
<1>1. /\ createdAt[e] = 0 /\ createdAt' = [createdAt EXCEPT ![e] = now]
      /\ UNCHANGED <<now, handler, log>>
      /\ job' = job \/ job' = [job EXCEPT ![e] = "ready"]
  BY DEF EmitEvent
<1>2. /\ now \in Nat \ {0} /\ createdAt \in [Ids -> Nat] /\ job \in [Ids -> JobStates]
      /\ handler \in [Handlers -> HandlerStates] /\ log \in Seq(Ids)
      /\ OnlyEmitted /\ DeletesStored /\ NoEventIsLost
  BY DEF StoreInv, StoreTypes
<1>3. e \notin Stored /\ job[e] = "none"
  BY <1>1, <1>2 DEF OnlyEmitted
<1>4. createdAt'[e] # 0 /\ \A f \in Ids : f # e => createdAt'[f] = createdAt[f]
  BY <1>1, <1>2
<1>5. \A f \in Ids : f # e => job'[f] = job[f]
  BY <1>1, <1>2
<1>6. job'[e] \in {"none", "ready"}
  BY <1>1, <1>2, <1>3
<1>7. StoreTypes'
  <2>1. createdAt' \in [Ids -> Nat]
    BY <1>1, <1>2
  <2>2. "ready" \in JobStates
    BY DEF JobStates
  <2>3. job' \in [Ids -> JobStates]
    BY <1>1, <1>2, <2>2
  <2> QED BY <1>1, <1>2, <2>1, <2>3 DEF StoreTypes
<1>8. Stored' = Stored
  BY <1>1 DEF Stored
<1>9. OnlyEmitted'
  <2>1. \A f \in Ids : job'[f] # "none" => createdAt'[f] # 0
    BY <1>2, <1>4, <1>5 DEF OnlyEmitted
  <2>2. \A f \in Stored' : f \in Ids /\ createdAt'[f] # 0
    <3>1. \A f \in Stored : f \in Ids
      BY <1>2 DEF Stored, Range
    <3> QED BY <1>2, <1>4, <1>8, <3>1 DEF OnlyEmitted
  <2>3. \A h \in Handlers : handler'[h].step # "idle" =>
                /\ handler'[h].event \in Ids /\ createdAt'[handler'[h].event] # 0
    BY <1>1, <1>2, <1>4 DEF OnlyEmitted
  <2> QED BY <2>1, <2>2, <2>3 DEF OnlyEmitted
<1>10. DeletesStored'
  BY <1>1, <1>2, <1>8 DEF DeletesStored
<1>11. NoEventIsLost'
  BY <1>1, <1>2, <1>5, <1>6, <1>8 DEF NoEventIsLost
<1> QED BY <1>1, <1>3, <1>4, <1>7, <1>9, <1>10, <1>11 DEF StoreInv, LogGrows

\* What an emission does to the session that emits.
LEMMA Emission ==
  ASSUME StoreInv, SessionInv, NEW s \in Sessions, NEW k \in {"joined", "message", "left"},
         NEW ok \in BOOLEAN, Emits(s, k, ok), UNCHANGED opened,
         k = "joined" <=> emitted[s] = <<>>,
         \A i \in DOMAIN emitted[s] : emitted[s][i].kind # "left"
  PROVE  /\ StoreInv' /\ LogGrows
         /\ \A f \in Ids : createdAt[f] # 0 => createdAt'[f] # 0
         /\ emitted' \in [Sessions -> Seq(Event)]
         /\ \A z \in Sessions : z # s => emitted'[z] = emitted[z]
         /\ emitted'[s] # <<>> /\ Ordered(s)' /\ Seen(s)'
         /\ k # "left" => \A i \in DOMAIN emitted'[s] : emitted'[s][i].kind # "left"
<1>1. PICK e \in Ids :
        /\ EmitEvent(e, ok)
        /\ emitted' = [emitted EXCEPT ![s] = Append(@, [id |-> e, kind |-> k])]
  BY DEF Emits
<1>2. /\ StoreInv' /\ LogGrows /\ log' = log /\ e \notin Stored /\ createdAt'[e] # 0
      /\ \A f \in Ids : createdAt[f] # 0 => createdAt'[f] # 0
  BY <1>1, EmitInv
<1> DEFINE q == emitted[s]
           x == [id |-> e, kind |-> k]
           n == Append(q, x)
<1>3. emitted \in [Sessions -> Seq(Event)] /\ q \in Seq(Event) /\ log \in Seq(Ids)
  BY DEF SessionInv, SessionTypes, StoreInv, StoreTypes
<1>4. x \in Event /\ x.id = e /\ x.kind = k
  BY DEF Event
<1> HIDE DEF x
<1>5. /\ n \in Seq(Event) /\ Len(q) \in Nat /\ DOMAIN q = 1..Len(q)
      /\ DOMAIN n = 1..(Len(q) + 1) /\ Len(n) = Len(q) + 1 /\ n[Len(q) + 1] = x
      /\ \A i \in 1..Len(q) : n[i] = q[i]
      /\ q = <<>> <=> Len(q) = 0
  BY <1>3, <1>4
<1>6. /\ emitted'[s] = n /\ emitted' \in [Sessions -> Seq(Event)]
      /\ \A z \in Sessions : z # s => emitted'[z] = emitted[z]
  BY <1>1, <1>3, <1>5 DEF x
<1>7. Ordered(s) /\ Seen(s)
  BY DEF SessionInv, SessionOK
<1>8. /\ \A i \in 1..Len(q) : (q[i].kind = "joined" <=> i = 1) /\ q[i].kind # "left"
      /\ k = "joined" <=> Len(q) = 0
  BY <1>5, <1>7 DEF Ordered
<1>9. \A i \in 1..Len(q) : q[i].id \in Ids /\ createdAt'[q[i].id] # 0
  <2>1. \A i \in 1..Len(q) : q[i] \in Event
    BY <1>3
  <2>2. \A i \in 1..Len(q) : q[i].id \in Ids
    BY <2>1 DEF Event
  <2> QED BY <1>2, <1>5, <1>7, <2>2 DEF Seen
<1>10. n # <<>>
  BY <1>5
<1>11. n[1] = IF Len(q) = 0 THEN x ELSE q[1]
  BY <1>5
<1>12. \A i \in DOMAIN log : log[i] # e
  BY <1>2 DEF Stored, Range
<1> HIDE DEF n, q
<1>13. \A i \in DOMAIN n : i \in 1..Len(q) \/ i = Len(q) + 1
  BY <1>5
<1>14. /\ \A i \in DOMAIN n : (n[i].kind = "joined" <=> i = 1)
                               /\ (n[i].kind = "left" => i = Len(n))
       /\ k # "left" => \A i \in DOMAIN n : n[i].kind # "left"
  <2>1. ASSUME NEW i \in 1..Len(q)
        PROVE  (n[i].kind = "joined" <=> i = 1) /\ n[i].kind # "left"
    BY <1>5, <1>8
  <2>2. n[Len(q) + 1].kind = k /\ (k = "joined" <=> Len(q) + 1 = 1)
    BY <1>4, <1>5, <1>8
  <2> QED BY <1>5, <1>13, <2>1, <2>2
<1>15. \A i \in DOMAIN n : createdAt'[n[i].id] # 0
  BY <1>2, <1>4, <1>5, <1>9, <1>13
<1>16. \A i \in DOMAIN log : log[i] = n[1].id => i > opened[s]
  <2>1. CASE Len(q) = 0
    BY <1>4, <1>11, <1>12, <2>1
  <2>2. CASE Len(q) # 0
    BY <1>5, <1>7, <1>11, <2>2 DEF Seen, q
  <2> QED BY <2>1, <2>2
<1>17. Ordered(s)'
  BY <1>6, <1>14 DEF Ordered
<1>18. Seen(s)'
  BY <1>2, <1>6, <1>7, <1>15, <1>16 DEF Seen
<1> QED BY <1>2, <1>6, <1>10, <1>14, <1>17, <1>18

Phases == {"request", "refused", "accepted", "watching", "serving", "leaving", "left", "closed"}

\* The phase and the workers of one session after a step of it.
LEMMA SessionFields ==
  ASSUME StoreInv, SessionInv, NEW s \in Sessions, SessionNext(s)
  PROVE  /\ phase' \in [Sessions -> Phases] /\ running' \in [Sessions -> SUBSET Workers]
         /\ opened' \in [Sessions -> Nat]
         /\ \A z \in Sessions : z # s => /\ phase'[z] = phase[z] /\ running'[z] = running[z]
                                        /\ opened'[z] = opened[z]
<1>1. /\ phase \in [Sessions -> Phases] /\ running \in [Sessions -> SUBSET Workers]
      /\ opened \in [Sessions -> Nat] /\ Len(log) \in Nat
  BY DEF SessionInv, SessionTypes, Phases, StoreInv, StoreTypes
<1>2. phase' = phase \/ \E p \in Phases : phase' = [phase EXCEPT ![s] = p]
  BY DEF SessionNext, Progress, Refuse, Accept, Watch, Join, Receive, Deliver, Break, Obey,
         EndCursor, Leave, CloseConn, Goto, Phases
<1>3. running' = running \/ \E w \in SUBSET Workers : running' = [running EXCEPT ![s] = w]
  <2>1. ASSUME NEW w, Ends(s, w)
        PROVE  \E v \in SUBSET Workers : running' = [running EXCEPT ![s] = v]
    <3>1. running[s] \ {w} \in SUBSET Workers
      BY <1>1
    <3>2. running' = [running EXCEPT ![s] = running[s] \ {w}]
      BY <2>1 DEF Ends
    <3> QED BY <3>1, <3>2
  <2> QED BY <2>1 DEF SessionNext, Progress, Refuse, Accept, Watch, Join, Receive, Deliver, Break,
                      Obey, EndCursor, Leave, CloseConn
<1>4. opened' = opened \/ opened' = [opened EXCEPT ![s] = Len(log)]
  BY DEF SessionNext, Progress, Refuse, Accept, Watch, Join, Receive, Deliver, Break, Obey,
         EndCursor, Leave, CloseConn
<1>5. phase' \in [Sessions -> Phases] /\ \A z \in Sessions : z # s => phase'[z] = phase[z]
  BY <1>1, <1>2
<1>6. /\ running' \in [Sessions -> SUBSET Workers]
      /\ \A z \in Sessions : z # s => running'[z] = running[z]
  BY <1>1, <1>3
<1>7. opened' \in [Sessions -> Nat] /\ \A z \in Sessions : z # s => opened'[z] = opened[z]
  BY <1>1, <1>4
<1> QED BY <1>5, <1>6, <1>7

\* A session that emits nothing.
LEMMA Silent ==
  ASSUME StoreInv, SessionInv, NEW s \in Sessions,
         Refuse(s) \/ Accept(s) \/ Watch(s) \/ Deliver(s) \/ EndCursor(s) \/ CloseConn(s)
           \/ \E w \in Workers : Break(s, w)
  PROVE  StoreInv' /\ LogGrows /\ UNCHANGED <<createdAt, log, emitted>> /\ SessionOK(s)'
<1>1. /\ phase \in [Sessions -> Phases] /\ running \in [Sessions -> SUBSET Workers]
      /\ opened \in [Sessions -> Nat] /\ Len(log) \in Nat
      /\ Announced(s) /\ Ordered(s) /\ Seen(s)
  BY DEF SessionInv, SessionTypes, SessionOK, Phases, StoreInv, StoreTypes
<1>2. UNCHANGED <<now, createdAt, job, holder, handler, log, emitted>>
  BY DEF Refuse, Accept, Watch, Deliver, EndCursor, CloseConn, Break, storeVars
<1>3. StoreInv' /\ LogGrows
  BY <1>2 DEF StoreInv, StoreTypes, OnlyEmitted, DeletesStored, NoEventIsLost, Stored, LogGrows
<1>4. Ordered(s)'
  BY <1>1, <1>2 DEF Ordered
<1>5. \/ opened'[s] = opened[s]
      \/ opened'[s] = Len(log) /\ emitted[s] = <<>>
  <2>1. CASE Watch(s)
    <3>1. phase[s] = "accepted" /\ (opened' = opened \/ opened' = [opened EXCEPT ![s] = Len(log)])
      BY <2>1 DEF Watch
    <3>2. emitted[s] = <<>>
      BY <1>1, <3>1 DEF Announced, Unannounced
    <3> QED BY <1>1, <3>1, <3>2
  <2> QED BY <2>1 DEF Refuse, Accept, Deliver, EndCursor, CloseConn, Break
<1>6. Seen(s)'
  BY <1>1, <1>2, <1>5 DEF Seen
<1>7. Announced(s)'
  <2>1. CASE Refuse(s) \/ Accept(s) \/ Watch(s)
    <3>1. phase[s] \in Unannounced /\ phase'[s] \in Unannounced /\ running' = running
      BY <1>1, <2>1 DEF Refuse, Accept, Watch, Goto, Unannounced
    <3> QED BY <1>1, <1>2, <3>1 DEF Announced, Unannounced
  <2>2. CASE Deliver(s)
    BY <1>1, <1>2, <2>2 DEF Announced, Deliver
  <2>3. CASE EndCursor(s)
    <3>1. phase[s] = "serving" /\ phase'[s] = "leaving" /\ running'[s] = {}
      BY <1>1, <2>3 DEF EndCursor, Goto, AllDone
    <3> QED BY <1>1, <1>2, <3>1 DEF Announced, Unannounced
  <2>4. CASE CloseConn(s)
    <3>1. phase[s] = "left" /\ phase'[s] = "closed" /\ running'[s] = running[s]
      BY <1>1, <2>4 DEF CloseConn, Goto
    <3> QED BY <1>1, <1>2, <3>1 DEF Announced, Unannounced
  <2>5. ASSUME NEW w \in Workers, Break(s, w) PROVE Announced(s)'
    <3>1. running[s] # {} /\ phase' = phase
      BY <2>5 DEF Break
    <3> QED BY <1>1, <1>2, <3>1 DEF Announced, Unannounced
  <2> QED BY <2>1, <2>2, <2>3, <2>4, <2>5
<1> QED BY <1>2, <1>3, <1>4, <1>6, <1>7 DEF SessionOK

\* A session that emits: its first event, a message, or its last.
LEMMA Speaking ==
  ASSUME StoreInv, SessionInv, NEW s \in Sessions, Join(s) \/ Receive(s) \/ Leave(s)
  PROVE  /\ StoreInv' /\ LogGrows
         /\ \A f \in Ids : createdAt[f] # 0 => createdAt'[f] # 0
         /\ emitted' \in [Sessions -> Seq(Event)]
         /\ \A z \in Sessions : z # s => emitted'[z] = emitted[z]
         /\ SessionOK(s)'
<1>1. /\ phase \in [Sessions -> Phases] /\ running \in [Sessions -> SUBSET Workers]
      /\ Announced(s)
  BY DEF SessionInv, SessionTypes, SessionOK, Phases
<1>2. \E k \in {"joined", "message", "left"}, ok \in BOOLEAN :
        /\ Emits(s, k, ok) /\ UNCHANGED opened
        /\ k = "joined" <=> phase[s] = "watching"
        /\ phase[s] \in {"watching", "serving", "leaving"}
        /\ IF k = "left" THEN phase'[s] = "left" /\ running'[s] = {}
                         ELSE phase'[s] = "serving"
  <2>1. CASE Join(s)
    <3>1. phase[s] = "watching" /\ UNCHANGED opened /\ phase'[s] = "serving"
      BY <1>1, <2>1 DEF Join, Goto
    <3> QED BY <2>1, <3>1 DEF Join
  <2>2. CASE Receive(s)
    <3>1. phase[s] = "serving" /\ UNCHANGED <<opened, phase>>
      BY <1>1, <2>2 DEF Receive, Announced
    <3> QED BY <2>2, <3>1 DEF Receive
  <2>3. CASE Leave(s)
    <3>1. phase[s] = "leaving" /\ UNCHANGED <<opened, running>> /\ phase'[s] = "left"
      BY <1>1, <2>3 DEF Leave, Goto
    <3>2. running[s] = {}
      BY <1>1, <3>1 DEF Announced
    <3> QED BY <2>3, <3>1, <3>2 DEF Leave
  <2> QED BY <2>1, <2>2, <2>3
<1>3. PICK k \in {"joined", "message", "left"}, ok \in BOOLEAN :
        /\ Emits(s, k, ok) /\ UNCHANGED opened
        /\ k = "joined" <=> phase[s] = "watching"
        /\ phase[s] \in {"watching", "serving", "leaving"}
        /\ IF k = "left" THEN phase'[s] = "left" /\ running'[s] = {}
                         ELSE phase'[s] = "serving"
  BY <1>2
<1>4. /\ k = "joined" <=> emitted[s] = <<>>
      /\ \A i \in DOMAIN emitted[s] : emitted[s][i].kind # "left"
  BY <1>1, <1>3 DEF Announced, Unannounced
<1>5. /\ StoreInv' /\ LogGrows
      /\ \A f \in Ids : createdAt[f] # 0 => createdAt'[f] # 0
      /\ emitted' \in [Sessions -> Seq(Event)]
      /\ \A z \in Sessions : z # s => emitted'[z] = emitted[z]
      /\ emitted'[s] # <<>> /\ Ordered(s)' /\ Seen(s)'
      /\ k # "left" => \A i \in DOMAIN emitted'[s] : emitted'[s][i].kind # "left"
  BY <1>3, <1>4, Emission
<1>6. Announced(s)'
  BY <1>3, <1>5 DEF Announced, Unannounced
<1> QED BY <1>5, <1>6 DEF SessionOK

EventInv == StoreInv /\ SessionInv

\* Every step of the store and of the sessions keeps the invariant.
LEMMA EventStep == EventInv /\ [PeersNext]_eventVars => EventInv'
<1> SUFFICES ASSUME StoreInv, SessionInv, [PeersNext]_eventVars PROVE StoreInv' /\ SessionInv'
  BY DEF EventInv
<1>1. ASSUME StoreInv', LogGrows, NEW S \in SUBSET Sessions,
             \A e \in Ids : createdAt[e] # 0 => createdAt'[e] # 0,
             SessionTypes', \A s \in S : SessionOK(s)',
             \A z \in Sessions \ S : /\ phase'[z] = phase[z] /\ running'[z] = running[z]
                                    /\ opened'[z] = opened[z] /\ emitted'[z] = emitted[z]
      PROVE  SessionInv'
  <2>1. ASSUME NEW z \in Sessions \ S PROVE SessionOK(z)'
    <3>1. SessionOK(z)
      BY DEF SessionInv
    <3> QED BY <1>1, <2>1, <3>1, SessionStays
  <2> QED BY <1>1, <2>1 DEF SessionInv
<1>2. SessionTypes
  BY DEF SessionInv
<1>3. CASE StoreStep
  <2>1. StoreInv' /\ LogGrows /\ UNCHANGED <<createdAt, phase, running, opened, emitted>>
    BY <1>3, StoreStepInv DEF StoreStep, peerVars
  <2>2. SessionTypes'
    BY <1>2, <2>1 DEF SessionTypes
  <2>3. /\ \A e \in Ids : createdAt[e] # 0 => createdAt'[e] # 0
        /\ \A z \in Sessions \ {} : /\ phase'[z] = phase[z] /\ running'[z] = running[z]
                                    /\ opened'[z] = opened[z] /\ emitted'[z] = emitted[z]
        /\ {} \in SUBSET Sessions
    BY <2>1
  <2> QED BY <1>1, <2>1, <2>2, <2>3
<1>4. ASSUME NEW s \in Sessions, SessionNext(s) PROVE StoreInv' /\ SessionInv'
  <2>1. /\ phase' \in [Sessions -> Phases] /\ running' \in [Sessions -> SUBSET Workers]
        /\ opened' \in [Sessions -> Nat]
        /\ \A z \in Sessions : z # s => /\ phase'[z] = phase[z] /\ running'[z] = running[z]
                                       /\ opened'[z] = opened[z]
    BY <1>4, SessionFields
  <2>2. /\ StoreInv' /\ LogGrows /\ SessionOK(s)'
        /\ \A e \in Ids : createdAt[e] # 0 => createdAt'[e] # 0
        /\ emitted' \in [Sessions -> Seq(Event)]
        /\ \A z \in Sessions : z # s => emitted'[z] = emitted[z]
    <3>1. CASE Join(s) \/ Receive(s) \/ Leave(s)
      BY <3>1, Speaking
    <3>2. CASE Refuse(s) \/ Accept(s) \/ Watch(s) \/ Deliver(s) \/ EndCursor(s) \/ CloseConn(s)
                 \/ \E w \in Workers : Break(s, w)
      <4>1. StoreInv' /\ LogGrows /\ UNCHANGED <<createdAt, log, emitted>> /\ SessionOK(s)'
        BY <3>2, Silent
      <4> QED BY <1>2, <4>1 DEF SessionTypes
    <3> QED BY <1>4, <3>1, <3>2 DEF SessionNext, Progress, Obey
  <2>3. SessionTypes'
    BY <2>1, <2>2 DEF SessionTypes, Phases
  <2>4. {s} \in SUBSET Sessions /\ \A z \in Sessions \ {s} : z # s
    OBVIOUS
  <2> QED BY <1>1, <2>1, <2>2, <2>3, <2>4
<1>5. CASE UNCHANGED eventVars
  BY <1>5 DEF eventVars, storeVars, peerVars, StoreInv, StoreTypes, OnlyEmitted, DeletesStored,
     NoEventIsLost, Stored, SessionInv, SessionTypes, SessionOK, Announced, Ordered, Seen
<1> QED BY <1>3, <1>4, <1>5 DEF PeersNext

\* Before the first event nothing is queued or stored.
LEMMA EventInit == PeersInit => EventInv
<1> SUFFICES ASSUME PeersInit PROVE StoreInv /\ SessionInv
  BY DEF EventInv
<1>1. StoreTypes
  BY DEF PeersInit, StoreInit, StoreTypes, JobStates, HandlerStates, Idle
<1>2. OnlyEmitted /\ DeletesStored /\ NoEventIsLost
  BY DEF PeersInit, StoreInit, OnlyEmitted, DeletesStored, NoEventIsLost, Stored, Range,
         IsInjective, Idle
<1>3. SessionTypes
  BY DEF PeersInit, SessionTypes
<1>4. \A s \in Sessions : SessionOK(s)
  BY DEF PeersInit, StoreInit, SessionOK, Announced, Unannounced, Ordered, Seen
<1> QED BY <1>1, <1>2, <1>3, <1>4 DEF StoreInv, SessionInv

\* An event the queue took is stored before its job is deleted, and stored once, with any
\* number of handlers, of deliveries, of lapsed reservations and of failed calls
\* (storeEvent, Mongo.CreateOne).
THEOREM EventsAreKept == PeersSpec => []NoEventIsLost
<1>1. EventInv => NoEventIsLost
  BY DEF EventInv, StoreInv
<1> QED BY <1>1, EventInit, EventStep, PTL DEF PeersSpec

\* Every session announces itself first and says that it left once, after all else,
\* whatever fails and however its workers end (NewPeer, SocketPeer.Close).
THEOREM SessionsAreAnnounced == PeersSpec => []LeftIsLast
<1>1. EventInv => LeftIsLast
  BY SessionGoals DEF EventInv
<1> QED BY <1>1, EventInit, EventStep, PTL DEF PeersSpec

\* The event that announces a session is never stored before the session's cursor is
\* open, so the session gets it (NewSocketPeer).
THEOREM CursorsOpenFirst == PeersSpec => []OwnJoinIsSeen
<1>1. EventInv => OwnJoinIsSeen
  BY SessionGoals DEF EventInv
<1> QED BY <1>1, EventInit, EventStep, PTL DEF PeersSpec

-------------------------------------------------------------------------------
(* The pages of the history *)

\* The order of a page is total and strict.
LEMMA PageOrder ==
  ASSUME createdAt \in [Ids -> Nat], NEW asc \in BOOLEAN, NEW e \in Ids, NEW f \in Ids
  PROVE  /\ ~Precedes(e, e, asc)
         /\ e # f => Precedes(e, f, asc) \/ Precedes(f, e, asc)
         /\ \A g \in Ids : Precedes(e, f, asc) /\ Precedes(f, g, asc) => Precedes(e, g, asc)
<1>1. Ids \subseteq Nat
  BY StoreAssumption
<1> QED BY <1>1 DEF Precedes, After

\* The events of S that precede e.
Before(S, e, asc) == {f \in S : Precedes(f, e, asc)}

\* An event has more before it than one that precedes it.
LEMMA MoreBefore ==
  ASSUME createdAt \in [Ids -> Nat], NEW asc \in BOOLEAN, NEW S \in SUBSET Ids,
         IsFiniteSet(S), NEW e \in S
  PROVE  /\ Cardinality(Before(S, e, asc)) \in 0..Cardinality(S) - 1
         /\ \A f \in S : Precedes(e, f, asc) =>
               Cardinality(Before(S, e, asc)) < Cardinality(Before(S, f, asc))
<1>1. ASSUME NEW f \in S
      PROVE  IsFiniteSet(Before(S, f, asc)) /\ Cardinality(Before(S, f, asc)) \in Nat
  <2>1. Before(S, f, asc) \in SUBSET S
    BY DEF Before
  <2> QED BY <2>1, FS_Subset, FS_CardinalityType
<1>2. e \notin Before(S, e, asc)
  BY PageOrder DEF Before
<1>3. Cardinality(Before(S, e, asc) \cup {e}) = Cardinality(Before(S, e, asc)) + 1
  BY <1>1, <1>2, FS_AddElement
<1>4. Cardinality(Before(S, e, asc)) \in 0..Cardinality(S) - 1
  <2>1. Before(S, e, asc) \cup {e} \in SUBSET S
    BY DEF Before
  <2>2. Cardinality(Before(S, e, asc) \cup {e}) <= Cardinality(S) /\ Cardinality(S) \in Nat
    BY <2>1, FS_Subset, FS_CardinalityType
  <2> QED BY <1>1, <1>3, <2>2
<1>5. ASSUME NEW f \in S, Precedes(e, f, asc)
      PROVE  Cardinality(Before(S, e, asc)) < Cardinality(Before(S, f, asc))
  <2>1. \A g \in S : Precedes(g, e, asc) => Precedes(g, f, asc)
    BY <1>5, PageOrder
  <2>2. Before(S, e, asc) \cup {e} \in SUBSET Before(S, f, asc)
    BY <1>5, <2>1 DEF Before
  <2>3. Cardinality(Before(S, e, asc) \cup {e}) <= Cardinality(Before(S, f, asc))
    BY <1>1, <2>2, FS_Subset
  <2> QED BY <1>1, <1>3, <2>3
<1> QED BY <1>4, <1>5

\* Every number of predecessors up to the last is that of one event.
LEMMA EveryRank ==
  ASSUME createdAt \in [Ids -> Nat], NEW asc \in BOOLEAN, NEW S \in SUBSET Ids, IsFiniteSet(S)
  PROVE  /\ Cardinality(S) \in Nat
         /\ \A i \in 1..Cardinality(S) : \E e \in S : Cardinality(Before(S, e, asc)) = i - 1
<1> DEFINE n == Cardinality(S)
           rank == [e \in S |-> Cardinality(Before(S, e, asc)) + 1]
<1>1. n \in Nat
  BY FS_CardinalityType
<1>2. rank \in [S -> 1..n]
  <2>1. \A e \in S : Cardinality(Before(S, e, asc)) \in 0..n - 1
    BY MoreBefore
  <2> QED BY <1>1, <2>1
<1>3. ASSUME NEW e \in S, NEW f \in S, e # f PROVE rank[e] # rank[f]
  <2>1. Precedes(e, f, asc) \/ Precedes(f, e, asc)
    BY <1>3, PageOrder
  <2>2. /\ Cardinality(Before(S, e, asc)) \in 0..n - 1
        /\ Cardinality(Before(S, f, asc)) \in 0..n - 1
        /\ \/ Cardinality(Before(S, e, asc)) < Cardinality(Before(S, f, asc))
           \/ Cardinality(Before(S, f, asc)) < Cardinality(Before(S, e, asc))
    BY <2>1, MoreBefore
  <2> QED BY <1>1, <2>2
<1>4. \A i \in 1..n : \E e \in S : rank[e] = i
  <2> HIDE DEF rank
  <2>1. rank \in Injection(S, 1..n)
    BY <1>2, <1>3 DEF Injection, IsInjective
  <2>2. IsFiniteSet(1..n) /\ Cardinality(1..n) = n
    BY <1>1, FS_Interval
  <2>3. rank \in Surjection(S, 1..n)
    BY <2>1, <2>2, FS_Injection
  <2> QED BY <2>3 DEF Surjection
<1>5. ASSUME NEW i \in 1..n PROVE \E e \in S : Cardinality(Before(S, e, asc)) = i - 1
  <2>1. PICK e \in S : rank[e] = i
    BY <1>4
  <2>2. Cardinality(Before(S, e, asc)) \in 0..n - 1
    BY MoreBefore
  <2> QED BY <1>1, <2>1, <2>2
<1> QED BY <1>1, <1>5

\* What a page is taken from.
Found(c) == {e \in Stored : Filter(e, c)}

\* A page has events that were found, in order, and what it leaves out comes after its
\* last; it is empty only if nothing was found.
LEMMA PageOf ==
  ASSUME createdAt \in [Ids -> Nat], Stored \subseteq Ids, NEW c, c.asc \in BOOLEAN
  PROVE  /\ Fetch(c) \in Seq(Found(c))
         /\ \A i \in 1..Len(Fetch(c)) - 1 : Precedes(Fetch(c)[i], Fetch(c)[i + 1], c.asc)
         /\ \A e \in Found(c) : \/ e \in Range(Fetch(c))
                                 \/ (Fetch(c) # <<>> /\ Precedes(Last(Fetch(c)), e, c.asc))
<1> DEFINE found == Found(c)
           page == Fetch(c)
<1>0. found \subseteq Ids
  BY DEF Found
<1> DEFINE n == Cardinality(found)
           size == IF Limit = 0 \/ Limit > n THEN n ELSE Limit
           B(e) == Cardinality(Before(found, e, c.asc))
<1>1. IsFiniteSet(found) /\ Limit \in Nat
  BY <1>0, FS_Subset, PeerAssumption, StoreAssumption
<1>2. n \in Nat /\ \A i \in 1..n : \E e \in found : B(e) = i - 1
  BY <1>0, <1>1, EveryRank
<1>3. size \in 0..n /\ (n > 0 => size > 0)
  BY <1>1, <1>2
<1>4. page = [i \in 1..size |-> CHOOSE e \in found : B(e) = i - 1]
  BY DEF Fetch, Before, Found
<1>5. \A e \in found : B(e) \in 0..n - 1
  BY <1>0, <1>1, MoreBefore
<1>6. \A e, f \in found : Precedes(e, f, c.asc) => B(e) < B(f)
  BY <1>0, <1>1, MoreBefore
<1>7. \A e, f \in found : e # f => Precedes(e, f, c.asc) \/ Precedes(f, e, c.asc)
  BY <1>0, PageOrder
<1> HIDE DEF n, size, B, found, page
<1>8. \A i \in 1..size : page[i] \in found /\ B(page[i]) = i - 1
  BY <1>2, <1>3, <1>4
<1>9. page \in Seq(found) /\ Len(page) = size /\ DOMAIN page = 1..size
  BY <1>3, <1>4, <1>8
<1>10. \A e, f \in found : B(e) < B(f) => Precedes(e, f, c.asc)
  BY <1>2, <1>5, <1>6, <1>7
<1>11. ASSUME NEW i \in 1..Len(page) - 1 PROVE Precedes(page[i], page[i + 1], c.asc)
  <2>1. i \in 1..size /\ i + 1 \in 1..size
    BY <1>3, <1>9
  <2> QED BY <1>8, <1>10, <2>1
<1>12. ASSUME NEW e \in found, e \notin Range(page)
       PROVE  page # <<>> /\ Precedes(Last(page), e, c.asc)
  <2>1. B(e) \in 0..n - 1 /\ n > 0
    BY <1>2, <1>5
  <2>2. B(e) >= size
    <3> SUFFICES ASSUME B(e) < size PROVE FALSE
      BY <1>3, <2>1
    <3>1. B(e) + 1 \in 1..size
      BY <1>3, <2>1
    <3>2. page[B(e) + 1] \in found /\ B(page[B(e) + 1]) = B(e)
      BY <1>8, <2>1, <3>1
    <3>3. page[B(e) + 1] = e
      BY <1>6, <1>7, <2>1, <3>2
    <3> QED BY <1>9, <1>12, <3>1, <3>3 DEF Range
  <2>3. size \in 1..size /\ page # <<>> /\ Last(page) = page[size]
    BY <1>3, <1>9, <2>1 DEF Last
  <2>4. page[size] \in found /\ B(page[size]) < B(e)
    BY <1>3, <1>8, <2>1, <2>2, <2>3
  <2> QED BY <1>10, <2>3, <2>4
<1> QED BY <1>9, <1>11, <1>12 DEF found, page

\* The cursor that a client sends.
PageCursor == [at : Nat, id : Ids \cup {0}, asc : BOOLEAN]

\* An iterator and what it got.
Reading == [phase : {"idle", "reading", "done"}, cursor : PageCursor,
            asc : Orders \cup {FALSE}, got : Seq(Ids), due : SUBSET Ids]

\* Each event comes after the next, as in a page without an order.
Descends(s) == \A i \in 1..Len(s) - 1 : Precedes(s[i], s[i + 1], FALSE)

\* A reading in descending order has got events in order, and what it is due comes after
\* its cursor, which is where the last page ended.
ReadsOn(r) ==
  LET x == reader[r] IN
  /\ x.due \subseteq Stored /\ Range(x.got) \subseteq Stored
  /\ Descends(x.got)
  /\ x.phase = "reading" => /\ x.cursor = NextCursor(x.got)
                            /\ \A e \in x.due : e \in Range(x.got) \/ Filter(e, x.cursor)
  /\ x.phase = "done" => x.due \subseteq Range(x.got)

PagesInv ==
  /\ reader \in [Readers -> Reading]
  /\ \A r \in Readers : reader[r].asc = FALSE => ReadsOn(r)

\* The times of stored events, as far as the readers need them.
StoredTimes ==
  /\ now \in Nat /\ log \in Seq(Ids) /\ createdAt \in [Ids -> Nat]
  /\ \A e \in Stored : createdAt[e] # 0

\* What is stored has an id of an event.
LEMMA StoredIds == StoredTimes => Stored \subseteq Ids
BY DEF StoredTimes, Stored, Range

\* Where a page ends is a cursor.
LEMMA PageCursors ==
  ASSUME StoredTimes, NEW s \in Seq(Ids)
  PROVE  NoCursor \in PageCursor /\ NextCursor(s) \in PageCursor /\ NextCursor(s).asc = FALSE
<1>1. NoCursor \in PageCursor /\ NoCursor.asc = FALSE
  BY DEF NoCursor, PageCursor
<1>2. CASE s # <<>>
  <2>1. Len(s) \in DOMAIN s
    BY <1>2
  <2>2. Last(s) \in Ids /\ createdAt[Last(s)] \in Nat
    BY <2>1 DEF Last, StoredTimes
  <2>3. NextCursor(s) = [at |-> createdAt[Last(s)], id |-> Last(s), asc |-> FALSE]
    BY <1>2 DEF NextCursor
  <2> QED BY <1>1, <2>2, <2>3 DEF PageCursor
<1> QED BY <1>1, <1>2 DEF NextCursor

\* What lies after the cursor of a page comes after its last event.
LEMMA CursorFilters ==
  ASSUME StoredTimes, NEW s \in Seq(Ids), Range(s) \subseteq Stored, NEW e \in Ids
  PROVE  /\ s = <<>> => Filter(e, NextCursor(s))
         /\ s # <<>> => /\ Last(s) \in Stored
                        /\ Filter(e, NextCursor(s)) <=> Precedes(Last(s), e, FALSE)
<1>1. CASE s = <<>>
  BY <1>1 DEF NextCursor, NoCursor, Filter
<1>2. CASE s # <<>>
  <2>1. Len(s) \in 1..Len(s) /\ DOMAIN s = 1..Len(s)
    BY <1>2
  <2>2. Last(s) \in Stored
    BY <2>1 DEF Last, Range
  <2>3. Last(s) \in Ids /\ Last(s) # 0 /\ createdAt[Last(s)] # 0
    BY <2>2, StoredIds, StoreAssumption DEF StoredTimes
  <2> DEFINE c == NextCursor(s)
  <2>4. c.at = createdAt[Last(s)] /\ c.id = Last(s) /\ c.asc = FALSE
    BY <1>2 DEF NextCursor
  <2> HIDE DEF c
  <2>5. Filter(e, c) <=>
          \/ After(createdAt[e], c.at, FALSE)
          \/ (createdAt[e] = c.at /\ After(e, c.id, FALSE))
    BY <2>3, <2>4 DEF Filter
  <2>6. Precedes(Last(s), e, FALSE) <=>
          \/ After(createdAt[e], createdAt[Last(s)], FALSE)
          \/ (createdAt[Last(s)] = createdAt[e] /\ After(e, Last(s), FALSE))
    BY DEF Precedes
  <2>7. Filter(e, c) <=> Precedes(Last(s), e, FALSE)
    BY <2>4, <2>5, <2>6
  <2> QED BY <1>2, <2>2, <2>7 DEF c
<1> QED BY <1>1, <1>2

\* A page appended to what a reading has got.
LEMMA PageAppended ==
  ASSUME NEW s \in Seq(Ids), NEW p \in Seq(Ids), Descends(s), Descends(p), p # <<>>,
         s # <<>> => Precedes(Last(s), p[1], FALSE)
  PROVE  /\ s \o p \in Seq(Ids) /\ Range(s \o p) = Range(s) \cup Range(p) /\ Descends(s \o p)
         /\ s \o p # <<>> /\ Last(s \o p) = Last(p)
<1> DEFINE t == s \o p
<1>1. /\ Len(s) \in Nat /\ Len(p) \in Nat /\ Len(p) > 0 /\ Len(t) = Len(s) + Len(p)
      /\ t \in Seq(Ids) /\ DOMAIN t = 1..Len(s) + Len(p)
      /\ DOMAIN s = 1..Len(s) /\ DOMAIN p = 1..Len(p)
      /\ s # <<>> <=> Len(s) > 0
  OBVIOUS
<1>2. /\ \A i \in 1..Len(s) : t[i] = s[i]
      /\ \A i \in 1..Len(p) : t[Len(s) + i] = p[i]
  OBVIOUS
<1>3. \A i \in 1..Len(t) : i \in 1..Len(s) \/ (i - Len(s) \in 1..Len(p) /\ t[i] = p[i - Len(s)])
  BY <1>1, <1>2
<1> HIDE DEF t
<1>4. Range(t) = Range(s) \cup Range(p)
  <2>1. \A x \in Range(t) : x \in Range(s) \cup Range(p)
    BY <1>1, <1>2, <1>3 DEF Range
  <2>2. \A x \in Range(s) : x \in Range(t)
    BY <1>1, <1>2 DEF Range
  <2>3. ASSUME NEW i \in 1..Len(p) PROVE p[i] \in Range(t)
    <3>1. Len(s) + i \in DOMAIN t /\ t[Len(s) + i] = p[i]
      BY <1>1, <1>2
    <3> QED BY <3>1 DEF Range
  <2> QED BY <1>1, <2>1, <2>2, <2>3 DEF Range
<1>5. ASSUME NEW i \in 1..Len(t) - 1 PROVE Precedes(t[i], t[i + 1], FALSE)
  <2>1. CASE i < Len(s)
    <3>1. i \in 1..Len(s) - 1 /\ i \in 1..Len(s) /\ i + 1 \in 1..Len(s)
      BY <1>1, <2>1
    <3> QED BY <1>2, <3>1 DEF Descends
  <2>2. CASE i = Len(s)
    <3>1. i \in 1..Len(s) /\ 1 \in 1..Len(p) /\ s # <<>>
      BY <1>1, <2>2
    <3>2. t[i] = Last(s) /\ t[i + 1] = p[1]
      BY <1>2, <2>2, <3>1 DEF Last
    <3> QED BY <3>1, <3>2
  <2>3. CASE i > Len(s)
    <3>1. /\ i - Len(s) \in 1..Len(p) - 1 /\ i - Len(s) \in 1..Len(p)
          /\ (i - Len(s)) + 1 \in 1..Len(p)
          /\ Len(s) + (i - Len(s)) = i /\ Len(s) + ((i - Len(s)) + 1) = i + 1
      BY <1>1, <2>3
    <3>2. t[i] = p[i - Len(s)] /\ t[i + 1] = p[(i - Len(s)) + 1]
      BY <1>2, <3>1
    <3> QED BY <3>1, <3>2 DEF Descends
  <2>4. i \in Int /\ Len(s) \in Int
    BY <1>1
  <2>5. i < Len(s) \/ i = Len(s) \/ i > Len(s)
    BY <2>4
  <2> QED BY <2>1, <2>2, <2>3, <2>5
<1>6. t # <<>> /\ Last(t) = Last(p)
  <2>1. Len(p) \in 1..Len(p)
    BY <1>1
  <2> QED BY <1>1, <1>2, <2>1 DEF Last
<1> QED BY <1>1, <1>4, <1>5, <1>6 DEF t, Descends

\* A reader that does nothing reads on as before, whatever is emitted and stored.
LEMMA ReadingStays ==
  ASSUME StoredTimes, Stored \subseteq Stored',
         \A e \in Stored : createdAt'[e] = createdAt[e],
         NEW r \in Readers, reader[r] \in Reading, ReadsOn(r), reader'[r] = reader[r]
  PROVE  ReadsOn(r)'
<1> DEFINE x == reader[r]
<1>1. /\ x.got \in Seq(Ids) /\ x.due \subseteq Stored /\ Range(x.got) \subseteq Stored
      /\ Len(x.got) \in Nat /\ DOMAIN x.got = 1..Len(x.got)
  <2>1. x.got \in Seq(Ids)
    BY DEF Reading
  <2> QED BY <2>1 DEF ReadsOn
<1>2. \A i \in 1..Len(x.got) : x.got[i] \in Stored
  BY <1>1 DEF Range
<1>3. Descends(x.got)'
  <2>1. ASSUME NEW i \in 1..Len(x.got) - 1
        PROVE  Precedes(x.got[i], x.got[i + 1], FALSE)'
    <3>1. x.got[i] \in Stored /\ x.got[i + 1] \in Stored
      BY <1>1, <1>2
    <3>2. Precedes(x.got[i], x.got[i + 1], FALSE)
      BY DEF ReadsOn, Descends
    <3> QED BY <3>1, <3>2 DEF Precedes
  <2> QED BY <2>1 DEF Descends
<1>4. NextCursor(x.got)' = NextCursor(x.got)
  <2>1. CASE x.got = <<>>
    BY <2>1 DEF NextCursor
  <2>2. CASE x.got # <<>>
    <3>1. Last(x.got) \in Stored
      BY <1>1, <1>2, <2>2 DEF Last
    <3> QED BY <2>2, <3>1 DEF NextCursor
  <2> QED BY <2>1, <2>2
<1>5. \A e \in x.due : Filter(e, x.cursor) => Filter(e, x.cursor)'
  BY <1>1 DEF Filter
<1> QED BY <1>1, <1>3, <1>4, <1>5 DEF ReadsOn

\* What a step of one reader must show.
LEMMA ReaderMoves ==
  ASSUME reader \in [Readers -> Reading], NEW r \in Readers, NEW y \in Reading,
         reader' = [reader EXCEPT ![r] = y]
  PROVE  /\ reader' \in [Readers -> Reading] /\ reader'[r] = y
         /\ \A z \in Readers : z # r => reader'[z] = reader[z]
OBVIOUS

\* A reading begins with the newest event, or in ascending order at some time.
LEMMA ReadingStarts ==
  ASSUME StoredTimes, PagesInv, NEW r \in Readers, StartReading(r)
  PROVE  /\ reader' \in [Readers -> Reading] /\ (reader'[r].asc = FALSE => ReadsOn(r)')
         /\ \A z \in Readers : z # r => reader'[z] = reader[z]
<1>a. PICK asc \in Orders : \E at \in IF asc THEN 0..now ELSE {0} :
        LET c == [at |-> at, id |-> 0, asc |-> asc] IN
        reader' = [reader EXCEPT ![r] =
            [phase |-> "reading", cursor |-> c, asc |-> asc, got |-> <<>>,
             due |-> {e \in Stored : Filter(e, c)}]]
  BY DEF StartReading
<1>1. PICK at \in IF asc THEN 0..now ELSE {0} :
        LET c == [at |-> at, id |-> 0, asc |-> asc] IN
        reader' = [reader EXCEPT ![r] =
            [phase |-> "reading", cursor |-> c, asc |-> asc, got |-> <<>>,
             due |-> {e \in Stored : Filter(e, c)}]]
  BY <1>a
<1> DEFINE c == [at |-> at, id |-> 0, asc |-> asc]
           x == [phase |-> "reading", cursor |-> c, asc |-> asc, got |-> <<>>,
                 due |-> {e \in Stored : Filter(e, c)}]
<1>2. c \in PageCursor
  BY StoreAssumption DEF PageCursor, StoredTimes
<1>3. x \in Reading
  <2> HIDE DEF c
  <2>1. {e \in Stored : Filter(e, c)} \subseteq Ids /\ <<>> \in Seq(Ids)
    BY StoredIds
  <2> QED BY <1>2, <2>1 DEF Reading
<1>4. /\ reader' \in [Readers -> Reading] /\ reader'[r] = x
      /\ \A z \in Readers : z # r => reader'[z] = reader[z]
  BY <1>1, <1>3, ReaderMoves DEF PagesInv
<1>5. ASSUME reader'[r].asc = FALSE PROVE ReadsOn(r)'
  <2>0. asc = FALSE
    BY <1>4, <1>5
  <2>1. asc = FALSE /\ at = 0 /\ c = NoCursor
    BY <2>0 DEF NoCursor
  <2>2. /\ reader'[r].phase = "reading" /\ reader'[r].got = <<>>
        /\ reader'[r].cursor = NoCursor /\ reader'[r].due = {e \in Stored : Filter(e, NoCursor)}
    BY <1>4, <2>1
  <2>3. UNCHANGED <<createdAt, log>>
    BY DEF StartReading
  <2>4. /\ Stored' = Stored /\ NextCursor(<<>>)' = NoCursor /\ Range(<<>>) = {}
        /\ \A e \in Stored : Filter(e, NoCursor)'
    BY <2>3 DEF Stored, NextCursor, Range, Filter, NoCursor
  <2>5. Descends(<<>>)'
    BY DEF Descends
  <2> QED BY <2>2, <2>4, <2>5 DEF ReadsOn
<1> QED BY <1>4, <1>5

\* A reading that gets a page.
Turned(x, page) ==
  [x EXCEPT !.got = x.got \o page, !.cursor = NextCursor(page),
            !.phase = IF page = <<>> THEN "done" ELSE "reading"]

\* The fields of a reading and of its cursor.
LEMMA ReadingFields ==
  ASSUME NEW x \in Reading, NEW page
  PROVE  LET y == Turned(x, page)
         IN  /\ page = <<>> => y.phase = "done"
             /\ page # <<>> => y.phase = "reading"
             /\ y.cursor = NextCursor(page) /\ y.asc = x.asc
             /\ y.got = x.got \o page /\ y.due = x.due
             /\ NextCursor(page) \in PageCursor /\ x.got \o page \in Seq(Ids) => y \in Reading
BY DEF Reading, Turned

\* A page goes on where the last one ended, and an empty one ends the reading.
LEMMA ReadingGoesOn ==
  ASSUME StoredTimes, PagesInv, NEW r \in Readers, ReadPage(r)
  PROVE  /\ reader' \in [Readers -> Reading] /\ (reader'[r].asc = FALSE => ReadsOn(r)')
         /\ \A z \in Readers : z # r => reader'[z] = reader[z]
<1> DEFINE x == reader[r]
           c == x.cursor
           page == Fetch(c)
           found == Found(c)
           y == Turned(x, page)
<1>1. /\ reader \in [Readers -> Reading] /\ x \in Reading /\ x.phase = "reading"
      /\ UNCHANGED <<createdAt, log>> /\ Stored' = Stored
  BY DEF PagesInv, ReadPage, Stored
<1>2. reader' = [reader EXCEPT ![r] = y]
  BY <1>1 DEF ReadPage, Turned
<1>3. x.got \in Seq(Ids) /\ x.due \subseteq Ids /\ c.asc \in BOOLEAN
  BY <1>1 DEF Reading, PageCursor
<1>4. ASSUME x.asc = FALSE
      PROVE  /\ c = NextCursor(x.got) /\ c.asc = FALSE
             /\ x.due \subseteq Stored /\ Range(x.got) \subseteq Stored /\ Descends(x.got)
             /\ \A e \in x.due : e \in Range(x.got) \/ Filter(e, c)
  BY <1>1, <1>3, <1>4, PageCursors DEF PagesInv, ReadsOn
<1>5. found \subseteq Ids
  BY StoredIds DEF Found
<1> HIDE DEF x, c
<1>6. \A e : e \in found <=> e \in Stored /\ Filter(e, c)
  BY DEF Found
<1>7. /\ page \in Seq(found)
      /\ \A i \in 1..Len(page) - 1 : Precedes(page[i], page[i + 1], c.asc)
      /\ \A e \in found : e \in Range(page) \/ (page # <<>> /\ Precedes(Last(page), e, c.asc))
  <2>1. createdAt \in [Ids -> Nat] /\ Stored \subseteq Ids
    BY StoredIds DEF StoredTimes
  <2> QED BY <1>3, <2>1, PageOf
<1> HIDE DEF page, found
<1>8. /\ page = <<>> => y.phase = "done"
      /\ page # <<>> => y.phase = "reading"
      /\ y.cursor = NextCursor(page)
      /\ y.asc = x.asc /\ y.got = x.got \o page /\ y.due = x.due
  BY <1>1, ReadingFields
<1>9. page \in Seq(Ids) /\ Range(page) \subseteq found /\ Range(page) \subseteq Stored
  <2>1. \A i \in DOMAIN page : page[i] \in found
    BY <1>7
  <2> QED BY <1>5, <1>7, <1>6, <2>1 DEF Range
<1>10. y \in Reading
  <2>1. NextCursor(page) \in PageCursor
    BY <1>9, PageCursors
  <2>2. x.got \o page \in Seq(Ids)
    BY <1>3, <1>9
  <2> QED BY <1>1, <2>1, <2>2, ReadingFields
<1> HIDE DEF y
<1>11. ASSUME x.asc = FALSE
       PROVE  /\ y.due \subseteq Stored /\ Range(y.got) \subseteq Stored /\ Descends(y.got)
              /\ y.phase = "reading" => /\ y.cursor = NextCursor(y.got)
                                        /\ \A e \in y.due : \/ e \in Range(y.got)
                                                            \/ Filter(e, y.cursor)
              /\ y.phase = "done" => y.due \subseteq Range(y.got)
  <2>a. /\ c = NextCursor(x.got) /\ x.due \subseteq Stored
        /\ Range(x.got) \subseteq Stored /\ Descends(x.got)
        /\ \A e \in x.due : e \in Range(x.got) \/ Filter(e, c)
    BY <1>4, <1>11
  <2>b. /\ Descends(page)
        /\ \A e \in found : e \in Range(page) \/ (page # <<>> /\ Precedes(Last(page), e, FALSE))
    BY <1>4, <1>7, <1>11 DEF Descends
  <2>1. CASE page = <<>>
    <3>1. y.phase = "done" /\ y.got = x.got /\ y.cursor = NoCursor
      BY <1>3, <2>a, <1>8, <2>1 DEF NextCursor
    <3>2. \A e \in x.due : e \in Range(x.got)
      BY <1>3, <2>a, <1>7, <2>b, <1>6, <2>1 DEF Range
    <3> QED BY <1>3, <2>a, <1>8, <3>1, <3>2
  <2>2. CASE page # <<>>
    <3>1. 1 \in DOMAIN page /\ page[1] \in found /\ Len(page) \in DOMAIN page
      BY <1>7, <2>b, <2>2
    <3>2. x.got # <<>> => Precedes(Last(x.got), page[1], FALSE)
      BY <1>3, <2>a, <1>5, <1>6, <3>1, CursorFilters
    <3>3. /\ y.got \in Seq(Ids) /\ Range(y.got) = Range(x.got) \cup Range(page)
          /\ Descends(y.got) /\ y.got # <<>> /\ Last(y.got) = Last(page)
      BY <1>3, <2>a, <1>7, <2>b, <1>8, <1>9, <2>2, <3>2, PageAppended
    <3>4. y.phase = "reading" /\ y.cursor = NextCursor(y.got) /\ y.cursor = NextCursor(page)
      BY <1>8, <2>2, <3>3 DEF NextCursor
    <3>5. ASSUME NEW e \in y.due, e \notin Range(y.got) PROVE Filter(e, y.cursor)
      <4>1. e \in Ids /\ e \in Stored /\ e \notin Range(x.got) /\ e \notin Range(page)
        BY <1>3, <2>a, <1>8, <3>3, <3>5
      <4>2. Precedes(Last(page), e, FALSE)
        BY <1>3, <2>a, <1>7, <2>b, <1>6, <1>8, <3>5, <4>1
      <4> QED BY <1>9, <2>2, <3>4, <4>1, <4>2, CursorFilters
    <3> QED BY <1>3, <2>a, <1>8, <1>9, <3>3, <3>4, <3>5
  <2> QED BY <2>1, <2>2
<1>12. /\ reader' \in [Readers -> Reading] /\ reader'[r] = y
       /\ \A z \in Readers : z # r => reader'[z] = reader[z]
  BY <1>1, <1>2, <1>10, ReaderMoves
<1>13. ASSUME reader'[r].asc = FALSE PROVE ReadsOn(r)'
  <2>1. x.asc = FALSE
    BY <1>8, <1>12, <1>13
  <2>2. /\ createdAt' = createdAt /\ Stored' = Stored
        /\ \A i \in 1..Len(y.got) - 1 : Precedes(y.got[i], y.got[i + 1], FALSE)
    BY <1>1, <1>11, <2>1 DEF Descends
  <2> QED BY <1>11, <1>12, <2>1, <2>2 DEF ReadsOn, Descends, Precedes, NextCursor, Filter
<1> QED BY <1>12, <1>13

\* The steps of the readers keep to their pages.
LEMMA PagesStep ==
  ASSUME StoredTimes, PagesInv, Stored \subseteq Stored',
         \A e \in Stored : createdAt'[e] = createdAt[e],
         \/ UNCHANGED reader
         \/ \E r \in Readers : StartReading(r) \/ ReadPage(r) \/ StopReading(r)
  PROVE  PagesInv'
<1>1. /\ reader \in [Readers -> Reading]
      /\ \A r \in Readers : reader[r].asc = FALSE => ReadsOn(r)
  BY DEF PagesInv
<1>2. CASE UNCHANGED reader
  BY <1>1, <1>2, ReadingStays DEF PagesInv
<1>3. ASSUME NEW r \in Readers, StartReading(r) \/ ReadPage(r) \/ StopReading(r)
      PROVE  PagesInv'
  <2>1. /\ reader' \in [Readers -> Reading] /\ (reader'[r].asc = FALSE => ReadsOn(r)')
        /\ \A z \in Readers : z # r => reader'[z] = reader[z]
    <3>1. CASE StopReading(r)
      <4>1. reader' = [reader EXCEPT ![r] = NoReading]
        BY <3>1 DEF StopReading
      <4>2. NoReading \in Reading
        BY DEF NoReading, NoCursor, PageCursor, Reading
      <4>3. /\ reader' \in [Readers -> Reading] /\ reader'[r] = NoReading
            /\ \A z \in Readers : z # r => reader'[z] = reader[z]
        BY <1>1, <4>1, <4>2, ReaderMoves
      <4> QED BY <4>3 DEF ReadsOn, NoReading, Range, Descends
    <3> QED BY <1>3, <3>1, ReadingStarts, ReadingGoesOn
  <2>2. \A z \in Readers : z # r /\ reader'[z].asc = FALSE => ReadsOn(z)'
    BY <1>1, <2>1, ReadingStays
  <2> QED BY <2>1, <2>2 DEF PagesInv
<1> QED BY <1>2, <1>3

\* No session touches a reader, the log or the time of an event that there is.
LEMMA SessionsReadNothing ==
  ASSUME createdAt \in [Ids -> Nat], NEW s \in Sessions, SessionNext(s)
  PROVE  /\ UNCHANGED <<reader, log>>
         /\ \A e \in Ids : createdAt[e] # 0 => createdAt'[e] = createdAt[e]
<1>1. CASE Join(s) \/ Receive(s) \/ Leave(s)
  <2>1. PICK e \in Ids, ok \in BOOLEAN : EmitEvent(e, ok)
    BY <1>1 DEF Join, Receive, Leave, Emits
  <2> QED BY <2>1 DEF EmitEvent
<1>2. CASE Refuse(s) \/ Accept(s) \/ Watch(s) \/ Deliver(s) \/ EndCursor(s) \/ CloseConn(s)
             \/ \E w \in Workers : Break(s, w)
  BY <1>2 DEF Refuse, Accept, Watch, Deliver, EndCursor, CloseConn, Break, storeVars
<1> QED BY <1>1, <1>2 DEF SessionNext, Progress, Obey

\* Every step keeps what is read in order and complete.
LEMMA PagesKept ==
  ASSUME StoreInv, StoreInv', PagesInv, [PeersNext]_eventVars
  PROVE  PagesInv'
<1>1. StoredTimes
  BY DEF StoreInv, StoreTypes, OnlyEmitted, StoredTimes
<1>2. Stored \subseteq Ids
  BY <1>1, StoredIds
<1>3. CASE StoreStep
  <2>1. LogGrows /\ createdAt' = createdAt
    BY <1>3, StoreStepInv DEF StoreStep
  <2>2. Stored \subseteq Stored'
    BY <2>1, LogGrowth
  <2>3. \/ UNCHANGED reader
        \/ \E r \in Readers : StartReading(r) \/ ReadPage(r) \/ StopReading(r)
    BY <1>3 DEF StoreStep, StoreNext, Tick, Reserve, Create, Delete, Retry, Lapse
  <2> QED BY <1>1, <2>1, <2>2, <2>3, PagesStep
<1>4. ASSUME NEW s \in Sessions, SessionNext(s) PROVE PagesInv'
  <2>1. /\ UNCHANGED <<reader, log>>
        /\ \A e \in Stored : createdAt'[e] = createdAt[e]
    BY <1>1, <1>2, <1>4, SessionsReadNothing DEF StoredTimes
  <2> QED BY <1>1, <2>1, PagesStep DEF Stored
<1>5. CASE UNCHANGED eventVars
  BY <1>1, <1>5, PagesStep DEF eventVars, storeVars, Stored
<1> QED BY <1>3, <1>4, <1>5 DEF PeersNext

\* At first nobody has read anything.
LEMMA PagesBegin == PeersInit => PagesInv
<1>1. NoReading \in Reading
  BY DEF NoReading, NoCursor, PageCursor, Reading
<1>2. ASSUME PeersInit PROVE PagesInv
  <2>1. reader = [r \in Readers |-> NoReading]
    BY <1>2 DEF PeersInit, StoreInit
  <2>2. /\ NoReading.asc = FALSE /\ NoReading.phase = "idle" /\ NoReading.due = {}
        /\ NoReading.got = <<>>
    BY DEF NoReading
  <2>3. Descends(<<>>) /\ Range(<<>>) = {}
    BY DEF Descends, Range
  <2>4. ASSUME NEW r \in Readers PROVE ReadsOn(r)
    BY <2>1, <2>2, <2>3 DEF ReadsOn
  <2> QED BY <1>1, <2>1, <2>4 DEF PagesInv
<1> QED BY <1>2

\* Reading the history page by page, newest first, gives every event that was stored when
\* the reading began, each once and in order, whatever is stored meanwhile, with any number
\* of events in a millisecond and of any size of a page.  A reading in ascending order turns
\* round on its second page (ReplayGoesForward), since `next` has no order (Mongo.Fetch,
\* Resolver.Events): all readings are exact where none is ascending.
THEOREM PagesAreRead ==
  PeersSpec => [](/\ \A r \in Readers : reader[r].asc = FALSE => ReadExactly(r)
                  /\ TRUE \notin Orders => PagesAreExact)
<1>1. PeersInit => EventInv /\ PagesInv
  BY EventInit, PagesBegin
<1>2. EventInv /\ PagesInv /\ [PeersNext]_eventVars => EventInv' /\ PagesInv'
  BY EventStep, PagesKept DEF EventInv
<1>3. ASSUME PagesInv
      PROVE  /\ \A r \in Readers : reader[r].asc = FALSE => ReadExactly(r)
             /\ TRUE \notin Orders => PagesAreExact
  <2>1. \A r \in Readers : reader[r].asc = FALSE => ReadExactly(r)
    BY <1>3 DEF PagesInv, ReadsOn, Descends, ReadExactly
  <2>2. TRUE \notin Orders => \A r \in Readers : reader[r].asc = FALSE
    BY <1>3, StoreAssumption DEF PagesInv, Reading
  <2> QED BY <2>1, <2>2 DEF PagesAreExact
<1> QED BY <1>1, <1>2, <1>3, PTL DEF PeersSpec
===============================================================================
