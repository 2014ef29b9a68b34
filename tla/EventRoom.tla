------------------------------ MODULE EventRoom ------------------------------
(***************************************************************************)
(* event.Room, event.SharedCursor and the eventNode list they share        *)
(* (src/services/event/shared.go).  One goroutine iterates the room: it    *)
(* takes events from the source cursor and appends nodes under Room.m;     *)
(* any number of cursors walk the list without that lock, so they may run  *)
(* between publishing a node and evicting the oldest one, and between the  *)
(* evictions of a closing room.                                            *)
(*                                                                         *)
(* A node is named by its position: node 0 is the seed, node i carries the *)
(* i-th event, and its next pointer is i + 1 once node i + 1 is published. *)
(***************************************************************************)
EXTENDS Integers, FiniteSets

CONSTANTS Cursors,    \* SharedCursor values, each used by one consumer
          Cap,        \* Room.cap
          MaxEvents   \* bound: events the source delivers

ASSUME RoomAssumption ==
  IsFiniteSet(Cursors) /\ Cap \in Nat \ {0} /\ MaxEvents \in Nat

VARIABLES
  iteration,     \* the goroutine in Room.Next: "reading" the source with Room.m
                 \* free, "evicting" or "closing" with Room.m held, "closed"
  head, tail,    \* Room.head and Room.tail
  len,           \* Room.len
  evicted,       \* nodes whose evicted flag is set
  sweep,         \* the node the loop of close visits next
  reset,         \* ResetNext closed the hasNext channel of the last node
  openedCursors, \* Room.openedCursors
  cursor         \* SharedCursor values, see Cursor

vars == <<iteration, head, tail, len, evicted, sweep, reset, openedCursors, cursor>>
roomVars == <<iteration, head, tail, len, evicted, sweep, reset>>

\* state: whether the cursor exists, and whether its consumer is between calls of
\* Next, inside the select of Next, or got an error.  closed: the closed channel.
\* cancelled: the context the consumer passes to Next.
Cursor == [state : {"none", "idle", "waiting", "ended"}, node : Nat,
           closed : BOOLEAN, cancelled : BOOLEAN]

TypeOK ==
  /\ iteration \in {"reading", "evicting", "closing", "closed"}
  /\ head \in Nat /\ tail \in Nat /\ len \in Nat
  /\ evicted \subseteq Nat
  /\ sweep \in Nat /\ reset \in BOOLEAN
  /\ openedCursors \in Nat
  /\ cursor \in [Cursors -> Cursor]

Init ==
  /\ iteration = "reading"
  /\ head = 0 /\ tail = 0 /\ len = 0
  /\ evicted = {} /\ sweep = 0 /\ reset = FALSE
  /\ openedCursors = 0
  /\ cursor = [c \in Cursors |-> [state |-> "none", node |-> 0,
                                  closed |-> FALSE, cancelled |-> FALSE]]

-------------------------------------------------------------------------------
(* Room *)

\* Room.Next: the source delivered an event; append its node, wake the cursors
\* that wait for it, and make room for it if the list is full.
Publish ==
  /\ iteration = "reading" /\ head < MaxEvents
  /\ head' = head + 1
  /\ IF len + 1 <= Cap
     THEN len' = len + 1 /\ UNCHANGED iteration
     ELSE iteration' = "evicting" /\ UNCHANGED len
  /\ UNCHANGED <<tail, evicted, sweep, reset, openedCursors, cursor>>

Evict ==
  /\ iteration = "evicting"
  /\ evicted' = evicted \cup {tail}
  /\ tail' = tail + 1
  /\ iteration' = "reading"
  /\ UNCHANGED <<head, len, sweep, reset, openedCursors, cursor>>

\* Room.Next: the source failed, was closed or its context was cancelled.
SourceEnds ==
  /\ iteration = "reading"
  /\ iteration' = "closing" /\ sweep' = tail
  /\ UNCHANGED <<head, tail, len, evicted, reset, openedCursors, cursor>>

\* Room.close: evict every node from the tail on, then wake whoever waits for a
\* node after the last one.
CloseNode ==
  /\ iteration = "closing" /\ sweep <= head
  /\ evicted' = evicted \cup {sweep}
  /\ sweep' = sweep + 1
  /\ UNCHANGED <<iteration, head, tail, len, reset, openedCursors, cursor>>

\* Variant: nobody is woken.
CloseSilently ==
  /\ iteration = "closing" /\ sweep > head
  /\ iteration' = "closed"
  /\ UNCHANGED <<head, tail, len, evicted, sweep, reset, openedCursors, cursor>>

CloseDone ==
  /\ iteration = "closing" /\ sweep > head
  /\ reset' = TRUE /\ iteration' = "closed"
  /\ UNCHANGED <<head, tail, len, evicted, sweep, openedCursors, cursor>>

RoomStep == Publish \/ Evict \/ CloseNode \/ CloseDone

-------------------------------------------------------------------------------
(* SharedCursor *)

\* Variant: a cursor starts with the history of the room.
OpenAtTail(c) ==
  /\ iteration \in {"reading", "closed"}
  /\ cursor[c].state = "none"
  /\ openedCursors' = openedCursors + 1
  /\ cursor' = [cursor EXCEPT ![c].state = "idle", ![c].node = tail]
  /\ UNCHANGED roomVars

\* Room.SharedCursor, which takes Room.m for reading.
Open(c) ==
  /\ iteration \in {"reading", "closed"}
  /\ cursor[c].state = "none"
  /\ openedCursors' = openedCursors + 1
  /\ cursor' = [cursor EXCEPT ![c].state = "idle", ![c].node = head]
  /\ UNCHANGED roomVars

\* Variant: Close is not counted.
CloseUncounted(c, s) ==
  /\ cursor' = [cursor EXCEPT ![c].closed = TRUE, ![c].state = s]
  /\ UNCHANGED <<roomVars, openedCursors>>

\* SharedCursor.Close, which acts once, here leaving the consumer in state s.
CloseAndEnter(c, s) ==
  /\ cursor' = [cursor EXCEPT ![c].closed = TRUE, ![c].state = s]
  /\ openedCursors' = IF cursor[c].closed THEN openedCursors ELSE openedCursors - 1
  /\ UNCHANGED roomVars

\* Another goroutine, or the consumer between two calls, closes the cursor.
CloseCursor(c) ==
  /\ cursor[c].state # "none"
  /\ CloseAndEnter(c, cursor[c].state)

\* The context of the consumer is cancelled.
Cancel(c) ==
  /\ cursor[c].state # "none"
  /\ cursor' = [cursor EXCEPT ![c].cancelled = TRUE]
  /\ UNCHANGED <<roomVars, openedCursors>>

HasNext(i) == i < head \/ reset

\* SharedCursor.Next is called and the node is not evicted: wait in the select.
NextWaits(c) ==
  /\ cursor[c].state = "idle" /\ cursor[c].node \notin evicted
  /\ cursor' = [cursor EXCEPT ![c].state = "waiting"]
  /\ UNCHANGED <<roomVars, openedCursors>>

\* The node has a successor and is not evicted: its event is returned.
NextDelivers(c) ==
  /\ cursor[c].state = "waiting" /\ cursor[c].node \notin evicted
  /\ cursor[c].node < head
  /\ cursor' = [cursor EXCEPT ![c].state = "idle", ![c].node = @ + 1]
  /\ UNCHANGED <<roomVars, openedCursors>>

\* The node is found evicted, before the select or after it.
NextEvicted(c) ==
  /\ \/ cursor[c].state = "idle"
     \/ cursor[c].state = "waiting" /\ HasNext(cursor[c].node)
  /\ cursor[c].node \in evicted
  /\ CloseAndEnter(c, "ended")

\* The closed channel or the context ends the select.
NextStopped(c) ==
  /\ cursor[c].state = "waiting"
  /\ cursor[c].closed \/ cursor[c].cancelled
  /\ CloseAndEnter(c, "ended")

ConsumerStep(c) == NextWaits(c) \/ NextDelivers(c) \/ NextEvicted(c) \/ NextStopped(c)

Next ==
  \/ RoomStep \/ SourceEnds
  \/ \E c \in Cursors : Open(c) \/ CloseCursor(c) \/ Cancel(c) \/ ConsumerStep(c)

Spec == Init /\ [][Next]_vars

\* The iterating goroutine finishes what it does under Room.m, and the consumer of
\* a cursor calls Next again until it gets an error (cmd/rtc/web/peer.go).
Fairness ==
  /\ WF_vars(Evict) /\ WF_vars(CloseNode \/ CloseDone)
  /\ \A c \in Cursors : WF_vars(ConsumerStep(c))

FairSpec == Spec /\ Fairness

-------------------------------------------------------------------------------
(* Properties *)

\* The room keeps at most Cap events after its tail, and its length says how many,
\* also between publishing a node and evicting one (Room.Next, Room.Len).
Capacity ==
  /\ len <= Cap
  /\ head = tail + len + (IF iteration = "evicting" THEN 1 ELSE 0)

\* While the room is open a node is evicted exactly when it is behind the tail, so
\* that no cursor within Cap events of the head is thrown out (Room.Next, Evict).
EvictionIsDue ==
  iteration \in {"reading", "evicting"} => evicted = 0..(tail - 1)

\* What the GC of SharedWatcher reads: the number of cursors that were opened and
\* not closed, however often and by whomever Close was called.
OpenedCursorsExact ==
  openedCursors = Cardinality({c \in Cursors : cursor[c].state # "none" /\ ~cursor[c].closed})

\* A closed room ends every consumer, also one that waits for an event that will
\* never come (Room.close, ResetNext).
ClosedRoomEndsCursors ==
  \A c \in Cursors : iteration = "closed" /\ cursor[c].state # "none" ~> cursor[c].state = "ended"

\* The room implements the feed: a cursor is a reader.
FeedOpen == iteration \in {"reading", "evicting"}

AsReader(x) ==
  [state |-> CASE x.state = "none" -> "out"
               [] x.state = "ended" -> "ended"
               [] OTHER -> "in",
   pos |-> x.node,
   leaving |-> x.closed \/ x.cancelled]

FeedReader == [c \in Cursors |-> AsReader(cursor[c])]

Feed == INSTANCE EventFeed WITH
  Readers <- Cursors, published <- head, open <- FeedOpen, reader <- FeedReader

\* Every cursor gets each event after its opening once and in order, until it is
\* closed or cancelled, the room closes, or it is more than Cap events behind; and
\* it gets the next one, or its end, eventually (Room.Next, SharedCursor.Next).
ImplementsFeed == Feed!FairSpec
===============================================================================
