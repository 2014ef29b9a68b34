----------------------------- MODULE PeerEvents -----------------------------
(***************************************************************************)
(* The web sockets of a room over the event store: a request becomes a     *)
(* SocketPeer, whose three workers take the peer's messages, ping it and   *)
(* send it the room's events until one of them ends.                       *)
(*                                                                         *)
(* The cursor of a peer is a position in the log: rooms and shared cursors *)
(* (EventRoom, SharedWatcher) keep the order of the change stream, and end *)
(* a cursor that is too slow or whose room is closed.                      *)
(***************************************************************************)
EXTENDS EventStore

CONSTANTS Sessions,     \* sockets, one per peer session
          MaxMessages   \* bound: messages and reactions of all peers

VARIABLES phase,      \* per session: where its request is
          running,    \* per session: its workers that have not ended
          cancelled,  \* per session: the context of its workers
          position,   \* per session: events of the log it has got, or has ended
          opened,     \* per session: length of the log when the cursor opened
          conn,       \* per session: its web socket
          emitted     \* per session: the events it emitted, with their kinds

peerVars == <<phase, running, cancelled, position, opened, conn, emitted>>
eventVars == <<storeVars, peerVars>>

\* Every session can emit its two events and the peers all their messages.
ASSUME PeerAssumption ==
    /\ IsFiniteSet(Ids) /\ IsFiniteSet(Sessions) /\ MaxMessages \in Nat
    /\ Cardinality(Ids) >= 2 * Cardinality(Sessions) + MaxMessages

Workers == {"receive", "ping", "events"}
Closed == -1

PeersInit ==
    /\ StoreInit
    /\ phase = [s \in Sessions |-> "request"]
    /\ running = [s \in Sessions |-> {}]
    /\ cancelled = [s \in Sessions |-> FALSE]
    /\ position = [s \in Sessions |-> Closed]
    /\ opened = [s \in Sessions |-> 0]
    /\ conn = [s \in Sessions |-> "none"]
    /\ emitted = [s \in Sessions |-> <<>>]

Goto(s, p) == phase' = [phase EXCEPT ![s] = p]

\* Variant: a worker ends for itself.
EndsAlone(s, w) ==
    /\ running' = [running EXCEPT ![s] = @ \ {w}]
    /\ UNCHANGED cancelled

\* The goroutine of workers.Serve: its loop returns, and it cancels the context
\* that all workers share before it counts itself done.
Ends(s, w) ==
    /\ running' = [running EXCEPT ![s] = @ \ {w}]
    /\ cancelled' = [cancelled EXCEPT ![s] = TRUE]

\* Peer.emit: a new event of the session; its failure is up to the caller.
Emits(s, kind, ok) ==
    \E e \in Ids :
        /\ EmitEvent(e, ok)
        /\ emitted' = [emitted EXCEPT ![s] = Append(@, [id |-> e, kind |-> kind])]

-----------------------------------------------------------------------------
(* roomWebSocket and NewSocketPeer                                          *)

\* The token, the path or the room is wrong, or the handshake fails.
Refuse(s) ==
    /\ phase[s] = "request"
    /\ Goto(s, "refused")
    /\ UNCHANGED <<storeVars, running, cancelled, position, opened, conn, emitted>>

Accept(s) ==
    /\ phase[s] = "request"
    /\ Goto(s, "accepted")
    /\ conn' = [conn EXCEPT ![s] = "open"]
    /\ UNCHANGED <<storeVars, running, cancelled, position, opened, emitted>>

\* A failed Watch returns without closing the connection it accepted.
Watch(s) ==
    /\ phase[s] = "accepted"
    /\ \/ /\ Goto(s, "watching")
          /\ position' = [position EXCEPT ![s] = Len(log)]
          /\ opened' = [opened EXCEPT ![s] = Len(log)]
          /\ UNCHANGED faults
       \/ Fault /\ Goto(s, "refused") /\ UNCHANGED <<position, opened>>
    /\ UNCHANGED <<now, createdAt, job, holder, handler, log, reader,
                   running, cancelled, conn, emitted>>

\* Variant: the session is announced before its cursor is open.
JoinUnwatched(s) ==
    \/ /\ phase[s] = "accepted"
       /\ \E ok \in BOOLEAN : Emits(s, "joined", ok)
       /\ Goto(s, "joined")
       /\ UNCHANGED <<running, cancelled, position, opened, conn>>
    \/ /\ phase[s] = "joined"
       /\ Goto(s, "serving")
       /\ position' = [position EXCEPT ![s] = Len(log)]
       /\ opened' = [opened EXCEPT ![s] = Len(log)]
       /\ running' = [running EXCEPT ![s] = Workers]
       /\ UNCHANGED <<storeVars, cancelled, conn, emitted>>

\* NewPeer announces the session, at best, and Serve starts the workers.
Join(s) ==
    /\ phase[s] = "watching"
    /\ \E ok \in BOOLEAN : Emits(s, "joined", ok)
    /\ Goto(s, "serving")
    /\ running' = [running EXCEPT ![s] = Workers]
    /\ UNCHANGED <<cancelled, position, opened, conn>>

-----------------------------------------------------------------------------
(* The workers                                                              *)

Said == FoldSet(LAMBDA s, n : n + Len(SelectSeq(emitted[s], LAMBDA m : m.kind = "message")),
                0, Sessions)

\* receiveWebsocket: a message or a reaction is emitted, then answered; one that
\* is not valid changes nothing, and one that cannot be emitted ends the worker.
Receive(s) ==
    /\ "receive" \in running[s]
    /\ Said < MaxMessages
    /\ \/ Emits(s, "message", TRUE) /\ UNCHANGED <<running, cancelled>>
       \/ Emits(s, "message", FALSE) /\ Ends(s, "receive")
    /\ UNCHANGED <<phase, position, opened, conn>>

\* RecieveEvent and the write of the event.
Deliver(s) ==
    /\ "events" \in running[s]
    /\ position[s] # Closed /\ position[s] < Len(log)
    /\ position' = [position EXCEPT ![s] = @ + 1]
    /\ UNCHANGED <<storeVars, phase, running, cancelled, opened, conn, emitted>>

\* The peer went away, a ping was not answered in time, a call failed, or the
\* cursor ended.
Break(s, w) ==
    /\ w \in running[s]
    /\ Ends(s, w)
    /\ UNCHANGED <<storeVars, phase, position, opened, conn, emitted>>

\* A cancelled context ends every call a worker may be in.
Obey(s, w) == cancelled[s] /\ Break(s, w)

\* Variant: Wait returns with the first worker.
AnyDone(s) == running[s] # Workers

\* Serve returns: Wait has seen all workers done.
AllDone(s) == running[s] = {}

-----------------------------------------------------------------------------
(* SocketPeer.Close                                                         *)

EndCursor(s) ==
    /\ phase[s] = "serving" /\ AllDone(s)
    /\ Goto(s, "leaving")
    /\ cancelled' = [cancelled EXCEPT ![s] = TRUE]
    /\ position' = [position EXCEPT ![s] = Closed]
    /\ UNCHANGED <<storeVars, running, opened, conn, emitted>>

\* The event has a context of its own.
Leave(s) ==
    /\ phase[s] = "leaving"
    /\ \E ok \in BOOLEAN : Emits(s, "left", ok)
    /\ Goto(s, "left")
    /\ UNCHANGED <<running, cancelled, position, opened, conn>>

CloseConn(s) ==
    /\ phase[s] = "left"
    /\ Goto(s, "closed")
    /\ conn' = [conn EXCEPT ![s] = "closed"]
    /\ UNCHANGED <<storeVars, running, cancelled, position, opened, emitted>>

-----------------------------------------------------------------------------
Progress(s) ==
    \/ Watch(s) \/ Join(s) \/ EndCursor(s) \/ Leave(s) \/ CloseConn(s)
    \/ \E w \in Workers : Obey(s, w)

SessionNext(s) ==
    \/ Refuse(s) \/ Accept(s) \/ Receive(s) \/ Deliver(s)
    \/ \E w \in Workers : Break(s, w)
    \/ Progress(s)

StoreStep == StoreNext /\ UNCHANGED peerVars

PeersNext == StoreStep \/ \E s \in Sessions : SessionNext(s)

\* Goroutines are scheduled and calls return: a session always gets on with what
\* its request does by itself.  Nothing makes a worker end, a peer speak or an
\* event arrive.
PeersFairness == \A s \in Sessions : WF_eventVars(Progress(s))

PeersSpec == PeersInit /\ [][PeersNext]_eventVars /\ PeersFairness

-----------------------------------------------------------------------------
(* Properties                                                               *)

\* A session says that it left once, after all else it says: peers that see
\* "left" need not expect another event of the session to be emitted.
LeftIsLast ==
    \A s \in Sessions : \A i \in DOMAIN emitted[s] :
        /\ emitted[s][i].kind = "joined" <=> i = 1
        /\ emitted[s][i].kind = "left" => i = Len(emitted[s])

\* A peer learns its own session from the event that announces it: the event
\* is never stored before the peer's cursor is open.
OwnJoinIsSeen ==
    \A s \in Sessions : emitted[s] # <<>> =>
        \A i \in DOMAIN log : log[i] = emitted[s][1].id => i > opened[s]

\* An event the queue took is stored before its job is deleted, and stored once
\* however often and by however many handlers the job is handled.
NoEventIsLost ==
    /\ \A e \in Ids : job[e] = "deleted" => e \in Stored
    /\ IsInjective(log)

\* Reading the history page by page gives every event that was stored when the
\* reading began, each once and in order, whatever is stored meanwhile and
\* however many events share a millisecond.
ReadExactly(r) ==
    reader[r].phase = "done" =>
        /\ reader[r].due \subseteq Range(reader[r].got)
        /\ \A i \in 1..Len(reader[r].got) - 1 :
              Precedes(reader[r].got[i], reader[r].got[i + 1], reader[r].asc)

PagesAreExact == \A r \in Readers : ReadExactly(r)

\* One worker that ends, for whatever reason, ends its session: the other two
\* workers, the cursor and the socket.
EndedSessionCloses ==
    \A s \in Sessions :
        (phase[s] = "serving" /\ running[s] # Workers)
            ~> (AllDone(s) /\ position[s] = Closed /\ conn[s] = "closed")
=============================================================================
