------------------------------ MODULE EventFeed ------------------------------
(***************************************************************************)
(* What event.Room and event.SharedCursor (src/services/event/shared.go)   *)
(* promise the peers of a room: a broadcast of the events of the room to   *)
(* any number of readers, each of which sees every event published after   *)
(* it joined, once and in order, until it leaves, the feed is shut, or it  *)
(* is more than Cap events behind.  Events are named by their position.    *)
(***************************************************************************)
EXTENDS Naturals

CONSTANTS Readers, Cap,
          MaxEvents   \* bound: events published

VARIABLES published,  \* the number of events published
          open,       \* whether the feed may still publish
          reader      \* pos: the last event read, or the last one missed on joining

vars == <<published, open, reader>>

Reader == [state : {"out", "in", "ended"}, pos : Nat, leaving : BOOLEAN]

Reading(s, p, l) == [state |-> s, pos |-> p, leaving |-> l]

Init ==
  /\ published = 0 /\ open = TRUE
  /\ reader = [r \in Readers |-> Reading("out", 0, FALSE)]

Publish ==
  /\ open /\ published < MaxEvents
  /\ published' = published + 1
  /\ UNCHANGED <<open, reader>>

Shut ==
  /\ open /\ open' = FALSE
  /\ UNCHANGED <<published, reader>>

Join(r) ==
  /\ reader[r].state = "out"
  /\ reader' = [reader EXCEPT ![r] = Reading("in", published, @.leaving)]
  /\ UNCHANGED <<published, open>>

Read(r) ==
  /\ reader[r].state = "in" /\ reader[r].pos < published
  /\ reader' = [reader EXCEPT ![r].pos = @ + 1]
  /\ UNCHANGED <<published, open>>

\* The reader wants no more events; it may still get some.
Leave(r) ==
  /\ reader[r].state # "out"
  /\ reader' = [reader EXCEPT ![r] = Reading(@.state, @.pos, TRUE)]
  /\ UNCHANGED <<published, open>>

\* The reader is told that the feed ended for it, for one of three reasons.
End(r) ==
  /\ reader[r].state = "in"
  /\ reader[r].leaving \/ ~open \/ published > reader[r].pos + Cap
  /\ reader' = [reader EXCEPT ![r] = Reading("ended", @.pos, TRUE)]
  /\ UNCHANGED <<published, open>>

Next ==
  \/ Publish \/ Shut
  \/ \E r \in Readers : Join(r) \/ Read(r) \/ Leave(r) \/ End(r)

Spec == Init /\ [][Next]_vars

\* A reader that may read or must end does.
FairSpec == Spec /\ \A r \in Readers : WF_vars(Read(r) \/ End(r))
==============================================================================
