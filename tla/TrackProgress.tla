---------------------------- MODULE TrackProgress ----------------------------
(***************************************************************************)
(* What the producers of recordings (src/services/tracker/record and       *)
(* src/services/cmd/avp/queue) promise the keeper of their books: updates  *)
(* of a track arrive at least once or not at all, in any order, but never  *)
(* one that says more than is true.  TrackProcessing implements it, and    *)
(* RecordingBooks consumes it.                                             *)
(***************************************************************************)
EXTENDS TrackUpdates

VARIABLE stage  \* recorded, queued for processing, or converted

progressVars == <<stage, updates>>

ProgressInit ==
  /\ stage = [t \in Tracks |-> "recorded"]
  /\ updates = [k \in Kinds |-> [t \in Tracks |-> 0]]

Truthful(k, t) ==
  CASE k = "RecordingStarted" -> TRUE
    [] k = "ProcessingFinished" -> stage[t] = "converted"
    [] OTHER -> stage[t] # "recorded"

Send(k, t) ==
  /\ Truthful(k, t)
  /\ updates' = [updates EXCEPT ![k][t] = Added(@)]
  /\ UNCHANGED stage

QueueTrack(t) ==
  /\ stage[t] = "recorded" /\ stage' = [stage EXCEPT ![t] = "queued"]
  /\ UNCHANGED updates

ConvertTrack(t) ==
  /\ stage[t] = "queued" /\ stage' = [stage EXCEPT ![t] = "converted"]
  /\ UNCHANGED updates

Produce ==
  \E t \in Tracks : \/ QueueTrack(t) \/ ConvertTrack(t)
                    \/ \E k \in Kinds : Send(k, t)

\* The consumer is done with a copy.
Remove(k, t) ==
  /\ updates' = [updates EXCEPT ![k][t] = Less(@)]
  /\ UNCHANGED stage

ProgressSpec ==
  ProgressInit /\ [][Produce \/ \E k \in Kinds, t \in Tracks : Remove(k, t)]_progressVars
==============================================================================
