--------------------------- MODULE MCRecordingBooks ---------------------------
(* RecordingBooks with what TLC needs: tracks and handlers are alike, and at   *)
(* most two updates wait on the queue.  More of them only wait: each may be    *)
(* sent, late or again, in any later state.                                    *)
EXTENDS RecordingBooks, TLC

Queued == {<<k, t>> \in Kinds \X Tracks : updates[k][t] > 0}

ShortQueue == Cardinality(Queued) <= 2

Symmetry == Permutations(Tracks) \cup Permutations(Handlers)
===============================================================================
