--------------------------- MODULE MCSharedWatcher ---------------------------
(* SharedWatcher with what TLC needs: the calls and the rooms are alike.      *)
EXTENDS SharedWatcher, TLC

Symmetry == Permutations(Calls) \cup Permutations(Rooms)
==============================================================================
