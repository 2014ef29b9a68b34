--------------------------- MODULE MCTrackerRuntime ---------------------------
(* TrackerRuntime for TLC: callers and entries are interchangeable. *)
EXTENDS TrackerRuntime, TLC

Symmetry == Permutations(Callers) \cup Permutations(Entries)
===============================================================================
