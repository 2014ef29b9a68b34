---------------------------- MODULE TrackUpdates ----------------------------
(***************************************************************************)
(* The tube UpdateRecordingTrack, which the producers of recordings        *)
(* (TrackProcessing) fill and the keeper of their books (RecordingBooks)   *)
(* empties.  A copy of an update is named by its kind and its track.       *)
(***************************************************************************)
EXTENDS Naturals, FiniteSets

CONSTANTS Tracks,     \* the tracks of a recording
          MaxCopies,  \* bound: copies of one update on the queue, more are merged
          None        \* no track

ASSUME UpdatesAssumption ==
  IsFiniteSet(Tracks) /\ None \notin Tracks /\ MaxCopies \in Nat \ {0}

\* The updates of a track, named like the sets of record.Records they fill.
Kinds == {"RecordingStarted", "RecordingFinished",
          "ProcessingStarted", "ProcessingFinished"}

VARIABLE updates  \* UpdateRecordingTrack jobs on the queue: kind and track -> copies

\* A put merges copies beyond the bound.
Added(n) == IF n < MaxCopies THEN n + 1 ELSE n

\* The queue deletes one copy, if it still has one.
Less(n) == IF n > 0 THEN n - 1 ELSE n
=============================================================================
