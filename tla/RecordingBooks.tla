---------------------------- MODULE RecordingBooks ----------------------------
(***************************************************************************)
(* The books of one recording: its document (src/services/room/record) and *)
(* the handlers of the RTC service that enter the updates of its tracks    *)
(* into it and announce the recording when it is ready                     *)
(* (src/services/cmd/rtc/queue).  The producers of the updates are         *)
(* TrackProgress.  An update has a reservation of 10 s that nobody renews, *)
(* so any handler may get it while it is on the queue.                     *)
(***************************************************************************)
EXTENDS TrackProgress

CONSTANT Handlers  \* goroutines of RTC processes

VARIABLES doc,      \* the Recording document: stopped (StoppedAt is set) and Records
          handler,  \* what each handler executes
          ready     \* RecordingReady jobs put: the tracks each one stands for

vars == <<stage, updates, doc, handler, ready>>

Document == [stopped : BOOLEAN, records : [Kinds -> SUBSET Tracks]]

Handling == [pc : {"idle", "emitting", "deleting"}, kind : Kinds,
             track : Tracks \cup {None}, announces : SUBSET Tracks]

TypeOK ==
  /\ stage \in [Tracks -> {"recorded", "queued", "converted"}]
  /\ updates \in [Kinds -> [Tracks -> 0..MaxCopies]]
  /\ doc \in Document
  /\ handler \in [Handlers -> Handling]
  /\ ready \subseteq SUBSET Tracks

Rest == [pc |-> "idle", kind |-> "RecordingStarted", track |-> None, announces |-> {}]

Init ==
  /\ ProgressInit
  /\ doc = [stopped |-> FALSE, records |-> [k \in Kinds |-> {}]]
  /\ handler = [h \in Handlers |-> Rest]
  /\ ready = {}

Progresses == Produce /\ UNCHANGED <<doc, handler, ready>>

\* record.Mongo.Stop, called before the tracker is stopped.
Stop ==
  /\ ~doc.stopped /\ doc' = [doc EXCEPT !.stopped = TRUE]
  /\ UNCHANGED <<stage, updates, handler, ready>>

\* Variant: some track is processed.
SomeIsReady(records) ==
  records["RecordingStarted"] = {} \/ records["ProcessingFinished"] # {}

\* Records.IsReady: every track that was announced is processed.
IsReady(records) == records["RecordingStarted"] \subseteq records["ProcessingFinished"]

\* Variants: the start of processing is taken for its end; the update replaces what
\* the document has.
Confused(records, k, t) ==
  [records EXCEPT ![IF k = "ProcessingStarted" THEN "ProcessingFinished" ELSE k] = @ \cup {t}]

Overwritten(records, k, t) == [records EXCEPT ![k] = {t}]

\* UpdateRecords.
AddedToSet(records, k, t) == [records EXCEPT ![k] = @ \cup {t}]

\* A handler gets an update, and decides on the document as it returned then.
Update(h, k, t) ==
  /\ handler[h].pc = "idle" /\ updates[k][t] > 0
  /\ LET records == AddedToSet(doc.records, k, t)
         isReady == doc.stopped /\ IsReady(records)
     IN /\ doc' = [doc EXCEPT !.records = records]
        /\ handler' = [handler EXCEPT ![h] =
             [pc |-> IF isReady THEN "emitting" ELSE "deleting", kind |-> k, track |-> t,
              announces |-> IF isReady THEN records["RecordingStarted"] ELSE {}]]
  /\ UNCHANGED <<stage, updates, ready>>

Emit(h) ==
  /\ handler[h].pc = "emitting"
  /\ ready' = ready \cup {handler[h].announces}
  /\ handler' = [handler EXCEPT ![h].pc = "deleting"]
  /\ UNCHANGED <<stage, updates, doc>>

Rests(h) == handler' = [handler EXCEPT ![h] = Rest] /\ UNCHANGED <<doc, ready>>

\* The job is deleted; or RecordingReady could not be put and the job is too old.
Settle(h) ==
  /\ handler[h].pc # "idle"
  /\ Remove(handler[h].kind, handler[h].track) /\ Rests(h)

\* RecordingReady could not be put, or the job not be deleted or buried: it is
\* delivered again.
Redeliver(h) == handler[h].pc # "idle" /\ Rests(h) /\ UNCHANGED <<stage, updates>>

\* The document could not be updated until the job was too old.
Bury(h, k, t) ==
  /\ handler[h].pc = "idle" /\ updates[k][t] > 0
  /\ Remove(k, t) /\ UNCHANGED <<doc, handler, ready>>

Next ==
  \/ Progresses \/ Stop
  \/ \E h \in Handlers : \/ Emit(h) \/ Settle(h) \/ Redeliver(h)
                         \/ \E k \in Kinds, t \in Tracks : Update(h, k, t) \/ Bury(h, k, t)

Spec == Init /\ [][Next]_vars

-------------------------------------------------------------------------------
(* Properties *)

\* The books say nothing of a track that is not true, although they learn it late, out
\* of order and more than once (updateRecordingTrack, UpdateRecords).
BooksAreTruthful ==
  \A k \in Kinds : \A t \in doc.records[k] : Truthful(k, t)

\* A recording is announced only after it was stopped, and every track it was known to
\* have when the decision fell can be watched (IsReady).
ReadyIsWatchable ==
  \A ts \in ready : doc.stopped /\ \A t \in ts : stage[t] = "converted"

\* An update never makes the books forget another one, whichever handlers enter them
\* at the same time (UpdateRecords).
BooksOnlyGrow ==
  [][/\ doc.stopped => doc'.stopped
     /\ \A k \in Kinds : doc.records[k] \subseteq doc'.records[k]]_vars
===============================================================================
