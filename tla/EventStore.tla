----------------------------- MODULE EventStore -----------------------------
(***************************************************************************)
(* The events of a room from the moment one is emitted to the moment a     *)
(* client reads it: the jobs of the tube StoreEvent, the handlers of the   *)
(* RTC service that enter them into the collection "events", and the pages *)
(* of the history that the query "events" returns.                         *)
(*                                                                         *)
(* An event is named by its id.  Ids are random, so they say nothing of    *)
(* the order in which events were emitted, but Mongo sorts by them.        *)
(***************************************************************************)
EXTENDS Integers, Sequences, FiniteSets, SequencesExt

CONSTANTS Ids,         \* event ids, ordered
          Handlers,    \* goroutines that consume the tube
          Readers,     \* clients that page through the history
          Orders,      \* the values of Asc that clients ask for first
          Limit,       \* size of a page, 0 is no limit
          MaxTime,     \* bound: milliseconds that pass
          MaxFaults    \* bound: failed calls and lost reservations

ASSUME StoreAssumption ==
    /\ Ids \subseteq Nat \ {0}
    /\ Orders \subseteq BOOLEAN
    /\ Limit \in Nat /\ MaxTime \in Nat \ {0} /\ MaxFaults \in Nat

VARIABLES now,        \* the clock of the services
          createdAt,  \* per id: Event.CreatedAt, 0 if there is no such event
          job,        \* per id: its StoreEvent job
          holder,     \* per id: the handler that has the job reserved
          handler,    \* per handler: the event it works on and its next call
          log,        \* the collection, in the order of insertion
          reader,     \* per reader: its iterator and what it got
          faults

storeVars == <<now, createdAt, job, holder, handler, log, reader, faults>>

None == "none"
Idle == [event |-> 0, step |-> "idle"]
Stored == Range(log)

\* Event ids and times of the cursor of a page, 0 is a field left out.
NoCursor == [at |-> 0, id |-> 0, asc |-> FALSE]
NoReading == [phase |-> "idle", cursor |-> NoCursor, asc |-> FALSE,
              got |-> <<>>, due |-> {}]

StoreInit ==
    /\ now = 1
    /\ createdAt = [e \in Ids |-> 0]
    /\ job = [e \in Ids |-> "none"]
    /\ holder = [e \in Ids |-> None]
    /\ handler = [h \in Handlers |-> Idle]
    /\ log = <<>>
    /\ reader = [r \in Readers |-> NoReading]
    /\ faults = 0

Fault == faults < MaxFaults /\ faults' = faults + 1

Tick ==
    /\ now < MaxTime
    /\ now' = now + 1
    /\ UNCHANGED <<createdAt, job, holder, handler, log, reader, faults>>

-----------------------------------------------------------------------------
(* BeanstalkEmitter.EmitEvent: the event gets the time of its emission; Put *)
(* may fail, also after the queue has taken the job.                        *)

EmitEvent(e, ok) ==
    /\ createdAt[e] = 0
    /\ createdAt' = [createdAt EXCEPT ![e] = now]
    /\ \/ ok /\ job' = [job EXCEPT ![e] = "ready"] /\ UNCHANGED faults
       \/ ~ok /\ Fault /\ job' \in {job, [job EXCEPT ![e] = "ready"]}
    /\ UNCHANGED <<now, holder, handler, log, reader>>

-----------------------------------------------------------------------------
(* storeEvent                                                               *)

Reserve(h) ==
    \E e \in Ids :
        /\ handler[h] = Idle /\ job[e] = "ready"
        /\ job' = [job EXCEPT ![e] = "reserved"]
        /\ holder' = [holder EXCEPT ![e] = h]
        /\ handler' = [handler EXCEPT ![h] = [event |-> e, step |-> "create"]]
        /\ UNCHANGED <<now, createdAt, log, reader, faults>>

Then(h, s) == handler' = [handler EXCEPT ![h].step = s]

\* Variant: every error of the insertion deletes the job.
InsertOrDrop(h) ==
    /\ handler[h].event \notin Stored
    /\ Then(h, "delete")
    /\ \/ log' = Append(log, handler[h].event) /\ UNCHANGED faults
       \/ Fault /\ UNCHANGED log

\* Mongo.CreateOne inserts the event; a failed insertion may have happened.
Insert(h) ==
    /\ handler[h].event \notin Stored
    /\ \/ Then(h, "delete") /\ log' = Append(log, handler[h].event) /\ UNCHANGED faults
       \/ /\ Fault
          /\ Then(h, "retry")
          /\ log' \in {log, Append(log, handler[h].event)}

\* The id is the primary key: a duplicate is skipped and its job deleted.
Duplicate(h) ==
    /\ handler[h].event \in Stored
    /\ Then(h, "delete")
    /\ UNCHANGED <<log, faults>>

Create(h) ==
    /\ handler[h].step = "create"
    /\ Insert(h) \/ Duplicate(h)
    /\ UNCHANGED <<now, createdAt, job, holder, reader>>

\* jobDelete: the queue refuses to delete a job that another handler holds; a
\* failure is only logged.
Delete(h) ==
    /\ handler[h].step = "delete"
    /\ LET e == handler[h].event IN
       \/ /\ job[e] \in {"ready", "buried"} \/ holder[e] = h
          /\ job' = [job EXCEPT ![e] = "deleted"]
          /\ holder' = [holder EXCEPT ![e] = None]
          /\ UNCHANGED faults
       \/ /\ job[e] \in {"reserved", "deleted"} /\ holder[e] # h
          /\ UNCHANGED <<job, holder, faults>>
       \/ Fault /\ UNCHANGED <<job, holder>>
    /\ handler' = [handler EXCEPT ![h] = Idle]
    /\ UNCHANGED <<now, createdAt, log, reader>>

\* jobRetry: the job is released, or buried once it is older than five minutes.
Retry(h) ==
    /\ handler[h].step = "retry"
    /\ LET e == handler[h].event IN
       \/ /\ holder[e] = h
          /\ \E s \in {"ready", "buried"} : job' = [job EXCEPT ![e] = s]
          /\ holder' = [holder EXCEPT ![e] = None]
          /\ UNCHANGED faults
       \/ /\ holder[e] # h
          /\ UNCHANGED <<job, holder, faults>>
       \/ Fault /\ UNCHANGED <<job, holder>>
    /\ handler' = [handler EXCEPT ![h] = Idle]
    /\ UNCHANGED <<now, createdAt, log, reader>>

\* A reservation ends after ten seconds, or with the handler's connection: the
\* job is ready again, and the handler may still be working on it.
Lapse(e) ==
    /\ job[e] = "reserved"
    /\ \/ Fault /\ UNCHANGED handler
       \/ /\ \A h \in Handlers : holder[e] = h => handler[h].event # e
          /\ UNCHANGED <<faults, handler>>
       \/ /\ Fault
          /\ handler' = [h \in Handlers |-> IF holder[e] = h THEN Idle ELSE handler[h]]
    /\ job' = [job EXCEPT ![e] = "ready"]
    /\ holder' = [holder EXCEPT ![e] = None]
    /\ UNCHANGED <<now, createdAt, log, reader>>

-----------------------------------------------------------------------------
(* The pages of the history: Resolver.Events over Mongo.Fetch, read by the  *)
(* iterator of the web client.                                              *)

After(e, f, asc) == IF asc THEN e > f ELSE e < f

\* Variant: events with the time of the cursor are taken for read.
FilterByTime(e, c) == c.at # 0 => After(createdAt[e], c.at, c.asc)

\* mongoFilter: what lies after the cursor in the order of the page.
Filter(e, c) ==
    CASE c.at # 0 /\ c.id # 0 ->
            \/ After(createdAt[e], c.at, c.asc)
            \/ createdAt[e] = c.at /\ After(e, c.id, c.asc)
      [] c.at # 0 /\ c.id = 0 -> After(createdAt[e], c.at, c.asc)
      [] c.at = 0 /\ c.id # 0 -> After(e, c.id, c.asc)
      [] OTHER -> TRUE

\* The sort order of Mongo.Fetch.
Precedes(e, f, asc) ==
    \/ After(createdAt[f], createdAt[e], asc)
    \/ createdAt[e] = createdAt[f] /\ After(f, e, asc)

\* Mongo.Fetch: the i-th event of a page is the one that i - 1 of those found precede.
Fetch(c) ==
    LET found == {e \in Stored : Filter(e, c)}
        size == IF Limit = 0 \/ Limit > Cardinality(found) THEN Cardinality(found) ELSE Limit
    IN  [i \in 1..size |->
            CHOOSE e \in found :
                Cardinality({f \in found : Precedes(f, e, c.asc)}) = i - 1]

\* The resolver's `next` has the id and the time of the last event of the page,
\* not the order: the iterator that sends it back reads on in descending order.
NextCursor(page) ==
    IF page = <<>> THEN NoCursor
    ELSE [at |-> createdAt[Last(page)], id |-> Last(page), asc |-> FALSE]

\* The replay of a recording starts at a time, other readings have no cursor.
StartReading(r) ==
    /\ reader[r].phase = "idle"
    /\ \E asc \in Orders : \E at \in IF asc THEN 0..now ELSE {0} :
          LET c == [at |-> at, id |-> 0, asc |-> asc] IN
          reader' = [reader EXCEPT ![r] =
              [phase |-> "reading", cursor |-> c, asc |-> asc, got |-> <<>>,
               due |-> {e \in Stored : Filter(e, c)}]]
    /\ UNCHANGED <<now, createdAt, job, holder, handler, log, faults>>

\* EventIterator.next: an empty page ends the reading.
ReadPage(r) ==
    /\ reader[r].phase = "reading"
    /\ LET page == Fetch(reader[r].cursor) IN
       reader' = [reader EXCEPT ![r].got = @ \o page,
                                ![r].cursor = NextCursor(page),
                                ![r].phase = IF page = <<>> THEN "done" ELSE "reading"]
    /\ UNCHANGED <<now, createdAt, job, holder, handler, log, faults>>

StopReading(r) ==
    /\ reader[r].phase = "done"
    /\ reader' = [reader EXCEPT ![r] = NoReading]
    /\ UNCHANGED <<now, createdAt, job, holder, handler, log, faults>>

-----------------------------------------------------------------------------
StoreNext ==
    \/ Tick
    \/ \E h \in Handlers : Reserve(h) \/ Create(h) \/ Delete(h) \/ Retry(h)
    \/ \E e \in Ids : Lapse(e)
    \/ \E r \in Readers : StartReading(r) \/ ReadPage(r) \/ StopReading(r)

\* The store on its own: events come from anywhere.
Emit == \E e \in Ids, ok \in BOOLEAN : EmitEvent(e, ok)

StoreSpec == StoreInit /\ [][StoreNext \/ Emit]_storeVars

\* A replay asks for events in ascending order and appends every page it gets
\* to those it has as the next batch: no event comes after a later one.
ReplayGoesForward ==
    \A r \in Readers : reader[r].asc =>
        \A i \in 1..Len(reader[r].got) - 1 :
            Precedes(reader[r].got[i], reader[r].got[i + 1], TRUE)
=============================================================================
