---------------------------- MODULE TrackerProofs ----------------------------
(***************************************************************************)
(* Proofs about the trackers: TrackerRuntime keeps its types, has one      *)
(* running tracker per entry, a wait group that never undercounts, and a   *)
(* Run that returns only when nothing is left to close; a RecordTracker    *)
(* closes only when no counted track is being written, also in the process *)
(* that runs it; and ServiceProcess exits only in order, with every job    *)
(* that is gone done.                                                      *)
(***************************************************************************)
EXTENDS TrackerRuntime, ServiceProcess, FiniteSetTheorems, TLAPS

\* The keys the GC loop has left to visit are registered (delete happens in the
\* iteration that visits the key, and the mutex keeps everybody else out).
TodoRegistered == \A k \in run.todo : trackers[k] # None

TypeInv == TypeOK /\ TodoRegistered

\* The fields of an entry and of a call have the types of their records.
LEMMA FieldTypes ==
  ASSUME TypeOK
  PROVE  /\ \A e \in Entries : entry[e] \in Entry
         /\ \A e \in Entries : entry[e].expireAt \in Nat /\ entry[e].closers \in Nat
                               /\ entry[e].running \in Int
         /\ \A p \in Callers : call[p] \in Call
BY DEF TypeOK, Entry, Call

\* Every step keeps the types.
LEMMA TypeStep == TypeInv /\ [Next]_vars => TypeInv'
<1> SUFFICES ASSUME TypeInv, [Next]_vars PROVE TypeInv'
  OBVIOUS
<1> USE RuntimeAssumption, FieldTypes DEF TypeInv, TodoRegistered
<1>a. ASSUME UNCHANGED <<mutex, shuttingDown, trackers, trackersClosed, run>>,
             entry' \in [Entries -> Entry], call' \in [Callers -> Call],
             env' \in [now : Nat, ctxDone : BOOLEAN, calls : Nat, crashed : BOOLEAN]
      PROVE  TypeInv'
  BY <1>a DEF TypeOK
<1>b. ASSUME NEW p \in Callers, Request(p)
      PROVE  env' \in [now : Nat, ctxDone : BOOLEAN, calls : Nat, crashed : BOOLEAN]
  BY <1>b DEF Request, TypeOK
<1>1. ASSUME NEW p \in Callers, Refuse(p) PROVE TypeInv'
  BY <1>1, <1>b DEF Refuse, TypeOK
<1>2. ASSUME NEW p \in Callers, NEW k \in Keys, StopFound(p, k) PROVE TypeInv'
  <2>1. PICK e \in Entries : /\ entry' = [entry EXCEPT ![e].closers = @ + 1]
                             /\ Perform(p, "stopping", e)
    BY <1>2 DEF StopFound
  <2>2. entry' \in [Entries -> Entry]
    BY <2>1 DEF TypeOK, Entry
  <2>3. [op |-> "stopping", on |-> e] \in Call
    BY DEF Call
  <2>4. call' \in [Callers -> Call]
    BY <2>1, <2>3 DEF Perform, TypeOK
  <2> QED BY <1>2, <1>a, <1>b, <2>2, <2>4 DEF StopFound
<1>3. ASSUME NEW p \in Callers, NEW k \in Keys, StopNotFound(p, k) PROVE TypeInv'
  BY <1>3, <1>b DEF StopNotFound, TypeOK
<1>4. ASSUME NEW p \in Callers, NEW k \in Keys, NEW t \in Expiries, StartRegister(p, k, t)
      PROVE TypeInv'
  <2>1. PICK e \in Entries :
          /\ \/ entry' = [entry EXCEPT ![e].expireAt = t]
             \/ entry' = [entry EXCEPT ![e].status = "init", ![e].key = k,
                                       ![e].expireAt = t]
          /\ trackers' = [trackers EXCEPT ![k] = e]
          /\ Perform(p, "starting", e)
    BY <1>4 DEF StartRegister
  <2>2. t \in Nat
    OBVIOUS
  <2>3. entry' \in [Entries -> Entry]
    <3>1. CASE entry' = [entry EXCEPT ![e].expireAt = t]
      BY <2>2, <3>1 DEF TypeOK, Entry
    <3>2. CASE entry' = [entry EXCEPT ![e].status = "init", ![e].key = k, ![e].expireAt = t]
      <4>1. [entry[e] EXCEPT !.status = "init", !.key = k, !.expireAt = t] \in Entry
        BY <2>2 DEF Entry
      <4> QED BY <3>2, <4>1 DEF TypeOK, Entry
    <3> QED BY <2>1, <3>1, <3>2
  <2>4. [op |-> "starting", on |-> e] \in Call
    BY <2>2 DEF Call
  <2>5. call' \in [Callers -> Call]
    BY <2>1, <2>4 DEF Perform, TypeOK
  <2>6. trackers' \in [Keys -> Entries \cup {None}] /\ TodoRegistered'
    BY <1>4, <2>1 DEF StartRegister, TypeOK
  <2> QED BY <1>4, <1>b, <2>3, <2>5, <2>6 DEF StartRegister, TypeOK
<1>5. ASSUME NEW p \in Callers, NEW e \in Entries, EntryStep(p, e) PROVE TypeInv'
  <2>1. ASSUME Return(p) PROVE call' \in [Callers -> Call]
    <3>1. [op |-> "idle", on |-> None] \in Call
      BY DEF Call
    <3> QED BY <2>1, <3>1 DEF Return, TypeOK, Call
  <2>2. CASE StartFindsLive(p, e)
    BY <2>1, <2>2, <1>a DEF StartFindsLive, TypeOK
  <2>3. CASE StartCreate(p, e)
    <3>1. entry' \in [Entries -> Entry]
      BY <2>3 DEF StartCreate, TypeOK, Entry
    <3>2. call' \in [Callers -> Call]
      BY <2>3 DEF StartCreate, TypeOK, Call
    <3> QED BY <2>3, <3>1, <3>2, <1>a DEF StartCreate, TypeOK
  <2>4. CASE StartReturn(p, e)
    <3>1. entry' \in [Entries -> Entry]
      BY <2>4 DEF StartReturn, TypeOK, Entry
    <3>2. call' \in [Callers -> Call]
      BY <2>1, <2>4 DEF StartReturn
    <3> QED BY <2>4, <3>1, <3>2, <1>a DEF StartReturn, TypeOK
  <2>5. CASE StopReturn(p, e)
    BY <2>1, <2>5, <1>a DEF StopReturn, TypeOK
  <2> QED BY <1>5, <2>2, <2>3, <2>4, <2>5 DEF EntryStep
<1>6. ASSUME NEW e \in Entries, CloserStep(e) PROVE TypeInv'
  <2>1. entry' \in [Entries -> Entry]
    BY <1>6 DEF CloserStep, CloseSkip, CloseBegin, CloseEnd, TypeOK, Entry
  <2>2. CASE CloseSkip(e)
    BY <2>1, <2>2, <1>a DEF CloseSkip, TypeOK
  <2>3. CASE CloseBegin(e)
    BY <2>1, <2>3, <1>a DEF CloseBegin, TypeOK
  <2>4. CASE CloseEnd(e)
    BY <2>1, <2>4 DEF CloseEnd, TypeOK
  <2> QED BY <1>6, <2>2, <2>3, <2>4 DEF CloserStep
<1>7. ASSUME GCBegin PROVE TypeInv'
  BY <1>7 DEF GCBegin, TypeOK
<1>c. ASSUME NEW S, SpawnClosers(S) PROVE entry' \in [Entries -> Entry]
  <2> SUFFICES ASSUME NEW e \in Entries
               PROVE  [entry[e] EXCEPT !.closers = IF e \in S THEN @ + 1 ELSE @] \in Entry
    BY <1>c DEF SpawnClosers
  <2> QED BY DEF Entry
<1>8. ASSUME GCEnd PROVE TypeInv'
  <2>1. entry' \in [Entries -> Entry]
    BY <1>8, <1>c DEF GCEnd
  <2> QED BY <1>8, <2>1 DEF GCEnd, TypeOK
<1>9. ASSUME NEW k \in Keys, GCVisit(k) PROVE TypeInv'
  <2>1. trackers[k] \in Entries
    BY <1>9 DEF GCVisit, TypeOK
  <2>2. trackers' \in [Keys -> Entries \cup {None}]
    BY <1>9 DEF GCVisit, TypeOK
  <2>3. run' \in [pc : {"sleep", "gc", "wait", "done"}, todo : SUBSET Keys,
                  toClose : SUBSET Entries, at : Nat]
    <3>1. CASE Collectable(trackers[k])
      <4>1. run' = [run EXCEPT !.todo = @ \ {k}, !.toClose = @ \cup {trackers[k]}]
        BY <1>9, <3>1 DEF GCVisit
      <4>2. run.todo \ {k} \in SUBSET Keys /\ run.toClose \cup {trackers[k]} \in SUBSET Entries
        BY <2>1 DEF TypeOK
      <4> HIDE DEF TodoRegistered
      <4> QED BY <4>1, <4>2 DEF TypeOK
    <3>2. CASE ~Collectable(trackers[k])
      BY <1>9, <2>1, <3>2 DEF GCVisit, TypeOK
    <3> QED BY <3>1, <3>2
  <2>4. TodoRegistered'
    <3>1. run'.todo = run.todo \ {k}
      BY <1>9 DEF GCVisit, TypeOK
    <3>2. \A j \in Keys \ {k} : trackers'[j] = trackers[j]
      BY <1>9 DEF GCVisit, TypeOK
    <3>3. run.todo \subseteq Keys
      BY DEF TypeOK
    <3> QED BY <3>1, <3>2, <3>3
  <2> QED BY <1>9, <2>2, <2>3, <2>4 DEF GCVisit, TypeOK
<1>10. ASSUME RunShutdown PROVE TypeInv'
  <2>1. entry' \in [Entries -> Entry]
    BY <1>10, <1>c DEF RunShutdown
  <2> QED BY <1>10, <2>1 DEF RunShutdown, TypeOK
<1>11. ASSUME RunReturn PROVE TypeInv'
  BY <1>11 DEF RunReturn, TypeOK
<1>12. ASSUME Tick \/ CancelContext PROVE TypeInv'
  <2>1. env' \in [now : Nat, ctxDone : BOOLEAN, calls : Nat, crashed : BOOLEAN]
    <3>1. CASE Tick
      BY <3>1 DEF Tick, TypeOK
    <3>2. CASE CancelContext
      BY <3>2 DEF CancelContext, TypeOK
    <3> QED BY <1>12, <3>1, <3>2
  <2> QED BY <1>12, <2>1, <1>a DEF Tick, CancelContext, TypeOK
<1>13. ASSUME UNCHANGED vars PROVE TypeInv'
  BY <1>13 DEF vars, TypeOK
<1> QED
  BY <1>1, <1>2, <1>3, <1>4, <1>5, <1>6, <1>7, <1>8, <1>9, <1>10, <1>11, <1>12, <1>13
  DEF Next, GCStep

\* The initial state has the types.
LEMMA RuntimeInit == Init => TypeInv
<1> SUFFICES ASSUME Init PROVE TypeInv
  OBVIOUS
<1>1. Unused \in Entry /\ [op |-> "idle", on |-> None] \in Call
  BY DEF Unused, Entry, Call
<1>2. entry \in [Entries -> Entry] /\ call \in [Callers -> Call]
  BY <1>1 DEF Init
<1>3. TodoRegistered
  BY DEF Init, TodoRegistered
<1>4. run \in [pc : {"sleep", "gc", "wait", "done"}, todo : SUBSET Keys,
               toClose : SUBSET Entries, at : Nat]
  BY DEF Init
<1>5. env \in [now : Nat, ctxDone : BOOLEAN, calls : Nat, crashed : BOOLEAN]
  BY DEF Init
<1>6. trackers \in [Keys -> Entries \cup {None}]
  BY DEF Init
<1>7. mutex \in {"free", "run", "leaked"} /\ trackersClosed \in Int
  BY DEF Init
<1>8. shuttingDown \in BOOLEAN
  BY DEF Init
<1> QED BY <1>2, <1>3, <1>4, <1>5, <1>6, <1>7, <1>8 DEF TypeInv, TypeOK

\* Every variable keeps its type (the type invariant of the runtime).
THEOREM RuntimeTypes == Spec => []TypeOK
<1>1. Init => TypeInv
  BY RuntimeInit
<1>2. TypeInv => TypeOK
  BY DEF TypeInv
<1> QED BY <1>1, <1>2, TypeStep, PTL DEF Spec

-------------------------------------------------------------------------------
(* One running tracker per entry *)

\* Who holds the lock of an entry determines its status: a caller inside
\* newTracker keeps it from being live or closing, and a closing goroutine is at
\* work exactly while it is closing.
LockInv ==
  /\ \A p \in Callers : call[p].op = "creating" =>
       /\ call[p].on \in Entries
       /\ entry[call[p].on].lock = p
       /\ entry[call[p].on].status \notin {"live", "closing"}
  /\ ~env.crashed => \A e \in Entries : entry[e].status = "closing" <=> entry[e].lock = Closer

EntryInv == LockInv /\ OneTrackerPerEntry

\* Every step keeps the lock discipline and the count of running trackers.
LEMMA EntryInvStep == TypeInv /\ EntryInv /\ [Next]_vars => EntryInv'
<1> SUFFICES ASSUME TypeInv, EntryInv, [Next]_vars PROVE EntryInv'
  OBVIOUS
<1> USE RuntimeAssumption DEF EntryInv, LockInv, OneTrackerPerEntry
<1>0. TypeOK
  BY DEF TypeInv
<1>1. CASE UNCHANGED <<entry, call>> /\ env'.crashed = env.crashed
  BY <1>1
<1>2. ASSUME NEW p \in Callers, Refuse(p) PROVE EntryInv'
  BY <1>2, <1>0, <1>1 DEF Refuse, Request, TypeOK
<1>3. ASSUME NEW p \in Callers, NEW k \in Keys, StopFound(p, k) PROVE EntryInv'
  BY <1>3, <1>0 DEF StopFound, Request, Perform, TypeOK, Entry, Call
<1>4. ASSUME NEW p \in Callers, NEW k \in Keys, StopNotFound(p, k) PROVE EntryInv'
  BY <1>4, <1>0, <1>1 DEF StopNotFound, Request, TypeOK
<1>5. ASSUME NEW p \in Callers, NEW k \in Keys, NEW t \in Expiries, StartRegister(p, k, t)
      PROVE EntryInv'
  <2>1. PICK e \in Entries :
          /\ \/ entry' = [entry EXCEPT ![e].expireAt = t]
             \/ /\ entry[e].status = "unused"
                /\ entry' = [entry EXCEPT ![e].status = "init", ![e].key = k,
                                          ![e].expireAt = t]
          /\ Perform(p, "starting", e)
    BY <1>5 DEF StartRegister
  <2>2. env'.crashed = env.crashed
    BY <1>5, <1>0 DEF StartRegister, Request, TypeOK
  <2>3. \A q \in Callers : call'[q].op = "creating" => call'[q] = call[q]
    BY <2>1, <1>0 DEF Perform, TypeOK, Call
  <2>4. CASE entry' = [entry EXCEPT ![e].expireAt = t]
    BY <2>2, <2>3, <2>4, <1>0 DEF TypeOK, Entry
  <2>5. CASE /\ entry[e].status = "unused"
             /\ entry' = [entry EXCEPT ![e].status = "init", ![e].key = k, ![e].expireAt = t]
    BY <2>2, <2>3, <2>5, <1>0 DEF TypeOK, Entry
  <2> QED BY <2>1, <2>4, <2>5
<1>6. ASSUME NEW p \in Callers, NEW e \in Entries, EntryStep(p, e) PROVE EntryInv'
  <2>1. CASE StartFindsLive(p, e)
    BY <2>1, <1>0 DEF StartFindsLive, Return, TypeOK, Call
  <2>2. CASE StartCreate(p, e)
    BY <2>2, <1>0 DEF StartCreate, Locks, TypeOK, Entry, Call
  <2>3. CASE StartReturn(p, e)
    BY <2>3, <1>0 DEF StartReturn, Return, TypeOK, Entry, Call
  <2>4. CASE StopReturn(p, e)
    BY <2>4, <1>0 DEF StopReturn, Return, TypeOK, Call
  <2> QED BY <1>6, <2>1, <2>2, <2>3, <2>4 DEF EntryStep
<1>7. ASSUME NEW e \in Entries, CloserStep(e) PROVE EntryInv'
  <2>1. CASE CloseSkip(e)
    BY <2>1, <1>0 DEF CloseSkip, TypeOK, Entry, Call
  <2>2. CASE CloseBegin(e)
    BY <2>2, <1>0 DEF CloseBegin, Settled, TypeOK, Entry, Call
  <2>3. CASE CloseEnd(e)
    BY <2>3, <1>0 DEF CloseEnd, TypeOK, Entry, Call
  <2> QED BY <1>7, <2>1, <2>2, <2>3 DEF CloserStep
<1>8. ASSUME GCBegin PROVE EntryInv'
  BY <1>8, <1>1 DEF GCBegin
<1>9. ASSUME NEW S, SpawnClosers(S), UNCHANGED <<call, env>> PROVE EntryInv'
  BY <1>9, <1>0 DEF SpawnClosers, TypeOK, Entry, Call
<1>10. ASSUME GCEnd PROVE EntryInv'
  BY <1>10, <1>9 DEF GCEnd
<1>11. ASSUME NEW k \in Keys, GCVisit(k) PROVE EntryInv'
  BY <1>11, <1>1 DEF GCVisit
<1>12. ASSUME RunShutdown PROVE EntryInv'
  BY <1>12, <1>9 DEF RunShutdown
<1>13. ASSUME RunReturn PROVE EntryInv'
  BY <1>13, <1>1 DEF RunReturn
<1>14. ASSUME Tick \/ CancelContext PROVE EntryInv'
  BY <1>14, <1>0, <1>1 DEF Tick, CancelContext, TypeOK
<1>15. ASSUME UNCHANGED vars PROVE EntryInv'
  BY <1>15, <1>1 DEF vars
<1> QED
  BY <1>2, <1>3, <1>4, <1>5, <1>6, <1>7, <1>8, <1>10, <1>11, <1>12, <1>13, <1>14, <1>15
  DEF Next, GCStep

\* Nothing is locked or running initially.
LEMMA EntryInit == Init => EntryInv
<1> SUFFICES ASSUME Init PROVE EntryInv
  OBVIOUS
<1>1. \A p \in Callers : call[p].op = "idle"
  BY DEF Init
<1>2. \A e \in Entries : entry[e].status = "unused" /\ entry[e].lock = Free
                        /\ entry[e].running = 0
  BY DEF Init, Unused
<1> QED BY <1>1, <1>2, RuntimeAssumption DEF EntryInv, LockInv, OneTrackerPerEntry

\* No tracker is closed twice or overwritten by a second one: an entry has one
\* running tracker while it is live or closing and none otherwise.
THEOREM EntriesHoldOneTracker == Spec => []OneTrackerPerEntry
<1>1. Init => TypeInv /\ EntryInv
  BY RuntimeInit, EntryInit
<1>2. EntryInv => OneTrackerPerEntry
  BY DEF EntryInv
<1> QED BY <1>1, <1>2, TypeStep, EntryInvStep, PTL DEF Spec

-------------------------------------------------------------------------------
(* The wait group, and what Run waits for *)

\* The sets the wait group accounts for are finite.
LEMMA CountedFinite ==
  /\ IsFiniteSet(Starting) /\ Cardinality(Starting) \in Nat
  /\ IsFiniteSet(Alive) /\ Cardinality(Alive) \in Nat
<1>1. Starting \subseteq Callers /\ Alive \subseteq Entries
  BY DEF Starting, Alive
<1> QED BY <1>1, RuntimeAssumption, FS_Subset, FS_CardinalityType

\* How each step changes the counted sets: a call is counted from StartRegister on,
\* and hands over to its tracker in StartReturn.
LEMMA CountedStep ==
  ASSUME TypeInv, EntryInv, Next
  PROVE  \/ Starting' = Starting /\ Alive' = Alive /\ trackersClosed' = trackersClosed
         \/ \E p \in Callers : /\ Starting' = Starting \cup {p} /\ Alive' = Alive
                              /\ trackersClosed' = trackersClosed + 1
                              /\ ~shuttingDown
         \/ \E p \in Starting, e \in Entries :
              /\ Starting' = Starting \ {p}
              /\ Alive' = Alive \/ Alive' = Alive \cup {e}
              /\ trackersClosed' = trackersClosed
         \/ \E e \in Alive : /\ Starting' = Starting /\ Alive' = Alive \ {e}
                             /\ trackersClosed' = trackersClosed - 1
<1> USE RuntimeAssumption
<1>0. TypeOK
  BY DEF TypeInv
<1>1. CASE \E p \in Callers : Refuse(p)
  BY <1>1 DEF Refuse, Starting, Alive
<1>2. ASSUME NEW p \in Callers, NEW k \in Keys, StopFound(p, k) \/ StopNotFound(p, k)
      PROVE Starting' = Starting /\ Alive' = Alive /\ trackersClosed' = trackersClosed
  <2>1. \A q \in Callers : call'[q].op \in {"starting", "creating"}
                          <=> call[q].op \in {"starting", "creating"}
    BY <1>2, <1>0 DEF StopFound, StopNotFound, Request, Perform, TypeOK, Call
  <2>2. \A e \in Entries : entry'[e].running = entry[e].running
    BY <1>2, <1>0 DEF StopFound, StopNotFound, TypeOK, Entry
  <2> QED BY <1>2, <2>1, <2>2 DEF StopFound, StopNotFound, Starting, Alive
<1>3. ASSUME NEW p \in Callers, NEW k \in Keys, NEW t \in Expiries, StartRegister(p, k, t)
      PROVE /\ Starting' = Starting \cup {p} /\ Alive' = Alive
            /\ trackersClosed' = trackersClosed + 1 /\ ~shuttingDown
  <2>1. PICK e \in Entries :
          /\ \/ entry' = [entry EXCEPT ![e].expireAt = t]
             \/ entry' = [entry EXCEPT ![e].status = "init", ![e].key = k,
                                       ![e].expireAt = t]
          /\ Perform(p, "starting", e)
    BY <1>3 DEF StartRegister
  <2>2. \A q \in Callers : call'[q].op = IF q = p THEN "starting" ELSE call[q].op
    BY <2>1, <1>0 DEF Perform, TypeOK, Call
  <2>3. \A d \in Entries : entry'[d].running = entry[d].running
    BY <2>1, <1>0 DEF TypeOK, Entry
  <2> QED BY <1>3, <2>2, <2>3 DEF StartRegister, Starting, Alive
<1>4. ASSUME NEW p \in Callers, NEW e \in Entries, StartFindsLive(p, e)
      PROVE p \in Starting /\ Starting' = Starting \ {p} /\ Alive' = Alive
            /\ trackersClosed' = trackersClosed
  <2>1. \A q \in Callers : call'[q].op = IF q = p THEN "idle" ELSE call[q].op
    BY <1>4, <1>0 DEF StartFindsLive, Return, TypeOK, Call
  <2> QED BY <1>4, <2>1 DEF StartFindsLive, Locks, Starting, Alive
<1>5. ASSUME NEW p \in Callers, NEW e \in Entries, StartCreate(p, e) \/ StopReturn(p, e)
      PROVE Starting' = Starting /\ Alive' = Alive /\ trackersClosed' = trackersClosed
  <2>1. \A q \in Callers : call'[q].op \in {"starting", "creating"}
                          <=> call[q].op \in {"starting", "creating"}
    BY <1>5, <1>0 DEF StartCreate, StopReturn, Return, Locks, TypeOK, Call
  <2>2. \A d \in Entries : entry'[d].running = entry[d].running
    BY <1>5, <1>0 DEF StartCreate, StopReturn, Return, TypeOK, Entry
  <2> QED BY <1>5, <2>1, <2>2 DEF StartCreate, StopReturn, Starting, Alive
<1>6. ASSUME NEW p \in Callers, NEW e \in Entries, StartReturn(p, e)
      PROVE /\ p \in Starting /\ Starting' = Starting \ {p}
            /\ Alive' = Alive \/ Alive' = Alive \cup {e}
            /\ trackersClosed' = trackersClosed
  <2>1. \A q \in Callers : call'[q].op = IF q = p THEN "idle" ELSE call[q].op
    BY <1>6, <1>0 DEF StartReturn, Return, TypeOK, Call
  <2>2. p \in Starting /\ entry[e].running = 0
    BY <1>6, <1>0 DEF StartReturn, Starting, EntryInv, LockInv, OneTrackerPerEntry
  <2>3. \/ \A d \in Entries : entry'[d].running = entry[d].running
        \/ \A d \in Entries : entry'[d].running = IF d = e THEN 1 ELSE entry[d].running
    BY <1>6, <2>2, <1>0 DEF StartReturn, TypeOK, Entry
  <2> QED BY <1>6, <2>1, <2>2, <2>3 DEF StartReturn, Starting, Alive
<1>7. ASSUME NEW e \in Entries, CloseSkip(e) \/ CloseBegin(e)
      PROVE Starting' = Starting /\ Alive' = Alive /\ trackersClosed' = trackersClosed
  <2>1. \A d \in Entries : entry'[d].running = entry[d].running
    BY <1>7, <1>0 DEF CloseSkip, CloseBegin, TypeOK, Entry
  <2> QED BY <1>7, <2>1 DEF CloseSkip, CloseBegin, Starting, Alive
<1>8. ASSUME NEW e \in Entries, CloseEnd(e)
      PROVE /\ e \in Alive /\ Starting' = Starting /\ Alive' = Alive \ {e}
            /\ trackersClosed' = trackersClosed - 1
  <2>1. entry[e].running = 1
    BY <1>8, <1>0 DEF CloseEnd, EntryInv, LockInv, OneTrackerPerEntry
  <2>2. \A d \in Entries : entry'[d].running = IF d = e THEN 0 ELSE entry[d].running
    BY <1>8, <2>1, <1>0 DEF CloseEnd, TypeOK, Entry
  <2>3. e \in Alive /\ Alive' = Alive \ {e}
    BY <2>1, <2>2 DEF Alive
  <2>4. Starting' = Starting /\ trackersClosed' = trackersClosed - 1
    BY <1>8 DEF CloseEnd, Starting
  <2> QED BY <2>3, <2>4
<1>9. ASSUME NEW S, SpawnClosers(S) PROVE Alive' = Alive
  <2>1. \A d \in Entries : entry'[d].running = entry[d].running
    BY <1>9, <1>0 DEF SpawnClosers, TypeOK, Entry
  <2> QED BY <2>1 DEF Alive
<1>10. CASE GCEnd \/ RunShutdown
  BY <1>10, <1>9 DEF GCEnd, RunShutdown, Starting
<1>11. CASE GCBegin \/ RunReturn \/ Tick \/ CancelContext \/ \E k \in Keys : GCVisit(k)
  BY <1>11 DEF GCBegin, RunReturn, Tick, CancelContext, GCVisit, Starting, Alive
<1>12. CASE \E p \in Callers, e \in Entries : EntryStep(p, e)
  <2>1. PICK p \in Callers, e \in Entries : EntryStep(p, e)
    BY <1>12
  <2>2. CASE StartFindsLive(p, e)
    BY <2>2, <1>4
  <2>3. CASE StartCreate(p, e) \/ StopReturn(p, e)
    BY <2>3, <1>5
  <2>4. CASE StartReturn(p, e)
    BY <2>4, <1>6
  <2> QED BY <2>1, <2>2, <2>3, <2>4 DEF EntryStep
<1>13. CASE \E e \in Entries : CloserStep(e)
  <2>1. PICK e \in Entries : CloserStep(e)
    BY <1>13
  <2>2. CASE CloseEnd(e)
    BY <2>2, <1>8
  <2> QED BY <2>1, <2>2, <1>7 DEF CloserStep
<1>14. CASE \E p \in Callers, k \in Keys, t \in Expiries : StartRegister(p, k, t)
  BY <1>14, <1>3
<1>15. CASE \E p \in Callers, k \in Keys : StopFound(p, k) \/ StopNotFound(p, k)
  BY <1>15, <1>2
<1> QED
  BY <1>1, <1>10, <1>11, <1>12, <1>13, <1>14, <1>15 DEF Next, GCStep

\* Every step keeps the wait group from undercounting.
LEMMA WaitGroupStep ==
  TypeInv /\ EntryInv /\ WaitGroupCovers /\ [Next]_vars => WaitGroupCovers'
<1> SUFFICES ASSUME TypeInv, EntryInv, WaitGroupCovers, [Next]_vars PROVE WaitGroupCovers'
  OBVIOUS
<1> USE CountedFinite DEF WaitGroupCovers
<1>0. trackersClosed \in Int
  BY DEF TypeInv, TypeOK
<1>1. CASE Starting' = Starting /\ Alive' = Alive /\ trackersClosed' = trackersClosed
  BY <1>1
<1>2. ASSUME NEW p \in Callers, Starting' = Starting \cup {p}, Alive' = Alive,
             trackersClosed' = trackersClosed + 1
      PROVE WaitGroupCovers'
  <2>1. Cardinality(Starting \cup {p}) = IF p \in Starting THEN Cardinality(Starting)
                                                       ELSE Cardinality(Starting) + 1
    BY FS_AddElement
  <2> QED BY <1>0, <1>2, <2>1
<1>3. ASSUME NEW p \in Starting, NEW e \in Entries, Starting' = Starting \ {p},
             Alive' = Alive \/ Alive' = Alive \cup {e}, trackersClosed' = trackersClosed
      PROVE WaitGroupCovers'
  <2>1. Cardinality(Starting') = Cardinality(Starting) - 1
    BY <1>3, FS_RemoveElement
  <2>2. Cardinality(Alive') \in Nat /\ Cardinality(Alive') <= Cardinality(Alive) + 1
    <3>1. CASE Alive' = Alive
      BY <3>1
    <3>2. CASE Alive' = Alive \cup {e}
      <4>1. Cardinality(Alive \cup {e}) = IF e \in Alive THEN Cardinality(Alive)
                                                      ELSE Cardinality(Alive) + 1
        BY FS_AddElement
      <4> QED BY <3>2, <4>1
    <3> QED BY <1>3, <3>1, <3>2
  <2> QED BY <1>0, <1>3, <2>1, <2>2
<1>4. ASSUME NEW e \in Alive, Starting' = Starting, Alive' = Alive \ {e},
             trackersClosed' = trackersClosed - 1
      PROVE WaitGroupCovers'
  <2>1. Cardinality(Alive') = Cardinality(Alive) - 1
    BY <1>4, FS_RemoveElement
  <2> QED BY <1>0, <1>4, <2>1
<1>5. CASE UNCHANGED vars
  BY <1>5, <1>1 DEF vars, Starting, Alive
<1> QED BY CountedStep, <1>1, <1>2, <1>3, <1>4, <1>5

\* The steps of the GC cycle leave Run in its loop.
LEMMA GCKeepsRunning ==
  ASSUME TypeOK, GCStep
  PROVE  run'.pc \in {"sleep", "gc"}
<1>1. CASE GCBegin
  BY <1>1 DEF GCBegin, TypeOK
<1>2. CASE GCEnd
  BY <1>2 DEF GCEnd, TypeOK
<1>3. ASSUME NEW k \in Keys, GCVisit(k) PROVE run'.pc \in {"sleep", "gc"}
  BY <1>3 DEF GCVisit, TypeOK
<1> QED BY <1>1, <1>2, <1>3 DEF GCStep

\* Only the Run goroutine changes where Run is, and only RunShutdown the flag.
LEMMA OthersKeepRun ==
  ASSUME [Next]_vars
  PROVE  \/ UNCHANGED <<run, shuttingDown>>
         \/ GCStep \/ RunShutdown \/ RunReturn
<1>1. CASE \E p \in Callers, k \in Keys, t \in Expiries : StartRegister(p, k, t)
  BY <1>1 DEF StartRegister
<1>2. CASE \E p \in Callers, e \in Entries : EntryStep(p, e)
  BY <1>2 DEF EntryStep, StartFindsLive, StartCreate, StartReturn, StopReturn
<1>3. CASE \E e \in Entries : CloserStep(e)
  BY <1>3 DEF CloserStep, CloseSkip, CloseBegin, CloseEnd
<1> QED
  BY <1>1, <1>2, <1>3 DEF Next, vars, Refuse, StopFound, StopNotFound, Tick, CancelContext

\* Run waits, and returns, only once new calls are refused.
RefusingInv == run.pc \in {"wait", "done"} => shuttingDown

\* Every step keeps it.
LEMMA RefusingStep == TypeInv /\ RefusingInv /\ [Next]_vars => RefusingInv'
<1> SUFFICES ASSUME TypeInv, RefusingInv, [Next]_vars PROVE RefusingInv'
  OBVIOUS
<1> USE DEF RefusingInv
<1>1. CASE run'.pc = run.pc /\ shuttingDown' = shuttingDown
  BY <1>1
<1>2. CASE GCStep
  <2>1. run'.pc \notin {"wait", "done"}
    BY <1>2, GCKeepsRunning DEF TypeInv
  <2> QED BY <2>1
<1>3. CASE RunShutdown \/ RunReturn
  BY <1>3 DEF RunShutdown, RunReturn, TypeInv, TypeOK
<1> QED BY OthersKeepRun, <1>1, <1>2, <1>3

\* Once Run has returned nothing can start or stay alive.
LEMMA ShutdownStep ==
  TypeInv /\ EntryInv /\ WaitGroupCovers /\ RefusingInv /\ ShutdownComplete /\ [Next]_vars
    => ShutdownComplete'
<1> SUFFICES ASSUME TypeInv, EntryInv, WaitGroupCovers, RefusingInv, ShutdownComplete,
                    [Next]_vars, run'.pc = "done"
             PROVE  Alive' = {} /\ Starting' = {}
  BY DEF ShutdownComplete
<1>1. CASE run.pc = "done"
  <2>1. Alive = {} /\ Starting = {} /\ shuttingDown
    BY <1>1 DEF ShutdownComplete, RefusingInv
  <2>2. CASE Next
    BY <2>1, <2>2, CountedStep
  <2>3. CASE UNCHANGED vars
    BY <2>1, <2>3 DEF vars, Alive, Starting
  <2> QED BY <2>2, <2>3
<1>2. CASE run.pc # "done"
  <2>1. RunReturn
    <3>1. CASE GCStep
      BY <3>1, GCKeepsRunning DEF TypeInv
    <3>2. CASE RunShutdown
      BY <3>2 DEF RunShutdown, TypeInv, TypeOK
    <3> QED BY <1>2, <3>1, <3>2, OthersKeepRun
  <2>2. Cardinality(Starting) = 0 /\ Cardinality(Alive) = 0
    BY <2>1, CountedFinite DEF RunReturn, WaitGroupCovers
  <2>3. Starting = {} /\ Alive = {}
    BY <2>2, CountedFinite, FS_EmptySet
  <2> QED BY <2>1, <2>3 DEF RunReturn, Starting, Alive
<1> QED BY <1>1, <1>2

\* When Run returns every tracker is closed and none can be created: the main
\* function of cmd/tracker exits right after.
THEOREM RunReturnsLast == Spec => [](ShutdownComplete /\ WaitGroupCovers)
<1>1. Init => TypeInv /\ EntryInv /\ WaitGroupCovers /\ RefusingInv /\ ShutdownComplete
  <2> SUFFICES ASSUME Init
               PROVE  WaitGroupCovers /\ RefusingInv /\ ShutdownComplete
    BY RuntimeInit, EntryInit
  <2>1. Starting = {} /\ Alive = {} /\ trackersClosed = 0
    BY DEF Init, Starting, Alive, Unused
  <2> QED BY <2>1, FS_EmptySet DEF Init, WaitGroupCovers, RefusingInv, ShutdownComplete
<1> QED
  BY <1>1, TypeStep, EntryInvStep, WaitGroupStep, RefusingStep, ShutdownStep, PTL DEF Spec

-------------------------------------------------------------------------------
(* The record tracker *)

\* The tracks whose goroutine the wait group counts.
CountedTracks == {t \in Tracks : track[t].pc \in Working}

TrackerInv == TrackerTypeOK /\ writers = Cardinality(CountedTracks)

LEMMA CountedTracksFinite == IsFiniteSet(CountedTracks) /\ Cardinality(CountedTracks) \in Nat
<1>1. CountedTracks \subseteq Tracks
  BY DEF CountedTracks
<1> QED BY <1>1, TrackerAssumption, FS_Subset, FS_CardinalityType

\* The fields of a track.
LEMMA TrackFields ==
  ASSUME TrackerTypeOK, NEW t \in Tracks
  PROVE  /\ track[t] \in Track /\ track[t].emitted \subseteq {"event", "started", "process", "finished"}
         /\ track \in [Tracks -> Track] /\ writers \in Nat
BY DEF TrackerTypeOK, Track

\* A new state of one track keeps the invariant if the wait group follows whether its
\* goroutine runs.
LEMMA TrackChange ==
  ASSUME TrackerInv, NEW t \in Tracks, NEW r \in Track, track' = [track EXCEPT ![t] = r],
         UNCHANGED <<trackerMutex, closed, connected, closer>>,
         \/ writers' = writers /\ (r.pc \in Working <=> track[t].pc \in Working)
         \/ writers' = writers + 1 /\ r.pc \in Working /\ track[t].pc \notin Working
         \/ writers' = writers - 1 /\ r.pc \notin Working /\ track[t].pc \in Working
  PROVE  TrackerInv'
<1>0. /\ TrackerTypeOK /\ writers = Cardinality(CountedTracks) /\ writers \in Nat
      /\ track \in [Tracks -> Track]
  BY DEF TrackerInv, TrackerTypeOK
<1>1. \A u \in Tracks : track'[u] = IF u = t THEN r ELSE track[u]
  BY <1>0
<1>2. writers' = Cardinality(CountedTracks') /\ writers' \in Nat
  <2>1. CASE writers' = writers /\ (r.pc \in Working <=> track[t].pc \in Working)
    <3>1. CountedTracks' = CountedTracks
      BY <1>1, <2>1 DEF CountedTracks
    <3> QED BY <1>0, <2>1, <3>1
  <2>2. CASE writers' = writers + 1 /\ r.pc \in Working /\ track[t].pc \notin Working
    <3>1. CountedTracks' = CountedTracks \cup {t} /\ t \notin CountedTracks
      BY <1>1, <2>2 DEF CountedTracks
    <3>2. Cardinality(CountedTracks \cup {t}) = Cardinality(CountedTracks) + 1
      BY <3>1, CountedTracksFinite, FS_AddElement
    <3> QED BY <1>0, <2>2, <3>1, <3>2
  <2>3. CASE writers' = writers - 1 /\ r.pc \notin Working /\ track[t].pc \in Working
    <3>1. CountedTracks' = CountedTracks \ {t} /\ t \in CountedTracks
      BY <1>1, <2>3 DEF CountedTracks
    <3>2. Cardinality(CountedTracks \ {t}) = Cardinality(CountedTracks) - 1 /\ IsFiniteSet(CountedTracks \ {t})
      BY <3>1, CountedTracksFinite, FS_RemoveElement
    <3>3. Cardinality(CountedTracks \ {t}) \in Nat
      BY <3>2, FS_CardinalityType
    <3> QED BY <1>0, <2>3, <3>1, <3>2, <3>3
  <2> QED BY <2>1, <2>2, <2>3
<1>3. track' \in [Tracks -> Track]
  BY <1>0
<1> QED BY <1>0, <1>2, <1>3 DEF TrackerInv, TrackerTypeOK

\* The steps of a goroutine that stays, and of one that leaves.
LEMMA GoroutineStays ==
  ASSUME TrackerInv, NEW t \in Tracks, NEW r \in Track, Stays(t, r),
         UNCHANGED <<trackerMutex, closed, connected, closer>>,
         r.pc \in Working, track[t].pc \in Working
  PROVE  TrackerInv'
BY TrackChange DEF Stays

LEMMA GoroutineLeaves ==
  ASSUME TrackerInv, NEW t \in Tracks, NEW r \in Track, Leaves(t, r),
         UNCHANGED <<trackerMutex, closed, connected, closer>>, track[t].pc \in Working
  PROVE  TrackerInv'
<1> DEFINE d == [r EXCEPT !.pc = "done"]
<1>1. d \in Track /\ d.pc = "done" /\ d.pc \notin Working
  BY DEF Track, Working
<1>2. track' = [track EXCEPT ![t] = d] /\ writers' = writers - 1
  BY DEF Leaves
<1> HIDE DEF d
<1> QED BY <1>1, <1>2, TrackChange

\* The callback and the goroutine of a track keep the invariant.
LEMMA TrackStep ==
  ASSUME TrackerInv, NEW t \in Tracks,
         Subscribed(t) \/ AddWriter(t) \/ Write(t) \/ TrackEnds(t) \/ Report(t)
  PROVE  TrackerInv'
<1> DEFINE x == track[t]
           All == {"event", "started", "process", "finished"}
<1>0. x \in Track /\ x.emitted \in SUBSET All /\ track \in [Tracks -> Track]
  BY TrackFields DEF TrackerInv
<1>1. UNCHANGED <<trackerMutex, closed, connected, closer>>
  BY DEF Subscribed, AddWriter, Write, TrackEnds, Report, CreateFile, Announce, Announced,
         Upload, Finish, Finished, At
<1>2. CASE Subscribed(t)
  <2> DEFINE r == [x EXCEPT !.pc = IF closed THEN "ignored" ELSE "admitted"]
  <2>1. r \in Track /\ r.pc \in {"ignored", "admitted"}
    BY <1>0 DEF Track
  <2>2. /\ track' = [track EXCEPT ![t] = r] /\ writers' = writers /\ x.pc = "none"
    BY <1>2 DEF Subscribed
  <2> HIDE DEF r
  <2>3. r.pc \notin Working /\ x.pc \notin Working
    BY <2>1, <2>2 DEF Working
  <2> QED BY <1>1, <2>1, <2>2, <2>3, TrackChange
<1>3. CASE AddWriter(t)
  <2> DEFINE r == [x EXCEPT !.pc = "starting"]
  <2>1. r \in Track /\ r.pc = "starting"
    BY <1>0 DEF Track, Working
  <2>2. /\ track' = [track EXCEPT ![t] = r] /\ writers' = writers + 1 /\ x.pc = "admitted"
    BY <1>3 DEF AddWriter
  <2> HIDE DEF r
  <2>3. r.pc \in Working /\ x.pc \notin Working
    BY <2>1, <2>2 DEF Working
  <2> QED BY <1>1, <2>1, <2>2, <2>3, TrackChange
<1>4. ASSUME NEW r \in Track, Leaves(t, r), x.pc \in Working PROVE TrackerInv'
  BY <1>1, <1>4, GoroutineLeaves
<1>5. ASSUME NEW pc \in Working, At(t, pc) PROVE x.pc \in Working /\ x.pc = pc
  BY <1>5 DEF At
<1>6. CASE CreateFile(t)
  <2>1. ASSUME Stays(t, [x EXCEPT !.pc = "writing", !.file = TRUE]), x.pc \in Working PROVE TrackerInv'
    <3> DEFINE r == [x EXCEPT !.pc = "writing", !.file = TRUE]
    <3>1. r \in Track /\ r.pc \in Working
      BY <1>0 DEF Track, Working
    <3>2. Stays(t, r)
      BY <2>1
    <3> HIDE DEF r
    <3> QED BY <1>1, <2>1, <3>1, <3>2, GoroutineStays
  <2>2. x.pc \in Working
    BY <1>6 DEF CreateFile, At, Working
  <2> QED BY <1>0, <1>4, <1>6, <2>1, <2>2 DEF CreateFile
<1>7. CASE Announce(t)
  <2>1. ASSUME Stays(t, [x EXCEPT !.pc = "announcing", !.emitted = @ \cup {"event"}]), x.pc \in Working PROVE TrackerInv'
    <3> DEFINE r == [x EXCEPT !.pc = "announcing", !.emitted = @ \cup {"event"}]
    <3>1. r \in Track /\ r.pc \in Working
      BY <1>0 DEF Track, Working
    <3>2. Stays(t, r)
      BY <2>1
    <3> HIDE DEF r
    <3> QED BY <1>1, <2>1, <3>1, <3>2, GoroutineStays
  <2>2. ASSUME Stays(t, [x EXCEPT !.started = TRUE]), x.pc \in Working PROVE TrackerInv'
    <3> DEFINE r == [x EXCEPT !.started = TRUE]
    <3>1. r \in Track /\ r.pc \in Working
      BY <1>0, <2>2 DEF Track, Working
    <3>2. Stays(t, r)
      BY <2>2
    <3> HIDE DEF r
    <3> QED BY <1>1, <2>2, <3>1, <3>2, GoroutineStays
  <2>3. x.pc \in Working
    BY <1>7 DEF Announce, At, Working
  <2> QED BY <1>7, <2>1, <2>2, <2>3 DEF Announce
<1>8. CASE Announced(t)
  <2>1. PICK put \in SUBSET {"started"} :
          Stays(t, [x EXCEPT !.pc = "writing", !.started = TRUE, !.emitted = @ \cup put])
    BY <1>8 DEF Announced
  <2> DEFINE r == [x EXCEPT !.pc = "writing", !.started = TRUE, !.emitted = @ \cup put]
  <2>2. r \in Track /\ r.pc \in Working
    BY <1>0 DEF Track, Working
  <2>3. Stays(t, r) /\ x.pc \in Working
    BY <1>8, <2>1 DEF Announced, At, Working
  <2> HIDE DEF r
  <2> QED BY <1>1, <2>2, <2>3, GoroutineStays
<1>9. CASE TrackEnds(t)
  <2>1. ASSUME Stays(t, [x EXCEPT !.pc = "ended"]), x.pc \in Working PROVE TrackerInv'
    <3> DEFINE r == [x EXCEPT !.pc = "ended"]
    <3>1. r \in Track /\ r.pc \in Working
      BY <1>0 DEF Track, Working
    <3>2. Stays(t, r)
      BY <2>1
    <3> HIDE DEF r
    <3> QED BY <1>1, <2>1, <3>1, <3>2, GoroutineStays
  <2>2. x.pc \in Working /\ [x EXCEPT !.file = FALSE] \in Track
    BY <1>0, <1>9 DEF TrackEnds, At, Working, Track
  <2> QED BY <1>4, <1>9, <2>1, <2>2 DEF TrackEnds
<1>10. CASE Upload(t)
  <2>1. ASSUME Stays(t, [x EXCEPT !.pc = "uploaded", !.stored = TRUE, !.file = FALSE]), x.pc \in Working PROVE TrackerInv'
    <3> DEFINE r == [x EXCEPT !.pc = "uploaded", !.stored = TRUE, !.file = FALSE]
    <3>1. r \in Track /\ r.pc \in Working
      BY <1>0 DEF Track, Working
    <3>2. Stays(t, r)
      BY <2>1
    <3> HIDE DEF r
    <3> QED BY <1>1, <2>1, <3>1, <3>2, GoroutineStays
  <2>2. x.pc \in Working
    BY <1>10 DEF Upload, At, Working
  <2> QED BY <1>0, <1>4, <1>10, <2>1, <2>2 DEF Upload
<1>11. CASE Finish(t)
  <2>1. ASSUME Stays(t, [x EXCEPT !.pc = "reporting", !.emitted = @ \cup {"process"}]), x.pc \in Working PROVE TrackerInv'
    <3> DEFINE r == [x EXCEPT !.pc = "reporting", !.emitted = @ \cup {"process"}]
    <3>1. r \in Track /\ r.pc \in Working
      BY <1>0 DEF Track, Working
    <3>2. Stays(t, r)
      BY <2>1
    <3> HIDE DEF r
    <3> QED BY <1>1, <2>1, <3>1, <3>2, GoroutineStays
  <2>2. x.pc \in Working
    BY <1>11 DEF Finish, At, Working
  <2> QED BY <1>0, <1>4, <1>11, <2>1, <2>2 DEF Finish
<1>12. CASE Finished(t)
  <2>1. PICK put \in SUBSET {"finished"} : Leaves(t, [x EXCEPT !.emitted = @ \cup put])
    BY <1>12 DEF Finished
  <2>2. x.pc \in Working /\ [x EXCEPT !.emitted = @ \cup put] \in Track
    BY <1>0, <1>12 DEF Finished, At, Working, Track
  <2> QED BY <1>4, <2>1, <2>2
<1> QED BY <1>2, <1>3, <1>6, <1>7, <1>8, <1>9, <1>10, <1>11, <1>12 DEF Write, Report

\* Close keeps the invariant: it waits for the counter and does not change it.
LEMMA CloserStepInv ==
  ASSUME TrackerInv, NEW c \in Closers, Close(c) \/ CloseReturns(c)
  PROVE  TrackerInv'
<1>1. UNCHANGED <<writers, track>>
  BY DEF Close, CloseReturns
<1>2. CountedTracks' = CountedTracks
  BY <1>1 DEF CountedTracks
<1>3. TrackerTypeOK'
  BY <1>1 DEF TrackerInv, TrackerTypeOK, Close, CloseReturns
<1> QED BY <1>1, <1>2, <1>3 DEF TrackerInv

LEMMA TrackerStep == TrackerInv /\ [TrackerNext]_trackerVars => TrackerInv'
<1>1. ASSUME TrackerInv, UNCHANGED trackerVars PROVE TrackerInv'
  BY <1>1 DEF trackerVars, TrackerInv, TrackerTypeOK, CountedTracks
<1> QED BY <1>1, TrackStep, CloserStepInv DEF TrackerNext

LEMMA TrackerStart == TrackerInit => TrackerInv
<1> SUFFICES ASSUME TrackerInit PROVE TrackerInv
  OBVIOUS
<1>1. CountedTracks = {}
  BY DEF TrackerInit, CountedTracks, Working
<1>2. TrackerTypeOK
  BY DEF TrackerInit, TrackerTypeOK, Track
<1> QED BY <1>1, <1>2, FS_EmptySet DEF TrackerInit, TrackerInv

\* Close returns only when the wait group counts nobody.
LEMMA CloseIsLast ==
  ASSUME TrackerInv, [TrackerNext]_trackerVars, NEW c \in Closers,
         closer[c] = "waiting", closer'[c] = "returned"
  PROVE  \A t \in Tracks : track[t].pc \notin Working
<1>1. closer \in [Closers -> {"no", "waiting", "returned"}]
  BY DEF TrackerInv, TrackerTypeOK
<1>2. ASSUME NEW t \in Tracks,
             Subscribed(t) \/ AddWriter(t) \/ Write(t) \/ TrackEnds(t) \/ Report(t)
      PROVE  closer' = closer
  BY <1>2 DEF Subscribed, AddWriter, Write, TrackEnds, Report, CreateFile, Announce, Announced,
         Upload, Finish, Finished, At
<1>3. ASSUME NEW d \in Closers, Close(d) PROVE closer[d] = "no" /\ \A b \in Closers : b # d => closer'[b] = closer[b]
  BY <1>1, <1>3 DEF Close
<1>4. ASSUME NEW d \in Closers, CloseReturns(d) PROVE writers = 0
  BY <1>4 DEF CloseReturns
<1>5. writers = 0
  BY <1>2, <1>3, <1>4 DEF TrackerNext, trackerVars
<1>6. CountedTracks = {}
  BY <1>5, CountedTracksFinite, FS_EmptySet DEF TrackerInv
<1> QED BY <1>6 DEF CountedTracks
-------------------------------------------------------------------------------
(* The processes *)

Busy == {"working", "emitting", "deleting", "retrying"}

\* What main still has to do, as a set.
Todo == {process.todo[i] : i \in DOMAIN process.todo}

\* Main is past the wait for the workers, or for the runtime, only when they are done.
Awaited ==
  /\ ~Starts("consumer") \/ "consumer" \notin Todo => \A w \in Workers : worker[w].pc = "returned"
  /\ service = "tracker" /\ "runtime" \notin Todo => closed \/ process.starts > 1
  /\ process.status = "exited" => Todo = {}

\* A worker holds a job, reserved for it alone, while it works on it.
JobsAreHeld ==
  /\ \A w \in Workers : worker[w].pc \in Busy => worker[w].job \in Jobs
  /\ Running => \A w \in Workers : worker[w].pc \in Busy => job[worker[w].job].state = "reserved"
  /\ \A w, v \in Workers :
        w # v /\ worker[w].pc \in Busy /\ worker[v].pc \in Busy => worker[w].job # worker[v].job

\* What a handler has done so far.
JobsAreDone ==
  \A w \in Workers :
    /\ worker[w].pc \in {"emitting", "deleting"} => job[worker[w].job].done
    /\ worker[w].pc = "deleting" /\ worker[w].job \in Emitting => job[worker[w].job].emitted

\* A job is deleted only after its effect, and after the job that follows from it was
\* put (Handler.ServeJob, jobDelete).
DeletedIsDone ==
  \A j \in Jobs : job[j].state = "deleted" => job[j].done /\ (j \in Emitting => job[j].emitted)

\* A process that exits has cut off no worker and no tracker.
ExitIsOrderly == process.status = "exited" => Orderly

ProcessInv == ProcessTypeOK /\ Awaited /\ JobsAreHeld /\ JobsAreDone /\ DeletedIsDone

StepNames == {"web", "rpc", "producer", "consumer", "runtime", "listening"}
Process == [status : {"running", "exited", "failed"}, starts : 1..MaxStarts,
            interrupted : BOOLEAN, todo : Seq(StepNames)]
Worker == [pc : {"asking", "working", "emitting", "deleting", "retrying", "returned"},
           job : Jobs \cup {NoJob}]
Job == [state : {"ready", "reserved", "deleted", "buried"}, attempts : 0..MaxAttempts,
        done : BOOLEAN, emitted : BOOLEAN]

LEMMA ProcessTypes ==
  ProcessTypeOK <=> /\ service \in Services /\ process \in Process /\ producing \in BOOLEAN
                    /\ worker \in [Workers -> Worker] /\ job \in [Jobs -> Job]
                    /\ late \subseteq Tracks /\ runtime \in {"sound", "overcounted", "stuck"}
BY DEF ProcessTypeOK, StepNames, Process, Worker, Job

\* What stays of a sequence of steps when the first is taken.
LEMMA TailOf ==
  ASSUME NEW s \in Seq(StepNames), s # <<>>
  PROVE  /\ Tail(s) \in Seq(StepNames)
         /\ \A n : n # Head(s) /\ (\E i \in DOMAIN s : s[i] = n) =>
                   \E i \in DOMAIN Tail(s) : Tail(s)[i] = n
<1> DEFINE t == Tail(s)
<1>1. /\ t \in Seq(StepNames) /\ DOMAIN s = 1..Len(s) /\ DOMAIN t = 1..(Len(s) - 1)
      /\ Len(s) \in Nat /\ Head(s) = s[1] /\ \A i \in 1..(Len(s) - 1) : t[i] = s[i + 1]
  OBVIOUS
<1> HIDE DEF t
<1>2. ASSUME NEW n, n # Head(s), NEW i \in DOMAIN s, s[i] = n
      PROVE  \E k \in DOMAIN t : t[k] = n
  <2>1. i # 1 /\ i \in 1..Len(s)
    BY <1>1, <1>2
  <2>2. i - 1 \in 1..(Len(s) - 1) /\ (i - 1) + 1 = i
    BY <1>1, <2>1
  <2>3. t[i - 1] = n
    BY <1>1, <1>2, <2>2
  <2> QED BY <1>1, <2>2, <2>3
<1> QED BY <1>1, <1>2 DEF t

\* Every main that starts a consumer or a runtime waits for it.
LEMMA Mains ==
  ASSUME NEW s \in Services
  PROVE  /\ Main[s].stops \in Seq(StepNames)
         /\ "consumer" \in Main[s].starts =>
               \E i \in DOMAIN Main[s].stops : Main[s].stops[i] = "consumer"
         /\ s = "tracker" => \E i \in DOMAIN Main[s].stops : Main[s].stops[i] = "runtime"
<1>1. s \in {"rtc", "confa", "iam", "tracker", "avp", "sender", "gateway"}
  BY ProcessAssumption
<1>2. CASE s = "rtc"
  <2>1. Main[s].stops = <<"web", "rpc", "producer", "consumer">>
    BY <1>2 DEF Main, RtcMain
  <2>2. 4 \in DOMAIN Main[s].stops /\ Main[s].stops[4] = "consumer"
    BY <2>1
  <2> QED BY <1>2, <2>1, <2>2 DEF StepNames
<1>3. CASE s = "confa"
  <2>1. Main[s].stops = <<"web", "producer", "consumer">>
    BY <1>3 DEF Main, ConfaMain
  <2>2. 3 \in DOMAIN Main[s].stops /\ Main[s].stops[3] = "consumer"
    BY <2>1
  <2> QED BY <1>3, <2>1, <2>2 DEF StepNames
<1>4. CASE s = "iam"
  <2>1. Main[s].stops = <<"web", "rpc", "producer">> /\ Main[s].starts = {"web", "rpc"}
    BY <1>4 DEF Main, IamMain
  <2> QED BY <1>4, <2>1 DEF StepNames
<1>5. CASE s = "tracker"
  <2>1. /\ Main[s].stops = <<"rpc", "producer", "runtime">>
        /\ Main[s].starts = {"rpc", "runtime"}
    BY <1>5 DEF Main, TrackerMain
  <2>2. 3 \in DOMAIN Main[s].stops /\ Main[s].stops[3] = "runtime"
    BY <2>1
  <2> QED BY <1>5, <2>1, <2>2 DEF StepNames
<1>6. CASE s = "avp"
  <2>1. Main[s].stops = <<"consumer", "producer">>
    BY <1>6 DEF Main, AvpMain
  <2>2. 1 \in DOMAIN Main[s].stops /\ Main[s].stops[1] = "consumer"
    BY <2>1
  <2> QED BY <1>6, <2>1, <2>2 DEF StepNames
<1>7. CASE s = "sender"
  <2>1. Main[s].stops = <<"consumer">>
    BY <1>7 DEF Main, SenderMain
  <2>2. 1 \in DOMAIN Main[s].stops /\ Main[s].stops[1] = "consumer"
    BY <2>1
  <2> QED BY <1>7, <2>1, <2>2 DEF StepNames
<1>8. CASE s = "gateway"
  <2>1. Main[s].stops = <<"listening", "web">> /\ Main[s].starts = {"web"}
    BY <1>8 DEF Main, GatewayMain
  <2> QED BY <1>8, <2>1 DEF StepNames
<1> QED BY <1>1, <1>2, <1>3, <1>4, <1>5, <1>6, <1>7, <1>8

\* The workers right after a start.
LEMMA FreshWorkers ==
  ASSUME NEW s \in Services
  PROVE  /\ Fresh(s) \in [Workers -> Worker]
         /\ \A w \in Workers : /\ Fresh(s)[w].pc \notin Busy
                               /\ "consumer" \notin Main[s].starts => Fresh(s)[w].pc = "returned"
BY DEF Fresh, Worker, Busy

\* A step that changes neither the jobs nor the workers keeps what is said of them.
LEMMA JobsStay ==
  ASSUME JobsAreHeld, JobsAreDone, DeletedIsDone, UNCHANGED <<worker, job>>,
         process'.status = "running" => Running
  PROVE  JobsAreHeld' /\ JobsAreDone' /\ DeletedIsDone'
BY DEF JobsAreHeld, JobsAreDone, DeletedIsDone, Running

\* Main is interrupted, or takes its next step.
LEMMA MainStep ==
  ASSUME ProcessInv,
         Interrupt \/ StopServer \/ StopProducer \/ AwaitConsumer \/ AwaitRuntime
  PROVE  ProcessInv'
<1>0. /\ service \in Services /\ process \in Process /\ producing \in BOOLEAN
      /\ worker \in [Workers -> Worker] /\ job \in [Jobs -> Job] /\ late \subseteq Tracks
      /\ runtime \in {"sound", "overcounted", "stuck"}
      /\ Awaited /\ JobsAreHeld /\ JobsAreDone /\ DeletedIsDone
  BY ProcessTypes DEF ProcessInv
<1>1. UNCHANGED <<trackerVars, service, worker, job, runtime>>
  BY DEF Interrupt, StopServer, StopProducer, AwaitConsumer, AwaitRuntime, Steps
<1>2. producing' \in BOOLEAN /\ late' \subseteq Tracks
  BY <1>0 DEF Interrupt, StopServer, StopProducer, AwaitConsumer, AwaitRuntime, Steps
<1>3. closed' = closed
  BY <1>1 DEF trackerVars
<1>4. CASE Interrupt
  <2>1. process' = [process EXCEPT !.interrupted = TRUE]
    BY <1>4 DEF Interrupt
  <2>2. /\ process' \in Process /\ process'.status = process.status
        /\ process'.todo = process.todo /\ process'.starts = process.starts
    BY <1>0, <2>1 DEF Process
  <2>3. Awaited'
    BY <1>0, <1>1, <1>3, <2>2 DEF Awaited, Todo, Starts
  <2>4. JobsAreHeld' /\ JobsAreDone' /\ DeletedIsDone'
    BY <1>0, <1>1, <2>2, JobsStay DEF Running
  <2>5. ProcessTypeOK'
    BY <1>0, <1>1, <1>2, <2>2 DEF ProcessTypeOK, StepNames, Process, Worker, Job
  <2> QED BY <2>3, <2>4, <2>5 DEF ProcessInv
<1>5. ASSUME NEW n, Steps(n),
             n = "consumer" => \A w \in Workers : worker[w].pc = "returned",
             n = "runtime" => closed \/ process.starts > 1
      PROVE  ProcessInv'
  <2>1. /\ Running /\ process.todo # <<>> /\ Head(process.todo) = n
        /\ process' = [process EXCEPT !.todo = Tail(process.todo)]
    BY <1>5 DEF Steps
  <2>2. process.todo \in Seq(StepNames)
    BY <1>0 DEF Process
  <2>3. /\ Tail(process.todo) \in Seq(StepNames)
        /\ \A m : m # n /\ (\E i \in DOMAIN process.todo : process.todo[i] = m) =>
                  \E i \in DOMAIN Tail(process.todo) : Tail(process.todo)[i] = m
    BY <2>1, <2>2, TailOf
  <2>4. /\ process' \in Process /\ process'.status = process.status
        /\ process'.todo = Tail(process.todo) /\ process'.starts = process.starts
    BY <1>0, <2>1, <2>3 DEF Process
  <2>5. \A m : m # n /\ m \in Todo => m \in Todo'
    BY <2>3, <2>4 DEF Todo
  <2>6. process'.status # "exited"
    BY <2>1, <2>4 DEF Running
  <2>7. Awaited'
    BY <1>0, <1>1, <1>3, <1>5, <2>4, <2>5, <2>6 DEF Awaited, Starts
  <2>8. JobsAreHeld' /\ JobsAreDone' /\ DeletedIsDone'
    BY <1>0, <1>1, <2>4, JobsStay DEF Running
  <2>9. ProcessTypeOK'
    BY <1>0, <1>1, <1>2, <2>4 DEF ProcessTypeOK, StepNames, Process, Worker, Job
  <2> QED BY <2>7, <2>8, <2>9 DEF ProcessInv
<1> QED BY <1>4, <1>5 DEF StopServer, StopProducer, AwaitConsumer, AwaitRuntime

\* The process ends: the queue takes back what its connection had reserved.
LEMMA EndStep ==
  ASSUME ProcessInv, Exit \/ Crash \/ WatcherFails
  PROVE  ProcessInv'
<1>0. /\ service \in Services /\ process \in Process /\ producing \in BOOLEAN
      /\ worker \in [Workers -> Worker] /\ job \in [Jobs -> Job] /\ late \subseteq Tracks
      /\ runtime \in {"sound", "overcounted", "stuck"}
      /\ Awaited /\ JobsAreHeld /\ JobsAreDone /\ DeletedIsDone
  BY ProcessTypes DEF ProcessInv
<1>1. PICK x \in {"exited", "failed"} : Ends(x) /\ (x = "exited" => process.todo = <<>>)
  BY DEF Exit, Crash, WatcherFails
<1>2. /\ UNCHANGED <<trackerVars, service, producing, worker, late, runtime>> /\ job' = Released
      /\ process' = [process EXCEPT !.status = x]
  BY <1>1 DEF Ends
<1>3. /\ process' \in Process /\ process'.status = x
      /\ process'.todo = process.todo /\ process'.starts = process.starts
  BY <1>0, <1>2 DEF Process
<1>4. /\ job' \in [Jobs -> Job]
      /\ \A j \in Jobs : /\ job'[j].done = job[j].done /\ job'[j].emitted = job[j].emitted
                         /\ job'[j].state = "deleted" => job[j].state = "deleted"
  <2>1. ASSUME NEW j \in Jobs
        PROVE  /\ Released[j] \in Job
               /\ Released[j].done = job[j].done /\ Released[j].emitted = job[j].emitted
               /\ Released[j].state = "deleted" => job[j].state = "deleted"
    <3>1. job[j] \in Job
      BY <1>0
    <3>2. Released[j] = job[j] \/ Released[j] = [job[j] EXCEPT !.state = "ready"]
      BY DEF Released
    <3> QED BY <3>1, <3>2 DEF Job
  <2>2. Released \in [Jobs -> Job]
    BY <2>1 DEF Released
  <2> QED BY <1>2, <2>1, <2>2
<1>5. closed' = closed
  BY <1>2 DEF trackerVars
<1>6. Awaited'
  <2>1. x = "exited" => Todo' = {}
    BY <1>1, <1>3 DEF Todo
  <2> QED BY <1>0, <1>2, <1>3, <1>5, <2>1 DEF Awaited, Todo, Starts
<1>7. JobsAreHeld'
  BY <1>0, <1>2, <1>3 DEF JobsAreHeld, Running
<1>8. JobsAreDone' /\ DeletedIsDone'
  <2>1. \A w \in Workers : worker[w].pc \in {"emitting", "deleting"} => worker[w].job \in Jobs
    BY <1>0 DEF JobsAreHeld, Busy
  <2> QED BY <1>0, <1>2, <1>4, <2>1 DEF JobsAreDone, DeletedIsDone
<1>9. ProcessTypeOK'
  BY <1>0, <1>2, <1>3, <1>4 DEF ProcessTypeOK, StepNames, Process, Worker, Job
<1> QED BY <1>6, <1>7, <1>8, <1>9 DEF ProcessInv

LEMMA RestartStep ==
  ASSUME ProcessInv, Restart
  PROVE  ProcessInv'
<1>0. /\ service \in Services /\ process \in Process /\ producing \in BOOLEAN
      /\ worker \in [Workers -> Worker] /\ job \in [Jobs -> Job] /\ late \subseteq Tracks
      /\ runtime \in {"sound", "overcounted", "stuck"}
      /\ Awaited /\ JobsAreHeld /\ JobsAreDone /\ DeletedIsDone
  BY ProcessTypes DEF ProcessInv
<1>1. /\ process.starts < MaxStarts /\ producing' = TRUE /\ worker' = Fresh(service)
      /\ process' = [status |-> "running", starts |-> process.starts + 1,
                     interrupted |-> FALSE, todo |-> Main[service].stops]
      /\ UNCHANGED <<trackerVars, service, job, late>> /\ runtime' = "sound"
  BY DEF Restart
<1>2. process.starts \in 1..MaxStarts /\ MaxStarts \in Nat
  BY <1>0, ProcessAssumption DEF Process
<1>3. process.starts + 1 \in 1..MaxStarts /\ process.starts + 1 > 1
  BY <1>1, <1>2
<1>4. process' \in Process
  BY <1>0, <1>1, <1>3, Mains DEF Process
<1>5. /\ "consumer" \in Main[service].starts => "consumer" \in Todo'
      /\ process'.starts > 1 /\ process'.status = "running"
  BY <1>0, <1>1, <1>3, Mains DEF Todo
<1>6. Awaited'
  BY <1>0, <1>1, <1>5, FreshWorkers DEF Awaited, Starts
<1>7. \A w \in Workers : worker'[w].pc \notin Busy
  BY <1>0, <1>1, FreshWorkers
<1>8. JobsAreHeld' /\ JobsAreDone' /\ DeletedIsDone'
  BY <1>0, <1>1, <1>7 DEF JobsAreHeld, JobsAreDone, DeletedIsDone, Busy
<1>9. ProcessTypeOK'
  BY <1>0, <1>1, <1>4, FreshWorkers DEF ProcessTypeOK, StepNames, Process, Worker, Job
<1> QED BY <1>6, <1>8, <1>9 DEF ProcessInv

\* The runtime of the tracker process is spoilt.
LEMMA RuntimeStep ==
  ASSUME ProcessInv, StartOvercounts \/ StopLeaks
  PROVE  ProcessInv'
<1>1. /\ UNCHANGED <<trackerVars, service, process, producing, worker, job, late>>
      /\ runtime' \in {"sound", "overcounted", "stuck"}
  BY DEF StartOvercounts, StopLeaks, RuntimeBecomes
<1>2. Awaited'
  BY <1>1 DEF ProcessInv, Awaited, Todo, Starts, trackerVars
<1>3. JobsAreHeld' /\ JobsAreDone' /\ DeletedIsDone'
  BY <1>1, JobsStay DEF ProcessInv, Running
<1>4. ProcessTypeOK'
  BY <1>1 DEF ProcessInv, ProcessTypeOK
<1> QED BY <1>2, <1>3, <1>4 DEF ProcessInv

\* Worker w moves to x and job j to y, which it holds, takes or settles.
Moves(w, x, j, y) ==
  /\ Running /\ UNCHANGED <<trackerVars, service, process, producing, late, runtime>>
  /\ worker' = [worker EXCEPT ![w] = x] /\ job' = [job EXCEPT ![j] = y]
  /\ worker[w].pc # "returned" /\ (job[j].done => y.done) /\ (job[j].emitted => y.emitted)
  /\ worker[w].pc \in Busy => worker[w].job = j
  /\ \A v \in Workers : v # w /\ worker[v].pc \in Busy => worker[v].job # j
  /\ x.pc \in Busy => x.job = j /\ y.state = "reserved"
  /\ x.pc \in {"emitting", "deleting"} => y.done
  /\ x.pc = "deleting" /\ j \in Emitting => y.emitted
  /\ y.state = "deleted" => y.done /\ (j \in Emitting => y.emitted)

\* A worker that moves so keeps the invariant.
LEMMA WorkerMoves ==
  ASSUME ProcessInv, NEW w \in Workers, NEW x \in Worker, NEW j \in Jobs, NEW y \in Job,
         Moves(w, x, j, y)
  PROVE  ProcessInv'
<1> USE DEF Moves
<1>0. /\ service \in Services /\ process \in Process /\ producing \in BOOLEAN
      /\ worker \in [Workers -> Worker] /\ job \in [Jobs -> Job] /\ late \subseteq Tracks
      /\ runtime \in {"sound", "overcounted", "stuck"}
      /\ Awaited /\ JobsAreHeld /\ JobsAreDone /\ DeletedIsDone
  BY ProcessTypes DEF ProcessInv
<1>1. /\ worker' \in [Workers -> Worker] /\ worker'[w] = x
      /\ \A v \in Workers : v # w => worker'[v] = worker[v]
  BY <1>0
<1>2. /\ job' \in [Jobs -> Job] /\ job'[j] = y /\ \A i \in Jobs : i # j => job'[i] = job[i]
  BY <1>0
<1>3. Awaited'
  <2>1. ~(~Starts("consumer") \/ "consumer" \notin Todo)
    BY <1>0 DEF Awaited
  <2> QED BY <1>0, <2>1 DEF Awaited, Todo, Starts, trackerVars
<1>4. \A v \in Workers : v # w /\ worker[v].pc \in Busy =>
                          worker[v].job \in Jobs /\ job'[worker[v].job] = job[worker[v].job]
  BY <1>0, <1>2 DEF JobsAreHeld
<1>5. JobsAreHeld'
  <2>1. \A v \in Workers : worker'[v].pc \in Busy =>
                            worker'[v].job \in Jobs /\ job'[worker'[v].job].state = "reserved"
    BY <1>0, <1>1, <1>2, <1>4 DEF JobsAreHeld
  <2>2. ASSUME NEW u \in Workers, NEW v \in Workers, u # v, worker'[u].pc \in Busy,
               worker'[v].pc \in Busy
        PROVE  worker'[u].job # worker'[v].job
    <3>1. CASE u # w /\ v # w
      BY <1>0, <1>1, <2>2, <3>1 DEF JobsAreHeld
    <3>2. CASE u = w
      BY <1>1, <2>2, <3>2
    <3>3. CASE v = w
      BY <1>1, <2>2, <3>3
    <3> QED BY <3>1, <3>2, <3>3
  <2> QED BY <2>1, <2>2 DEF JobsAreHeld
<1>6. JobsAreDone'
  <2>1. ASSUME NEW v \in Workers
        PROVE  /\ worker'[v].pc \in {"emitting", "deleting"} => job'[worker'[v].job].done
               /\ worker'[v].pc = "deleting" /\ worker'[v].job \in Emitting =>
                     job'[worker'[v].job].emitted
    <3>1. CASE v = w
      BY <1>1, <1>2, <3>1 DEF Busy
    <3>2. CASE v # w
      BY <1>0, <1>1, <1>4, <3>2 DEF JobsAreDone, Busy
    <3> QED BY <3>1, <3>2
  <2> QED BY <2>1 DEF JobsAreDone
<1>7. DeletedIsDone'
  BY <1>0, <1>2 DEF DeletedIsDone
<1>8. ProcessTypeOK'
  BY <1>0, <1>1, <1>2 DEF ProcessTypeOK, StepNames, Process, Worker, Job
<1> QED BY <1>3, <1>5, <1>6, <1>7, <1>8 DEF ProcessInv

\* The consumer's workers keep the invariant.
LEMMA WorkerStep ==
  ASSUME ProcessInv, NEW w \in Workers,
         \/ \E j \in Jobs : Take(w, j)
         \/ WorkerReturns(w) \/ Work(w) \/ Emit(w) \/ Delete(w) \/ Retry(w)
  PROVE  ProcessInv'
<1>0. /\ worker \in [Workers -> Worker] /\ job \in [Jobs -> Job]
      /\ service \in Services /\ process \in Process /\ producing \in BOOLEAN
      /\ late \subseteq Tracks /\ runtime \in {"sound", "overcounted", "stuck"}
      /\ Awaited /\ JobsAreHeld /\ JobsAreDone /\ DeletedIsDone /\ MaxAttempts \in Nat
  BY ProcessTypes, ProcessAssumption DEF ProcessInv
<1>1. Running /\ UNCHANGED <<trackerVars, service, process, producing, late, runtime>>
  BY DEF Take, WorkerReturns, Work, Emit, Delete, Retry, WorkerAt
<1>2. ASSUME NEW j \in Jobs, Take(w, j) PROVE ProcessInv'
  <2> DEFINE x == [pc |-> "working", job |-> j]
             n == IF job[j].attempts < MaxAttempts THEN job[j].attempts + 1 ELSE job[j].attempts
             y == [job[j] EXCEPT !.state = "reserved", !.attempts = n]
  <2>1. /\ worker[w].pc = "asking" /\ job[j].state = "ready"
        /\ worker' = [worker EXCEPT ![w] = x]
    BY <1>2 DEF Take, WorkerAt
  <2>2. job[j] \in Job /\ job[j].attempts \in 0..MaxAttempts
    BY <1>0 DEF Job
  <2>3. n \in 0..MaxAttempts
    BY <1>0, <2>2
  <2>4. job' = [job EXCEPT ![j] = y]
    BY <1>0, <1>2 DEF Take
  <2> HIDE DEF n
  <2>5. y \in Job /\ y.state = "reserved" /\ y.done = job[j].done /\ y.emitted = job[j].emitted
    BY <2>2, <2>3 DEF Job
  <2>6. x \in Worker /\ x.pc = "working" /\ x.job = j
    BY DEF Worker
  <2>7. \A v \in Workers : v # w /\ worker[v].pc \in Busy => worker[v].job # j
    BY <1>0, <1>1, <2>1 DEF JobsAreHeld
  <2> HIDE DEF x, y
  <2>8. worker[w].pc \notin Busy /\ worker[w].pc # "returned"
    BY <2>1 DEF Busy
  <2>9. Moves(w, x, j, y)
    BY <1>1, <2>1, <2>4, <2>5, <2>6, <2>7, <2>8 DEF Moves
  <2> QED BY <2>5, <2>6, <2>9, WorkerMoves
<1>3. CASE WorkerReturns(w)
  <2>1. /\ worker[w].pc = "asking" /\ worker' = [worker EXCEPT ![w].pc = "returned"]
        /\ job' = job
    BY <1>3 DEF WorkerReturns, WorkerAt, Goes
  <2>2. worker[w] \in Worker
    BY <1>0
  <2> DEFINE x == [worker[w] EXCEPT !.pc = "returned"]
  <2>3. x \in Worker /\ x.pc = "returned"
    BY <2>2 DEF Worker
  <2>4. worker' = [worker EXCEPT ![w] = x]
    BY <1>0, <2>1
  <2> HIDE DEF x
  <2>5. /\ worker' \in [Workers -> Worker] /\ worker'[w] = x
        /\ \A v \in Workers : v # w => worker'[v] = worker[v]
    BY <1>0, <2>3, <2>4
  <2>6. \A v \in Workers : \/ worker'[v] = worker[v]
                           \/ worker'[v].pc = "returned"
    BY <2>3, <2>5
  <2>7. Awaited'
    BY <1>0, <1>1, <2>6 DEF Awaited, Todo, Starts, trackerVars
  <2>8. JobsAreHeld' /\ JobsAreDone' /\ DeletedIsDone'
    BY <1>0, <1>1, <2>1, <2>6 DEF JobsAreHeld, JobsAreDone, DeletedIsDone, Busy, Running
  <2>9. ProcessTypeOK'
    BY <1>0, <1>1, <2>1, <2>5 DEF ProcessTypeOK, StepNames, Process, Worker, Job
  <2> QED BY <2>7, <2>8, <2>9 DEF ProcessInv
\* The steps of a worker that has a job.
<1>4. CASE Work(w) \/ Emit(w) \/ Delete(w) \/ Retry(w)
  <2> DEFINE j == worker[w].job
  <2>1. worker[w].pc \in Busy
    BY <1>4 DEF Work, Emit, Delete, Retry, WorkerAt, Busy
  <2>2. /\ worker[w] \in Worker /\ j \in Jobs /\ job[j] \in Job /\ job[j].state = "reserved"
        /\ \A v \in Workers : v # w /\ worker[v].pc \in Busy => worker[v].job # j
        /\ worker[w].pc # "returned"
        /\ worker[w].pc \in {"emitting", "deleting"} => job[j].done
        /\ worker[w].pc = "deleting" /\ j \in Emitting => job[j].emitted
    BY <1>0, <1>1, <2>1 DEF JobsAreHeld, JobsAreDone, Busy
  <2> HIDE DEF j
  <2>3. ASSUME NEW pc \in Busy, Goes(w, pc), NEW y \in Job, job' = [job EXCEPT ![j] = y],
               y.state = "reserved", job[j].done => y.done, job[j].emitted => y.emitted,
               pc \in {"emitting", "deleting"} => y.done,
               pc = "deleting" /\ j \in Emitting => y.emitted
        PROVE  ProcessInv'
    <3> DEFINE x == [worker[w] EXCEPT !.pc = pc]
    <3>1. x \in Worker /\ x.pc = pc /\ x.job = j
      BY <2>2, <2>3 DEF Worker, Busy, j
    <3>2. worker' = [worker EXCEPT ![w] = x]
      BY <1>0, <2>3 DEF Goes
    <3> HIDE DEF x
    <3>3. worker[w].pc \in Busy => worker[w].job = j
      BY DEF j
    <3>4. job' = [job EXCEPT ![j] = y] /\ j \in Jobs /\ y \in Job
      BY <2>2, <2>3
    <3>5. Moves(w, x, j, y)
      BY <1>1, <2>2, <2>3, <3>1, <3>2, <3>3, <3>4 DEF Moves
    <3> QED BY <3>1, <3>4, <3>5, WorkerMoves
  <2>4. ASSUME NEW pc \in Busy, Goes(w, pc), UNCHANGED job,
               pc \in {"emitting", "deleting"} => job[j].done,
               pc = "deleting" /\ j \in Emitting => job[j].emitted
        PROVE  ProcessInv'
    <3>1. job' = [job EXCEPT ![j] = job[j]]
      BY <1>0, <2>2, <2>4
    <3> QED BY <2>2, <2>3, <2>4, <3>1
  <2>5. ASSUME NEW state \in {"ready", "deleted", "buried"}, Settles(w, state),
               state = "deleted" => job[j].done /\ (j \in Emitting => job[j].emitted)
        PROVE  ProcessInv'
    <3> DEFINE x == [pc |-> "asking", job |-> NoJob]
               y == [job[j] EXCEPT !.state = state]
    <3>1. x \in Worker /\ x.pc \notin Busy /\ x.pc = "asking"
      BY DEF Worker, Busy
    <3>2. y \in Job /\ y.state = state /\ y.done = job[j].done /\ y.emitted = job[j].emitted
      BY <2>2 DEF Job
    <3>3. worker' = [worker EXCEPT ![w] = x] /\ job' = [job EXCEPT ![j] = y]
      BY <1>0, <2>2, <2>5 DEF Settles, j
    <3> HIDE DEF x, y
    <3>4. worker[w].pc \in Busy => worker[w].job = j
      BY DEF j
    <3>5. Moves(w, x, j, y)
      BY <1>1, <2>2, <2>5, <3>1, <3>2, <3>3, <3>4 DEF Moves, Busy
    <3> QED BY <2>2, <3>1, <3>2, <3>5, WorkerMoves
  <2>6. CASE Work(w)
    <3> DEFINE y == [job[j] EXCEPT !.done = TRUE]
    <3>1. y \in Job /\ y.state = "reserved" /\ y.done /\ y.emitted = job[j].emitted
      BY <2>2 DEF Job
    <3>2. CASE Goes(w, "retrying") /\ UNCHANGED job
      BY <2>4, <3>2 DEF Busy
    <3>3. CASE /\ job' = [job EXCEPT ![worker[w].job].done = TRUE]
               /\ Goes(w, IF worker[w].job \in Emitting THEN "emitting" ELSE "deleting")
      <4>1. job' = [job EXCEPT ![j] = y]
        BY <1>0, <2>2, <3>3 DEF j
      <4>2. \E pc \in {"emitting", "deleting"} : Goes(w, pc) /\ (pc = "deleting" => j \notin Emitting)
        BY <3>3 DEF j
      <4> HIDE DEF y
      <4> QED BY <2>3, <3>1, <4>1, <4>2 DEF Busy
    <3> QED BY <2>6, <3>2, <3>3 DEF Work
  <2>7. CASE Emit(w)
    <3> DEFINE y == [job[j] EXCEPT !.emitted = TRUE]
    <3>0. worker[w].pc = "emitting"
      BY <2>7 DEF Emit, WorkerAt
    <3>1. y \in Job /\ y.state = "reserved" /\ y.done = job[j].done /\ y.emitted
      BY <2>2 DEF Job
    <3>2. CASE Goes(w, "retrying") /\ UNCHANGED job
      BY <2>4, <3>2 DEF Busy
    <3>3. CASE /\ job' = [job EXCEPT ![worker[w].job].emitted = TRUE]
               /\ Goes(w, "deleting")
      <4>1. job' = [job EXCEPT ![j] = y]
        BY <1>0, <2>2, <3>3 DEF j
      <4>2. y.done
        BY <2>2, <3>0, <3>1
      <4> HIDE DEF y
      <4> QED BY <2>3, <3>1, <3>3, <4>1, <4>2 DEF Busy
    <3> QED BY <2>7, <3>2, <3>3 DEF Emit
  <2>8. CASE Delete(w)
    <3>1. worker[w].pc = "deleting" /\ Settles(w, "deleted")
      BY <2>8 DEF Delete, WorkerAt
    <3> QED BY <2>2, <2>5, <3>1
  <2>9. CASE Retry(w)
    BY <2>5, <2>9 DEF Retry
  <2> QED BY <1>4, <2>6, <2>7, <2>8, <2>9
<1> QED BY <1>2, <1>3, <1>4

\* What the process does besides is nothing to the tracker, but the tracker's own steps.
LEMMA ProcessRunsTracker == [ProcessNext]_allVars => [TrackerNext]_trackerVars
<1> SUFFICES ASSUME [ProcessNext]_allVars PROVE [TrackerNext]_trackerVars
  OBVIOUS
<1>1. CASE Records(TrackerNext)
  BY <1>1 DEF Records
<1>2. CASE Interrupt \/ StopServer \/ StopProducer \/ AwaitConsumer \/ AwaitRuntime \/ Exit
           \/ Crash \/ WatcherFails \/ Restart \/ StartOvercounts \/ StopLeaks
  BY <1>2 DEF Interrupt, StopServer, StopProducer, AwaitConsumer, AwaitRuntime, Steps, Exit,
     Crash, WatcherFails, Ends, Restart, StartOvercounts, StopLeaks, RuntimeBecomes
<1>3. ASSUME NEW w \in Workers,
             \/ \E j \in Jobs : Take(w, j)
             \/ WorkerReturns(w) \/ Work(w) \/ Emit(w) \/ Delete(w) \/ Retry(w)
      PROVE  UNCHANGED trackerVars
  BY <1>3 DEF Take, WorkerReturns, Work, Emit, Delete, Retry, WorkerAt
<1>4. CASE UNCHANGED allVars
  BY <1>4 DEF allVars
<1> QED BY <1>1, <1>2, <1>3, <1>4 DEF ProcessNext

\* The tracker never opens again.
LEMMA ClosedStays ==
  ASSUME [TrackerNext]_trackerVars, closed
  PROVE  closed'
BY DEF TrackerNext, trackerVars, Subscribed, AddWriter, Write, TrackEnds, Report, CreateFile,
       Announce, Announced, Upload, Finish, Finished, At, Close, CloseReturns

LEMMA ProcessStep == ProcessInv /\ [ProcessNext]_allVars => ProcessInv'
<1> SUFFICES ASSUME ProcessInv, [ProcessNext]_allVars PROVE ProcessInv'
  OBVIOUS
<1>1. CASE Records(TrackerNext) \/ UNCHANGED allVars
  <2>1. UNCHANGED <<service, process, producing, worker, job, late, runtime>> /\ (closed => closed')
    BY <1>1, ClosedStays DEF Records, allVars, ownVars, trackerVars
  <2>2. Awaited'
    BY <2>1 DEF ProcessInv, Awaited, Todo, Starts
  <2>3. JobsAreHeld' /\ JobsAreDone' /\ DeletedIsDone'
    BY <2>1 DEF ProcessInv, JobsAreHeld, JobsAreDone, DeletedIsDone, Running
  <2>4. ProcessTypeOK'
    BY <2>1 DEF ProcessInv, ProcessTypeOK
  <2> QED BY <2>2, <2>3, <2>4 DEF ProcessInv
<1> QED BY <1>1, MainStep, EndStep, RestartStep, RuntimeStep, WorkerStep DEF ProcessNext

LEMMA ProcessStart == ProcessInit => ProcessInv
<1> SUFFICES ASSUME ProcessInit PROVE ProcessInv
  OBVIOUS
<1>1. /\ service \in Services /\ producing = TRUE /\ worker = Fresh(service)
      /\ late = {} /\ runtime = "sound"
      /\ process = [status |-> "running", starts |-> 1, interrupted |-> FALSE,
                    todo |-> Main[service].stops]
      /\ job = [j \in Jobs |-> [state |-> "ready", attempts |-> 0, done |-> FALSE,
                                emitted |-> FALSE]]
  BY DEF ProcessInit
<1>2. process \in Process
  <2>1. 1 \in 1..MaxStarts
    BY ProcessAssumption
  <2> QED BY <1>1, <2>1, Mains DEF Process
<1>3. /\ "consumer" \in Main[service].starts => "consumer" \in Todo
      /\ service = "tracker" => "runtime" \in Todo
      /\ process.status = "running"
  BY <1>1, Mains DEF Todo
<1>4. Awaited
  BY <1>1, <1>3, FreshWorkers DEF Awaited, Starts
<1>5. \A w \in Workers : worker[w].pc \notin Busy
  BY <1>1, FreshWorkers
<1>6. JobsAreHeld /\ JobsAreDone /\ DeletedIsDone
  BY <1>1, <1>5 DEF JobsAreHeld, JobsAreDone, DeletedIsDone, Busy
<1>7. job \in [Jobs -> Job]
  BY <1>1, ProcessAssumption DEF Job
<1>8. ProcessTypeOK
  BY <1>1, <1>2, <1>7, FreshWorkers, ProcessTypes
<1> QED BY <1>4, <1>6, <1>8 DEF ProcessInv

\* Every variable of the record tracker keeps its type, and writers counts the running
\* goroutines of the tracks (NewTracker, writeTrack).
THEOREM TrackerTypes == TrackerSpec => [](TrackerTypeOK /\ writers = Cardinality(CountedTracks))
<1>1. TrackerInv => TrackerTypeOK /\ writers = Cardinality(CountedTracks)
  BY DEF TrackerInv
<1> QED BY <1>1, TrackerStart, TrackerStep, PTL DEF TrackerSpec

\* Close returns only when every track that was counted is written, in a tracker on its
\* own and whatever happens to the process it runs in (Tracker.Close).
THEOREM CloseWaits == (TrackerSpec \/ ProcessSpec) => CloseWaitsForCounted
<1>1. TrackerInv /\ [TrackerNext]_trackerVars =>
        [\A c \in Closers : closer[c] = "waiting" /\ closer'[c] = "returned" =>
           \A t \in Tracks : track[t].pc \notin Working]_trackerVars
  BY CloseIsLast
<1>2. TrackerSpec => CloseWaitsForCounted
  BY <1>1, TrackerStart, TrackerStep, PTL DEF TrackerSpec, CloseWaitsForCounted
<1>3. ProcessSpec => TrackerSpec
  <2>1. ProcessInit => TrackerInit
    BY DEF ProcessInit
  <2> QED BY <2>1, ProcessRunsTracker, PTL DEF ProcessSpec, TrackerSpec
<1> QED BY <1>2, <1>3

\* A process exits only when its workers have returned and its tracker is closed, however
\* often it failed and was started again: no main is past a wait too early (the steps
\* after the interrupt of every main.go).
THEOREM ExitsAreOrderly == ProcessSpec => []ExitIsOrderly
<1>1. ProcessInv => ExitIsOrderly
  BY DEF ProcessInv, Awaited, ExitIsOrderly, Orderly
<1> QED BY <1>1, ProcessStart, ProcessStep, PTL DEF ProcessSpec

\* A job that is gone from the queue had its effect, and put the job that follows from it,
\* with any number of workers, deliveries, crashes and restarts (Handler.ServeJob).
THEOREM DeletedJobsAreDone == ProcessSpec => []DeletedIsDone
<1>1. ProcessInv => DeletedIsDone
  BY DEF ProcessInv
<1> QED BY <1>1, ProcessStart, ProcessStep, PTL DEF ProcessSpec
===============================================================================
