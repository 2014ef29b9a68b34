--------------------------- MODULE RecordingProofs ---------------------------
(***************************************************************************)
(* Proofs about the way of a recording from its tracks to its books, for   *)
(* any number of tracks, workers and handlers.  TrackProcessing loses no   *)
(* track and keeps what TrackProgress promises; on that promise the books  *)
(* of RecordingBooks say only what is true, and what they announce can be  *)
(* watched.                                                                *)
(***************************************************************************)
EXTENDS RecordingBooks, TrackProcessing, TLAPS

-------------------------------------------------------------------------------
(* TrackProcessing loses no track *)

\* What the tracker has done for a track agrees with the storage and the queue, and only
\* what was queued is ever converted.
SourceAgrees ==
  \A t \in Tracks :
    /\ source[t] \in {"recording", "announced", "uploaded"} => process[t].state = "none"
    /\ source[t] = "uploaded" => object[t].raw = "stored"
    /\ source[t] = "reporting" => process[t].state # "none"
    /\ object[t].converted => process[t].state # "none"

\* A worker at work has a job, however often it was given to others since, and is past
\* the conversion only when the files are there.
WorkersAgree ==
  \A w \in Workers :
    /\ worker[w].pc # "idle" => /\ worker[w].track \in Tracks
                               /\ process[worker[w].track].state # "none"
    /\ worker[w].pc \in {"removing", "reporting", "deleting"} => object[worker[w].track].converted

ProcessingInv == ProcessingTypeOK /\ SourceAgrees /\ WorkersAgree /\ NoTrackIsLost

\* A put and a delivery keep the type of the queue.
LEMMA UpdatesTyped ==
  ASSUME updates \in [Kinds -> [Tracks -> 0..MaxCopies]], NEW k \in Kinds, NEW t \in Tracks,
         \/ updates' = [updates EXCEPT ![k][t] = Added(@)]
         \/ updates' = [updates EXCEPT ![k][t] = Less(@)]
  PROVE  updates' \in [Kinds -> [Tracks -> 0..MaxCopies]]
<1> USE UpdatesAssumption
<1>1. Added(updates[k][t]) \in 0..MaxCopies /\ Less(updates[k][t]) \in 0..MaxCopies
  BY DEF Added, Less
<1> QED BY <1>1

Objects == [raw : {"none", "stored", "removed"}, converted : BOOLEAN]

Jobs == [state : {"none", "queued", "deleted", "buried"},
         holder : Workers \cup {Free}, attempts : 0..MaxAttempts]

\* What the steps do with one field of an object, a job or a worker.
LEMMA ObjectChanges ==
  ASSUME ProcessingTypeOK, NEW t \in Tracks, NEW raw \in {"stored", "removed"},
         \/ object' = [object EXCEPT ![t].raw = raw]
         \/ object' = [object EXCEPT ![t].converted = TRUE] /\ raw = object[t].raw
  PROVE  /\ object' \in [Tracks -> Objects]
         /\ object'[t].raw = raw
         /\ object[t].converted => object'[t].converted
         /\ \A u \in Tracks : u # t => object'[u] = object[u]
<1>1. object \in [Tracks -> Objects] /\ object[t] \in Objects
  BY DEF ProcessingTypeOK, Objects
<1>2. CASE object' = [object EXCEPT ![t].raw = raw]
  <2>1. [object[t] EXCEPT !.raw = raw] \in Objects
    BY <1>1 DEF Objects
  <2> QED BY <1>1, <1>2, <2>1 DEF Objects
<1>3. CASE object' = [object EXCEPT ![t].converted = TRUE] /\ raw = object[t].raw
  <2>1. [object[t] EXCEPT !.converted = TRUE] \in Objects
    BY <1>1 DEF Objects
  <2> QED BY <1>1, <1>3, <2>1 DEF Objects
<1> QED BY <1>2, <1>3

LEMMA StateChanges ==
  ASSUME ProcessingTypeOK, NEW t \in Tracks, NEW state \in {"queued", "deleted", "buried"},
         NEW holder \in Workers \cup {Free}, NEW n \in 0..MaxAttempts,
         process' = [process EXCEPT ![t] = [state |-> state, holder |-> holder, attempts |-> n]]
  PROVE  /\ process' \in [Tracks -> Jobs]
         /\ process'[t].state = state
         /\ \A u \in Tracks : u # t => process'[u] = process[u]
BY DEF ProcessingTypeOK, Jobs

\* A step that changes neither the tracker's progress nor what the storage and the jobs
\* say of a track only has to leave the worker where it may be.
LEMMA QuietStep ==
  ASSUME ProcessingInv, ProcessingTypeOK', UNCHANGED <<source, object>>,
         \A t \in Tracks : process[t].state # "none" <=> process'[t].state # "none",
         \A w \in Workers :
           \/ worker'[w] = worker[w]
           \/ worker'[w].pc = "idle"
           \/ /\ worker'[w].track \in Tracks /\ process[worker'[w].track].state # "none"
              /\ worker'[w].pc \in {"removing", "reporting", "deleting"} =>
                   object[worker'[w].track].converted
  PROVE  ProcessingInv'
<1>1. SourceAgrees' /\ NoTrackIsLost'
  BY DEF ProcessingInv, ProcessingTypeOK, SourceAgrees, NoTrackIsLost
<1>2. WorkersAgree'
  BY DEF ProcessingInv, ProcessingTypeOK, WorkersAgree
<1> QED BY <1>1, <1>2 DEF ProcessingInv

\* Steps of the tracker.
LEMMA TrackerKeepsInv ==
  ASSUME ProcessingInv, NEW t \in Tracks,
         Announce(t) \/ Upload(t) \/ Finish(t) \/ Finished(t)
  PROVE  ProcessingInv'
<1>1. CASE Announce(t)
  <2>1. ProcessingTypeOK'
    BY <1>1, UpdatesTyped DEF Announce, Advances, Put, ProcessingInv, ProcessingTypeOK, Kinds
  <2>2. SourceAgrees' /\ WorkersAgree' /\ NoTrackIsLost'
    BY <1>1 DEF Announce, Advances, ProcessingInv, ProcessingTypeOK, SourceAgrees, WorkersAgree, NoTrackIsLost
  <2> QED BY <2>1, <2>2 DEF ProcessingInv
<1>2. CASE Upload(t)
  <2>1. CASE UNCHANGED object /\ (Advances(t, "recording", "done") \/ Advances(t, "announced", "done"))
    <3>1. UNCHANGED <<object, updates, process, worker>> /\ source' = [source EXCEPT ![t] = "done"]
      BY <1>2, <2>1 DEF Upload, Advances
    <3> QED BY <3>1 DEF ProcessingInv, ProcessingTypeOK, SourceAgrees, WorkersAgree, NoTrackIsLost
  <2>2. CASE object' = [object EXCEPT ![t].raw = "stored"] /\ Advances(t, "announced", "uploaded")
    <3>1. /\ ProcessingTypeOK'
          /\ object'[t].raw = "stored" /\ (object[t].converted => object'[t].converted)
          /\ \A u \in Tracks : u # t => object'[u] = object[u]
      BY <1>2, <2>2, ObjectChanges
         DEF Upload, Advances, ProcessingInv, ProcessingTypeOK, Objects
    <3>2. SourceAgrees' /\ WorkersAgree' /\ NoTrackIsLost'
      BY <1>2, <2>2, <3>1 DEF Upload, Advances, ProcessingInv, ProcessingTypeOK, SourceAgrees,
                              WorkersAgree, NoTrackIsLost
    <3> QED BY <3>1, <3>2 DEF ProcessingInv
  <2> QED BY <1>2, <2>1, <2>2 DEF Upload
<1>3. CASE Finish(t)
  <2>1. CASE UNCHANGED process /\ Advances(t, "uploaded", "done")
    BY <1>3, <2>1 DEF Finish, Advances, ProcessingInv, ProcessingTypeOK, SourceAgrees,
                      WorkersAgree, NoTrackIsLost
  <2>2. CASE process' = [process EXCEPT ![t].state = "queued"] /\ Advances(t, "uploaded", "reporting")
    <3>1. /\ process[t].holder \in Workers \cup {Free} /\ process[t].attempts \in 0..MaxAttempts
          /\ [process[t] EXCEPT !.state = "queued"] =
               [state |-> "queued", holder |-> process[t].holder, attempts |-> process[t].attempts]
      BY DEF ProcessingInv, ProcessingTypeOK
    <3>2. process' = [process EXCEPT ![t] = [state |-> "queued", holder |-> process[t].holder,
                                             attempts |-> process[t].attempts]]
      BY <2>2, <3>1
    <3>3. ProcessingTypeOK' /\ process'[t].state = "queued"
          /\ \A u \in Tracks : u # t => process'[u] = process[u]
      BY <1>3, <2>2, <3>1, <3>2, StateChanges
         DEF Finish, Advances, ProcessingInv, ProcessingTypeOK, Jobs
    <3>4. SourceAgrees' /\ WorkersAgree' /\ NoTrackIsLost'
      BY <1>3, <2>2, <3>3 DEF Finish, Advances, ProcessingInv, ProcessingTypeOK, SourceAgrees,
                              WorkersAgree, NoTrackIsLost
    <3> QED BY <3>3, <3>4 DEF ProcessingInv
  <2> QED BY <1>3, <2>1, <2>2 DEF Finish
<1>4. CASE Finished(t)
  <2>1. ProcessingTypeOK'
    BY <1>4, UpdatesTyped DEF Finished, Advances, Put, ProcessingInv, ProcessingTypeOK, Kinds
  <2>2. SourceAgrees' /\ WorkersAgree' /\ NoTrackIsLost'
    BY <1>4 DEF Finished, Advances, ProcessingInv, ProcessingTypeOK, SourceAgrees, WorkersAgree, NoTrackIsLost
  <2> QED BY <2>1, <2>2 DEF ProcessingInv
<1> QED BY <1>1, <1>2, <1>3, <1>4

\* A job is settled or stays; it is never taken back.
LEMMA SettlesJob ==
  ASSUME ProcessingTypeOK, NEW t \in Tracks, NEW w \in Workers, NEW by,
         NEW state \in {"queued", "deleted", "buried"}, Settles(w, t, by, state)
  PROVE  \E j \in Jobs : /\ process' = [process EXCEPT ![t] = j]
                         /\ j.state = "none" <=> process[t].state = "none"
<1> DEFINE settled == [process[t] EXCEPT !.state = state, !.holder = Free]
<1>1. process[t] \in Jobs /\ process \in [Tracks -> Jobs]
  BY DEF ProcessingTypeOK, Jobs
<1>2. settled \in Jobs /\ settled.state = state
  BY <1>1 DEF Jobs
<1>3. CASE process[t].state = "queued" /\ process[t].holder \in by
  <2>1. process' = [process EXCEPT ![t] = settled]
    BY <1>3 DEF Settles
  <2> HIDE DEF settled
  <2> QED BY <1>2, <1>3, <2>1
<1>4. CASE ~(process[t].state = "queued" /\ process[t].holder \in by)
  <2>1. process' = [process EXCEPT ![t] = process[t]]
    BY <1>4 DEF Settles
  <2> QED BY <1>1, <2>1
<1> QED BY <1>3, <1>4

\* Steps of the queue, and of a worker that is given a job or gives it up.
LEMMA JobChanges ==
  ASSUME ProcessingTypeOK, NEW t \in Tracks,
         \/ Lapse(t)
         \/ \E w \in Workers : Reserve(w, t) \/ Delete(w, t) \/ Retry(w, t) \/ Leave(w)
  PROVE  /\ process' \in [Tracks -> Jobs]
         /\ \A u \in Tracks : process[u].state # "none" <=> process'[u].state # "none"
<1> USE ProcessingAssumption
<1>1. process[t] \in Jobs /\ process \in [Tracks -> Jobs]
  BY DEF ProcessingTypeOK, Jobs
<1>2. \E j \in Jobs : /\ process' = [process EXCEPT ![t] = j]
                      /\ j.state = "none" <=> process[t].state = "none"
  <2>1. CASE Lapse(t)
    <3> DEFINE j == [process[t] EXCEPT !.holder = Free]
    <3>1. j \in Jobs /\ j.state = process[t].state
      BY <1>1 DEF Jobs
    <3>2. process' = [process EXCEPT ![t] = j]
      BY <2>1 DEF Lapse
    <3> HIDE DEF j
    <3> QED BY <3>1, <3>2
  <2>2. ASSUME NEW w \in Workers, Reserve(w, t)
        PROVE  \E j \in Jobs : /\ process' = [process EXCEPT ![t] = j]
                               /\ j.state = "none" <=> process[t].state = "none"
    <3> DEFINE n == IF process[t].attempts < MaxAttempts THEN process[t].attempts + 1
                                                         ELSE process[t].attempts
               j == [process[t] EXCEPT !.holder = w, !.attempts = n]
    <3>1. n \in 0..MaxAttempts
      BY <1>1 DEF Jobs
    <3>2. process' = [process EXCEPT ![t] = j]
      BY <1>1, <2>2 DEF Reserve
    <3> HIDE DEF n
    <3>3. j \in Jobs /\ j.state = process[t].state
      BY <1>1, <3>1 DEF Jobs
    <3> QED BY <3>2, <3>3
  <2>3. ASSUME NEW w \in Workers, Delete(w, t) \/ Retry(w, t)
        PROVE  \E j \in Jobs : /\ process' = [process EXCEPT ![t] = j]
                               /\ j.state = "none" <=> process[t].state = "none"
    BY <1>1, <2>3, SettlesJob DEF Delete, Retry
  <2>4. ASSUME NEW w \in Workers, Leave(w) PROVE process' = [process EXCEPT ![t] = process[t]]
    BY <1>1, <2>4 DEF Leave
  <2> QED BY <1>1, <2>1, <2>2, <2>3, <2>4
<1> QED BY <1>1, <1>2

LEMMA JobsKeepInv ==
  ASSUME ProcessingInv, NEW t \in Tracks,
         \/ Lapse(t)
         \/ \E w \in Workers : Reserve(w, t) \/ Delete(w, t) \/ Retry(w, t) \/ Leave(w)
  PROVE  ProcessingInv'
<1>1. ProcessingTypeOK
  BY DEF ProcessingInv
<1>2. /\ process' \in [Tracks -> Jobs]
      /\ \A u \in Tracks : process[u].state # "none" <=> process'[u].state # "none"
  BY <1>1, JobChanges
<1>3. /\ UNCHANGED <<source, object, updates>>
      /\ \/ UNCHANGED worker
         \/ \E w \in Workers :
              \/ worker' = [worker EXCEPT ![w] = [pc |-> "idle", track |-> None]]
              \/ /\ worker' = [worker EXCEPT ![w] = [pc |-> "starting", track |-> t]]
                 /\ process[t].state # "none"
  BY DEF Lapse, Reserve, Delete, Retry, Leave, Idles
<1>4. \A v \in Workers :
        \/ worker'[v] = worker[v]
        \/ worker'[v] = [pc |-> "idle", track |-> None]
        \/ worker'[v] = [pc |-> "starting", track |-> t] /\ process[t].state # "none"
  BY <1>1, <1>3 DEF ProcessingTypeOK
<1>5. ProcessingTypeOK'
  BY <1>1, <1>2, <1>3 DEF ProcessingTypeOK, Jobs
<1> QED BY <1>2, <1>3, <1>4, <1>5, QuietStep

\* A worker goes on with its track.
LEMMA GoesOn ==
  ASSUME ProcessingInv, NEW w \in Workers, NEW t \in Tracks,
         NEW from \in {"starting", "downloading", "converting", "removing", "reporting"},
         At(w, t, from), NEW to, Goes(w, to),
         to \in {"downloading", "converting", "removing", "reporting", "deleting"}
  PROVE  /\ worker' \in [Workers -> [pc : {"idle", "starting", "downloading", "converting",
                                           "removing", "reporting", "deleting"},
                                     track : Tracks \cup {None}]]
         /\ worker'[w].pc = to /\ worker'[w].track = t /\ process[t].state # "none"
         /\ from \in {"removing", "reporting", "deleting"} => object[t].converted
         /\ \A v \in Workers : v # w => worker'[v] = worker[v]
<1>1. [worker[w] EXCEPT !.pc = to] = [pc |-> to, track |-> t]
  BY DEF At, ProcessingInv, ProcessingTypeOK
<1>2. worker' = [worker EXCEPT ![w] = [pc |-> to, track |-> t]]
  BY <1>1 DEF Goes
<1>3. process[t].state # "none" /\ (from \in {"removing", "reporting", "deleting"} => object[t].converted)
  BY DEF At, ProcessingInv, WorkersAgree
<1> QED BY <1>2, <1>3 DEF ProcessingInv, ProcessingTypeOK

\* Steps of a worker at its job.
LEMMA WorkKeepsInv ==
  ASSUME ProcessingInv, NEW w \in Workers, NEW t \in Tracks,
         \/ EmitStarted(w, t) \/ Download(w, t) \/ Convert(w, t) \/ RemoveRaw(w, t)
         \/ EmitFinished(w, t)
  PROVE  ProcessingInv'
<1>1. /\ worker' \in [Workers -> [pc : {"idle", "starting", "downloading", "converting",
                                        "removing", "reporting", "deleting"},
                                  track : Tracks \cup {None}]]
      /\ worker'[w].track = t /\ process[t].state # "none"
      /\ worker'[w].pc \in {"removing", "reporting", "deleting"} => Convert(w, t) \/ object[t].converted
      /\ \A v \in Workers : v # w => worker'[v] = worker[v]
  <2>1. CASE EmitStarted(w, t)
    <3>1. At(w, t, "starting") /\ Goes(w, "downloading")
      BY <2>1 DEF EmitStarted
    <3> QED BY <2>1, <3>1, GoesOn
  <2>2. CASE Download(w, t)
    <3>1. At(w, t, "downloading") /\ Goes(w, "converting")
      BY <2>2 DEF Download
    <3> QED BY <2>2, <3>1, GoesOn
  <2>3. CASE Convert(w, t)
    <3>1. At(w, t, "converting") /\ Goes(w, "removing")
      BY <2>3 DEF Convert
    <3> QED BY <2>3, <3>1, GoesOn
  <2>4. CASE RemoveRaw(w, t)
    <3>1. At(w, t, "removing") /\ Goes(w, "reporting")
      BY <2>4 DEF RemoveRaw
    <3> QED BY <2>4, <3>1, GoesOn
  <2>5. CASE EmitFinished(w, t)
    <3>1. At(w, t, "reporting") /\ Goes(w, "deleting")
      BY <2>5 DEF EmitFinished
    <3> QED BY <2>5, <3>1, GoesOn
  <2> QED BY <2>1, <2>2, <2>3, <2>4, <2>5
<1>2. CASE EmitStarted(w, t) \/ Download(w, t) \/ EmitFinished(w, t)
  <2>1. /\ UNCHANGED <<source, object, process>>
        /\ UNCHANGED updates \/ \E k \in Kinds : Put(k, t)
        /\ ~Convert(w, t)
    BY <1>2 DEF EmitStarted, Download, EmitFinished, Convert, At, Kinds
  <2>2. updates' \in [Kinds -> [Tracks -> 0..MaxCopies]]
    BY <2>1, UpdatesTyped DEF Put, ProcessingInv, ProcessingTypeOK
  <2>3. ProcessingTypeOK'
    BY <1>1, <2>1, <2>2 DEF ProcessingInv, ProcessingTypeOK
  <2> QED BY <1>1, <2>1, <2>3, QuietStep
<1>3. CASE Convert(w, t) \/ RemoveRaw(w, t)
  <2>1. /\ object' \in [Tracks -> Objects] /\ object'[t].converted
        /\ object'[t].raw \in {object[t].raw, "removed"}
        /\ \A u \in Tracks : u # t => object'[u] = object[u]
    <3>1. object[t].raw \in {"stored", "removed"} /\ ProcessingTypeOK
      BY <1>1 DEF ProcessingInv, ProcessingTypeOK, NoTrackIsLost
    <3>2. CASE Convert(w, t)
      <4>1. object' = [object EXCEPT ![t].converted = TRUE]
        BY <3>2 DEF Convert
      <4>2. object'[t].converted
        BY <3>1, <4>1 DEF ProcessingTypeOK
      <4> QED BY <3>1, <4>1, <4>2, ObjectChanges
    <3>3. CASE RemoveRaw(w, t)
      <4>1. object[t].converted
        BY <3>3 DEF RemoveRaw, At, ProcessingInv, WorkersAgree
      <4> QED BY <3>1, <3>3, <4>1, ObjectChanges DEF RemoveRaw
    <3> QED BY <1>3, <3>2, <3>3
  <2>2. UNCHANGED <<source, updates, process>>
    BY <1>3 DEF Convert, RemoveRaw
  <2>3. ProcessingTypeOK'
    BY <1>1, <2>1, <2>2 DEF ProcessingInv, ProcessingTypeOK, Objects
  <2>4. WorkersAgree'
    <3> SUFFICES ASSUME NEW v \in Workers
                 PROVE  /\ worker'[v].pc # "idle" => /\ worker'[v].track \in Tracks
                                                   /\ process[worker'[v].track].state # "none"
                        /\ worker'[v].pc \in {"removing", "reporting", "deleting"} =>
                             object'[worker'[v].track].converted
      BY <2>2 DEF WorkersAgree
    <3>1. \A u \in Tracks : object[u].converted => object'[u].converted
      BY <2>1
    <3>2. CASE v = w
      BY <1>1, <2>1, <3>2
    <3>3. CASE v # w
      <4>1. worker'[v] = worker[v]
        BY <1>1, <3>3
      <4>2. worker[v].pc \in {"removing", "reporting", "deleting"} =>
              worker[v].track \in Tracks /\ object[worker[v].track].converted
        BY DEF ProcessingInv, WorkersAgree
      <4> QED BY <3>1, <4>1, <4>2 DEF ProcessingInv, WorkersAgree
    <3> QED BY <3>2, <3>3
  <2>5. SourceAgrees'
    BY <1>1, <2>1, <2>2 DEF ProcessingInv, SourceAgrees
  <2>6. NoTrackIsLost'
    BY <1>1, <2>1, <2>2 DEF ProcessingInv, NoTrackIsLost
  <2> QED BY <2>3, <2>4, <2>5, <2>6 DEF ProcessingInv
<1> QED BY <1>2, <1>3

LEMMA ProcessingStep == ProcessingInv /\ [ProcessingNext]_processingVars => ProcessingInv'
<1> SUFFICES ASSUME ProcessingInv, [ProcessingNext]_processingVars PROVE ProcessingInv'
  OBVIOUS
<1>1. ASSUME NEW k \in Kinds, NEW t \in Tracks, Received(k, t) PROVE ProcessingInv'
  <2>1. ProcessingTypeOK'
    BY <1>1, UpdatesTyped DEF Received, ProcessingInv, ProcessingTypeOK
  <2> QED BY <1>1, <2>1, QuietStep DEF Received
<1>2. CASE UNCHANGED processingVars
  <2>1. ProcessingTypeOK'
    BY <1>2 DEF processingVars, ProcessingInv, ProcessingTypeOK
  <2> QED BY <1>2, <2>1, QuietStep DEF processingVars
<1>3. ASSUME NEW w \in Workers, Leave(w) PROVE ProcessingInv'
  <2>1. worker[w].track \in Tracks
    BY <1>3 DEF Leave, ProcessingInv, WorkersAgree
  <2> QED BY <1>3, <2>1, JobsKeepInv
<1>4. ASSUME NEW w \in Workers, NEW t \in Tracks, Reserve(w, t) \/ Delete(w, t) \/ Retry(w, t)
      PROVE  ProcessingInv'
  BY <1>4, JobsKeepInv
<1>5. ASSUME NEW t \in Tracks, Announce(t) \/ Upload(t) \/ Finish(t) \/ Finished(t) \/ Lapse(t)
      PROVE  ProcessingInv'
  BY <1>5, TrackerKeepsInv, JobsKeepInv
<1>6. ASSUME NEW w \in Workers, NEW t \in Tracks,
             \/ EmitStarted(w, t) \/ Download(w, t) \/ Convert(w, t) \/ RemoveRaw(w, t)
             \/ EmitFinished(w, t)
      PROVE  ProcessingInv'
  BY <1>6, WorkKeepsInv
<1> QED BY <1>1, <1>2, <1>3, <1>4, <1>5, <1>6 DEF ProcessingNext, Work

LEMMA ProcessingStarts == ProcessingInit => ProcessingInv
<1> SUFFICES ASSUME ProcessingInit PROVE ProcessingInv
  OBVIOUS
<1> USE UpdatesAssumption, ProcessingAssumption
<1>1. ProcessingTypeOK
  BY DEF ProcessingInit, ProcessingTypeOK
<1>2. SourceAgrees /\ WorkersAgree /\ NoTrackIsLost
  BY DEF ProcessingInit, SourceAgrees, WorkersAgree, NoTrackIsLost
<1> QED BY <1>1, <1>2 DEF ProcessingInv

LEMMA ProcessingInvariant == ProcessingSpec => []ProcessingInv
BY ProcessingStarts, ProcessingStep, PTL DEF ProcessingSpec

\* A track whose job is on the queue, in a worker's hands, buried or deleted is in the
\* storage, raw or converted, however many workers were given the job and wherever each
\* of them failed (writeTrack, Converter).
THEOREM TracksAreKept == ProcessingSpec => [](ProcessingTypeOK /\ NoTrackIsLost)
<1>1. ProcessingInv => ProcessingTypeOK /\ NoTrackIsLost
  BY DEF ProcessingInv
<1> QED BY <1>1, ProcessingInvariant, PTL

-------------------------------------------------------------------------------
(* TrackProcessing implements TrackProgress *)

\* A step that keeps what the storage and the jobs say of every track keeps the stages.
LEMMA StageStays ==
  ASSUME \A t \in Tracks : object'[t].converted = object[t].converted,
         \A t \in Tracks : process'[t].state # "none" <=> process[t].state # "none"
  PROVE  Stage' = Stage
BY DEF Stage

LEMMA StageOf ==
  ASSUME NEW t \in Tracks
  PROVE  Stage[t] = IF object[t].converted THEN "converted"
                    ELSE IF process[t].state # "none" THEN "queued" ELSE "recorded"
BY DEF Stage

\* An update is put only when it is true.
LEMMA PutIsSent ==
  ASSUME NEW k \in Kinds, NEW t \in Tracks, Put(k, t), Stage' = Stage,
         k \in {"RecordingFinished", "ProcessingStarted"} => process[t].state # "none",
         k = "ProcessingFinished" => object[t].converted
  PROVE  Progress!Send(k, t) /\ k \in Progress!Kinds
<1>1. k \in Progress!Kinds
  BY DEF Kinds, Progress!Kinds
<1>2. Progress!Truthful(k, t)
  <2>1. k = "ProcessingFinished" => Stage[t] = "converted"
    BY StageOf
  <2>2. k \in {"RecordingFinished", "ProcessingStarted"} => Stage[t] # "recorded"
    BY StageOf
  <2> QED BY <2>1, <2>2 DEF Progress!Truthful, Kinds
<1>3. updates' = [updates EXCEPT ![k][t] = Progress!Added(@)]
  BY DEF Put, Added, Progress!Added
<1> QED BY <1>1, <1>2, <1>3 DEF Progress!Send

\* Steps of TrackProgress: every one is a step of the stages or of the queue of updates.
ProgressStep ==
  \/ Progress!Produce
  \/ \E k \in Progress!Kinds, t \in Tracks : Progress!Remove(k, t)
  \/ UNCHANGED Progress!progressVars

LEMMA PutIsProgress ==
  ASSUME ProcessingInv, NEW t \in Tracks,
         \/ Announce(t) \/ Finished(t)
         \/ \E w \in Workers : EmitStarted(w, t) \/ EmitFinished(w, t)
  PROVE  ProgressStep
<1>1. Stage' = Stage
  BY StageStays DEF Announce, Finished, EmitStarted, EmitFinished
<1>2. CASE UNCHANGED updates
  BY <1>1, <1>2 DEF ProgressStep, Progress!progressVars
<1>3. CASE ~UNCHANGED updates
  <2>1. PICK k \in Kinds : /\ Put(k, t)
                           /\ k \in {"RecordingFinished", "ProcessingStarted"} => process[t].state # "none"
                           /\ k = "ProcessingFinished" => object[t].converted
    BY <1>3 DEF Announce, Finished, EmitStarted, EmitFinished, Advances, At, Kinds,
                ProcessingInv, SourceAgrees, WorkersAgree
  <2>2. Progress!Send(k, t) /\ k \in Progress!Kinds
    BY <1>1, <2>1, PutIsSent
  <2> QED BY <2>2 DEF ProgressStep, Progress!Produce
<1> QED BY <1>2, <1>3

LEMMA FinishIsProgress ==
  ASSUME ProcessingInv, NEW t \in Tracks, Finish(t)
  PROVE  ProgressStep
<1>1. CASE UNCHANGED process
  BY <1>1, StageStays DEF Finish, ProgressStep, Progress!progressVars
<1>2. CASE ~UNCHANGED process
  <2>1. /\ source[t] = "uploaded" /\ process' = [process EXCEPT ![t].state = "queued"]
        /\ UNCHANGED <<object, updates>>
    BY <1>2 DEF Finish, Advances
  <2>2. process[t].state = "none" /\ ~object[t].converted
    BY <2>1 DEF ProcessingInv, SourceAgrees
  <2>3. /\ process'[t].state = "queued"
        /\ \A u \in Tracks : u # t => process'[u] = process[u]
    BY <2>1 DEF ProcessingInv, ProcessingTypeOK
  <2>4. Stage[t] = "recorded" /\ Stage' = [Stage EXCEPT ![t] = "queued"]
    BY <2>1, <2>2, <2>3 DEF Stage
  <2> QED BY <2>1, <2>4 DEF ProgressStep, Progress!Produce, Progress!QueueTrack
<1> QED BY <1>1, <1>2

LEMMA ConvertIsProgress ==
  ASSUME ProcessingInv, NEW t \in Tracks, NEW w \in Workers, Convert(w, t)
  PROVE  ProgressStep
<1>1. process[t].state # "none" /\ UNCHANGED <<updates, process>>
  BY DEF Convert, At, ProcessingInv, WorkersAgree
<1>2. /\ object'[t].converted = TRUE
      /\ \A u \in Tracks : u # t => object'[u] = object[u]
  BY DEF Convert, ProcessingInv, ProcessingTypeOK
<1>3. CASE object[t].converted
  <2>1. object[t].converted = TRUE
    BY <1>3 DEF ProcessingInv, ProcessingTypeOK
  <2> QED BY <1>1, <1>2, <2>1, StageStays DEF ProgressStep, Progress!progressVars
<1>4. CASE ~object[t].converted
  <2>1. Stage[t] = "queued" /\ Stage' = [Stage EXCEPT ![t] = "converted"]
    BY <1>1, <1>2, <1>4 DEF Stage
  <2> QED BY <1>1, <2>1 DEF ProgressStep, Progress!Produce, Progress!ConvertTrack
<1> QED BY <1>3, <1>4

\* The other steps change no stage, and of the updates at most that one is received.
LEMMA OthersAreProgress ==
  ASSUME ProcessingInv, NEW t \in Tracks,
         \/ Upload(t) \/ Lapse(t)
         \/ \E w \in Workers : \/ Reserve(w, t) \/ Download(w, t) \/ RemoveRaw(w, t)
                              \/ Delete(w, t) \/ Retry(w, t) \/ Leave(w)
         \/ \E k \in Kinds : Received(k, t)
  PROVE  ProgressStep
<1>1. \A u \in Tracks : object'[u].converted = object[u].converted
  <2>1. \/ UNCHANGED object
        \/ \E raw \in {"stored", "removed"} : object' = [object EXCEPT ![t].raw = raw]
    BY DEF Upload, Lapse, Reserve, Download, RemoveRaw, Delete, Retry, Leave, Received
  <2>2. ASSUME NEW raw \in {"stored", "removed"}, object' = [object EXCEPT ![t].raw = raw]
        PROVE  \A u \in Tracks : object'[u].converted = object[u].converted
    <3>1. [object[t] EXCEPT !.raw = raw].converted = object[t].converted
      BY DEF ProcessingInv, ProcessingTypeOK
    <3> QED BY <2>2, <3>1 DEF ProcessingInv, ProcessingTypeOK
  <2> QED BY <2>1, <2>2
<1>2. \A u \in Tracks : process'[u].state # "none" <=> process[u].state # "none"
  <2>1. ProcessingTypeOK
    BY DEF ProcessingInv
  <2> QED BY <2>1, JobChanges DEF Upload, Download, RemoveRaw, Received
<1>3. Stage' = Stage
  BY <1>1, <1>2, StageStays
<1>4. CASE UNCHANGED updates
  BY <1>3, <1>4 DEF ProgressStep, Progress!progressVars
<1>5. ASSUME NEW k \in Kinds, Received(k, t) PROVE ProgressStep
  <2>1. k \in Progress!Kinds
    BY DEF Kinds, Progress!Kinds
  <2>2. updates' = [updates EXCEPT ![k][t] = Progress!Less(@)]
    BY <1>5 DEF Received, Less, Progress!Less
  <2> QED BY <1>3, <2>1, <2>2 DEF ProgressStep, Progress!Remove
<1> QED BY <1>4, <1>5 DEF Upload, Lapse, Reserve, Download, RemoveRaw, Delete, Retry, Leave

\* Seen through Stage, the tracker and the workers do what TrackProgress promises: no
\* update is ever put that says more than is true, whatever fails or is done again.
THEOREM ProcessingImplementsProgress == ProcessingSpec => ImplementsProgress
<1>1. ProcessingInit => Progress!ProgressInit
  <2> SUFFICES ASSUME ProcessingInit PROVE Progress!ProgressInit
    OBVIOUS
  <2>1. Stage = [t \in Tracks |-> "recorded"]
    BY DEF Stage, ProcessingInit
  <2>2. updates = [k \in Progress!Kinds |-> [t \in Tracks |-> 0]]
    BY DEF ProcessingInit, Kinds, Progress!Kinds
  <2> QED BY <2>1, <2>2 DEF Progress!ProgressInit
<1>2. ProcessingInv /\ [ProcessingNext]_processingVars => ProgressStep
  <2> SUFFICES ASSUME ProcessingInv, [ProcessingNext]_processingVars PROVE ProgressStep
    OBVIOUS
  <2>1. CASE UNCHANGED processingVars
    BY <2>1, StageStays DEF processingVars, ProgressStep, Progress!progressVars
  <2>2. ASSUME NEW w \in Workers, Leave(w) PROVE ProgressStep
    <3>1. worker[w].track \in Tracks
      BY <2>2 DEF Leave, ProcessingInv, WorkersAgree
    <3> QED BY <2>2, <3>1, OthersAreProgress
  <2>3. ASSUME NEW t \in Tracks, Announce(t) \/ Upload(t) \/ Finish(t) \/ Finished(t) \/ Lapse(t)
        PROVE  ProgressStep
    BY <2>3, PutIsProgress, FinishIsProgress, OthersAreProgress
  <2>4. ASSUME NEW w \in Workers, NEW t \in Tracks,
               \/ EmitStarted(w, t) \/ EmitFinished(w, t) \/ Convert(w, t)
               \/ Reserve(w, t) \/ Download(w, t) \/ RemoveRaw(w, t) \/ Delete(w, t) \/ Retry(w, t)
        PROVE  ProgressStep
    BY <2>4, PutIsProgress, ConvertIsProgress, OthersAreProgress
  <2>5. ASSUME NEW k \in Kinds, NEW t \in Tracks, Received(k, t) PROVE ProgressStep
    BY <2>5, OthersAreProgress
  <2> QED BY <2>1, <2>2, <2>3, <2>4, <2>5 DEF ProcessingNext, Work
<1> QED BY <1>1, <1>2, ProcessingInvariant, PTL
        DEF ProcessingSpec, ImplementsProgress, Progress!ProgressSpec, ProgressStep

-------------------------------------------------------------------------------
(* The books are truthful *)

\* An update on the queue is true: stages only advance.
UpdatesAreTruthful == \A k \in Kinds, t \in Tracks : updates[k][t] > 0 => Truthful(k, t)

\* A handler that is going to announce the recording decided so on a stopped one, all of
\* whose tracks were converted.
DecisionsHold ==
  \A h \in Handlers : handler[h].pc = "emitting" =>
    doc.stopped /\ \A t \in handler[h].announces : stage[t] = "converted"

BooksInv ==
  /\ TypeOK
  /\ UpdatesAreTruthful /\ BooksAreTruthful
  /\ DecisionsHold /\ ReadyIsWatchable

\* What is true of a track stays true when stages advance.
LEMMA TruthLasts ==
  ASSUME NEW k \in Kinds, NEW t \in Tracks, Truthful(k, t),
         stage[t] # "recorded" => stage'[t] # "recorded",
         stage[t] = "converted" => stage'[t] = "converted"
  PROVE  Truthful(k, t)'
BY DEF Truthful, Kinds

\* A producer's step.
LEMMA ProduceStep == BooksInv /\ Progresses => BooksInv'
<1> SUFFICES ASSUME BooksInv, Progresses PROVE BooksInv'
  OBVIOUS
<1> USE UpdatesAssumption
<1>1. UNCHANGED <<doc, handler, ready>>
  BY DEF Progresses
<1>2. \A t \in Tracks : /\ stage[t] # "recorded" => stage'[t] # "recorded"
                        /\ stage[t] = "converted" => stage'[t] = "converted"
  BY DEF Progresses, Produce, QueueTrack, ConvertTrack, Send, BooksInv, TypeOK
<1>3. \A k \in Kinds, t \in Tracks : Truthful(k, t) => Truthful(k, t)'
  BY <1>2, TruthLasts
<1>4. TypeOK' /\ UpdatesAreTruthful'
  <2>1. CASE UNCHANGED updates
    <3>1. stage' \in [Tracks -> {"recorded", "queued", "converted"}]
      BY DEF Progresses, Produce, QueueTrack, ConvertTrack, Send, BooksInv, TypeOK
    <3> QED BY <1>1, <1>3, <2>1, <3>1 DEF BooksInv, TypeOK, UpdatesAreTruthful
  <2>2. ASSUME NEW k \in Kinds, NEW t \in Tracks, Send(k, t) PROVE TypeOK' /\ UpdatesAreTruthful'
    <3>1. updates' = [updates EXCEPT ![k] = [updates[k] EXCEPT ![t] = Added(updates[k][t])]]
      BY <2>2 DEF Send, BooksInv, TypeOK
    <3>2. Added(updates[k][t]) \in 0..MaxCopies
      BY DEF Added, BooksInv, TypeOK
    <3>3. updates' \in [Kinds -> [Tracks -> 0..MaxCopies]]
      BY <3>1, <3>2 DEF BooksInv, TypeOK
    <3>4. \A l \in Kinds, u \in Tracks : updates'[l][u] = updates[l][u] \/ (l = k /\ u = t)
      BY <3>1 DEF BooksInv, TypeOK
    <3>5. Truthful(k, t) /\ UNCHANGED stage
      BY <2>2 DEF Send
    <3>6. TypeOK'
      BY <1>1, <3>3, <3>5 DEF BooksInv, TypeOK
    <3>7. UpdatesAreTruthful'
      BY <1>3, <3>4, <3>5 DEF BooksInv, UpdatesAreTruthful
    <3> QED BY <3>6, <3>7
  <2> QED BY <2>1, <2>2 DEF Progresses, Produce, QueueTrack, ConvertTrack
<1>5. BooksAreTruthful'
  BY <1>1, <1>3 DEF BooksInv, BooksAreTruthful, TypeOK, Document
<1>6. DecisionsHold' /\ ReadyIsWatchable'
  BY <1>1, <1>2 DEF BooksInv, DecisionsHold, ReadyIsWatchable, TypeOK, Handling
<1> QED BY <1>4, <1>5, <1>6 DEF BooksInv

\* Steps that take a copy from the queue, or leave the queue alone, and neither enter
\* an update nor decide anything.
LEMMA QueueStep ==
  ASSUME BooksInv, doc' = doc \/ doc' = [doc EXCEPT !.stopped = TRUE], UNCHANGED <<stage, ready>>,
         updates' = updates \/ \E k \in Kinds, t \in Tracks \cup {None} : Remove(k, t),
         handler' = handler \/ \E h \in Handlers : handler' = [handler EXCEPT ![h] = Rest]
  PROVE  BooksInv'
<1> USE UpdatesAssumption
<1>1. /\ updates' \in [Kinds -> [Tracks -> 0..MaxCopies]]
      /\ \A k \in Kinds, t \in Tracks : updates'[k][t] > 0 => updates[k][t] > 0
  <2>1. CASE updates' = updates
    BY <2>1 DEF BooksInv, TypeOK
  <2>2. ASSUME NEW k \in Kinds, NEW t \in Tracks \cup {None}, Remove(k, t)
        PROVE  /\ updates' \in [Kinds -> [Tracks -> 0..MaxCopies]]
               /\ \A l \in Kinds, u \in Tracks : updates'[l][u] > 0 => updates[l][u] > 0
    <3>1. updates' = [updates EXCEPT ![k] = [updates[k] EXCEPT ![t] = Less(updates[k][t])]]
      BY <2>2 DEF Remove, BooksInv, TypeOK
    <3> DEFINE row == [updates[k] EXCEPT ![t] = Less(updates[k][t])]
    <3>2. updates[k] \in [Tracks -> 0..MaxCopies]
      BY DEF BooksInv, TypeOK
    <3>3. row \in [Tracks -> 0..MaxCopies] /\ \A u \in Tracks : row[u] <= updates[k][u]
      <4>1. CASE t \in Tracks
        <5>1. /\ Less(updates[k][t]) \in 0..MaxCopies
              /\ Less(updates[k][t]) <= updates[k][t]
          BY <3>2, <4>1 DEF Less
        <5> QED BY <3>2, <4>1, <5>1
      <4>2. CASE t \notin Tracks
        <5>1. row = updates[k]
          BY <3>2, <4>2
        <5> HIDE DEF row
        <5> QED BY <3>2, <5>1
      <4> QED BY <4>1, <4>2
    <3> HIDE DEF row
    <3>4. updates' = [updates EXCEPT ![k] = row]
      BY <3>1 DEF row
    <3>5. /\ updates' \in [Kinds -> [Tracks -> 0..MaxCopies]]
          /\ \A l \in Kinds : updates'[l] = updates[l] \/ (l = k /\ updates'[l] = row)
      BY <3>3, <3>4 DEF BooksInv, TypeOK
    <3>6. ASSUME NEW l \in Kinds, NEW u \in Tracks, updates'[l][u] > 0 PROVE updates[l][u] > 0
      <4>1. CASE updates'[l] = updates[l]
        BY <3>6, <4>1
      <4>2. CASE l = k /\ updates'[l] = row
        BY <3>2, <3>3, <3>6, <4>2
      <4> QED BY <3>5, <4>1, <4>2
    <3> QED BY <3>5, <3>6
  <2> QED BY <2>1, <2>2
<1>2. doc' \in Document /\ doc'.records = doc.records /\ (doc.stopped => doc'.stopped)
  BY DEF BooksInv, TypeOK, Document
<1>3. /\ handler' \in [Handlers -> Handling]
      /\ \A h \in Handlers : handler'[h] = handler[h] \/ handler'[h] = Rest
  <2>1. Rest \in Handling
    BY DEF Rest, Handling, Kinds
  <2> QED BY <2>1 DEF BooksInv, TypeOK
<1>4. Rest.pc = "idle"
  BY DEF Rest
<1>5. TypeOK'
  BY <1>1, <1>2, <1>3 DEF BooksInv, TypeOK
<1>6. \A k \in Kinds, t \in Tracks : Truthful(k, t)' <=> Truthful(k, t)
  BY DEF Truthful
<1>7. UpdatesAreTruthful' /\ BooksAreTruthful'
  BY <1>1, <1>2, <1>6 DEF BooksInv, UpdatesAreTruthful, BooksAreTruthful, TypeOK, Document
<1>8. DecisionsHold' /\ ReadyIsWatchable'
  BY <1>2, <1>3, <1>4 DEF BooksInv, DecisionsHold, ReadyIsWatchable
<1> QED BY <1>5, <1>7, <1>8 DEF BooksInv

\* A handler enters an update and decides whether to announce the recording.
LEMMA UpdateStep ==
  ASSUME BooksInv, NEW h \in Handlers, NEW k \in Kinds, NEW t \in Tracks, Update(h, k, t)
  PROVE  BooksInv'
<1> DEFINE records == AddedToSet(doc.records, k, t)
           isReady == doc.stopped /\ IsReady(records)
           decision == [pc |-> IF isReady THEN "emitting" ELSE "deleting", kind |-> k, track |-> t,
                        announces |-> IF isReady THEN records["RecordingStarted"] ELSE {}]
<1>1. /\ doc' = [doc EXCEPT !.records = records]
      /\ handler' = [handler EXCEPT ![h] = decision]
      /\ UNCHANGED <<stage, updates, ready>> /\ updates[k][t] > 0
  BY DEF Update
<1>2. records \in [Kinds -> SUBSET Tracks]
  BY DEF AddedToSet, BooksInv, TypeOK, Document
<1>3. \A l \in Kinds, u \in Tracks : Truthful(l, u)' <=> Truthful(l, u)
  BY <1>1 DEF Truthful
<1>4. \A l \in Kinds : \A u \in records[l] : Truthful(l, u)
  <2>1. Truthful(k, t)
    BY <1>1 DEF BooksInv, UpdatesAreTruthful
  <2>2. \A l \in Kinds : records[l] \subseteq doc.records[l] \cup (IF l = k THEN {t} ELSE {})
    BY DEF AddedToSet, BooksInv, TypeOK, Document
  <2> QED BY <2>1, <2>2 DEF BooksInv, BooksAreTruthful
<1>5. isReady => \A u \in records["RecordingStarted"] : stage[u] = "converted"
  BY <1>2, <1>4 DEF IsReady, Truthful, Kinds
<1>6. decision \in Handling
  BY <1>2 DEF Handling, Kinds
<1>7. decision.pc = "emitting" => /\ doc.stopped
                                  /\ \A u \in decision.announces : stage[u] = "converted"
  BY <1>5
<1> HIDE DEF decision, isReady
<1>8. /\ handler' \in [Handlers -> Handling] /\ handler'[h] = decision
      /\ \A g \in Handlers : g # h => handler'[g] = handler[g]
  BY <1>1, <1>6 DEF BooksInv, TypeOK
<1> HIDE DEF records
<1>9. doc' \in Document /\ doc'.records = records /\ doc'.stopped = doc.stopped
  BY <1>1, <1>2 DEF BooksInv, TypeOK, Document
<1>10. TypeOK'
  BY <1>1, <1>8, <1>9 DEF BooksInv, TypeOK
<1>11. UpdatesAreTruthful'
  BY <1>1, <1>3 DEF BooksInv, UpdatesAreTruthful
<1>12. BooksAreTruthful'
  BY <1>2, <1>3, <1>4, <1>9 DEF BooksAreTruthful
<1>13. DecisionsHold'
  BY <1>1, <1>7, <1>8, <1>9 DEF BooksInv, DecisionsHold
<1>14. ReadyIsWatchable'
  BY <1>1, <1>9 DEF BooksInv, ReadyIsWatchable
<1> QED BY <1>10, <1>11, <1>12, <1>13, <1>14 DEF BooksInv

\* A handler announces the recording.
LEMMA EmitStep ==
  ASSUME BooksInv, NEW h \in Handlers, Emit(h)
  PROVE  BooksInv'
<1>1. /\ handler[h].pc = "emitting" /\ ready' = ready \cup {handler[h].announces}
      /\ handler' = [handler EXCEPT ![h].pc = "deleting"]
      /\ UNCHANGED <<stage, updates, doc>>
  BY DEF Emit
<1>2. [handler[h] EXCEPT !.pc = "deleting"] \in Handling
  <2>1. handler[h] \in Handling
    BY DEF BooksInv, TypeOK
  <2> QED BY <2>1 DEF Handling
<1>3. /\ handler' \in [Handlers -> Handling] /\ handler'[h].pc = "deleting"
      /\ \A g \in Handlers : g # h => handler'[g] = handler[g]
  BY <1>1, <1>2 DEF BooksInv, TypeOK
<1>4. handler[h].announces \in SUBSET Tracks
  BY DEF BooksInv, TypeOK, Handling
<1>5. TypeOK'
  BY <1>1, <1>3, <1>4 DEF BooksInv, TypeOK
<1>6. \A k \in Kinds, t \in Tracks : Truthful(k, t)' <=> Truthful(k, t)
  BY <1>1 DEF Truthful
<1>7. UpdatesAreTruthful' /\ BooksAreTruthful'
  BY <1>1, <1>6 DEF BooksInv, UpdatesAreTruthful, BooksAreTruthful, TypeOK, Document
<1>8. DecisionsHold' /\ ReadyIsWatchable'
  BY <1>1, <1>3 DEF BooksInv, DecisionsHold, ReadyIsWatchable
<1> QED BY <1>5, <1>7, <1>8 DEF BooksInv

LEMMA BooksStep == BooksInv /\ [Next]_vars => BooksInv'
<1> SUFFICES ASSUME BooksInv, [Next]_vars PROVE BooksInv'
  OBVIOUS
<1>1. CASE Progresses
  BY <1>1, ProduceStep
<1>2. CASE Stop
  BY <1>2, QueueStep DEF Stop
<1>3. ASSUME NEW h \in Handlers, Settle(h) \/ Redeliver(h) PROVE BooksInv'
  <2>1. handler[h].kind \in Kinds /\ handler[h].track \in Tracks \cup {None}
    BY DEF BooksInv, TypeOK, Handling
  <2> QED BY <1>3, <2>1, QueueStep DEF Settle, Redeliver, Rests, Remove
<1>4. ASSUME NEW h \in Handlers, NEW k \in Kinds, NEW t \in Tracks, Bury(h, k, t) PROVE BooksInv'
  BY <1>4, QueueStep DEF Bury, Remove
<1>5. CASE UNCHANGED vars
  BY <1>5, QueueStep DEF vars
<1> QED BY <1>1, <1>2, <1>3, <1>4, <1>5, UpdateStep, EmitStep DEF Next

LEMMA BooksInit == Init => BooksInv
<1> SUFFICES ASSUME Init PROVE BooksInv
  OBVIOUS
<1> USE UpdatesAssumption
<1>1. Rest \in Handling /\ Rest.pc = "idle"
  BY DEF Rest, Handling, Kinds
<1>2. [stopped |-> FALSE, records |-> [k \in Kinds |-> {}]] \in Document
  BY DEF Document
<1>3. TypeOK
  BY <1>1, <1>2 DEF Init, ProgressInit, TypeOK
<1>4. UpdatesAreTruthful /\ BooksAreTruthful
  BY DEF Init, ProgressInit, UpdatesAreTruthful, BooksAreTruthful
<1>5. DecisionsHold /\ ReadyIsWatchable
  BY <1>1 DEF Init, DecisionsHold, ReadyIsWatchable
<1> QED BY <1>3, <1>4, <1>5 DEF BooksInv

LEMMA BooksInvariant == Spec => []BooksInv
BY BooksInit, BooksStep, PTL DEF Spec

\* The books say nothing of a track that is not true, however late, often and in
\* whatever order its updates are entered (updateRecordingTrack).
THEOREM TruthfulBooks == Spec => [](TypeOK /\ BooksAreTruthful)
<1>1. BooksInv => TypeOK /\ BooksAreTruthful
  BY DEF BooksInv
<1> QED BY <1>1, BooksInvariant, PTL

\* An announced recording was stopped and every track it was known to have when the
\* decision fell can be watched, with any number of handlers at once (IsReady).
THEOREM AnnouncedIsWatchable == Spec => []ReadyIsWatchable
<1>1. BooksInv => ReadyIsWatchable
  BY DEF BooksInv
<1> QED BY <1>1, BooksInvariant, PTL

\* No handler makes the books forget what another one entered, or a stop (UpdateRecords).
THEOREM GrowingBooks == Spec => BooksOnlyGrow
<1>1. BooksInv /\ [Next]_vars =>
        [/\ doc.stopped => doc'.stopped
         /\ \A k \in Kinds : doc.records[k] \subseteq doc'.records[k]]_vars
  <2> SUFFICES ASSUME BooksInv, Next
               PROVE  /\ doc.stopped => doc'.stopped
                      /\ \A k \in Kinds : doc.records[k] \subseteq doc'.records[k]
    OBVIOUS
  <2>1. CASE UNCHANGED doc
    BY <2>1
  <2>2. CASE Stop
    BY <2>2 DEF Stop, BooksInv, TypeOK, Document
  <2>3. ASSUME NEW h \in Handlers, NEW k \in Kinds, NEW t \in Tracks, Update(h, k, t)
        PROVE  /\ doc.stopped => doc'.stopped
               /\ \A l \in Kinds : doc.records[l] \subseteq doc'.records[l]
    BY <2>3 DEF Update, AddedToSet, BooksInv, TypeOK, Document
  <2> QED BY <2>1, <2>2, <2>3 DEF Next, Progresses, Emit, Settle, Redeliver, Rests, Bury
<1> QED BY <1>1, BooksInvariant, PTL DEF Spec, BooksOnlyGrow
===============================================================================
