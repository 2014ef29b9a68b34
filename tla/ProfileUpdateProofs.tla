------------------------ MODULE ProfileUpdateProofs ------------------------
(***************************************************************************)
(* Proofs about ProfileUpdate, for any number of users, handlers, jobs and *)
(* pictures: whatever is tried again, fails or overlaps, a profile shows   *)
(* an avatar that is stored, and a file is removed before it was used only *)
(* when it took the place of one that was being used or refused.           *)
(***************************************************************************)
EXTENDS ProfileUpdate, TLAPS

Avatars == Pictures \cup {None, "google"}

HandlerType ==
    [job : Jobs \cup {None}, picture : Avatars,
     step : {"idle", "check", "fetch", "store", "upsert", "remove", "refuse",
             "delete", "retry"}]

ProfileType == [exists : BOOLEAN, avatar : Avatars, thumbnail : Avatars]

Types ==
    /\ kind \in [Jobs -> {None, "avatar", "google"}]
    /\ owner \in [Jobs -> Users \cup {None}]
    /\ job \in [Jobs -> {"none", "ready", "reserved", "buried", "deleted"}]
    /\ handler \in [Handlers -> HandlerType]
    /\ upload \in [Users -> Pictures \cup {None}]
    /\ public \in [Users -> SUBSET Avatars]
    /\ profile \in [Users -> ProfileType]
    /\ shown \in [Users -> SUBSET Avatars]
    /\ refused \subseteq Pictures

\* A job in the queue or in work was put by a user.
Queued ==
    /\ \A j \in Jobs : job[j] # "none" => kind[j] # None
    /\ \A j \in Jobs : kind[j] # None => owner[j] \in Users
    /\ \A h \in Handlers : handler[h].step # "idle" =>
         handler[h].job \in Jobs /\ kind[handler[h].job] # None

\* The avatar that a handler is about to write is stored, the one whose file it is
\* about to remove has been written or refused.
InWork ==
    \A h \in Handlers :
      /\ handler[h].step = "refuse" => handler[h].picture \in refused
      /\ kind[handler[h].job] = "avatar" =>
        /\ handler[h].step = "store" => handler[h].picture # None
        /\ handler[h].step = "upsert" => /\ handler[h].picture # None
                                         /\ handler[h].picture \in public[Mine(h)]
        /\ handler[h].step = "remove" => handler[h].picture \in shown[Mine(h)]

ProfileInv == Types /\ Queued /\ InWork /\ ShownAvatarExists

-----------------------------------------------------------------------------
\* The fields of handlers and profiles have the types of their records.
LEMMA FieldTypes ==
    ASSUME Types
    PROVE  /\ \A j \in Jobs : kind[j] \in {None, "avatar", "google"}
           /\ \A h \in Handlers : /\ handler[h] \in HandlerType
                                  /\ handler[h].job \in Jobs \cup {None}
                                  /\ handler[h].picture \in Avatars
           /\ \A u \in Users : /\ profile[u] \in ProfileType
                               /\ profile[u].avatar \in Avatars
                               /\ upload[u] \in Pictures \cup {None}
                               /\ public[u] \in SUBSET Avatars
                               /\ shown[u] \in SUBSET Avatars
BY DEF Types, HandlerType, ProfileType

\* What changes when a handler goes on to its next call.
LEMMA GotoFacts ==
    ASSUME Types, NEW h \in Handlers,
           NEW s \in {"fetch", "upsert", "remove", "delete", "retry"}, Goto(h, s)
    PROVE  /\ handler' \in [Handlers -> HandlerType]
           /\ handler'[h].step = s /\ handler'[h].job = handler[h].job
           /\ handler'[h].picture = handler[h].picture
           /\ \A g \in Handlers : g # h => handler'[g] = handler[g]
<1>1. handler[h] \in HandlerType
  BY FieldTypes
<1>2. [handler[h] EXCEPT !.step = s] \in HandlerType
  BY <1>1 DEF HandlerType
<1>3. handler' = [handler EXCEPT ![h] = [handler[h] EXCEPT !.step = s]]
  BY DEF Goto, Types
<1> QED BY <1>1, <1>2, <1>3 DEF Types, HandlerType

\* A handler that is done is idle.
LEMMA IdleType == Idle \in HandlerType /\ Idle.step = "idle"
BY DEF Idle, HandlerType, Avatars

-----------------------------------------------------------------------------
\* The steps of users keep the invariant.
LEMMA UsersKeep ==
    ASSUME ProfileInv, NEW u \in Users,
           RequestUpload(u) \/ SignIn(u) \/ Post(u) \/ Expire(u) \/ Edit(u)
    PROVE  ProfileInv'
<1> USE FieldTypes DEF ProfileInv
<1>1. CASE RequestUpload(u) \/ SignIn(u)
  <2>1. PICK j \in Jobs, k \in {"avatar", "google"} :
          /\ kind[j] = None
          /\ kind' = [kind EXCEPT ![j] = k] /\ owner' = [owner EXCEPT ![j] = u]
          /\ job' = [job EXCEPT ![j] = "ready"]
          /\ UNCHANGED <<holder, handler, upload, public, profile, shown, refused>>
    BY <1>1 DEF RequestUpload, SignIn, Put
  <2>2. /\ Types' /\ kind'[j] # None /\ owner'[j] \in Users
        /\ \A i \in Jobs : i # j => /\ kind'[i] = kind[i] /\ owner'[i] = owner[i]
                                    /\ job'[i] = job[i]
    BY <2>1 DEF Types, None
  <2>3. Queued'
    BY <2>1, <2>2 DEF Queued
  <2>4. InWork' /\ ShownAvatarExists'
    BY <2>1, <2>2 DEF Queued, InWork, ShownAvatarExists, Mine
  <2> QED BY <2>2, <2>3, <2>4
<1>2. CASE Post(u) \/ Expire(u)
  <2>1. upload' \in [Users -> Pictures \cup {None}]
    BY <1>2 DEF Post, Expire, Types
  <2> QED BY <1>2, <2>1
          DEF Post, Expire, Types, Queued, InWork, ShownAvatarExists, Mine
<1>3. CASE Edit(u)
  <2>1. /\ [profile[u] EXCEPT !.exists = TRUE] \in ProfileType
        /\ [profile[u] EXCEPT !.exists = TRUE].avatar = profile[u].avatar
    BY DEF ProfileType
  <2>2. /\ profile' \in [Users -> ProfileType]
        /\ \A v \in Users : profile'[v].avatar = profile[v].avatar
    BY <1>3, <2>1 DEF Edit, Types
  <2> QED BY <1>3, <2>2 DEF Edit, Types, Queued, InWork, ShownAvatarExists, Mine
<1> QED BY <1>1, <1>2, <1>3

\* So do those of the queue and of a handler that settles its job.
LEMMA QueueKeeps ==
    ASSUME ProfileInv, NEW j \in Jobs, Take(j) \/ Lapse(j)
    PROVE  ProfileInv'
<1> USE FieldTypes DEF ProfileInv
<1>1. UNCHANGED <<kind, owner, upload, public, profile, shown, refused>>
  BY DEF Take, Reserve, Lapse
<1>2. CASE Take(j)
  <2>1. PICK h \in Handlers, s \in {"check", "fetch"} :
          /\ job[j] = "ready" /\ job' = [job EXCEPT ![j] = "reserved"]
          /\ handler' = [handler EXCEPT ![h] = [job |-> j, picture |-> None, step |-> s]]
    BY <1>2 DEF Take, Reserve
  <2> DEFINE new == [job |-> j, picture |-> None, step |-> s]
  <2>2. new \in HandlerType /\ new.step = s /\ new.job = j
    BY DEF HandlerType, Avatars
  <2> HIDE DEF new
  <2>3. /\ handler' \in [Handlers -> HandlerType] /\ handler'[h] = new
        /\ \A g \in Handlers : g # h => handler'[g] = handler[g]
    BY <2>1, <2>2 DEF Types, new
  <2>4. /\ job' \in [Jobs -> {"none", "ready", "reserved", "buried", "deleted"}]
        /\ \A i \in Jobs : job'[i] # "none" => job[i] # "none"
    BY <2>1 DEF Types
  <2> QED BY <1>1, <2>1, <2>2, <2>3, <2>4
          DEF Types, Queued, InWork, ShownAvatarExists, Mine
<1>3. CASE Lapse(j)
  <2>1. /\ handler' \in [Handlers -> HandlerType]
        /\ \A h \in Handlers : handler'[h] = handler[h] \/ handler'[h] = Idle
    BY <1>3, IdleType DEF Lapse, Types
  <2>2. /\ job' \in [Jobs -> {"none", "ready", "reserved", "buried", "deleted"}]
        /\ \A i \in Jobs : job'[i] # "none" => job[i] # "none"
    BY <1>3 DEF Lapse, Types
  <2> QED BY <1>1, <2>1, <2>2, IdleType DEF Types, Queued, InWork, ShownAvatarExists, Mine
<1> QED BY <1>2, <1>3

LEMMA SettleKeeps ==
    ASSUME ProfileInv, NEW h \in Handlers, Settle(h)
    PROVE  ProfileInv'
<1> USE FieldTypes DEF ProfileInv
<1>1. /\ UNCHANGED <<kind, owner, upload, public, profile, shown, refused>>
      /\ handler[h].step # "idle"
  BY DEF Settle, At
<1>2. /\ handler' \in [Handlers -> HandlerType]
      /\ \A g \in Handlers : handler'[g] = handler[g] \/ handler'[g] = Idle
  BY IdleType DEF Settle, Types
<1>3. /\ job' \in [Jobs -> {"none", "ready", "reserved", "buried", "deleted"}]
      /\ \A i \in Jobs : job'[i] # "none" => job[i] # "none" \/ kind[i] # None
  <2>1. \/ UNCHANGED job
        \/ \E s \in {"ready", "buried", "deleted"} : job' = [job EXCEPT ![handler[h].job] = s]
    BY DEF Settle
  <2>2. handler[h].job \in Jobs /\ kind[handler[h].job] # None
    BY <1>1 DEF Queued
  <2> QED BY <2>1, <2>2 DEF Types
<1> QED BY <1>1, <1>2, <1>3, IdleType DEF Types, Queued, InWork, ShownAvatarExists, Mine

\* The calls of a handler keep it.

LEMMA CheckKeeps ==
    ASSUME ProfileInv, NEW h \in Handlers, Check(h)
    PROVE  ProfileInv'
<1> USE FieldTypes DEF ProfileInv
<1>1. /\ UNCHANGED <<kind, owner, job, upload, public, profile, shown, refused>>
      /\ handler[h].step # "idle"
  BY DEF Check, At
<1>2. PICK s \in {"fetch", "delete", "retry"} : Goto(h, s)
  BY DEF Check, Fails
<1> QED BY <1>1, <1>2, GotoFacts DEF Types, Queued, InWork, ShownAvatarExists, Mine

LEMMA FetchKeeps ==
    ASSUME ProfileInv, NEW h \in Handlers, Fetch(h)
    PROVE  ProfileInv'
<1> USE FieldTypes DEF ProfileInv
<1>1. /\ UNCHANGED <<kind, owner, job, public, profile, shown>> /\ handler[h].step = "fetch"
      /\ handler[h].job \in Jobs /\ Mine(h) \in Users
  BY DEF Fetch, At, Queued, Mine
<1>2. /\ upload' = upload
      /\ refused' \subseteq Pictures /\ refused \subseteq refused'
  BY ProfileAssumption
     DEF Fetch, FetchUpload, FetchNothing, FetchBroken, FetchGoogle, Fails, Types
<1>3. CASE \E s \in {"delete", "retry"} : Goto(h, s)
  BY <1>1, <1>2, <1>3, GotoFacts DEF Types, Queued, InWork, ShownAvatarExists, Mine
<1>4. ASSUME NEW p \in Avatars, NEW s \in {"store", "upsert", "refuse"},
             handler' = [handler EXCEPT ![h].picture = p, ![h].step = s],
             kind[handler[h].job] = "avatar" => s # "upsert" /\ p # None,
             s = "refuse" => p \in refused'
      PROVE  ProfileInv'
  <2> DEFINE new == [handler[h] EXCEPT !.picture = p, !.step = s]
  <2>1. new \in HandlerType /\ new.step = s /\ new.job = handler[h].job /\ new.picture = p
    BY DEF HandlerType
  <2>2. handler' = [handler EXCEPT ![h] = new]
    BY <1>4 DEF Types
  <2> HIDE DEF new
  <2>3. /\ handler' \in [Handlers -> HandlerType] /\ handler'[h] = new
        /\ \A g \in Handlers : g # h => handler'[g] = handler[g]
    BY <2>1, <2>2 DEF Types
  <2>4. Types' /\ Queued' /\ ShownAvatarExists'
    BY <1>1, <1>2, <2>1, <2>3 DEF Types, Queued, ShownAvatarExists
  <2>5. InWork'
    BY <1>1, <1>2, <1>4, <2>1, <2>3 DEF InWork, Mine
  <2> QED BY <2>4, <2>5
<1>5. CASE FetchUpload(h, upload[Mine(h)]) /\ kind[handler[h].job] = "avatar"
  <2>1. upload[Mine(h)] \in Avatars
    BY <1>1 DEF Avatars
  <2> QED BY <1>4, <1>5, <2>1 DEF FetchUpload
<1>6. CASE FetchGoogle(h) /\ kind[handler[h].job] = "google"
  <2>1. "google" \in Avatars
    BY DEF Avatars
  <2> QED BY <1>4, <1>6, <2>1 DEF FetchGoogle
<1>7. CASE FetchBroken(h, upload[Mine(h)])
  <2>1. upload[Mine(h)] \in Avatars /\ upload[Mine(h)] # None
    BY <1>1, <1>7, ProfileAssumption DEF Avatars, FetchBroken
  <2> QED BY <1>4, <1>7, <2>1 DEF FetchBroken
<1> QED BY <1>3, <1>5, <1>6, <1>7 DEF Fetch, FetchNothing, Fails

LEMMA StoreKeeps ==
    ASSUME ProfileInv, NEW h \in Handlers, Store(h)
    PROVE  ProfileInv'
<1> USE FieldTypes DEF ProfileInv
<1>1. /\ UNCHANGED <<kind, owner, job, upload, profile, shown, refused>>
      /\ handler[h].step = "store"
      /\ handler[h].job \in Jobs /\ Mine(h) \in Users
  BY DEF Store, At, Queued, Mine
<1> DEFINE stored == [public EXCEPT ![Mine(h)] = @ \cup {handler[h].picture}]
<1>2. /\ stored \in [Users -> SUBSET Avatars]
      /\ handler[h].picture \in stored[Mine(h)]
      /\ \A u \in Users : public[u] \subseteq stored[u]
  BY <1>1 DEF Types
<1>3. \/ Goto(h, "upsert") /\ public' = stored
      \/ Goto(h, "retry") /\ public' \in {public, stored}
  BY DEF Store, Fails
<1> HIDE DEF stored
<1>4. PICK s \in {"upsert", "retry"} : /\ Goto(h, s) /\ public' \in {public, stored}
                                       /\ s = "upsert" => public' = stored
  BY <1>3
<1>5. /\ public' \in [Users -> SUBSET Avatars]
      /\ \A u \in Users : public[u] \subseteq public'[u]
      /\ s = "upsert" => handler[h].picture \in public'[Mine(h)]
  BY <1>2, <1>4 DEF Types
<1>6. /\ handler' \in [Handlers -> HandlerType]
      /\ handler'[h].step = s /\ handler'[h].job = handler[h].job
      /\ handler'[h].picture = handler[h].picture
      /\ \A g \in Handlers : g # h => handler'[g] = handler[g]
  BY <1>4, GotoFacts
<1>7. Types' /\ Queued'
  BY <1>1, <1>5, <1>6 DEF Types, Queued
<1>8. InWork'
  <2>1. \A g \in Handlers : kind[handler[g].job] = "avatar" /\ handler[g].step # "idle" =>
          Mine(g) \in Users
    BY DEF Queued, Mine
  <2>2. ASSUME NEW g \in Handlers, kind[handler[g].job] = "avatar", g # h
        PROVE  /\ handler[g].step = "store" => handler[g].picture # None
               /\ handler[g].step = "upsert" => /\ handler[g].picture # None
                                                /\ handler[g].picture \in public'[Mine(g)]
               /\ handler[g].step = "remove" => handler[g].picture \in shown[Mine(g)]
    BY <1>5, <2>1, <2>2 DEF InWork
  <2>3. \A g \in Handlers : handler[g].step = "refuse" => handler[g].picture \in refused
    BY DEF InWork
  <2> QED BY <1>1, <1>5, <1>6, <2>2, <2>3 DEF InWork, Mine
<1>9. ShownAvatarExists'
  BY <1>1, <1>5 DEF ShownAvatarExists
<1> QED BY <1>7, <1>8, <1>9

LEMMA UpsertKeeps ==
    ASSUME ProfileInv, NEW h \in Handlers, Upsert(h)
    PROVE  ProfileInv'
<1> USE FieldTypes DEF ProfileInv
<1> DEFINE u == Mine(h)
           w == Written(h)
<1>1. /\ UNCHANGED <<kind, owner, job, upload, public, refused>>
      /\ handler[h].step = "upsert"
      /\ handler[h].job \in Jobs /\ u \in Users
      /\ kind[handler[h].job] \in {"avatar", "google"}
  BY DEF Upsert, At, Queued, Mine
<1>2. /\ w \in ProfileType
      /\ w.avatar # None => w.avatar \in public[u]
      /\ kind[handler[h].job] = "avatar" =>
           w.avatar = handler[h].picture /\ handler[h].picture # None
  <2>1. CASE kind[handler[h].job] = "avatar"
    <3>1. w = [exists |-> TRUE, avatar |-> handler[h].picture, thumbnail |-> handler[h].picture]
      BY <2>1 DEF Written
    <3> HIDE DEF w
    <3>2. w \in ProfileType /\ w.avatar = handler[h].picture
      BY <3>1 DEF ProfileType
    <3> QED BY <1>1, <2>1, <3>2 DEF InWork
  <2>2. CASE kind[handler[h].job] = "google"
    <3>1. w = [profile[u] EXCEPT !.exists = TRUE, !.thumbnail = handler[h].picture]
      BY <2>2 DEF Written
    <3> HIDE DEF w, u
    <3>2. w \in ProfileType /\ w.avatar = profile[u].avatar
      BY <1>1, <3>1 DEF ProfileType
    <3> QED BY <1>1, <2>2, <3>2 DEF ShownAvatarExists
  <2> QED BY <1>1, <2>1, <2>2
<1> DEFINE written == [profile EXCEPT ![u] = w]
           seen == [shown EXCEPT ![u] = @ \cup ({w.avatar} \ {None})]
<1>3. PICK s \in {"remove", "delete", "retry"} :
        /\ Goto(h, s)
        /\ \/ profile' = written /\ shown' = seen
           \/ UNCHANGED <<profile, shown>>
        /\ s = "remove" => shown' = seen
  BY DEF Upsert, Fails
<1> HIDE DEF u, w
<1>4. /\ written \in [Users -> ProfileType] /\ written[u] = w
      /\ \A v \in Users : v # u => written[v] = profile[v]
  BY <1>1, <1>2 DEF Types
<1>5. /\ seen \in [Users -> SUBSET Avatars]
      /\ \A v \in Users : shown[v] \subseteq seen[v]
      /\ w.avatar # None => w.avatar \in seen[u]
  <2>1. w.avatar \in Avatars
    BY <1>2 DEF ProfileType
  <2> QED BY <1>1, <2>1 DEF Types
<1> HIDE DEF written, seen
<1>6. /\ profile' \in [Users -> ProfileType] /\ shown' \in [Users -> SUBSET Avatars]
      /\ \A v \in Users : shown[v] \subseteq shown'[v]
  BY <1>3, <1>4, <1>5 DEF Types
<1>7. /\ handler' \in [Handlers -> HandlerType]
      /\ handler'[h].step = s /\ handler'[h].job = handler[h].job
      /\ handler'[h].picture = handler[h].picture
      /\ \A g \in Handlers : g # h => handler'[g] = handler[g]
  BY <1>3, GotoFacts
<1>8. Types' /\ Queued'
  BY <1>1, <1>6, <1>7 DEF Types, Queued
<1>9. ShownAvatarExists'
  BY <1>1, <1>2, <1>3, <1>4 DEF ShownAvatarExists
<1>10. InWork'
  <2>1. \A g \in Handlers : kind[handler[g].job] = "avatar" /\ handler[g].step # "idle" =>
          Mine(g) \in Users
    BY DEF Queued, Mine
  <2>2. ASSUME NEW g \in Handlers, kind[handler[g].job] = "avatar", g # h
        PROVE  /\ handler[g].step = "store" => handler[g].picture # None
               /\ handler[g].step = "upsert" => /\ handler[g].picture # None
                                                /\ handler[g].picture \in public[Mine(g)]
               /\ handler[g].step = "remove" => handler[g].picture \in shown'[Mine(g)]
    BY <1>6, <2>1, <2>2 DEF InWork
  <2>3. kind[handler[h].job] = "avatar" /\ s = "remove" => handler[h].picture \in shown'[Mine(h)]
    BY <1>2, <1>3, <1>5 DEF u
  <2>4. \A g \in Handlers : handler[g].step = "refuse" => handler[g].picture \in refused
    BY DEF InWork
  <2> QED BY <1>1, <1>7, <2>2, <2>3, <2>4 DEF InWork, Mine
<1> QED BY <1>8, <1>9, <1>10

LEMMA RemoveKeeps ==
    ASSUME ProfileInv, NEW h \in Handlers, Remove(h) \/ Refuse(h)
    PROVE  ProfileInv'
<1> USE FieldTypes DEF ProfileInv
<1>1. /\ UNCHANGED <<kind, owner, job, public, profile, shown, refused>>
      /\ handler[h].step # "idle" /\ Goto(h, "delete")
  BY DEF Remove, Refuse, At
<1>2. upload' \in [Users -> Pictures \cup {None}]
  BY DEF Remove, Refuse, Types
<1> QED BY <1>1, <1>2, GotoFacts DEF Types, Queued, InWork, ShownAvatarExists, Mine

-----------------------------------------------------------------------------
\* The invariant holds initially and every step keeps it.

LEMMA ProfileInit == Init => ProfileInv
<1> SUFFICES ASSUME Init PROVE ProfileInv
  OBVIOUS
<1>1. NoProfile \in ProfileType /\ NoProfile.avatar = None
  BY DEF NoProfile, ProfileType, Avatars
<1>2. Types
  BY <1>1, IdleType DEF Init, Types
<1>3. /\ \A h \in Handlers : handler[h].step = "idle"
      /\ \A u \in Users : profile[u].avatar = None
      /\ \A j \in Jobs : job[j] = "none" /\ kind[j] = None
  BY <1>1, IdleType DEF Init
<1> QED BY <1>2, <1>3 DEF ProfileInv, Queued, InWork, ShownAvatarExists

LEMMA ProfileNext == ProfileInv /\ [Next]_vars => ProfileInv'
<1> SUFFICES ASSUME ProfileInv, [Next]_vars PROVE ProfileInv'
  OBVIOUS
<1>1. ASSUME NEW u \in Users,
             RequestUpload(u) \/ SignIn(u) \/ Post(u) \/ Expire(u) \/ Edit(u)
      PROVE  ProfileInv'
  BY <1>1, UsersKeep
<1>2. ASSUME NEW h \in Handlers, Work(h) PROVE ProfileInv'
  BY <1>2, CheckKeeps, FetchKeeps, StoreKeeps, UpsertKeeps, RemoveKeeps, SettleKeeps DEF Work
<1>3. ASSUME NEW j \in Jobs, Take(j) \/ Lapse(j) PROVE ProfileInv'
  BY <1>3, QueueKeeps
<1>4. CASE UNCHANGED vars
  BY <1>4 DEF vars, ProfileInv, Types, Queued, InWork, ShownAvatarExists, Mine
<1> QED BY <1>1, <1>2, <1>3, <1>4 DEF Next

\* Every state of the specification satisfies the invariant (ProfileUpdate).
THEOREM ProfilesAreSound == Spec => []ProfileInv
BY ProfileInit, ProfileNext, PTL DEF Spec

\* The avatar of a profile is stored where everybody can read it, at every moment
\* (Updater.Update).
THEOREM AvatarsExist == Spec => []ShownAvatarExists
<1>1. ProfileInv => ShownAvatarExists
  BY DEF ProfileInv
<1> QED BY <1>1, ProfilesAreSound, PTL

\* A file is removed only when it was used or refused, or when it took the place of
\* another after a handler had read that one (Updater.Update, fetchImage, cleanupObject).
THEOREM FilesAreUsed == Spec => RemovedWasUsed
<1> DEFINE Used == \A u \in Users : upload[u] # None /\ upload'[u] = None =>
             \/ upload[u] \in shown[u] \cup refused
             \/ \E h \in Handlers : RemovesUnread(h, u)
<1>1. ProfileInv /\ [Next]_vars => [Used]_vars
  <2> SUFFICES ASSUME ProfileInv, Next, NEW u \in Users, upload[u] # None, upload'[u] = None
               PROVE  \/ upload[u] \in shown[u] \cup refused
                      \/ \E h \in Handlers : RemovesUnread(h, u)
    OBVIOUS
  <2> USE FieldTypes DEF ProfileInv
  \* Whoever removes a file knows what becomes of the picture it has read.
  <2>1. CASE \E h \in Handlers : Remove(h) \/ Refuse(h)
    <3>1. PICK h \in Handlers : Remove(h) \/ Refuse(h)
      BY <2>1
    <3>2. /\ \/ At(h, "remove") /\ kind[handler[h].job] = "avatar"
             \/ At(h, "refuse")
          /\ Goto(h, "delete")
          /\ upload' = [upload EXCEPT ![Mine(h)] = None]
      BY <3>1 DEF Remove, Refuse
    <3>3. u = Mine(h)
      BY <3>2 DEF Types
    <3>4. handler'[h].step = "delete"
      BY <3>2, GotoFacts
    <3>5. handler[h].picture \in shown[u] \cup refused
      BY <3>2, <3>3 DEF InWork, At
    <3>6. CASE handler[h].picture = upload[u]
      BY <3>5, <3>6
    <3>7. CASE handler[h].picture # upload[u]
      BY <3>2, <3>3, <3>4, <3>7 DEF RemovesUnread
    <3> QED BY <3>6, <3>7
  <2>2. CASE \E v \in Users : Post(v)
    <3>1. PICK v \in Users, p \in Pictures : upload' = [upload EXCEPT ![v] = p]
      BY <2>2 DEF Post
    <3> QED BY <3>1, ProfileAssumption DEF Types
  <2>3. CASE ~((\E h \in Handlers : Remove(h) \/ Refuse(h)) \/ \E v \in Users : Post(v))
    BY <2>3 DEF Next, RequestUpload, SignIn, Put, Expire, Edit, Work, Check, Fetch,
                FetchUpload, FetchNothing, FetchBroken, FetchGoogle, Store, Upsert,
                Settle, Take, Reserve, Lapse
  <2> QED BY <2>1, <2>2, <2>3
<1> QED BY <1>1, ProfilesAreSound, PTL DEF Spec, RemovedWasUsed
=============================================================================
