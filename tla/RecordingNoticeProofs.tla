----------------------- MODULE RecordingNoticeProofs -----------------------
(***************************************************************************)
(* Proofs about the catalog of confas and talks, under the specification   *)
(* of RecordingNotice and for any number of users, confas, talks and       *)
(* requests in progress: talks are their owner's, and a confa is not       *)
(* deleted from under them.                                                *)
(***************************************************************************)
EXTENDS RecordingNotice, TLAPS

States == {"unborn", "live", "gone"}

ConfaType == [state : States, owner : Users \cup {None}, handle : Handles \cup {None}]

TalkType == [state : States, owner : Users \cup {None}, confa : Confas \cup {None}]

RequestType ==
    [step : {"idle", "room", "insert", "talks", "confa"}, user : Users \cup {None},
     where : Lookups \cup {Anything}, confa : Confas \cup {None}, talk : Talks \cup {None}]

Types ==
    /\ confa \in [Confas -> ConfaType]
    /\ talk \in [Talks -> TalkType]
    /\ request \in [Requests -> RequestType]

Created(c) == c \in Confas /\ confa[c].state # "unborn"

\* A talk is of a confa that was created, by its owner, and has a room.
OfConfas ==
    \A t \in Talks : talk[t].state # "unborn" =>
        /\ Created(talk[t].confa) /\ t \in rooms
        /\ talk[t].owner = confa[talk[t].confa].owner

\* So is the talk that a request is about to insert; a request that deletes a confa
\* has deleted its talks.
Prepared ==
    \A q \in Requests :
        /\ request[q].step \in {"room", "insert"} =>
             /\ request[q].talk \in Talks /\ Created(request[q].confa)
             /\ request[q].user = confa[request[q].confa].owner
        /\ request[q].step = "insert" => request[q].talk \in rooms
        /\ request[q].step \in {"talks", "confa"} => request[q].confa \in Confas
        /\ request[q].step = "confa" => request[q].confa \in swept

\* The talks of a confa that was swept came late, and a confa that is gone was swept
\* or is a stray.
Swept ==
    /\ \A t \in Talks : Exists(talk[t]) /\ talk[t].confa \in swept => t \in late
    /\ \A c \in Confas : confa[c].state = "gone" => c \in swept \cup strays

CatalogInv == Types /\ OfConfas /\ Prepared /\ Swept

-----------------------------------------------------------------------------
\* The fields of confas, talks and requests have the types of their records.
LEMMA FieldTypes ==
    ASSUME Types
    PROVE  /\ \A c \in Confas : /\ confa[c] \in ConfaType /\ confa[c].state \in States
                                /\ confa[c].owner \in Users \cup {None}
           /\ \A t \in Talks : talk[t] \in TalkType /\ talk[t].state \in States
           /\ \A q \in Requests : request[q] \in RequestType
BY DEF Types, ConfaType, TalkType, RequestType

\* A request that ends leaves what is said of the others.
LEMMA EndFacts ==
    ASSUME Types, NEW q \in Requests, End(q)
    PROVE  /\ request' \in [Requests -> RequestType] /\ request'[q].step = "idle"
           /\ \A p \in Requests : p # q => request'[p] = request[p]
<1>1. NoRequest \in RequestType /\ NoRequest.step = "idle"
  BY DEF NoRequest, RequestType
<1> QED BY <1>1 DEF End, Types

\* A confa changes and neither its owner nor whether it was created does.
LEMMA ConfaChanges ==
    ASSUME CatalogInv, confa' \in [Confas -> ConfaType],
           \A c \in Confas : confa[c].state # "unborn" =>
               confa'[c].state # "unborn" /\ confa'[c].owner = confa[c].owner,
           \A c \in Confas : confa'[c].state = "gone" => c \in swept \cup strays',
           request' \in [Requests -> RequestType],
           \A q \in Requests : request'[q] = request[q] \/ request'[q].step = "idle",
           UNCHANGED <<talk, rooms, swept, late>>
    PROVE  CatalogInv'
<1> USE FieldTypes DEF CatalogInv
<1>1. Types'
  BY DEF Types
<1>2. OfConfas'
  BY DEF OfConfas, Created
<1>3. Prepared'
  <2> SUFFICES ASSUME NEW q \in Requests, request'[q] = request[q]
               PROVE  /\ request[q].step \in {"room", "insert"} =>
                           /\ request[q].talk \in Talks
                           /\ request[q].confa \in Confas
                           /\ confa'[request[q].confa].state # "unborn"
                           /\ request[q].user = confa'[request[q].confa].owner
                      /\ request[q].step = "insert" => request[q].talk \in rooms'
                      /\ request[q].step \in {"talks", "confa"} => request[q].confa \in Confas
                      /\ request[q].step = "confa" => request[q].confa \in swept'
    BY DEF Prepared, Created
  <2> QED BY DEF Prepared, Created
<1>4. Swept'
  BY DEF Swept
<1> QED BY <1>1, <1>2, <1>3, <1>4

\* Talks that are there are deleted; they keep their owner and their confa.
LEMMA TalksEnd ==
    ASSUME Types, NEW ts, \A t \in Talks : t \in ts => Exists(talk[t]),
           talk' = [t \in Talks |-> IF t \in ts THEN [talk[t] EXCEPT !.state = "gone"]
                                                ELSE talk[t]]
    PROVE  /\ talk' \in [Talks -> TalkType]
           /\ \A t \in Talks : /\ t \in ts => ~Exists(talk'[t])
                               /\ talk'[t].owner = talk[t].owner
                               /\ talk'[t].confa = talk[t].confa
                               /\ talk'[t].state # "unborn" <=> talk[t].state # "unborn"
                               /\ Exists(talk'[t]) => Exists(talk[t])
<1> USE FieldTypes
<1>1. \A t \in Talks : [talk[t] EXCEPT !.state = "gone"] \in TalkType
  BY DEF TalkType, States
<1>2. talk' \in [Talks -> TalkType]
  BY <1>1 DEF Types
<1>3. \A t \in Talks : /\ t \in ts => talk'[t] = [talk[t] EXCEPT !.state = "gone"]
                       /\ t \notin ts => talk'[t] = talk[t]
  OBVIOUS
<1> QED BY <1>2, <1>3 DEF TalkType, Exists

\* The step of a user.
LEMMA UserKeeps ==
    ASSUME CatalogInv, NEW u \in Users, CreateConfa(u) \/ UpdateConfa(u) \/ DeleteTalk(u)
    PROVE  CatalogInv'
<1> USE FieldTypes DEF CatalogInv
<1>1. CASE CreateConfa(u)
  <2>1. PICK c \in Confas, h \in Handles \cup {None} :
          /\ confa[c] = Unborn
          /\ confa' = [confa EXCEPT ![c] = [state |-> "live", owner |-> u, handle |-> h]]
    BY <1>1 DEF CreateConfa
  <2>2. [state |-> "live", owner |-> u, handle |-> h] \in ConfaType
    BY DEF ConfaType, States
  <2>3. /\ confa' \in [Confas -> ConfaType] /\ confa'[c].state = "live"
        /\ \A d \in Confas : d # c => confa'[d] = confa[d]
    BY <2>1, <2>2 DEF Types
  <2>4. confa[c].state = "unborn"
    BY <2>1 DEF Unborn
  <2>5. UNCHANGED <<request, talk, rooms, swept, late, strays>> /\ request \in [Requests -> RequestType]
    BY <1>1 DEF CreateConfa, Types
  <2> QED BY <2>3, <2>4, <2>5, ConfaChanges DEF Swept
<1>2. CASE UpdateConfa(u)
  <2>1. PICK h \in Handles, c \in Confas : confa' = [confa EXCEPT ![c].handle = h]
    BY <1>2 DEF UpdateConfa, Finds
  <2>2. /\ [confa[c] EXCEPT !.handle = h] \in ConfaType
        /\ [confa[c] EXCEPT !.handle = h].state = confa[c].state
        /\ [confa[c] EXCEPT !.handle = h].owner = confa[c].owner
    BY DEF ConfaType
  <2>3. /\ confa' \in [Confas -> ConfaType]
        /\ confa'[c].state = confa[c].state /\ confa'[c].owner = confa[c].owner
        /\ \A d \in Confas : d # c => confa'[d] = confa[d]
    BY <2>1, <2>2 DEF Types
  <2>4. UNCHANGED <<request, talk, rooms, swept, late, strays>> /\ request \in [Requests -> RequestType]
    BY <1>2 DEF UpdateConfa, Types
  <2> QED BY <2>3, <2>4, ConfaChanges DEF Swept
<1>3. CASE DeleteTalk(u)
  <2>1. PICK ts : /\ \A t \in Talks : t \in ts => Exists(talk[t])
                  /\ talk' = [t \in Talks |-> IF t \in ts THEN [talk[t] EXCEPT !.state = "gone"]
                                                          ELSE talk[t]]
    BY <1>3 DEF DeleteTalk
  <2>2. UNCHANGED <<confa, request, rooms, swept, late, strays>>
    BY <1>3 DEF DeleteTalk
  <2>3. /\ talk' \in [Talks -> TalkType]
        /\ \A t \in Talks : /\ talk'[t].owner = talk[t].owner
                            /\ talk'[t].confa = talk[t].confa
                            /\ talk'[t].state # "unborn" <=> talk[t].state # "unborn"
                            /\ Exists(talk'[t]) => Exists(talk[t])
    BY <2>1, TalksEnd
  <2>4. Types' /\ OfConfas' /\ Swept'
    BY <2>2, <2>3 DEF Types, OfConfas, Created, Swept
  <2>5. Prepared'
    BY <2>2 DEF Prepared, Created
  <2> QED BY <2>4, <2>5
<1> QED BY <1>1, <1>2, <1>3

\* The step that begins a request: what it has found exists.
LEMMA StartsKeep ==
    ASSUME CatalogInv, NEW q \in Requests, NEW u \in Users, StartTalk(q, u) \/ StartDelete(q, u)
    PROVE  CatalogInv'
<1> USE FieldTypes DEF CatalogInv
<1>1. PICK s \in {"room", "talks"}, where \in Lookups \cup {Anything}, c \in Confas,
           t \in Talks \cup {None} :
        /\ Exists(confa[c]) /\ confa[c].owner = u /\ (s = "room" => t \in Talks)
        /\ request' = [request EXCEPT ![q] =
              [step |-> s, user |-> u, where |-> where, confa |-> c, talk |-> t]]
  <2>1. CASE StartTalk(q, u)
    BY <2>1 DEF StartTalk, Finds
  <2>2. CASE StartDelete(q, u)
    <3>1. PICK where \in Lookups, c \in Confas :
            /\ Finds(u, where) = {c}
            /\ request' = [request EXCEPT ![q] =
                  [step |-> "talks", user |-> u, where |-> where, confa |-> c, talk |-> None]]
      BY <2>2 DEF StartDelete
    <3>2. c \in Finds(u, where)
      BY <3>1
    <3> QED BY <3>1, <3>2 DEF Finds
  <2> QED BY <2>1, <2>2
<1> DEFINE r == [step |-> s, user |-> u, where |-> where, confa |-> c, talk |-> t]
<1>2. /\ r \in RequestType
      /\ r.step = s /\ r.user = u /\ r.confa = c /\ r.talk = t
  BY DEF RequestType
<1> HIDE DEF r
<1>3. /\ request' \in [Requests -> RequestType] /\ request'[q] = r
      /\ \A p \in Requests : p # q => request'[p] = request[p]
  BY <1>1, <1>2 DEF Types, r
<1>4. UNCHANGED <<confa, talk, rooms, swept, late, strays>>
  BY DEF StartTalk, StartDelete
<1> QED BY <1>1, <1>2, <1>3, <1>4 DEF Types, OfConfas, Created, Prepared, Swept, Exists

LEMMA CreateRoomKeeps ==
    ASSUME CatalogInv, NEW q \in Requests, CreateRoom(q)
    PROVE  CatalogInv'
<1> USE FieldTypes DEF CatalogInv
<1>1. /\ UNCHANGED <<confa, talk, swept, late, strays>> /\ request[q].step = "room"
      /\ rooms \subseteq rooms'
  BY DEF CreateRoom, At
<1>2. CASE End(q)
  BY <1>1, <1>2, EndFacts DEF Types, OfConfas, Created, Prepared, Swept
<1>3. CASE /\ request' = [request EXCEPT ![q].step = "insert"]
           /\ rooms' = rooms \cup {request[q].talk}
  <2> DEFINE r == [request[q] EXCEPT !.step = "insert"]
  <2>1. /\ r \in RequestType /\ r.step = "insert" /\ r.talk = request[q].talk
        /\ r.confa = request[q].confa /\ r.user = request[q].user
    BY DEF RequestType
  <2>2. request' = [request EXCEPT ![q] = r]
    BY <1>3 DEF Types
  <2> HIDE DEF r
  <2>3. /\ request' \in [Requests -> RequestType] /\ request'[q] = r
        /\ \A p \in Requests : p # q => request'[p] = request[p]
    BY <2>1, <2>2 DEF Types
  <2> QED BY <1>1, <1>3, <2>1, <2>3 DEF Types, OfConfas, Created, Prepared, Swept
<1> QED BY <1>2, <1>3 DEF CreateRoom

LEMMA InsertTalkKeeps ==
    ASSUME CatalogInv, NEW q \in Requests, InsertTalk(q)
    PROVE  CatalogInv'
<1> USE FieldTypes DEF CatalogInv
<1> DEFINE t == request[q].talk
           c == request[q].confa
           new == [state |-> "live", owner |-> request[q].user, confa |-> c]
<1>1. /\ UNCHANGED <<confa, rooms, swept, strays>>
      /\ t \in Talks /\ t \in rooms /\ Created(c) /\ request[q].user = confa[c].owner
  BY DEF InsertTalk, At, Prepared
<1>2. /\ new \in TalkType
      /\ new.state = "live" /\ new.owner = confa[c].owner /\ new.confa = c
  BY <1>1 DEF TalkType, States, Created
<1>3. /\ request' \in [Requests -> RequestType] /\ request'[q].step = "idle"
      /\ \A p \in Requests : p # q => request'[p] = request[p]
  BY EndFacts DEF InsertTalk
<1>4. CASE UNCHANGED <<talk, late>>
  BY <1>1, <1>3, <1>4 DEF Types, OfConfas, Created, Prepared, Swept
<1>5. CASE talk' = [talk EXCEPT ![t] = new] /\ late' = IF c \in swept THEN late \cup {t} ELSE late
  <2> HIDE DEF new, t, c
  <2>1. /\ talk' \in [Talks -> TalkType] /\ talk'[t] = new
        /\ \A x \in Talks : x # t => talk'[x] = talk[x]
    BY <1>1, <1>2, <1>5 DEF Types
  <2>2. late \subseteq late' /\ (c \in swept => t \in late')
    BY <1>5
  <2>3. Types' /\ OfConfas'
    BY <1>1, <1>2, <1>3, <2>1 DEF Types, OfConfas, Created
  <2>4. Prepared'
    BY <1>1, <1>3 DEF Prepared, Created
  <2>5. Swept'
    BY <1>1, <1>2, <2>1, <2>2 DEF Swept
  <2> QED BY <2>3, <2>4, <2>5
<1> QED BY <1>4, <1>5 DEF InsertTalk

LEMMA SweepTalksKeeps ==
    ASSUME CatalogInv, NEW q \in Requests, SweepTalks(q)
    PROVE  CatalogInv'
<1> USE FieldTypes DEF CatalogInv
<1> DEFINE c == request[q].confa
           ts == {t \in Talks : Exists(talk[t]) /\ talk[t].confa = c}
<1>1. UNCHANGED <<confa, rooms, late, strays>> /\ request[q].step = "talks" /\ c \in Confas
  BY DEF SweepTalks, At, Prepared
<1>2. talk' = Sweep(c) =>
        /\ talk' \in [Talks -> TalkType]
        /\ \A t \in Talks : /\ t \in ts => ~Exists(talk'[t])
                            /\ talk'[t].owner = talk[t].owner
                            /\ talk'[t].confa = talk[t].confa
                            /\ talk'[t].state # "unborn" <=> talk[t].state # "unborn"
                            /\ Exists(talk'[t]) => Exists(talk[t])
  <2>1. /\ Sweep(c) = [t \in Talks |-> IF t \in ts THEN [talk[t] EXCEPT !.state = "gone"]
                                                   ELSE talk[t]]
        /\ \A t \in Talks : t \in ts => Exists(talk[t])
    BY DEF Sweep
  <2> QED BY <2>1, TalksEnd
<1>3. CASE /\ talk' = Sweep(c) /\ swept' = swept \cup {c}
           /\ request' = [request EXCEPT ![q].step = "confa"]
  <2> DEFINE r == [request[q] EXCEPT !.step = "confa"]
  <2>1. r \in RequestType /\ r.step = "confa" /\ r.confa = c
    BY DEF RequestType
  <2>2. request' = [request EXCEPT ![q] = r]
    BY <1>3 DEF Types
  <2> HIDE DEF r, c
  <2>3. /\ request' \in [Requests -> RequestType] /\ request'[q] = r
        /\ \A p \in Requests : p # q => request'[p] = request[p]
    BY <2>1, <2>2 DEF Types
  <2>4. Types' /\ OfConfas'
    BY <1>1, <1>2, <1>3, <2>3 DEF Types, OfConfas, Created
  <2>5. Prepared'
    <3>1. \A p \in Requests : request'[p].step = "confa" => request'[p].confa \in swept'
      <4>1. r.confa \in swept'
        BY <1>3, <2>1
      <4>2. \A p \in Requests : request[p].step = "confa" => request[p].confa \in swept'
        BY <1>3 DEF Prepared
      <4> QED BY <2>3, <4>1, <4>2
    <3> QED BY <1>1, <2>1, <2>3, <3>1 DEF Prepared, Created
  <2>6. Swept'
    BY <1>1, <1>2, <1>3 DEF Swept
  <2> QED BY <2>4, <2>5, <2>6
<1>4. CASE End(q) /\ talk' \in {talk, Sweep(c)} /\ UNCHANGED swept
  <2> HIDE DEF c, ts
  <2>1. /\ talk' \in [Talks -> TalkType]
        /\ \A t \in Talks : /\ talk'[t].owner = talk[t].owner
                            /\ talk'[t].confa = talk[t].confa
                            /\ talk'[t].state # "unborn" <=> talk[t].state # "unborn"
                            /\ Exists(talk'[t]) => Exists(talk[t])
    BY <1>2, <1>4 DEF Types
  <2>2. Types' /\ OfConfas' /\ Swept'
    BY <1>1, <1>4, <2>1, EndFacts DEF Types, OfConfas, Created, Swept
  <2>3. Prepared'
    BY <1>1, <1>4, EndFacts DEF Prepared, Created
  <2> QED BY <2>2, <2>3
<1> QED BY <1>3, <1>4 DEF SweepTalks

LEMMA RemoveConfaKeeps ==
    ASSUME CatalogInv, NEW q \in Requests, RemoveConfa(q)
    PROVE  CatalogInv'
<1> USE FieldTypes DEF CatalogInv
<1> DEFINE found == Finds(request[q].user, request[q].where)
           Gone(c) == [Unborn EXCEPT !.state = "gone", !.owner = confa[c].owner]
<1>1. /\ UNCHANGED <<talk, rooms, swept, late>> /\ End(q)
      /\ request[q].confa \in swept
  BY DEF RemoveConfa, At, Prepared
<1>2. /\ request' \in [Requests -> RequestType]
      /\ \A p \in Requests : request'[p] = request[p] \/ request'[p].step = "idle"
  BY <1>1, EndFacts
<1>3. CASE UNCHANGED <<confa, strays>>
  BY <1>1, <1>2, <1>3, ConfaChanges DEF Types, Swept
<1>4. CASE /\ confa' = [c \in Confas |-> IF c \in found THEN Gone(c) ELSE confa[c]]
           /\ strays' = strays \cup (found \ {request[q].confa})
  <2>1. \A c \in Confas : /\ Gone(c) \in ConfaType
                          /\ Gone(c).state = "gone" /\ Gone(c).owner = confa[c].owner
    BY DEF Unborn, ConfaType, States
  <2> HIDE DEF found, Gone
  <2>2. /\ confa' \in [Confas -> ConfaType]
        /\ \A c \in Confas : /\ c \in found => confa'[c] = Gone(c)
                             /\ c \notin found => confa'[c] = confa[c]
    BY <1>4, <2>1 DEF Types
  <2>3. \A c \in Confas : confa[c].state # "unborn" =>
          confa'[c].state # "unborn" /\ confa'[c].owner = confa[c].owner
    BY <2>1, <2>2
  <2>4. \A c \in Confas : confa'[c].state = "gone" => c \in swept \cup strays'
    BY <1>1, <1>4, <2>2 DEF Swept
  <2> QED BY <1>1, <1>2, <2>2, <2>3, <2>4, ConfaChanges
<1> QED BY <1>3, <1>4 DEF RemoveConfa

-----------------------------------------------------------------------------
\* The invariant holds initially and every step keeps it: those of the messages
\* leave the catalog alone.

LEMMA CatalogInitially == Init => CatalogInv
<1> SUFFICES ASSUME CatalogInit PROVE CatalogInv
  BY DEF Init
<1>1. /\ \A c \in Confas : confa[c] = Unborn
      /\ \A t \in Talks : talk[t] = NoTalk
      /\ \A q \in Requests : request[q] = NoRequest
  BY DEF CatalogInit
<1>2. Unborn \in ConfaType /\ NoTalk \in TalkType /\ NoRequest \in RequestType
  BY DEF Unborn, NoTalk, NoRequest, ConfaType, TalkType, RequestType, States
<1>3. Types
  BY <1>2 DEF CatalogInit, Types
<1>4. OfConfas /\ Prepared /\ Swept
  BY <1>1 DEF OfConfas, Prepared, Swept, Exists, Unborn, NoTalk, NoRequest
<1> QED BY <1>3, <1>4 DEF CatalogInv

LEMMA CatalogKeeps == CatalogInv /\ [Next]_vars => CatalogInv'
<1> SUFFICES ASSUME CatalogInv, [Next]_vars PROVE CatalogInv'
  OBVIOUS
<1>1. ASSUME NEW u \in Users, CreateConfa(u) \/ UpdateConfa(u) \/ DeleteTalk(u)
      PROVE  CatalogInv'
  BY <1>1, UserKeeps
<1>2. ASSUME NEW q \in Requests, NEW u \in Users, StartTalk(q, u) \/ StartDelete(q, u)
      PROVE  CatalogInv'
  BY <1>2, StartsKeep
<1>3. ASSUME NEW q \in Requests, CreateRoom(q) PROVE CatalogInv'
  BY <1>3, CreateRoomKeeps
<1>4. ASSUME NEW q \in Requests, InsertTalk(q) PROVE CatalogInv'
  BY <1>4, InsertTalkKeeps
<1>5. ASSUME NEW q \in Requests, SweepTalks(q) PROVE CatalogInv'
  BY <1>5, SweepTalksKeeps
<1>6. ASSUME NEW q \in Requests, RemoveConfa(q) PROVE CatalogInv'
  BY <1>6, RemoveConfaKeeps
<1>7. ASSUME NEW q \in Requests, Crash(q) PROVE CatalogInv'
  BY <1>7, EndFacts DEF Crash, CatalogInv, Types, OfConfas, Created, Prepared, Swept
<1>8. CASE Kept
  BY <1>8 DEF Kept, CatalogInv, Types, OfConfas, Created, Prepared, Swept
<1>9. CASE CatalogStep
  BY <1>1, <1>2, <1>3, <1>4, <1>5, <1>6, <1>7, <1>9 DEF CatalogStep, CatalogNext
<1>10. CASE UNCHANGED vars \/ \E t \in Talks : Processed(t) \/ Notice(t)
  <2>1. Kept
    BY <1>10 DEF vars, catalogVars, Kept, Processed, Notice, Take, Handle, FetchTalk,
                 FetchConfa, Send, Settle, Lapse, Mail
  <2> QED BY <1>8, <2>1
<1> QED BY <1>9, <1>10 DEF Next

\* Every state of the specification satisfies the invariant (ConfaCatalog).
THEOREM CatalogIsSound == Spec => []CatalogInv
BY CatalogInitially, CatalogKeeps, PTL DEF Spec

\* A confa is deleted after its talks: one that lost its confa came late or was of a
\* confa that another lookup found (talk.User.DeleteConfa).
THEOREM TalksAreNotOrphaned == Spec => []TalksGoFirst
<1>1. CatalogInv => TalksGoFirst
  BY FieldTypes DEF CatalogInv, OfConfas, Created, Swept, TalksGoFirst, Exists, States
<1> QED BY <1>1, CatalogIsSound, PTL

\* A talk is of the owner of its confa and has its room, whatever users create,
\* rename and delete meanwhile (talk.User.Create, DeleteConfa).
THEOREM TalksKeepTheirOwner == Spec => []TalksAreTheOwners
<1>1. CatalogInv => TalksAreTheOwners
  BY DEF CatalogInv, OfConfas, TalksAreTheOwners
<1> QED BY <1>1, CatalogIsSound, PTL
=============================================================================
