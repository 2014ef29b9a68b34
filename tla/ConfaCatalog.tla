---------------------------- MODULE ConfaCatalog ----------------------------
(***************************************************************************)
(* Confas and their talks: requests of users that create, rename and       *)
(* delete them while others do.  A request is a sequence of calls to Mongo *)
(* and to the RTC service with nothing that holds them together.           *)
(*                                                                         *)
(* A room is named by the talk it was created for.  Titles, descriptions   *)
(* and the handles of talks play no part; handles of confas do, because    *)
(* requests look confas up by them.                                        *)
(***************************************************************************)
EXTENDS Integers, FiniteSets

CONSTANTS Users,
          Confas,     \* ids, each given to one confa
          Talks,      \* ids, each given to one request for a talk
          Handles,    \* handles that users give to confas
          Requests,   \* requests in progress at a time
          MaxFaults   \* bound: failed calls

ASSUME CatalogAssumption == MaxFaults \in Nat

VARIABLES confa,    \* per id: not created, the confa, or gone
          talk,     \* per id: not created, the talk, or gone
          rooms,    \* talks whose room was created
          request,  \* per request: what it does and what it has read
          swept,    \* confas whose talks were deleted with them
          late,     \* talks inserted into such a confa
          strays,   \* confas deleted by a request that had found another
          faults

catalogVars == <<confa, talk, rooms, request, swept, late, strays, faults>>

None == "none"
Unborn == [state |-> "unborn", owner |-> None, handle |-> None]
NoTalk == [state |-> "unborn", owner |-> None, confa |-> None]
Anything == [id |-> None, handle |-> None]
NoRequest == [step |-> "idle", user |-> None, where |-> Anything,
              confa |-> None, talk |-> None]

CatalogInit ==
    /\ confa = [c \in Confas |-> Unborn]
    /\ talk = [t \in Talks |-> NoTalk]
    /\ rooms = {}
    /\ request = [q \in Requests |-> NoRequest]
    /\ swept = {} /\ late = {} /\ strays = {}
    /\ faults = 0

Fault == faults < MaxFaults /\ faults' = faults + 1

Exists(x) == x.state = "live"

\* What a request can be given: an id, a handle, or nothing at all.
Lookups == [id : Confas, handle : {None}] \cup [id : {None}, handle : Handles \cup {None}]

\* Variant: the owner is no part of the lookup.
FindsAny(u, where) ==
    {c \in Confas : /\ Exists(confa[c])
                    /\ where.id \in {None, c}
                    /\ where.handle \in {None, confa[c].handle}}

\* confa.mongoFilter with the owner that every operation of a user puts in it.
Finds(u, where) ==
    {c \in Confas : /\ Exists(confa[c]) /\ confa[c].owner = u
                    /\ where.id \in {None, c}
                    /\ where.handle \in {None, confa[c].handle}}

\* The unique index on handles; a confa that is given none has one of its own.
Free(h, c) ==
    h = None \/ \A d \in Confas \ {c} : ~(Exists(confa[d]) /\ confa[d].handle = h)

-----------------------------------------------------------------------------
(* Operations of one call                                                   *)

CreateConfa(u) ==
    /\ \E c \in Confas, h \in Handles \cup {None} :
          /\ confa[c] = Unborn /\ Free(h, c)
          /\ confa' = [confa EXCEPT ![c] = [state |-> "live", owner |-> u, handle |-> h]]
    /\ UNCHANGED <<talk, rooms, request, swept, late, strays, faults>>

\* FindOneAndUpdate: of several that match, any one.
UpdateConfa(u) ==
    /\ \E where \in Lookups, h \in Handles : \E c \in Finds(u, where) :
          Free(h, c) /\ confa' = [confa EXCEPT ![c].handle = h]
    /\ UNCHANGED <<talk, rooms, request, swept, late, strays, faults>>

\* DeleteMany over the talks of the user: one, those of a confa, or all (the
\* filter knows no speaker).
DeleteTalk(u) ==
    /\ \E ids \in {{t} : t \in Talks} \cup {Talks}, c \in Confas \cup {None} :
          LET found == {t \in ids : /\ Exists(talk[t]) /\ talk[t].owner = u
                                    /\ c \in {None, talk[t].confa}}
          IN  /\ found # {}
              /\ talk' = [t \in Talks |->
                    IF t \in found THEN [talk[t] EXCEPT !.state = "gone"] ELSE talk[t]]
    /\ UNCHANGED <<confa, rooms, request, swept, late, strays, faults>>

-----------------------------------------------------------------------------
(* talk.User.Create                                                         *)

At(q, s) == request[q].step = s
End(q) == request' = [request EXCEPT ![q] = NoRequest]

\* The lookup has a limit of one: of several confas that match it takes one and
\* reports no ambiguity.
StartTalk(q, u) ==
    /\ At(q, "idle")
    /\ \E where \in Lookups, t \in Talks : \E c \in Finds(u, where) :
          /\ talk[t] = NoTalk /\ t \notin rooms
          /\ \A p \in Requests : request[p].talk # t
          /\ request' = [request EXCEPT ![q] =
                [step |-> "room", user |-> u, where |-> Anything, confa |-> c, talk |-> t]]
    /\ UNCHANGED <<confa, talk, rooms, swept, late, strays, faults>>

\* The call of the RTC service may fail when the room is created.
CreateRoom(q) ==
    /\ At(q, "room")
    /\ \/ /\ request' = [request EXCEPT ![q].step = "insert"]
          /\ rooms' = rooms \cup {request[q].talk}
          /\ UNCHANGED faults
       \/ Fault /\ End(q) /\ rooms' \in {rooms, rooms \cup {request[q].talk}}
    /\ UNCHANGED <<confa, talk, swept, late, strays>>

\* The confa is as it was found; its handle may be taken, or the call fail.
InsertTalk(q) ==
    /\ At(q, "insert")
    /\ LET t == request[q].talk
           c == request[q].confa
       IN \/ /\ talk' = [talk EXCEPT ![t] =
                  [state |-> "live", owner |-> request[q].user, confa |-> c]]
             /\ late' = IF c \in swept THEN late \cup {t} ELSE late
             /\ UNCHANGED faults
          \/ Fault /\ UNCHANGED <<talk, late>>
    /\ End(q)
    /\ UNCHANGED <<confa, rooms, swept, strays>>

-----------------------------------------------------------------------------
(* talk.User.DeleteConfa                                                    *)

StartDelete(q, u) ==
    /\ At(q, "idle")
    /\ \E where \in Lookups : \E c \in Confas :
          /\ Finds(u, where) = {c}
          /\ request' = [request EXCEPT ![q] =
                [step |-> "talks", user |-> u, where |-> where, confa |-> c, talk |-> None]]
    /\ UNCHANGED <<confa, talk, rooms, swept, late, strays, faults>>

Sweep(c) == [t \in Talks |-> IF Exists(talk[t]) /\ talk[t].confa = c
                             THEN [talk[t] EXCEPT !.state = "gone"] ELSE talk[t]]

\* Variant: the request goes on when the talks could not be deleted.
SweepTalksUnchecked(q) ==
    /\ At(q, "talks")
    /\ swept' = swept \cup {request[q].confa}
    /\ request' = [request EXCEPT ![q].step = "confa"]
    /\ \/ talk' = Sweep(request[q].confa) /\ UNCHANGED faults
       \/ Fault /\ UNCHANGED talk
    /\ UNCHANGED <<confa, rooms, late, strays>>

SweepTalks(q) ==
    /\ At(q, "talks")
    /\ LET c == request[q].confa IN
       \/ /\ talk' = Sweep(c) /\ swept' = swept \cup {c}
          /\ request' = [request EXCEPT ![q].step = "confa"]
          /\ UNCHANGED faults
       \/ Fault /\ End(q) /\ talk' \in {talk, Sweep(c)} /\ UNCHANGED swept
    /\ UNCHANGED <<confa, rooms, late, strays>>

\* The confas the lookup finds now.  confa.Mongo.Delete returns no error: when it
\* fails the user is told that the confa is deleted.
RemoveConfa(q) ==
    /\ At(q, "confa")
    /\ LET found == Finds(request[q].user, request[q].where)
           gone == [c \in Confas |-> IF c \in found
                                     THEN [Unborn EXCEPT !.state = "gone", !.owner = confa[c].owner]
                                     ELSE confa[c]]
       IN \/ /\ confa' = gone /\ strays' = strays \cup (found \ {request[q].confa})
             /\ UNCHANGED faults
          \/ Fault /\ UNCHANGED <<confa, strays>>
    /\ End(q)
    /\ UNCHANGED <<talk, rooms, swept, late>>

\* The process of a request stops.
Crash(q) ==
    /\ ~At(q, "idle")
    /\ Fault /\ End(q)
    /\ UNCHANGED <<confa, talk, rooms, swept, late, strays>>

-----------------------------------------------------------------------------
CatalogNext ==
    \/ \E u \in Users : CreateConfa(u) \/ UpdateConfa(u) \/ DeleteTalk(u)
    \/ \E q \in Requests, u \in Users : StartTalk(q, u) \/ StartDelete(q, u)
    \/ \E q \in Requests : \/ CreateRoom(q) \/ InsertTalk(q)
                           \/ SweepTalks(q) \/ RemoveConfa(q) \/ Crash(q)

-----------------------------------------------------------------------------
(* Properties                                                               *)

\* A confa is not deleted from under its talks, whatever fails or stops in
\* between.  The two exceptions are a talk whose creation overlaps the deletion,
\* and a confa that the lookup finds only after the one it found first.
TalksGoFirst ==
    \A t \in Talks : Exists(talk[t]) =>
        \/ Exists(confa[talk[t].confa])
        \/ t \in late
        \/ talk[t].confa \in strays

\* A talk has the owner of its confa, deleted or not, and a room of its own: the
\* deletion of a confa, which does not ask who owns the talks, deletes no other
\* user's.
TalksAreTheOwners ==
    \A t \in Talks : talk[t].state # "unborn" =>
        t \in rooms /\ talk[t].owner = confa[talk[t].confa].owner
=============================================================================
