------------------------------ MODULE Accounts ------------------------------
(***************************************************************************)
(* Users, their passwords and their sessions in the IAM service.  A        *)
(* request is a sequence of calls to Mongo; the change of a password that  *)
(* knows the old one is a transaction.                                     *)
(*                                                                         *)
(* A user has one identifier, the normalized email address; a hash stands  *)
(* for its password.  Tokens and cookies are left out: what a request of   *)
(* a user may do is decided before the requests modelled here begin.       *)
(***************************************************************************)
EXTENDS Integers, FiniteSets

CONSTANTS Emails,
          Passwords,
          Ids,         \* user ids, one per insertion
          Keys,        \* session keys, one per session
          Requests,    \* requests in progress at a time
          MaxChanges,  \* bound: changes of each password
          MaxFaults    \* bound: failed calls


VARIABLES user,      \* per id: not created, or the user
          session,   \* per key: not created, the session, or gone
          request,   \* per request: what it does and what it has read
          cleared,   \* per id: the change after which all sessions were deleted
          faults

vars == <<user, session, request, cleared, faults>>

None == "none"

ASSUME AccountsAssumption ==
    /\ MaxChanges \in Nat /\ MaxFaults \in Nat
    /\ None \notin Emails \cup Passwords \cup Ids

NoUser == [email |-> None, password |-> None, changes |-> 0]
NoSession == [state |-> "unborn", owner |-> None, since |-> 0]
NoRequest == [step |-> "idle", email |-> None, user |-> None, old |-> None,
              new |-> None, seen |-> 0, logout |-> FALSE]

Init ==
    /\ user = [i \in Ids |-> NoUser]
    /\ session = [k \in Keys |-> NoSession]
    /\ request = [q \in Requests |-> NoRequest]
    /\ cleared = [i \in Ids |-> 0]
    /\ faults = 0

Fault == faults < MaxFaults /\ faults' = faults + 1

At(q, s) == request[q].step = s
Goto(q, s) == request' = [request EXCEPT ![q].step = s]
Begin(q, r) == At(q, "idle") /\ request' = [request EXCEPT ![q] = r]
End(q) == request' = [request EXCEPT ![q] = NoRequest]

Created(i) == user[i] # NoUser
Of(e) == {i \in Ids : user[i].email = e}

\* The user's document with a new password.
Changed(i, p) == [user EXCEPT ![i].password = p, ![i].changes = @ + 1]
MayChange(i) == user[i].changes < MaxChanges

-----------------------------------------------------------------------------
(* Sessions                                                                 *)

\* A session by a link in a mail or by Google: GetOrCreate, an upsert, looks for
\* the user and inserts one if there is none.
StartLink(q) ==
    /\ \E e \in Emails : Begin(q, [NoRequest EXCEPT !.step = "find", !.email = e])
    /\ UNCHANGED <<user, session, cleared, faults>>

FindUser(q) ==
    /\ At(q, "find")
    /\ LET found == Of(request[q].email) IN
       \/ found = {} /\ Goto(q, "insert") /\ UNCHANGED faults
       \/ /\ \E i \in found :
                request' = [request EXCEPT ![q].user = i, ![q].step = "session"]
          /\ UNCHANGED faults
       \/ Fault /\ End(q)
    /\ UNCHANGED <<user, session, cleared>>

\* Variant: no unique index on identifiers.
InsertUnindexed(q) ==
    /\ At(q, "insert")
    /\ \E i \in Ids : /\ ~Created(i)
                      /\ user' = [user EXCEPT ![i].email = request[q].email]
                      /\ request' = [request EXCEPT ![q].user = i, ![q].step = "session"]
    /\ UNCHANGED <<session, cleared, faults>>

\* The insertion of an identifier that is there by now fails the request, or is
\* tried again as an update by the server.
InsertUser(q) ==
    /\ At(q, "insert")
    /\ \/ /\ Of(request[q].email) = {}
          /\ \E i \in Ids :
                /\ ~Created(i)
                /\ user' = [user EXCEPT ![i].email = request[q].email]
                /\ \/ request' = [request EXCEPT ![q].user = i, ![q].step = "session"]
                      /\ UNCHANGED faults
                   \/ Fault /\ End(q)
       \/ /\ Of(request[q].email) # {}
          /\ End(q) \/ Goto(q, "find")
          /\ UNCHANGED <<user, faults>>
       \/ Fault /\ End(q) /\ UNCHANGED user
    /\ UNCHANGED <<session, cleared>>

\* A session by credentials: CheckPassword, one read.  The password may change
\* before the session is created.
StartCredentials(q) ==
    /\ \E e \in Emails, p \in Passwords : \E i \in Of(e) :
          /\ user[i].password = p
          /\ Begin(q, [NoRequest EXCEPT !.step = "session", !.user = i])
    /\ UNCHANGED <<user, session, cleared, faults>>

CreateSession(q) ==
    /\ At(q, "session")
    /\ LET i == request[q].user IN
       \E k \in Keys :
          /\ session[k] = NoSession
          /\ LET created == [session EXCEPT ![k] =
                    [state |-> "live", owner |-> i, since |-> user[i].changes]]
             IN \/ session' = created /\ UNCHANGED faults
                \/ Fault /\ session' \in {session, created}
    /\ End(q)
    /\ UNCHANGED <<user, cleared>>

\* Session.Delete by the key of the request; a request without the cookie gives
\* an empty key, which is left out of the filter: every session matches.
Logout(k) ==
    LET ended == {l \in Keys : session[l].state = "live" /\ k \in {None, l}} IN
    /\ ended # {}
    /\ session' = [l \in Keys |-> IF l \in ended THEN [NoSession EXCEPT !.state = "gone"]
                                                  ELSE session[l]]
    /\ UNCHANGED <<user, request, cleared, faults>>

-----------------------------------------------------------------------------
(* Passwords                                                                *)

\* CreatePassword: one update of a user that has none.
CreatePassword ==
    /\ \E e \in Emails, p \in Passwords : \E i \in Of(e) :
          /\ user[i].password = None /\ MayChange(i)
          /\ user' = Changed(i, p)
    /\ UNCHANGED <<session, request, cleared, faults>>

\* ResetPassword: one update, whatever the password is.
ResetPassword(q) ==
    /\ At(q, "idle")
    /\ \E e \in Emails, p \in Passwords, out \in BOOLEAN : \E i \in Of(e) :
          /\ MayChange(i)
          /\ user' = Changed(i, p)
          /\ IF out THEN Begin(q, [NoRequest EXCEPT !.step = "logout", !.user = i,
                                                    !.seen = user[i].changes + 1])
                    ELSE UNCHANGED request
    /\ UNCHANGED <<session, cleared, faults>>

\* UpdatePassword: the two passwords differ.
StartUpdate(q) ==
    /\ \E i \in Ids, old \in Passwords, out \in BOOLEAN : \E new \in Passwords \ {old} :
          /\ Created(i)
          /\ Begin(q, [NoRequest EXCEPT !.step = "check", !.user = i, !.old = old,
                                        !.new = new, !.logout = out])
    /\ UNCHANGED <<user, session, cleared, faults>>

\* The transaction reads the user; a password that is wrong, or none, ends it.
CheckOld(q) ==
    /\ At(q, "check")
    /\ LET r == request[q] IN
       \/ /\ user[r.user].password = r.old
          /\ request' = [request EXCEPT ![q].step = "update", ![q].seen = user[r.user].changes]
          /\ UNCHANGED faults
       \/ user[r.user].password # r.old /\ End(q) /\ UNCHANGED faults
       \/ Fault /\ End(q)
    /\ UNCHANGED <<user, session, cleared>>

After(q) ==
    IF request[q].logout
    THEN request' = [request EXCEPT ![q].step = "logout", ![q].seen = user[request[q].user].changes + 1]
    ELSE End(q)

\* Variant: the check and the update are not one transaction.
UpdateWhatever(q) ==
    /\ At(q, "update")
    /\ MayChange(request[q].user)
    /\ user' = Changed(request[q].user, request[q].new)
    /\ After(q)
    /\ UNCHANGED <<session, cleared, faults>>

\* The write and the commit.  A user that changed since it was read aborts the
\* transaction, which starts again unless two minutes have passed.
Update(q) ==
    /\ At(q, "update")
    /\ LET i == request[q].user IN
       \/ /\ user[i].changes = request[q].seen /\ MayChange(i)
          /\ user' = Changed(i, request[q].new)
          /\ \/ After(q) /\ UNCHANGED faults
             \/ Fault /\ End(q)
       \/ /\ user[i].changes # request[q].seen
          /\ Goto(q, "check") \/ End(q)
          /\ UNCHANGED <<user, faults>>
       \/ Fault /\ End(q) /\ UNCHANGED user
    /\ UNCHANGED <<session, cleared>>

\* Variant: a batch of one session is deleted.
LogoutOne(q) ==
    /\ At(q, "logout")
    /\ LET i == request[q].user IN
       /\ \/ \E k \in Keys : session[k].owner = i /\ session' = [session EXCEPT ![k] = [NoSession EXCEPT !.state = "gone"]]
          \/ (\A k \in Keys : session[k].owner # i) /\ UNCHANGED session
       /\ cleared' = [cleared EXCEPT ![i] = IF @ < request[q].seen THEN request[q].seen ELSE @]
    /\ End(q)
    /\ UNCHANGED <<user, faults>>

\* DeleteMany over the sessions of the owner: its limit is not part of the call.
LogoutAll(q) ==
    /\ At(q, "logout")
    /\ LET i == request[q].user IN
       \/ /\ session' = [k \in Keys |-> IF session[k].owner = i
                                        THEN [NoSession EXCEPT !.state = "gone"] ELSE session[k]]
          /\ cleared' = [cleared EXCEPT ![i] = IF @ < request[q].seen THEN request[q].seen ELSE @]
          /\ UNCHANGED faults
       \/ Fault /\ UNCHANGED <<session, cleared>>
    /\ End(q)
    /\ UNCHANGED user

-----------------------------------------------------------------------------
Next ==
    \/ \E q \in Requests :
          \/ StartLink(q) \/ FindUser(q) \/ InsertUser(q) \/ StartCredentials(q)
          \/ CreateSession(q) \/ ResetPassword(q) \/ StartUpdate(q) \/ CheckOld(q)
          \/ Update(q) \/ LogoutAll(q)
    \/ \E k \in Keys \cup {None} : Logout(k)
    \/ CreatePassword

Spec == Init /\ [][Next]_vars

-----------------------------------------------------------------------------
(* Properties                                                               *)

\* Two sign-ins that race to create a user of one address end with one user, and
\* every session is that of a user who exists.
OneUserPerIdent ==
    /\ \A i, j \in Ids : Created(i) /\ user[i].email = user[j].email => i = j
    /\ \A k \in Keys : session[k].state = "live" => Created(session[k].owner)

\* The change of a password that knows the old one replaces that very password,
\* whatever other requests write between its read and its write.
UpdateReplacesOld ==
    [][\A q \in Requests : At(q, "update") /\ user' # user /\ request'[q] # request[q]
          => user[request[q].user].password = request[q].old]_vars

\* When a change of the password with logout has been carried out, no session is
\* left of those that were there before the change.
LogoutEndsSessions ==
    \A k \in Keys : session[k].state = "live" =>
        session[k].since >= cleared[session[k].owner]
=============================================================================
