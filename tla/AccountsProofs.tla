--------------------------- MODULE AccountsProofs ---------------------------
(***************************************************************************)
(* Proofs about Accounts, for any number of addresses, users, sessions and *)
(* requests in progress: requests that race never make two users of one    *)
(* address, replace a password other than the one they checked, or leave a *)
(* session that a logout should have ended.                                *)
(***************************************************************************)
EXTENDS Accounts, TLAPS

UserType == [email : Emails \cup {None}, password : Passwords \cup {None}, changes : Nat]

SessionType == [state : {"unborn", "live", "gone"}, owner : Ids \cup {None}, since : Nat]

RequestType ==
    [step : {"idle", "find", "insert", "session", "check", "update", "logout"},
     email : Emails \cup {None}, user : Ids \cup {None}, old : Passwords \cup {None},
     new : Passwords \cup {None}, seen : Nat, logout : BOOLEAN]

Types ==
    /\ user \in [Ids -> UserType]
    /\ session \in [Keys -> SessionType]
    /\ request \in [Requests -> RequestType]
    /\ cleared \in [Ids -> Nat]

\* A user has an address, and no two users have the same.
Named ==
    /\ \A i \in Ids : Created(i) => user[i].email \in Emails
    /\ \A i, j \in Ids : Created(i) /\ user[i].email = user[j].email => i = j

HasUser == {"session", "check", "update", "logout"}
HasSeen == {"update", "logout"}

\* A request that has found its user works on one that exists; what it has read of
\* the user is not newer than the user.
Reads ==
    \A q \in Requests :
        /\ request[q].step \in {"find", "insert"} => request[q].email \in Emails
        /\ request[q].step \in HasUser =>
             request[q].user \in Ids /\ Created(request[q].user)
        /\ request[q].step \in HasSeen => request[q].seen <= user[request[q].user].changes
        /\ request[q].step \in {"check", "update"} => request[q].new \in Passwords

\* A user that is as a transaction has read it has the password that it checked.
Checked ==
    \A q \in Requests :
        request[q].step = "update" /\ user[request[q].user].changes = request[q].seen
            => user[request[q].user].password = request[q].old

\* Sessions are of users, and a logout is never ahead of the changes it follows.
Owned ==
    /\ \A k \in Keys : session[k].state = "live" =>
         /\ session[k].owner \in Ids /\ Created(session[k].owner)
         /\ session[k].since >= cleared[session[k].owner]
    /\ \A i \in Ids : cleared[i] <= user[i].changes

AccountsInv == Types /\ Named /\ Reads /\ Checked /\ Owned

-----------------------------------------------------------------------------
\* The fields of users, sessions and requests have the types of their records.
LEMMA FieldTypes ==
    ASSUME Types
    PROVE  /\ \A i \in Ids : /\ user[i] \in UserType
                             /\ user[i].email \in Emails \cup {None}
                             /\ user[i].password \in Passwords \cup {None}
                             /\ user[i].changes \in Nat
                             /\ cleared[i] \in Nat
           /\ \A k \in Keys : /\ session[k] \in SessionType
                              /\ session[k].owner \in Ids \cup {None}
                              /\ session[k].since \in Nat
           /\ \A q \in Requests : /\ request[q] \in RequestType
                                  /\ request[q].email \in Emails \cup {None}
                                  /\ request[q].user \in Ids \cup {None}
                                  /\ request[q].old \in Passwords \cup {None}
                                  /\ request[q].new \in Passwords \cup {None}
                                  /\ request[q].seen \in Nat
BY DEF Types, UserType, SessionType, RequestType

\* What a request must say of its user, among users.
Sound(r, users) ==
    /\ r \in RequestType
    /\ r.step \in {"find", "insert"} => r.email \in Emails
    /\ r.step \in HasUser => r.user \in Ids /\ users[r.user] # NoUser
    /\ r.step \in HasSeen => r.seen <= users[r.user].changes
    /\ r.step \in {"check", "update"} => r.new \in Passwords
    /\ r.step = "update" /\ users[r.user].changes = r.seen => users[r.user].password = r.old

\* A step of one request that leaves users and sessions as they are.
LEMMA RequestMoves ==
    ASSUME AccountsInv, NEW q \in Requests, NEW r, Sound(r, user),
           request' = [request EXCEPT ![q] = r], UNCHANGED <<user, session, cleared>>
    PROVE  AccountsInv'
<1> USE FieldTypes DEF AccountsInv, Created, Sound
<1>1. /\ request' \in [Requests -> RequestType] /\ request'[q] = r
      /\ \A p \in Requests : p # q => request'[p] = request[p]
  BY DEF Types
<1>2. Types' /\ Named' /\ Owned'
  BY <1>1 DEF Types, Named, Owned
<1>3. Reads' /\ Checked'
  BY <1>1 DEF Reads, Checked
<1> QED BY <1>2, <1>3

\* A user changes its password; a request that moves says no more of it than is so.
LEMMA UserChanges ==
    ASSUME AccountsInv, NEW i \in Ids, Created(i), NEW p \in Passwords,
           user' = Changed(i, p), UNCHANGED <<session, cleared>>,
           request' \in [Requests -> RequestType],
           \A o \in Requests : request'[o] = request[o] \/ Sound(request'[o], user')
    PROVE  AccountsInv'
<1> USE FieldTypes DEF AccountsInv, Sound
<1>1. \A o \in Requests : request'[o] = request[o] \/ Sound(request'[o], user')
  OBVIOUS
<1>2. /\ user' \in [Ids -> UserType]
      /\ user'[i].changes = user[i].changes + 1 /\ user'[i].email = user[i].email
      /\ \A j \in Ids : j # i => user'[j] = user[j]
  BY DEF Types, Changed, UserType
<1>3. user'[i].email \in Emails /\ user'[i] # NoUser
  BY <1>2, AccountsAssumption DEF Named, NoUser
<1>4. \A j \in Ids : /\ user'[j].email = user[j].email /\ (Created(j)' <=> Created(j))
                     /\ user[j].changes <= user'[j].changes
  BY <1>2, <1>3 DEF Created
<1>5. Types' /\ Named' /\ Owned'
  BY <1>1, <1>2, <1>4 DEF Types, Named, Owned
<1>6. Reads'
  <2>1. ASSUME NEW o \in Requests, request[o].step \in HasSeen
        PROVE  request[o].seen <= user'[request[o].user].changes
    <3>1. /\ request[o].user \in Ids
          /\ request[o].seen <= user[request[o].user].changes
      BY <2>1 DEF Reads, HasSeen, HasUser
    <3>2. user[request[o].user].changes <= user'[request[o].user].changes
      BY <3>1, <1>4
    <3>3. /\ request[o].seen \in Nat /\ user[request[o].user].changes \in Nat
          /\ user'[request[o].user].changes \in Nat
      BY <3>1, <1>2 DEF UserType
    <3> HIDE FieldTypes DEF AccountsInv, Sound
    <3> QED BY <3>1, <3>2, <3>3
  <2>2. \A o \in Requests : request[o].step \in HasUser =>
          request[o].user \in Ids /\ user'[request[o].user] # NoUser
    BY <1>4 DEF Reads, Created
  <2> QED BY <1>1, <2>1, <2>2 DEF Reads, Created
<1>7. Checked'
  <2> SUFFICES ASSUME NEW o \in Requests, request[o].step = "update",
                      user'[request[o].user].changes = request[o].seen
               PROVE  user'[request[o].user].password = request[o].old
    BY <1>1 DEF Checked
  <2>1. request[o].user \in Ids /\ request[o].seen <= user[request[o].user].changes
    BY DEF Reads, HasUser, HasSeen
  <2>2. request[o].user # i
    BY <2>1, <1>2
  <2> QED BY <2>1, <2>2, <1>2 DEF Checked
<1> QED BY <1>5, <1>6, <1>7

-----------------------------------------------------------------------------
\* Each step of a request keeps the invariant.

LEMMA NoRequestSound == \A users : Sound(NoRequest, users)
BY DEF Sound, NoRequest, RequestType, HasUser, HasSeen

LEMMA EndMoves ==
    ASSUME AccountsInv, NEW q \in Requests, End(q), UNCHANGED <<user, session, cleared>>
    PROVE  AccountsInv'
BY NoRequestSound, RequestMoves DEF End

LEMMA StartsKeep ==
    ASSUME AccountsInv, NEW q \in Requests,
           StartLink(q) \/ StartCredentials(q) \/ StartUpdate(q)
    PROVE  AccountsInv'
<1> USE FieldTypes DEF AccountsInv
<1>1. UNCHANGED <<user, session, cleared>>
  BY DEF StartLink, StartCredentials, StartUpdate
<1>2. CASE StartLink(q)
  <2>1. PICK e \in Emails : Begin(q, [NoRequest EXCEPT !.step = "find", !.email = e])
    BY <1>2 DEF StartLink
  <2> DEFINE r == [NoRequest EXCEPT !.step = "find", !.email = e]
  <2>2. Sound(r, user)
    BY DEF Sound, NoRequest, RequestType, HasUser, HasSeen
  <2>3. request' = [request EXCEPT ![q] = r]
    BY <2>1 DEF Begin
  <2> HIDE DEF r
  <2> QED BY <1>1, <2>2, <2>3, RequestMoves
<1>3. CASE StartCredentials(q)
  <2>1. PICK i \in Ids : /\ user[i].email \in Emails
                         /\ Begin(q, [NoRequest EXCEPT !.step = "session", !.user = i])
    BY <1>3 DEF StartCredentials, Of
  <2> DEFINE r == [NoRequest EXCEPT !.step = "session", !.user = i]
  <2>2. /\ r \in RequestType
        /\ r.step = "session" /\ r.user = i /\ r.seen = 0
    BY DEF NoRequest, RequestType
  <2>3. request' = [request EXCEPT ![q] = r]
    BY <2>1 DEF Begin
  <2>4. Created(i) /\ user[i].changes \in Nat
    BY <1>1, <2>1, AccountsAssumption DEF Created, NoUser
  <2> HIDE DEF r
  <2>5. Sound(r, user)
    BY <2>2, <2>4 DEF Sound, HasUser, HasSeen, Created
  <2> QED BY <1>1, <2>3, <2>5, RequestMoves
<1>4. CASE StartUpdate(q)
  <2>1. PICK i \in Ids, old \in Passwords, out \in BOOLEAN, new \in Passwords :
          /\ Created(i)
          /\ Begin(q, [NoRequest EXCEPT !.step = "check", !.user = i, !.old = old,
                                        !.new = new, !.logout = out])
    BY <1>4 DEF StartUpdate
  <2> DEFINE r == [NoRequest EXCEPT !.step = "check", !.user = i, !.old = old,
                                    !.new = new, !.logout = out]
  <2>2. /\ r \in RequestType
        /\ r.step = "check" /\ r.user = i /\ r.seen = 0 /\ r.new = new
    BY DEF NoRequest, RequestType
  <2>3. request' = [request EXCEPT ![q] = r]
    BY <2>1 DEF Begin
  <2>4. Created(i) /\ user[i].changes \in Nat
    BY <1>1, <2>1 DEF Created
  <2> HIDE DEF r
  <2>5. Sound(r, user)
    BY <2>2, <2>4 DEF Sound, HasUser, HasSeen, Created
  <2> QED BY <1>1, <2>3, <2>5, RequestMoves
<1> QED BY <1>2, <1>3, <1>4

LEMMA FindUserKeeps ==
    ASSUME AccountsInv, NEW q \in Requests, FindUser(q)
    PROVE  AccountsInv'
<1> USE FieldTypes DEF AccountsInv
<1>1. UNCHANGED <<user, session, cleared>> /\ request[q].email \in Emails
  BY DEF FindUser, At, Reads
<1>2. CASE Goto(q, "insert")
  <2> DEFINE r == [request[q] EXCEPT !.step = "insert"]
  <2>1. r \in RequestType /\ r.step = "insert" /\ r.email = request[q].email
    BY DEF RequestType
  <2>2. request' = [request EXCEPT ![q] = r]
    BY <1>2 DEF Goto, Types
  <2> HIDE DEF r
  <2>3. Sound(r, user)
    BY <1>1, <2>1 DEF Sound, HasUser, HasSeen, Created
  <2> QED BY <1>1, <2>2, <2>3, RequestMoves
<1>3. CASE \E i \in Of(request[q].email) :
             request' = [request EXCEPT ![q].user = i, ![q].step = "session"]
  <2>1. PICK i \in Ids :
          /\ user[i].email \in Emails
          /\ request' = [request EXCEPT ![q].user = i, ![q].step = "session"]
    BY <1>1, <1>3 DEF Of
  <2> DEFINE r == [request[q] EXCEPT !.user = i, !.step = "session"]
  <2>2. r \in RequestType /\ r.step = "session" /\ r.user = i /\ r.seen = request[q].seen
    BY DEF RequestType
  <2>3. request' = [request EXCEPT ![q] = r]
    BY <2>1 DEF Types
  <2>4. Created(i)
    BY <1>1, <2>1, AccountsAssumption DEF Created, NoUser
  <2> HIDE DEF r
  <2>5. Sound(r, user)
    BY <2>2, <2>4 DEF Sound, HasUser, HasSeen, Created
  <2> QED BY <1>1, <2>3, <2>5, RequestMoves
<1> QED BY <1>1, <1>2, <1>3, EndMoves DEF FindUser

\* The unique index: an insertion finds no user of its address.
LEMMA InsertKeeps ==
    ASSUME AccountsInv, NEW q \in Requests, InsertUser(q)
    PROVE  AccountsInv'
<1> USE FieldTypes DEF AccountsInv
<1> DEFINE e == request[q].email
<1>1. e \in Emails /\ UNCHANGED <<session, cleared>>
  BY DEF InsertUser, At, Reads
<1> HIDE DEF e
<1>2. ASSUME NEW i \in Ids, ~Created(i), Of(e) = {}, user' = [user EXCEPT ![i].email = e],
             \/ request' = [request EXCEPT ![q].user = i, ![q].step = "session"]
             \/ End(q)
      PROVE  AccountsInv'
  <2>1. /\ user' \in [Ids -> UserType] /\ user'[i].email = e
        /\ user'[i].changes = user[i].changes
        /\ \A j \in Ids : j # i => user'[j] = user[j]
    BY <1>1, <1>2 DEF Types, UserType
  <2>2. user'[i] # NoUser /\ \A j \in Ids : user[j].email # e
    BY <1>1, <1>2, <2>1, AccountsAssumption DEF NoUser, Of
  <2>3. PICK r : /\ r \in RequestType
                 /\ request' = [request EXCEPT ![q] = r]
                 /\ \/ r = NoRequest
                    \/ r.step = "session" /\ r.user = i
    <3>1. CASE request' = [request EXCEPT ![q].user = i, ![q].step = "session"]
      <4> DEFINE r == [request[q] EXCEPT !.user = i, !.step = "session"]
      <4>1. r \in RequestType /\ r.step = "session" /\ r.user = i
        BY DEF RequestType
      <4>2. request' = [request EXCEPT ![q] = r]
        BY <3>1 DEF Types
      <4> HIDE DEF r
      <4> QED BY <4>1, <4>2
    <3>2. CASE End(q)
      BY <3>2, NoRequestSound DEF End, Sound
    <3> QED BY <1>2, <3>1, <3>2
  <2>4. /\ request' \in [Requests -> RequestType] /\ request'[q] = r
        /\ \A o \in Requests : o # q => request'[o] = request[o]
    BY <2>3 DEF Types
  <2>5. Types' /\ Named'
    BY <1>1, <2>1, <2>2, <2>4 DEF Types, Named, Created
  <2>6. Reads'
    <3>1. \A o \in Requests : request[o].step \in HasUser =>
            request[o].user \in Ids /\ request[o].user # i
      BY <1>2 DEF Reads
    <3> QED BY <2>1, <2>2, <2>3, <2>4, <3>1 DEF Reads, Created, HasUser, HasSeen, NoRequest
  <2>7. Checked'
    <3>1. \A o \in Requests : request[o].step = "update" =>
            request[o].user \in Ids /\ request[o].user # i
      BY <1>2 DEF Reads, HasUser
    <3> QED BY <2>1, <2>3, <2>4, <3>1 DEF Checked, NoRequest
  <2>8. Owned'
    BY <1>1, <1>2, <2>1, <2>2 DEF Owned, Created
  <2> QED BY <2>5, <2>6, <2>7, <2>8
<1>3. ASSUME UNCHANGED user, End(q) \/ Goto(q, "find")
      PROVE  AccountsInv'
  <2>1. CASE End(q)
    BY <1>1, <1>3, <2>1, EndMoves
  <2>2. CASE Goto(q, "find")
    <3> DEFINE r == [request[q] EXCEPT !.step = "find"]
    <3>1. r \in RequestType /\ r.step = "find" /\ r.email = e
      BY DEF RequestType, e
    <3>2. request' = [request EXCEPT ![q] = r]
      BY <2>2 DEF Goto, Types
    <3> HIDE DEF r
    <3>3. Sound(r, user)
      BY <1>1, <3>1 DEF Sound, HasUser, HasSeen
    <3> QED BY <1>1, <1>3, <3>2, <3>3, RequestMoves
  <2> QED BY <1>3, <2>1, <2>2
<1> QED BY <1>2, <1>3 DEF InsertUser, e

LEMMA SessionsKeep ==
    ASSUME AccountsInv,
           \/ \E q \in Requests : CreateSession(q) \/ LogoutAll(q)
           \/ \E k \in Keys \cup {None} : Logout(k)
    PROVE  AccountsInv'
<1> USE FieldTypes DEF AccountsInv
<1>1. UNCHANGED user
  BY DEF CreateSession, LogoutAll, Logout
<1>2. UNCHANGED request \/ \E q \in Requests : End(q)
  BY DEF CreateSession, LogoutAll, Logout
<1>3. /\ request' \in [Requests -> RequestType]
      /\ \A o \in Requests : request'[o] = request[o] \/ request'[o] = NoRequest
  BY <1>2, NoRequestSound DEF Types, End, Sound
<1>4. Named' /\ Reads' /\ Checked'
  BY <1>1, <1>3 DEF Named, Reads, Checked, Created, HasUser, HasSeen, NoRequest
<1>5. /\ session' \in [Keys -> SessionType] /\ cleared' \in [Ids -> Nat]
      /\ Owned'
  <2> DEFINE Gone == [NoSession EXCEPT !.state = "gone"]
  <2>1. Gone \in SessionType /\ Gone.state = "gone"
    BY DEF NoSession, SessionType
  <2> HIDE DEF Gone
  <2>2. ASSUME NEW k \in Keys \cup {None}, Logout(k)
        PROVE  /\ session' \in [Keys -> SessionType] /\ cleared' \in [Ids -> Nat]
               /\ Owned'
    <3> DEFINE ended == {l \in Keys : session[l].state = "live" /\ k \in {None, l}}
    <3>1. /\ session' = [l \in Keys |-> IF l \in ended THEN Gone ELSE session[l]]
          /\ UNCHANGED cleared
      BY <2>2 DEF Logout, Gone
    <3> HIDE DEF ended
    <3>2. /\ session' \in [Keys -> SessionType]
          /\ \A l \in Keys : session'[l] = session[l] \/ session'[l].state = "gone"
      BY <2>1, <3>1 DEF Types
    <3> QED BY <1>1, <3>1, <3>2 DEF Types, Owned, Created
  <2>3. ASSUME NEW q \in Requests, LogoutAll(q)
        PROVE  /\ session' \in [Keys -> SessionType] /\ cleared' \in [Ids -> Nat]
               /\ Owned'
    <3> DEFINE i == request[q].user
               n == IF cleared[i] < request[q].seen THEN request[q].seen ELSE cleared[i]
    <3>1. i \in Ids /\ request[q].seen <= user[i].changes
      BY <2>3 DEF LogoutAll, At, Reads, HasUser, HasSeen
    <3>2. n \in Nat /\ n <= user[i].changes
      BY <3>1 DEF Owned
    <3>3. CASE UNCHANGED <<session, cleared>>
      BY <1>1, <3>3 DEF Types, Owned, Created
    <3>4. CASE /\ session' = [k \in Keys |-> IF session[k].owner = i THEN Gone ELSE session[k]]
               /\ cleared' = [cleared EXCEPT ![i] = n]
      <4> HIDE DEF i, n
      <4>1. /\ session' \in [Keys -> SessionType]
            /\ \A k \in Keys : \/ session'[k] = session[k] /\ session[k].owner # i
                               \/ session'[k].state = "gone"
        BY <2>1, <3>4 DEF Types
      <4>2. /\ cleared' \in [Ids -> Nat] /\ cleared'[i] = n
            /\ \A j \in Ids : j # i => cleared'[j] = cleared[j]
        BY <3>1, <3>2, <3>4 DEF Types
      <4> QED BY <1>1, <3>2, <4>1, <4>2 DEF Owned, Created
    <3> QED BY <2>3, <3>3, <3>4 DEF LogoutAll, Gone
  <2>4. ASSUME NEW q \in Requests, CreateSession(q)
        PROVE  /\ session' \in [Keys -> SessionType] /\ cleared' \in [Ids -> Nat]
               /\ Owned'
    <3> DEFINE i == request[q].user
               new == [state |-> "live", owner |-> i, since |-> user[i].changes]
    <3>1. i \in Ids /\ Created(i)
      BY <2>4 DEF CreateSession, At, Reads, HasUser
    <3>2. PICK k \in Keys : session' \in {session, [session EXCEPT ![k] = new]}
      BY <2>4 DEF CreateSession
    <3>3. /\ new \in SessionType
          /\ new.owner = i /\ new.since = user[i].changes
      BY <3>1 DEF SessionType
    <3>4. user[i].changes >= cleared[i]
      BY <3>1 DEF Owned
    <3> HIDE DEF i, new
    <3>5. /\ session' \in [Keys -> SessionType]
          /\ \A l \in Keys : session'[l] = session[l] \/ session'[l] = new
      BY <3>2, <3>3 DEF Types
    <3>6. UNCHANGED cleared
      BY <2>4 DEF CreateSession
    <3> QED BY <1>1, <3>1, <3>3, <3>4, <3>5, <3>6 DEF Types, Owned, Created
  <2> QED BY <2>2, <2>3, <2>4
<1> QED BY <1>1, <1>3, <1>4, <1>5 DEF Types

LEMMA CheckKeeps ==
    ASSUME AccountsInv, NEW q \in Requests, CheckOld(q)
    PROVE  AccountsInv'
<1> USE FieldTypes DEF AccountsInv
<1>1. /\ UNCHANGED <<user, session, cleared>>
      /\ request[q].step = "check" /\ request[q].new \in Passwords
      /\ request[q].user \in Ids /\ Created(request[q].user)
  BY DEF CheckOld, At, Reads, HasUser
<1>2. CASE End(q)
  BY <1>1, <1>2, EndMoves
<1>3. CASE /\ user[request[q].user].password = request[q].old
           /\ request' = [request EXCEPT ![q].step = "update",
                                         ![q].seen = user[request[q].user].changes]
  <2> DEFINE r == [request[q] EXCEPT !.step = "update", !.seen = user[request[q].user].changes]
  <2>1. /\ r \in RequestType /\ r.step = "update" /\ r.user = request[q].user
        /\ r.new = request[q].new /\ r.old = request[q].old
        /\ r.seen = user[request[q].user].changes
    BY <1>1 DEF RequestType
  <2>2. request' = [request EXCEPT ![q] = r]
    BY <1>3 DEF Types
  <2> HIDE DEF r
  <2>3. Sound(r, user)
    BY <1>1, <1>3, <2>1 DEF Sound, Created
  <2> QED BY <1>1, <2>2, <2>3, RequestMoves
<1> QED BY <1>2, <1>3 DEF CheckOld

LEMMA PasswordsKeep ==
    ASSUME AccountsInv, CreatePassword \/ \E q \in Requests : ResetPassword(q)
    PROVE  AccountsInv'
<1> USE FieldTypes DEF AccountsInv
<1>1. PICK i \in Ids, p \in Passwords : user[i].email \in Emails /\ user' = Changed(i, p)
                                        /\ UNCHANGED <<session, cleared>>
                                        /\ \/ UNCHANGED request
                                           \/ \E q \in Requests :
                                                request' = [request EXCEPT ![q] =
                                                  [NoRequest EXCEPT !.step = "logout", !.user = i,
                                                                    !.seen = user[i].changes + 1]]
  BY DEF CreatePassword, ResetPassword, Of, Begin
<1>2. Created(i)
  BY <1>1, AccountsAssumption DEF Created, NoUser
<1>3. /\ user'[i].changes = user[i].changes + 1 /\ user'[i] # NoUser
  BY <1>1, AccountsAssumption DEF Changed, Types, UserType, NoUser
<1> DEFINE r == [NoRequest EXCEPT !.step = "logout", !.user = i, !.seen = user[i].changes + 1]
<1>4. /\ r \in RequestType /\ r.step = "logout" /\ r.user = i
      /\ r.seen = user[i].changes + 1
  <2> DEFINE n == user[i].changes + 1
  <2>1. n \in Nat
    OBVIOUS
  <2> HIDE DEF n
  <2>2. r = [NoRequest EXCEPT !.step = "logout", !.user = i, !.seen = n]
    BY DEF n
  <2> HIDE DEF r
  <2>3. r \in RequestType /\ r.step = "logout" /\ r.user = i /\ r.seen = n
    BY <2>1, <2>2 DEF NoRequest, RequestType
  <2> QED BY <2>3 DEF n
<1>5. UNCHANGED request \/ \E q \in Requests : request' = [request EXCEPT ![q] = r]
  BY <1>1
<1> HIDE DEF r
<1>6. Sound(r, user')
  BY <1>3, <1>4 DEF Sound, HasUser, HasSeen
<1>7. /\ request' \in [Requests -> RequestType]
      /\ \A o \in Requests : request'[o] = request[o] \/ request'[o] = r
  BY <1>4, <1>5 DEF Types
<1> QED BY <1>1, <1>2, <1>6, <1>7, UserChanges

LEMMA UpdateKeeps ==
    ASSUME AccountsInv, NEW q \in Requests, Update(q)
    PROVE  AccountsInv'
<1> USE FieldTypes DEF AccountsInv
<1> DEFINE i == request[q].user
<1>1. /\ UNCHANGED <<session, cleared>>
      /\ request[q].step = "update" /\ request[q].new \in Passwords
      /\ i \in Ids /\ Created(i)
  BY DEF Update, At, Reads, HasUser
<1> HIDE DEF i
<1>2. CASE user' = Changed(i, request[q].new) /\ (After(q) \/ End(q))
  <2>1. user'[i].changes = user[i].changes + 1 /\ user'[i] # NoUser
    <3>1. /\ user'[i].changes = user[i].changes + 1 /\ user'[i].email = user[i].email
      BY <1>1, <1>2 DEF Changed, Types, UserType
    <3> QED BY <1>1, <3>1, AccountsAssumption DEF Named, NoUser
  <2>2. PICK r : /\ r \in RequestType
                 /\ request' = [request EXCEPT ![q] = r]
                 /\ \/ r = NoRequest
                    \/ r.step = "logout" /\ r.user = i /\ r.seen = user[i].changes + 1
    <3>1. CASE End(q)
      BY <3>1, NoRequestSound DEF End, Sound
    <3>2. CASE request' = [request EXCEPT ![q].step = "logout",
                                          ![q].seen = user[request[q].user].changes + 1]
      <4> DEFINE r == [request[q] EXCEPT !.step = "logout", !.seen = user[i].changes + 1]
      <4>1. /\ r \in RequestType /\ r.step = "logout" /\ r.user = request[q].user
            /\ r.seen = user[i].changes + 1
        <5> DEFINE n == user[i].changes + 1
        <5>1. n \in Nat
          BY <1>1
        <5> HIDE DEF n
        <5>2. r = [request[q] EXCEPT !.step = "logout", !.seen = n]
          BY DEF n
        <5> HIDE DEF r
        <5>3. /\ r \in RequestType /\ r.step = "logout" /\ r.user = request[q].user
              /\ r.seen = n
          BY <5>1, <5>2 DEF RequestType
        <5> QED BY <5>3 DEF n
      <4>2. request' = [request EXCEPT ![q] = r]
        BY <3>2 DEF Types, i
      <4> HIDE DEF r
      <4> QED BY <4>1, <4>2 DEF i
    <3> QED BY <1>2, <3>1, <3>2 DEF After
  <2>3. Sound(r, user')
    <3>1. CASE r = NoRequest
      BY <3>1, NoRequestSound
    <3>2. CASE r.step = "logout" /\ r.user = i /\ r.seen = user[i].changes + 1
      BY <1>1, <2>1, <2>2, <3>2 DEF Sound, HasUser, HasSeen
    <3> QED BY <2>2, <3>1, <3>2
  <2>4. /\ request' \in [Requests -> RequestType]
        /\ \A o \in Requests : request'[o] = request[o] \/ request'[o] = r
    BY <2>2 DEF Types
  <2> QED BY <1>1, <1>2, <2>3, <2>4, UserChanges
<1>3. CASE UNCHANGED user /\ (Goto(q, "check") \/ End(q))
  <2>1. CASE End(q)
    BY <1>1, <1>3, <2>1, EndMoves
  <2>2. CASE Goto(q, "check")
    <3> DEFINE r == [request[q] EXCEPT !.step = "check"]
    <3>1. /\ r \in RequestType /\ r.step = "check" /\ r.user = request[q].user
          /\ r.new = request[q].new
      BY DEF RequestType
    <3>2. request' = [request EXCEPT ![q] = r]
      BY <2>2 DEF Goto, Types
    <3> HIDE DEF r
    <3>3. Sound(r, user)
      BY <1>1, <3>1 DEF Sound, HasUser, HasSeen, Created, i
    <3> QED BY <1>1, <1>3, <3>2, <3>3, RequestMoves
  <2> QED BY <1>3, <2>1, <2>2
<1> QED BY <1>2, <1>3 DEF Update, i

-----------------------------------------------------------------------------
\* The invariant holds initially and every step keeps it.

LEMMA AccountsInit == Init => AccountsInv
<1> SUFFICES ASSUME Init PROVE AccountsInv
  OBVIOUS
<1>1. /\ \A i \in Ids : user[i] = NoUser /\ cleared[i] = 0
      /\ \A k \in Keys : session[k] = NoSession
      /\ \A q \in Requests : request[q] = NoRequest
  BY DEF Init
<1>2. NoUser \in UserType /\ NoSession \in SessionType /\ NoRequest \in RequestType
  BY DEF NoUser, NoSession, NoRequest, UserType, SessionType, RequestType
<1>3. Types
  BY <1>2 DEF Init, Types
<1>4. Named /\ Owned
  BY <1>1 DEF Named, Owned, Created, NoUser, NoSession
<1>5. Reads /\ Checked
  BY <1>1 DEF Reads, Checked, NoRequest, HasUser, HasSeen
<1> QED BY <1>3, <1>4, <1>5 DEF AccountsInv

LEMMA AccountsNext == AccountsInv /\ [Next]_vars => AccountsInv'
<1> SUFFICES ASSUME AccountsInv, [Next]_vars PROVE AccountsInv'
  OBVIOUS
<1>1. ASSUME NEW q \in Requests, StartLink(q) \/ StartCredentials(q) \/ StartUpdate(q)
      PROVE  AccountsInv'
  BY <1>1, StartsKeep
<1>2. ASSUME NEW q \in Requests, FindUser(q) PROVE AccountsInv'
  BY <1>2, FindUserKeeps
<1>3. ASSUME NEW q \in Requests, InsertUser(q) PROVE AccountsInv'
  BY <1>3, InsertKeeps
<1>4. ASSUME NEW q \in Requests, CreateSession(q) \/ LogoutAll(q) PROVE AccountsInv'
  BY <1>4, SessionsKeep
<1>5. ASSUME NEW k \in Keys \cup {None}, Logout(k) PROVE AccountsInv'
  BY <1>5, SessionsKeep
<1>6. ASSUME NEW q \in Requests, ResetPassword(q) PROVE AccountsInv'
  BY <1>6, PasswordsKeep
<1>7. CASE CreatePassword
  BY <1>7, PasswordsKeep
<1>8. ASSUME NEW q \in Requests, CheckOld(q) PROVE AccountsInv'
  BY <1>8, CheckKeeps
<1>9. ASSUME NEW q \in Requests, Update(q) PROVE AccountsInv'
  BY <1>9, UpdateKeeps
<1>10. CASE UNCHANGED vars
  BY <1>10 DEF vars, AccountsInv, Types, Named, Reads, Checked, Owned, Created
<1> QED BY <1>1, <1>2, <1>3, <1>4, <1>5, <1>6, <1>7, <1>8, <1>9, <1>10 DEF Next

\* Every state of the specification satisfies the invariant (Accounts).
THEOREM AccountsAreSound == Spec => []AccountsInv
BY AccountsInit, AccountsNext, PTL DEF Spec

\* One address has one user, however many sign-ins race to create it, and every
\* session is that of a user who exists (GetOrCreate, the index on identifiers).
THEOREM UsersAreUnique == Spec => []OneUserPerIdent
<1>1. AccountsInv => OneUserPerIdent
  BY DEF AccountsInv, Named, Owned, OneUserPerIdent
<1> QED BY <1>1, AccountsAreSound, PTL

\* A logout of all sessions ends every session that was there before the change of
\* the password it follows (resetPassword, updatePassword).
THEOREM LogoutIsComplete == Spec => []LogoutEndsSessions
<1>1. AccountsInv => LogoutEndsSessions
  BY DEF AccountsInv, Owned, LogoutEndsSessions
<1> QED BY <1>1, AccountsAreSound, PTL

\* UpdatePassword replaces the very password it has checked, since a transaction
\* that read a user who changed afterwards does not commit.
THEOREM UpdatesReplaceOld == Spec => UpdateReplacesOld
<1> DEFINE Replaces == \A q \in Requests :
             At(q, "update") /\ user' # user /\ request'[q] # request[q]
               => user[request[q].user].password = request[q].old
<1>1. AccountsInv /\ [Next]_vars => [Replaces]_vars
  <2> SUFFICES ASSUME AccountsInv, Next, NEW q \in Requests, At(q, "update"),
                      user' # user, request'[q] # request[q]
               PROVE  user[request[q].user].password = request[q].old
    OBVIOUS
  <2> USE FieldTypes DEF AccountsInv
  <2>1. CASE Update(q)
    <3>1. user[request[q].user].changes = request[q].seen
      BY <2>1 DEF Update
    <3> QED BY <3>1 DEF Checked, At
  <2>2. CASE \E p \in Requests \ {q} : ResetPassword(p) \/ Update(p) \/ InsertUser(p)
    <3>1. PICK p \in Requests \ {q} : ResetPassword(p) \/ Update(p) \/ InsertUser(p)
      BY <2>2
    <3>2. request'[q] = request[q]
      BY <3>1 DEF ResetPassword, Update, InsertUser, Begin, After, End, Goto, Types
    <3> QED BY <3>2
  <2>3. CASE ResetPassword(q) \/ InsertUser(q)
    BY <2>3 DEF ResetPassword, InsertUser, At
  <2>4. CASE CreatePassword
    BY <2>4 DEF CreatePassword
  <2>5. CASE \/ \E p \in Requests : \/ StartLink(p) \/ FindUser(p) \/ StartCredentials(p)
                                    \/ CreateSession(p) \/ StartUpdate(p) \/ CheckOld(p)
                                    \/ LogoutAll(p)
             \/ \E k \in Keys \cup {None} : Logout(k)
    BY <2>5 DEF StartLink, FindUser, StartCredentials, CreateSession, StartUpdate, CheckOld,
                LogoutAll, Logout
  <2> QED BY <2>1, <2>2, <2>3, <2>4, <2>5 DEF Next
<1> QED BY <1>1, AccountsAreSound, PTL DEF Spec, UpdateReplacesOld
=============================================================================
