--------------------------- MODULE ProfileUpdate ---------------------------
(***************************************************************************)
(* Profiles and their pictures: a user asks for an upload form, which puts *)
(* a job on the tube UpdateAvatar, and posts a file to storage; a handler  *)
(* of the job reads the file, stores the converted avatar where everybody  *)
(* can read it, writes the profile and removes the file.  A sign-in with   *)
(* Google puts a job of its own, to be skipped if there is a profile.      *)
(*                                                                         *)
(* A file is named by the picture in it and so is the avatar made from it; *)
(* names and handles of a profile play no part and are left out.           *)
(***************************************************************************)
EXTENDS Integers, FiniteSets

CONSTANTS Users,
          Handlers,   \* goroutines that consume the tube
          Jobs,       \* bound: update jobs
          Pictures,   \* files that can be uploaded, each once
          Broken,     \* those that are not an image
          MaxFaults   \* bound: failed calls and lost reservations

None == "none"

ASSUME ProfileAssumption ==
    /\ Broken \subseteq Pictures /\ None \notin Pictures
    /\ MaxFaults \in Nat

VARIABLES kind,      \* per job: none, "avatar" or "google"
          owner,     \* per job: its user
          job,       \* per job: its state in the queue
          holder,    \* per job: the handler that has it reserved
          handler,   \* per handler: its job, next call and picture
          forms,     \* users with an upload form
          upload,    \* per user: the file at its upload path
          public,    \* per user: the avatars in the public bucket
          profile,   \* per user: its profile
          shown,     \* per user: pictures that were its avatar at some time
          refused,   \* pictures found not to be an image
          faults

vars == <<kind, owner, job, holder, handler, forms, upload, public, profile,
          shown, refused, faults>>

NoProfile == [exists |-> FALSE, avatar |-> None, thumbnail |-> None]
Idle == [job |-> None, step |-> "idle", picture |-> None]

Init ==
    /\ kind = [j \in Jobs |-> None]
    /\ owner = [j \in Jobs |-> None]
    /\ job = [j \in Jobs |-> "none"]
    /\ holder = [j \in Jobs |-> None]
    /\ handler = [h \in Handlers |-> Idle]
    /\ forms = {}
    /\ upload = [u \in Users |-> None]
    /\ public = [u \in Users |-> {}]
    /\ profile = [u \in Users |-> NoProfile]
    /\ shown = [u \in Users |-> {}]
    /\ refused = {}
    /\ faults = 0

Fault == faults < MaxFaults /\ faults' = faults + 1

-----------------------------------------------------------------------------
(* Users                                                                    *)

\* Put: a failure may come after the queue has taken the job.
Put(j, u, k, ok) ==
    /\ kind[j] = None
    /\ kind' = [kind EXCEPT ![j] = k]
    /\ owner' = [owner EXCEPT ![j] = u]
    /\ \/ ok /\ UNCHANGED faults
       \/ ~ok /\ Fault
    /\ job' = [job EXCEPT ![j] = "ready"]
    /\ UNCHANGED <<holder, handler, upload, public, profile, shown, refused>>

\* UpdateAndRequestUpload: no form without a job.
RequestUpload(u) ==
    \E j \in Jobs, ok \in BOOLEAN :
        /\ Put(j, u, "avatar", ok)
        /\ forms' = IF ok THEN forms \cup {u} ELSE forms

\* emitUpdateProfile
SignIn(u) ==
    \E j \in Jobs : Put(j, u, "google", TRUE) /\ UNCHANGED forms

Known == refused \cup {handler[h].picture : h \in Handlers}
                 \cup UNION {{upload[u]} \cup public[u] : u \in Users}

\* A form can be posted until it expires, more than once.
Post(u) ==
    /\ u \in forms
    /\ \E p \in Pictures \ Known : upload' = [upload EXCEPT ![u] = p]
    /\ UNCHANGED <<kind, owner, job, holder, handler, forms, public, profile,
                   shown, refused, faults>>

Expire(u) ==
    /\ u \in forms
    /\ forms' = forms \ {u}
    /\ UNCHANGED <<kind, owner, job, holder, handler, upload, public, profile,
                   shown, refused, faults>>

\* Mutation updateProfile: creates the profile, leaves its pictures alone.
Edit(u) ==
    /\ ~profile[u].exists
    /\ profile' = [profile EXCEPT ![u].exists = TRUE]
    /\ UNCHANGED <<kind, owner, job, holder, handler, forms, upload, public,
                   shown, refused, faults>>

-----------------------------------------------------------------------------
(* The handler of a job: updateAvatar over Updater.Update                   *)

Mine(h) == owner[handler[h].job]
Goto(h, s) == handler' = [handler EXCEPT ![h].step = s]
At(h, s) == handler[h].step = s

\* Variant: an error deletes the job.
FailsForGood(h) == Fault /\ Goto(h, "delete")

\* A call of the step fails: the job is to be tried again.
Fails(h) == Fault /\ Goto(h, "retry")

Reserve(h, j) ==
    /\ handler[h] = Idle /\ job[j] = "ready"
    /\ job' = [job EXCEPT ![j] = "reserved"]
    /\ holder' = [holder EXCEPT ![j] = h]
    /\ handler' = [handler EXCEPT ![h] =
          [job |-> j, picture |-> None,
           step |-> IF kind[j] = "google" THEN "check" ELSE "fetch"]]
    /\ UNCHANGED <<kind, owner, forms, upload, public, profile, shown, refused, faults>>

\* SkipIfExists
Check(h) ==
    /\ At(h, "check")
    /\ \/ Goto(h, IF profile[Mine(h)].exists THEN "delete" ELSE "fetch") /\ UNCHANGED faults
       \/ Fails(h)
    /\ UNCHANGED <<kind, owner, job, holder, forms, upload, public, profile, shown, refused>>

\* Variant: the file is removed once it is read.
FetchAndRemove(h, p) ==
    /\ p # None /\ p \notin Broken
    /\ handler' = [handler EXCEPT ![h].picture = p, ![h].step = "store"]
    /\ upload' = [upload EXCEPT ![Mine(h)] = None]
    /\ UNCHANGED <<refused, faults>>

\* fetchImage of a file that is there and is an image, of no file, of a file
\* that is no image, and of the picture of the Google account.
FetchUpload(h, p) ==
    /\ p # None /\ p \notin Broken
    /\ handler' = [handler EXCEPT ![h].picture = p, ![h].step = "store"]
    /\ UNCHANGED <<upload, refused, faults>>

FetchNothing(h, p) ==
    /\ p = None
    /\ Goto(h, "retry")
    /\ UNCHANGED <<upload, refused, faults>>

FetchBroken(h, p) ==
    /\ p \in Broken
    /\ handler' = [handler EXCEPT ![h].picture = p, ![h].step = "refuse"]
    /\ refused' = refused \cup {p}
    /\ UNCHANGED <<upload, faults>>

FetchGoogle(h) ==
    /\ handler' = [handler EXCEPT ![h].picture = "google", ![h].step = "upsert"]
    /\ UNCHANGED <<upload, refused, faults>>

Fetch(h) ==
    /\ At(h, "fetch")
    /\ LET p == upload[Mine(h)] IN
       \/ /\ kind[handler[h].job] = "avatar"
          /\ FetchUpload(h, p) \/ FetchNothing(h, p) \/ FetchBroken(h, p)
       \/ kind[handler[h].job] = "google" /\ FetchGoogle(h)
       \/ Fails(h) /\ UNCHANGED <<upload, refused>>
    /\ UNCHANGED <<kind, owner, job, holder, forms, public, profile, shown>>

\* What cleanupObject removes is the file that is there by now; a failure is logged.
Refuse(h) ==
    /\ At(h, "refuse")
    /\ Goto(h, "delete")
    /\ \/ upload' = [upload EXCEPT ![Mine(h)] = None] /\ UNCHANGED faults
       \/ Fault /\ UNCHANGED upload
    /\ UNCHANGED <<kind, owner, job, holder, forms, public, profile, shown, refused>>

\* Variant: the profile is written whether or not the avatar is stored.
StoreUnchecked(h) ==
    /\ At(h, "store")
    /\ Goto(h, "upsert")
    /\ \/ public' = [public EXCEPT ![Mine(h)] = @ \cup {handler[h].picture}]
          /\ UNCHANGED faults
       \/ Fault /\ UNCHANGED public
    /\ UNCHANGED <<kind, owner, job, holder, forms, upload, profile, shown, refused>>

\* PutObject of the avatar; it may fail when the object is stored.
Store(h) ==
    /\ At(h, "store")
    /\ LET stored == [public EXCEPT ![Mine(h)] = @ \cup {handler[h].picture}] IN
       \/ Goto(h, "upsert") /\ public' = stored /\ UNCHANGED faults
       \/ Fails(h) /\ public' \in {public, stored}
    /\ UNCHANGED <<kind, owner, job, holder, forms, upload, profile, shown, refused>>

\* Mongo.CreateOrUpdate sets the fields that the job brings.
Written(h) ==
    LET u == Mine(h)
        p == handler[h].picture
    IN  IF kind[handler[h].job] = "google"
        THEN [profile[u] EXCEPT !.exists = TRUE, !.thumbnail = p]
        ELSE [exists |-> TRUE, avatar |-> p, thumbnail |-> p]

\* The upsert; names of a Google account that are not valid delete the job.
Upsert(h) ==
    /\ At(h, "upsert")
    /\ LET u == Mine(h)
           written == [profile EXCEPT ![u] = Written(h)]
           seen == [shown EXCEPT ![u] = @ \cup ({Written(h).avatar} \ {None})]
       IN \/ /\ Goto(h, "remove") /\ UNCHANGED faults
             /\ profile' = written /\ shown' = seen
          \/ Fails(h) /\ profile' = written /\ shown' = seen
          \/ Fails(h) /\ UNCHANGED <<profile, shown>>
          \/ /\ kind[handler[h].job] = "google" /\ Goto(h, "delete")
             /\ UNCHANGED <<profile, shown, faults>>
    /\ UNCHANGED <<kind, owner, job, holder, forms, upload, public, refused>>

\* cleanupObject: a failure is logged.
Remove(h) ==
    /\ At(h, "remove")
    /\ Goto(h, "delete")
    /\ \/ kind[handler[h].job] = "google" /\ UNCHANGED <<upload, faults>>
       \/ /\ kind[handler[h].job] = "avatar"
          /\ upload' = [upload EXCEPT ![Mine(h)] = None] /\ UNCHANGED faults
       \/ kind[handler[h].job] = "avatar" /\ Fault /\ UNCHANGED upload
    /\ UNCHANGED <<kind, owner, job, holder, forms, public, profile, shown, refused>>

\* jobDelete and jobRetry: the queue refuses a handler that does not hold the
\* job, and a failure is only logged.  A job older than a day is buried.
Settle(h) ==
    /\ At(h, "delete") \/ At(h, "retry")
    /\ LET j == handler[h].job
           ends == IF At(h, "delete") THEN {"deleted"} ELSE {"ready", "buried"}
       IN \/ /\ holder[j] = h
             /\ \E s \in ends : job' = [job EXCEPT ![j] = s]
             /\ holder' = [holder EXCEPT ![j] = None]
             /\ UNCHANGED faults
          \/ holder[j] # h /\ UNCHANGED <<job, holder, faults>>
          \/ Fault /\ UNCHANGED <<job, holder>>
    /\ handler' = [handler EXCEPT ![h] = Idle]
    /\ UNCHANGED <<kind, owner, forms, upload, public, profile, shown, refused>>

\* A reservation ends after two minutes: its handler may still be working, may
\* have failed to settle the job, or may have stopped with its process.
Lapse(j) ==
    /\ job[j] = "reserved"
    /\ \/ Fault /\ UNCHANGED handler
       \/ /\ \A h \in Handlers : holder[j] = h => handler[h].job # j
          /\ UNCHANGED <<faults, handler>>
       \/ /\ Fault
          /\ handler' = [h \in Handlers |-> IF holder[j] = h THEN Idle ELSE handler[h]]
    /\ job' = [job EXCEPT ![j] = "ready"]
    /\ holder' = [holder EXCEPT ![j] = None]
    /\ UNCHANGED <<kind, owner, forms, upload, public, profile, shown, refused>>

-----------------------------------------------------------------------------
Work(h) ==
    Check(h) \/ Fetch(h) \/ Refuse(h) \/ Store(h) \/ Upsert(h) \/ Remove(h) \/ Settle(h)

Take(j) == \E h \in Handlers : Reserve(h, j)

Next ==
    \/ \E u \in Users : RequestUpload(u) \/ SignIn(u) \/ Post(u) \/ Expire(u) \/ Edit(u)
    \/ \E h \in Handlers : Work(h)
    \/ \E j \in Jobs : Take(j) \/ Lapse(j)

\* Handlers get on with their work, a reservation that nobody uses lapses, and
\* the queue gives out jobs in the order in which they became ready: one that is
\* ready again and again is reserved.  Nobody has to ask for a form or post one.
Fairness ==
    /\ \A h \in Handlers : WF_vars(Work(h))
    /\ \A j \in Jobs : WF_vars(Lapse(j)) /\ SF_vars(Take(j))

Spec == Init /\ [][Next]_vars /\ Fairness

-----------------------------------------------------------------------------
(* Properties                                                               *)

\* The avatar of a profile is in the public bucket whenever a page asks for it,
\* in the middle of any number of updates, retries and failures.
ShownAvatarExists ==
    \A u \in Users : profile[u].avatar # None => profile[u].avatar \in public[u]

\* Handler h removes the file of u, in which it has not read the picture it is done with.
RemovesUnread(h, u) ==
    /\ At(h, "remove") \/ At(h, "refuse")
    /\ handler'[h].step = "delete" /\ Mine(h) = u
    /\ handler[h].picture # upload[u]

\* The file of a user is removed only when its picture has been the avatar or
\* was refused, so that a job that is tried again finds it.  The one exception is
\* a file that takes the place of another, an image or not, between the calls that
\* read and remove that one (Updater.Update, fetchImage, cleanupObject).
RemovedWasUsed ==
    [][\A u \in Users : upload[u] # None /\ upload'[u] = None =>
          \/ upload[u] \in shown[u] \cup refused
          \/ \E h \in Handlers : RemovesUnread(h, u)]_vars

\* A file that is there while a job of its user waits becomes the avatar, or is
\* refused, replaced or removed with another, unless the job gets too old.
PostedIsUsed ==
    \A u \in Users, p \in Pictures, j \in Jobs :
        (upload[u] = p /\ job[j] = "ready" /\ kind[j] = "avatar" /\ owner[j] = u)
            ~> (p \in shown[u] \cup refused \/ upload[u] # p \/ job[j] = "buried")
=============================================================================
