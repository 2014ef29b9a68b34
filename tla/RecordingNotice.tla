-------------------------- MODULE RecordingNotice --------------------------
(***************************************************************************)
(* The message that tells the owner of a talk that its recording can be    *)
(* watched, over the catalog: a job of the tube RecordingUpdate, whose     *)
(* handler looks up the talk and its confa and puts a job for the sender,  *)
(* which mails the message.                                                *)
(***************************************************************************)
EXTENDS ConfaCatalog

CONSTANT MaxMails    \* bound: messages of a talk that wait to be sent

ASSUME NoticeAssumption == MaxMails \in Nat \ {0}

VARIABLES update,   \* per talk: the job that says its recording is processed
          held,     \* the handler of that job has it reserved
          step,     \* per talk: the next call of the handler, if it has the job
          mails,    \* per talk: jobs of the tube Send
          told,     \* talks whose owner got the message
          givenUp   \* talks with a job that was buried

noticeVars == <<update, held, step, mails, told, givenUp>>
vars == <<catalogVars, noticeVars>>

Init ==
    /\ CatalogInit
    /\ update = [t \in Talks |-> "none"]
    /\ held = {}
    /\ step = [t \in Talks |-> "idle"]
    /\ mails = [t \in Talks |-> 0]
    /\ told = {}
    /\ givenUp = {}

Kept == UNCHANGED <<confa, talk, rooms, request, swept, late, strays>>
Goto(t, s) == step' = [step EXCEPT ![t] = s]

-----------------------------------------------------------------------------
\* The record tracker has seen all tracks of a room processed: the room is
\* recorded, its talk may be gone by now.
Processed(t) ==
    /\ update[t] = "none" /\ t \in rooms
    /\ update' = [update EXCEPT ![t] = "ready"]
    /\ Kept /\ UNCHANGED <<faults, held, step, mails, told, givenUp>>

\* recordingUpdate
Take(t) ==
    /\ update[t] = "ready" /\ step[t] = "idle"
    /\ update' = [update EXCEPT ![t] = "reserved"]
    /\ held' = held \cup {t}
    /\ Goto(t, "talk")
    /\ Kept /\ UNCHANGED <<faults, mails, told, givenUp>>

\* An error is tried again, a talk that is not there never.
FetchTalk(t) ==
    /\ step[t] = "talk"
    /\ \/ Goto(t, IF Exists(talk[t]) THEN "confa" ELSE "delete") /\ UNCHANGED faults
       \/ Fault /\ Goto(t, "retry")
    /\ Kept /\ UNCHANGED <<update, held, mails, told, givenUp>>

FetchConfa(t) ==
    /\ step[t] = "confa"
    /\ \/ Goto(t, IF Exists(confa[talk[t].confa]) THEN "send" ELSE "delete") /\ UNCHANGED faults
       \/ Fault /\ Goto(t, "retry")
    /\ Kept /\ UNCHANGED <<update, held, mails, told, givenUp>>

\* Variant: an error of the queue is only logged.
SendOnce(t) ==
    /\ step[t] = "send" /\ mails[t] < MaxMails
    /\ Goto(t, "delete")
    /\ \/ mails' = [mails EXCEPT ![t] = @ + 1] /\ UNCHANGED faults
       \/ Fault /\ UNCHANGED mails
    /\ Kept /\ UNCHANGED <<update, held, told, givenUp>>

\* Beanstalk.Send puts the job of the sender; a failure may follow the Put.
Send(t) ==
    /\ step[t] = "send" /\ mails[t] < MaxMails
    /\ LET more == [mails EXCEPT ![t] = @ + 1] IN
       \/ Goto(t, "delete") /\ mails' = more /\ UNCHANGED faults
       \/ Fault /\ Goto(t, "retry") /\ mails' \in {mails, more}
    /\ Kept /\ UNCHANGED <<update, held, told, givenUp>>

\* jobDelete and jobRetry, which buries a job older than two hours.
Settle(t) ==
    /\ step[t] \in {"delete", "retry"}
    /\ Goto(t, "idle")
    /\ \/ /\ t \in held
          /\ \E s \in IF step[t] = "delete" THEN {"deleted"} ELSE {"ready", "buried"} :
                /\ update' = [update EXCEPT ![t] = s]
                /\ givenUp' = IF s = "buried" THEN givenUp \cup {t} ELSE givenUp
          /\ held' = held \ {t}
          /\ UNCHANGED faults
       \/ t \notin held /\ UNCHANGED <<update, held, givenUp, faults>>
       \/ Fault /\ UNCHANGED <<update, held, givenUp>>
    /\ Kept /\ UNCHANGED <<mails, told>>

\* The reservation ends: after its time, with the handler's process, or because
\* the handler failed to settle the job.
Lapse(t) ==
    /\ update[t] = "reserved"
    /\ \/ step[t] = "idle" /\ UNCHANGED <<faults, step>>
       \/ Fault /\ step' \in {step, [step EXCEPT ![t] = "idle"]}
    /\ update' = [update EXCEPT ![t] = "ready"]
    /\ held' = held \ {t}
    /\ Kept /\ UNCHANGED <<mails, told, givenUp>>

\* The sender's handler over Sender.Send: it mails the message and deletes its
\* job, keeps the job when the user is not found, the mail fails or the deletion
\* does, and buries it after a day of failures.
Mail(t) ==
    /\ mails[t] > 0
    /\ \/ /\ told' = told \cup {t} /\ mails' = [mails EXCEPT ![t] = @ - 1]
          /\ UNCHANGED <<givenUp, faults>>
       \/ Fault /\ told' \in {told, told \cup {t}} /\ UNCHANGED <<mails, givenUp>>
       \/ /\ Fault /\ mails' = [mails EXCEPT ![t] = @ - 1] /\ givenUp' = givenUp \cup {t}
          /\ UNCHANGED told
    /\ Kept /\ UNCHANGED <<update, held, step>>

-----------------------------------------------------------------------------
Handle(t) == FetchTalk(t) \/ FetchConfa(t) \/ Send(t) \/ Settle(t)

Notice(t) == Take(t) \/ Handle(t) \/ Lapse(t) \/ Mail(t)

CatalogStep == CatalogNext /\ UNCHANGED noticeVars

Next == CatalogStep \/ \E t \in Talks : Processed(t) \/ Notice(t)

\* Both services consume their tubes; users do what they like.
Fairness ==
    \A t \in Talks : WF_vars(Take(t)) /\ WF_vars(Handle(t)) /\ WF_vars(Lapse(t)) /\ WF_vars(Mail(t))

Spec == Init /\ [][Next]_vars /\ Fairness

-----------------------------------------------------------------------------
\* The owner of a talk whose recording is processed is told, across two queues
\* and whatever fails, unless the talk or its confa is deleted meanwhile or a job
\* gets too old.
OwnerIsTold ==
    \A t \in Talks : update[t] = "ready" ~>
        \/ t \in told \cup givenUp
        \/ ~Exists(talk[t]) \/ ~Exists(confa[talk[t].confa])
=============================================================================
