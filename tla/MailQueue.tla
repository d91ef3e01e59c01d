------------------------------ MODULE MailQueue ------------------------------
(***************************************************************************)
(* Mails: MailService puts them into the queue "email" (three attempts,    *)
(* exponential backoff) and EmailProcessor renders the template and hands  *)
(* the mail to the SMTP server.  The mail may go out although the attempt  *)
(* fails, or its process dies before the job is completed.                 *)
(***************************************************************************)
EXTENDS JobQueue

CONSTANTS Mails,
          MaxDeaths   \* bound of the model: crashes of the process

VARIABLES
  mail,    \* [Mails -> Job]
  out,     \* [Mails -> how often the server took it]
  deaths

vars == <<mail, out, deaths>>

Attempts == 3

TypeOK == mail \in [Mails -> Job] /\ out \in [Mails -> 0 .. 5] /\ deaths \in 0 .. MaxDeaths

Init == mail = [m \in Mails |-> Unborn] /\ out = [m \in Mails |-> 0] /\ deaths = 0
-----------------------------------------------------------------------------
(* The add of a caller; one that fails leaves no job, and an order or a    *)
(* change of its status goes on without the mail.                          *)
Add(m) ==
  /\ mail[m].st = "unborn"
  /\ mail' = [mail EXCEPT ![m] = Queued(@)]
  /\ UNCHANGED <<out, deaths>>

Take(m) ==
  /\ mail[m].st = "waiting" /\ Idling(mail)
  /\ mail' = [mail EXCEPT ![m] = Taken(@)]
  /\ UNCHANGED <<out, deaths>>

More(k, n) == IF k < 5 THEN k + n ELSE k   \* bound of the model

(* Mutation: the job is added again after its last attempt. *)
TriedForEver(j) == [j EXCEPT !.st = "waiting"]

(* process: the catch throws the error again. *)
Failed(j) == Threw(j, Attempts)

(* sendMail answers, or the template or the server fails; an error may     *)
(* come after the server took the mail.                                    *)
Send(m) ==
  /\ mail[m].st = "active"
  /\ \/ /\ mail' = [mail EXCEPT ![m] = Completed(@)]
        /\ out' = [out EXCEPT ![m] = More(@, 1)]
     \/ /\ mail' = [mail EXCEPT ![m] = Failed(@)]
        /\ \E n \in {0, 1} : out' = [out EXCEPT ![m] = More(@, n)]
  /\ UNCHANGED deaths

Die(m) ==
  /\ mail[m].st = "active" /\ deaths < MaxDeaths
  /\ mail' = [mail EXCEPT ![m] = Stalled(@)]
  /\ \E n \in {0, 1} : out' = [out EXCEPT ![m] = More(@, n)]
  /\ deaths' = deaths + 1

Work(m) == Take(m) \/ Send(m)
Next == \E m \in Mails : Add(m) \/ Work(m) \/ Die(m)

(* The worker takes what waits: fair for every mail, strongly for the take *)
(* because another mail may be in work whenever this one waits.            *)
Fairness == \A m \in Mails : SF_vars(Take(m)) /\ WF_vars(Send(m))
Spec == Init /\ [][Next]_vars /\ Fairness
-----------------------------------------------------------------------------
(* Every mail in the queue ends: its job is completed and the mail has     *)
(* left, or the job has failed for good, although attempts fail after the  *)
(* server took the mail and the process dies in between.                   *)
InQueue(m) == mail[m].st = "waiting"
Over(m)    == mail[m].st = "failed" \/ (mail[m].st = "completed" /\ out[m] > 0)
MailsEnd   == \A m \in Mails : InQueue(m) ~> Over(m)
=============================================================================
