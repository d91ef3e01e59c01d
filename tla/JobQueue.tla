------------------------------ MODULE JobQueue ------------------------------
(***************************************************************************)
(* A job of a BullMQ queue (external), as the processors of this shop use  *)
(* it: one worker takes one job at a time, a processor that throws is      *)
(* tried again while attempts are left, and a job whose process died is    *)
(* found stalled and taken once more, but only once.                       *)
(***************************************************************************)
EXTENDS Naturals

JobStates == {"unborn", "waiting", "active", "completed", "failed"}
Job == [st : JobStates, tries : 0 .. 3, stalls : 0 .. 2]
Unborn == [st |-> "unborn", tries |-> 0, stalls |-> 0]

Queued(j) == [j EXCEPT !.st = "waiting"]
Taken(j) == [j EXCEPT !.st = "active"]
Completed(j) == [j EXCEPT !.st = "completed"]

(* A backoff is a wait like any other. *)
Threw(j, attempts) ==
  [j EXCEPT !.tries = @ + 1, !.st = IF j.tries + 1 < attempts THEN "waiting" ELSE "failed"]

Stalled(j) == [j EXCEPT !.stalls = @ + 1, !.st = IF j.stalls = 0 THEN "waiting" ELSE "failed"]

Ended(j) == j.st \in {"completed", "failed"}
Idling(jobs) == \A i \in DOMAIN jobs : jobs[i].st # "active"
=============================================================================
