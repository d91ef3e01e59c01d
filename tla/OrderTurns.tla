----------------------------- MODULE OrderTurns -----------------------------
(***************************************************************************)
(* The row of an order in two kinds of behaviours.  Where they are         *)
(* `sequential', the requests that change a status take turns, as if the   *)
(* office and the customers waited for every answer; elsewhere they race.  *)
(***************************************************************************)
EXTENDS OrderLifecycle

CONSTANT Late   \* the orders that are placed in sequential behaviours only

VARIABLE sequential

all == <<status, history, number, draft, req, sequential>>

OneAtATime == \A r, q \in Requests : req[r] # Idle /\ req[q] # Idle => r = q
NoneIsLate == \A o \in Late : draft[o] = 0

TurnsInit == Init /\ sequential \in BOOLEAN
TurnsNext == /\ Next
             /\ IF sequential THEN OneAtATime' ELSE NoneIsLate'
             /\ UNCHANGED sequential
TurnsSpec == TurnsInit /\ [][TurnsNext]_all
-----------------------------------------------------------------------------
(* With one request at a time the status follows the transition table:     *)
(* what updateStatus and cancel check before their awaits still holds when *)
(* they write, so each is one step of validateStatusTransition.  Where     *)
(* requests race, the table is left alone.                                 *)
Machine == INSTANCE OrderStatusMachine
             WITH status <- IF sequential THEN status ELSE [o \in Orders |-> "absent"]
FollowsTheTable == Machine!Spec
=============================================================================
