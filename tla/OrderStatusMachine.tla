------------------------- MODULE OrderStatusMachine -------------------------
(***************************************************************************)
(* What the transition table promises, without requests, histories or      *)
(* numbers: an order appears as "pending" and from then on only follows    *)
(* the table, except that an administrator may cancel it from any status   *)
(* that is not "cancelled" already.                                        *)
(***************************************************************************)
EXTENDS OrderStates

CONSTANT Orders

VARIABLE status

Init == status = [o \in Orders |-> "absent"]

Place(o) == /\ status[o] = "absent"
            /\ status' = [status EXCEPT ![o] = "pending"]

Follow(o) == /\ status[o] \in OrderStatus
             /\ \E s \in Allowed[status[o]] : status' = [status EXCEPT ![o] = s]

AdminCancel(o) == /\ status[o] \in OrderStatus \ {"cancelled"}
                  /\ status' = [status EXCEPT ![o] = "cancelled"]

Next == \E o \in Orders : Place(o) \/ Follow(o) \/ AdminCancel(o)

Spec == Init /\ [][Next]_status
=============================================================================
