-------------------------- MODULE MCOrderLifecycle --------------------------
(***************************************************************************)
(* A small instance of OrderTurns.  Where the requests take turns, three   *)
(* create calls race for a number; where they race, two requests do, on    *)
(* two orders.                                                             *)
(***************************************************************************)
EXTENDS OrderTurns, TLC

CONSTANTS o1, o2, o3, c1, c2

MCOrders    == {o1, o2, o3}
MCLate      == {o3}
MCCustomers == {c1, c2}
MCOwner     == (o1 :> c1) @@ (o2 :> c2) @@ (o3 :> c1)
=============================================================================
