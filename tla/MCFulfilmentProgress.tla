------------------------ MODULE MCFulfilmentProgress ------------------------
(***************************************************************************)
(* What create, updateStatus and cancel bring to an end, on two instances  *)
(* of Fulfilment.  In "checkouts" both customers buy the same two marked   *)
(* variants, of which there is one code each, and no request comes between *)
(* them.  In "requests" both buy a piece of one variant, and a status      *)
(* change or a cancel comes at any time.                                   *)
(***************************************************************************)
EXTENDS Naturals, FiniteSets, TLC

CONSTANTS o1, o2, c1, c2, m1, m2, k1, k2, r1, Admin

VARIABLES part, status, history, number, draft, req,
          cart, stock, code, attached, run, job

all == <<part, status, history, number, draft, req,
         cart, stock, code, attached, run, job>>

Orders    == {o1, o2}
Customers == {c1, c2}
Requests  == {r1}
Codes     == {k1, k2}
Owner     == (o1 :> c1) @@ (o2 :> c2)
MayThrow  == TRUE
MayDie    == FALSE

C == INSTANCE Fulfilment
       WITH Variants <- {m1, m2}, Marked <- {m1, m2},
            VariantOf <- (k1 :> m1) @@ (k2 :> m2),
            Cart0 <- [c \in Customers |-> (m1 :> 1) @@ (m2 :> 1)],
            Stock0 <- (m1 :> 0) @@ (m2 :> 0)
R == INSTANCE Fulfilment
       WITH Variants <- {m1}, Marked <- {m1},
            VariantOf <- (k1 :> m1) @@ (k2 :> m1),
            Cart0 <- [c \in Customers |-> m1 :> 1],
            Stock0 <- m1 :> 0
-----------------------------------------------------------------------------
Init == \/ part = "checkouts" /\ C!Init
        \/ part = "requests" /\ R!Init

Next == \/ part = "checkouts" /\ C!Next /\ job' = job /\ UNCHANGED part
        \/ part = "requests" /\ R!Next /\ UNCHANGED part

(* The event loop and the database answer every await in the end, so a     *)
(* call that has begun goes on; nobody has to begin one.                   *)
Fairness ==
  /\ \A o \in Orders : /\ WF_all(part = "checkouts" /\ C!Proceed(o) /\ UNCHANGED part)
                       /\ WF_all(part = "requests" /\ R!Proceed(o) /\ UNCHANGED part)
  /\ \A r \in Requests : WF_all(part = "requests" /\ R!Serve(r) /\ UNCHANGED part)

Spec == Init /\ [][Next]_all /\ Fairness
-----------------------------------------------------------------------------
(* An order that has been inserted is brought to its end, whatever the     *)
(* marking service does: checkouts that need the same codes in any order   *)
(* do not wait for each other, and a failing reservation is passed over.   *)
PlacedOrdersAreFinished == R!PlacedOrdersAreFinished

(* With no other request on the order, a cancel that has been accepted     *)
(* makes the order cancelled for good, whatever the marking service does.  *)
CancelTakesEffect == R!CancelTakesEffect

(* The stock of a marked variant settles at or below its codes in stock,   *)
(* unless a create call that took codes has ended without synchronising.   *)
MarkedStockSettles ==
  <>[](IF part = "requests" THEN R!StockIsExplained ELSE C!StockIsExplained)
=============================================================================
