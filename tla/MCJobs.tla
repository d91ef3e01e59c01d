------------------------------- MODULE MCJobs -------------------------------
(***************************************************************************)
(* Files of two groups and one product that was there before, whose import *)
(* dies twice at most, three visits of two sessions, two mails with two    *)
(* crashes, two requests on two texts of one customer, or on three         *)
(* categories.                                                             *)
(***************************************************************************)
EXTENDS Jobs, TLC

CONSTANTS r1, r2, a1, a2, a3, u1

(* A group with everything, and groups that lack something. *)
Full    == [sku |-> TRUE, name |-> TRUE, category |-> TRUE]
MCFiles == {<<Full, [Full EXCEPT !.sku = FALSE]>>,
            <<[Full EXCEPT !.name = FALSE], [Full EXCEPT !.category = FALSE]>>}
MCOld   == {a1}

MCCalls    == {r1, r2}
MCMails    == {1, 2}
MCCats     == {a1, a2, a3}
MCUsers    == {u1}
MCRatings  == {5}
MCEvents   == {1, 2, 3}
MCSessions == {"s", "t"}

(* Two of the three events are of one session. *)
MCSessionOf == (1 :> "s") @@ (2 :> "s") @@ (3 :> "t")
=============================================================================
