---------------------------- MODULE OrderStates ----------------------------
(***************************************************************************)
(* The vocabulary of an order: its statuses, the transition table of       *)
(* OrdersService.validateStatusTransition, the statuses of a marking code  *)
(* ("Chestny ZNAK") and the entries of an order's history.                 *)
(***************************************************************************)
EXTENDS Sequences, Naturals

OrderStatus == {"pending", "confirmed", "processing", "shipped",
                "delivered", "cancelled", "refunded"}

(* The targets updateStatus accepts, by the status it has read. *)
Allowed ==
  [pending    |-> {"confirmed", "cancelled"},
   confirmed  |-> {"processing", "cancelled"},
   processing |-> {"shipped", "cancelled"},
   shipped    |-> {"delivered"},
   delivered  |-> {"refunded"},
   cancelled  |-> {},
   refunded   |-> {}]

(* The statuses in which cancel serves a customer; it serves an            *)
(* administrator in every status except "cancelled".                       *)
CustomerCancellable == {"pending", "confirmed"}

(* What the code of a placed order is worth: in_stock codes are counted    *)
(* into the stock of their variant, the others are not.                    *)
CodeStatus == {"in_stock", "reserved", "sold", "returned", "written_off"}

(* One element of the jsonb column orders.history.  by is createdBy, which *)
(* the entry written by create does not have.                              *)
Entry(actors) == [status : OrderStatus, by : actors \cup {"nobody"}]

(* Mutation: the first entry is written with a status of its own. *)
CreatedUnlisted == [status |-> "created", by |-> "nobody"]

Created == [status |-> "pending", by |-> "nobody"]

LastOf(h) == h[Len(h)]
=============================================================================
