----------------------------- MODULE PromoUsage -----------------------------
(***************************************************************************)
(* How often a promo code is used: PromotionsService.validate and          *)
(* applyUsage as OrdersService.create calls them, and the administrator    *)
(* who edits or deletes the code meanwhile.                                *)
(*                                                                         *)
(* create validates the code before the order exists and counts its use    *)
(* after the order is placed; applyUsage reads the row in one query and    *)
(* writes both counters from that reading in another.                      *)
(***************************************************************************)
EXTENDS Naturals, FiniteSets, Functions

CONSTANTS Checkouts,   \* create calls that carry the code
          Users,
          Buyer,       \* [Checkouts -> Users]
          Limits,      \* the values an administrator gives usageLimit
          PerUser,     \* usageLimitPerUser, 0 for none
          MayDie       \* a call may end early

VARIABLES
  promo,   \* the row: does it exist, is it active, limit, counters
  call,    \* [Checkouts -> the state of the create call]
  redeemed \* the checkouts whose order was placed with the discount

vars == <<promo, call, redeemed>>

Counters == [used : Nat, usage : [Users -> Nat]]

NoUse == [used |-> 0, usage |-> [u \in Users |-> 0]]

TypeOK ==
  /\ promo \in [exists : BOOLEAN, active : BOOLEAN, limit : Limits, count : Counters]
  /\ call \in [Checkouts -> [pc : {"idle", "insert", "count", "write", "done", "failed"},
                             discount : BOOLEAN, seen : Counters]]
  /\ redeemed \subseteq Checkouts

Init ==
  /\ promo \in [exists : {TRUE}, active : {TRUE}, limit : Limits, count : {NoUse}]
  /\ call = [c \in Checkouts |-> [pc |-> "idle", discount |-> FALSE, seen |-> NoUse]]
  /\ redeemed = {}
-----------------------------------------------------------------------------
(* A limit of 0 is no limit (promotion.usageLimit && ...); active stands   *)
(* for isActive within startDate and endDate.                              *)
Valid(u) ==
  /\ promo.exists /\ promo.active
  /\ promo.limit = 0 \/ promo.count.used < promo.limit
  /\ PerUser = 0 \/ promo.count.usage[u] < PerUser

(* Mutation: the use is counted before the order is placed. *)
ValidateThenCount(c) ==
  /\ call[c].pc = "idle"
  /\ call' = [call EXCEPT ![c].pc = IF Valid(Buyer[c]) THEN "count" ELSE "done"]
  /\ UNCHANGED <<promo, redeemed>>

(* Step 5 of create: an invalid code is dropped, not refused. *)
Validate(c) ==
  /\ call[c].pc = "idle"
  /\ call' = [call EXCEPT ![c].pc = "insert", ![c].discount = Valid(Buyer[c])]
  /\ UNCHANGED <<promo, redeemed>>

(* Step 7: the order is stored, with or without the code. *)
PlaceOrder(c) ==
  /\ call[c].pc = "insert"
  /\ IF call[c].discount
     THEN /\ redeemed' = redeemed \cup {c}
          /\ call' = [call EXCEPT ![c].pc = "count"]
     ELSE /\ call' = [call EXCEPT ![c].pc = "done"]
          /\ UNCHANGED redeemed
  /\ UNCHANGED promo

(* Step 10, applyUsage: findByCode throws when the code was deleted ... *)
ReadUsage(c) ==
  /\ call[c].pc = "count"
  /\ IF promo.exists
     THEN call' = [call EXCEPT ![c].pc = "write", ![c].seen = promo.count]
     ELSE call' = [call EXCEPT ![c].pc = "failed"]
  /\ UNCHANGED <<promo, redeemed>>

(* Mutation: only the total is counted. *)
CountedInTotal(count, u) == [count EXCEPT !.used = @ + 1]

Counted(count, u) == [used  |-> count.used + 1,
                      usage |-> [count.usage EXCEPT ![u] = @ + 1]]

(* ... incrementUsage overwrites both counters; on a deleted row it        *)
(* changes nothing.                                                        *)
WriteUsage(c) ==
  /\ call[c].pc = "write"
  /\ promo' = [promo EXCEPT !.count = IF promo.exists THEN Counted(call[c].seen, Buyer[c])
                                                      ELSE @]
  /\ call' = [call EXCEPT ![c].pc = "done"]
  /\ UNCHANGED redeemed

Die(c) ==
  /\ MayDie
  /\ call[c].pc \in {"insert", "count", "write"}
  /\ call' = [call EXCEPT ![c].pc = "failed"]
  /\ UNCHANGED <<promo, redeemed>>

(* PromotionsService.update leaves the counters alone. *)
Edit(active, limit) ==
  /\ promo.exists
  /\ promo' = [promo EXCEPT !.active = active, !.limit = limit]
  /\ UNCHANGED <<call, redeemed>>

Delete ==
  /\ promo.exists
  /\ promo' = [promo EXCEPT !.exists = FALSE]
  /\ UNCHANGED <<call, redeemed>>

Next ==
  \/ \E c \in Checkouts :
       Validate(c) \/ PlaceOrder(c) \/ ReadUsage(c) \/ WriteUsage(c) \/ Die(c)
  \/ \E active \in BOOLEAN, limit \in Limits : Edit(active, limit)
  \/ Delete

Spec == Init /\ [][Next]_vars
-----------------------------------------------------------------------------
By(u, cs) == {c \in cs : Buyer[c] = u}

(* The total is the sum of the uses of the users, although applyUsage      *)
(* calls overwrite each other: both counters are written by one statement  *)
(* from one reading of the row, so an update is lost in both or in none.   *)
CountersAgree == promo.count.used = SumFunction(promo.count.usage)

(* A use is counted only for an order that was placed with the discount,   *)
(* for the customer who placed it and once: updates may be lost, so the    *)
(* counters may fall behind the orders, but they never run ahead, and no   *)
(* customer is refused for an order that does not exist.                   *)
UsesAreBackedByOrders ==
  /\ promo.count.used <= Cardinality(redeemed)
  /\ \A u \in Users : promo.count.usage[u] <= Cardinality(By(u, redeemed))

(* usageLimit is the limit of uses of the code. *)
LimitIsKept == promo.limit # 0 => Cardinality(redeemed) <= promo.limit
=============================================================================
