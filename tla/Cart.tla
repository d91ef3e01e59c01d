-------------------------------- MODULE Cart --------------------------------
(***************************************************************************)
(* The carts of one visitor: CartService over carts and cart_items.  The   *)
(* visitor is known by a session before and by a user after the login and  *)
(* may send several requests at once.  A row of carts is found by one of   *)
(* the two; nothing keeps it unique.  One row of cart_items exists for a   *)
(* cart and a variant (unique index).                                      *)
(*                                                                         *)
(* Each request is one call.  Item rows are named by the call that         *)
(* inserted them, because save and delete go by the id that was read.      *)
(***************************************************************************)
EXTENDS Naturals, FiniteSets, FiniteSetsExt

CONSTANTS Calls,
          CartIds,      \* naturals, in the order of the uuids
          Variants,
          Stock,        \* [Variants -> Nat], which the cart only reads
          MaxQuantity,  \* 10 in the code
          Quantities,   \* what a request may ask for
          Carts0        \* the rows to start from: sets of initial items

VARIABLES
  owners,  \* [CartIds -> SUBSET Owners], {} where there is no row
  promo,   \* the carts with a promo code
  item,    \* [CartIds -> [Variants -> Row]]
  call     \* [Calls -> the state of the request]

vars == <<owners, promo, item, call>>

Owners == {"user", "session"}
Ops    == {"get", "add", "update", "remove", "clear", "apply", "unpromo", "merge"}

Row     == [qty : Nat, id : Calls \cup {"old"}]
NoRow   == [qty |-> 0, id |-> "old"]
NoItems == [v \in Variants |-> NoRow]

NewCall == [pc |-> "idle", op |-> "get", who |-> "session", variant |-> CHOOSE v \in Variants : TRUE,
            n |-> 0, cart |-> 0, target |-> 0, seen |-> NoItems, mine |-> NoItems, todo |-> {}]

(* However additions, updates and merges race (a retry after the unique    *)
(* index, a row inserted again by the update of a row that was removed),   *)
(* no row asks for more than the limit of ten or than the stock: every     *)
(* path computes its quantity from a reading of its own.                   *)
TypeOK ==
  /\ owners \in [CartIds -> SUBSET Owners]
  /\ promo \subseteq {c \in CartIds : owners[c] # {}}
  /\ item \in [CartIds -> [Variants -> Row]]
  /\ \A c \in CartIds : owners[c] = {} => item[c] = NoItems
  /\ \A c \in CartIds, v \in Variants : item[c][v].qty <= MaxQuantity /\ item[c][v].qty <= Stock[v]
  /\ \A r \in Calls :
       /\ call[r].op \in Ops /\ call[r].who \in Owners /\ call[r].variant \in Variants
       /\ call[r].todo \subseteq Variants
       /\ {call[r].cart, call[r].target} \subseteq CartIds \cup {0}

(* A visitor who starts with a guest cart, a user cart, both or none. *)
Init ==
  /\ owners \in {o \in [CartIds -> {{}, {"user"}, {"session"}}] :
                   \A c, d \in CartIds : o[c] = o[d] => c = d \/ o[c] = {}}
  /\ promo = {}
  /\ item \in {i \in [CartIds -> {NoItems} \cup
                        {[v \in Variants |-> IF v \in DOMAIN l THEN [qty |-> l[v], id |-> "old"]
                                                               ELSE NoRow] : l \in Carts0}] :
                 \A c \in CartIds : owners[c] = {} => i[c] = NoItems}
  /\ call = [r \in Calls |-> NewCall]
-----------------------------------------------------------------------------
At(r, pc) == call[r].pc = pc
Goto(r, pc) == call' = [call EXCEPT ![r].pc = pc]

Has(lines, v) == lines[v].qty > 0
LinesIn(lines) == {v \in Variants : Has(lines, v)}

(* findOne with a relation orders by the primary key. *)
Found(who) == {c \in CartIds : who \in owners[c]}

(* What each operation does next with the cart it has found or created. *)
After(op, v, n, lines) ==
  CASE op = "add"     -> "look"
    [] op = "update"  -> IF Has(lines, v) /\ n <= Stock[v] THEN "save" ELSE "failed"
    [] op = "remove"  -> IF Has(lines, v) THEN "delete" ELSE "failed"
    [] op = "clear"   -> "empty"
    [] op = "apply"   -> IF LinesIn(lines) = {} THEN "failed" ELSE "promo"
    [] op = "unpromo" -> "unpromo"
    [] OTHER          -> "done"

(* findOrCreateCart, first half.  addItem compares with the stock before.  *)
(* updateItem with quantity 0 is removeItem.                               *)
Find(r, op, who, v, n) ==
  /\ At(r, "idle")
  /\ op = "add" => n <= Stock[v]
  /\ LET asked == [NewCall EXCEPT !.op = op, !.who = who, !.variant = v, !.n = n]
         c     == Min(Found(who))
     IN  call' = [call EXCEPT ![r] =
                    IF Found(who) = {} THEN [asked EXCEPT !.pc = "create"]
                    ELSE [asked EXCEPT !.pc = After(op, v, n, item[c]), !.cart = c,
                                       !.seen = [item[c] EXCEPT ![v].qty =
                                                   IF op = "update" THEN n ELSE @]]]
  /\ UNCHANGED <<owners, promo, item>>

(* createCart: the new id may come before or after any other. *)
Create(r, c) ==
  /\ At(r, "create")
  /\ owners[c] = {}
  /\ owners' = [owners EXCEPT ![c] = {call[r].who}]
  /\ call' = [call EXCEPT ![r].cart = c,
                          ![r].pc = After(call[r].op, call[r].variant, call[r].n, NoItems)]
  /\ UNCHANGED <<promo, item>>

(* saveItem: an UPDATE of the row with this id, and an INSERT when there   *)
(* is none, which the foreign key or the unique index may refuse.          *)
Saves(c, v, row) == owners[c] # {} /\ (Has(item[c], v) => item[c][v].id = row.id)
SaveItem(c, v, row) ==
  item' = IF Saves(c, v, row) THEN [item EXCEPT ![c][v] = row] ELSE item

(* addItem: findItemByCartAndVariant.  The new quantity goes to "save". *)
Look(r) ==
  /\ At(r, "look")
  /\ LET v == call[r].variant
         old == item[call[r].cart][v]
         new == old.qty + call[r].n
     IN  call' = [call EXCEPT
           ![r].seen[v] = [old EXCEPT !.qty = new],
           ![r].pc = IF old.qty = 0 THEN "insert"
                     ELSE IF new > MaxQuantity \/ new > Stock[v] THEN "failed" ELSE "save"]
  /\ UNCHANGED <<owners, promo, item>>

(* Mutation: the unique violation is caught and forgotten. *)
RefusedQuietly(c) == "done"

Refused(c) == IF owners[c] = {} THEN "failed" ELSE "raced"

(* createItem: the unique violation is caught, that of the foreign key not. *)
Insert(r) ==
  /\ At(r, "insert")
  /\ LET c == call[r].cart
         row == [qty |-> call[r].n, id |-> r]
     IN  /\ SaveItem(c, call[r].variant, row)
         /\ Goto(r, IF Saves(c, call[r].variant, row) THEN "done" ELSE Refused(c))
  /\ UNCHANGED <<owners, promo>>

(* Mutation: nobody compares with the limit or the stock. *)
RetriedWithoutLimit(old, n) == old + n

Retried(old, n) == Min({old + n, MaxQuantity})

(* The retry reads the row of the winner; when it is gone already the      *)
(* addition is dropped in silence.                                         *)
LookAgain(r) ==
  /\ At(r, "raced")
  /\ LET v == call[r].variant
         old == item[call[r].cart][v]
         new == Retried(old.qty, call[r].n)
     IN  call' = [call EXCEPT
           ![r].seen[v] = [old EXCEPT !.qty = new],
           ![r].pc = IF old.qty = 0 THEN "done" ELSE IF new > Stock[v] THEN "failed" ELSE "save"]
  /\ UNCHANGED <<owners, promo, item>>

(* The end of addItem and of updateItem. *)
Save(r) ==
  /\ At(r, "save")
  /\ LET c == call[r].cart
         v == call[r].variant
         row == call[r].seen[v]
     IN  /\ SaveItem(c, v, row)
         /\ Goto(r, IF Saves(c, v, row) THEN "done" ELSE "failed")
  /\ UNCHANGED <<owners, promo>>

(* removeItem: DELETE by the id that was read. *)
Delete(r) ==
  /\ At(r, "delete")
  /\ LET c == call[r].cart
         v == call[r].variant
     IN  item' = IF item[c][v].id = call[r].seen[v].id THEN [item EXCEPT ![c][v] = NoRow] ELSE item
  /\ Goto(r, "done")
  /\ UNCHANGED <<owners, promo>>

Empty(r) ==
  /\ At(r, "empty")
  /\ item' = [item EXCEPT ![call[r].cart] = NoItems]
  /\ Goto(r, "unpromo")
  /\ UNCHANGED <<owners, promo>>

(* The UPDATE sets promoCode and promoDiscount to undefined, which TypeORM *)
(* leaves out: the code stays on the cart.                                 *)
RemovePromo(r) ==
  /\ At(r, "unpromo")
  /\ Goto(r, "done")
  /\ UNCHANGED <<owners, promo, item>>

(* applyPromo: PromotionsService.validate may refuse the code. *)
ApplyPromo(r) ==
  /\ At(r, "promo")
  /\ \/ /\ Goto(r, "failed")
        /\ UNCHANGED promo
     \/ /\ Goto(r, "done")
        /\ promo' = promo \cup {c \in {call[r].cart} : owners[c] # {}}
  /\ UNCHANGED <<owners, item>>
-----------------------------------------------------------------------------
(* mergeCarts *)
ReadGuestCart(r) ==
  /\ At(r, "idle")
  /\ LET g == IF Found("session") = {} THEN 0 ELSE Min(Found("session")) IN
       call' = [call EXCEPT ![r] =
         [NewCall EXCEPT !.pc = "readUser", !.op = "merge", !.who = "user", !.cart = g,
                         !.seen = IF g = 0 THEN NoItems ELSE item[g]]]
  /\ UNCHANGED <<owners, promo, item>>

(* Mutation: a converted cart is merged into itself. *)
NeverSame(g, u) == FALSE

SameCart(g, u) == g = u

ReadUserCart(r) ==
  /\ At(r, "readUser")
  /\ LET found == Found("user")
         guest == LinesIn(call[r].seen)
         g     == call[r].cart
         u     == Min(found)
     IN  call' = [call EXCEPT ![r] =
           CASE guest = {} -> [@ EXCEPT !.pc = IF found = {} THEN "create" ELSE "done"]
             [] guest # {} /\ found = {} -> [@ EXCEPT !.pc = "convert"]
             [] guest # {} /\ found # {} /\ SameCart(g, u) -> [@ EXCEPT !.pc = "done"]
             [] OTHER -> [@ EXCEPT !.pc = "merge", !.target = u, !.mine = item[u], !.todo = guest]]
  /\ UNCHANGED <<owners, promo, item>>

(* The guest cart becomes the user's; sessionId: undefined is left out, so *)
(* the session still finds it.                                             *)
Convert(r) ==
  /\ At(r, "convert")
  /\ LET g == call[r].cart IN
       owners' = [owners EXCEPT ![g] = IF @ = {} THEN @ ELSE @ \cup {"user"}]
  /\ Goto(r, "done")
  /\ UNCHANGED <<promo, item>>

Merged(own, guest) == Min({Max({own, guest}), MaxQuantity})

(* One item of the guest cart: the greater quantity, or a row of its own.  *)
(* A violation ends the call half way, with the guest cart left.           *)
MergeItem(r, v) ==
  /\ At(r, "merge")
  /\ v \in call[r].todo
  /\ LET u   == call[r].target
         own == call[r].mine[v]
         row == IF own.qty = 0 THEN [qty |-> call[r].seen[v].qty, id |-> r]
                ELSE [own EXCEPT !.qty = Merged(@, call[r].seen[v].qty)]
     IN  /\ SaveItem(u, v, row)
         /\ call' = [call EXCEPT
              ![r].todo = @ \ {v},
              ![r].pc = IF ~ Saves(u, v, row) THEN "failed"
                        ELSE IF call[r].todo = {v} THEN "dropItems" ELSE @]
  /\ UNCHANGED <<owners, promo>>

DropItems(r) ==
  /\ At(r, "dropItems")
  /\ item' = [item EXCEPT ![call[r].cart] = NoItems]
  /\ Goto(r, "dropCart")
  /\ UNCHANGED <<owners, promo>>

(* The row goes, and by ON DELETE CASCADE every item added since. *)
DropCart(r) ==
  /\ At(r, "dropCart")
  /\ LET g == call[r].cart IN
       /\ owners' = [owners EXCEPT ![g] = {}]
       /\ item' = [item EXCEPT ![g] = NoItems]
       /\ promo' = promo \ {g}
  /\ Goto(r, "done")
-----------------------------------------------------------------------------
Next ==
  \E r \in Calls :
    \/ \E op \in Ops \ {"merge"}, who \in Owners, v \in Variants, n \in Quantities :
         Find(r, op, who, v, n)
    \/ \E c \in CartIds : Create(r, c)
    \/ Look(r) \/ Insert(r) \/ LookAgain(r) \/ Save(r) \/ Delete(r) \/ Empty(r)
    \/ RemovePromo(r) \/ ApplyPromo(r)
    \/ ReadGuestCart(r) \/ ReadUserCart(r) \/ Convert(r) \/ DropItems(r) \/ DropCart(r)
    \/ \E v \in Variants : MergeItem(r, v)

Spec == Init /\ [][Next]_vars
-----------------------------------------------------------------------------
TakenAway(v) ==
  \E q \in Calls : /\ call[q].pc \in {"done", "unpromo"}
                    /\ \/ call[q].op = "clear"
                       \/ call[q].op = "remove" /\ call[q].variant = v

(* A merge that has emptied its guest cart. *)
Emptied(q) == call[q].op = "merge" /\ call[q].target # 0 /\ call[q].pc \in {"dropCart", "done"}

(* Two merges that get into each other: one has emptied the guest cart     *)
(* without having seen v there, or has emptied the cart that another one   *)
(* has merged into.                                                        *)
EmptiedUnseen(v) == \E q \in Calls : Emptied(q) /\ ~ Has(call[q].seen, v)
MergedAway ==
  \E q, p \in Calls : q # p /\ Emptied(q) /\ Emptied(p) /\ call[p].cart = call[q].target

(* A merge loses nothing it has read, wherever it stops: what was in the   *)
(* guest cart is in one of the visitor's carts until somebody takes it     *)
(* away.  Items are deleted from the guest cart only after the last one is *)
(* in the user cart, and a cart is never merged into itself.  (Two merges  *)
(* of one guest cart, with an addition between their readings, can lose    *)
(* it.)                                                                    *)
MergeLosesNothing ==
  \A r \in Calls : call[r].op = "merge" =>
    \A v \in LinesIn(call[r].seen) :
      \/ TakenAway(v) \/ EmptiedUnseen(v) \/ MergedAway
      \/ \E c \in CartIds : Has(item[c], v)

Overwritten(v) == TakenAway(v) \/ \E q \in Calls : \/ call[q].op = "update" /\ call[q].variant = v
                                                   \/ call[q].op = "merge"

(* An addition that has saved fewer pieces than r has added, on top of     *)
(* what it had read before.                                                *)
Undercut(r) ==
  LET c == call[r].cart
      v == call[r].variant
  IN  \E q \in Calls : /\ call[q].op = "add" /\ At(q, "done") /\ call[q].cart = c /\ call[q].variant = v
                       /\ call[q].seen[v].qty > call[q].n /\ call[q].seen[v].qty < call[r].n

(* An accepted addition is at least in the cart as a whole, also when the  *)
(* unique index refused its row and it was counted on top of the winner's  *)
(* (addItem and its retry).  Only an update or a merge, which write back   *)
(* older readings, a removal, and an addition that read the row before     *)
(* this one was saved, may undercut it.                                    *)
AdditionsAreKept ==
  \A r \in Calls : call[r].op = "add" /\ At(r, "done") =>
    \/ Overwritten(call[r].variant) \/ Undercut(r)
    \/ item[call[r].cart][call[r].variant].qty >= call[r].n

(* "Удалить промокод": after removePromo the cart has no code. *)
RemovedPromoIsGone ==
  [][\A r \in Calls : At(r, "unpromo") /\ call[r].op = "unpromo" /\ call'[r].pc = "done"
        => call[r].cart \notin promo']_vars
=============================================================================
