----------------------------- MODULE Fulfilment -----------------------------
(***************************************************************************)
(* OrdersService.create, updateStatus and cancel together with             *)
(* OrderMarkingService: how an order comes out of a cart, takes marking    *)
(* codes and stock, and gives them back.                                   *)
(*                                                                         *)
(* Every step is one await of the code, so any other process may run       *)
(* between two steps.  The row of the order is the state of OrderLifecycle *)
(* and every write to it is an action of that module: this module adds the *)
(* cart, the stock of the variants, the marking codes and the local state  *)
(* of the calls.  Left out: the promo code (PromoUsage), prices, the       *)
(* address and the e-mails, none of which the rest depends on.             *)
(***************************************************************************)
EXTENDS OrderStates, Integers, FiniteSets

CONSTANTS Orders, Requests, Customers, Admin, Owner,
          Variants,    \* product variants
          Marked,      \* those whose product has requiresMarking
          Codes,       \* rows of marking_codes
          VariantOf,   \* [Codes -> Variants]
          Cart0,       \* [Customers -> [Variants -> Nat]]: carts at the start
          Stock0,      \* [Variants -> Nat]: stock of the unmarked variants
          MayThrow,    \* the marking service may throw (it is caught)
          MayDie       \* a call may end early (database error, restart)

ASSUME FulfilmentAssumption ==
  /\ "none" \notin Orders
  /\ Owner \in [Orders -> Customers]
  /\ Marked \subseteq Variants
  /\ IsFiniteSet(Codes)
  /\ VariantOf \in [Codes -> Marked]
  /\ Cart0 \in [Customers -> [Variants -> Nat]]
  /\ Stock0 \in [Variants -> Nat]
  /\ MayThrow \in BOOLEAN /\ MayDie \in BOOLEAN

VARIABLES
  status, history, number, draft, req,  \* as in OrderLifecycle
  cart,      \* [Customers -> [Variants -> Nat]]: quantities in the cart
  stock,     \* [Variants -> Nat]: product_variants.stock
  code,      \* [Codes -> [status, order]]: marking_codes
  attached,  \* [Orders -> SUBSET Codes]: order_items.markingCodes
  run,       \* [Orders -> Run]: the create call of each order
  job        \* [Requests -> Job]: each updateStatus or cancel call

row  == <<status, history, number, draft, req>>
vars == <<row, cart, stock, code, attached, run, job>>

Life == INSTANCE OrderLifecycle

RunPc == {"idle", "check", "number", "insert", "reserve", "sync", "save",
          "clear", "debit", "done", "rejected", "failed"}

JobPc == {"idle", "credit", "codes", "find", "resync", "write", "done", "failed"}

Run == [pc : RunPc,
        lines : [Variants -> Nat],       \* what the cart held when it was read
        todo : SUBSET Variants,          \* items the current loop has left
        unsynced : SUBSET Variants,      \* variants syncVariantStock has left
        saw : SUBSET (Variants \X Nat),  \* the stock read for the next write
        codes : SUBSET Codes]            \* locked, then in item.markingCodes

Job == [pc : JobPc,
        order : Orders \cup {"none"},
        to : {"none", "in_stock", "sold", "returned"},
        moved : SUBSET Codes,            \* the rows transitionCodes has affected
        todo : SUBSET Variants,
        saw : SUBSET (Variants \X Nat)]

NoLines == [v \in Variants |-> 0]
NewRun  == [pc |-> "idle", lines |-> NoLines, todo |-> {}, unsynced |-> {},
            saw |-> {}, codes |-> {}]
NewJob  == [pc |-> "idle", order |-> "none", to |-> "none", moved |-> {},
            todo |-> {}, saw |-> {}]

Free == [status |-> "in_stock", order |-> "none"]

Items(lines) == {v \in Variants : lines[v] > 0}

InStockOf(v) == {c \in Codes : VariantOf[c] = v /\ code[c].status = "in_stock"}

(* Mutation: reserved codes are counted as well. *)
SyncCountingReserved(v) ==
  stock' = [stock EXCEPT ![v] = Cardinality({c \in Codes : VariantOf[c] = v
                                               /\ code[c].status \in {"in_stock", "reserved"}})]

(* syncVariantStock: one UPDATE with the count as a subquery. *)
SyncVariantStock(v) == stock' = [stock EXCEPT ![v] = Cardinality(InStockOf(v))]

TypeOK ==
  /\ Life!TypeOK
  /\ cart \in [Customers -> [Variants -> Nat]]
  /\ stock \in [Variants -> Nat]
  /\ code \in [Codes -> [status : CodeStatus, order : Orders \cup {"none"}]]
  /\ attached \in [Orders -> SUBSET Codes]
  /\ run \in [Orders -> Run]
  /\ job \in [Requests -> Job]

Init ==
  /\ Life!Init
  /\ cart = Cart0
  /\ code = [c \in Codes |-> Free]
  /\ stock = [v \in Variants |-> IF v \in Marked THEN Cardinality({c \in Codes : VariantOf[c] = v})
                                                 ELSE Stock0[v]]
  /\ attached = [o \in Orders |-> {}]
  /\ run = [o \in Orders |-> NewRun]
  /\ job = [r \in Requests |-> NewJob]
-----------------------------------------------------------------------------
(* create(o) *)
At(o, pc) == run[o].pc = pc

(* The loop over the items is through with v: go on, or to next after the  *)
(* last one.                                                               *)
Through(o, v, next) ==
  run' = [run EXCEPT ![o].todo = @ \ {v}, ![o].saw = {},
                     ![o].pc = IF run[o].todo \subseteq {v} THEN next ELSE @]

Goto(o, next) == run' = [run EXCEPT ![o].pc = next]

(* The same, with a new loop over all items. *)
GotoLoop(o, next) ==
  run' = [run EXCEPT ![o].pc = next, ![o].todo = Items(run[o].lines)]

ReadCart(o) ==
  LET lines == cart[Owner[o]] IN
  /\ At(o, "idle")
  /\ Items(lines) # {}
  /\ run' = [run EXCEPT ![o].pc = "check", ![o].lines = lines, ![o].todo = Items(lines)]
  /\ UNCHANGED <<row, cart, stock, code, attached, job>>

CheckItem(o, v) ==
  /\ At(o, "check")
  /\ v \in run[o].todo
  /\ IF stock[v] < run[o].lines[v] THEN Goto(o, "rejected")
                                   ELSE Through(o, v, "number")
  /\ UNCHANGED <<row, cart, stock, code, attached, job>>

ReadNumber(o) ==
  /\ At(o, "number")
  /\ Life!ReadNumber(o)
  /\ Goto(o, "insert")
  /\ UNCHANGED <<cart, stock, code, attached, job>>

Insert(o) ==
  /\ At(o, "insert")
  /\ Life!Insert(o)
  /\ GotoLoop(o, "reserve")
  /\ UNCHANGED <<cart, stock, code, attached, job>>

InsertConflict(o) ==
  /\ At(o, "insert")
  /\ Life!Taken(draft[o])
  /\ Life!GiveUp(o)
  /\ Goto(o, "rejected")
  /\ UNCHANGED <<cart, stock, code, attached, job>>

(* Mutation: SELECT without FOR UPDATE SKIP LOCKED. *)
NothingLocked(others) == {}

(* The rows the reserving transactions of other orders have locked. *)
LockedBy(others) == UNION {run[p].codes : p \in {q \in others : At(q, "reserve")}}

(* SELECT ... FOR UPDATE SKIP LOCKED for one item: as many unlocked        *)
(* in_stock codes as are wanted or as there are.  Which of them (the       *)
(* oldest) makes no difference here.                                       *)
LockCodes(o, v) ==
  /\ At(o, "reserve")
  /\ v \in run[o].todo
  /\ LET open == InStockOf(v) \ LockedBy(Orders)
         want == run[o].lines[v]
         n    == IF Cardinality(open) < want THEN Cardinality(open) ELSE want
     IN  \E s \in SUBSET open :
           /\ Cardinality(s) = n
           /\ run' = [run EXCEPT ![o].todo = @ \ {v}, ![o].codes = @ \cup s]
  /\ UNCHANGED <<row, cart, stock, code, attached, job>>

ReserveCodes(o) ==
  code' = [c \in Codes |-> IF c \in run[o].codes
                          THEN [status |-> "reserved", order |-> o] ELSE code[c]]

(* Mutation: the variants are not synchronised after the commit. *)
CommitCodesOnly(o) ==
  /\ At(o, "reserve")
  /\ run[o].todo = {}
  /\ ReserveCodes(o)
  /\ Goto(o, "save")
  /\ UNCHANGED <<row, cart, stock, attached, job>>

(* The transaction commits; every variant of the order, marked or not, is  *)
(* to be synchronised next.                                                *)
CommitCodes(o) ==
  /\ At(o, "reserve")
  /\ run[o].todo = {}
  /\ ReserveCodes(o)
  /\ run' = [run EXCEPT ![o].pc = "sync", ![o].unsynced = Items(run[o].lines)]
  /\ UNCHANGED <<row, cart, stock, attached, job>>

SyncStock(o, v) ==
  /\ At(o, "sync")
  /\ v \in run[o].unsynced
  /\ SyncVariantStock(v)
  /\ run' = [run EXCEPT
       ![o].unsynced = @ \ {v},
       ![o].pc = IF run[o].unsynced # {v} THEN @
                 ELSE IF run[o].codes # {} THEN "save" ELSE "clear"]
  /\ UNCHANGED <<row, cart, code, attached, job>>

SaveItems(o) ==
  /\ At(o, "save")
  /\ attached' = [attached EXCEPT ![o] = run[o].codes]
  /\ Goto(o, "clear")
  /\ UNCHANGED <<row, cart, stock, code, job>>

ClearCart(o) ==
  /\ At(o, "clear")
  /\ cart' = [cart EXCEPT ![Owner[o]] = NoLines]
  /\ GotoLoop(o, "debit")
  /\ UNCHANGED <<row, stock, code, attached, job>>

(* Marked items are skipped, the stock of the others is read ... *)
DebitRead(o, v) ==
  /\ At(o, "debit")
  /\ run[o].saw = {}
  /\ v \in run[o].todo
  /\ IF v \in Marked THEN Through(o, v, "done")
                     ELSE run' = [run EXCEPT ![o].saw = {<<v, stock[v]>>}]
  /\ UNCHANGED <<row, cart, stock, code, attached, job>>

(* Mutation: without Math.max(..., 0). *)
DebitWriteUnclamped(o, v, n) ==
  /\ At(o, "debit")
  /\ run[o].saw = {<<v, n>>}
  /\ stock' = [stock EXCEPT ![v] = n - run[o].lines[v]]
  /\ Through(o, v, "done")
  /\ UNCHANGED <<row, cart, code, attached, job>>

(* ... and written back without the quantity, not below zero. *)
DebitWrite(o, v, n) ==
  /\ At(o, "debit")
  /\ run[o].saw = {<<v, n>>}
  /\ stock' = [stock EXCEPT ![v] = IF n < run[o].lines[v] THEN 0 ELSE n - run[o].lines[v]]
  /\ Through(o, v, "done")
  /\ UNCHANGED <<row, cart, code, attached, job>>

(* Mutation: create does not catch what the marking service throws. *)
CheckoutRethrows(o) ==
  /\ MayThrow
  /\ run[o].pc \in {"reserve", "sync", "save"}
  /\ Goto(o, "failed")
  /\ UNCHANGED <<row, cart, stock, code, attached, job>>

(* reserveCodesForOrder, a syncVariantStock or the save throws: create     *)
(* logs it and goes on.  Before the commit the transaction rolls back.     *)
CheckoutCatches(o) ==
  /\ MayThrow
  /\ run[o].pc \in {"reserve", "sync", "save"}
  /\ run' = [run EXCEPT ![o].pc = "clear", ![o].todo = {},
                        ![o].codes = IF At(o, "reserve") THEN {} ELSE @]
  /\ UNCHANGED <<row, cart, stock, code, attached, job>>

(* The call ends early at any other await, or the process restarts. *)
CheckoutDies(o) ==
  /\ MayDie
  /\ run[o].pc \notin {"idle", "done", "rejected", "failed"}
  /\ IF draft[o] # 0 THEN Life!GiveUp(o) ELSE UNCHANGED row
  /\ Goto(o, "failed")
  /\ UNCHANGED <<cart, stock, code, attached, job>>
-----------------------------------------------------------------------------
(* updateStatus and cancel *)
JobAt(r, pc) == job[r].pc = pc

JobThrough(r, v, next) ==
  job' = [job EXCEPT ![r].todo = @ \ {v}, ![r].saw = {},
                     ![r].pc = IF job[r].todo \subseteq {v} THEN next ELSE @]

JobGoto(r, next) == job' = [job EXCEPT ![r].pc = next]

(* cancel turns to the row last, updateStatus is through with it. *)
AfterCodes(r) == IF job[r].to = "in_stock" THEN "write" ELSE "done"

(* What updateStatus does to the codes of the order after the row; cancel  *)
(* releases them before it.                                                *)
CodesTo(s) == CASE s = "processing" -> "sold"
                [] s = "refunded"   -> "returned"
                [] OTHER            -> "none"

CodesFrom == [in_stock |-> "reserved", sold |-> "reserved", returned |-> "sold"]

UpdateRead(r, o, s) ==
  /\ JobAt(r, "idle")
  /\ Life!StartUpdate(r, o, s)
  /\ job' = [job EXCEPT ![r].pc = "write", ![r].order = o, ![r].to = CodesTo(s)]
  /\ UNCHANGED <<cart, stock, code, attached, run>>

CancelRead(r, o, actor) ==
  /\ JobAt(r, "idle")
  /\ Life!StartCancel(r, o, actor)
  /\ job' = [job EXCEPT ![r].pc = "credit", ![r].order = o, ![r].to = "in_stock",
                        ![r].todo = Items(run[o].lines)]
  /\ UNCHANGED <<cart, stock, code, attached, run>>

(* The loop of cancel over the items: marked ones are skipped, the stock   *)
(* of the others is read and written back with the quantity added.         *)
CreditRead(r, v) ==
  /\ JobAt(r, "credit")
  /\ job[r].saw = {}
  /\ v \in job[r].todo
  /\ IF v \in Marked THEN JobThrough(r, v, "codes")
                     ELSE job' = [job EXCEPT ![r].saw = {<<v, stock[v]>>}]
  /\ UNCHANGED <<row, cart, stock, code, attached, run>>

CreditWrite(r, v, n) ==
  /\ JobAt(r, "credit")
  /\ job[r].saw = {<<v, n>>}
  /\ stock' = [stock EXCEPT ![v] = n + run[job[r].order].lines[v]]
  /\ JobThrough(r, v, "codes")
  /\ UNCHANGED <<row, cart, code, attached, run>>

(* Mutation: the codes of the order in any status. *)
AffectedInAnyStatus(j) == {c \in Codes : code[c].order = j.order}

(* WHERE "orderId" = ... AND status = ANY(fromStatuses) *)
Affected(j) == {c \in Codes : code[c] = [status |-> CodesFrom[j.to], order |-> j.order]}

(* Mutation: the order is kept on the way back to the stock. *)
MovedKeepingOrder(j) == [status |-> j.to, order |-> j.order]

Moved(j) == IF j.to = "in_stock" THEN Free ELSE [status |-> j.to, order |-> j.order]

(* The UPDATE of transitionCodes; a code that returns to stock loses its   *)
(* order.  Nothing is synchronised when no row was affected.               *)
TransitionCodes(r) ==
  /\ JobAt(r, "codes")
  /\ LET j     == job[r]
         moved == Affected(j)
     IN  /\ code' = [c \in Codes |-> IF c \in moved THEN Moved(j) ELSE code[c]]
         /\ job' = [job EXCEPT ![r].moved = moved,
                               ![r].pc = IF moved = {} THEN AfterCodes(r) ELSE "find"]
  /\ UNCHANGED <<row, cart, stock, attached, run>>

(* Which variants to synchronise is looked up by the order the codes have  *)
(* NOW: none is found after a release.                                     *)
FindVariants(r) ==
  /\ JobAt(r, "find")
  /\ LET found == {VariantOf[c] : c \in {d \in Codes : code[d].order = job[r].order}} IN
       job' = [job EXCEPT ![r].todo = found,
                          ![r].pc = IF found = {} THEN AfterCodes(r) ELSE "resync"]
  /\ UNCHANGED <<row, cart, stock, code, attached, run>>

Resync(r, v) ==
  /\ JobAt(r, "resync")
  /\ v \in job[r].todo
  /\ SyncVariantStock(v)
  /\ JobThrough(r, v, AfterCodes(r))
  /\ UNCHANGED <<row, cart, code, attached, run>>

WriteRow(r) ==
  /\ JobAt(r, "write")
  /\ Life!Commit(r)
  /\ JobGoto(r, IF job[r].to \in {"sold", "returned"} THEN "codes" ELSE "done")
  /\ UNCHANGED <<cart, stock, code, attached, run>>

(* Mutation: cancel and updateStatus do not catch it. *)
JobRethrows(r) ==
  /\ MayThrow
  /\ job[r].pc \in {"codes", "find", "resync"}
  /\ JobGoto(r, "failed")
  /\ UNCHANGED <<row, cart, stock, code, attached, run>>

(* transitionCodes throws: logged, and the call goes on. *)
JobCatches(r) ==
  /\ MayThrow
  /\ job[r].pc \in {"codes", "find", "resync"}
  /\ job' = [job EXCEPT ![r].pc = AfterCodes(r), ![r].todo = {}]
  /\ UNCHANGED <<row, cart, stock, code, attached, run>>

JobDies(r) ==
  /\ MayDie
  /\ job[r].pc \notin {"idle", "done", "failed"}
  /\ IF req[r] # Life!Idle THEN Life!Abandon(r) ELSE UNCHANGED row
  /\ JobGoto(r, "failed")
  /\ UNCHANGED <<cart, stock, code, attached, run>>
-----------------------------------------------------------------------------
Proceed(o) ==
  \/ ReadNumber(o) \/ Insert(o) \/ InsertConflict(o)
  \/ CommitCodes(o) \/ SaveItems(o) \/ ClearCart(o)
  \/ \E v \in Variants :
       \/ CheckItem(o, v) \/ LockCodes(o, v) \/ SyncStock(o, v) \/ DebitRead(o, v)
       \/ \E p \in run[o].saw : DebitWrite(o, p[1], p[2])

(* An administrator or a customer asks for something. *)
Ask(r) ==
  \E o \in Orders :
    \/ \E s \in OrderStatus : UpdateRead(r, o, s)
    \/ \E actor \in Life!Actors : CancelRead(r, o, actor)

Serve(r) ==
  \/ TransitionCodes(r) \/ FindVariants(r) \/ WriteRow(r)
  \/ \E v \in Variants : CreditRead(r, v) \/ Resync(r, v)
  \/ \E p \in job[r].saw : CreditWrite(r, p[1], p[2])

Next ==
  \/ \E o \in Orders : ReadCart(o) \/ Proceed(o) \/ CheckoutCatches(o) \/ CheckoutDies(o)
  \/ \E r \in Requests : Ask(r) \/ Serve(r) \/ JobCatches(r) \/ JobDies(r)

Spec == Init /\ [][Next]_vars

(* The event loop and the database answer every await in the end, so a     *)
(* call that has begun goes on; nobody has to begin one.                   *)
FairSpec == /\ Spec
            /\ \A o \in Orders : WF_vars(Proceed(o))
            /\ \A r \in Requests : WF_vars(Serve(r))
-----------------------------------------------------------------------------
CodesOf(o) == {c \in Codes : code[c].order = o}

(* A marking code outside the stock belongs to a placed order that has its *)
(* variant among its items, and an order never has more codes of a variant *)
(* than pieces: whatever create, updateStatus and cancel do to the codes   *)
(* in between, each finds only codes of its own order (transitionCodes by  *)
(* orderId, reserveCodesForOrder by LIMIT quantity).                       *)
CodesFollowOrders ==
  /\ \A c \in Codes : \/ code[c] = Free
                      \/ code[c].status # "in_stock" /\ code[c].order \in Life!Placed
  /\ \A o \in Orders, v \in Variants :
       Cardinality({c \in CodesOf(o) : VariantOf[c] = v}) <= run[o].lines[v]

(* The codes printed on an order's items stay the codes of that order      *)
(* until a cancel of that very order has released them: two checkouts that *)
(* overlap never print one code (FOR UPDATE SKIP LOCKED), and no request   *)
(* on another order takes a code away.                                     *)
AttachedCodesAreHeld ==
  \A o \in Orders : \A c \in attached[o] :
    \/ code[c].order = o
    \/ \E r \in Requests : job[r].order = o /\ job[r].to = "in_stock" /\ c \in job[r].moved

(* A code changes hands only through the stock, and a sold code does not   *)
(* return there: it stays with its order, sold or returned, even when an   *)
(* administrator cancels the order or a stale request does.                *)
SoldCodesAreNotResold ==
  [][\A c \in Codes :
       /\ code[c].order # "none" => code'[c].order \in {code[c].order, "none"}
       /\ code[c].status = "sold" => /\ code'[c].status \in {"sold", "returned"}
                                     /\ code'[c].order = code[c].order]_vars

(* The shop never shows more pieces of a marked variant than it has codes  *)
(* in stock, except while a create call that has taken codes still has the *)
(* variant to synchronise, or has stopped before it did.                   *)
MarkedStockIsNotOverstated ==
  \A v \in Marked :
    stock[v] > Cardinality(InStockOf(v)) => \E o \in Orders : v \in run[o].unsynced

(* An order that has been inserted is brought to its end, whatever the     *)
(* marking service does: checkouts do not wait for each other's codes and  *)
(* a failing reservation is passed over.                                   *)
PlacedOrdersAreFinished == \A o \in Orders : At(o, "reserve") ~> At(o, "done")

(* With no other request on the order, a cancel that has been accepted     *)
(* makes the order cancelled for good, whatever the marking service does.  *)
CancelTakesEffect ==
  \A r \in Requests, o \in Orders :
    (JobAt(r, "credit") /\ job[r].order = o) ~> [](status[o] = "cancelled")

(* In the end a marked variant shows no more pieces than it has codes in   *)
(* stock, unless a create call that took codes has ended without           *)
(* synchronising it: every stale number that overlapping synchronisations  *)
(* and releases leave behind is repaired by a later step of some call.     *)
StockIsExplained ==
  \A v \in Marked : stock[v] > Cardinality(InStockOf(v))
    => \E o \in Orders : At(o, "done") /\ v \in run[o].unsynced
MarkedStockSettles == <>[]StockIsExplained
-----------------------------------------------------------------------------
(* Nothing is under way and nothing has failed. *)
Settled ==
  /\ \A o \in Orders : run[o].pc \in {"idle", "rejected", "done"}
  /\ \A r \in Requests : job[r].pc \in {"idle", "done"}

Cancelled(o) == \E r \in Requests :
                  JobAt(r, "done") /\ job[r].order = o /\ job[r].to = "in_stock"

(* Step 9 of create: the stock of an unmarked variant goes down by what    *)
(* was ordered, that of a marked one is synchronised with its codes.       *)
UnmarkedStockCountsSales ==
  \A o \in Orders, v \in Variants \ Marked :
    Settled /\ Life!Placed = {o} /\ ~ Cancelled(o)
      => stock[v] = Stock0[v] - run[o].lines[v]

(* The comment in cancel: the stock of marked variants is restored by      *)
(* transitionCodes through syncVariantStock.                               *)
CancelRestoresMarkedStock ==
  \A o \in Orders, v \in Marked :
    Settled /\ Cancelled(o) => stock[v] = Cardinality(InStockOf(v))

(* The comment in cancel: the reserved codes of the order are released. *)
CancelReleasesCodes ==
  \A o \in Orders : Settled /\ Cancelled(o)
    => \A c \in CodesOf(o) : code[c].status # "reserved"
=============================================================================
