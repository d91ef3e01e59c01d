------------------------------ MODULE Catalog ------------------------------
(***************************************************************************)
(* One product in the catalog: ProductsService, its rows of products and   *)
(* product_variants, the marking codes that hang on a variant (ON DELETE   *)
(* CASCADE), and the copy in Redis that findBySlug, findAll and getFacets  *)
(* keep for five minutes.                                                  *)
(*                                                                         *)
(* The content of the product is a number.  An update that carries         *)
(* variants deletes them all and inserts the list with new ids; the marks  *)
(* go with the old ids.  The list may be empty.  Orders and marking change *)
(* the stock without a word to the cache.  (A request that outlives its    *)
(* product may reach the next one here; in the code it finds nothing.)     *)
(***************************************************************************)
EXTENDS Naturals, FiniteSets

CONSTANTS Calls,
          MaxEdits   \* bound of the model: contents written

VARIABLES
  product, \* [content, variants, stock, coded]; content 0 where there is no row
  copy,    \* the copy in Redis, or NotCached
  edits,   \* the last content or list of variants written
  call,    \* [Calls -> the state of a request]
  calm,    \* in this behaviour requests do not overlap
  unsaid,  \* history: the stock has changed since the last invalidation
  past     \* history of edits, see TypeOK

vars == <<product, copy, edits, call, calm, unsaid, past>>

NoProduct == [content |-> 0, variants |-> 0, stock |-> FALSE, coded |-> FALSE]
NotCached == <<>>
Idle == [pc |-> "idle", op |-> "none", list |-> 0, variants |-> 0, stock |-> FALSE, seen |-> NotCached]

There == product.content # 0

(* variants: the edit whose list the product has now, 0 for none; stock:   *)
(* whether a variant is in stock; coded: whether it has marking codes.     *)
(* given: the list the last create or edit has come to; lost: that edit    *)
(* ended between the wipe and the insert; stale: an edit ended before its  *)
(* invalidation and left a copy.                                           *)
TypeOK ==
  /\ {product.content, product.variants, edits} \subseteq 0 .. MaxEdits
  /\ product.coded \/ product.stock => product.variants # 0
  /\ ~ There => product = NoProduct
  /\ calm \in BOOLEAN /\ unsaid \in BOOLEAN
  /\ past \in [given : 0 .. MaxEdits, lost : BOOLEAN, stale : BOOLEAN]

Init ==
  /\ product = NoProduct /\ copy = NotCached /\ edits = 0
  /\ call = [r \in Calls |-> Idle] /\ calm \in BOOLEAN /\ unsaid = FALSE
  /\ past = [given |-> 0, lost |-> FALSE, stale |-> FALSE]
-----------------------------------------------------------------------------
MayStart(r) == call[r].pc = "idle" /\ (calm => \A q \in Calls : call[q].pc = "idle")
At(r, pc) == call[r].pc = pc
Goto(r, pc) == call' = [call EXCEPT ![r] = [Idle EXCEPT !.pc = pc]]
Done(r) == call' = [call EXCEPT ![r] = Idle]

(* create: the category, the slug and the SKU are looked up first; their   *)
(* unique indexes may refuse the insert.                                   *)
StartCreate(r) ==
  /\ MayStart(r) /\ ~ There
  /\ Goto(r, "insert")
  /\ UNCHANGED <<product, copy, edits, calm, unsaid, past>>
Insert(r) ==
  /\ At(r, "insert") /\ edits < MaxEdits
  /\ IF There THEN Done(r) /\ UNCHANGED <<product, edits, past>>
     ELSE /\ edits' = edits + 1
          /\ \E list \in {0, edits'}, s \in BOOLEAN :
               /\ s => list # 0
               /\ product' = [content |-> edits', variants |-> list, stock |-> s, coded |-> FALSE]
               /\ past' = [past EXCEPT !.given = list, !.lost = FALSE]
          /\ Goto(r, "keys")
  /\ UNCHANGED <<copy, calm, unsaid>>

(* update, delete, bulkDelete, bulkUpdateStatus and updateStock: the       *)
(* lookups of each.  updateStock looks for the variant among those it read.*)
StartOn(r, op) ==
  /\ MayStart(r) /\ There
  /\ op = "stock" => product.variants # 0
  /\ call' = [call EXCEPT ![r] = [Idle EXCEPT !.pc = "write", !.op = op, !.variants = product.variants]]
  /\ UNCHANGED <<product, copy, edits, calm, unsaid, past>>

(* The first statement.  update answers 404 when the row has gone since,   *)
(* without an invalidation.                                                *)
Write(r) ==
  /\ At(r, "write")
  /\ LET c == call[r]
         writes == There /\ c.op \in {"update", "variants", "status"}
     IN  /\ edits' = IF writes THEN edits + 1 ELSE edits
         /\ edits' <= MaxEdits
         /\ CASE c.op = "delete" -> product' = NoProduct
              [] c.op = "stock"  -> \E s \in BOOLEAN :
                   product' = IF product.variants = c.variants /\ There THEN [product EXCEPT !.stock = s]
                                                                     ELSE product
              [] OTHER -> product' = IF There THEN [product EXCEPT !.content = edits'] ELSE product
         /\ IF c.op \in {"update", "variants"} /\ ~ There THEN Done(r)
            ELSE IF c.op = "variants"
            THEN \E list \in {0, edits'} :
                   call' = [call EXCEPT ![r] = [Idle EXCEPT !.pc = "wipe", !.list = list]]
            ELSE Goto(r, "keys")
  /\ UNCHANGED <<copy, calm, unsaid, past>>

(* replaceVariants: all go, and the marking codes with them ... *)
Wipe(r) ==
  /\ At(r, "wipe")
  /\ product' = [product EXCEPT !.variants = 0, !.stock = FALSE, !.coded = FALSE]
  /\ past' = [past EXCEPT !.given = call[r].list, !.lost = FALSE]
  /\ call' = [call EXCEPT ![r].pc = "fill"]
  /\ UNCHANGED <<copy, edits, calm, unsaid>>
(* A request ends after its first statement and before its invalidation. *)
Breaks(lost) == past' = [past EXCEPT !.lost = lost \/ past.lost, !.stale = (copy # NotCached)]

(* ... and the list is inserted in one transaction, which fails when an    *)
(* SKU (unique) is that of another edit or product, or the product is gone.*)
Fill(r) ==
  LET list == call[r].list IN
    /\ At(r, "fill")
    /\ \/ list = 0 /\ Goto(r, "keys") /\ UNCHANGED <<product, past>>
       \/ /\ list # 0 /\ There /\ product.variants = 0
          /\ \E s \in BOOLEAN : product' = [product EXCEPT !.variants = list, !.stock = s]
          /\ past' = [past EXCEPT !.lost = FALSE]
          /\ Goto(r, "keys")
       \/ list # 0 /\ Breaks(TRUE) /\ Done(r) /\ UNCHANGED product
    /\ UNCHANGED <<copy, edits, calm, unsaid>>

(* invalidateCache: KEYS, and DEL of the keys that were there. *)
Keys(r) ==
  /\ At(r, "keys")
  /\ IF copy = NotCached THEN Done(r) ELSE Goto(r, "del")
  /\ UNCHANGED <<product, copy, edits, calm, unsaid, past>>

(* Mutation: another prefix, so nothing is deleted. *)
DelOthers(r) ==
  /\ At(r, "del")
  /\ Done(r) /\ UNCHANGED <<product, copy, edits, calm, unsaid, past>>

Del(r) ==
  /\ At(r, "del")
  /\ copy' = NotCached /\ unsaid' = FALSE /\ past' = [past EXCEPT !.stale = FALSE]
  /\ Done(r)
  /\ UNCHANGED <<product, edits, calm>>
-----------------------------------------------------------------------------
(* create and cancel of orders and syncVariantStock: the stock alone. *)
StockMoves(coded) ==
  /\ product.variants # 0
  /\ product' = [product EXCEPT !.stock = ~ @, !.coded = coded]
  /\ unsaid' = (unsaid \/ copy # NotCached \/ \E q \in Calls : At(q, "store"))
  /\ UNCHANGED <<copy, edits, call, calm, past>>

(* What a read finds: the row and its variants, nothing of the codes. *)
Answer == [product EXCEPT !.coded = FALSE]

(* A read on a miss: the query, then SET with EX. *)
StartRead(r) ==
  /\ MayStart(r) /\ copy = NotCached /\ There
  /\ call' = [call EXCEPT ![r] = [Idle EXCEPT !.pc = "store", !.seen = Answer]]
  /\ UNCHANGED <<product, copy, edits, calm, unsaid, past>>
Store(r) ==
  /\ At(r, "store")
  /\ copy' = call[r].seen
  /\ Done(r)
  /\ UNCHANGED <<product, edits, calm, unsaid, past>>
Expire ==
  /\ copy # NotCached
  /\ copy' = NotCached /\ past' = [past EXCEPT !.stale = FALSE]
  /\ unsaid' = (\E q \in Calls : At(q, "store"))
  /\ UNCHANGED <<product, edits, call, calm>>

Die(r) ==
  /\ ~ At(r, "idle")
  /\ IF call[r].pc \in {"wipe", "fill", "keys", "del"} THEN Breaks(At(r, "fill")) ELSE UNCHANGED past
  /\ Done(r)
  /\ UNCHANGED <<product, copy, edits, calm, unsaid>>

Next ==
  \/ \E r \in Calls :
       \/ StartCreate(r) \/ Insert(r) \/ Write(r) \/ Wipe(r) \/ Fill(r) \/ Keys(r) \/ Del(r)
       \/ StartRead(r) \/ Store(r) \/ Die(r)
       \/ \E op \in {"update", "variants", "delete", "status", "stock"} : StartOn(r, op)
  \/ \E coded \in BOOLEAN : StockMoves(coded)
  \/ Expire

Spec == Init /\ [][Next]_vars
-----------------------------------------------------------------------------
Quiet == calm /\ \A r \in Calls : At(r, "idle")

(* With one request at a time, any of which may die between two of its     *)
(* statements or be refused the new list, the cache never shows an old     *)
(* product or one that was deleted, unless an edit has ended before its    *)
(* invalidation; only its stock may be that of a moment before an order or *)
(* a marking code.  And the product has the variants last given to it,     *)
(* unless the edit that gave them ended after it had wiped the old ones.   *)
(* Even when edits overlap a product has no variants only if the last one  *)
(* gave none, or ended so, or is still to insert them.                     *)
CopyIsCurrent ==
  /\ Quiet /\ copy # NotCached /\ ~ past.stale =>
       /\ There /\ copy.content = product.content /\ copy.variants = product.variants
       /\ ~ unsaid => copy.stock = product.stock
  /\ Quiet /\ There /\ ~ past.lost => product.variants = past.given
  /\ There /\ product.variants = 0 =>
       past.lost \/ past.given = 0 \/ \E r \in Calls : At(r, "fill") /\ call[r].list = past.given
=============================================================================
