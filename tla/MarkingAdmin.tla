---------------------------- MODULE MarkingAdmin ----------------------------
(***************************************************************************)
(* What the office does with the marking codes of one variant while orders *)
(* reserve, sell and release them: MarkingService and the writes of        *)
(* OrderMarkingService.  An operation writes codes and then recounts the   *)
(* stock of the variant in one statement; the two operations that first    *)
(* look up which variants to recount may find none.  (Fulfilment models    *)
(* the codes and the stock from the side of the orders.)                   *)
(***************************************************************************)
EXTENDS Naturals, FiniteSets

CONSTANTS Codes,   \* the texts of codes; a row is named by its text and
          MaxRows, \* its number.  Bound of the model: rows inserted
          Given,   \* what the office sets a code to: a subset of Status
          Orders,  \* the orders a code may belong to
          Calls

VARIABLES
  row,     \* [Codes -> [id, status, order]], NoRow where there is none
  stock,   \* product_variants.stock
  lastId,
  call,    \* [Calls -> the state of a request]
  uncounted \* history: codes were written by a request that did not recount
            \* them, and no other recount has come since

vars == <<row, stock, lastId, call, uncounted>>

Status == {"in_stock", "reserved", "sold", "returned", "written_off"}
NoRow == [id |-> 0, status |-> "none", order |-> "none"]
\* A request has a list of texts or of numbers before it, and the row it has
\* read with what it sets.
Idle == [pc |-> "idle", todo |-> {}, ids |-> {}, code |-> "none", entity |-> NoRow]

Exists(c) == row[c] # NoRow
InStock == {c \in Codes : row[c].status = "in_stock"}

TypeOK ==
  /\ lastId \in 0 .. MaxRows /\ stock \in 0 .. Cardinality(Codes) /\ uncounted \in BOOLEAN
  /\ \A c \in Codes : /\ row[c].id \in 0 .. lastId /\ row[c].order \in Orders \cup {"none"}
                      /\ Exists(c) <=> row[c].status \in Status
                      /\ \A d \in Codes : Exists(c) /\ row[c].id = row[d].id => c = d
  /\ \A r \in Calls : call[r].todo \subseteq Codes /\ call[r].ids \subseteq 1 .. lastId

Init ==
  /\ row = [c \in Codes |-> NoRow] /\ stock = 0 /\ lastId = 0
  /\ call = [r \in Calls |-> Idle] /\ uncounted = FALSE
-----------------------------------------------------------------------------
At(r, pc) == call[r].pc = pc
Sync(r) == call' = [call EXCEPT ![r] = [Idle EXCEPT !.pc = "sync"]]
Done(r) == call' = [call EXCEPT ![r] = Idle]

(* A row with another status, and another order where one is given.        *)
With(w, s, o) == [id |-> w.id, status |-> s, order |-> IF o = "none" THEN w.order ELSE o]

(* create, findOne by the text: a code that exists is a conflict. *)
StartCreate(r, c) ==
  /\ At(r, "idle") /\ ~ Exists(c)
  /\ call' = [call EXCEPT ![r] = [Idle EXCEPT !.pc = "insert", !.code = c]]
  /\ UNCHANGED <<row, stock, lastId, uncounted>>

(* bulkCreate: the codes of a list, one after the other. *)
StartList(r, cs) ==
  /\ At(r, "idle")
  /\ call' = [call EXCEPT ![r] = [Idle EXCEPT !.pc = "look", !.todo = cs]]
  /\ UNCHANGED <<row, stock, lastId, uncounted>>

(* The next code of the list, or the recount after the last one. *)
Following(r, c) ==
  [call[r] EXCEPT !.todo = call[r].todo \ {c}, !.code = "none",
                  !.pc = IF call[r].todo \subseteq {c} THEN "sync" ELSE "look"]

(* findOne by the text: a code that exists is a duplicate. *)
Look(r, c) ==
  /\ At(r, "look") /\ c \in call[r].todo
  /\ call' = [call EXCEPT ![r] =
       IF ~ Exists(c) THEN [call[r] EXCEPT !.pc = "insert", !.code = c]
       ELSE Following(r, c)]
  /\ UNCHANGED <<row, stock, lastId, uncounted>>

(* The codes a request has written still wait for their recount.           *)
Pending(r) == \/ call[r].pc \in {"look", "sync"}
              \/ At(r, "insert") /\ call[r].code \in call[r].todo

(* save: the unique index may refuse, which ends the call, a list half     *)
(* way.                                                                    *)
Insert(r) ==
  /\ At(r, "insert")
  /\ LET c == call[r].code IN
       IF Exists(c)
       THEN Done(r) /\ uncounted' = (uncounted \/ Pending(r)) /\ UNCHANGED <<row, lastId>>
       ELSE /\ lastId < MaxRows
            /\ lastId' = lastId + 1
            /\ row' = [row EXCEPT ![c] = [id |-> lastId', status |-> "in_stock", order |-> "none"]]
            /\ call' = [call EXCEPT ![r] = Following(r, c)]
            /\ UNCHANGED uncounted
  /\ UNCHANGED stock

(* updateStatus: findOne, then save.  No table of transitions is asked.    *)
StartUpdate(r, c, s, o) ==
  /\ At(r, "idle") /\ Exists(c)
  /\ call' = [call EXCEPT ![r] =
       [Idle EXCEPT !.pc = "save", !.code = c, !.entity = With(row[c], s, o)]]
  /\ UNCHANGED <<row, stock, lastId, uncounted>>

(* save writes the status and the order; a row deleted since it was read   *)
(* is inserted again unless its text has come back as another row.         *)
Save(r) ==
  /\ At(r, "save")
  /\ LET c == call[r].code
         new == call[r].entity
     IN  IF Exists(c) /\ row[c].id # new.id
         THEN Done(r) /\ UNCHANGED row
         ELSE row' = [row EXCEPT ![c] = new] /\ Sync(r)
  /\ UNCHANGED <<stock, lastId, uncounted>>

(* bulkUpdateStatus looks up the variants of the codes, then one UPDATE    *)
(* sets those that are there by then.  Numbers without a row are passed    *)
(* over; when none has a row there is no variant to recount.               *)
StartBulk(r, ns, s, o) ==
  /\ At(r, "idle") /\ ns # {}
  /\ call' = [call EXCEPT ![r] =
       [Idle EXCEPT !.pc = IF \E c \in Codes : row[c].id \in ns THEN "bulk" ELSE "blind",
                    !.ids = ns, !.entity = With(NoRow, s, o)]]
  /\ UNCHANGED <<row, stock, lastId, uncounted>>
Bulk(r) ==
  LET hit == {c \in Codes : row[c].id \in call[r].ids}
      new == call[r].entity
  IN  /\ call[r].pc \in {"bulk", "blind"}
      /\ row' = [c \in Codes |-> IF c \in hit THEN With(row[c], new.status, new.order) ELSE row[c]]
      /\ IF At(r, "bulk") THEN Sync(r) /\ UNCHANGED uncounted
                          ELSE Done(r) /\ uncounted' = (uncounted \/ hit # {})
      /\ UNCHANGED <<stock, lastId>>

(* delete: findOne, then remove by the id. *)
StartDelete(r, c) ==
  /\ At(r, "idle") /\ Exists(c)
  /\ call' = [call EXCEPT ![r] = [Idle EXCEPT !.pc = "remove", !.code = c, !.entity = row[c]]]
  /\ UNCHANGED <<row, stock, lastId, uncounted>>
Remove(r) ==
  /\ At(r, "remove")
  /\ LET c == call[r].code IN
       row' = IF row[c].id = call[r].entity.id THEN [row EXCEPT ![c] = NoRow] ELSE row
  /\ Sync(r)
  /\ UNCHANGED <<stock, lastId, uncounted>>

(* reserveCodesForOrder commits the codes of an order and then recounts.   *)
Reserve(r, o, cs) ==
  /\ At(r, "idle") /\ cs # {} /\ cs \subseteq InStock
  /\ row' = [c \in Codes |-> IF c \in cs THEN With(row[c], "reserved", o) ELSE row[c]]
  /\ Sync(r)
  /\ UNCHANGED <<stock, lastId, uncounted>>

(* transitionCodes sets the codes of an order in one status, to "in_stock" *)
(* without their order.  Only then the variants are looked up by the codes *)
(* the order still has.                                                    *)
Transition(r, o, from, to) ==
  LET cs == {c \in Codes : row[c].order = o /\ row[c].status = from} IN
    /\ At(r, "idle") /\ cs # {}
    /\ row' = [c \in Codes |->
         IF c \notin cs THEN row[c]
         ELSE [id |-> row[c].id, status |-> to, order |-> IF to = "in_stock" THEN "none" ELSE o]]
    /\ call' = [call EXCEPT ![r] = [Idle EXCEPT !.pc = "find", !.entity = With(NoRow, to, o)]]
    /\ uncounted' = (uncounted \/ to = "in_stock")
    /\ UNCHANGED <<stock, lastId>>
FindVariants(r) ==
  /\ At(r, "find")
  /\ IF \E c \in Codes : row[c].order = call[r].entity.order THEN Sync(r) ELSE Done(r)
  /\ UNCHANGED <<row, stock, lastId, uncounted>>

(* Mutation: the stock is counted up and not recounted. *)
OneMore == IF stock < Cardinality(InStock) THEN stock + 1 ELSE stock

Recount == Cardinality(InStock)
SyncVariantStock(r) ==
  /\ At(r, "sync")
  /\ stock' = Recount
  /\ uncounted' = FALSE
  /\ Done(r)
  /\ UNCHANGED <<row, lastId>>

(* A statement fails or the process ends: the recount is not made up for.  *)
Fail(r) ==
  /\ ~ At(r, "idle")
  /\ Done(r)
  /\ uncounted' = (uncounted \/ Pending(r))
  /\ UNCHANGED <<row, stock, lastId>>

Next ==
  \E r \in Calls :
    \/ Insert(r) \/ Save(r) \/ Bulk(r) \/ Remove(r) \/ FindVariants(r) \/ SyncVariantStock(r) \/ Fail(r)
    \/ \E cs \in SUBSET Codes : cs # {} /\ (StartList(r, cs) \/ \E o \in Orders : Reserve(r, o, cs))
    \/ \E s \in Given, o \in Orders \cup {"none"} :
         \/ \E c \in Codes : StartUpdate(r, c, s, o)
         \/ \E ns \in SUBSET (1 .. lastId) : StartBulk(r, ns, s, o)
    \/ \E c \in Codes : StartCreate(r, c) \/ Look(r, c) \/ StartDelete(r, c)
    \/ \E o \in Orders : \/ Transition(r, o, "reserved", "in_stock")
                         \/ Transition(r, o, "reserved", "sold")
                         \/ Transition(r, o, "sold", "returned")

Spec == Init /\ [][Next]_vars
-----------------------------------------------------------------------------
(* Whatever operations of the office and orders overlap, fail or die, the  *)
(* stock is the number of the codes in stock as soon as all of them have   *)
(* ended, also after a save that brought a deleted row back, unless the    *)
(* last that wrote codes has not recounted them.  That is so after a       *)
(* request broke off before its recount, after a bulk change that found no *)
(* variant and then hit a row brought back meanwhile, and after the        *)
(* release of the codes of an order until another recount.                 *)
StockIsCounted ==
  (\A r \in Calls : At(r, "idle")) => uncounted \/ stock = Cardinality(InStock)
=============================================================================
