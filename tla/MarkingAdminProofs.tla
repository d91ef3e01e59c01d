------------------------- MODULE MarkingAdminProofs -------------------------
(***************************************************************************)
(* Proof that the stock of a marked variant is recounted, for any number   *)
(* of codes, rows and requests of the office and of orders.                *)
(*                                                                         *)
(* The invariant has no word about what the requests have read: where the  *)
(* stock differs from the codes, some request still has its recount before *)
(* it.                                                                     *)
(*                                                                         *)
(* That no two codes share a row number is not inductive: save brings back *)
(* a row it has read, which may have been removed since.  The number of a  *)
(* row therefore belongs to its text for good, also while only a request   *)
(* remembers it.                                                           *)
(***************************************************************************)
EXTENDS MarkingAdmin, FiniteSetTheorems, TLAPS

Texts == Status \cup Given \cup {"none"}
Held  == Orders \cup {"none"}
Row   == [id : Nat, status : Texts, order : Held]
Call  == [pc : {"idle", "look", "insert", "save", "bulk", "blind", "remove", "find", "sync"},
          todo : SUBSET Codes, ids : SUBSET Nat, code : Codes \cup {"none"}, entity : Row]

Typed == lastId \in Nat /\ row \in [Codes -> Row] /\ call \in [Calls -> Call]

ARecountIsDue ==
  stock # Cardinality(InStock) => uncounted \/ \E r \in Calls : Pending(r)

StepOf(r) ==
  \/ Insert(r) \/ Save(r) \/ Bulk(r) \/ Remove(r) \/ FindVariants(r) \/ SyncVariantStock(r) \/ Fail(r)
  \/ \E cs \in SUBSET Codes : cs # {} /\ (StartList(r, cs) \/ \E o \in Orders : Reserve(r, o, cs))
  \/ \E s \in Given, o \in Orders \cup {"none"} :
       \/ \E c \in Codes : StartUpdate(r, c, s, o)
       \/ \E ns \in SUBSET (1 .. lastId) : StartBulk(r, ns, s, o)
  \/ \E c \in Codes : StartCreate(r, c) \/ Look(r, c) \/ StartDelete(r, c)
  \/ \E o \in Orders : \/ Transition(r, o, "reserved", "in_stock")
                       \/ Transition(r, o, "reserved", "sold")
                       \/ Transition(r, o, "sold", "returned")

Entry(s) == s \in {"in_stock", "sold", "returned"}
-----------------------------------------------------------------------------
(* What a request is set to, and what a row is set to. *)
LEMMA PartsAreTyped ==
  /\ NoRow \in Row /\ Idle \in Call /\ [Idle EXCEPT !.pc = "sync"] \in Call
  /\ \A n \in Nat : [id |-> n, status |-> "in_stock", order |-> "none"] \in Row
BY DEF NoRow, Idle, Row, Call, Texts, Status, Held

(* What a row is set to by the office and by orders. *)
LEMMA RowsAreSet ==
  ASSUME NEW w \in Row, NEW s \in Texts, NEW o \in Held
  PROVE  With(w, s, o) \in Row /\ With(w, s, o).id = w.id /\ With(w, s, o).status = s
BY DEF With, Row, Held

(* A list of codes goes on with another code, or is recounted. *)
LEMMA ListsGoOn ==
  ASSUME Typed, NEW r \in Calls, NEW c
  PROVE  Following(r, c) \in Call /\ Following(r, c).pc \in {"sync", "look"}
BY DEF Typed, Following, Call

(* A step of a request leaves the other requests alone. *)
LEMMA OneRequestMoves ==
  ASSUME Typed, NEW r \in Calls, StepOf(r)
  PROVE  \E c \in Call : call' = [call EXCEPT ![r] = c]
<1> USE PartsAreTyped DEF Typed, Sync, Done
<1>1. CASE Insert(r)
  BY <1>1, ListsGoOn DEF Insert
<1>2. CASE Save(r) \/ Bulk(r) \/ Remove(r) \/ FindVariants(r) \/ SyncVariantStock(r) \/ Fail(r)
  BY <1>2 DEF Save, Bulk, Remove, FindVariants, SyncVariantStock, Fail
<1>3. ASSUME NEW cs \in SUBSET Codes, StartList(r, cs) PROVE \E c \in Call : call' = [call EXCEPT ![r] = c]
  <2>1. [Idle EXCEPT !.pc = "look", !.todo = cs] \in Call
    BY DEF Call
  <2> QED
    BY <1>3, <2>1 DEF StartList
<1>4. ASSUME NEW ns \in SUBSET (1 .. lastId), NEW s \in Given, NEW o \in Held, StartBulk(r, ns, s, o)
      PROVE \E c \in Call : call' = [call EXCEPT ![r] = c]
  <2>1. With(NoRow, s, o) \in Row /\ ns \in SUBSET Nat
    BY RowsAreSet DEF Texts
  <2>2. \A p \in {"bulk", "blind"} :
          [Idle EXCEPT !.pc = p, !.ids = ns, !.entity = With(NoRow, s, o)] \in Call
    BY <2>1 DEF Call
  <2> QED
    BY <1>4, <2>2 DEF StartBulk
<1>5. ASSUME NEW c \in Codes, Look(r, c) PROVE \E d \in Call : call' = [call EXCEPT ![r] = d]
  <2>1. [call[r] EXCEPT !.pc = "insert", !.code = c] \in Call
    BY DEF Call
  <2> QED
    BY <1>5, <2>1, ListsGoOn DEF Look
<1>6. ASSUME NEW c \in Codes, StartDelete(r, c) PROVE \E d \in Call : call' = [call EXCEPT ![r] = d]
  <2>1. [Idle EXCEPT !.pc = "remove", !.code = c, !.entity = row[c]] \in Call
    BY DEF Call
  <2> QED
    BY <1>6, <2>1 DEF StartDelete
<1>7. ASSUME NEW cs, NEW o, Reserve(r, o, cs) PROVE \E d \in Call : call' = [call EXCEPT ![r] = d]
  BY <1>7 DEF Reserve
<1>8. ASSUME NEW c \in Codes, NEW s \in Given, NEW o \in Held, StartUpdate(r, c, s, o)
      PROVE \E d \in Call : call' = [call EXCEPT ![r] = d]
  <2>1. With(row[c], s, o) \in Row
    BY RowsAreSet DEF Texts
  <2>2. [Idle EXCEPT !.pc = "save", !.code = c, !.entity = With(row[c], s, o)] \in Call
    BY <2>1 DEF Call
  <2> QED
    BY <1>8, <2>2 DEF StartUpdate
<1>9. ASSUME NEW c \in Codes, StartCreate(r, c) PROVE \E d \in Call : call' = [call EXCEPT ![r] = d]
  <2>1. [Idle EXCEPT !.pc = "insert", !.code = c] \in Call
    BY DEF Call
  <2> QED
    BY <1>9, <2>1 DEF StartCreate
<1>10. ASSUME NEW o \in Orders, NEW f, NEW t, Entry(t), Transition(r, o, f, t)
       PROVE \E d \in Call : call' = [call EXCEPT ![r] = d]
  <2>1. With(NoRow, t, o) \in Row
    BY <1>10, RowsAreSet DEF Texts, Status, Held, Entry
  <2>2. [Idle EXCEPT !.pc = "find", !.entity = With(NoRow, t, o)] \in Call
    BY <2>1 DEF Call
  <2> QED
    BY <1>10, <2>2 DEF Transition
<1> QED
  BY <1>1, <1>2, <1>3, <1>4, <1>5, <1>6, <1>7, <1>8, <1>9, <1>10 DEF StepOf, Held, Entry

(* The rows stay rows. *)
LEMMA RowsStayRows ==
  ASSUME Typed, NEW r \in Calls, StepOf(r)
  PROVE  lastId' \in Nat /\ row' \in [Codes -> Row]
<1> USE PartsAreTyped DEF Typed
<1>1. CASE Insert(r)
  BY <1>1 DEF Insert
<1>2. CASE Save(r)
  <2>1. call[r].entity \in Row
    BY DEF Call
  <2> QED
    BY <1>2, <2>1 DEF Save
<1>3. CASE Bulk(r)
  <2>1. \A c \in Codes : With(row[c], call[r].entity.status, call[r].entity.order) \in Row
    BY RowsAreSet DEF Call, Row
  <2> QED
    BY <1>3, <2>1 DEF Bulk
<1>4. CASE Remove(r)
  BY <1>4 DEF Remove
<1>5. CASE UNCHANGED <<row, lastId>>
  BY <1>5
<1>6. ASSUME NEW cs \in SUBSET Codes, NEW o \in Orders, Reserve(r, o, cs)
      PROVE lastId' \in Nat /\ row' \in [Codes -> Row]
  <2>1. \A c \in Codes : With(row[c], "reserved", o) \in Row
    BY RowsAreSet DEF Texts, Status, Held
  <2> QED
    BY <1>6, <2>1 DEF Reserve
<1>7. ASSUME NEW o \in Orders, NEW f, NEW t, Entry(t), Transition(r, o, f, t)
      PROVE lastId' \in Nat /\ row' \in [Codes -> Row]
  <2>1. ASSUME NEW c \in Codes
        PROVE  [id |-> row[c].id, status |-> t, order |-> IF t = "in_stock" THEN "none" ELSE o] \in Row
    BY <1>7 DEF Row, Texts, Status, Held, Entry
  <2> QED
    BY <1>7, <2>1 DEF Transition
<1> QED
  BY <1>1, <1>2, <1>3, <1>4, <1>5, <1>6, <1>7
     DEF StepOf, FindVariants, SyncVariantStock, Fail, StartCreate, StartList, StartBulk, Look,
         StartDelete, StartUpdate, Entry

(* A step changes codes only with its recount still to come or with the    *)
(* stock marked as not counted, and gives up a recount only by doing it or *)
(* with that mark.                                                         *)
LEMMA EveryWriteIsRecounted ==
  ASSUME Typed, NEW r \in Calls, StepOf(r)
  PROVE  \/ Pending(r)' \/ uncounted' \/ stock' = Cardinality(InStock)'
         \/ ~ Pending(r) /\ UNCHANGED <<InStock, stock>> /\ (uncounted => uncounted')
<1> USE DEF Typed, Pending, At
<1>1. Idle.pc = "idle" /\ [Idle EXCEPT !.pc = "sync"].pc = "sync"
  BY DEF Idle
<1>2. Sync(r) => call'[r].pc = "sync"
  BY <1>1 DEF Sync
<1>3. CASE Insert(r)
  <2>1. CASE ~ Exists(call[r].code)
    BY <1>3, <2>1, ListsGoOn DEF Insert
  <2>2. CASE Exists(call[r].code)
    <3>1. UNCHANGED <<row, stock>> /\ uncounted' = (uncounted \/ Pending(r))
      BY <1>3, <2>2 DEF Insert
    <3> QED
      BY <3>1 DEF InStock
  <2> QED
    BY <2>1, <2>2
<1>4. CASE Save(r)
  <2>1. Sync(r) \/ UNCHANGED row
    BY <1>4 DEF Save
  <2> QED
    BY <1>2, <1>4, <2>1 DEF Save, InStock
<1>5. CASE Remove(r)
  BY <1>2, <1>5 DEF Remove
<1>6. CASE SyncVariantStock(r)
  BY <1>6 DEF SyncVariantStock, Recount, InStock
<1>7. ASSUME NEW c \in Codes, Look(r, c) PROVE Pending(r)'
  <2> DEFINE d == [call[r] EXCEPT !.pc = "insert", !.code = c]
  <2>1. d.pc = "insert" /\ d.code = c /\ d.todo = call[r].todo
    BY DEF Call
  <2> HIDE DEF d
  <2> QED
    BY <1>7, <2>1, ListsGoOn DEF Look, d
<1>8. ASSUME NEW cs \in SUBSET Codes, NEW o, Reserve(r, o, cs) PROVE Pending(r)'
  BY <1>2, <1>8 DEF Reserve
<1>9. CASE Bulk(r)
  <2>1. CASE call[r].pc = "bulk"
    BY <1>2, <1>9, <2>1 DEF Bulk
  <2>2. CASE call[r].pc = "blind"
    <3> DEFINE hit == {c \in Codes : row[c].id \in call[r].ids}
    <3>1. uncounted' = (uncounted \/ hit # {}) /\ UNCHANGED stock
      BY <1>9, <2>2 DEF Bulk
    <3>2. hit = {} => row' = row
      BY <1>9 DEF Bulk
    <3> QED
      BY <2>2, <3>1, <3>2 DEF InStock
  <2> QED
    BY <1>9, <2>1, <2>2 DEF Bulk
<1>10. CASE Fail(r)
  BY <1>10 DEF Fail, InStock
<1>11. ASSUME NEW o \in Orders, Transition(r, o, "reserved", "in_stock") PROVE uncounted'
  BY <1>11 DEF Transition
<1>12. ASSUME NEW o \in Orders, NEW f \in {"reserved", "sold"}, NEW t \in {"sold", "returned"},
              Transition(r, o, f, t)
       PROVE ~ Pending(r) /\ UNCHANGED <<InStock, stock>> /\ (uncounted => uncounted')
  <2>1. ASSUME NEW c \in Codes
        PROVE  \/ row'[c].status = row[c].status
               \/ row[c].status \in {"reserved", "sold"} /\ row'[c].status \in {"sold", "returned"}
    <3>1. row[c] \in Row
      OBVIOUS
    <3> QED
      BY <1>12, <3>1 DEF Transition, Row
  <2> QED
    BY <1>12, <2>1 DEF Transition, InStock
<1>13. CASE FindVariants(r)
  BY <1>13 DEF FindVariants, InStock
<1>14. ASSUME At(r, "idle"), UNCHANGED <<row, stock, lastId, uncounted>>
       PROVE ~ Pending(r) /\ UNCHANGED <<InStock, stock>> /\ (uncounted => uncounted')
  BY <1>14 DEF InStock
<1> QED
  BY <1>3, <1>4, <1>5, <1>6, <1>7, <1>8, <1>9, <1>10, <1>11, <1>12, <1>13, <1>14
     DEF StepOf, StartCreate, StartList, StartBulk, StartDelete, StartUpdate
-----------------------------------------------------------------------------
LEMMA AllStarts == Init => Typed /\ ARecountIsDue
<1>1. Init => Typed
  BY PartsAreTyped DEF Init, Typed
<1>2. Init => InStock = {}
  BY DEF Init, InStock, NoRow
<1>3. Cardinality({}) = 0
  BY FS_EmptySet
<1> QED
  BY <1>1, <1>2, <1>3 DEF Init, ARecountIsDue

LEMMA AllStays == Typed /\ ARecountIsDue /\ [Next]_vars => Typed' /\ ARecountIsDue'
<1>1. ASSUME Typed, ARecountIsDue, NEW r \in Calls, StepOf(r) PROVE Typed' /\ ARecountIsDue'
  <2>1. PICK c \in Call : call' = [call EXCEPT ![r] = c]
    BY <1>1, OneRequestMoves
  <2>2. \A q \in Calls \ {r} : Pending(q) => Pending(q)'
    BY <1>1, <2>1 DEF Pending, Typed, At
  <2>3. \/ Pending(r)' \/ uncounted' \/ stock' = Cardinality(InStock)'
        \/ ~ Pending(r) /\ UNCHANGED <<InStock, stock>> /\ (uncounted => uncounted')
    BY <1>1, EveryWriteIsRecounted
  <2>4. ARecountIsDue'
    BY <1>1, <2>2, <2>3 DEF ARecountIsDue
  <2> QED
    BY <1>1, <2>1, <2>4, RowsStayRows DEF Typed
<1>2. Typed /\ ARecountIsDue /\ UNCHANGED vars => Typed' /\ ARecountIsDue'
  BY DEF vars, Typed, ARecountIsDue, Pending, InStock, At
<1> QED
  BY <1>1, <1>2 DEF Next, StepOf

LEMMA AllMeans == ARecountIsDue => StockIsCounted
BY DEF ARecountIsDue, StockIsCounted, Pending, At

(* Whatever the office and the orders do at once, when all requests have   *)
(* ended the stock is the number of the codes in stock, unless the last    *)
(* request that wrote codes has broken off, released codes or changed them *)
(* blindly, without a recount since (syncVariantStock after every write).  *)
THEOREM StockFollowsCodes == Spec => []StockIsCounted
BY AllStarts, AllStays, AllMeans, PTL DEF Spec
-----------------------------------------------------------------------------
MarkingConstants == IsFiniteSet(Codes) /\ MaxRows \in Nat /\ Given \subseteq Status

(* The number n is that of the row of c, or of one a save will bring back. *)
Owns(c, n) ==
  \/ row[c].id = n
  \/ \E r \in Calls : call[r].pc = "save" /\ call[r].code = c /\ call[r].entity.id = n

Numbered ==
  /\ lastId \in 0 .. MaxRows /\ stock \in 0 .. Cardinality(Codes) /\ uncounted \in BOOLEAN
  /\ \A c \in Codes : row[c] = NoRow \/ (row[c].id \in 1 .. lastId /\ row[c].status \in Status)
  /\ \A r \in Calls :
       /\ call[r].ids \subseteq 1 .. lastId
       /\ call[r].pc \in {"insert", "save", "remove"} => call[r].code \in Codes
       /\ call[r].pc = "save" => call[r].entity.id \in 1 .. lastId
       /\ call[r].pc \in {"save", "bulk", "blind"} => call[r].entity.status \in Status
  /\ \A c, d \in Codes, n \in 1 .. lastId : Owns(c, n) /\ Owns(d, n) => c = d

(* What a step may do to the row of a code: nothing, remove it, set its    *)
(* status, bring back the row a save has read, or insert it anew.          *)
GoesOn(r, c) ==
  \/ row'[c] \in {row[c], NoRow}
  \/ /\ row'[c].status \in Status
     /\ \/ row[c] # NoRow /\ row'[c].id = row[c].id
        \/ call[r].pc = "save" /\ call[r].code = c /\ row'[c].id = call[r].entity.id
        \/ lastId' = lastId + 1 /\ call[r].code = c /\ row'[c].id = lastId'

LEMMA NumbersStay ==
  ASSUME Typed, Numbered, lastId' \in {lastId, lastId + 1}, lastId' <= MaxRows,
         stock' \in 0 .. Cardinality(Codes), uncounted' \in BOOLEAN,
         NEW r \in Calls, NEW e \in Call, call' = [call EXCEPT ![r] = e],
         \A c \in Codes : GoesOn(r, c),
         e.ids \subseteq 1 .. lastId,
         e.pc \in {"insert", "save", "remove"} => e.code \in Codes,
         e.pc = "save" => row[e.code] # NoRow /\ e.entity.id = row[e.code].id,
         e.pc \in {"save", "bulk", "blind"} => e.entity.status \in Status
  PROVE  Numbered'
<1>1. call'[r] = e /\ \A q \in Calls : q # r => call'[q] = call[q]
  BY DEF Typed
<1>2. lastId \in Nat /\ lastId' \in Nat /\ lastId <= lastId' /\ NoRow.id = 0
  BY DEF Typed, NoRow
<1>3. ASSUME NEW c \in Codes
      PROVE  row'[c] = NoRow \/ (row'[c].id \in 1 .. lastId' /\ row'[c].status \in Status)
  BY <1>2, <1>3 DEF Numbered, GoesOn
<1>4. ASSUME NEW q \in Calls
      PROVE  /\ call'[q].ids \subseteq 1 .. lastId'
             /\ call'[q].pc \in {"insert", "save", "remove"} => call'[q].code \in Codes
             /\ call'[q].pc = "save" => call'[q].entity.id \in 1 .. lastId'
             /\ call'[q].pc \in {"save", "bulk", "blind"} => call'[q].entity.status \in Status
  BY <1>1, <1>2, <1>4 DEF Numbered
<1>5. ASSUME NEW c \in Codes, NEW n \in 1 .. lastId', Owns(c, n)'
      PROVE  IF n <= lastId THEN Owns(c, n) ELSE call[r].code = c
  <2>1. CASE row'[c].id = n
    BY <1>2, <2>1 DEF Owns, GoesOn, Numbered
  <2>2. ASSUME NEW q \in Calls, call'[q].pc = "save", call'[q].code = c, call'[q].entity.id = n
        PROVE  n <= lastId /\ Owns(c, n)
    <3>1. CASE q # r
      BY <1>1, <2>2, <3>1 DEF Owns, Numbered
    <3>2. CASE q = r
      BY <1>1, <1>2, <2>2, <3>2 DEF Owns, Numbered
    <3> QED
      BY <3>1, <3>2
  <2> QED
    BY <1>5, <2>1, <2>2 DEF Owns
<1>6. ASSUME NEW c \in Codes, NEW d \in Codes, NEW n \in 1 .. lastId', Owns(c, n)', Owns(d, n)'
      PROVE  c = d
  <2>1. CASE n <= lastId
    <3>1. n \in 1 .. lastId
      BY <1>2, <2>1
    <3> QED
      BY <1>5, <1>6, <2>1, <3>1 DEF Numbered
  <2>2. CASE ~ (n <= lastId)
    BY <1>5, <1>6, <2>2
  <2> QED
    BY <2>1, <2>2
<1> QED
  BY <1>2, <1>3, <1>4, <1>6 DEF Numbered

(* What the requests do to the rows, one by one. *)
LEMMA NumbersAreKept ==
  ASSUME MarkingConstants, Typed, Numbered, NEW r \in Calls, StepOf(r)
  PROVE  Numbered'
<1> USE DEF At
<1>1. /\ Idle \in Call /\ Idle.pc = "idle" /\ Idle.ids = {}
      /\ [Idle EXCEPT !.pc = "sync"] \in Call /\ [Idle EXCEPT !.pc = "sync"].pc = "sync"
      /\ [Idle EXCEPT !.pc = "sync"].ids = {}
  BY PartsAreTyped DEF Idle
<1>2. ASSUME UNCHANGED lastId, stock' \in 0 .. Cardinality(Codes), uncounted' \in BOOLEAN,
             \A c \in Codes : GoesOn(r, c), Sync(r) \/ Done(r)
      PROVE  Numbered'
  <2>1. PICK e \in Call : call' = [call EXCEPT ![r] = e] /\ e.pc \in {"idle", "sync"} /\ e.ids = {}
    BY <1>1, <1>2 DEF Sync, Done
  <2>2. lastId' \in {lastId, lastId + 1} /\ lastId' <= MaxRows
    BY <1>2 DEF Numbered
  <2> QED
    BY <1>2, <2>1, <2>2, NumbersStay
<1>3. ASSUME UNCHANGED <<row, stock, lastId, uncounted>>, NEW e \in Call, call' = [call EXCEPT ![r] = e],
             e.ids \subseteq 1 .. lastId,
             e.pc \in {"insert", "save", "remove"} => e.code \in Codes,
             e.pc = "save" => row[e.code] # NoRow /\ e.entity.id = row[e.code].id,
             e.pc \in {"save", "bulk", "blind"} => e.entity.status \in Status
      PROVE  Numbered'
  <2>1. \A c \in Codes : GoesOn(r, c)
    BY <1>3 DEF GoesOn
  <2>2. /\ lastId' \in {lastId, lastId + 1} /\ lastId' <= MaxRows
        /\ stock' \in 0 .. Cardinality(Codes) /\ uncounted' \in BOOLEAN
    BY <1>3 DEF Numbered
  <2> QED
    BY <1>3, <2>1, <2>2, NumbersStay
<1>4. CASE Insert(r)
  <2> DEFINE c == call[r].code
             new == [id |-> lastId + 1, status |-> "in_stock", order |-> "none"]
  <2>0. c \in Codes
    BY <1>4 DEF Insert, Numbered
  <2>1. CASE Exists(c)
    <3>1. UNCHANGED <<row, stock, lastId>> /\ Done(r) /\ uncounted' \in BOOLEAN
      BY <1>4, <2>1 DEF Insert, Numbered
    <3> QED
      BY <1>2, <3>1 DEF GoesOn, Numbered
  <2>2. CASE ~ Exists(c)
    <3>1. /\ lastId < MaxRows /\ lastId' = lastId + 1 /\ row' = [row EXCEPT ![c] = new]
          /\ call' = [call EXCEPT ![r] = Following(r, c)] /\ UNCHANGED <<stock, uncounted>>
      BY <1>4, <2>2 DEF Insert
    <3>2. new.id = lastId + 1 /\ new.status \in Status
      BY DEF Status
    <3> HIDE DEF new
    <3>3. \A d \in Codes : GoesOn(r, d)
      BY <2>0, <3>1, <3>2 DEF GoesOn, Typed
    <3>4. /\ Following(r, c) \in Call /\ Following(r, c).pc \in {"sync", "look"}
          /\ Following(r, c).ids = call[r].ids
      BY ListsGoOn DEF Following, Call, Typed
    <3>5. lastId' <= MaxRows
      BY <3>1 DEF Typed, MarkingConstants
    <3> QED
      BY <3>1, <3>3, <3>4, <3>5, NumbersStay DEF Numbered
  <2> QED
    BY <2>1, <2>2
<1>5. CASE Save(r)
  <2> DEFINE c == call[r].code
             new == call[r].entity
  <2>0. /\ call[r].pc = "save" /\ c \in Codes /\ UNCHANGED <<stock, lastId, uncounted>>
        /\ new.id = call[r].entity.id /\ new.status \in Status
    BY <1>5 DEF Save, Numbered
  <2>1. row' \in {row, [row EXCEPT ![c] = new]} /\ (Sync(r) \/ Done(r))
    BY <1>5 DEF Save
  <2> HIDE DEF new
  <2>2. \A d \in Codes : GoesOn(r, d)
    BY <2>0, <2>1 DEF GoesOn, Typed
  <2> QED
    BY <1>2, <2>0, <2>1, <2>2 DEF Numbered
<1>6. CASE Bulk(r)
  <2>1. /\ UNCHANGED <<stock, lastId>> /\ uncounted' \in BOOLEAN /\ (Sync(r) \/ Done(r))
        /\ call[r].entity.status \in Status /\ call[r].ids \subseteq 1 .. lastId
    BY <1>6 DEF Bulk, Numbered
  <2>2. ASSUME NEW c \in Codes PROVE GoesOn(r, c)
    <3>1. row[c] \in Row /\ call[r].entity.status \in Texts /\ call[r].entity.order \in Held
      BY DEF Typed, Call, Row
    <3>2. \/ row'[c] = row[c]
          \/ row[c].id \in call[r].ids
             /\ row'[c] = With(row[c], call[r].entity.status, call[r].entity.order)
      BY <1>6 DEF Bulk
    <3>3. row[c].id \in call[r].ids => row[c] # NoRow
      BY <2>1 DEF NoRow, Typed
    <3> QED
      BY <2>1, <3>1, <3>2, <3>3, RowsAreSet DEF GoesOn
  <2> QED
    BY <1>2, <2>1, <2>2 DEF Numbered
<1>7. CASE Remove(r)
  <2>1. UNCHANGED <<stock, lastId, uncounted>> /\ Sync(r)
        /\ row' \in {row, [row EXCEPT ![call[r].code] = NoRow]}
    BY <1>7 DEF Remove
  <2>2. \A d \in Codes : GoesOn(r, d)
    BY <2>1 DEF GoesOn, Typed
  <2> QED
    BY <1>2, <2>1, <2>2 DEF Numbered
<1>8. CASE SyncVariantStock(r)
  <2>1. InStock \subseteq Codes
    BY DEF InStock
  <2>2. Cardinality(InStock) \in 0 .. Cardinality(Codes)
    BY <2>1, FS_Subset, FS_CardinalityType DEF MarkingConstants
  <2> QED
    BY <1>2, <1>8, <2>2 DEF SyncVariantStock, Recount, GoesOn, Numbered
<1>9. ASSUME NEW cs \in SUBSET Codes, StartList(r, cs) PROVE Numbered'
  <2> DEFINE e == [Idle EXCEPT !.pc = "look", !.todo = cs]
  <2>1. e \in Call /\ e.pc = "look" /\ e.ids = {} /\ call' = [call EXCEPT ![r] = e]
    BY <1>1, <1>9 DEF StartList, Call, Idle
  <2> HIDE DEF e
  <2> QED
    BY <1>3, <1>9, <2>1 DEF StartList
<1>10. ASSUME NEW ns \in SUBSET (1 .. lastId), NEW s \in Given, NEW o \in Held, StartBulk(r, ns, s, o)
       PROVE Numbered'
  <2>1. With(NoRow, s, o) \in Row /\ With(NoRow, s, o).status \in Status /\ ns \in SUBSET Nat
    BY PartsAreTyped, RowsAreSet DEF Texts, MarkingConstants
  <2>2. PICK p \in {"bulk", "blind"} : call' = [call EXCEPT ![r] =
          [Idle EXCEPT !.pc = p, !.ids = ns, !.entity = With(NoRow, s, o)]]
    BY <1>10 DEF StartBulk
  <2> DEFINE e == [Idle EXCEPT !.pc = p, !.ids = ns, !.entity = With(NoRow, s, o)]
  <2>3. e \in Call /\ e.pc = p /\ e.ids = ns /\ e.entity.status \in Status
    BY <1>1, <2>1 DEF Call, Idle
  <2> HIDE DEF e
  <2>4. call' = [call EXCEPT ![r] = e]
    BY <2>2 DEF e
  <2> QED
    BY <1>3, <1>10, <2>3, <2>4 DEF StartBulk
<1>11. ASSUME NEW c \in Codes, StartCreate(r, c) PROVE Numbered'
  <2> DEFINE e == [Idle EXCEPT !.pc = "insert", !.code = c]
  <2>1. e \in Call /\ e.pc = "insert" /\ e.code = c /\ e.ids = {} /\ call' = [call EXCEPT ![r] = e]
    BY <1>1, <1>11 DEF StartCreate, Call, Idle
  <2> HIDE DEF e
  <2> QED
    BY <1>3, <1>11, <2>1 DEF StartCreate
<1>12. ASSUME NEW c \in Codes, Look(r, c) PROVE Numbered'
  <2> DEFINE e == [call[r] EXCEPT !.pc = "insert", !.code = c]
  <2>1. e \in Call /\ e.pc = "insert" /\ e.code = c /\ e.ids = call[r].ids
    BY DEF Call, Typed
  <2> HIDE DEF e
  <2>2. PICK f \in {e, Following(r, c)} : call' = [call EXCEPT ![r] = f]
    BY <1>12 DEF Look, e
  <2>3. Following(r, c).ids = call[r].ids
    BY DEF Following, Call, Typed
  <2>4. /\ f \in Call /\ f.ids \subseteq 1 .. lastId
        /\ (f.pc = "insert" /\ f.code = c) \/ f.pc \in {"sync", "look"}
    BY <2>1, <2>2, <2>3, ListsGoOn DEF Numbered
  <2> QED
    BY <1>3, <1>12, <2>2, <2>4 DEF Look
<1>13. ASSUME NEW c \in Codes, StartDelete(r, c) PROVE Numbered'
  <2> DEFINE e == [Idle EXCEPT !.pc = "remove", !.code = c, !.entity = row[c]]
  <2>1. e \in Call /\ e.pc = "remove" /\ e.code = c /\ e.ids = {} /\ call' = [call EXCEPT ![r] = e]
    BY <1>1, <1>13 DEF StartDelete, Call, Idle, Typed
  <2> HIDE DEF e
  <2> QED
    BY <1>3, <1>13, <2>1 DEF StartDelete
<1>14. ASSUME NEW c \in Codes, NEW s \in Given, NEW o \in Held, StartUpdate(r, c, s, o) PROVE Numbered'
  <2>1. /\ With(row[c], s, o) \in Row /\ With(row[c], s, o).status \in Status
        /\ With(row[c], s, o).id = row[c].id
    BY RowsAreSet DEF Typed, Texts, MarkingConstants
  <2> DEFINE e == [Idle EXCEPT !.pc = "save", !.code = c, !.entity = With(row[c], s, o)]
  <2>2. /\ e \in Call /\ e.pc = "save" /\ e.code = c /\ e.ids = {}
        /\ e.entity.id = row[c].id /\ e.entity.status \in Status
        /\ call' = [call EXCEPT ![r] = e]
    BY <1>1, <1>14, <2>1 DEF StartUpdate, Call, Idle
  <2> HIDE DEF e
  <2> QED
    BY <1>3, <1>14, <2>2 DEF StartUpdate, Exists
<1>15. ASSUME NEW cs \in SUBSET Codes, NEW o \in Orders, Reserve(r, o, cs) PROVE Numbered'
  <2>1. ASSUME NEW c \in Codes PROVE GoesOn(r, c)
    <3>1. row[c] \in Row /\ "reserved" \in Texts /\ o \in Held
      BY DEF Typed, Texts, Status, Held
    <3>2. row'[c] = row[c] \/ (row[c] # NoRow /\ row'[c] = With(row[c], "reserved", o))
      BY <1>15 DEF Reserve, InStock, NoRow
    <3> QED
      BY <3>1, <3>2, RowsAreSet DEF GoesOn, Status
  <2> QED
    BY <1>2, <1>15, <2>1 DEF Reserve, Numbered
<1>16. ASSUME NEW o \in Orders, NEW f \in {"reserved", "sold"}, NEW t, Entry(t), Transition(r, o, f, t)
       PROVE Numbered'
  <2>1. ASSUME NEW c \in Codes PROVE GoesOn(r, c)
    <3>1. row[c] \in Row
      BY DEF Typed
    <3>2. \/ row'[c] = row[c]
          \/ /\ row[c] # NoRow
             /\ row'[c] = [id |-> row[c].id, status |-> t, order |-> IF t = "in_stock" THEN "none" ELSE o]
      BY <1>16 DEF Transition, NoRow
    <3> QED
      BY <1>16, <3>1, <3>2 DEF GoesOn, Row, Status, Entry
  <2> DEFINE e == [Idle EXCEPT !.pc = "find", !.entity = With(NoRow, t, o)]
  <2>2. With(NoRow, t, o) \in Row
    BY <1>16, PartsAreTyped, RowsAreSet DEF Texts, Status, Held, Entry
  <2>3. e \in Call /\ e.pc = "find" /\ e.ids = {} /\ call' = [call EXCEPT ![r] = e]
    BY <1>1, <1>16, <2>2 DEF Transition, Call, Idle
  <2> HIDE DEF e
  <2>4. /\ lastId' \in {lastId, lastId + 1} /\ lastId' <= MaxRows /\ UNCHANGED lastId
        /\ stock' \in 0 .. Cardinality(Codes)
    BY <1>16 DEF Transition, Numbered
  <2>5. uncounted' \in BOOLEAN
    <3>1. uncounted' = (uncounted \/ t = "in_stock")
      BY <1>16 DEF Transition
    <3> QED
      BY <3>1, Zenon
  <2> QED
    BY <2>1, <2>3, <2>4, <2>5, NumbersStay
<1>17. CASE FindVariants(r)
  <2>1. UNCHANGED <<row, stock, lastId, uncounted>> /\ (Sync(r) \/ Done(r))
    BY <1>17 DEF FindVariants
  <2> QED
    BY <1>2, <2>1 DEF GoesOn, Numbered
<1>18. CASE Fail(r)
  <2>1. UNCHANGED <<row, stock, lastId>> /\ uncounted' \in BOOLEAN /\ Done(r)
    BY <1>18 DEF Fail, Numbered
  <2> QED
    BY <1>2, <2>1 DEF GoesOn, Numbered
<1> QED
  BY <1>4, <1>5, <1>6, <1>7, <1>8, <1>9, <1>10, <1>11, <1>12, <1>13, <1>14, <1>15, <1>16, <1>17, <1>18
     DEF StepOf, Held, Entry

LEMMA NumberedStays == MarkingConstants /\ Typed /\ Numbered /\ [Next]_vars => Numbered'
<1>1. Numbered /\ UNCHANGED vars => Numbered'
  BY DEF vars, Numbered, Owns
<1> QED
  BY <1>1, NumbersAreKept DEF Next, StepOf

LEMMA NumberedStarts == MarkingConstants /\ Init => Numbered
<1> SUFFICES ASSUME MarkingConstants, Init PROVE Numbered
  OBVIOUS
<1>1. Cardinality(Codes) \in Nat
  BY FS_CardinalityType DEF MarkingConstants
<1>2. \A r \in Calls : call[r].pc = "idle" /\ call[r].ids = {}
  BY DEF Init, Idle
<1>3. lastId = 0 /\ stock = 0 /\ uncounted = FALSE /\ \A c \in Codes : row[c] = NoRow
  BY DEF Init
<1>4. 1 .. lastId = {}
  BY <1>3
<1>5. lastId \in 0 .. MaxRows /\ stock \in 0 .. Cardinality(Codes)
  BY <1>1, <1>3 DEF MarkingConstants
<1> QED
  BY <1>2, <1>3, <1>4, <1>5 DEF Numbered

LEMMA NumberedMeans == Typed /\ Numbered => TypeOK
<1> SUFFICES ASSUME Typed, Numbered PROVE TypeOK
  OBVIOUS
<1>1. NoRow.id = 0 /\ NoRow.status \notin Status
  BY DEF NoRow, Status
<1>2. ASSUME NEW c \in Codes PROVE row[c].id \in 0 .. lastId /\ (Exists(c) <=> row[c].status \in Status)
  BY <1>1, <1>2 DEF Typed, Numbered, Exists
<1>3. ASSUME NEW c \in Codes, NEW d \in Codes, Exists(c), row[c].id = row[d].id PROVE c = d
  BY <1>1, <1>3 DEF Typed, Numbered, Exists, Owns
<1> QED
  BY <1>2, <1>3 DEF TypeOK, Typed, Numbered, Call, Row, Held

(* However creations, changes and deletions of codes overlap, no two codes *)
(* share a row number, every code that exists has a status of its own, and *)
(* the stock is at most the number of codes.                               *)
THEOREM CodesStayTyped ==
  ASSUME MarkingConstants
  PROVE  Spec => []TypeOK
<1>1. Init => Typed /\ ARecountIsDue /\ Numbered
  BY AllStarts, NumberedStarts
<1>2. Typed /\ ARecountIsDue /\ Numbered /\ [Next]_vars => (Typed /\ ARecountIsDue /\ Numbered)'
  BY AllStays, NumberedStays
<1> QED
  BY <1>1, <1>2, NumberedMeans, PTL DEF Spec
=============================================================================
