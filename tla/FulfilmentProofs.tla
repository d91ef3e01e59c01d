--------------------------- MODULE FulfilmentProofs ---------------------------
(***************************************************************************)
(* Proofs about create, updateStatus, cancel and the marking codes, for    *)
(* any number of orders, requests, variants and codes.                     *)
(***************************************************************************)
EXTENDS Fulfilment, FiniteSetTheorems, TLAPS

(* Every step of the whole is a step of OrderLifecycle or leaves the row   *)
(* alone, whatever the state it starts from.                               *)
LEMMA RowStep == [Next]_vars => [Life!Next]_(Life!vars)
<1> SUFFICES ASSUME [Next]_vars PROVE [Life!Next]_(Life!vars)
  OBVIOUS
<1> USE DEF row, Life!vars
<1>1. CASE UNCHANGED vars
  BY <1>1 DEF vars
<1>2. ASSUME NEW o \in Orders, ReadCart(o) PROVE UNCHANGED Life!vars
  BY <1>2 DEF ReadCart
<1>3. ASSUME NEW o \in Orders, CheckoutCatches(o) PROVE UNCHANGED Life!vars
  BY <1>3 DEF CheckoutCatches
<1>4. ASSUME NEW o \in Orders, CheckoutDies(o) PROVE [Life!Next]_(Life!vars)
  BY <1>4 DEF CheckoutDies, Life!Next
<1>5. ASSUME NEW o \in Orders, Proceed(o) PROVE [Life!Next]_(Life!vars)
  <2>1. CASE ReadNumber(o) \/ Insert(o) \/ InsertConflict(o)
    BY <2>1 DEF ReadNumber, Insert, InsertConflict, Life!Next
  <2>2. CASE CommitCodes(o) \/ SaveItems(o) \/ ClearCart(o)
    BY <2>2 DEF CommitCodes, SaveItems, ClearCart
  <2>3. ASSUME NEW v \in Variants,
               CheckItem(o, v) \/ LockCodes(o, v) \/ SyncStock(o, v) \/ DebitRead(o, v)
        PROVE  UNCHANGED Life!vars
    BY <2>3 DEF CheckItem, LockCodes, SyncStock, DebitRead
  <2>4. ASSUME NEW w, NEW n, DebitWrite(o, w, n) PROVE UNCHANGED Life!vars
    BY <2>4 DEF DebitWrite
  <2> QED
    BY <1>5, <2>1, <2>2, <2>3, <2>4 DEF Proceed
<1>6. ASSUME NEW r \in Requests, Ask(r) PROVE Life!Next
  BY <1>6 DEF Ask, UpdateRead, CancelRead, Life!Next, OrderStatus, Life!OrderStatus
<1>7. ASSUME NEW r \in Requests, Serve(r) PROVE [Life!Next]_(Life!vars)
  <2>1. CASE TransitionCodes(r) \/ FindVariants(r)
    BY <2>1 DEF TransitionCodes, FindVariants
  <2>2. CASE WriteRow(r)
    BY <2>2 DEF WriteRow, Life!Next
  <2>3. ASSUME NEW v \in Variants, CreditRead(r, v) \/ Resync(r, v)
        PROVE  UNCHANGED Life!vars
    BY <2>3 DEF CreditRead, Resync
  <2>4. ASSUME NEW w, NEW n, CreditWrite(r, w, n) PROVE UNCHANGED Life!vars
    BY <2>4 DEF CreditWrite
  <2> QED
    BY <1>7, <2>1, <2>2, <2>3, <2>4 DEF Serve
<1>8. ASSUME NEW r \in Requests, JobCatches(r) PROVE UNCHANGED Life!vars
  BY <1>8 DEF JobCatches
<1>9. ASSUME NEW r \in Requests, JobDies(r) PROVE [Life!Next]_(Life!vars)
  BY <1>9 DEF JobDies, Life!Next
<1> QED
  BY <1>1, <1>2, <1>3, <1>4, <1>5, <1>6, <1>7, <1>8, <1>9 DEF Next

(* The writes of Fulfilment to a row are taken from OrderLifecycle, so its  *)
(* behaviours are behaviours of that module and its theorems may be cited. *)
LEMMA RowIsALifecycle == Spec => Life!Spec
<1>1. Init => Life!Init
  BY DEF Init
<1> QED
  BY <1>1, RowStep, PTL DEF Spec, Life!Spec

LifeProofs == INSTANCE OrderLifecycleProofs WITH Late <- {}, sequential <- FALSE

(* The instance of OrderLifecycle inside Fulfilment and the one the proofs *)
(* of a row are about have the same definitions under different names.     *)
LEMMA SameLife == Life!Spec => LifeProofs!Spec
<1>1. Life!Init => LifeProofs!Init
  BY DEF Life!Init, LifeProofs!Init, Life!Idle, LifeProofs!Idle
<1>2. [Life!Next]_(Life!vars) => [LifeProofs!Next]_(LifeProofs!vars)
  <2>1. /\ LifeProofs!vars = Life!vars
        /\ LifeProofs!Actors = Life!Actors
        /\ LifeProofs!OrderStatus = Life!OrderStatus
        /\ LifeProofs!Placed = Life!Placed
        /\ LifeProofs!Allowed = Life!Allowed
    BY DEF LifeProofs!vars, Life!vars, LifeProofs!Actors, Life!Actors,
           LifeProofs!OrderStatus, Life!OrderStatus, LifeProofs!Placed, Life!Placed,
           LifeProofs!Allowed, Life!Allowed
  <2>2. ASSUME NEW o \in Orders, Life!ReadNumber(o) PROVE LifeProofs!Next
    BY <2>1, <2>2 DEF Life!ReadNumber, LifeProofs!ReadNumber, LifeProofs!Next
  <2>3. ASSUME NEW o \in Orders, Life!Insert(o) PROVE LifeProofs!Next
    BY <2>1, <2>3 DEF Life!Insert, LifeProofs!Insert, Life!Taken, LifeProofs!Taken,
                      Life!Created, LifeProofs!Created, LifeProofs!Next
  <2>4. ASSUME NEW o \in Orders, Life!GiveUp(o) PROVE LifeProofs!Next
    BY <2>4 DEF Life!GiveUp, LifeProofs!GiveUp, LifeProofs!Next
  <2>5. ASSUME NEW r \in Requests, Life!Commit(r) PROVE LifeProofs!Next
    BY <2>5 DEF Life!Commit, LifeProofs!Commit, Life!CommitAs, LifeProofs!CommitAs,
                Life!Idle, LifeProofs!Idle, LifeProofs!Next
  <2>6. ASSUME NEW r \in Requests, Life!Abandon(r) PROVE LifeProofs!Next
    BY <2>6 DEF Life!Abandon, LifeProofs!Abandon, Life!Idle, LifeProofs!Idle, LifeProofs!Next
  <2>7. ASSUME NEW r \in Requests, NEW o \in Orders, NEW s \in Life!OrderStatus,
               Life!StartUpdate(r, o, s)
        PROVE  LifeProofs!Next
    BY <2>1, <2>7 DEF Life!StartUpdate, LifeProofs!StartUpdate, Life!Intend,
                      LifeProofs!Intend, Life!Idle, LifeProofs!Idle, LifeProofs!Next
  <2>8. ASSUME NEW r \in Requests, NEW o \in Orders, NEW a \in Life!Actors,
               Life!StartCancel(r, o, a)
        PROVE  LifeProofs!Next
    BY <2>1, <2>8 DEF Life!StartCancel, LifeProofs!StartCancel, Life!Intend,
                      LifeProofs!Intend, Life!Idle, LifeProofs!Idle, Life!MayCancel,
                      LifeProofs!MayCancel, Life!CustomerCancellable,
                      LifeProofs!CustomerCancellable, LifeProofs!Next
  <2> QED
    BY <2>2, <2>3, <2>4, <2>5, <2>6, <2>7, <2>8 DEF Life!Next, Life!vars, LifeProofs!vars
<1> QED
  BY <1>1, <1>2, PTL DEF Life!Spec, LifeProofs!Spec

(* So what is proved of a row alone holds of the whole: the history of an  *)
(* order is one legal life and ends with its status.                       *)
THEOREM LivesStayLegal == Spec => [](Life!HistoryIsLegal /\ Life!StatusMatchesHistory)
<1>1. LifeProofs!Spec => [](LifeProofs!HistoryIsLegal /\ LifeProofs!StatusMatchesHistory)
  <2>1. LifeProofs!Spec => []LifeProofs!HistoryIsLegal
    BY LifeProofs!HistoriesStayLegal, FulfilmentAssumption DEF FulfilmentAssumption
  <2>2. LifeProofs!Spec => []LifeProofs!StatusMatchesHistory
    BY LifeProofs!StatusStaysWithHistory, FulfilmentAssumption DEF FulfilmentAssumption
  <2> QED
    BY <2>1, <2>2, PTL
<1>2. LifeProofs!HistoryIsLegal /\ LifeProofs!StatusMatchesHistory
      => Life!HistoryIsLegal /\ Life!StatusMatchesHistory
  BY DEF LifeProofs!HistoryIsLegal, Life!HistoryIsLegal, LifeProofs!LegalHistory,
         Life!LegalHistory, LifeProofs!LegalStep, Life!LegalStep, LifeProofs!Created,
         Life!Created, LifeProofs!StatusMatchesHistory, Life!StatusMatchesHistory,
         LifeProofs!LastOf, Life!LastOf, LifeProofs!Placed, Life!Placed,
         LifeProofs!Allowed, Life!Allowed, LifeProofs!CustomerCancellable,
         Life!CustomerCancellable
<1> QED
  BY <1>1, <1>2, SameLife, RowIsALifecycle, PTL

LEMMA RowsAreTyped == Spec => []Life!TypeOK
<1>1. LifeProofs!Spec => []LifeProofs!TypeOK
  BY LifeProofs!TypeCorrect, FulfilmentAssumption DEF FulfilmentAssumption
<1>2. LifeProofs!TypeOK => Life!TypeOK
  BY DEF LifeProofs!TypeOK, Life!TypeOK, LifeProofs!OrderStatus, Life!OrderStatus,
         LifeProofs!Entries, Life!Entries, LifeProofs!Entry, Life!Entry,
         LifeProofs!Actors, Life!Actors, LifeProofs!Write, Life!Write,
         LifeProofs!Idle, Life!Idle
<1> QED
  BY <1>1, <1>2, SameLife, RowIsALifecycle, PTL
-----------------------------------------------------------------------------
(* What the calls hold, and the codes: TypeOK without the row. *)
CallsTypeOK ==
  /\ cart \in [Customers -> [Variants -> Nat]]
  /\ stock \in [Variants -> Nat]
  /\ code \in [Codes -> [status : CodeStatus, order : Orders \cup {"none"}]]
  /\ attached \in [Orders -> SUBSET Codes]
  /\ run \in [Orders -> Run]
  /\ job \in [Requests -> Job]

(* A request knows its order while it puts stock back, and what to do with *)
(* the codes before it does it.                                            *)
JobsKnow ==
  \A r \in Requests :
    /\ job[r].pc = "credit" => job[r].to = "in_stock" /\ job[r].order \in Orders
    /\ job[r].pc = "codes" => job[r].to # "none"

CallsInv == CallsTypeOK /\ JobsKnow

LEMMA StockIsTyped ==
  ASSUME CallsTypeOK, NEW v \in Variants, SyncVariantStock(v)
  PROVE  stock' \in [Variants -> Nat]
<1>1. InStockOf(v) \in SUBSET Codes
  BY DEF InStockOf
<1>2. Cardinality(InStockOf(v)) \in Nat
  BY <1>1, FulfilmentAssumption, FS_Subset, FS_CardinalityType DEF FulfilmentAssumption
<1> QED
  BY <1>2 DEF SyncVariantStock, CallsTypeOK

(* The ways a checkout moves on keep the type of run. *)
LEMMA RunMovesOn ==
  ASSUME CallsTypeOK, NEW o \in Orders, NEW pc \in RunPc,
         \/ Goto(o, pc)
         \/ GotoLoop(o, pc)
         \/ \E v \in Variants : Through(o, v, pc)
  PROVE  run' \in [Orders -> Run]
<1>1. run[o] \in Run /\ Items(run[o].lines) \subseteq Variants
  BY DEF CallsTypeOK, Items
<1>2. CASE Goto(o, pc)
  BY <1>1, <1>2 DEF Goto, CallsTypeOK, Run
<1>3. CASE GotoLoop(o, pc)
  BY <1>1, <1>3 DEF GotoLoop, CallsTypeOK, Run
<1>4. ASSUME NEW v \in Variants, Through(o, v, pc) PROVE run' \in [Orders -> Run]
  <2>1. PICK x \in {pc, run[o].pc} :
          run' = [run EXCEPT ![o].todo = @ \ {v}, ![o].saw = {}, ![o].pc = x]
    BY <1>1, <1>4 DEF Through, CallsTypeOK, Run
  <2>2. x \in RunPc
    BY <1>1 DEF Run
  <2> QED
    BY <1>1, <2>1, <2>2 DEF CallsTypeOK, Run
<1> QED
  BY <1>2, <1>3, <1>4

LEMMA CheckoutKeepsCallsInv ==
  ASSUME CallsInv, NEW o \in Orders,
         ReadCart(o) \/ Proceed(o) \/ CheckoutCatches(o) \/ CheckoutDies(o)
  PROVE  CallsInv'
<1>0. run[o] \in Run /\ Items(run[o].lines) \subseteq Variants
  BY DEF CallsInv, CallsTypeOK, Items
<1>1. CASE ReadCart(o)
  <2>1. Owner[o] \in Customers
    BY FulfilmentAssumption DEF FulfilmentAssumption
  <2>2. Items(cart[Owner[o]]) \subseteq Variants
    BY DEF Items
  <2> QED
    BY <1>0, <1>1, <2>1, <2>2 DEF ReadCart, CallsInv, CallsTypeOK, JobsKnow, Run, RunPc
<1>2. ASSUME NEW v \in Variants, CheckItem(o, v) PROVE CallsInv'
  <2>1. \E pc \in RunPc : Goto(o, pc) \/ Through(o, v, pc)
    BY <1>2 DEF CheckItem, RunPc
  <2>2. run' \in [Orders -> Run]
    BY <2>1, RunMovesOn DEF CallsInv
  <2> QED
    BY <1>2, <2>2 DEF CheckItem, CallsInv, CallsTypeOK, JobsKnow
<1>3. CASE ReadNumber(o) \/ Insert(o) \/ InsertConflict(o)
  <2>1. \E pc \in RunPc : Goto(o, pc) \/ GotoLoop(o, pc)
    BY <1>3 DEF ReadNumber, Insert, InsertConflict, RunPc
  <2>2. run' \in [Orders -> Run]
    BY <2>1, RunMovesOn DEF CallsInv
  <2> QED
    BY <1>3, <2>2 DEF ReadNumber, Insert, InsertConflict, CallsInv, CallsTypeOK, JobsKnow
<1>4. ASSUME NEW v \in Variants, LockCodes(o, v) PROVE CallsInv'
  <2>1. PICK s \in SUBSET Codes :
          run' = [run EXCEPT ![o].todo = @ \ {v}, ![o].codes = @ \cup s]
    BY <1>4 DEF LockCodes, InStockOf
  <2> QED
    BY <1>0, <1>4, <2>1 DEF LockCodes, CallsInv, CallsTypeOK, JobsKnow, Run, RunPc
<1>5. CASE CommitCodes(o)
  <2>1. code' \in [Codes -> [status : CodeStatus, order : Orders \cup {"none"}]]
    BY <1>5 DEF CommitCodes, ReserveCodes, CallsInv, CallsTypeOK, CodeStatus
  <2>2. run' \in [Orders -> Run]
    BY <1>0, <1>5 DEF CommitCodes, CallsInv, CallsTypeOK, Run, RunPc
  <2> QED
    BY <1>5, <2>1, <2>2 DEF CommitCodes, CallsInv, CallsTypeOK, JobsKnow
<1>6. ASSUME NEW v \in Variants, SyncStock(o, v) PROVE CallsInv'
  <2>1. stock' \in [Variants -> Nat]
    BY <1>6, StockIsTyped DEF SyncStock, CallsInv
  <2> QED
    BY <1>0, <1>6, <2>1 DEF SyncStock, CallsInv, CallsTypeOK, JobsKnow, Run, RunPc
<1>7. CASE SaveItems(o)
  BY <1>0, <1>7 DEF SaveItems, Goto, CallsInv, CallsTypeOK, JobsKnow, Run, RunPc
<1>8. CASE ClearCart(o)
  BY <1>0, <1>8 DEF ClearCart, GotoLoop, NoLines, CallsInv, CallsTypeOK, JobsKnow, Run, RunPc
<1>9. ASSUME NEW v \in Variants, DebitRead(o, v) PROVE CallsInv'
  <2>1. CASE v \in Marked
    <3>1. run' \in [Orders -> Run]
      BY <1>9, <2>1, RunMovesOn DEF DebitRead, CallsInv, RunPc
    <3> QED
      BY <1>9, <3>1 DEF DebitRead, CallsInv, CallsTypeOK, JobsKnow
  <2>2. CASE v \notin Marked
    <3>1. <<v, stock[v]>> \in Variants \X Nat
      BY DEF CallsInv, CallsTypeOK
    <3>2. run' = [run EXCEPT ![o].saw = {<<v, stock[v]>>}]
      BY <1>9, <2>2 DEF DebitRead
    <3>3. run' \in [Orders -> Run]
      BY <1>0, <3>1, <3>2 DEF CallsInv, CallsTypeOK, Run
    <3> QED
      BY <1>9, <3>3 DEF DebitRead, CallsInv, CallsTypeOK, JobsKnow
  <2> QED
    BY <2>1, <2>2
<1>10. ASSUME NEW p \in run[o].saw, DebitWrite(o, p[1], p[2]) PROVE CallsInv'
  <2>1. p[1] \in Variants /\ p[2] \in Nat /\ run[o].lines[p[1]] \in Nat
    BY <1>0, <1>10 DEF Run
  <2>2. stock' \in [Variants -> Nat]
    BY <1>10, <2>1 DEF DebitWrite, CallsInv, CallsTypeOK
  <2> QED
    BY <1>0, <1>10, <2>2 DEF DebitWrite, Through, CallsInv, CallsTypeOK, JobsKnow, Run, RunPc
<1>11. CASE CheckoutCatches(o)
  BY <1>0, <1>11 DEF CheckoutCatches, CallsInv, CallsTypeOK, JobsKnow, Run, RunPc
<1>12. CASE CheckoutDies(o)
  BY <1>0, <1>12 DEF CheckoutDies, Goto, CallsInv, CallsTypeOK, JobsKnow, Run, RunPc
<1> QED
  BY <1>1, <1>2, <1>3, <1>4, <1>5, <1>6, <1>7, <1>8, <1>9, <1>10, <1>11, <1>12 DEF Proceed

(* One request moves on, and knows where to when it is to write codes.     *)
LEMMA JobMoves ==
  ASSUME CallsInv, NEW r \in Requests, NEW j \in Job, job' = [job EXCEPT ![r] = j],
         j.pc = "credit" => j.to = "in_stock" /\ j.order \in Orders,
         j.pc = "codes" => j.to # "none"
  PROVE  job' \in [Requests -> Job] /\ JobsKnow'
BY DEF CallsInv, CallsTypeOK, JobsKnow

LEMMA RequestKeepsCallsInv ==
  ASSUME CallsInv, NEW r \in Requests, Ask(r) \/ Serve(r) \/ JobCatches(r) \/ JobDies(r)
  PROVE  CallsInv'
<1>0. job[r] \in Job /\ AfterCodes(r) \in JobPc \ {"credit", "codes"}
  BY DEF CallsInv, CallsTypeOK, AfterCodes, JobPc
<1>1. ASSUME NEW o \in Orders, NEW s \in OrderStatus, UpdateRead(r, o, s) PROVE CallsInv'
  <2>1. CodesTo(s) \in {"none", "sold", "returned"}
    BY DEF CodesTo
  <2>2. job' \in [Requests -> Job] /\ JobsKnow'
    <3> DEFINE j == [job[r] EXCEPT !.pc = "write", !.order = o, !.to = CodesTo(s)]
    <3>1. job' = [job EXCEPT ![r] = j]
      BY <1>1 DEF UpdateRead, CallsInv, CallsTypeOK
    <3>2. j \in Job
      BY <1>0, <2>1 DEF Job, JobPc
    <3>3. j.pc = "write"
      BY <1>0 DEF Job
    <3> HIDE DEF j
    <3> QED
      BY <3>1, <3>2, <3>3, JobMoves
  <2> QED
    BY <1>1, <2>2 DEF UpdateRead, CallsInv, CallsTypeOK
<1>2. ASSUME NEW o \in Orders, NEW actor \in Life!Actors, CancelRead(r, o, actor)
      PROVE  CallsInv'
  <2>1. Items(run[o].lines) \subseteq Variants
    BY DEF Items
  <2>2. job' \in [Requests -> Job] /\ JobsKnow'
    <3> DEFINE j == [job[r] EXCEPT !.pc = "credit", !.order = o, !.to = "in_stock",
                                 !.todo = Items(run[o].lines)]
    <3>1. job' = [job EXCEPT ![r] = j]
      BY <1>2 DEF CancelRead, CallsInv, CallsTypeOK
    <3>2. j \in Job
      BY <1>0, <2>1 DEF Job, JobPc
    <3>3. j.pc = "credit" /\ j.to = "in_stock" /\ j.order = o
      BY <1>0 DEF Job
    <3> HIDE DEF j
    <3> QED
      BY <3>1, <3>2, <3>3, JobMoves
  <2> QED
    BY <1>2, <2>2 DEF CancelRead, CallsInv, CallsTypeOK
<1>3. ASSUME NEW v \in Variants, CreditRead(r, v) PROVE CallsInv'
  <2>1. CASE v \in Marked
    <3>1. job[r].to # "none"
      BY <1>3 DEF CreditRead, JobAt, CallsInv, JobsKnow
    <3>2. PICK pc \in {"codes", job[r].pc} :
            job' = [job EXCEPT ![r].todo = @ \ {v}, ![r].saw = {}, ![r].pc = pc]
      BY <1>0, <1>3, <2>1 DEF CreditRead, JobThrough, CallsInv, CallsTypeOK, Job
    <3>4. pc \in JobPc /\ (pc = "credit" => job[r].to = "in_stock" /\ job[r].order \in Orders)
      BY <1>0 DEF CallsInv, JobsKnow, Job, JobPc
    <3>3. job' \in [Requests -> Job] /\ JobsKnow'
      <4> DEFINE j == [job[r] EXCEPT !.todo = @ \ {v}, !.saw = {}, !.pc = pc]
      <4>1. job' = [job EXCEPT ![r] = j]
        BY <3>2 DEF CallsInv, CallsTypeOK
      <4>2. j \in Job
        BY <1>0, <3>4 DEF Job
      <4>3. j.pc = pc /\ j.to = job[r].to /\ j.order = job[r].order
        BY <1>0 DEF Job
      <4> HIDE DEF j
      <4> QED
        BY <3>1, <3>4, <4>1, <4>2, <4>3, JobMoves
    <3> QED
      BY <1>3, <3>3 DEF CreditRead, CallsInv, CallsTypeOK
  <2>2. CASE v \notin Marked
    <3>1. <<v, stock[v]>> \in Variants \X Nat
      BY DEF CallsInv, CallsTypeOK
    <3>2. job' = [job EXCEPT ![r].saw = {<<v, stock[v]>>}]
      BY <1>3, <2>2 DEF CreditRead
    <3>3. job' \in [Requests -> Job] /\ JobsKnow'
      BY <1>0, <3>1, <3>2 DEF CallsInv, CallsTypeOK, JobsKnow, Job
    <3> QED
      BY <1>3, <3>3 DEF CreditRead, CallsInv, CallsTypeOK
  <2> QED
    BY <2>1, <2>2
<1>4. ASSUME NEW p \in job[r].saw, CreditWrite(r, p[1], p[2]) PROVE CallsInv'
  <2>1. p[1] \in Variants /\ p[2] \in Nat
    BY <1>0 DEF Job
  <2>2. job[r].to # "none" /\ job[r].order \in Orders
    BY <1>4 DEF CreditWrite, JobAt, CallsInv, JobsKnow
  <2>3. run[job[r].order].lines[p[1]] \in Nat
    BY <2>1, <2>2 DEF CallsInv, CallsTypeOK, Run
  <2>4. stock' \in [Variants -> Nat]
    BY <1>4, <2>1, <2>3 DEF CreditWrite, CallsInv, CallsTypeOK
  <2>5. PICK pc \in {"codes", job[r].pc} :
          job' = [job EXCEPT ![r].todo = @ \ {p[1]}, ![r].saw = {}, ![r].pc = pc]
    BY <1>0, <1>4 DEF CreditWrite, JobThrough, CallsInv, CallsTypeOK, Job
  <2>6. job' \in [Requests -> Job] /\ JobsKnow'
    BY <1>0, <2>2, <2>5 DEF CallsInv, CallsTypeOK, JobsKnow, Job, JobPc
  <2> QED
    BY <1>4, <2>4, <2>6 DEF CreditWrite, CallsInv, CallsTypeOK
<1>5. CASE TransitionCodes(r)
  <2>1. job[r].to \in {"in_stock", "sold", "returned"}
    BY <1>0, <1>5 DEF TransitionCodes, JobAt, CallsInv, JobsKnow, Job
  <2>2. Moved(job[r]) \in [status : CodeStatus, order : Orders \cup {"none"}]
    BY <1>0, <2>1 DEF Moved, Free, CodeStatus, Job
  <2>3. code' \in [Codes -> [status : CodeStatus, order : Orders \cup {"none"}]]
    BY <1>5, <2>2 DEF TransitionCodes, CallsInv, CallsTypeOK
  <2>4. Affected(job[r]) \subseteq Codes
    BY DEF Affected
  <2>5. PICK pc \in {AfterCodes(r), "find"} :
          job' = [job EXCEPT ![r].moved = Affected(job[r]), ![r].pc = pc]
    BY <1>5 DEF TransitionCodes
  <2>6. job' \in [Requests -> Job] /\ JobsKnow'
    <3> DEFINE j == [job[r] EXCEPT !.moved = Affected(job[r]), !.pc = pc]
    <3>1. job' = [job EXCEPT ![r] = j]
      BY <2>5 DEF CallsInv, CallsTypeOK
    <3>2. j \in Job
      BY <1>0, <2>4 DEF Job, JobPc
    <3>3. j.pc \notin {"credit", "codes"}
      BY <1>0 DEF Job
    <3> HIDE DEF j
    <3> QED
      BY <3>1, <3>2, <3>3, JobMoves
  <2> QED
    BY <1>5, <2>3, <2>6 DEF TransitionCodes, CallsInv, CallsTypeOK
<1>6. CASE FindVariants(r)
  <2>1. PICK found \in SUBSET Variants, pc \in {AfterCodes(r), "resync"} :
          job' = [job EXCEPT ![r].todo = found, ![r].pc = pc]
    <3>1. \A c \in Codes : VariantOf[c] \in Variants
      BY FulfilmentAssumption DEF FulfilmentAssumption
    <3>2. {VariantOf[c] : c \in {d \in Codes : code[d].order = job[r].order}} \subseteq Variants
      BY <3>1
    <3> QED
      BY <1>6, <3>2 DEF FindVariants
  <2>2. job' \in [Requests -> Job] /\ JobsKnow'
    <3> DEFINE j == [job[r] EXCEPT !.todo = found, !.pc = pc]
    <3>1. job' = [job EXCEPT ![r] = j]
      BY <2>1 DEF CallsInv, CallsTypeOK
    <3>2. j \in Job
      BY <1>0 DEF Job, JobPc
    <3>3. j.pc \notin {"credit", "codes"}
      BY <1>0 DEF Job
    <3> HIDE DEF j
    <3> QED
      BY <3>1, <3>2, <3>3, JobMoves
  <2> QED
    BY <1>6, <2>2 DEF FindVariants, CallsInv, CallsTypeOK
<1>7. ASSUME NEW v \in Variants, Resync(r, v) PROVE CallsInv'
  <2>1. stock' \in [Variants -> Nat]
    BY <1>7, StockIsTyped DEF Resync, CallsInv
  <2>2. PICK pc \in {AfterCodes(r), job[r].pc} :
          job' = [job EXCEPT ![r].todo = @ \ {v}, ![r].saw = {}, ![r].pc = pc]
    BY <1>0, <1>7 DEF Resync, JobThrough, CallsInv, CallsTypeOK, Job
  <2>3. job[r].pc = "resync"
    BY <1>7 DEF Resync, JobAt
  <2>4. job' \in [Requests -> Job] /\ JobsKnow'
    <3> DEFINE j == [job[r] EXCEPT !.todo = @ \ {v}, !.saw = {}, !.pc = pc]
    <3>1. job' = [job EXCEPT ![r] = j]
      BY <2>2 DEF CallsInv, CallsTypeOK
    <3>2. pc \in JobPc \ {"credit", "codes"}
      BY <1>0, <2>3 DEF JobPc
    <3>3. j \in Job
      BY <1>0, <3>2 DEF Job
    <3>4. j.pc = pc
      BY <1>0 DEF Job
    <3> HIDE DEF j
    <3> QED
      BY <3>1, <3>2, <3>3, <3>4, JobMoves
  <2> QED
    BY <1>7, <2>1, <2>4 DEF Resync, CallsInv, CallsTypeOK
<1>8. CASE WriteRow(r)
  <2>1. PICK pc \in {"codes", "done"} :
          /\ job' = [job EXCEPT ![r].pc = pc]
          /\ pc = "codes" => job[r].to # "none"
    BY <1>8 DEF WriteRow, JobGoto
  <2>2. job' \in [Requests -> Job] /\ JobsKnow'
    <3> DEFINE j == [job[r] EXCEPT !.pc = pc]
    <3>1. job' = [job EXCEPT ![r] = j]
      BY <2>1 DEF CallsInv, CallsTypeOK
    <3>2. j \in Job
      BY <1>0, <2>1 DEF Job, JobPc
    <3>3. j.pc = pc /\ j.to = job[r].to
      BY <1>0 DEF Job
    <3> HIDE DEF j
    <3> QED
      BY <2>1, <3>1, <3>2, <3>3, JobMoves
  <2> QED
    BY <1>8, <2>2 DEF WriteRow, CallsInv, CallsTypeOK
<1>9. CASE JobCatches(r)
  <2>1. job' \in [Requests -> Job] /\ JobsKnow'
    <3> DEFINE j == [job[r] EXCEPT !.pc = AfterCodes(r), !.todo = {}]
    <3>1. job' = [job EXCEPT ![r] = j]
      BY <1>9 DEF JobCatches, CallsInv, CallsTypeOK
    <3>2. j \in Job
      BY <1>0 DEF Job, JobPc
    <3>3. j.pc \notin {"credit", "codes"}
      BY <1>0 DEF Job
    <3> HIDE DEF j
    <3> QED
      BY <3>1, <3>2, <3>3, JobMoves
  <2> QED
    BY <1>9, <2>1 DEF JobCatches, CallsInv, CallsTypeOK
<1>10. CASE JobDies(r)
  <2>1. job' \in [Requests -> Job] /\ JobsKnow'
    BY <1>0, <1>10 DEF JobDies, JobGoto, CallsInv, CallsTypeOK, JobsKnow, Job, JobPc
  <2> QED
    BY <1>10, <2>1 DEF JobDies, CallsInv, CallsTypeOK
<1> QED
  BY <1>1, <1>2, <1>3, <1>4, <1>5, <1>6, <1>7, <1>8, <1>9, <1>10 DEF Ask, Serve

LEMMA CallsInvHolds == Spec => []CallsInv
<1>1. Init => CallsInv
  <2>1. \A v \in Variants : Cardinality({c \in Codes : VariantOf[c] = v}) \in Nat
    BY FulfilmentAssumption, FS_Subset, FS_CardinalityType DEF FulfilmentAssumption
  <2>2. Init => stock \in [Variants -> Nat]
    BY <2>1, FulfilmentAssumption DEF Init, FulfilmentAssumption
  <2> QED
    BY <2>2, FulfilmentAssumption
       DEF Init, CallsInv, CallsTypeOK, JobsKnow, FulfilmentAssumption, Free, CodeStatus,
           NewRun, NoLines, Run, RunPc, NewJob, Job, JobPc
<1>2. CallsInv /\ [Next]_vars => CallsInv'
  <2> SUFFICES ASSUME CallsInv, [Next]_vars PROVE CallsInv'
    OBVIOUS
  <2>1. CASE UNCHANGED vars
    BY <2>1 DEF vars, CallsInv, CallsTypeOK, JobsKnow
  <2>2. CASE Next
    BY <2>2, CheckoutKeepsCallsInv, RequestKeepsCallsInv DEF Next
  <2> QED
    BY <2>1, <2>2
<1> QED
  BY <1>1, <1>2, PTL DEF Spec

(* Type correctness: in particular no stock ever becomes negative, and no  *)
(* code is left without a status or with an order that does not exist.     *)
THEOREM CallsAreTyped == Spec => []TypeOK
<1>1. Life!TypeOK /\ CallsInv => TypeOK
  BY DEF CallsInv, CallsTypeOK, TypeOK
<1> QED
  BY <1>1, RowsAreTyped, CallsInvHolds, PTL
-----------------------------------------------------------------------------
(* A code is in stock exactly when it has no order. *)
StockHasNoOrder == \A c \in Codes : code[c].status = "in_stock" <=> code[c].order = "none"

(* Nothing is locked before the order is inserted. *)
Fresh == {"idle", "check", "number", "insert"}

LocksComeLate == \A o \in Orders : run[o].pc \in Fresh => run[o].codes = {}

(* What a reserving transaction has locked is still in stock when it       *)
(* commits, and no two transactions have locked the same code.             *)
LocksHold ==
  \A o \in Orders : At(o, "reserve") =>
    /\ \A c \in run[o].codes : code[c].status = "in_stock"
    /\ \A p \in Orders \ {o} : At(p, "reserve") => run[o].codes \cap run[p].codes = {}

(* The codes of an order that are to be printed on its items, or are,      *)
(* belong to it until a cancel of the order has released them.             *)
Released(o, c) ==
  \E r \in Requests : job[r].order = o /\ job[r].to = "in_stock" /\ c \in job[r].moved

Held(o, c) == code[c].order = o \/ Released(o, c)

ReservedCodesAreHeld ==
  \A o \in Orders : run[o].pc \in {"sync", "save"} => \A c \in run[o].codes : Held(o, c)

(* A request moves codes once. *)
MovesOnce ==
  \A r \in Requests :
    job[r].pc \in {"idle", "credit", "codes"} => job[r].moved = {}

WritesBeforeMoving ==
  \A r \in Requests :
    job[r].pc = "write" /\ job[r].to # "in_stock" => job[r].moved = {}

HandInv == /\ StockHasNoOrder /\ LocksComeLate /\ LocksHold
           /\ MovesOnce /\ WritesBeforeMoving
           /\ ReservedCodesAreHeld /\ AttachedCodesAreHeld

(* What SoldCodesAreNotResold asks of a step. *)
HandsOver ==
  \A c \in Codes :
    /\ code[c].order # "none" => code'[c].order \in {code[c].order, "none"}
    /\ code[c].status = "sold" => /\ code'[c].status \in {"sold", "returned"}
                                  /\ code'[c].order = code[c].order

(* A checkout step that leaves the codes alone. *)
LEMMA QuietCheckout ==
  ASSUME CallsInv, HandInv, NEW o \in Orders, UNCHANGED <<code, job>>,
         \A p \in Orders \ {o} : run'[p] = run[p],
         run'[o].pc = "reserve" =>
           run'[o].codes = {} \/ (run[o].pc = "reserve" /\ run'[o].codes = run[o].codes),
         run'[o].pc \in Fresh => run'[o].codes = {},
         run'[o].pc \in {"sync", "save"} =>
           run[o].pc \in {"sync", "save"} /\ run'[o].codes = run[o].codes,
         \/ attached' = attached
         \/ /\ run[o].pc = "save"
            /\ attached' = [attached EXCEPT ![o] = run[o].codes]
  PROVE  HandInv' /\ HandsOver
<1>1. StockHasNoOrder' /\ MovesOnce' /\ WritesBeforeMoving' /\ HandsOver
  BY DEF HandInv, StockHasNoOrder, MovesOnce, WritesBeforeMoving, HandsOver
<1>2. LocksHold' /\ LocksComeLate'
  BY DEF HandInv, LocksHold, LocksComeLate, At
<1>3. \A p \in Orders, c \in Codes : Held(p, c) => Held(p, c)'
  BY DEF Held, Released
<1>4. \A p \in Orders : run[p].codes \subseteq Codes /\ attached[p] \subseteq Codes
  BY DEF CallsInv, CallsTypeOK, Run
<1>5. ReservedCodesAreHeld'
  BY <1>3, <1>4 DEF HandInv, ReservedCodesAreHeld
<1>6. AttachedCodesAreHeld'
  <2>1. \A p \in Orders : \A c \in attached[p] : Held(p, c)
    BY DEF HandInv, AttachedCodesAreHeld, Held, Released
  <2>2. \A p \in Orders : \A c \in attached'[p] : Held(p, c)
    BY <2>1 DEF HandInv, ReservedCodesAreHeld, CallsInv, CallsTypeOK
  <2>3. \A p \in Orders : attached'[p] \subseteq Codes
    BY <1>4 DEF CallsInv, CallsTypeOK
  <2>4. \A p \in Orders : \A c \in attached'[p] : Held(p, c)'
    BY <1>3, <2>2, <2>3
  <2> QED
    BY <2>4 DEF AttachedCodesAreHeld, Held, Released
<1> QED
  BY <1>1, <1>2, <1>5, <1>6 DEF HandInv

LEMMA CheckoutKeepsHands ==
  ASSUME CallsInv, HandInv, NEW o \in Orders,
         ReadCart(o) \/ Proceed(o) \/ CheckoutCatches(o) \/ CheckoutDies(o)
  PROVE  HandInv' /\ HandsOver
<1>0. run[o] \in Run /\ run \in [Orders -> Run] /\ attached \in [Orders -> SUBSET Codes]
  BY DEF CallsInv, CallsTypeOK
<1>1. CASE ReadCart(o)
  BY <1>0, <1>1, QuietCheckout
     DEF ReadCart, At, HandInv, LocksComeLate, Fresh, Run
<1>2. ASSUME NEW v \in Variants, CheckItem(o, v) PROVE HandInv' /\ HandsOver
  <2>1. run[o].codes = {}
    BY <1>2 DEF CheckItem, At, HandInv, LocksComeLate, Fresh
  <2>2. /\ run'[o].codes = run[o].codes
        /\ run'[o].pc \in {"rejected", "number", "check"}
        /\ \A p \in Orders \ {o} : run'[p] = run[p]
    BY <1>0, <1>2 DEF CheckItem, Goto, Through, At, Run
  <2> QED
    BY <1>2, <2>1, <2>2, QuietCheckout DEF CheckItem, Fresh
<1>3. CASE ReadNumber(o) \/ Insert(o) \/ InsertConflict(o)
  <2>1. run[o].codes = {}
    BY <1>3 DEF ReadNumber, Insert, InsertConflict, At, HandInv, LocksComeLate, Fresh
  <2>2. /\ run'[o].codes = run[o].codes
        /\ run'[o].pc \in {"insert", "reserve", "rejected"}
        /\ \A p \in Orders \ {o} : run'[p] = run[p]
    BY <1>0, <1>3 DEF ReadNumber, Insert, InsertConflict, Goto, GotoLoop, Run
  <2> QED
    BY <1>3, <2>1, <2>2, QuietCheckout DEF ReadNumber, Insert, InsertConflict, Fresh
<1>4. ASSUME NEW v \in Variants, LockCodes(o, v) PROVE HandInv' /\ HandsOver
  <2>1. PICK s \in SUBSET (InStockOf(v) \ LockedBy(Orders)) :
          run' = [run EXCEPT ![o].todo = @ \ {v}, ![o].codes = @ \cup s]
    BY <1>4 DEF LockCodes
  <2>2. /\ run'[o].pc = "reserve" /\ run[o].pc = "reserve"
        /\ run'[o].codes = run[o].codes \cup s
        /\ \A p \in Orders \ {o} : run'[p] = run[p]
        /\ UNCHANGED <<code, job, attached>>
    BY <1>0, <1>4, <2>1 DEF LockCodes, At, Run
  <2>3. \A c \in s : code[c].status = "in_stock"
    BY DEF InStockOf
  <2>4. \A p \in Orders : At(p, "reserve") => s \cap run[p].codes = {}
    BY DEF LockedBy
  <2>5. LocksHold'
    BY <2>2, <2>3, <2>4 DEF HandInv, LocksHold, At
  <2>6. LocksComeLate' /\ ReservedCodesAreHeld'
    BY <2>2 DEF HandInv, LocksComeLate, ReservedCodesAreHeld, Fresh, Held, Released
  <2> QED
    BY <2>2, <2>5, <2>6
       DEF HandInv, StockHasNoOrder, MovesOnce, WritesBeforeMoving, AttachedCodesAreHeld,
           HandsOver
<1>5. CASE CommitCodes(o)
  <2>1. /\ run'[o].pc = "sync" /\ run[o].pc = "reserve"
        /\ run'[o].codes = run[o].codes
        /\ \A p \in Orders \ {o} : run'[p] = run[p]
        /\ UNCHANGED <<job, attached>>
    BY <1>0, <1>5 DEF CommitCodes, At, Run
  <2>2. \A c \in Codes :
          code'[c] = IF c \in run[o].codes THEN [status |-> "reserved", order |-> o]
                                            ELSE code[c]
    BY <1>5 DEF CommitCodes, ReserveCodes
  <2>3. \A c \in run[o].codes : code[c].status = "in_stock" /\ code[c].order = "none"
    BY <1>0, <2>1 DEF HandInv, LocksHold, StockHasNoOrder, At, Run
  <2>4. o # "none"
    BY FulfilmentAssumption DEF FulfilmentAssumption
  <2>5. StockHasNoOrder'
    BY <2>2, <2>4 DEF HandInv, StockHasNoOrder
  <2>6. HandsOver
    BY <2>2, <2>3 DEF HandsOver
  <2>7. LocksHold'
    <3>1. ASSUME NEW p \in Orders, At(p, "reserve")'
          PROVE  p # o /\ run'[p] = run[p] /\ At(p, "reserve") /\ run[p].codes \subseteq Codes
      BY <1>0, <2>1, <3>1 DEF At, Run
    <3>2. ASSUME NEW p \in Orders, At(p, "reserve")'
          PROVE  run[o].codes \cap run[p].codes = {}
      BY <2>1, <3>1, <3>2 DEF HandInv, LocksHold, At
    <3> QED
      BY <2>2, <3>1, <3>2 DEF HandInv, LocksHold
  <2>8. \A p \in Orders, c \in Codes : Held(p, c) => Held(p, c)'
    <3>1. \A p \in Orders, c \in Codes : Released(p, c) => Released(p, c)'
      BY <2>1 DEF Released
    <3>2. \A p \in Orders, c \in Codes : code[c].order = p => code'[c].order = p
      BY <2>2, <2>3, FulfilmentAssumption DEF FulfilmentAssumption
    <3> QED
      BY <3>1, <3>2 DEF Held
  <2>9. ReservedCodesAreHeld'
    <3>1. \A c \in run[o].codes : Held(o, c)'
      BY <1>0, <2>2 DEF Held, Run
    <3>2. \A p \in Orders : run[p].codes \subseteq Codes
      BY <1>0 DEF Run
    <3> QED
      BY <2>1, <2>8, <3>1, <3>2 DEF HandInv, ReservedCodesAreHeld
  <2>10. AttachedCodesAreHeld'
    <3>1. \A p \in Orders : \A c \in attached[p] : c \in Codes /\ Held(p, c)
      BY <1>0 DEF HandInv, AttachedCodesAreHeld, Held, Released
    <3> QED
      BY <2>1, <2>8, <3>1 DEF AttachedCodesAreHeld, Held, Released
  <2>11. LocksComeLate' /\ MovesOnce' /\ WritesBeforeMoving'
    BY <2>1 DEF HandInv, LocksComeLate, MovesOnce, WritesBeforeMoving, Fresh
  <2> QED
    BY <2>5, <2>6, <2>7, <2>9, <2>10, <2>11 DEF HandInv
<1>6. ASSUME NEW v \in Variants, SyncStock(o, v) PROVE HandInv' /\ HandsOver
  BY <1>0, <1>6, QuietCheckout DEF SyncStock, At, Fresh, Run
<1>7. CASE SaveItems(o)
  BY <1>0, <1>7, QuietCheckout DEF SaveItems, Goto, At, Fresh, Run
<1>8. CASE ClearCart(o)
  BY <1>0, <1>8, QuietCheckout DEF ClearCart, GotoLoop, At, Fresh, Run
<1>9. ASSUME NEW v \in Variants, DebitRead(o, v) PROVE HandInv' /\ HandsOver
  BY <1>0, <1>9, QuietCheckout DEF DebitRead, Through, At, Fresh, Run
<1>10. ASSUME NEW p \in run[o].saw, DebitWrite(o, p[1], p[2]) PROVE HandInv' /\ HandsOver
  BY <1>0, <1>10, QuietCheckout DEF DebitWrite, Through, At, Fresh, Run
<1>11. CASE CheckoutCatches(o)
  BY <1>0, <1>11, QuietCheckout DEF CheckoutCatches, At, Fresh, Run
<1>12. CASE CheckoutDies(o)
  BY <1>0, <1>12, QuietCheckout DEF CheckoutDies, Goto, Fresh, Run
<1> QED
  BY <1>1, <1>2, <1>3, <1>4, <1>5, <1>6, <1>7, <1>8, <1>9, <1>10, <1>11, <1>12 DEF Proceed

(* A request step that leaves the codes alone: what the request has moved  *)
(* is not forgotten, and it begins anew only when it has moved nothing.    *)
LEMMA QuietRequest ==
  ASSUME CallsInv, HandInv, NEW r \in Requests, UNCHANGED <<code, run, attached>>,
         \A q \in Requests \ {r} : job'[q] = job[q],
         job'[r].moved = job[r].moved,
         job[r].moved # {} => /\ job'[r].order = job[r].order
                              /\ job'[r].to = job[r].to
                              /\ job'[r].pc \notin {"idle", "credit", "codes"}
                              /\ job'[r].pc # "write" \/ job[r].to = "in_stock"
  PROVE  HandInv' /\ HandsOver
<1>1. StockHasNoOrder' /\ LocksComeLate' /\ LocksHold' /\ HandsOver
  BY DEF HandInv, StockHasNoOrder, LocksComeLate, LocksHold, At, HandsOver
<1>2. MovesOnce' /\ WritesBeforeMoving'
  <2>1. ASSUME NEW q \in Requests
        PROVE  /\ job'[q].pc \in {"idle", "credit", "codes"} => job'[q].moved = {}
               /\ job'[q].pc = "write" /\ job'[q].to # "in_stock" => job'[q].moved = {}
    <3>1. CASE q = r
      BY <3>1
    <3>2. CASE q # r
      BY <3>2 DEF HandInv, MovesOnce, WritesBeforeMoving
    <3> QED
      BY <3>1, <3>2
  <2> QED
    BY <2>1 DEF MovesOnce, WritesBeforeMoving
<1>3. \A p \in Orders : \A c : Held(p, c) => Held(p, c)'
  <2> SUFFICES ASSUME NEW p \in Orders, NEW c, Released(p, c) PROVE Released(p, c)'
    BY DEF Held
  <2>1. PICK q \in Requests :
          job[q].order = p /\ job[q].to = "in_stock" /\ c \in job[q].moved
    BY DEF Released
  <2>2. job'[q].order = p /\ job'[q].to = "in_stock" /\ c \in job'[q].moved
    BY <2>1
  <2> QED
    BY <2>2 DEF Released
<1>4. ReservedCodesAreHeld'
  BY <1>3 DEF HandInv, ReservedCodesAreHeld
<1>5. AttachedCodesAreHeld'
  BY <1>3 DEF HandInv, AttachedCodesAreHeld, Held, Released
<1> QED
  BY <1>1, <1>2, <1>4, <1>5 DEF HandInv

LEMMA TransitionKeepsHands ==
  ASSUME CallsInv, HandInv, NEW r \in Requests, TransitionCodes(r)
  PROVE  HandInv' /\ HandsOver
<1> DEFINE j == job[r]
           m == Affected(j)
<1>1. /\ j.to \in {"in_stock", "sold", "returned"}
      /\ j.order \in Orders \cup {"none"}
      /\ j.moved = {}
  BY DEF TransitionCodes, JobAt, CallsInv, CallsTypeOK, JobsKnow, Job, HandInv, MovesOnce
<1>2. /\ UNCHANGED <<run, attached>>
      /\ \A q \in Requests \ {r} : job'[q] = job[q]
      /\ job'[r].moved = m /\ job'[r].to = j.to /\ job'[r].order = j.order
      /\ job'[r].pc \in {AfterCodes(r), "find"}
  BY DEF TransitionCodes, CallsInv, CallsTypeOK, Job
<1>3. \A c \in Codes : code'[c] = IF c \in m THEN Moved(j) ELSE code[c]
  BY DEF TransitionCodes
<1>4. \A c \in m : /\ c \in Codes
                   /\ code[c].status = CodesFrom[j.to] /\ code[c].order = j.order
  BY DEF Affected
<1>5. \A c \in m : code[c].order # "none" /\ j.order # "none"
  BY <1>1, <1>4 DEF CodesFrom, HandInv, StockHasNoOrder
<1> HIDE DEF m, j
<1>6. HandsOver
  BY <1>1, <1>3, <1>4 DEF HandsOver, CodesFrom, Moved, Free
<1>7. StockHasNoOrder'
  BY <1>1, <1>3, <1>5 DEF HandInv, StockHasNoOrder, Moved, Free
<1>8. LocksHold' /\ LocksComeLate'
  <2>1. \A p \in Orders : run[p].codes \subseteq Codes
    BY DEF CallsInv, CallsTypeOK, Run
  <2>2. \A c \in Codes : code[c].status = "in_stock" => code'[c] = code[c]
    BY <1>3, <1>4, <1>5 DEF HandInv, StockHasNoOrder
  <2> QED
    BY <1>2, <2>1, <2>2 DEF HandInv, LocksHold, LocksComeLate, At
<1>9. MovesOnce' /\ WritesBeforeMoving'
  <2>1. /\ job'[r].pc \notin {"idle", "credit", "codes"}
        /\ job'[r].pc = "write" => job'[r].to = "in_stock"
    BY <1>2 DEF AfterCodes, j
  <2> QED
    BY <1>2, <2>1 DEF HandInv, MovesOnce, WritesBeforeMoving
<1>10. \A p \in Orders, c \in Codes : Held(p, c) => Held(p, c)'
  <2> SUFFICES ASSUME NEW p \in Orders, NEW c \in Codes, Held(p, c) PROVE Held(p, c)'
    OBVIOUS
  <2>1. CASE Released(p, c)
    <3>1. PICK q \in Requests :
            job[q].order = p /\ job[q].to = "in_stock" /\ c \in job[q].moved
      BY <2>1 DEF Released
    <3>2. q # r
      BY <1>1, <3>1 DEF j
    <3> QED
      BY <1>2, <3>1, <3>2 DEF Held, Released
  <2>2. CASE code[c].order = p /\ c \notin m
    BY <1>3, <2>2 DEF Held
  <2>3. CASE code[c].order = p /\ c \in m
    <3>1. j.order = p
      BY <1>4, <2>3
    <3>2. CASE j.to = "in_stock"
      BY <1>2, <2>3, <3>1, <3>2 DEF Held, Released
    <3>3. CASE j.to # "in_stock"
      BY <1>3, <2>3, <3>1, <3>3 DEF Held, Moved
    <3> QED
      BY <3>2, <3>3
  <2> QED
    BY <2>1, <2>2, <2>3 DEF Held
<1>11. ReservedCodesAreHeld'
  <2>1. \A p \in Orders : run[p].codes \subseteq Codes
    BY DEF CallsInv, CallsTypeOK, Run
  <2> QED
    BY <1>2, <1>10, <2>1 DEF HandInv, ReservedCodesAreHeld
<1>12. AttachedCodesAreHeld'
  <2>1. \A p \in Orders : \A c \in attached[p] : c \in Codes /\ Held(p, c)
    BY DEF CallsInv, CallsTypeOK, HandInv, AttachedCodesAreHeld, Held, Released
  <2> QED
    BY <1>2, <1>10, <2>1 DEF AttachedCodesAreHeld, Held, Released
<1> QED
  BY <1>6, <1>7, <1>8, <1>9, <1>11, <1>12 DEF HandInv

LEMMA RequestKeepsHands ==
  ASSUME CallsInv, HandInv, NEW r \in Requests,
         Ask(r) \/ Serve(r) \/ JobCatches(r) \/ JobDies(r)
  PROVE  HandInv' /\ HandsOver
<1>0. job[r] \in Job /\ job \in [Requests -> Job]
  BY DEF CallsInv, CallsTypeOK
<1>1. job[r].pc \in {"idle", "credit", "codes"} => job[r].moved = {}
  BY DEF HandInv, MovesOnce
<1>2. ASSUME NEW o \in Orders, NEW s \in OrderStatus, UpdateRead(r, o, s)
      PROVE  HandInv' /\ HandsOver
  BY <1>0, <1>1, <1>2, QuietRequest DEF UpdateRead, JobAt, Job
<1>3. ASSUME NEW o \in Orders, NEW actor \in Life!Actors, CancelRead(r, o, actor)
      PROVE  HandInv' /\ HandsOver
  BY <1>0, <1>1, <1>3, QuietRequest DEF CancelRead, JobAt, Job
<1>4. ASSUME NEW v \in Variants, CreditRead(r, v) PROVE HandInv' /\ HandsOver
  BY <1>0, <1>1, <1>4, QuietRequest DEF CreditRead, JobThrough, JobAt, Job
<1>5. ASSUME NEW p \in job[r].saw, CreditWrite(r, p[1], p[2]) PROVE HandInv' /\ HandsOver
  BY <1>0, <1>1, <1>5, QuietRequest DEF CreditWrite, JobThrough, JobAt, Job
<1>6. CASE FindVariants(r)
  BY <1>0, <1>6, QuietRequest DEF FindVariants, AfterCodes, JobAt, Job
<1>7. ASSUME NEW v \in Variants, Resync(r, v) PROVE HandInv' /\ HandsOver
  BY <1>0, <1>7, QuietRequest DEF Resync, JobThrough, AfterCodes, JobAt, Job
<1>8. CASE WriteRow(r)
  <2>1. job[r].pc = "write" /\ (job[r].to # "in_stock" => job[r].moved = {})
    BY <1>8 DEF WriteRow, JobAt, HandInv, WritesBeforeMoving
  <2> QED
    BY <1>0, <1>8, <2>1, QuietRequest DEF WriteRow, JobGoto, Job
<1>9. CASE JobCatches(r)
  BY <1>0, <1>9, QuietRequest DEF JobCatches, AfterCodes, Job
<1>10. CASE JobDies(r)
  BY <1>0, <1>10, QuietRequest DEF JobDies, JobGoto, Job
<1> QED
  BY <1>2, <1>3, <1>4, <1>5, <1>6, <1>7, <1>8, <1>9, <1>10, TransitionKeepsHands
     DEF Ask, Serve

LEMMA HandInvHolds == Spec => [](CallsInv /\ HandInv) /\ SoldCodesAreNotResold
<1>1. Init => HandInv
  BY DEF Init, HandInv, StockHasNoOrder, LocksComeLate, LocksHold, MovesOnce,
         WritesBeforeMoving, ReservedCodesAreHeld, AttachedCodesAreHeld, At, Free,
         NewRun, NewJob
<1>2. CallsInv /\ HandInv /\ [Next]_vars => HandInv' /\ (HandsOver \/ UNCHANGED vars)
  <2> SUFFICES ASSUME CallsInv, HandInv, [Next]_vars
               PROVE  HandInv' /\ (HandsOver \/ UNCHANGED vars)
    OBVIOUS
  <2>1. CASE UNCHANGED vars
    BY <2>1 DEF vars, HandInv, StockHasNoOrder, LocksComeLate, LocksHold, MovesOnce,
                WritesBeforeMoving, ReservedCodesAreHeld, AttachedCodesAreHeld, At, Held,
                Released
  <2>2. CASE Next
    BY <2>2, CheckoutKeepsHands, RequestKeepsHands DEF Next
  <2> QED
    BY <2>1, <2>2
<1>3. CallsInv /\ HandInv /\ [Next]_vars => [HandsOver]_vars
  BY <1>2
<1>4. Spec => [][HandsOver]_vars
  BY <1>1, <1>2, <1>3, CallsInvHolds, PTL DEF Spec
<1> QED
  BY <1>1, <1>2, <1>4, CallsInvHolds, PTL DEF Spec, SoldCodesAreNotResold, HandsOver

(* No checkout prints a code on an order's items that another order owns,  *)
(* however many checkouts lock codes at once: a printed code is its        *)
(* order's until a cancel of that order has released it.                   *)
THEOREM AttachedCodesStayHeld == Spec => []AttachedCodesAreHeld
<1>1. HandInv => AttachedCodesAreHeld
  BY DEF HandInv
<1> QED
  BY <1>1, HandInvHolds, PTL

(* A code changes hands only through the stock, and never after it is sold. *)
THEOREM SoldCodesStaySold == Spec => SoldCodesAreNotResold
  BY HandInvHolds, PTL

-----------------------------------------------------------------------------
(* What an order may take: its marking codes never exceed its items, and   *)
(* the stock shown for a marked variant never exceeds its codes unless a   *)
(* create call still owes a synchronisation.                               *)

(* Before the transaction of a create call commits. *)
Early == Fresh \cup {"reserve"}

(* The codes of one variant a create call has locked. *)
LockedOf(o, v) == {c \in run[o].codes : VariantOf[c] = v}

(* What a create call has locked stays within the lines it has read, and   *)
(* the loop visits a variant once; a call writes only the stock of         *)
(* unmarked variants back.                                                 *)
RunFits(o) ==
  /\ run[o].pc \in Early => run[o].unsynced = {}
  /\ At(o, "reserve") => /\ o \in Life!Placed
                         /\ \A c \in run[o].codes : VariantOf[c] \notin run[o].todo
                         /\ run[o].todo \subseteq Items(run[o].lines)
  /\ \A c \in run[o].codes : VariantOf[c] \in Items(run[o].lines)
  /\ \A v \in Variants : Cardinality(LockedOf(o, v)) <= run[o].lines[v]
  /\ \A p \in run[o].saw : p[1] \notin Marked

RunsFit == \A o \in Orders : RunFits(o)

JobsSkipMarked == \A r \in Requests : \A p \in job[r].saw : p[1] \notin Marked

(* A code outside the stock is one its order has locked and committed. *)
CodesAreKnown ==
  \A c \in Codes : code[c].order # "none" =>
    /\ code[c].order \in Life!Placed
    /\ run[code[c].order].pc \notin Early
    /\ c \in run[code[c].order].codes

SupplyInv == RunsFit /\ JobsSkipMarked /\ CodesAreKnown /\ MarkedStockIsNotOverstated

Whole == Life!TypeOK /\ CallsInv /\ HandInv

(* An order that has been placed stays so. *)
LEMMA PlacedStays ==
  ASSUME Life!TypeOK, [Life!Next]_(Life!vars)
  PROVE  Life!Placed \subseteq Life!Placed'
<1>1. ASSUME NEW o \in Orders, Life!ReadNumber(o) \/ Life!Insert(o) \/ Life!GiveUp(o)
      PROVE  Life!Placed \subseteq Life!Placed'
  BY <1>1 DEF Life!ReadNumber, Life!Insert, Life!GiveUp, Life!Placed, Life!TypeOK
<1>2. ASSUME NEW r \in Requests, Life!Commit(r) PROVE Life!Placed \subseteq Life!Placed'
  <2>1. req[r] \in Life!Write
    BY <1>2 DEF Life!Commit, Life!CommitAs, Life!TypeOK
  <2>2. req[r].entry.status # "absent"
    BY <2>1 DEF Life!Write, Life!Entries, Life!Entry, Life!OrderStatus
  <2> QED
    BY <1>2, <2>2 DEF Life!Commit, Life!CommitAs, Life!Placed, Life!TypeOK
<1> QED
  BY <1>1, <1>2 DEF Life!Next, Life!vars, Life!Placed, Life!StartUpdate, Life!StartCancel,
                    Life!Abandon

LEMMA CodesAreFinite ==
  ASSUME NEW s \in SUBSET Codes
  PROVE  IsFiniteSet(s) /\ Cardinality(s) \in Nat
  BY FulfilmentAssumption, FS_Subset, FS_CardinalityType DEF FulfilmentAssumption

(* A step of a checkout that locks nothing. *)
LEMMA QuietRun ==
  ASSUME CallsInv, CallsInv', NEW o \in Orders, RunFits(o), Life!Placed \subseteq Life!Placed',
         \/ run'[o].codes = {}
         \/ run'[o].codes = run[o].codes /\ run'[o].lines = run[o].lines,
         run'[o].pc \in Early => run'[o].unsynced = {},
         run'[o].pc = "reserve" => /\ o \in Life!Placed'
                                   /\ run'[o].codes = {}
                                   /\ run'[o].todo \subseteq Items(run'[o].lines),
         \A p \in run'[o].saw : p[1] \notin Marked
  PROVE  RunFits(o)'
<1>1. run'[o].lines \in [Variants -> Nat]
  BY DEF CallsInv, CallsTypeOK, Run
<1>2. CASE run'[o].codes = {}
  <2>1. \A v \in Variants : LockedOf(o, v)' = {}
    BY <1>2 DEF LockedOf
  <2>2. \A v \in Variants : Cardinality(LockedOf(o, v)') <= run'[o].lines[v]
    <3> SUFFICES ASSUME NEW v \in Variants PROVE Cardinality(LockedOf(o, v)') <= run'[o].lines[v]
      OBVIOUS
    <3>1. Cardinality(LockedOf(o, v)') = 0
      BY <2>1, FS_EmptySet
    <3>2. run'[o].lines[v] \in Nat
      BY <1>1
    <3> QED
      BY <3>1, <3>2
  <2> QED
    BY <1>2, <2>2 DEF RunFits, At
<1>3. CASE run'[o].codes = run[o].codes /\ run'[o].lines = run[o].lines
  <2>1. \A v \in Variants : LockedOf(o, v)' = LockedOf(o, v)
    BY <1>3 DEF LockedOf
  <2>2. \A c \in run'[o].codes : VariantOf[c] \in Items(run'[o].lines)
    BY <1>3 DEF RunFits
  <2>3. \A v \in Variants : Cardinality(LockedOf(o, v)') <= run'[o].lines[v]
    BY <1>3, <2>1 DEF RunFits
  <2> QED
    BY <1>3, <2>2, <2>3 DEF RunFits, At
<1> QED
  BY <1>2, <1>3

(* A step that takes no code out of the stock, raises no marked stock and  *)
(* settles no debt of a create call.                                       *)
LEMMA NothingMoreIsShown ==
  ASSUME MarkedStockIsNotOverstated,
         \A v \in Marked : /\ stock'[v] = stock[v]
                           /\ InStockOf(v) \subseteq InStockOf(v)'
                           /\ stock[v] \in Nat,
         \A p \in Orders : run[p].unsynced \subseteq run'[p].unsynced
  PROVE  MarkedStockIsNotOverstated'
<1> SUFFICES ASSUME NEW v \in Marked, stock'[v] > Cardinality(InStockOf(v)')
             PROVE  \E p \in Orders : v \in run'[p].unsynced
  BY DEF MarkedStockIsNotOverstated
<1>1. InStockOf(v)' \in SUBSET Codes
  BY DEF InStockOf
<1>2. /\ Cardinality(InStockOf(v)) <= Cardinality(InStockOf(v)')
      /\ Cardinality(InStockOf(v)) \in Nat /\ Cardinality(InStockOf(v)') \in Nat
  BY <1>1, CodesAreFinite, FS_Subset
<1>3. stock[v] > Cardinality(InStockOf(v))
  BY <1>2
<1> QED
  BY <1>3 DEF MarkedStockIsNotOverstated

(* A synchronisation shows what there is. *)
LEMMA SyncShowsTheCodes ==
  ASSUME CallsInv, MarkedStockIsNotOverstated, NEW w \in Variants, SyncVariantStock(w),
         UNCHANGED code,
         \A p \in Orders : run[p].unsynced \ {w} \subseteq run'[p].unsynced
  PROVE  MarkedStockIsNotOverstated'
<1> SUFFICES ASSUME NEW v \in Marked, stock'[v] > Cardinality(InStockOf(v)')
             PROVE  \E p \in Orders : v \in run'[p].unsynced
  BY DEF MarkedStockIsNotOverstated
<1>1. InStockOf(v)' = InStockOf(v) /\ InStockOf(v) \in SUBSET Codes
  BY DEF InStockOf
<1>2. Cardinality(InStockOf(v)) \in Nat
  BY <1>1, CodesAreFinite
<1>3. v \in Variants /\ stock \in [Variants -> Nat]
  BY FulfilmentAssumption DEF FulfilmentAssumption, CallsInv, CallsTypeOK
<1>4. v # w
  BY <1>1, <1>2, <1>3 DEF SyncVariantStock
<1>5. stock[v] > Cardinality(InStockOf(v))
  BY <1>1, <1>3, <1>4 DEF SyncVariantStock
<1> QED
  BY <1>4, <1>5 DEF MarkedStockIsNotOverstated

(* A step of a checkout that leaves the codes alone. *)
LEMMA QuietStep ==
  ASSUME Whole, CallsInv', SupplyInv, NEW o \in Orders, UNCHANGED <<code, job>>,
         Life!Placed \subseteq Life!Placed', RunFits(o)',
         \A p \in Orders \ {o} : run'[p] = run[p],
         run[o].pc \notin Early => run'[o].pc \notin Early /\ run'[o].codes = run[o].codes,
         MarkedStockIsNotOverstated'
  PROVE  SupplyInv'
<1>1. RunsFit'
  <2> SUFFICES ASSUME NEW p \in Orders, p # o PROVE RunFits(p)'
    BY DEF RunsFit
  <2>1. RunFits(p) /\ run'[p] = run[p]
    BY DEF SupplyInv, RunsFit
  <2>2. \A v : LockedOf(p, v)' = LockedOf(p, v)
    BY <2>1 DEF LockedOf
  <2> QED
    BY <2>1, <2>2 DEF RunFits, At
<1>2. CodesAreKnown'
  <2> SUFFICES ASSUME NEW c \in Codes, code[c].order # "none"
               PROVE  /\ code[c].order \in Life!Placed'
                      /\ run'[code[c].order].pc \notin Early
                      /\ c \in run'[code[c].order].codes
    BY DEF CodesAreKnown
  <2>1. /\ code[c].order \in Life!Placed
        /\ run[code[c].order].pc \notin Early
        /\ c \in run[code[c].order].codes
    BY DEF SupplyInv, CodesAreKnown
  <2>2. code[c].order \in Orders
    BY <2>1 DEF Life!Placed
  <2> QED
    BY <2>1, <2>2
<1> QED
  BY <1>1, <1>2 DEF SupplyInv, JobsSkipMarked

LEMMA LockKeepsSupply ==
  ASSUME Whole, CallsInv', SupplyInv, NEW o \in Orders, NEW v \in Variants, LockCodes(o, v),
         Life!Placed \subseteq Life!Placed'
  PROVE  SupplyInv'
<1>0. run \in [Orders -> Run] /\ run[o] \in Run /\ run'[o] \in Run
  BY DEF Whole, CallsInv, CallsTypeOK
<1>1. PICK s \in SUBSET InStockOf(v) :
        /\ Cardinality(s) <= run[o].lines[v]
        /\ run' = [run EXCEPT ![o].todo = @ \ {v}, ![o].codes = @ \cup s]
  <2>1. run[o].lines[v] \in Nat
    BY <1>0 DEF Run
  <2>2. /\ InStockOf(v) \ LockedBy(Orders) \in SUBSET Codes
        /\ Cardinality(InStockOf(v) \ LockedBy(Orders)) \in Nat
    BY CodesAreFinite DEF InStockOf
  <2> DEFINE n == IF Cardinality(InStockOf(v) \ LockedBy(Orders)) < run[o].lines[v]
                  THEN Cardinality(InStockOf(v) \ LockedBy(Orders)) ELSE run[o].lines[v]
  <2>3. n <= run[o].lines[v]
    BY <2>1, <2>2
  <2>4. PICK s \in SUBSET (InStockOf(v) \ LockedBy(Orders)) :
          /\ Cardinality(s) = n
          /\ run' = [run EXCEPT ![o].todo = @ \ {v}, ![o].codes = @ \cup s]
    BY DEF LockCodes
  <2> HIDE DEF n
  <2> QED
    BY <2>3, <2>4
<1>2. /\ run[o].pc = "reserve" /\ v \in run[o].todo
      /\ run'[o].pc = "reserve" /\ run'[o].todo = run[o].todo \ {v}
      /\ run'[o].lines = run[o].lines /\ run'[o].codes = run[o].codes \cup s
      /\ run'[o].unsynced = run[o].unsynced /\ run'[o].saw = run[o].saw
      /\ \A p \in Orders \ {o} : run'[p] = run[p]
      /\ UNCHANGED <<code, stock, job>>
  BY <1>0, <1>1 DEF LockCodes, At, Run
<1>3. \A c \in s : c \in Codes /\ VariantOf[c] = v
  BY DEF InStockOf
<1>4. RunFits(o)
  BY DEF SupplyInv, RunsFit
<1>5. ASSUME NEW w \in Variants PROVE Cardinality(LockedOf(o, w)') <= run'[o].lines[w]
  <2>1. CASE w = v
    <3>1. LockedOf(o, v)' = s
      BY <1>2, <1>3, <1>4 DEF LockedOf, RunFits, At
    <3> QED
      BY <1>1, <1>2, <2>1, <3>1
  <2>2. CASE w # v
    <3>1. LockedOf(o, w)' = LockedOf(o, w)
      BY <1>2, <1>3, <2>2 DEF LockedOf
    <3> QED
      BY <1>2, <1>4, <3>1 DEF RunFits
  <2> QED
    BY <2>1, <2>2
<1>6. v \in Items(run[o].lines)
  BY <1>2, <1>4 DEF RunFits, At
<1>7. RunFits(o)'
  <2>1. o \in Life!Placed'
    BY <1>2, <1>4 DEF RunFits, At
  <2>2. \A c \in run'[o].codes : /\ VariantOf[c] \notin run'[o].todo
                                 /\ VariantOf[c] \in Items(run'[o].lines)
    BY <1>2, <1>3, <1>4, <1>6 DEF RunFits, At
  <2>3. /\ run'[o].pc \in Early => run'[o].unsynced = {}
        /\ run'[o].todo \subseteq Items(run'[o].lines)
        /\ \A p \in run'[o].saw : p[1] \notin Marked
    BY <1>2, <1>4 DEF RunFits, At, Early
  <2> QED
    BY <1>5, <2>1, <2>2, <2>3 DEF RunFits
<1>8. MarkedStockIsNotOverstated'
  BY <1>2 DEF SupplyInv, MarkedStockIsNotOverstated, InStockOf
<1>9. run[o].pc \in Early
  BY <1>2 DEF Early
<1> QED
  BY <1>2, <1>7, <1>8, <1>9, QuietStep

LEMMA CommitKeepsSupply ==
  ASSUME Whole, CallsInv', SupplyInv, NEW o \in Orders, CommitCodes(o),
         Life!Placed \subseteq Life!Placed'
  PROVE  SupplyInv'
<1>0. run \in [Orders -> Run] /\ run[o] \in Run
  BY DEF Whole, CallsInv, CallsTypeOK
<1>1. /\ run[o].pc = "reserve" /\ run'[o].pc = "sync"
      /\ run'[o].lines = run[o].lines /\ run'[o].codes = run[o].codes
      /\ run'[o].unsynced = Items(run[o].lines) /\ run'[o].saw = run[o].saw
      /\ \A p \in Orders \ {o} : run'[p] = run[p]
      /\ UNCHANGED <<stock, job>>
  BY <1>0 DEF CommitCodes, At, Run
<1>2. \A c \in Codes :
        code'[c] = IF c \in run[o].codes THEN [status |-> "reserved", order |-> o] ELSE code[c]
  BY DEF CommitCodes, ReserveCodes
<1>3. RunFits(o)
  BY DEF SupplyInv, RunsFit
<1>4. RunsFit'
  <2> SUFFICES ASSUME NEW p \in Orders PROVE RunFits(p)'
    BY DEF RunsFit
  <2>1. RunFits(p) /\ \A v : LockedOf(p, v)' = LockedOf(p, v)
    BY <1>1 DEF SupplyInv, RunsFit, LockedOf
  <2>2. CASE p = o
    BY <1>1, <2>1, <2>2 DEF RunFits, At, Early, Fresh
  <2>3. CASE p # o
    BY <1>1, <2>1, <2>3 DEF RunFits, At
  <2> QED
    BY <2>2, <2>3
<1>5. CodesAreKnown'
  <2> SUFFICES ASSUME NEW c \in Codes, code'[c].order # "none"
               PROVE  /\ code'[c].order \in Life!Placed'
                      /\ run'[code'[c].order].pc \notin Early
                      /\ c \in run'[code'[c].order].codes
    BY DEF CodesAreKnown
  <2>1. CASE c \in run[o].codes
    <3>1. code'[c].order = o /\ o \in Life!Placed
      BY <1>1, <1>2, <1>3, <2>1 DEF RunFits, At
    <3> QED
      BY <1>1, <2>1, <3>1 DEF Early, Fresh
  <2>2. CASE c \notin run[o].codes
    <3>1. /\ code'[c] = code[c]
          /\ code[c].order \in Life!Placed /\ code[c].order \in Orders
          /\ run[code[c].order].pc \notin Early
          /\ c \in run[code[c].order].codes
      BY <1>2, <2>2 DEF SupplyInv, CodesAreKnown, Life!Placed
    <3>2. code[c].order # o
      BY <1>1, <3>1 DEF Early
    <3> QED
      BY <1>1, <3>1, <3>2
  <2> QED
    BY <2>1, <2>2
<1>6. MarkedStockIsNotOverstated'
  <2> SUFFICES ASSUME NEW v \in Marked, stock'[v] > Cardinality(InStockOf(v)'),
                      v \notin Items(run[o].lines)
               PROVE  \E p \in Orders : v \in run'[p].unsynced
    BY <1>1 DEF MarkedStockIsNotOverstated
  <2>1. \A c \in run[o].codes : VariantOf[c] # v
    BY <1>3 DEF RunFits
  <2>2. InStockOf(v)' = InStockOf(v)
    BY <1>2, <2>1 DEF InStockOf
  <2>3. stock[v] > Cardinality(InStockOf(v))
    BY <1>1, <2>2
  <2>4. PICK p \in Orders : v \in run[p].unsynced
    BY <2>3 DEF SupplyInv, MarkedStockIsNotOverstated
  <2>5. p # o
    BY <1>1, <1>3, <2>4 DEF RunFits, Early
  <2> QED
    BY <1>1, <2>4, <2>5
<1> QED
  BY <1>1, <1>4, <1>5, <1>6 DEF SupplyInv, JobsSkipMarked

LEMMA CheckoutKeepsSupply ==
  ASSUME Whole, CallsInv', SupplyInv, NEW o \in Orders,
         ReadCart(o) \/ Proceed(o) \/ CheckoutCatches(o) \/ CheckoutDies(o),
         Life!Placed \subseteq Life!Placed'
  PROVE  SupplyInv'
<1>0. /\ run \in [Orders -> Run] /\ run[o] \in Run /\ CallsInv
      /\ stock \in [Variants -> Nat] /\ Marked \subseteq Variants
  BY FulfilmentAssumption DEF Whole, CallsInv, CallsTypeOK, FulfilmentAssumption
<1>1. RunFits(o) /\ (run[o].pc \in Fresh => run[o].codes = {})
  BY DEF SupplyInv, RunsFit, Whole, HandInv, LocksComeLate
<1>2. ASSUME UNCHANGED code, \A v \in Marked : stock'[v] = stock[v],
             \A p \in Orders : run[p].unsynced \subseteq run'[p].unsynced
      PROVE  MarkedStockIsNotOverstated'
  <2>1. \A v \in Marked : InStockOf(v) \subseteq InStockOf(v)' /\ stock[v] \in Nat
    BY <1>0, <1>2 DEF InStockOf
  <2> QED
    BY <1>2, <2>1, NothingMoreIsShown DEF SupplyInv
<1>3. CASE ReadCart(o)
  <2>1. /\ run[o].pc = "idle" /\ run'[o].pc = "check" /\ UNCHANGED <<code, stock, job>>
        /\ run'[o].codes = {} /\ run'[o].unsynced = run[o].unsynced
        /\ run'[o].saw = run[o].saw /\ \A p \in Orders \ {o} : run'[p] = run[p]
    BY <1>0, <1>1, <1>3 DEF ReadCart, At, Fresh, Run
  <2>2. RunFits(o)' /\ run[o].pc \in Early
    BY <1>0, <1>1, <2>1, QuietRun DEF RunFits, Early, Fresh
  <2> QED
    BY <1>0, <1>2, <2>1, <2>2, QuietStep
<1>4. ASSUME NEW v \in Variants, CheckItem(o, v) PROVE SupplyInv'
  <2>1. run[o].pc = "check" /\ run[o].codes = {} /\ UNCHANGED <<code, stock, job>>
    BY <1>1, <1>4 DEF CheckItem, At, Fresh
  <2>2. Goto(o, "rejected") \/ Through(o, v, "number")
    BY <1>4 DEF CheckItem
  <2>3. /\ run'[o].codes = {} /\ run'[o].unsynced = run[o].unsynced
        /\ run'[o].pc \in {"check", "number", "rejected"} /\ run'[o].saw \subseteq run[o].saw
        /\ \A p \in Orders \ {o} : run'[p] = run[p]
    <3>1. CASE Goto(o, "rejected")
      BY <1>0, <2>1, <3>1 DEF Goto, Run
    <3>2. CASE Through(o, v, "number")
      BY <1>0, <2>1, <3>2 DEF Through, Run
    <3> QED
      BY <2>2, <3>1, <3>2
  <2>4. RunFits(o)' /\ run[o].pc \in Early
    BY <1>0, <1>1, <2>1, <2>3, QuietRun DEF RunFits, Early, Fresh
  <2> QED
    BY <1>0, <1>2, <2>1, <2>3, <2>4, QuietStep
<1>5. CASE ReadNumber(o) \/ InsertConflict(o)
  <2>1. /\ run[o].pc \in {"number", "insert"} /\ run[o].codes = {}
        /\ UNCHANGED <<code, stock, job>> /\ (Goto(o, "insert") \/ Goto(o, "rejected"))
    BY <1>1, <1>5 DEF ReadNumber, InsertConflict, At, Fresh
  <2>2. /\ run'[o].pc \in {"insert", "rejected"}
        /\ run'[o].codes = {} /\ run'[o].unsynced = run[o].unsynced
        /\ run'[o].saw = run[o].saw /\ \A p \in Orders \ {o} : run'[p] = run[p]
    BY <1>0, <2>1 DEF Goto, Run
  <2>3. RunFits(o)' /\ run[o].pc \in Early
    BY <1>0, <1>1, <2>1, <2>2, QuietRun DEF RunFits, Early, Fresh
  <2> QED
    BY <1>0, <1>2, <2>1, <2>2, <2>3, QuietStep
<1>6. CASE Insert(o)
  <2>1. /\ run[o].pc = "insert" /\ run'[o].pc = "reserve" /\ UNCHANGED <<code, stock, job>>
        /\ run'[o].codes = {} /\ run'[o].unsynced = run[o].unsynced
        /\ run'[o].todo = Items(run'[o].lines)
        /\ run'[o].saw = run[o].saw /\ \A p \in Orders \ {o} : run'[p] = run[p]
    BY <1>0, <1>1, <1>6 DEF Insert, GotoLoop, At, Fresh, Run
  <2>2. o \in Life!Placed'
    BY <1>6 DEF Insert, Life!Insert, Life!Placed, Whole, Life!TypeOK
  <2>3. RunFits(o)' /\ run[o].pc \in Early
    BY <1>0, <1>1, <2>1, <2>2, QuietRun DEF RunFits, Early, Fresh
  <2> QED
    BY <1>0, <1>2, <2>1, <2>3, QuietStep
<1>7. ASSUME NEW v \in Variants, SyncStock(o, v) PROVE SupplyInv'
  <2>1. /\ run[o].pc = "sync" /\ run'[o].pc \in {"sync", "save", "clear"}
        /\ UNCHANGED <<code, job>>
        /\ run'[o].codes = run[o].codes /\ run'[o].lines = run[o].lines
        /\ run'[o].unsynced = run[o].unsynced \ {v}
        /\ run'[o].saw = run[o].saw /\ \A p \in Orders \ {o} : run'[p] = run[p]
    BY <1>0, <1>7 DEF SyncStock, At, Run
  <2>2. RunFits(o)' /\ run'[o].pc \notin Early
    BY <1>0, <1>1, <2>1, QuietRun DEF RunFits, Early, Fresh
  <2>3. MarkedStockIsNotOverstated'
    BY <1>0, <1>7, <2>1, SyncShowsTheCodes DEF SyncStock, SupplyInv
  <2> QED
    BY <1>0, <2>1, <2>2, <2>3, QuietStep
<1>8. CASE SaveItems(o) \/ ClearCart(o)
  <2>1. /\ run[o].pc \in {"save", "clear"} /\ run'[o].pc \in {"clear", "debit"}
        /\ UNCHANGED <<code, stock, job>>
        /\ run'[o].codes = run[o].codes /\ run'[o].lines = run[o].lines
        /\ run'[o].unsynced = run[o].unsynced
        /\ run'[o].saw = run[o].saw /\ \A p \in Orders \ {o} : run'[p] = run[p]
    BY <1>0, <1>8 DEF SaveItems, ClearCart, Goto, GotoLoop, At, Run
  <2>2. RunFits(o)' /\ run'[o].pc \notin Early
    BY <1>0, <1>1, <2>1, QuietRun DEF RunFits, Early, Fresh
  <2> QED
    BY <1>0, <1>2, <2>1, <2>2, QuietStep
<1>9. ASSUME NEW v \in Variants, DebitRead(o, v) PROVE SupplyInv'
  <2>1. /\ run[o].pc = "debit" /\ run'[o].pc \in {"debit", "done"}
        /\ UNCHANGED <<code, stock, job>>
        /\ run'[o].codes = run[o].codes /\ run'[o].lines = run[o].lines
        /\ run'[o].unsynced = run[o].unsynced
        /\ \A p \in Orders \ {o} : run'[p] = run[p]
    BY <1>0, <1>9 DEF DebitRead, Through, At, Run
  <2>2. \A p \in run'[o].saw : p[1] \notin Marked
    BY <1>0, <1>9 DEF DebitRead, Through, Run
  <2>3. RunFits(o)' /\ run'[o].pc \notin Early
    BY <1>0, <1>1, <2>1, <2>2, QuietRun DEF RunFits, Early, Fresh
  <2> QED
    BY <1>0, <1>2, <2>1, <2>3, QuietStep
<1>10. ASSUME NEW q \in run[o].saw, DebitWrite(o, q[1], q[2]) PROVE SupplyInv'
  <2>1. /\ run[o].pc = "debit" /\ run'[o].pc \in {"debit", "done"}
        /\ UNCHANGED <<code, job>> /\ run'[o].saw = {}
        /\ run'[o].codes = run[o].codes /\ run'[o].lines = run[o].lines
        /\ run'[o].unsynced = run[o].unsynced
        /\ \A p \in Orders \ {o} : run'[p] = run[p]
    BY <1>0, <1>10 DEF DebitWrite, Through, At, Run
  <2>2. q[1] \notin Marked
    BY <1>1 DEF RunFits
  <2>3. \A v \in Marked : stock'[v] = stock[v]
    BY <1>0, <1>10, <2>2 DEF DebitWrite
  <2>4. RunFits(o)' /\ run'[o].pc \notin Early
    BY <1>0, <1>1, <2>1, QuietRun DEF RunFits, Early, Fresh
  <2> QED
    BY <1>0, <1>2, <2>1, <2>3, <2>4, QuietStep
<1>11. CASE CheckoutCatches(o)
  <2>1. /\ run[o].pc \in {"reserve", "sync", "save"} /\ run'[o].pc = "clear"
        /\ UNCHANGED <<code, stock, job>>
        /\ run'[o].codes = IF run[o].pc = "reserve" THEN {} ELSE run[o].codes
        /\ run'[o].lines = run[o].lines
        /\ run'[o].unsynced = run[o].unsynced
        /\ run'[o].saw = run[o].saw /\ \A p \in Orders \ {o} : run'[p] = run[p]
    BY <1>0, <1>11 DEF CheckoutCatches, At, Run
  <2>2. /\ RunFits(o)' /\ run'[o].pc \notin Early
        /\ run[o].pc \notin Early => run'[o].codes = run[o].codes
    BY <1>0, <1>1, <2>1, QuietRun DEF RunFits, Early, Fresh
  <2> QED
    BY <1>0, <1>2, <2>1, <2>2, QuietStep
<1>12. CASE CheckoutDies(o)
  <2>1. /\ run'[o].pc = "failed" /\ UNCHANGED <<code, stock, job>>
        /\ run'[o].codes = run[o].codes /\ run'[o].lines = run[o].lines
        /\ run'[o].unsynced = run[o].unsynced
        /\ run'[o].saw = run[o].saw /\ \A p \in Orders \ {o} : run'[p] = run[p]
    BY <1>0, <1>12 DEF CheckoutDies, Goto, Run
  <2>2. RunFits(o)' /\ run'[o].pc \notin Early
    BY <1>0, <1>1, <2>1, QuietRun DEF RunFits, Early, Fresh
  <2> QED
    BY <1>0, <1>2, <2>1, <2>2, QuietStep
<1> QED
  BY <1>3, <1>4, <1>5, <1>6, <1>7, <1>8, <1>9, <1>10, <1>11, <1>12,
     LockKeepsSupply, CommitKeepsSupply DEF Proceed

LEMMA RequestKeepsSupply ==
  ASSUME Whole, CallsInv', SupplyInv, NEW r \in Requests,
         Ask(r) \/ Serve(r) \/ JobCatches(r) \/ JobDies(r),
         Life!Placed \subseteq Life!Placed'
  PROVE  SupplyInv'
<1>0. /\ job \in [Requests -> Job] /\ job[r] \in Job /\ CallsInv /\ UNCHANGED run
      /\ stock \in [Variants -> Nat] /\ Marked \subseteq Variants
  BY FulfilmentAssumption
     DEF Whole, CallsInv, CallsTypeOK, FulfilmentAssumption, Ask, Serve, JobCatches, JobDies,
         UpdateRead, CancelRead, TransitionCodes, FindVariants, WriteRow, CreditRead, Resync,
         CreditWrite
<1>1. RunsFit'
  <2> SUFFICES ASSUME NEW o \in Orders PROVE RunFits(o)'
    BY DEF RunsFit
  <2>1. RunFits(o) /\ \A v : LockedOf(o, v)' = LockedOf(o, v)
    BY <1>0 DEF SupplyInv, RunsFit, LockedOf
  <2> QED
    BY <1>0, <2>1 DEF RunFits, At
<1>2. ASSUME UNCHANGED code, JobsSkipMarked', MarkedStockIsNotOverstated' PROVE SupplyInv'
  <2>1. CodesAreKnown'
    BY <1>0, <1>2 DEF SupplyInv, CodesAreKnown
  <2> QED
    BY <1>1, <1>2, <2>1 DEF SupplyInv
<1>3. ASSUME \A v \in Marked : stock'[v] = stock[v] /\ InStockOf(v) \subseteq InStockOf(v)'
      PROVE  MarkedStockIsNotOverstated'
  BY <1>0, <1>3, NothingMoreIsShown DEF SupplyInv
<1>4. ASSUME \A q \in Requests \ {r} : job'[q] = job[q],
             \A p \in job'[r].saw : p[1] \notin Marked
      PROVE  JobsSkipMarked'
  BY <1>4 DEF SupplyInv, JobsSkipMarked
<1>5. \A p \in job[r].saw : p[1] \notin Marked
  BY DEF SupplyInv, JobsSkipMarked
<1>6. ASSUME NEW o \in Orders, NEW s \in OrderStatus, UpdateRead(r, o, s) PROVE SupplyInv'
  <2>1. /\ UNCHANGED <<code, stock>> /\ job'[r].saw = job[r].saw
        /\ \A q \in Requests \ {r} : job'[q] = job[q]
    BY <1>0, <1>6 DEF UpdateRead, Job
  <2> QED
    BY <1>2, <1>3, <1>4, <1>5, <2>1 DEF InStockOf
<1>7. ASSUME NEW o \in Orders, NEW actor \in Life!Actors, CancelRead(r, o, actor)
      PROVE  SupplyInv'
  <2>1. /\ UNCHANGED <<code, stock>> /\ job'[r].saw = job[r].saw
        /\ \A q \in Requests \ {r} : job'[q] = job[q]
    BY <1>0, <1>7 DEF CancelRead, Job
  <2> QED
    BY <1>2, <1>3, <1>4, <1>5, <2>1 DEF InStockOf
<1>8. ASSUME NEW v \in Variants, CreditRead(r, v) PROVE SupplyInv'
  <2>1. /\ UNCHANGED <<code, stock>>
        /\ \A q \in Requests \ {r} : job'[q] = job[q]
        /\ \A p \in job'[r].saw : p[1] \notin Marked
    BY <1>0, <1>8 DEF CreditRead, JobThrough, Job
  <2> QED
    BY <1>2, <1>3, <1>4, <2>1 DEF InStockOf
<1>9. ASSUME NEW p \in job[r].saw, CreditWrite(r, p[1], p[2]) PROVE SupplyInv'
  <2>1. /\ UNCHANGED code /\ job'[r].saw = {}
        /\ \A q \in Requests \ {r} : job'[q] = job[q]
    BY <1>0, <1>9 DEF CreditWrite, JobThrough, Job
  <2>2. p[1] \notin Marked
    BY <1>5
  <2>3. \A v \in Marked : stock'[v] = stock[v]
    BY <1>0, <1>9, <2>2 DEF CreditWrite
  <2> QED
    BY <1>2, <1>3, <1>4, <2>1, <2>3 DEF InStockOf
<1>10. CASE TransitionCodes(r)
  <2>1. /\ UNCHANGED stock /\ job'[r].saw = job[r].saw
        /\ \A q \in Requests \ {r} : job'[q] = job[q]
    BY <1>0, <1>10 DEF TransitionCodes, Job
  <2>2. job[r].to \in {"in_stock", "sold", "returned"}
    BY <1>0, <1>10 DEF TransitionCodes, JobAt, CallsInv, JobsKnow, Job
  <2>3. \A c \in Codes :
          code'[c] = IF c \in Affected(job[r]) THEN Moved(job[r]) ELSE code[c]
    BY <1>10 DEF TransitionCodes
  <2>4. \A c \in Codes : /\ code'[c].order \in {code[c].order, "none"}
                         /\ code[c].status = "in_stock" => code'[c] = code[c]
    BY <2>2, <2>3 DEF Affected, Moved, Free, CodesFrom
  <2>5. CodesAreKnown'
    <3> SUFFICES ASSUME NEW c \in Codes, code'[c].order # "none"
                 PROVE  /\ code'[c].order \in Life!Placed'
                        /\ run'[code'[c].order].pc \notin Early
                        /\ c \in run'[code'[c].order].codes
      BY DEF CodesAreKnown
    <3>1. code'[c].order = code[c].order
      BY <2>4
    <3> QED
      BY <1>0, <3>1 DEF SupplyInv, CodesAreKnown
  <2>6. ASSUME NEW v \in Marked PROVE InStockOf(v) \subseteq InStockOf(v)'
    <3> SUFFICES ASSUME NEW c \in Codes, VariantOf[c] = v, code[c].status = "in_stock"
                 PROVE  code'[c].status = "in_stock"
      BY DEF InStockOf
    <3> QED
      BY <2>4
  <2> QED
    BY <1>1, <1>3, <1>4, <1>5, <2>1, <2>5, <2>6 DEF SupplyInv
<1>11. CASE FindVariants(r) \/ WriteRow(r) \/ JobCatches(r) \/ JobDies(r)
  <2>1. /\ UNCHANGED <<code, stock>> /\ job'[r].saw = job[r].saw
        /\ \A q \in Requests \ {r} : job'[q] = job[q]
    BY <1>0, <1>11 DEF FindVariants, WriteRow, JobCatches, JobDies, JobGoto, Job
  <2> QED
    BY <1>2, <1>3, <1>4, <1>5, <2>1 DEF InStockOf
<1>12. ASSUME NEW v \in Variants, Resync(r, v) PROVE SupplyInv'
  <2>1. /\ UNCHANGED code /\ job'[r].saw = {}
        /\ \A q \in Requests \ {r} : job'[q] = job[q]
    BY <1>0, <1>12 DEF Resync, JobThrough, Job
  <2>2. MarkedStockIsNotOverstated'
    BY <1>0, <1>12, <2>1, SyncShowsTheCodes DEF Resync, SupplyInv
  <2> QED
    BY <1>2, <1>4, <2>1, <2>2
<1> QED
  BY <1>6, <1>7, <1>8, <1>9, <1>10, <1>11, <1>12 DEF Ask, Serve

LEMMA SupplyInvHolds == Spec => [](Whole /\ SupplyInv)
<1>1. Init => SupplyInv
  <2> SUFFICES ASSUME Init PROVE SupplyInv
    OBVIOUS
  <2>1. RunsFit
    <3> SUFFICES ASSUME NEW o \in Orders PROVE RunFits(o)
      BY DEF RunsFit
    <3>1. run[o] = NewRun
      BY DEF Init
    <3>2. ASSUME NEW v \in Variants PROVE Cardinality(LockedOf(o, v)) <= run[o].lines[v]
      <4>1. LockedOf(o, v) = {} /\ run[o].lines[v] = 0
        BY <3>1 DEF LockedOf, NewRun, NoLines
      <4> QED
        BY <4>1, FS_EmptySet
    <3> QED
      BY <3>1, <3>2 DEF RunFits, NewRun, At
  <2>2. JobsSkipMarked /\ CodesAreKnown
    BY DEF Init, JobsSkipMarked, CodesAreKnown, NewJob, Free
  <2>3. MarkedStockIsNotOverstated
    <3> SUFFICES ASSUME NEW v \in Marked PROVE ~ (stock[v] > Cardinality(InStockOf(v)))
      BY DEF MarkedStockIsNotOverstated
    <3>1. v \in Variants
      BY FulfilmentAssumption DEF FulfilmentAssumption
    <3>2. InStockOf(v) = {c \in Codes : VariantOf[c] = v} /\ InStockOf(v) \in SUBSET Codes
      BY DEF Init, InStockOf, Free
    <3>3. stock[v] = Cardinality(InStockOf(v)) /\ Cardinality(InStockOf(v)) \in Nat
      BY <3>1, <3>2, CodesAreFinite DEF Init
    <3> QED
      BY <3>3
  <2> QED
    BY <2>1, <2>2, <2>3 DEF SupplyInv
<1>2. Whole /\ Whole' /\ SupplyInv /\ [Next]_vars => SupplyInv'
  <2> SUFFICES ASSUME Whole, Whole', SupplyInv, [Next]_vars PROVE SupplyInv'
    OBVIOUS
  <2>1. Life!Placed \subseteq Life!Placed' /\ CallsInv'
    BY RowStep, PlacedStays DEF Whole
  <2>2. CASE UNCHANGED vars
    <3>1. \A o, v : LockedOf(o, v)' = LockedOf(o, v)
      BY <2>2 DEF vars, LockedOf
    <3>2. \A v : InStockOf(v)' = InStockOf(v)
      BY <2>2 DEF vars, InStockOf
    <3> QED
      BY <2>1, <2>2, <3>1, <3>2
         DEF vars, row, SupplyInv, RunsFit, RunFits, At, JobsSkipMarked, CodesAreKnown,
             MarkedStockIsNotOverstated
  <2>3. CASE Next
    BY <2>1, <2>3, CheckoutKeepsSupply, RequestKeepsSupply DEF Next
  <2> QED
    BY <2>2, <2>3
<1>3. Spec => []Whole
  BY RowsAreTyped, HandInvHolds, PTL DEF Whole
<1> QED
  BY <1>1, <1>2, <1>3, PTL DEF Spec

(* A code outside the stock is of a placed order, and no order ever has    *)
(* more codes of a variant than pieces, however checkouts, cancels and     *)
(* status changes overlap, fail or die.                                    *)
THEOREM CodesStayWithOrders == Spec => []CodesFollowOrders
<1>1. Whole /\ SupplyInv => CodesFollowOrders
  <2> SUFFICES ASSUME Whole, SupplyInv PROVE CodesFollowOrders
    OBVIOUS
  <2>0. /\ code \in [Codes -> [status : CodeStatus, order : Orders \cup {"none"}]]
        /\ run \in [Orders -> Run]
    BY DEF Whole, CallsInv, CallsTypeOK
  <2>1. ASSUME NEW c \in Codes
        PROVE  code[c] = Free \/ (code[c].status # "in_stock" /\ code[c].order \in Life!Placed)
    <3>1. CASE code[c].order = "none"
      BY <2>0, <3>1 DEF Whole, HandInv, StockHasNoOrder, Free
    <3>2. CASE code[c].order # "none"
      BY <3>2 DEF Whole, HandInv, StockHasNoOrder, SupplyInv, CodesAreKnown
    <3> QED
      BY <3>1, <3>2
  <2>2. ASSUME NEW o \in Orders, NEW v \in Variants
        PROVE  Cardinality({c \in CodesOf(o) : VariantOf[c] = v}) <= run[o].lines[v]
    <3> DEFINE had == {c \in CodesOf(o) : VariantOf[c] = v}
    <3>1. o # "none"
      BY FulfilmentAssumption DEF FulfilmentAssumption
    <3>2. had \subseteq LockedOf(o, v)
      BY <3>1 DEF CodesOf, LockedOf, SupplyInv, CodesAreKnown
    <3>3. LockedOf(o, v) \in SUBSET Codes /\ had \in SUBSET Codes
      BY <2>0 DEF LockedOf, Run, CodesOf
    <3>4. Cardinality(LockedOf(o, v)) <= run[o].lines[v]
      BY DEF SupplyInv, RunsFit, RunFits
    <3>5. run[o].lines[v] \in Nat
      BY <2>0 DEF Run
    <3> HIDE DEF had
    <3>6. Cardinality(had) <= Cardinality(LockedOf(o, v))
      BY <3>2, <3>3, CodesAreFinite, FS_Subset
    <3>7. Cardinality(had) \in Nat /\ Cardinality(LockedOf(o, v)) \in Nat
      BY <3>3, CodesAreFinite
    <3> QED
      BY <3>4, <3>5, <3>6, <3>7 DEF had
  <2> QED
    BY <2>1, <2>2 DEF CodesFollowOrders
<1> QED
  BY <1>1, SupplyInvHolds, PTL

(* A marked variant is never shown with more pieces than it has codes in   *)
(* stock, except while a create call still has to synchronise it or has    *)
(* stopped before it did.                                                  *)
THEOREM MarkedStockStaysCovered == Spec => []MarkedStockIsNotOverstated
<1>1. SupplyInv => MarkedStockIsNotOverstated
  BY DEF SupplyInv
<1> QED
  BY <1>1, SupplyInvHolds, PTL
=============================================================================
