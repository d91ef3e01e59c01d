----------------------------- MODULE ShopProofs -----------------------------
(***************************************************************************)
(* Proofs about what customers and the office do at once, for any number   *)
(* of requests, rows and edits: promo codes, marking codes, the product    *)
(* list, reviews, the tree of categories, the cached products, carts, and  *)
(* the rules of promotions, in this order, each with the invariant its     *)
(* theorem needs.  At the end the types of all of them, with what more has *)
(* to be known for the bounds of lists, ratings, edits and quantities.     *)
(***************************************************************************)
EXTENDS Shop, FiniteSetTheorems, WellFoundedInduction, TLAPS

P == INSTANCE MarkingAdminProofs WITH Orders <- Holders, stock <- pieces, call <- request
-----------------------------------------------------------------------------
(* The counters of a promo code cannot be compared with the orders placed: *)
(* an order is placed first and counted later.  They are compared with the *)
(* orders that have been through the write, and so is what a call has      *)
(* read: that a write adds one to a reading is then covered by its own     *)
(* order.                                                                  *)
Through == {c \in redeemed : call[c].pc = "done"}

Covered(count, cs) ==
  /\ count.used <= Cardinality(cs)
  /\ \A u \in Users : count.usage[u] <= Cardinality(By(u, cs))

CoverInv ==
  /\ \A c \in Checkouts : call[c].pc \in {"count", "write"} => c \in redeemed
  /\ Covered(promo.count, Through)
  /\ \A c \in Checkouts : call[c].pc = "write" => Covered(call[c].seen, Through)

Promo == [exists : BOOLEAN, active : BOOLEAN, limit : Limits, count : Counters]
Call  == [pc : {"idle", "insert", "count", "write", "done", "failed"},
          discount : BOOLEAN, seen : Counters]
-----------------------------------------------------------------------------
(* The counters are natural numbers, and counting one more keeps them so. *)
LEMMA CountedIsTyped ==
  /\ NoUse \in Counters
  /\ \A count \in Counters, u \in Users : Counted(count, u) \in Counters
BY DEF NoUse, Counters, Counted

(* The row of the code and the calls keep their types, whatever the        *)
(* administrator does while the calls run (update and delete).             *)
THEOREM TypesHold ==
  ASSUME Buyer \in [Checkouts -> Users]
  PROVE  Spec => []TypeOK
<1> USE DEF Promo, Call
<1>1. Init => TypeOK
  <2> SUFFICES ASSUME Init PROVE TypeOK
    OBVIOUS
  <2>1. promo \in Promo
    BY CountedIsTyped DEF Init
  <2>2. [pc |-> "idle", discount |-> FALSE, seen |-> NoUse] \in Call
    BY CountedIsTyped
  <2>3. call \in [Checkouts -> Call]
    BY <2>2 DEF Init
  <2> QED
    BY <2>1, <2>3 DEF Init, TypeOK
<1>2. TypeOK /\ [Next]_vars => TypeOK'
  <2> SUFFICES ASSUME TypeOK, [Next]_vars PROVE TypeOK'
    OBVIOUS
  <2> USE DEF TypeOK
  <2>1. CASE UNCHANGED vars
    BY <2>1 DEF vars
  <2>2. ASSUME NEW c \in Checkouts, Validate(c) PROVE TypeOK'
    <3>1. Valid(Buyer[c]) \in BOOLEAN
      BY DEF Valid
    <3> QED
      BY <2>2, <3>1 DEF Validate
  <2>3. ASSUME NEW c \in Checkouts, PlaceOrder(c) PROVE TypeOK'
    BY <2>3 DEF PlaceOrder
  <2>4. ASSUME NEW c \in Checkouts, ReadUsage(c) PROVE TypeOK'
    BY <2>4 DEF ReadUsage
  <2>5. ASSUME NEW c \in Checkouts, WriteUsage(c) PROVE TypeOK'
    <3>1. Counted(call[c].seen, Buyer[c]) \in Counters
      BY CountedIsTyped
    <3> QED
      BY <2>5, <3>1 DEF WriteUsage
  <2>6. ASSUME NEW c \in Checkouts, Die(c) PROVE TypeOK'
    BY <2>6 DEF Die
  <2>7. ASSUME NEW active \in BOOLEAN, NEW limit \in Limits, Edit(active, limit) PROVE TypeOK'
    BY <2>7 DEF Edit
  <2>8. CASE Delete
    BY <2>8 DEF Delete
  <2> QED
    BY <2>1, <2>2, <2>3, <2>4, <2>5, <2>6, <2>7, <2>8 DEF Next
<1> QED
  BY <1>1, <1>2, PTL DEF Spec
-----------------------------------------------------------------------------
(* What is covered by some orders is covered by more. *)
LEMMA MoreOrdersCoverMore ==
  ASSUME NEW few, NEW more, IsFiniteSet(more), few \subseteq more,
         NEW count \in Counters, Covered(count, few)
  PROVE  Covered(count, more)
<1>1. IsFiniteSet(few) /\ Cardinality(few) \in Nat /\ Cardinality(more) \in Nat /\ Cardinality(few) <= Cardinality(more)
  BY FS_Subset, FS_CardinalityType
<1>2. ASSUME NEW u \in Users
      PROVE  /\ Cardinality(By(u, few)) <= Cardinality(By(u, more))
             /\ Cardinality(By(u, few)) \in Nat /\ Cardinality(By(u, more)) \in Nat
  <2>1. By(u, few) \subseteq By(u, more) /\ By(u, more) \subseteq more
    BY DEF By
  <2> QED
    BY <2>1, FS_Subset, FS_CardinalityType
<1>3. count.used \in Nat /\ \A u \in Users : count.usage[u] \in Nat
  BY DEF Counters
<1>4. count.used <= Cardinality(more)
  BY <1>1, <1>3 DEF Covered
<1>5. ASSUME NEW u \in Users PROVE count.usage[u] <= Cardinality(By(u, more))
  BY <1>2, <1>3 DEF Covered
<1> QED
  BY <1>4, <1>5 DEF Covered

(* One more use is covered by one more order of that customer. *)
LEMMA AnOrderCoversAUse ==
  ASSUME NEW few, IsFiniteSet(few), NEW c, c \notin few, NEW count \in Counters, Covered(count, few),
         Buyer[c] \in Users
  PROVE  Covered(Counted(count, Buyer[c]), few \cup {c})
<1> DEFINE more == few \cup {c}
           u == Buyer[c]
           n == Counted(count, u)
<1>1. IsFiniteSet(more) /\ Cardinality(more) = Cardinality(few) + 1 /\ Cardinality(few) \in Nat
  BY FS_AddElement, FS_CardinalityType
<1>2. /\ count.used \in Nat /\ count.usage \in [Users -> Nat]
      /\ n.used = count.used + 1 /\ n.usage = [count.usage EXCEPT ![u] = @ + 1]
  BY DEF Counters, Counted
<1>3. n.used <= Cardinality(more)
  BY <1>1, <1>2 DEF Covered
<1>4. n.usage[u] <= Cardinality(By(u, more))
  <2>1. By(u, more) = By(u, few) \cup {c} /\ c \notin By(u, few) /\ By(u, few) \subseteq few
    BY DEF By
  <2>2. IsFiniteSet(By(u, few))
    BY <2>1, FS_Subset
  <2>3. Cardinality(By(u, more)) = Cardinality(By(u, few)) + 1 /\ Cardinality(By(u, few)) \in Nat
    BY <2>1, <2>2, FS_AddElement, FS_CardinalityType
  <2>4. n.usage[u] = count.usage[u] + 1 /\ count.usage[u] \in Nat /\ count.usage[u] <= Cardinality(By(u, few))
    BY <1>2 DEF Covered
  <2> QED
    BY <2>3, <2>4
<1>5. ASSUME NEW v \in Users, v # u PROVE n.usage[v] <= Cardinality(By(v, more))
  <2>1. By(v, more) = By(v, few)
    BY <1>5 DEF By
  <2> QED
    BY <1>2, <1>5, <2>1 DEF Covered
<1> QED
  BY <1>3, <1>4, <1>5 DEF Covered
-----------------------------------------------------------------------------
(* However many checkouts overlap, lose each other's updates or break off: *)
(* the counters never run ahead of the orders placed with the discount, in *)
(* total and for every customer (step 10 of create after step 7).          *)
THEOREM UsesStayBacked ==
  ASSUME IsFiniteSet(Checkouts), Buyer \in [Checkouts -> Users]
  PROVE  Spec => []UsesAreBackedByOrders
<1>1. Init => CoverInv
  <2> SUFFICES ASSUME Init PROVE CoverInv
    OBVIOUS
  <2>1. Through = {} /\ \A u \in Users : By(u, Through) = {}
    BY DEF Init, Through, By
  <2>2. promo.count = NoUse /\ \A c \in Checkouts : call[c].pc = "idle"
    BY DEF Init
  <2>3. Cardinality({}) = 0
    BY FS_EmptySet
  <2>4. promo.count.used = 0 /\ \A u \in Users : promo.count.usage[u] = 0
    BY <2>2 DEF NoUse
  <2>5. 0 <= Cardinality({})
    BY <2>3
  <2>6. Covered(promo.count, Through)
    BY <2>1, <2>4, <2>5 DEF Covered
  <2> QED
    BY <2>2, <2>6 DEF CoverInv
<1>2. TypeOK /\ CoverInv /\ [Next]_vars => CoverInv'
  <2> SUFFICES ASSUME TypeOK, CoverInv, [Next]_vars PROVE CoverInv'
    OBVIOUS
  <2>1. ASSUME Through \subseteq Through', IsFiniteSet(Through'), promo'.count = promo.count,
               \A c \in Checkouts : call'[c].pc = "write" =>
                   \/ call'[c].seen = promo.count
                   \/ call[c].pc = "write" /\ call'[c].seen = call[c].seen,
               \A c \in Checkouts : call'[c].pc \in {"count", "write"} => c \in redeemed'
        PROVE  CoverInv'
    <3>1. Covered(promo.count, Through')
      BY <2>1, MoreOrdersCoverMore DEF CoverInv, TypeOK
    <3>2. ASSUME NEW c \in Checkouts, call[c].pc = "write" PROVE Covered(call[c].seen, Through')
      BY <2>1, <3>2, MoreOrdersCoverMore DEF CoverInv, TypeOK
    <3> QED
      BY <2>1, <3>1, <3>2 DEF CoverInv
  <2>2. redeemed' \subseteq Checkouts /\ IsFiniteSet(Through')
    <3>1. redeemed' \subseteq Checkouts
      <4>1. redeemed' = redeemed \/ \E c \in Checkouts : redeemed' = redeemed \cup {c}
        BY DEF Next, vars, Validate, PlaceOrder, ReadUsage, WriteUsage, Die, Edit, Delete
      <4> QED
        BY <4>1 DEF TypeOK
    <3>2. Through' \subseteq Checkouts
      BY <3>1 DEF Through
    <3> QED
      BY <3>1, <3>2, FS_Subset
  <2>3. CASE UNCHANGED vars
    BY <2>3 DEF vars, CoverInv, Through
  <2>4. ASSUME NEW c \in Checkouts, Validate(c) \/ PlaceOrder(c) \/ ReadUsage(c) \/ Die(c) PROVE CoverInv'
    <3>1. Through \subseteq Through' /\ promo' = promo
      BY <2>4 DEF TypeOK, Through, Validate, PlaceOrder, ReadUsage, Die
    <3>2. \A d \in Checkouts : call'[d].pc \in {"count", "write"} => d \in redeemed'
      BY <2>4 DEF TypeOK, CoverInv, Validate, PlaceOrder, ReadUsage, Die
    <3>3. \A d \in Checkouts : call'[d].pc = "write" =>
             \/ call'[d].seen = promo.count
             \/ call[d].pc = "write" /\ call'[d].seen = call[d].seen
      BY <2>4 DEF TypeOK, Validate, PlaceOrder, ReadUsage, Die
    <3> QED
      BY <2>1, <2>2, <3>1, <3>2, <3>3
  <2>5. ASSUME NEW c \in Checkouts, WriteUsage(c) PROVE CoverInv'
    <3>1. c \in redeemed /\ c \notin Through /\ Through' = Through \cup {c}
      BY <2>5 DEF TypeOK, CoverInv, Through, WriteUsage
    <3>2. IsFiniteSet(Through)
      BY <2>2, <3>1, FS_Subset
    <3>3. \A d \in Checkouts : d # c => call'[d] = call[d]
      BY <2>5 DEF TypeOK, WriteUsage
    <3>4. call'[c].pc = "done" /\ redeemed' = redeemed
      BY <2>5 DEF TypeOK, WriteUsage
    <3>5. ASSUME NEW d \in Checkouts, call[d].pc = "write" PROVE Covered(call[d].seen, Through')
      BY <2>2, <3>1, <3>5, MoreOrdersCoverMore DEF CoverInv, TypeOK
    <3>6. Covered(promo.count, Through')
      BY <2>2, <3>1, MoreOrdersCoverMore DEF CoverInv, TypeOK
    <3>7. Covered(Counted(call[c].seen, Buyer[c]), Through')
      <4>1. Covered(call[c].seen, Through) /\ call[c].seen \in Counters
        BY <2>5 DEF CoverInv, TypeOK, WriteUsage
      <4> QED
        BY <3>1, <3>2, <4>1, AnOrderCoversAUse
    <3>8. promo'.count \in {promo.count, Counted(call[c].seen, Buyer[c])}
      BY <2>5 DEF TypeOK, WriteUsage
    <3>9. Covered(promo.count, Through)'
      BY <3>6, <3>7, <3>8
    <3> QED
      BY <3>3, <3>4, <3>5, <3>9 DEF CoverInv
  <2>6. ASSUME NEW active \in BOOLEAN, NEW limit \in Limits, Edit(active, limit) PROVE CoverInv'
    <3>1. promo'.count = promo.count /\ UNCHANGED <<call, redeemed>>
      BY <2>6 DEF TypeOK, Edit
    <3> QED
      BY <3>1 DEF CoverInv, Through
  <2>7. CASE Delete
    <3>1. promo'.count = promo.count /\ UNCHANGED <<call, redeemed>>
      BY <2>7 DEF TypeOK, Delete
    <3> QED
      BY <3>1 DEF CoverInv, Through
  <2> QED
    BY <2>3, <2>4, <2>5, <2>6, <2>7 DEF Next
<1>3. TypeOK /\ CoverInv => UsesAreBackedByOrders
  <2> SUFFICES ASSUME TypeOK, CoverInv PROVE UsesAreBackedByOrders
    OBVIOUS
  <2>1. Through \subseteq redeemed /\ IsFiniteSet(redeemed)
    BY FS_Subset DEF TypeOK, Through
  <2>2. Covered(promo.count, redeemed)
    BY <2>1, MoreOrdersCoverMore DEF CoverInv, TypeOK
  <2> QED
    BY <2>2 DEF UsesAreBackedByOrders, Covered
<1> QED
  BY <1>1, <1>2, <1>3, TypesHold, PTL DEF Spec
-----------------------------------------------------------------------------
(* A set of natural numbers has a least one.                               *)
Less == {m \in Nat \X Nat : m[1] < m[2]}

LEMMA SomethingIsLeast ==
  ASSUME NEW S, S \subseteq Nat, S # {}
  PROVE  \E x \in S : \A y \in S : x <= y
<1>1. IsWellFoundedOn(Less, Nat)
  BY NatLessThanWellFounded DEF OpToRel, Less
<1>2. PICK x \in S : \A y \in S : ~ (<<y, x>> \in Less)
  BY <1>1, WFMin
<1>3. ASSUME NEW y \in S PROVE x <= y
  <2>1. <<y, x>> \in Nat \X Nat /\ <<y, x>>[1] = y /\ <<y, x>>[2] = x
    OBVIOUS
  <2>2. ~ (y < x)
    BY <1>2, <2>1 DEF Less
  <2> QED
    BY <2>2
<1> QED
  BY <1>3
-----------------------------------------------------------------------------
(* The sum over a finite set, taken element by element as Folds does it.   *)
First(s) == CHOOSE x \in s : TRUE
Left(s)  == s \ {First(s)}

SumsUpAt(f, sum, s) == sum[s] = IF s = {} THEN 0 ELSE f[First(s)] + sum[Left(s)]
SumsUp(f, S, sum) ==
  sum = [s \in SUBSET S |-> IF s = {} THEN 0 ELSE f[First(s)] + sum[Left(s)]]

Weighs(f, S) == \A x \in S : f[x] \in Nat

IsSum(f, S, sum) == sum \in [SUBSET S -> Nat] /\ SumsUp(f, S, sum)

LEMMA SumIsAFold ==
  ASSUME NEW f, NEW S
  PROVE  SumFunctionOnSet(f, S) = (CHOOSE sum : SumsUp(f, S, sum))[S]
BY DEF SumFunctionOnSet, FoldFunctionOnSet, MapThenFoldSet, SumsUp, First, Left

(* Sets are taken up to a size: what is left of a set is smaller.          *)
LEMMA LeftIsSmaller ==
  ASSUME NEW S, IsFiniteSet(S), NEW s \in SUBSET S, s # {}
  PROVE  /\ First(s) \in s /\ Left(s) \in SUBSET S /\ IsFiniteSet(s) /\ IsFiniteSet(Left(s))
         /\ Cardinality(s) \in Nat \ {0} /\ Cardinality(Left(s)) = Cardinality(s) - 1
<1>1. First(s) \in s
  BY DEF First
<1>2. IsFiniteSet(s)
  BY FS_Subset
<1> QED
  BY <1>1, <1>2, FS_RemoveElement, FS_CardinalityType, FS_EmptySet DEF Left

UpTo(f, S, sum, n) ==
  /\ sum \in [SUBSET S -> Nat]
  /\ \A s \in SUBSET S : Cardinality(s) <= n => SumsUpAt(f, sum, s)

LEMMA SumsExistUpTo ==
  ASSUME NEW S, IsFiniteSet(S), NEW f, Weighs(f, S)
  PROVE  \A n \in Nat : \E sum : UpTo(f, S, sum, n)
<1> DEFINE Bad == {n \in Nat : ~ \E sum : UpTo(f, S, sum, n)}
<1>1. SUFFICES ASSUME Bad # {} PROVE FALSE
  OBVIOUS
<1>2. PICK n \in Bad : \A m \in Bad : n <= m
  BY <1>1, SomethingIsLeast
<1>3. n # 0
  <2>1. ASSUME NEW s \in SUBSET S, Cardinality(s) <= 0 PROVE s = {}
    BY <2>1, LeftIsSmaller
  <2>2. UpTo(f, S, [s \in SUBSET S |-> 0], 0)
    BY <2>1 DEF UpTo, SumsUpAt
  <2> QED
    BY <2>2
<1>4. n - 1 \in Nat /\ n - 1 \notin Bad
  BY <1>2, <1>3
<1>5. PICK sum : UpTo(f, S, sum, n - 1)
  BY <1>4
<1> DEFINE more == [s \in SUBSET S |-> IF s = {} THEN 0 ELSE f[First(s)] + sum[Left(s)]]
<1>6. ASSUME NEW s \in SUBSET S, s # {}
      PROVE  f[First(s)] \in Nat /\ sum[Left(s)] \in Nat
  BY <1>5, <1>6, LeftIsSmaller DEF UpTo, Weighs
<1>7. more \in [SUBSET S -> Nat]
  BY <1>6
<1>8. ASSUME NEW s \in SUBSET S, Cardinality(s) <= n PROVE SumsUpAt(f, more, s)
  <2>1. CASE s = {}
    BY <2>1 DEF SumsUpAt
  <2>2. CASE s # {}
    <3>1. Left(s) \in SUBSET S /\ Cardinality(Left(s)) <= n - 1
      BY <1>8, <2>2, LeftIsSmaller
    <3>2. SumsUpAt(f, sum, Left(s))
      BY <1>5, <3>1 DEF UpTo
    <3>3. more[Left(s)] = sum[Left(s)]
      BY <3>1, <3>2 DEF SumsUpAt
    <3> QED
      BY <2>2, <3>3 DEF SumsUpAt
  <2> QED
    BY <2>1, <2>2
<1>9. UpTo(f, S, more, n)
  BY <1>7, <1>8 DEF UpTo
<1> QED
  BY <1>9

LEMMA SumsExist ==
  ASSUME NEW S, IsFiniteSet(S), NEW f, Weighs(f, S)
  PROVE  \E sum : IsSum(f, S, sum)
<1>1. PICK sum : UpTo(f, S, sum, Cardinality(S))
  BY SumsExistUpTo, FS_CardinalityType
<1>2. \A s \in SUBSET S : SumsUpAt(f, sum, s)
  BY <1>1, FS_Subset DEF UpTo
<1>3. sum \in [SUBSET S -> Nat]
  BY <1>1 DEF UpTo
<1>4. SumsUp(f, S, sum)
  BY <1>2, <1>3 DEF SumsUp, SumsUpAt
<1> QED
  BY <1>3, <1>4 DEF IsSum

(* One table of sums serves all the subsets of a set.                      *)
LEMMA OneTableServesAll ==
  ASSUME NEW S, IsFiniteSet(S), NEW f, Weighs(f, S), NEW sum, IsSum(f, S, sum), NEW T0 \in SUBSET S
  PROVE  SumFunctionOnSet(f, T0) = sum[T0]
<1>1. IsFiniteSet(T0) /\ Weighs(f, T0)
  BY FS_Subset DEF Weighs
<1> DEFINE mine == CHOOSE x : SumsUp(f, T0, x)
<1>2. \E x : SumsUp(f, T0, x)
  BY <1>1, SumsExist DEF IsSum
<1>3. SumsUp(f, T0, mine)
  BY <1>2
<1> HIDE DEF mine
<1> DEFINE Bad == {n \in Nat : \E s \in SUBSET T0 : Cardinality(s) = n /\ mine[s] # sum[s]}
<1>4. Bad = {}
  <2>1. SUFFICES ASSUME Bad # {} PROVE FALSE
    OBVIOUS
  <2>2. PICK n \in Bad : \A m \in Bad : n <= m
    BY <2>1, SomethingIsLeast
  <2>3. PICK s \in SUBSET T0 : Cardinality(s) = n /\ mine[s] # sum[s]
    BY <2>2
  <2>4. s # {} /\ s \in SUBSET S
    BY <1>3, <2>3 DEF SumsUp, IsSum
  <2>5. Left(s) \in SUBSET T0 /\ Cardinality(Left(s)) \in Nat /\ Cardinality(Left(s)) < n
    BY <1>1, <2>3, <2>4, LeftIsSmaller
  <2>6. mine[Left(s)] = sum[Left(s)]
    BY <2>2, <2>5
  <2>7. mine[s] = f[First(s)] + mine[Left(s)]
    BY <1>3, <2>4 DEF SumsUp
  <2>8. sum[s] = f[First(s)] + sum[Left(s)]
    BY <2>4 DEF SumsUp, IsSum
  <2> QED
    BY <2>3, <2>6, <2>7, <2>8
<1>5. mine[T0] = sum[T0]
  BY <1>1, <1>4, FS_CardinalityType
<1> QED
  BY <1>5, SumIsAFold DEF mine

(* The two laws of a sum: nothing, and one element at a time.              *)
LEMMA NothingSumsToNothing ==
  ASSUME NEW f
  PROVE  SumFunctionOnSet(f, {}) = 0
<1>1. IsFiniteSet({}) /\ Weighs(f, {})
  BY FS_EmptySet DEF Weighs
<1>2. PICK sum : IsSum(f, {}, sum)
  BY <1>1, SumsExist
<1>3. {} \in SUBSET {}
  OBVIOUS
<1>4. SumFunctionOnSet(f, {}) = sum[{}]
  BY <1>1, <1>2, <1>3, OneTableServesAll
<1> QED
  BY <1>2, <1>3, <1>4 DEF IsSum, SumsUp

LEMMA TheFirstIsTakenOff ==
  ASSUME NEW S, IsFiniteSet(S), NEW f, Weighs(f, S), S # {}
  PROVE  /\ SumFunctionOnSet(f, S) = f[First(S)] + SumFunctionOnSet(f, Left(S))
         /\ SumFunctionOnSet(f, S) \in Nat
<1>1. PICK sum : IsSum(f, S, sum)
  BY SumsExist
<1>2. S \in SUBSET S /\ Left(S) \in SUBSET S
  BY LeftIsSmaller
<1>3. SumFunctionOnSet(f, S) = sum[S] /\ SumFunctionOnSet(f, Left(S)) = sum[Left(S)]
  BY <1>1, <1>2, OneTableServesAll
<1>4. sum[S] = f[First(S)] + sum[Left(S)] /\ sum[S] \in Nat
  BY <1>1 DEF IsSum, SumsUp
<1> QED
  BY <1>3, <1>4

LEMMA SumsAreNatural ==
  ASSUME NEW S, IsFiniteSet(S), NEW f, Weighs(f, S)
  PROVE  SumFunctionOnSet(f, S) \in Nat
BY NothingSumsToNothing, TheFirstIsTakenOff

OffTheTop(f, s) ==
  \A x \in s : SumFunctionOnSet(f, s) = f[x] + SumFunctionOnSet(f, s \ {x})

LEMMA AnyCanBeTakenOff ==
  ASSUME NEW S, IsFiniteSet(S), NEW f, Weighs(f, S)
  PROVE  OffTheTop(f, S)
<1> DEFINE Bad == {n \in Nat : \E s \in SUBSET S : Cardinality(s) = n /\ ~ OffTheTop(f, s)}
<1>1. Bad = {}
  <2>1. SUFFICES ASSUME Bad # {} PROVE FALSE
    OBVIOUS
  <2>2. PICK n \in Bad : \A m \in Bad : n <= m
    BY <2>1, SomethingIsLeast
  <2>3. PICK s \in SUBSET S : Cardinality(s) = n /\ ~ OffTheTop(f, s)
    BY <2>2
  <2>4. PICK x \in s : SumFunctionOnSet(f, s) # f[x] + SumFunctionOnSet(f, s \ {x})
    BY <2>3 DEF OffTheTop
  <2> DEFINE y == First(s)
  <2>a. s # {}
    BY <2>4
  <2>b. /\ y \in s /\ Left(s) \in SUBSET S /\ IsFiniteSet(s) /\ IsFiniteSet(Left(s))
        /\ Cardinality(s) \in Nat \ {0} /\ Cardinality(Left(s)) = n - 1
    BY <2>3, <2>a, LeftIsSmaller
  <2>5. Weighs(f, s) /\ Weighs(f, Left(s)) /\ Left(s) = s \ {y} /\ n \in Nat \ {0} /\ Cardinality(Left(s)) \in Nat
    BY <2>3, <2>b DEF Weighs, Left
  <2>6. SumFunctionOnSet(f, s) = f[y] + SumFunctionOnSet(f, s \ {y})
    BY <2>4, <2>5, <2>b, TheFirstIsTakenOff
  <2> HIDE DEF y
  <2>7. x # y
    BY <2>4, <2>6
  <2> DEFINE xs == s \ {x}
             rest == s \ {x, y}
  <2>8. /\ xs \in SUBSET S /\ IsFiniteSet(xs) /\ Weighs(f, xs) /\ Cardinality(xs) = n - 1
        /\ y \in xs /\ xs \ {y} = rest /\ (s \ {y}) \ {x} = rest /\ x \in s \ {y}
        /\ IsFiniteSet(rest) /\ Weighs(f, rest)
    BY <2>3, <2>4, <2>5, <2>b, <2>7, FS_RemoveElement, FS_Subset DEF Weighs
  <2>9. n - 1 \in Nat /\ n - 1 \notin Bad
    BY <2>2, <2>5
  <2>10. OffTheTop(f, s \ {y}) /\ OffTheTop(f, xs)
    BY <2>5, <2>b, <2>8, <2>9
  <2>11. /\ SumFunctionOnSet(f, s \ {y}) = f[x] + SumFunctionOnSet(f, rest)
         /\ SumFunctionOnSet(f, xs) = f[y] + SumFunctionOnSet(f, rest)
    BY <2>8, <2>10 DEF OffTheTop
  <2>12. f[x] \in Nat /\ f[y] \in Nat /\ SumFunctionOnSet(f, rest) \in Nat
    BY <2>4, <2>5, <2>b, <2>8, SumsAreNatural DEF Weighs
  <2> QED
    BY <2>4, <2>6, <2>11, <2>12
<1> QED
  BY <1>1, FS_CardinalityType

(* A part of a set sums to no more than the set.                           *)
LEMMA PartsSumToNoMore ==
  ASSUME NEW S, IsFiniteSet(S), NEW f, Weighs(f, S), NEW T0 \in SUBSET S
  PROVE  SumFunctionOnSet(f, T0) <= SumFunctionOnSet(f, S)
<1> DEFINE Over == {s \in SUBSET S : T0 \subseteq s /\ SumFunctionOnSet(f, T0) > SumFunctionOnSet(f, s)}
           Bad  == {Cardinality(s) : s \in Over}
<1>1. \A s \in SUBSET S : /\ IsFiniteSet(s) /\ Weighs(f, s) /\ Cardinality(s) \in Nat
                          /\ SumFunctionOnSet(f, s) \in Nat
  BY FS_Subset, FS_CardinalityType, SumsAreNatural DEF Weighs
<1>2. Over = {}
  <2>1. SUFFICES ASSUME Over # {} PROVE FALSE
    OBVIOUS
  <2>2. Bad # {} /\ Bad \subseteq Nat
    BY <1>1, <2>1
  <2>3. PICK n \in Bad : \A m \in Bad : n <= m
    BY <2>2, SomethingIsLeast
  <2>4. PICK s \in Over : Cardinality(s) = n
    BY <2>3
  <2>5. PICK x \in s : x \notin T0
    BY <1>1, <2>4
  <2>6. /\ s \ {x} \in SUBSET S /\ T0 \subseteq s \ {x} /\ Cardinality(s \ {x}) = n - 1 /\ n \in Nat
        /\ f[x] \in Nat
    BY <1>1, <2>4, <2>5, FS_RemoveElement DEF Weighs
  <2>7. s \ {x} \notin Over
    BY <1>1, <2>3, <2>6
  <2>8. SumFunctionOnSet(f, s) = f[x] + SumFunctionOnSet(f, s \ {x})
    BY <1>1, <2>4, <2>5, AnyCanBeTakenOff DEF OffTheTop
  <2> QED
    BY <1>1, <2>4, <2>6, <2>7, <2>8
<1> QED
  BY <1>1, <1>2

(* One more of one thing is one more in the sum.                           *)
LEMMA EqualsSumEqually ==
  ASSUME NEW S, IsFiniteSet(S), NEW f, NEW g, Weighs(f, S), \A x \in S : f[x] = g[x]
  PROVE  SumFunctionOnSet(f, S) = SumFunctionOnSet(g, S)
<1> DEFINE Differ == {s \in SUBSET S : SumFunctionOnSet(f, s) # SumFunctionOnSet(g, s)}
           Bad    == {Cardinality(s) : s \in Differ}
<1>1. \A s \in SUBSET S : IsFiniteSet(s) /\ Weighs(f, s) /\ Weighs(g, s) /\ Cardinality(s) \in Nat
  BY FS_Subset, FS_CardinalityType DEF Weighs
<1>2. Differ = {}
  <2>1. SUFFICES ASSUME Differ # {} PROVE FALSE
    OBVIOUS
  <2>2. Bad # {} /\ Bad \subseteq Nat
    BY <1>1, <2>1
  <2>3. PICK n \in Bad : \A m \in Bad : n <= m
    BY <2>2, SomethingIsLeast
  <2>4. PICK s \in Differ : Cardinality(s) = n
    BY <2>3
  <2>5. s # {}
    BY <2>4, NothingSumsToNothing
  <2>a. /\ First(s) \in s /\ Left(s) \in SUBSET S /\ Cardinality(s) \in Nat \ {0}
        /\ Cardinality(Left(s)) = Cardinality(s) - 1
    BY <2>4, <2>5, LeftIsSmaller
  <2>6. Left(s) \notin Differ
    BY <2>3, <2>4, <2>a
  <2>7. SumFunctionOnSet(f, Left(s)) = SumFunctionOnSet(g, Left(s))
    BY <2>6, <2>a
  <2> QED
    BY <1>1, <2>4, <2>5, <2>a, <2>7, TheFirstIsTakenOff
<1> QED
  BY <1>2

LEMMA OneMoreIsOneMore ==
  ASSUME NEW S, IsFiniteSet(S), NEW f \in [S -> Nat], NEW x \in S
  PROVE  SumFunction([f EXCEPT ![x] = @ + 1]) = SumFunction(f) + 1
<1> DEFINE g == [f EXCEPT ![x] = @ + 1]
<1>1. /\ Weighs(f, S) /\ Weighs(g, S) /\ Weighs(f, S \ {x}) /\ IsFiniteSet(S \ {x})
      /\ g[x] = f[x] + 1 /\ f[x] \in Nat /\ \A y \in S \ {x} : f[y] = g[y]
      /\ DOMAIN f = S /\ DOMAIN g = S
  BY FS_Subset DEF Weighs
<1> HIDE DEF g
<1>2. /\ SumFunctionOnSet(f, S) = f[x] + SumFunctionOnSet(f, S \ {x})
      /\ SumFunctionOnSet(g, S) = g[x] + SumFunctionOnSet(g, S \ {x})
  BY <1>1, AnyCanBeTakenOff DEF OffTheTop
<1>3. /\ SumFunctionOnSet(f, S \ {x}) = SumFunctionOnSet(g, S \ {x})
      /\ SumFunctionOnSet(f, S \ {x}) \in Nat
  BY <1>1, EqualsSumEqually, SumsAreNatural
<1>4. SumFunction(f) = SumFunctionOnSet(f, S) /\ SumFunction(g) = SumFunctionOnSet(g, S)
  BY <1>1 DEF SumFunction
<1>5. SumFunction(g) = SumFunction(f) + 1
  BY <1>1, <1>2, <1>3, <1>4
<1> QED
  BY <1>5 DEF g

LEMMA ZerosSumToZero ==
  ASSUME NEW S, IsFiniteSet(S), NEW f, \A x \in S : f[x] = 0
  PROVE  SumFunctionOnSet(f, S) = 0
<1> DEFINE More == {s \in SUBSET S : SumFunctionOnSet(f, s) # 0}
           Bad  == {Cardinality(s) : s \in More}
<1>1. \A s \in SUBSET S : IsFiniteSet(s) /\ Weighs(f, s) /\ Cardinality(s) \in Nat
  BY FS_Subset, FS_CardinalityType DEF Weighs
<1>2. More = {}
  <2>1. SUFFICES ASSUME More # {} PROVE FALSE
    OBVIOUS
  <2>2. Bad # {} /\ Bad \subseteq Nat
    BY <1>1, <2>1
  <2>3. PICK n \in Bad : \A m \in Bad : n <= m
    BY <2>2, SomethingIsLeast
  <2>4. PICK s \in More : Cardinality(s) = n
    BY <2>3
  <2>5. s # {}
    BY <2>4, NothingSumsToNothing
  <2>a. /\ First(s) \in s /\ Left(s) \in SUBSET S /\ Cardinality(s) \in Nat \ {0}
        /\ Cardinality(Left(s)) = Cardinality(s) - 1
    BY <2>4, <2>5, LeftIsSmaller
  <2>6. Left(s) \notin More
    BY <2>3, <2>4, <2>a
  <2>7. SumFunctionOnSet(f, s) = f[First(s)] + SumFunctionOnSet(f, Left(s))
    BY <1>1, <2>4, <2>5, TheFirstIsTakenOff
  <2> QED
    BY <2>4, <2>6, <2>7, <2>a
<1> QED
  BY <1>2
-----------------------------------------------------------------------------
(* What a call has read it writes back with one use more in both counters. *)
Agrees(count) == count.used = SumFunction(count.usage)

AgreeInv == Agrees(promo.count) /\ \A c \in Checkouts : Agrees(call[c].seen)

LEMMA CountingKeepsAgreement ==
  ASSUME IsFiniteSet(Users), NEW count \in Counters, Agrees(count), NEW u \in Users
  PROVE  Agrees(Counted(count, u))
<1>1. count.usage \in [Users -> Nat]
  BY DEF Counters
<1> QED
  BY <1>1, OneMoreIsOneMore DEF Agrees, Counted

(* CountersAgree: applyUsage calls overwrite each other's counters, but    *)
(* always both of them from one reading, so the total stays the sum.       *)
THEOREM TheCountersAgree ==
  ASSUME IsFiniteSet(Users), Buyer \in [Checkouts -> Users]
  PROVE  Spec => []CountersAgree
<1>1. Init => AgreeInv
  <2> SUFFICES ASSUME Init PROVE AgreeInv
    OBVIOUS
  <2>1. promo.count = NoUse /\ \A c \in Checkouts : call[c].seen = NoUse
    BY DEF Init
  <2>2. SumFunction(NoUse.usage) = 0
    BY ZerosSumToZero DEF NoUse, SumFunction
  <2>3. Agrees(NoUse)
    BY <2>2 DEF Agrees, NoUse
  <2> QED
    BY <2>1, <2>3 DEF AgreeInv
<1>2. TypeOK /\ AgreeInv /\ [Next]_vars => AgreeInv'
  <2> SUFFICES ASSUME TypeOK, AgreeInv, [Next]_vars PROVE AgreeInv'
    OBVIOUS
  <2>1. CASE UNCHANGED vars
    BY <2>1 DEF vars, AgreeInv
  <2>2. ASSUME NEW c \in Checkouts, Validate(c) \/ PlaceOrder(c) \/ Die(c) PROVE AgreeInv'
    <3>1. promo' = promo /\ \A d \in Checkouts : call'[d].seen = call[d].seen
      BY <2>2 DEF TypeOK, Validate, PlaceOrder, Die
    <3> QED
      BY <3>1 DEF AgreeInv
  <2>3. ASSUME NEW c \in Checkouts, ReadUsage(c) PROVE AgreeInv'
    <3>1. promo' = promo /\ \A d \in Checkouts : call'[d].seen \in {call[d].seen, promo.count}
      BY <2>3 DEF TypeOK, ReadUsage
    <3> QED
      BY <3>1 DEF AgreeInv
  <2>4. ASSUME NEW c \in Checkouts, WriteUsage(c) PROVE AgreeInv'
    <3>1. \A d \in Checkouts : call'[d].seen = call[d].seen
      BY <2>4 DEF TypeOK, WriteUsage
    <3>2. promo'.count \in {promo.count, Counted(call[c].seen, Buyer[c])}
      BY <2>4 DEF TypeOK, WriteUsage
    <3>3. call[c].seen \in Counters /\ Agrees(call[c].seen)
      BY DEF TypeOK, AgreeInv
    <3>4. Agrees(Counted(call[c].seen, Buyer[c]))
      BY <3>3, CountingKeepsAgreement
    <3> QED
      BY <3>1, <3>2, <3>4 DEF AgreeInv
  <2>5. ASSUME NEW active \in BOOLEAN, NEW limit \in Limits, Edit(active, limit) PROVE AgreeInv'
    <3>1. promo'.count = promo.count /\ UNCHANGED call
      BY <2>5 DEF TypeOK, Edit
    <3> QED
      BY <3>1 DEF AgreeInv
  <2>6. CASE Delete
    <3>1. promo'.count = promo.count /\ UNCHANGED call
      BY <2>6 DEF TypeOK, Delete
    <3> QED
      BY <3>1 DEF AgreeInv
  <2> QED
    BY <2>1, <2>2, <2>3, <2>4, <2>5, <2>6 DEF Next
<1>3. AgreeInv => CountersAgree
  BY DEF AgreeInv, Agrees, CountersAgree
<1> QED
  BY <1>1, <1>2, <1>3, TypesHold, PTL DEF Spec
-----------------------------------------------------------------------------
(* The marking codes are those that MarkingAdminProofs treats. *)
LEMMA SameMarking ==
  /\ A!Init <=> P!Init
  /\ A!Next <=> P!Next
  /\ A!StockIsCounted <=> P!StockIsCounted
<1>1. A!Init <=> P!Init
  BY DEF A!Init, P!Init, A!NoRow, P!NoRow, A!Idle, P!Idle
<1>2. A!InStock = P!InStock /\ \A few : A!Cardinality(few) = P!Cardinality(few)
  BY DEF A!InStock, P!InStock, A!Cardinality, P!Cardinality
<1>3. A!StockIsCounted <=> P!StockIsCounted
  BY <1>2 DEF A!StockIsCounted, P!StockIsCounted, A!At, P!At
<1>4. A!Recount = P!Recount
  BY <1>2 DEF A!Recount, P!Recount
<1>5. A!Next <=> P!Next
  BY <1>4 DEF A!Next, P!Next,
     A!Insert, P!Insert, A!Save, P!Save, A!Bulk, P!Bulk, A!Remove, P!Remove, A!FindVariants,
     P!FindVariants, A!SyncVariantStock, P!SyncVariantStock, A!Fail, P!Fail, A!StartList,
     P!StartList, A!Reserve, P!Reserve, A!StartUpdate, P!StartUpdate, A!StartBulk, P!StartBulk,
     A!StartCreate, P!StartCreate, A!Look, P!Look, A!StartDelete, P!StartDelete, A!Transition,
     P!Transition, A!At, P!At, A!Sync, P!Sync, A!Done, P!Done, A!Following, P!Following,
     A!Pending, P!Pending, A!With, P!With, A!Exists, P!Exists, A!NoRow, P!NoRow, A!Idle,
     P!Idle, A!InStock, P!InStock
<1> QED
  BY <1>1, <1>3, <1>5

(* Whatever operations of the office and orders overlap, the stock of the  *)
(* variant is the number of its codes in stock as soon as all have ended,  *)
(* unless the last request that wrote codes has broken off, released codes *)
(* or changed them blindly, without a recount since.                       *)
THEOREM TheStockIsRecounted == ShopSpec => []StockIsCounted
<1> DEFINE Inv == part = "marking" => P!Typed /\ P!ARecountIsDue
<1>1. ShopInit => Inv
  <2>1. ShopInit /\ part = "marking" => P!Init
    BY SameMarking DEF ShopInit
  <2> QED
    BY <2>1, P!AllStarts
<1>2. Inv /\ [ShopNext]_all => Inv'
  <2>1. SUFFICES ASSUME Inv, [ShopNext]_all, part' = "marking" PROVE (P!Typed /\ P!ARecountIsDue)'
    OBVIOUS
  <2>2. part = "marking"
    BY <2>1 DEF ShopNext, all
  <2>3. CASE UNCHANGED all
    <3>1. UNCHANGED P!vars
      BY <2>3 DEF all, marking, P!vars
    <3> QED
      BY <2>1, <2>2, <3>1, P!AllStays
  <2>4. CASE ShopNext
    <3>1. P!Next
      BY <2>2, <2>4, SameMarking DEF ShopNext
    <3> QED
      BY <2>1, <2>2, <3>1, P!AllStays
  <2> QED
    BY <2>1, <2>3, <2>4
<1>3. Inv => StockIsCounted
  BY P!AllMeans, SameMarking DEF StockIsCounted
<1> QED
  BY <1>1, <1>2, <1>3, PTL DEF ShopSpec
-----------------------------------------------------------------------------
(* The pairs are those of the join that pass.                              *)
LEMMA PairsArePassing ==
  ASSUME NEW q, NEW without
  PROVE  /\ F!Pairs(q, without) \subseteq Products \X (Sizes \cup {F!Null})
         /\ \A p \in Products, z \in Sizes \cup {F!Null} :
              <<p, z>> \in F!Pairs(q, without) <=>
                /\ F!ProductMatches(q, p, without)
                /\ z \in F!Joined(p) /\ F!VariantMatches(q, p, z, without)
<1> DEFINE some(p) == {p} \X {z \in F!Joined(p) : F!VariantMatches(q, p, z, without)}
           those == {x \in Products : F!ProductMatches(q, x, without)}
<1>1. F!Pairs(q, without) = UNION {some(p) : p \in those}
  BY DEF F!Pairs
<1>2. \A p \in Products : F!Joined(p) \subseteq Sizes \cup {F!Null}
  BY DEF F!Joined
<1>3. ASSUME NEW x \in F!Pairs(q, without)
      PROVE  \E p \in those : \E z \in F!Joined(p) : x = <<p, z>> /\ F!VariantMatches(q, p, z, without)
  <2>1. PICK p \in those : x \in some(p)
    BY <1>1
  <2> QED
    BY <2>1
<1>4. ASSUME NEW p \in those, NEW z \in F!Joined(p), F!VariantMatches(q, p, z, without)
      PROVE  <<p, z>> \in F!Pairs(q, without)
  <2>1. <<p, z>> \in some(p)
    BY <1>4
  <2> QED
    BY <1>1, <2>1
<1>5. F!Pairs(q, without) \subseteq Products \X (Sizes \cup {F!Null})
  BY <1>2, <1>3
<1>6. ASSUME NEW p \in Products, NEW z, <<p, z>> \in F!Pairs(q, without)
      PROVE  /\ F!ProductMatches(q, p, without)
             /\ z \in F!Joined(p) /\ F!VariantMatches(q, p, z, without)
  BY <1>3, <1>6
<1> QED
  BY <1>4, <1>5, <1>6

(* Two sets with the same members have the same number of them.            *)
LEMMA FacetCountsCards ==
  ASSUME NEW q \in F!Query
  PROVE  /\ \A c \in Colors : F!ColorCount(q, c) = F!Cardinality(F!Groups([q EXCEPT !.colors = {c}]))
         /\ \A z \in Sizes : F!SizeCount(q, z) = F!Cardinality(F!Groups([q EXCEPT !.sizes = {z}]))
<1> USE DEF F!Query
<1>1. ASSUME NEW c \in Colors
      PROVE  F!ColorCount(q, c) = F!Cardinality(F!Groups([q EXCEPT !.colors = {c}]))
  <2> DEFINE chosen == [q EXCEPT !.colors = {c}]
  <2>1. \A x \in Products \X (Sizes \cup {F!Null}) :
           x \in F!Pairs(chosen, "nothing") <=> x \in F!Pairs(q, "colors") /\ ColorOf[x[1]] = c
    BY PairsArePassing DEF F!ProductMatches, F!VariantMatches
  <2>2. F!Pairs(chosen, "nothing") = {x \in F!Pairs(q, "colors") : ColorOf[x[1]] = c}
    BY <2>1, PairsArePassing
  <2> HIDE DEF chosen
  <2>3. F!Groups(chosen) = {Model[pz[1]] : pz \in {x \in F!Pairs(q, "colors") : ColorOf[x[1]] = c}}
    BY <2>2 DEF F!Groups
  <2> QED
    BY <2>3 DEF F!ColorCount, chosen
<1>2. ASSUME NEW z \in Sizes
      PROVE  F!SizeCount(q, z) = F!Cardinality(F!Groups([q EXCEPT !.sizes = {z}]))
  <2> DEFINE chosen == [q EXCEPT !.sizes = {z}]
  <2>1. \A x \in Products \X (Sizes \cup {F!Null}) :
           x \in F!Pairs(chosen, "nothing") <=> x \in F!Pairs(q, "sizes") /\ x[2] = z
    BY PairsArePassing DEF F!ProductMatches, F!VariantMatches
  <2>2. F!Pairs(chosen, "nothing") = {x \in F!Pairs(q, "sizes") : x[2] = z}
    BY <2>1, PairsArePassing
  <2> HIDE DEF chosen
  <2>3. F!Groups(chosen) = {Model[pz[1]] : pz \in {x \in F!Pairs(q, "sizes") : x[2] = z}}
    BY <2>2 DEF F!Groups
  <2> QED
    BY <2>3 DEF F!SizeCount, chosen
<1> QED
  BY <1>1, <1>2

(* A group is on the page when a product of it and a variant of that pass. *)
LEMMA GroupsArePassing ==
  ASSUME NEW q, NEW g
  PROVE  g \in F!Groups(q) <=>
           \E p \in Products : \E z \in F!Joined(p) :
             Model[p] = g /\ F!ProductMatches(q, p, "nothing") /\ F!VariantMatches(q, p, z, "nothing")
<1>1. \A p \in Products : F!Joined(p) \subseteq Sizes \cup {F!Null}
  BY DEF F!Joined
<1>2. ASSUME NEW p \in Products, NEW z \in F!Joined(p), Model[p] = g,
             F!ProductMatches(q, p, "nothing"), F!VariantMatches(q, p, z, "nothing")
      PROVE  g \in F!Groups(q)
  <2>1. <<p, z>> \in F!Pairs(q, "nothing")
    BY <1>1, <1>2, PairsArePassing
  <2> QED
    BY <1>2, <2>1 DEF F!Groups
<1>3. ASSUME g \in F!Groups(q)
      PROVE  \E p \in Products : \E z \in F!Joined(p) :
               Model[p] = g /\ F!ProductMatches(q, p, "nothing") /\ F!VariantMatches(q, p, z, "nothing")
  <2>1. PICK pz \in F!Pairs(q, "nothing") : g = Model[pz[1]]
    BY <1>3 DEF F!Groups
  <2>2. /\ pz[1] \in Products /\ pz[2] \in F!Joined(pz[1])
        /\ F!ProductMatches(q, pz[1], "nothing") /\ F!VariantMatches(q, pz[1], pz[2], "nothing")
    BY PairsArePassing
  <2> QED
    BY <2>1, <2>2
<1> QED
  BY <1>2, <1>3

(* In every state whatsoever: the number beside a filter is the number of  *)
(* cards the listing then shows (getColorFacet, getSizeFacet and           *)
(* getPriceRange beside findAllGrouped, and findAll beside that).          *)
THEOREM FiltersAgree == ShopSpec => []FacetsPredictTheListing
<1>1. ASSUME NEW q \in F!Query
      PROVE  /\ \A m \in Prices : F!Groups([q EXCEPT !.price = m]) # {} <=> \E x \in F!PricesInRange(q) : x <= m
             /\ F!Groups(q) = {Model[p] : p \in {x \in Products : visible[x] /\ F!Flat(q, x)}}
             /\ \A g \in F!Groups(q) :
                  /\ F!Candidates(q, g) # {}
                  /\ \A p \in F!Candidates(q, g) :
                       {p} \cup F!Siblings(p) = {s \in Products : Model[s] = g /\ visible[s]}
  <2>1. ASSUME NEW m \in Prices
        PROVE  F!Groups([q EXCEPT !.price = m]) # {} <=> \E x \in F!PricesInRange(q) : x <= m
    <3> DEFINE chosen == [q EXCEPT !.price = m]
    <3>1. \A x \in Products \X (Sizes \cup {F!Null}) :
             x \in F!Pairs(chosen, "nothing") <=> x \in F!Pairs(q, "price") /\ PriceOf[x[1]] <= m
      BY PairsArePassing DEF F!Query, F!ProductMatches, F!VariantMatches
    <3>2. F!Pairs(chosen, "nothing") = {x \in F!Pairs(q, "price") : PriceOf[x[1]] <= m}
      BY <3>1, PairsArePassing
    <3> HIDE DEF chosen
    <3>3. F!Groups(chosen) # {} <=> \E x \in F!Pairs(q, "price") : PriceOf[x[1]] <= m
      BY <3>2 DEF F!Groups
    <3> QED
      BY <3>3 DEF F!PricesInRange, chosen
  <2>2. F!Groups(q) = {Model[p] : p \in {x \in Products : visible[x] /\ F!Flat(q, x)}}
    <3>1. \A p \in Products : visible[p] /\ F!Flat(q, p) <=>
            \E z \in F!Joined(p) : F!ProductMatches(q, p, "nothing") /\ F!VariantMatches(q, p, z, "nothing")
      BY DEF F!Flat, F!ProductMatches, F!VariantMatches
    <3>2. \A g : g \in F!Groups(q) <=> \E p \in Products : Model[p] = g /\ visible[p] /\ F!Flat(q, p)
      BY <3>1, GroupsArePassing
    <3> QED
      BY <3>2
  <2>3. ASSUME NEW g \in F!Groups(q) PROVE F!Candidates(q, g) # {}
    BY GroupsArePassing DEF F!Candidates
  <2>4. ASSUME NEW g \in F!Groups(q), NEW p \in F!Candidates(q, g)
        PROVE  {p} \cup F!Siblings(p) = {s \in Products : Model[s] = g /\ visible[s]}
    BY DEF F!Candidates, F!Siblings, F!ProductMatches
  <2> QED
    BY <2>1, <2>2, <2>3, <2>4
<1>2. FacetsPredictTheListing
  BY <1>1, FacetCountsCards DEF FacetsPredictTheListing, F!FacetsPredictTheListing
<1> QED
  BY <1>2, PTL
-----------------------------------------------------------------------------
(* In a calm behaviour one request is under way at a time. *)
OneAtATime == calm => \A r, q \in Calls : request[r].pc # "idle" /\ request[q].pc # "idle" => r = q

ReviewRow == [id : Nat, text : Nat, rating : Nat, approved : BOOLEAN]

ReviewsTyped ==
  /\ review \in [Customers -> ReviewRow] /\ texts \in Nat /\ calm \in BOOLEAN
  /\ request = [r \in Calls |-> request[r]]
  /\ \A r \in Calls : /\ request[r].pc \in {"insert", "write"} =>
                            request[r].user \in Customers /\ request[r].rating \in Nat
                      /\ request[r].pc = "write" => request[r].op \in R!Ops

ApprovalsAreKnown == \A u \in Customers : review[u].approved => review[u].text \in approvals

(* The rating is old only while the request that changed the reviews       *)
(* counts them and writes what it has counted.                             *)
RatingIsDue ==
  calm => /\ (\A r \in Calls : request[r].pc \notin {"count", "rate"}) => shown = R!Aggregate
          /\ \A r \in Calls : request[r].pc = "rate" => request[r].seen = {R!Aggregate}

ReviewsInv == ReviewsTyped /\ ApprovalsAreKnown /\ OneAtATime /\ RatingIsDue
-----------------------------------------------------------------------------
(* The rating depends on the approved reviews only.                        *)
LEMMA SameApprovedSameRating ==
  ASSUME ReviewsTyped, ReviewsTyped',
         \A u \in Customers : /\ review'[u].approved = review[u].approved
                              /\ review[u].approved => review'[u].rating = review[u].rating
  PROVE  R!Aggregate' = R!Aggregate
<1>1. R!Approved' = R!Approved
  BY DEF R!Approved
<1>2. [u \in R!Approved |-> review[u].rating]' = [u \in R!Approved |-> review[u].rating]
  BY <1>1 DEF R!Approved
<1> QED
  BY <1>2 DEF R!Aggregate, R!AggregateOf

LEMMA ReviewsStart ==
  ASSUME R!Init
  PROVE  ReviewsInv
<1> USE DEF R!Init
<1>1. R!NoReview \in ReviewRow /\ R!NoReview.approved = FALSE
  BY DEF R!NoReview, ReviewRow
<1>2. request = [r \in Calls |-> R!Idle] /\ R!Idle.pc = "idle"
  BY DEF R!Idle
<1>3. R!Approved = {}
  BY <1>1 DEF R!Approved
<1>4. R!Cardinality(DOMAIN [u \in R!Approved |-> review[u].rating]) = 0
  <2>1. R!Cardinality({}) = Cardinality({})
    BY DEF R!Cardinality, Cardinality
  <2>2. DOMAIN [u \in R!Approved |-> review[u].rating] = {}
    BY <1>3
  <2> QED
    BY <2>1, <2>2, FS_EmptySet
<1>5. R!Aggregate = [rating |-> 0, count |-> 0]
  BY <1>4 DEF R!Aggregate, R!AggregateOf
<1>6. ReviewsTyped
  BY <1>1, <1>2 DEF ReviewsTyped
<1>7. ApprovalsAreKnown
  BY <1>1 DEF ApprovalsAreKnown
<1>8. OneAtATime /\ RatingIsDue
  BY <1>2, <1>5 DEF OneAtATime, RatingIsDue
<1> QED
  BY <1>6, <1>7, <1>8 DEF ReviewsInv

(* What a step does to the requests: one of them moves.                    *)
LEMMA ReviewsStay ==
  ASSUME ReviewsInv, [R!Next]_(R!vars), Ratings \subseteq Nat
  PROVE  ReviewsInv'
<1> USE DEF ReviewsInv
<1>i. R!Idle.pc = "idle"
  BY DEF R!Idle
<1>1. CASE UNCHANGED R!vars
  BY <1>1 DEF R!vars, ReviewsTyped, ApprovalsAreKnown, OneAtATime, RatingIsDue, R!Aggregate,
     R!AggregateOf, R!Approved
<1>2. ASSUME UNCHANGED <<review, texts, shown, approvals, calm>>,
             NEW r \in Calls, NEW c, request' = [request EXCEPT ![r] = c],
             c.pc \in {"insert", "write"} => c.user \in Customers /\ c.rating \in Nat,
             c.pc = "write" => c.op \in R!Ops,
             calm /\ c.pc # "idle" => \A q \in Calls : q # r => request[q].pc = "idle",
             calm /\ request[r].pc \in {"count", "rate"} => c.pc \in {"count", "rate"},
             calm /\ c.pc = "rate" => c.seen = {R!Aggregate}
      PROVE  ReviewsInv'
  <2>1. /\ request'[r] = c /\ \A q \in Calls : q # r => request'[q] = request[q]
        /\ request' = [q \in Calls |-> request'[q]]
    BY <1>2 DEF ReviewsTyped
  <2>2. R!Aggregate' = R!Aggregate
    BY <1>2 DEF R!Aggregate, R!AggregateOf, R!Approved
  <2>3. ReviewsTyped' /\ ApprovalsAreKnown'
    BY <1>2, <2>1 DEF ReviewsTyped, ApprovalsAreKnown
  <2>4. OneAtATime'
    BY <1>2, <2>1 DEF OneAtATime
  <2>5. RatingIsDue'
    BY <1>2, <2>1, <2>2 DEF RatingIsDue, ReviewsTyped
  <2> QED
    BY <2>3, <2>4, <2>5
<1>3. ASSUME NEW r \in Calls, request[r].pc # "idle", calm
      PROVE  \A q \in Calls : q # r => request[q].pc = "idle"
  BY <1>3 DEF OneAtATime
<1>4. ASSUME NEW r \in Calls, R!MayStart(r)
      PROVE  request[r].pc = "idle" /\ (calm => \A q \in Calls : request[q].pc = "idle")
  BY <1>4 DEF R!MayStart
<1>5. ASSUME NEW r \in Calls, NEW u \in Customers, NEW n \in Ratings, R!StartCreate(r, u, n)
      PROVE  ReviewsInv'
  <2> DEFINE c == [pc |-> "insert", op |-> "create", user |-> u, id |-> 0, rating |-> n, seen |-> {}]
  <2>1. /\ request' = [request EXCEPT ![r] = c] /\ UNCHANGED <<review, texts, shown, approvals, calm>>
        /\ R!MayStart(r)
    BY <1>5 DEF R!StartCreate, R!Start
  <2>2. c.pc = "insert" /\ c.user \in Customers /\ c.rating \in Nat
    OBVIOUS
  <2> HIDE DEF c
  <2> QED
    BY <1>2, <1>4, <2>1, <2>2
<1>6. ASSUME NEW r \in Calls, NEW u \in Customers, NEW n \in Ratings, NEW op \in R!Ops, R!StartOn(r, op, u, n)
      PROVE  ReviewsInv'
  <2> DEFINE c == [pc |-> "write", op |-> op, user |-> u, id |-> review[u].id,
                   rating |-> IF op = "edit" THEN n ELSE 0, seen |-> {}]
  <2>1. /\ request' = [request EXCEPT ![r] = c] /\ UNCHANGED <<review, texts, shown, approvals, calm>>
        /\ R!MayStart(r)
    BY <1>6 DEF R!StartOn, R!Start
  <2>2. c.pc = "write" /\ c.op \in R!Ops /\ c.user \in Customers /\ c.rating \in Nat
    OBVIOUS
  <2> HIDE DEF c
  <2> QED
    BY <1>2, <1>4, <2>1, <2>2
<1>7. ASSUME NEW r \in Calls, R!StartList(r) PROVE ReviewsInv'
  <2> DEFINE c == [pc |-> "list", op |-> "list", user |-> "nobody", id |-> 0, rating |-> 0, seen |-> {}]
  <2>1. /\ request' = [request EXCEPT ![r] = c] /\ UNCHANGED <<review, texts, shown, approvals, calm>>
        /\ R!MayStart(r)
    BY <1>7 DEF R!StartList, R!Start
  <2>2. c.pc = "list"
    OBVIOUS
  <2> HIDE DEF c
  <2> QED
    BY <1>2, <1>4, <2>1, <2>2
<1>8. ASSUME NEW r \in Calls, R!Count(r) PROVE ReviewsInv'
  <2> DEFINE c == [R!Idle EXCEPT !.pc = "rate", !.seen = {R!Aggregate}]
  <2>1. /\ request' = [request EXCEPT ![r] = c] /\ UNCHANGED <<review, texts, shown, approvals, calm>>
        /\ request[r].pc = "count"
    BY <1>8 DEF R!Count, R!At
  <2>2. c.pc = "rate" /\ c.seen = {R!Aggregate}
    BY DEF R!Idle
  <2> HIDE DEF c
  <2> QED
    BY <1>2, <1>3, <2>1, <2>2
<1>9. ASSUME NEW r \in Calls, NEW pc \in {"keys", "del"}, request[r].pc \notin {"idle", "count", "rate"},
             R!Goto(r, pc) \/ R!Done(r),
             UNCHANGED <<review, texts, shown, approvals, calm>>
      PROVE  ReviewsInv'
  <2>1. PICK c : c.pc \in {"keys", "del", "idle"} /\ request' = [request EXCEPT ![r] = c]
    BY <1>9 DEF R!Goto, R!Done, R!Idle
  <2> QED
    BY <1>2, <1>3, <1>9, <2>1
<1>10. ASSUME NEW r \in Calls, R!Keys(r) \/ R!Del(r) \/ R!Store(r) PROVE ReviewsInv'
  BY <1>9, <1>10 DEF R!Keys, R!Del, R!Store, R!At
<1>11. ASSUME NEW r \in Calls, R!List(r) PROVE ReviewsInv'
  <2> DEFINE c == [R!Idle EXCEPT !.pc = "store", !.seen = R!ApprovedTexts]
  <2>1. /\ request' = [request EXCEPT ![r] = c] /\ UNCHANGED <<review, texts, shown, approvals, calm>>
        /\ request[r].pc = "list"
    BY <1>11 DEF R!List, R!At
  <2>2. c.pc = "store"
    BY DEF R!Idle
  <2> HIDE DEF c
  <2> QED
    BY <1>2, <1>3, <2>1, <2>2
<1>12. ASSUME NEW r \in Calls, R!Die(r) PROVE ReviewsInv'
  <2>1. /\ request' = [request EXCEPT ![r] = R!Idle] /\ UNCHANGED <<review, texts, shown, approvals, calm>>
        /\ ~ calm
    BY <1>12 DEF R!Die, R!Done
  <2> QED
    BY <1>2, <1>i, <2>1
<1>13. CASE R!Expire
  BY <1>13 DEF R!Expire, ReviewsTyped, ApprovalsAreKnown, OneAtATime, RatingIsDue, R!Aggregate,
     R!AggregateOf, R!Approved
<1>14. ASSUME NEW r \in Calls, R!Rate(r) PROVE ReviewsInv'
  <2> DEFINE c == [R!Idle EXCEPT !.pc = "keys"]
  <2>1. /\ request' = [request EXCEPT ![r] = c] /\ UNCHANGED <<review, texts, approvals, calm>>
        /\ request[r].pc = "rate" /\ \E a \in request[r].seen : shown' = a
    BY <1>14 DEF R!Rate, R!Goto, R!At
  <2>2. c.pc = "keys"
    BY DEF R!Idle
  <2> HIDE DEF c
  <2>3. /\ request'[r] = c /\ \A q \in Calls : q # r => request'[q] = request[q]
        /\ request' = [q \in Calls |-> request'[q]]
    BY <2>1 DEF ReviewsTyped
  <2>4. R!Aggregate' = R!Aggregate
    BY <2>1 DEF R!Aggregate, R!AggregateOf, R!Approved
  <2>5. ReviewsTyped' /\ ApprovalsAreKnown'
    BY <2>1, <2>2, <2>3 DEF ReviewsTyped, ApprovalsAreKnown
  <2>6. OneAtATime'
    BY <1>3, <2>1, <2>2, <2>3 DEF OneAtATime
  <2>7. calm => shown' = R!Aggregate
    BY <2>1 DEF RatingIsDue
  <2>8. RatingIsDue'
    BY <1>3, <2>1, <2>2, <2>3, <2>4, <2>7 DEF RatingIsDue, ReviewsTyped
  <2> QED
    BY <2>5, <2>6, <2>8
<1>15. ASSUME NEW r \in Calls, R!Insert(r) PROVE ReviewsInv'
  <2> DEFINE u == request[r].user
             entry == [id |-> texts + 1, text |-> texts + 1, rating |-> request[r].rating, approved |-> FALSE]
  <2>0. request[r].pc = "insert" /\ u \in Customers /\ request[r].rating \in Nat
    BY <1>15 DEF R!Insert, R!At, ReviewsTyped
  <2>1. CASE R!Exists(u)
    BY <1>9, <1>15, <2>0, <2>1 DEF R!Insert
  <2>2. CASE ~ R!Exists(u)
    <3> DEFINE c == [R!Idle EXCEPT !.pc = "keys"]
    <3>1. /\ request' = [request EXCEPT ![r] = c] /\ UNCHANGED <<shown, approvals, calm>>
          /\ texts' = texts + 1 /\ review' = [review EXCEPT ![u] = entry]
      BY <1>15, <2>2 DEF R!Insert, R!Goto
    <3>2. c.pc = "keys" /\ entry \in ReviewRow /\ entry.approved = FALSE
      BY <2>0 DEF R!Idle, ReviewRow, ReviewsTyped
    <3> HIDE DEF c, entry
    <3>3. /\ request'[r] = c /\ \A q \in Calls : q # r => request'[q] = request[q]
          /\ request' = [q \in Calls |-> request'[q]]
      BY <3>1 DEF ReviewsTyped
    <3>4. review[u].approved = FALSE
      BY <2>2 DEF R!Exists, R!NoReview
    <3>5. review'[u] = entry /\ \A v \in Customers : v # u => review'[v] = review[v]
      BY <2>0, <3>1 DEF ReviewsTyped
    <3>6. ReviewsTyped'
      BY <2>0, <3>1, <3>2, <3>3 DEF ReviewsTyped
    <3>7. R!Aggregate' = R!Aggregate
      BY <3>2, <3>4, <3>5, <3>6, SameApprovedSameRating
    <3>8. ApprovalsAreKnown'
      BY <3>1, <3>2, <3>5 DEF ApprovalsAreKnown
    <3>9. OneAtATime'
      BY <1>3, <2>0, <3>1, <3>2, <3>3 DEF OneAtATime
    <3>10. RatingIsDue'
      BY <1>3, <2>0, <3>1, <3>2, <3>3, <3>7 DEF RatingIsDue, ReviewsTyped
    <3> QED
      BY <3>6, <3>8, <3>9, <3>10
  <2> QED
    BY <2>1, <2>2
<1>16. ASSUME NEW r \in Calls, R!Write(r) PROVE ReviewsInv'
  <2> DEFINE d == request[r]
             entry == review[d.user]
             there == entry.id = d.id
  <2>0. d.pc = "write" /\ d.user \in Customers /\ d.op \in R!Ops /\ d.rating \in Nat /\ entry \in ReviewRow
    BY <1>16 DEF R!Write, R!At, ReviewsTyped
  <2>1. CASE ~ there
    <3>1. UNCHANGED <<texts, review, shown, approvals, calm>>
      BY <1>16, <2>1 DEF R!Write, ReviewsTyped
    <3>2. PICK c : c.pc \in {"idle", "count"} /\ request' = [request EXCEPT ![r] = c]
      BY <1>16, <2>1 DEF R!Write, R!Goto, R!Done, R!Idle
    <3> QED
      BY <1>2, <1>3, <2>0, <3>1, <3>2
  <2>2. CASE there /\ d.op = "reply"
    <3>1. UNCHANGED <<texts, review, shown, approvals, calm>>
      BY <1>16, <2>2 DEF R!Write, ReviewsTyped
    <3>2. PICK c : c.pc = "keys" /\ request' = [request EXCEPT ![r] = c]
      BY <1>16, <2>2 DEF R!Write, R!Goto, R!Done, R!Idle
    <3> QED
      BY <1>2, <1>3, <2>0, <3>1, <3>2
  <2>3. CASE there /\ d.op # "reply"
    <3>1. PICK c : c.pc = "count" /\ request' = [request EXCEPT ![r] = c]
      BY <1>16, <2>3 DEF R!Write, R!Goto, R!Idle
    <3>2. /\ request'[r] = c /\ \A q \in Calls : q # r => request'[q] = request[q]
          /\ request' = [q \in Calls |-> request'[q]]
      BY <3>1 DEF ReviewsTyped
    <3>3. texts' \in Nat /\ UNCHANGED <<shown, calm>> /\ approvals \subseteq approvals'
      BY <1>16 DEF R!Write, ReviewsTyped
    <3>4. PICK new \in ReviewRow : /\ review' = [review EXCEPT ![d.user] = new]
                                   /\ new.approved => new.text \in approvals'
      <4>1. CASE d.op = "edit"
        <5>1. /\ review' = [review EXCEPT ![d.user] = R!Edited(entry, texts', d.rating)]
          BY <1>16, <2>3, <4>1 DEF R!Write
        <5>2. R!Edited(entry, texts', d.rating) \in ReviewRow /\ ~ R!Edited(entry, texts', d.rating).approved
          BY <2>0, <3>3 DEF R!Edited, ReviewRow
        <5> QED
          BY <5>1, <5>2
      <4>2. CASE d.op = "delete"
        <5>1. review' = [review EXCEPT ![d.user] = R!NoReview]
          BY <1>16, <2>3, <4>2 DEF R!Write
        <5>2. R!NoReview \in ReviewRow /\ ~ R!NoReview.approved
          BY DEF R!NoReview, ReviewRow
        <5> QED
          BY <5>1, <5>2
      <4>3. CASE d.op = "approve"
        <5>1. review' = [review EXCEPT ![d.user] = [entry EXCEPT !.approved = TRUE]]
          BY <1>16, <2>3, <4>3 DEF R!Write
        <5>2. [entry EXCEPT !.approved = TRUE] \in ReviewRow /\ [entry EXCEPT !.approved = TRUE].text = entry.text
          BY <2>0 DEF ReviewRow
        <5>3. entry.text \in approvals'
          BY <1>16, <2>3, <4>3 DEF R!Write
        <5> QED
          BY <5>1, <5>2, <5>3
      <4>4. CASE d.op = "reject"
        <5>1. review' = [review EXCEPT ![d.user] = [entry EXCEPT !.approved = FALSE]]
          BY <1>16, <2>3, <4>4 DEF R!Write
        <5>2. [entry EXCEPT !.approved = FALSE] \in ReviewRow /\ ~ [entry EXCEPT !.approved = FALSE].approved
          BY <2>0 DEF ReviewRow
        <5> QED
          BY <5>1, <5>2
      <4> QED
        BY <2>0, <2>3, <4>1, <4>2, <4>3, <4>4 DEF R!Ops
    <3>5. review'[d.user] = new /\ \A v \in Customers : v # d.user => review'[v] = review[v]
      BY <2>0, <3>4 DEF ReviewsTyped
    <3>6. ReviewsTyped'
      BY <2>0, <3>1, <3>2, <3>3, <3>4 DEF ReviewsTyped
    <3>7. ApprovalsAreKnown'
      BY <2>0, <3>3, <3>4, <3>5 DEF ApprovalsAreKnown
    <3>8. OneAtATime'
      BY <1>3, <2>0, <3>1, <3>2, <3>3 DEF OneAtATime
    <3>9. RatingIsDue'
      BY <1>3, <2>0, <3>1, <3>2, <3>3 DEF RatingIsDue, ReviewsTyped
    <3> QED
      BY <3>6, <3>7, <3>8, <3>9
  <2> QED
    BY <2>1, <2>2, <2>3
<1> QED
  BY <1>1, <1>5, <1>6, <1>7, <1>8, <1>10, <1>11, <1>12, <1>13, <1>14, <1>15, <1>16 DEF R!Next, R!Step

(* A text that is shown was approved as it is, however the edits, the      *)
(* approvals and the deletions of one review run into each other; and with *)
(* one request at a time the product shows the rating and the number of    *)
(* its approved reviews.                                                   *)
THEOREM ShownTextsAreApproved ==
  ASSUME Ratings \subseteq Nat
  PROVE  ShopSpec => []OnlyApprovedIsShown
<1> DEFINE Inv == part = "reviews" => ReviewsInv
<1>1. ShopInit => Inv
  BY ReviewsStart DEF ShopInit
<1>2. Inv /\ [ShopNext]_all => Inv'
  <2>1. SUFFICES ASSUME Inv, [ShopNext]_all, part' = "reviews" PROVE ReviewsInv'
    OBVIOUS
  <2>2. part = "reviews"
    BY <2>1 DEF ShopNext, all
  <2>3. CASE UNCHANGED all
    <3>1. UNCHANGED R!vars
      BY <2>3 DEF all, reviews, R!vars
    <3> QED
      BY <2>1, <2>2, <3>1, ReviewsStay
  <2>4. CASE ShopNext
    <3>1. R!Next
      BY <2>2, <2>4 DEF ShopNext
    <3> QED
      BY <2>1, <2>2, <3>1, ReviewsStay
  <2> QED
    BY <2>1, <2>3, <2>4
<1>3. Inv => OnlyApprovedIsShown
  <2>1. ASSUME ReviewsInv PROVE R!OnlyApprovedIsShown
    <3>1. R!ApprovedTexts \subseteq approvals
      BY <2>1 DEF ReviewsInv, ApprovalsAreKnown, R!ApprovedTexts, R!Approved
    <3>2. calm /\ (\A r \in Calls : R!At(r, "idle")) => shown = R!Aggregate
      BY <2>1 DEF ReviewsInv, RatingIsDue, R!At
    <3> QED
      BY <3>1, <3>2 DEF R!OnlyApprovedIsShown
  <2> QED
    BY <2>1 DEF OnlyApprovedIsShown
<1> QED
  BY <1>1, <1>2, <1>3, PTL DEF ShopSpec
-----------------------------------------------------------------------------
Tables == [Cats -> Cats \cup {T!Root, T!Gone}]
Rooted(table) == \A c \in T!In(table) : table[c] \in T!In(table) \cup {T!Root}

TreeRequest ==
  [pc : {"idle", "insert", "walk", "move", "delete", "flush", "store"},
   cat : Cats \cup {T!Root}, target : Cats \cup {T!Root}, at : Cats \cup {T!Root},
   visited : SUBSET Cats, seen : Tables \cup {T!NotCached}]

TreeTyped ==
  /\ parent \in Tables /\ Rooted(parent) /\ calm \in BOOLEAN
  /\ request \in [Calls -> TreeRequest]
  /\ \A r \in Calls : /\ request[r].pc \in {"insert", "walk", "move", "delete"} => request[r].cat \in Cats
                      /\ request[r].pc = "walk" => request[r].at \in Cats

TreeIsWhole == calm => T!BuiltTree(parent) = T!In(parent)

(* The categories that the new parent hangs from, with it.                 *)
Ancestry(p, c, line) ==
  /\ line \subseteq T!In(parent) /\ p \in line /\ c \notin line
  /\ \A v \in line : parent[v] \in line \cup {T!Root}

(* The walk has not met the category and knows the parents of what it has  *)
(* visited; when it ends, the new parent does not hang from the category.  *)
WalkIsSound(c) ==
  c.pc = "walk" =>
    /\ {c.cat, c.at} \cup c.visited \subseteq T!In(parent) /\ c.cat \notin c.visited
    /\ c.target \in c.visited \cup {c.at}
    /\ \A v \in c.visited : parent[v] \in c.visited \cup {c.at}

MoveIsSound(c) ==
  c.pc = "move" => c.cat \in T!In(parent) /\ \E line \in SUBSET Cats : Ancestry(c.target, c.cat, line)

WalksAreSound == calm => \A r \in Calls : WalkIsSound(request[r]) /\ MoveIsSound(request[r])

TreeIsCached ==
  calm => /\ tree \in {T!NotCached, parent} \/ \E r \in Calls : request[r].pc = "flush"
          /\ \A r \in Calls : request[r].pc = "store" => request[r].seen = parent

TreeInv == TreeTyped /\ OneAtATime /\ TreeIsWhole /\ WalksAreSound /\ TreeIsCached
-----------------------------------------------------------------------------
(* Every category is in the tree when every set with the roots and with    *)
(* the children of its own has them all.                                   *)
LEMMA WholeMeans ==
  ASSUME NEW table
  PROVE  T!BuiltTree(table) = T!In(table) <=>
           \A cs \in SUBSET T!In(table) : T!Attached(table, cs) => cs = T!In(table)
BY DEF T!BuiltTree

LEMMA AboveIsTheParent ==
  ASSUME NEW table \in Tables, Rooted(table), NEW c \in T!In(table)
  PROVE  T!Above(table, c) = table[c]
BY DEF T!Above, Rooted

(* create: a new category hangs from one that is there.                    *)
LEMMA InsertKeepsTheTree ==
  ASSUME NEW table \in Tables, Rooted(table), T!Root \notin Cats, T!Gone \notin Cats,
         T!BuiltTree(table) = T!In(table),
         NEW c \in Cats, table[c] = T!Gone, NEW p \in T!In(table) \cup {T!Root},
         NEW new, new = [table EXCEPT ![c] = p]
  PROVE  new \in Tables /\ Rooted(new) /\ T!BuiltTree(new) = T!In(new)
<1>1. /\ new \in Tables /\ new[c] = p /\ \A d \in Cats : d # c => new[d] = table[d]
  BY DEF Tables, T!In
<1>2. T!Root # T!Gone
  BY DEF T!Root, T!Gone
<1>3. T!In(new) = T!In(table) \cup {c} /\ c \notin T!In(table)
  BY <1>1, <1>2 DEF T!In
<1>4. Rooted(new)
  BY <1>1, <1>3 DEF Rooted, T!In
<1>5. \A d \in T!In(new) : T!Above(new, d) = new[d]
  BY <1>1, <1>4, AboveIsTheParent
<1>6. \A d \in T!In(table) : T!Above(table, d) = table[d] /\ d # c /\ new[d] = table[d]
  BY <1>1, <1>3, AboveIsTheParent DEF T!In
<1>7. ASSUME NEW cs \in SUBSET T!In(new), T!Attached(new, cs) PROVE cs = T!In(new)
  <2>1. T!Attached(table, cs \ {c})
    BY <1>3, <1>5, <1>6, <1>7 DEF T!Attached
  <2>2. cs \ {c} = T!In(table)
    BY <1>3, <2>1, WholeMeans
  <2>3. c \in cs
    BY <1>1, <1>3, <1>5, <1>7, <2>2 DEF T!Attached
  <2> QED
    BY <1>3, <2>2, <2>3
<1> QED
  BY <1>1, <1>4, <1>7, WholeMeans

(* delete: nothing hangs from the category.                                *)
LEMMA DeleteKeepsTheTree ==
  ASSUME NEW table \in Tables, Rooted(table), T!Root \notin Cats, T!Gone \notin Cats,
         T!BuiltTree(table) = T!In(table),
         NEW c \in Cats, \A d \in T!In(table) : table[d] # c,
         NEW new, new = [table EXCEPT ![c] = T!Gone]
  PROVE  new \in Tables /\ Rooted(new) /\ T!BuiltTree(new) = T!In(new)
<1>1. /\ new \in Tables /\ new[c] = T!Gone /\ \A d \in Cats : d # c => new[d] = table[d]
  BY DEF Tables
<1>2. T!In(new) = T!In(table) \ {c} /\ T!In(table) \subseteq Cats
  BY <1>1 DEF T!In
<1>3. Rooted(new)
  BY <1>1, <1>2 DEF Rooted
<1>4. \A d \in T!In(new) : T!Above(new, d) = table[d]
  BY <1>1, <1>2, <1>3, AboveIsTheParent
<1>5. \A d \in T!In(table) : T!Above(table, d) = table[d]
  BY AboveIsTheParent
<1>6. ASSUME NEW cs \in SUBSET T!In(new), T!Attached(new, cs) PROVE cs = T!In(new)
  <2> DEFINE ds == IF c \in T!In(table) THEN cs \cup {c} ELSE cs
  <2>1. T!Attached(table, ds) /\ ds \in SUBSET T!In(table)
    <3>1. ASSUME NEW d \in T!In(table), d # c, T!Above(table, d) \in ds \cup {T!Root} PROVE d \in cs
      <4>1. T!Above(new, d) \in cs \cup {T!Root} /\ d \in T!In(new)
        BY <1>2, <1>4, <1>5, <3>1
      <4> QED
        BY <1>6, <4>1 DEF T!Attached
    <3> QED
      BY <1>2, <3>1 DEF T!Attached
  <2>2. ds = T!In(table)
    BY <2>1, WholeMeans
  <2> QED
    BY <1>2, <2>2
<1> QED
  BY <1>1, <1>3, <1>6, WholeMeans

(* update: the new parent does not hang from the category.                 *)
LEMMA MoveKeepsTheTree ==
  ASSUME NEW table \in Tables, Rooted(table), T!Root \notin Cats, T!Gone \notin Cats,
         T!BuiltTree(table) = T!In(table),
         NEW c \in T!In(table), NEW line \in SUBSET T!In(table), NEW p \in line, c \notin line,
         \A v \in line : table[v] \in line \cup {T!Root},
         NEW new, new = [table EXCEPT ![c] = p]
  PROVE  new \in Tables /\ Rooted(new) /\ T!BuiltTree(new) = T!In(new)
<1>1. /\ c \in Cats /\ p \in Cats /\ p \in T!In(table)
      /\ new \in Tables /\ new[c] = p /\ \A d \in Cats : d # c => new[d] = table[d]
  BY DEF Tables, T!In
<1>2. T!In(new) = T!In(table) /\ T!In(table) \subseteq Cats
  BY <1>1 DEF T!In
<1>3. Rooted(new)
  BY <1>1, <1>2 DEF Rooted
<1>4. \A d \in T!In(table) : T!Above(new, d) = new[d] /\ T!Above(table, d) = table[d]
  BY <1>1, <1>2, <1>3, AboveIsTheParent
<1>5. ASSUME NEW cs \in SUBSET T!In(new), T!Attached(new, cs) PROVE cs = T!In(new)
  <2> DEFINE ds == cs \cup (T!In(table) \ line)
  <2>1. T!Attached(table, ds) /\ ds \in SUBSET T!In(table)
    <3>1. ASSUME NEW d \in T!In(table), T!Above(table, d) \in ds \cup {T!Root}, d \in line PROVE d \in cs
      <4>1. table[d] \in cs \cup {T!Root}
        BY <1>1, <1>2, <1>4, <3>1
      <4>2. T!Above(new, d) \in cs \cup {T!Root}
        BY <1>1, <1>2, <1>4, <3>1, <4>1
      <4> QED
        BY <1>2, <1>5, <4>2 DEF T!Attached
    <3> QED
      BY <1>2, <3>1 DEF T!Attached
  <2>2. line \subseteq cs
    BY <2>1, WholeMeans
  <2>3. c \in cs
    <3>1. T!Above(new, c) = p /\ p \in cs
      BY <1>1, <1>4, <2>2
    <3> QED
      BY <1>2, <1>5, <3>1 DEF T!Attached
  <2>4. T!Attached(table, cs)
    <3>1. ASSUME NEW d \in T!In(table), T!Above(table, d) \in cs \cup {T!Root}, d # c PROVE d \in cs
      <4>1. T!Above(new, d) \in cs \cup {T!Root}
        BY <1>1, <1>2, <1>4, <3>1
      <4> QED
        BY <1>2, <1>5, <4>1 DEF T!Attached
    <3> QED
      BY <2>3, <3>1 DEF T!Attached
  <2> QED
    BY <1>2, <2>4, WholeMeans
<1> QED
  BY <1>1, <1>3, <1>5, WholeMeans
-----------------------------------------------------------------------------
LEMMA TreeStarts ==
  ASSUME T!Init
  PROVE  TreeInv
<1> USE DEF T!Init
<1>1. T!Idle \in TreeRequest /\ T!Idle.pc = "idle"
  BY DEF T!Idle, TreeRequest
<1>2. \A r \in Calls : request[r].pc = "idle"
  BY <1>1
<1>3. T!In(parent) = {}
  BY DEF T!In
<1>4. TreeTyped
  BY <1>1, <1>2, <1>3 DEF TreeTyped, Tables, Rooted
<1>5. TreeIsWhole
  BY <1>3 DEF TreeIsWhole, T!BuiltTree
<1>6. OneAtATime /\ WalksAreSound /\ TreeIsCached
  BY <1>2 DEF OneAtATime, WalksAreSound, WalkIsSound, MoveIsSound, TreeIsCached
<1> QED
  BY <1>4, <1>5, <1>6 DEF TreeInv

(* A request that moves on and leaves the table alone.                     *)
LEMMA TreeRequestMoves ==
  ASSUME TreeInv, UNCHANGED <<parent, calm>>,
         NEW r \in Calls, NEW c \in TreeRequest, request' = [request EXCEPT ![r] = c],
         c.pc \in {"insert", "walk", "move", "delete"} => c.cat \in Cats, c.pc = "walk" => c.at \in Cats,
         calm => \A q \in Calls : q # r => request[q].pc = "idle",
         calm => tree' \in {T!NotCached, parent} \/ c.pc = "flush",
         calm /\ c.pc = "store" => c.seen = parent,
         calm => WalkIsSound(c) /\ MoveIsSound(c)
  PROVE  TreeInv'
<1> USE DEF TreeInv
<1>1. /\ request'[r] = c /\ \A q \in Calls : q # r => request'[q] = request[q]
      /\ request' \in [Calls -> TreeRequest]
  BY DEF TreeTyped
<1>2. T!In(parent)' = T!In(parent)
  BY DEF T!In
<1>3. TreeTyped'
  BY <1>1, <1>2 DEF TreeTyped, Rooted
<1>4. OneAtATime'
  BY <1>1 DEF OneAtATime
<1>5. TreeIsWhole'
  BY DEF TreeIsWhole, T!BuiltTree, T!Attached, T!Above, T!In
<1>6. calm => \A q \in Calls : request'[q].pc # "idle" => q = r
  BY <1>1
<1>7. WalksAreSound'
  <2>1. calm => (WalkIsSound(c) /\ MoveIsSound(c))'
    BY <1>2 DEF WalkIsSound, MoveIsSound, Ancestry
  <2>2. \A q \in Calls : calm /\ q # r => (WalkIsSound(request[q]) /\ MoveIsSound(request[q]))'
    BY <1>6 DEF WalkIsSound, MoveIsSound
  <2> QED
    BY <1>1, <2>1, <2>2 DEF WalksAreSound
<1>8. TreeIsCached'
  BY <1>1, <1>6 DEF TreeIsCached
<1> QED
  BY <1>3, <1>4, <1>5, <1>7, <1>8

LEMMA TreeStays ==
  ASSUME TreeInv, [T!Next]_(T!vars), T!Root \notin Cats, T!Gone \notin Cats
  PROVE  TreeInv'
<1> USE DEF TreeInv
<1>i. T!Idle \in TreeRequest /\ T!Idle.pc = "idle"
  BY DEF T!Idle, TreeRequest
<1>1. CASE UNCHANGED T!vars
  BY <1>1 DEF T!vars, TreeTyped, Rooted, OneAtATime, TreeIsWhole, T!BuiltTree, T!Attached, T!Above, T!In,
     WalksAreSound, WalkIsSound, MoveIsSound, Ancestry, TreeIsCached
<1>2. ASSUME NEW r \in Calls, request[r].pc # "idle" \/ T!MayStart(r), calm
      PROVE  \A q \in Calls : q # r => request[q].pc = "idle"
  BY <1>2 DEF OneAtATime, T!MayStart
<1>3. ASSUME NEW r \in Calls, request[r].pc \notin {"flush", "store"}, request[r].pc # "idle" \/ T!MayStart(r), calm
      PROVE  tree \in {T!NotCached, parent}
  BY <1>2, <1>3 DEF TreeIsCached, T!MayStart
<1>4. ASSUME NEW r \in Calls, T!MayStart(r) PROVE request[r].pc = "idle"
  BY <1>4 DEF T!MayStart
<1>5. ASSUME NEW r \in Calls, NEW c \in Cats, NEW p \in Cats \cup {T!Root}, T!StartCreate(r, c, p)
      PROVE  TreeInv'
  <2> DEFINE d == [T!Idle EXCEPT !.pc = "insert", !.cat = c, !.target = p]
  <2>1. request' = [request EXCEPT ![r] = d] /\ UNCHANGED <<parent, tree, calm>> /\ T!MayStart(r)
    BY <1>5 DEF T!StartCreate
  <2>2. d \in TreeRequest /\ d.pc = "insert" /\ d.cat \in Cats
    BY <1>i DEF TreeRequest
  <2> HIDE DEF d
  <2> QED
    BY <1>2, <1>3, <1>4, <2>1, <2>2, TreeRequestMoves DEF WalkIsSound, MoveIsSound
<1>6. ASSUME NEW r \in Calls, NEW c \in Cats, NEW p \in Cats, T!StartMove(r, c, p) PROVE TreeInv'
  <2> DEFINE d == [T!Idle EXCEPT !.pc = "walk", !.cat = c, !.target = p, !.at = p]
  <2>1. /\ request' = [request EXCEPT ![r] = d] /\ UNCHANGED <<parent, tree, calm>> /\ T!MayStart(r)
        /\ {c, p} \subseteq T!In(parent)
    BY <1>6 DEF T!StartMove
  <2>2. /\ d \in TreeRequest /\ d.pc = "walk" /\ d.cat = c /\ d.target = p /\ d.at = p /\ d.visited = {}
    BY <1>i DEF TreeRequest, T!Idle
  <2> HIDE DEF d
  <2>3. WalkIsSound(d) /\ MoveIsSound(d)
    BY <2>1, <2>2 DEF WalkIsSound, MoveIsSound
  <2> QED
    BY <1>2, <1>3, <1>4, <2>1, <2>2, <2>3, TreeRequestMoves
<1>7. ASSUME NEW r \in Calls, NEW c \in Cats, T!StartDelete(r, c) PROVE TreeInv'
  <2> DEFINE d == [T!Idle EXCEPT !.pc = "delete", !.cat = c]
  <2>1. request' = [request EXCEPT ![r] = d] /\ UNCHANGED <<parent, tree, calm>> /\ T!MayStart(r)
    BY <1>7 DEF T!StartDelete
  <2>2. d \in TreeRequest /\ d.pc = "delete" /\ d.cat \in Cats
    BY <1>i DEF TreeRequest
  <2> HIDE DEF d
  <2> QED
    BY <1>2, <1>3, <1>4, <2>1, <2>2, TreeRequestMoves DEF WalkIsSound, MoveIsSound
<1>8. [T!Idle EXCEPT !.pc = "flush"] \in TreeRequest /\ [T!Idle EXCEPT !.pc = "flush"].pc = "flush"
  BY <1>i DEF TreeRequest
<1>9. ASSUME NEW r \in Calls, T!StartEdit(r) PROVE TreeInv'
  <2> DEFINE d == [T!Idle EXCEPT !.pc = "flush"]
  <2>1. request' = [request EXCEPT ![r] = d] /\ UNCHANGED <<parent, tree, calm>> /\ T!MayStart(r)
    BY <1>9 DEF T!StartEdit, T!Flush
  <2>2. d \in TreeRequest /\ d.pc = "flush"
    BY <1>8
  <2> HIDE DEF d
  <2> QED
    BY <1>2, <1>4, <2>1, <2>2, TreeRequestMoves DEF WalkIsSound, MoveIsSound
<1>10. ASSUME NEW r \in Calls, T!StartRead(r) PROVE TreeInv'
  <2> DEFINE d == [T!Idle EXCEPT !.pc = "store", !.seen = parent]
  <2>1. request' = [request EXCEPT ![r] = d] /\ UNCHANGED <<parent, tree, calm>> /\ T!MayStart(r)
    BY <1>10 DEF T!StartRead
  <2>2. d \in TreeRequest /\ d.pc = "store" /\ d.seen = parent
    BY <1>i DEF TreeRequest, TreeTyped
  <2> HIDE DEF d
  <2> QED
    BY <1>2, <1>3, <1>4, <2>1, <2>2, TreeRequestMoves DEF WalkIsSound, MoveIsSound
<1>11. ASSUME NEW r \in Calls, request[r].pc \notin {"idle", "flush", "store"}, T!Done(r), UNCHANGED <<parent, tree, calm>>
       PROVE  TreeInv'
  <2>1. request' = [request EXCEPT ![r] = T!Idle]
    BY <1>11 DEF T!Done
  <2> QED
    BY <1>i, <1>2, <1>3, <1>11, <2>1, TreeRequestMoves DEF WalkIsSound, MoveIsSound
<1>12. ASSUME NEW r \in Calls, T!Invalidate(r) \/ T!Store(r) PROVE TreeInv'
  <2>1. /\ request' = [request EXCEPT ![r] = T!Idle] /\ UNCHANGED <<parent, calm>>
        /\ request[r].pc \in {"flush", "store"}
        /\ \/ tree' = T!NotCached
           \/ request[r].pc = "store" /\ tree' = request[r].seen
    <3>1. CASE T!Invalidate(r)
      BY <3>1 DEF T!Invalidate, T!Done, T!At
    <3>2. CASE T!Store(r)
      BY <3>2 DEF T!Store, T!Done, T!At
    <3> QED
      BY <1>12, <3>1, <3>2
  <2>2. calm => tree' \in {T!NotCached, parent}
    BY <2>1 DEF TreeIsCached
  <2> QED
    BY <1>i, <1>2, <2>1, <2>2, TreeRequestMoves DEF WalkIsSound, MoveIsSound
<1>13. CASE T!Expire
  BY <1>13 DEF T!Expire, TreeTyped, Rooted, OneAtATime, TreeIsWhole, T!BuiltTree, T!Attached, T!Above, T!In,
     WalksAreSound, WalkIsSound, MoveIsSound, Ancestry, TreeIsCached
<1>14. ASSUME NEW r \in Calls, T!Walk(r) PROVE TreeInv'
  <2> DEFINE c == request[r]
             up == IF parent[c.at] \in Cats THEN parent[c.at] ELSE T!Root
  <2>0. c.pc = "walk" /\ c \in TreeRequest /\ UNCHANGED <<parent, tree, calm>> /\ c.cat \in Cats
    BY <1>14 DEF T!Walk, T!At, TreeTyped
  <2>1. CASE T!Closes(c)
    BY <1>11, <1>14, <2>0, <2>1 DEF T!Walk
  <2>2. CASE ~ T!Closes(c) /\ (T!Known(c.visited, c.at) \/ up = T!Root)
    <3> DEFINE d == [c EXCEPT !.pc = "move", !.at = T!Root, !.visited = {}]
    <3>1. request' = [request EXCEPT ![r] = d]
      BY <1>14, <2>2 DEF T!Walk
    <3>2. d \in TreeRequest /\ d.pc = "move" /\ d.cat = c.cat /\ d.target = c.target
      BY <2>0 DEF TreeRequest
    <3> HIDE DEF d
    <3>3. ASSUME calm PROVE MoveIsSound(d)
      <4>0. WalkIsSound(c)
        BY <3>3 DEF WalksAreSound
      <4>1. CASE T!Known(c.visited, c.at)
        <5>1. Ancestry(c.target, c.cat, c.visited) /\ c.visited \in SUBSET Cats
          BY <2>0, <4>0, <4>1 DEF WalkIsSound, Ancestry, T!Known, TreeRequest
        <5> QED
          BY <2>0, <3>2, <4>0, <5>1 DEF MoveIsSound, WalkIsSound
      <4>2. CASE up = T!Root
        <5>1. parent[c.at] = T!Root /\ c.at \in T!In(parent) /\ c.at # c.cat
          BY <2>0, <2>2, <4>0, <4>2 DEF WalkIsSound, T!Closes, TreeTyped, Rooted, T!In
        <5>2. Ancestry(c.target, c.cat, c.visited \cup {c.at}) /\ c.visited \cup {c.at} \in SUBSET Cats
          BY <2>0, <4>0, <5>1 DEF WalkIsSound, Ancestry, TreeRequest, T!In
        <5> QED
          BY <2>0, <3>2, <4>0, <5>2 DEF MoveIsSound, WalkIsSound
      <4> QED
        BY <2>2, <4>1, <4>2
    <3>4. WalkIsSound(d)
      BY <3>2 DEF WalkIsSound
    <3> QED
      BY <1>2, <1>3, <2>0, <3>1, <3>2, <3>3, <3>4, TreeRequestMoves
  <2>3. CASE ~ T!Closes(c) /\ ~ T!Known(c.visited, c.at) /\ up # T!Root
    <3> DEFINE d == [c EXCEPT !.at = up, !.visited = @ \cup {c.at}]
    <3>1. request' = [request EXCEPT ![r] = d]
      BY <1>14, <2>3 DEF T!Walk
    <3>2. up = parent[c.at] /\ up \in Cats
      BY <2>3
    <3>3. c.at \in Cats
      BY <2>0 DEF TreeTyped
    <3>4. /\ d \in TreeRequest /\ d.pc = "walk" /\ d.cat = c.cat /\ d.target = c.target /\ d.at = up
          /\ d.visited = c.visited \cup {c.at}
      BY <2>0, <3>2, <3>3 DEF TreeRequest
    <3> HIDE DEF d
    <3>5. ASSUME calm PROVE WalkIsSound(d)
      <4>1. WalkIsSound(c)
        BY <3>5 DEF WalksAreSound
      <4>2. up \in T!In(parent)
        BY <2>0, <3>2, <4>1 DEF WalkIsSound, TreeTyped, Rooted
      <4> QED
        BY <2>0, <2>3, <3>2, <3>4, <4>1, <4>2 DEF WalkIsSound, T!Closes
    <3>6. MoveIsSound(d)
      BY <3>4 DEF MoveIsSound
    <3> QED
      BY <1>2, <1>3, <2>0, <3>1, <3>2, <3>4, <3>5, <3>6, TreeRequestMoves
  <2> QED
    BY <2>1, <2>2, <2>3
<1>15. ASSUME NEW r \in Calls, NEW d \in TreeRequest, d.pc = "flush", request[r].pc \in {"insert", "move", "delete"},
              request' = [request EXCEPT ![r] = d],
              parent' \in Tables /\ Rooted(parent)', UNCHANGED <<tree, calm>>,
              calm => T!BuiltTree(parent)' = T!In(parent)'
       PROVE  TreeInv'
  <2>1. /\ request'[r] = d /\ \A q \in Calls : q # r => request'[q] = request[q]
        /\ request' \in [Calls -> TreeRequest]
    BY <1>15 DEF TreeTyped
  <2>2. calm => \A q \in Calls : q # r => request'[q].pc = "idle"
    BY <1>2, <1>15, <2>1
  <2>3. TreeTyped' /\ TreeIsWhole'
    BY <1>15, <2>1 DEF TreeTyped, TreeIsWhole
  <2>4. OneAtATime' /\ WalksAreSound' /\ TreeIsCached'
    BY <1>15, <2>1, <2>2 DEF OneAtATime, WalksAreSound, WalkIsSound, MoveIsSound, TreeIsCached
  <2> QED
    BY <2>3, <2>4
<1>16. ASSUME NEW r \in Calls, T!Insert(r) PROVE TreeInv'
  <2> DEFINE c == request[r].cat
             p == request[r].target
  <2>0. request[r].pc = "insert" /\ c \in Cats /\ UNCHANGED <<tree, calm>>
    BY <1>16 DEF T!Insert, T!At, TreeTyped
  <2>1. CASE parent[c] = T!Gone /\ p \in T!In(parent) \cup {T!Root}
    <3>1. request' = [request EXCEPT ![r] = [T!Idle EXCEPT !.pc = "flush"]] /\ parent' = [parent EXCEPT ![c] = p]
      BY <1>16, <2>1 DEF T!Insert, T!Flush
    <3>2. /\ parent' \in Tables /\ Rooted(parent')
          /\ calm => T!BuiltTree(parent') = T!In(parent')
      <4>1. CASE calm
        BY <2>0, <2>1, <3>1, <4>1, InsertKeepsTheTree DEF TreeTyped, TreeIsWhole
      <4>2. parent' \in Tables /\ Rooted(parent')
        BY <2>0, <2>1, <3>1 DEF TreeTyped, Tables, Rooted, T!In
      <4> QED
        BY <4>1, <4>2
    <3> QED
      BY <1>8, <1>15, <2>0, <3>1, <3>2
  <2>2. CASE ~ (parent[c] = T!Gone /\ p \in T!In(parent) \cup {T!Root})
    BY <1>11, <1>16, <2>0, <2>2 DEF T!Insert
  <2> QED
    BY <2>1, <2>2
<1>17. ASSUME NEW r \in Calls, T!Move(r) PROVE TreeInv'
  <2> DEFINE c == request[r].cat
             p == request[r].target
  <2>0. request[r].pc = "move" /\ c \in Cats /\ UNCHANGED <<tree, calm>> /\ parent = [parent EXCEPT ![c] = parent[c]]
    BY <1>17 DEF T!Move, T!At, TreeTyped, Tables
  <2>1. CASE c \in T!In(parent) /\ p \notin T!In(parent)
    BY <1>11, <1>17, <2>0, <2>1 DEF T!Move
  <2>2. CASE c \in T!In(parent) /\ p \in T!In(parent)
    <3>1. request' = [request EXCEPT ![r] = [T!Idle EXCEPT !.pc = "flush"]] /\ parent' = [parent EXCEPT ![c] = p]
      BY <1>17, <2>2 DEF T!Move, T!Flush
    <3>2. parent' \in Tables /\ Rooted(parent')
      BY <2>0, <2>2, <3>1 DEF TreeTyped, Tables, Rooted, T!In
    <3>3. ASSUME calm PROVE T!BuiltTree(parent') = T!In(parent')
      <4>1. PICK line \in SUBSET Cats : Ancestry(p, c, line)
        BY <2>0, <3>3 DEF WalksAreSound, MoveIsSound
      <4> QED
        BY <2>2, <3>1, <3>3, <4>1, MoveKeepsTheTree DEF Ancestry, TreeTyped, TreeIsWhole
    <3> QED
      BY <1>8, <1>15, <2>0, <3>1, <3>2, <3>3
  <2>3. CASE c \notin T!In(parent)
    <3>1. request' = [request EXCEPT ![r] = [T!Idle EXCEPT !.pc = "flush"]] /\ parent' = parent
      BY <1>17, <2>0, <2>3 DEF T!Move, T!Flush
    <3>2. /\ parent' \in Tables /\ Rooted(parent')
          /\ calm => T!BuiltTree(parent') = T!In(parent')
      BY <3>1 DEF TreeTyped, TreeIsWhole
    <3> QED
      BY <1>8, <1>15, <2>0, <3>1, <3>2
  <2> QED
    BY <2>1, <2>2, <2>3
<1>18. ASSUME NEW r \in Calls, T!Delete(r) PROVE TreeInv'
  <2> DEFINE c == request[r].cat
  <2>0. request[r].pc = "delete" /\ c \in Cats /\ UNCHANGED <<tree, calm>>
    BY <1>18 DEF T!Delete, T!At, TreeTyped
  <2>1. CASE T!Children(c) # {}
    BY <1>11, <1>18, <2>0, <2>1 DEF T!Delete
  <2>2. CASE T!Children(c) = {}
    <3>1. request' = [request EXCEPT ![r] = [T!Idle EXCEPT !.pc = "flush"]] /\ parent' = [parent EXCEPT ![c] = T!Gone]
      BY <1>18, <2>2 DEF T!Delete, T!Flush
    <3>2. \A d \in T!In(parent) : parent[d] # c
      BY <2>2 DEF T!Children
    <3>3. parent' \in Tables /\ Rooted(parent')
      BY <2>0, <3>1, <3>2 DEF TreeTyped, Tables, Rooted, T!In
    <3>4. calm => T!BuiltTree(parent') = T!In(parent')
      BY <2>0, <3>1, <3>2, DeleteKeepsTheTree DEF TreeTyped, TreeIsWhole
    <3> QED
      BY <1>8, <1>15, <2>0, <3>1, <3>3, <3>4
  <2> QED
    BY <2>1, <2>2
<1> QED
  BY <1>1, <1>5, <1>6, <1>7, <1>9, <1>10, <1>12, <1>13, <1>14, <1>16, <1>17, <1>18 DEF T!Next, T!Step

(* With one request at a time a move never closes a cycle, however the     *)
(* tree has been built, and the cached tree is that of the table: the walk *)
(* up from the new parent has met every category that it hangs from.       *)
THEOREM NoCategoryIsLost ==
  ASSUME T!Root \notin Cats, T!Gone \notin Cats
  PROVE  ShopSpec => []EveryCategoryIsInTheTree
<1> DEFINE Inv == part = "categories" => TreeInv
<1>1. ShopInit => Inv
  BY TreeStarts DEF ShopInit
<1>2. Inv /\ [ShopNext]_all => Inv'
  <2>1. SUFFICES ASSUME Inv, [ShopNext]_all, part' = "categories" PROVE TreeInv'
    OBVIOUS
  <2>2. part = "categories"
    BY <2>1 DEF ShopNext, all
  <2>3. CASE UNCHANGED all
    <3>1. UNCHANGED T!vars
      BY <2>3 DEF all, cats, T!vars
    <3> QED
      BY <2>1, <2>2, <3>1, TreeStays
  <2>4. CASE ShopNext
    <3>1. T!Next
      BY <2>2, <2>4 DEF ShopNext
    <3> QED
      BY <2>1, <2>2, <3>1, TreeStays
  <2> QED
    BY <2>1, <2>3, <2>4
<1>3. TreeInv => T!EveryCategoryIsInTheTree
  BY DEF TreeInv, TreeIsWhole, TreeIsCached, T!EveryCategoryIsInTheTree, T!At
<1>4. Inv => EveryCategoryIsInTheTree
  BY <1>3 DEF EveryCategoryIsInTheTree
<1> QED
  BY <1>1, <1>2, <1>4, PTL DEF ShopSpec
-----------------------------------------------------------------------------
ProductRow == [content : Nat, variants : Nat, stock : BOOLEAN, coded : BOOLEAN]
CatalogRequest ==
  [pc : {"idle", "insert", "write", "wipe", "fill", "keys", "del", "store"},
   op : {"none", "update", "variants", "delete", "status", "stock"},
   list : Nat, variants : Nat, stock : BOOLEAN, seen : ProductRow \cup {G!NotCached}]

CatalogTyped ==
  /\ product \in ProductRow /\ edits \in Nat /\ {calm, unsaid} \subseteq BOOLEAN
  /\ past \in [given : Nat, lost : BOOLEAN, stale : BOOLEAN]
  /\ G!There => edits # 0
  /\ ~ G!There => product = G!NoProduct
  /\ request \in [Calls -> CatalogRequest]
  /\ \A r \in Calls : request[r].pc = "write" => request[r].op # "none"

(* A copy of the product as it is.                                         *)
Fresh(c) ==
  /\ G!There /\ c.content = product.content /\ c.variants = product.variants
  /\ ~ unsaid => c.stock = product.stock

Pending == \E r \in Calls : request[r].pc \in {"wipe", "fill", "keys", "del"}

ADeleteIsDue ==
  calm => /\ copy # G!NotCached => Fresh(copy) \/ Pending \/ past.stale
          /\ \A r \in Calls : request[r].pc = "store" => Fresh(request[r].seen)

(* The list given last is still to be inserted.                            *)
AListIsDue == \E r \in Calls : request[r].pc = "fill" /\ request[r].list = past.given

ListsAreGiven ==
  /\ G!There /\ product.variants = 0 => past.lost \/ past.given = 0 \/ AListIsDue
  /\ calm /\ G!There => past.lost \/ product.variants = past.given \/ AListIsDue
  /\ calm => \A r \in Calls :
       request[r].pc = "fill" => product.variants = 0 /\ request[r].list = past.given

CatalogInv == CatalogTyped /\ OneAtATime /\ ADeleteIsDue /\ ListsAreGiven

LEMMA CatalogStarts ==
  ASSUME G!Init
  PROVE  CatalogInv
<1> USE DEF G!Init
<1>1. G!NoProduct \in ProductRow /\ G!NoProduct.content = 0 /\ G!NoProduct.variants = 0
  BY DEF G!NoProduct, ProductRow
<1>2. G!Idle \in CatalogRequest /\ G!Idle.pc = "idle"
  BY DEF G!Idle, CatalogRequest
<1>3. \A r \in Calls : request[r].pc = "idle"
  BY <1>2
<1>4. CatalogTyped
  BY <1>1, <1>2 DEF CatalogTyped, G!There
<1>5. OneAtATime /\ ADeleteIsDue /\ ListsAreGiven
  BY <1>1, <1>3 DEF OneAtATime, ADeleteIsDue, ListsAreGiven, AListIsDue, G!There
<1> QED
  BY <1>4, <1>5 DEF CatalogInv

LEMMA CatalogStays ==
  ASSUME CatalogInv, [G!Next]_(G!vars)
  PROVE  CatalogInv'
<1> USE DEF CatalogInv
<1>i. G!Idle \in CatalogRequest /\ G!Idle.pc = "idle"
  BY DEF G!Idle, CatalogRequest
<1>n. G!NotCached \notin ProductRow /\ G!NoProduct \in ProductRow /\ G!NoProduct.content = 0 /\ G!NoProduct.variants = 0
  BY DEF G!NotCached, G!NoProduct, ProductRow
<1>1. CASE UNCHANGED G!vars
  BY <1>1 DEF G!vars, CatalogTyped, OneAtATime, ADeleteIsDue, ListsAreGiven, AListIsDue, G!There, Fresh, Pending
<1>2. ASSUME NEW r \in Calls, NEW c \in CatalogRequest, request' = [request EXCEPT ![r] = c]
      PROVE  /\ request'[r] = c /\ \A q \in Calls : q # r => request'[q] = request[q]
             /\ request' \in [Calls -> CatalogRequest]
  BY <1>2 DEF CatalogTyped
<1>3. ASSUME NEW r \in Calls, request[r].pc # "idle" \/ G!MayStart(r), calm
      PROVE  \A q \in Calls : q # r => request[q].pc = "idle"
  BY <1>3 DEF OneAtATime, G!MayStart
<1>l. ASSUME NEW r \in Calls, NEW c \in CatalogRequest, request' = [request EXCEPT ![r] = c],
             UNCHANGED calm, past'.given = past.given, past'.lost = past.lost,
             G!There' => G!There /\ product'.variants = product.variants,
             product'.variants \in {0, product.variants}, request[r].pc # "fill", c.pc # "fill"
      PROVE  ListsAreGiven'
  <2>1. /\ request'[r] = c /\ \A q \in Calls : q # r => request'[q] = request[q]
    BY <1>2, <1>l
  <2>2. AListIsDue' <=> AListIsDue
    BY <1>l, <2>1 DEF AListIsDue
  <2> QED
    BY <1>l, <2>1, <2>2 DEF ListsAreGiven
<1>4. ASSUME NEW r \in Calls, NEW c \in CatalogRequest, request' = [request EXCEPT ![r] = c],
             UNCHANGED <<product, copy, edits, calm, unsaid, past>>,
             c.pc = "write" => c.op # "none",
             calm /\ c.pc # "idle" => \A q \in Calls : q # r => request[q].pc = "idle",
             request[r].pc # "fill", c.pc # "fill",
             calm /\ request[r].pc \in {"wipe", "fill", "keys", "del"} /\ copy # G!NotCached =>
               c.pc \in {"wipe", "fill", "keys", "del"},
             calm /\ c.pc = "store" => Fresh(c.seen)
      PROVE  CatalogInv'
  <2>1. /\ request'[r] = c /\ \A q \in Calls : q # r => request'[q] = request[q]
        /\ request' \in [Calls -> CatalogRequest]
    BY <1>2, <1>4
  <2>2. CatalogTyped' /\ OneAtATime'
    BY <1>4, <2>1 DEF CatalogTyped, OneAtATime, G!There
  <2>3. ADeleteIsDue'
    BY <1>4, <2>1 DEF ADeleteIsDue, Pending, Fresh, G!There, CatalogTyped
  <2>4. ListsAreGiven'
    BY <1>l, <1>4 DEF G!There
  <2> QED
    BY <2>2, <2>3, <2>4
<1>b. ASSUME NEW r \in Calls, request' = [request EXCEPT ![r] = G!Idle],
             UNCHANGED <<product, copy, edits, calm, unsaid>>,
             NEW lost \in BOOLEAN, G!Breaks(lost), request[r].pc = "fill" => lost
      PROVE  CatalogInv'
  <2>1. /\ request'[r] = G!Idle /\ \A q \in Calls : q # r => request'[q] = request[q]
        /\ request' \in [Calls -> CatalogRequest]
    BY <1>i, <1>2, <1>b
  <2>2. /\ past' \in [given : Nat, lost : BOOLEAN, stale : BOOLEAN] /\ past'.given = past.given
        /\ lost => past'.lost
        /\ past.lost => past'.lost
        /\ copy # G!NotCached => past'.stale
    BY <1>b DEF G!Breaks, CatalogTyped
  <2>3. CatalogTyped' /\ OneAtATime'
    BY <1>i, <1>b, <2>1, <2>2 DEF CatalogTyped, OneAtATime, G!There
  <2>4. ADeleteIsDue'
    BY <1>i, <1>b, <2>1, <2>2 DEF ADeleteIsDue, Fresh, G!There
  <2>5. past'.lost \/ (AListIsDue => AListIsDue')
    BY <1>b, <2>1, <2>2 DEF AListIsDue
  <2>6. ListsAreGiven'
    BY <1>i, <1>b, <2>1, <2>2, <2>5 DEF ListsAreGiven, G!There
  <2> QED
    BY <2>3, <2>4, <2>6
<1>5. ASSUME NEW r \in Calls, G!StartCreate(r) PROVE CatalogInv'
  <2> DEFINE c == [G!Idle EXCEPT !.pc = "insert"]
  <2>1. /\ request' = [request EXCEPT ![r] = c] /\ UNCHANGED <<product, copy, edits, calm, unsaid, past>>
        /\ G!MayStart(r) /\ request[r].pc = "idle"
    BY <1>5 DEF G!StartCreate, G!Goto, G!MayStart
  <2>2. c.pc = "insert" /\ c \in CatalogRequest
    BY <1>i DEF CatalogRequest
  <2> HIDE DEF c
  <2> QED
    BY <1>3, <1>4, <2>1, <2>2
<1>6. ASSUME NEW r \in Calls, NEW op \in {"update", "variants", "delete", "status", "stock"}, G!StartOn(r, op)
      PROVE  CatalogInv'
  <2> DEFINE c == [G!Idle EXCEPT !.pc = "write", !.op = op, !.variants = product.variants]
  <2>1. /\ request' = [request EXCEPT ![r] = c] /\ UNCHANGED <<product, copy, edits, calm, unsaid, past>>
        /\ G!MayStart(r) /\ request[r].pc = "idle"
    BY <1>6 DEF G!StartOn, G!MayStart
  <2>2. c.pc = "write" /\ c.op = op /\ c \in CatalogRequest
    BY <1>i DEF CatalogRequest, CatalogTyped, ProductRow
  <2> HIDE DEF c
  <2> QED
    BY <1>3, <1>4, <2>1, <2>2
<1>7. ASSUME NEW r \in Calls, G!StartRead(r) PROVE CatalogInv'
  <2> DEFINE c == [G!Idle EXCEPT !.pc = "store", !.seen = G!Answer]
  <2>1. /\ request' = [request EXCEPT ![r] = c] /\ UNCHANGED <<product, copy, edits, calm, unsaid, past>>
        /\ G!MayStart(r) /\ request[r].pc = "idle" /\ G!There
    BY <1>7 DEF G!StartRead, G!MayStart
  <2>2. G!Answer \in ProductRow /\ (\A f \in {"content", "variants", "stock"} : G!Answer[f] = product[f])
    BY DEF G!Answer, ProductRow, CatalogTyped
  <2>3. c.pc = "store" /\ c.seen = G!Answer /\ c \in CatalogRequest
    BY <1>i, <2>2 DEF CatalogRequest
  <2>4. Fresh(c.seen)
    BY <2>1, <2>2, <2>3 DEF Fresh
  <2> HIDE DEF c
  <2> QED
    BY <1>3, <1>4, <2>1, <2>3, <2>4
<1>8. ASSUME NEW r \in Calls, G!Keys(r) PROVE CatalogInv'
  <2>1. PICK c \in CatalogRequest : /\ request' = [request EXCEPT ![r] = c] /\ c.pc \in {"idle", "del"}
                                    /\ copy # G!NotCached => c.pc = "del"
    <3>1. [G!Idle EXCEPT !.pc = "del"] \in CatalogRequest /\ [G!Idle EXCEPT !.pc = "del"].pc = "del"
      BY <1>i DEF CatalogRequest
    <3> QED
      BY <1>i, <1>8, <3>1 DEF G!Keys, G!Goto, G!Done
  <2>2. request[r].pc = "keys" /\ UNCHANGED <<product, copy, edits, calm, unsaid, past>>
    BY <1>8 DEF G!Keys, G!At
  <2> QED
    BY <1>3, <1>4, <2>1, <2>2
<1>9. ASSUME NEW r \in Calls, G!Die(r) PROVE CatalogInv'
  <2>1. request' = [request EXCEPT ![r] = G!Idle] /\ UNCHANGED <<product, copy, edits, calm, unsaid>>
    BY <1>9 DEF G!Die, G!Done
  <2>2. CASE request[r].pc \in {"wipe", "fill", "keys", "del"}
    <3> DEFINE lost == request[r].pc = "fill"
    <3>1. G!Breaks(lost)
      BY <1>9, <2>2 DEF G!Die, G!At
    <3>2. lost \in BOOLEAN
      OBVIOUS
    <3>3. request[r].pc = "fill" => lost
      OBVIOUS
    <3> HIDE DEF lost
    <3> QED
      BY <1>b, <2>1, <3>1, <3>2, <3>3
  <2>3. CASE request[r].pc \notin {"wipe", "fill", "keys", "del"}
    <3>1. UNCHANGED past
      BY <1>9, <2>3 DEF G!Die
    <3> QED
      BY <1>i, <1>4, <2>1, <2>3, <3>1
  <2> QED
    BY <2>2, <2>3
<1>10. ASSUME NEW r \in Calls, G!Insert(r) PROVE CatalogInv'
  <2>0. request[r].pc = "insert"
    BY <1>10 DEF G!Insert, G!At
  <2>1. CASE G!There
    <3>1. request' = [request EXCEPT ![r] = G!Idle] /\ UNCHANGED <<product, copy, edits, calm, unsaid, past>>
      BY <1>10, <2>1 DEF G!Insert, G!Done
    <3> QED
      BY <1>i, <1>4, <2>0, <3>1
  <2>2. CASE ~ G!There
    <3> DEFINE c == [G!Idle EXCEPT !.pc = "keys"]
    <3>1. /\ request' = [request EXCEPT ![r] = c] /\ UNCHANGED <<copy, calm, unsaid>>
          /\ edits' = edits + 1
          /\ \E list \in {0, edits'}, s \in BOOLEAN :
               /\ product' = [content |-> edits', variants |-> list, stock |-> s, coded |-> FALSE]
               /\ past' = [past EXCEPT !.given = list, !.lost = FALSE]
      BY <1>10, <2>2 DEF G!Insert, G!Goto
    <3>2. c.pc = "keys" /\ c \in CatalogRequest
      BY <1>i DEF CatalogRequest
    <3> HIDE DEF c
    <3>3. /\ request'[r] = c /\ \A q \in Calls : q # r => request'[q] = request[q]
          /\ request' \in [Calls -> CatalogRequest]
      BY <1>2, <3>1, <3>2
    <3>4. /\ edits' \in Nat /\ edits' # 0 /\ product' \in ProductRow /\ product'.content # 0
          /\ past' \in [given : Nat, lost : BOOLEAN, stale : BOOLEAN] /\ product'.variants = past'.given
      <4>1. PICK list \in {0, edits'}, s \in BOOLEAN :
              /\ product' = [content |-> edits', variants |-> list, stock |-> s, coded |-> FALSE]
              /\ past' = [past EXCEPT !.given = list, !.lost = FALSE]
        BY <3>1
      <4>2. edits' \in Nat /\ edits' # 0 /\ list \in Nat
        BY <3>1, <4>1 DEF CatalogTyped
      <4>3. product' \in ProductRow /\ product'.content # 0 /\ product'.variants = list
        BY <4>1, <4>2 DEF ProductRow
      <4>4. past' \in [given : Nat, lost : BOOLEAN, stale : BOOLEAN] /\ past'.given = list
        BY <4>1, <4>2 DEF CatalogTyped
      <4> QED
        BY <4>2, <4>3, <4>4
    <3>5. CatalogTyped'
      BY <3>2, <3>1, <3>3, <3>4 DEF CatalogTyped, G!There
    <3>6. OneAtATime'
      BY <1>3, <2>0, <3>1, <3>3 DEF OneAtATime
    <3>7. ADeleteIsDue'
      BY <1>3, <2>0, <3>1, <3>2, <3>3 DEF ADeleteIsDue, Pending
    <3>8. ListsAreGiven'
      BY <1>3, <2>0, <3>1, <3>2, <3>3, <3>4 DEF ListsAreGiven
    <3> QED
      BY <3>5, <3>6, <3>7, <3>8
  <2> QED
    BY <2>1, <2>2
<1>11. ASSUME NEW r \in Calls, G!Write(r) PROVE CatalogInv'
  <2> DEFINE d == request[r]
  <2>0. d.pc = "write" /\ d \in CatalogRequest /\ UNCHANGED <<copy, calm, unsaid, past>>
    BY <1>11 DEF G!Write, G!At, CatalogTyped
  <2>1. edits' \in Nat /\ edits' >= edits
    BY <1>11 DEF G!Write, CatalogTyped
  <2>2. CASE d.op \in {"update", "variants"} /\ ~ G!There
    <3>1. request' = [request EXCEPT ![r] = G!Idle] /\ UNCHANGED <<product, edits>>
      BY <1>11, <2>2 DEF G!Write, G!Done
    <3> QED
      BY <1>i, <1>4, <2>0, <3>1
  <2>3. CASE d.op = "variants" /\ G!There
    <3>0. edits' = edits + 1 /\ product' = [product EXCEPT !.content = edits']
      BY <1>11, <2>3 DEF G!Write
    <3>1. PICK list \in {0, edits'} :
            request' = [request EXCEPT ![r] = [G!Idle EXCEPT !.pc = "wipe", !.list = list]]
      BY <1>11, <2>3 DEF G!Write
    <3> DEFINE c == [G!Idle EXCEPT !.pc = "wipe", !.list = list]
    <3>2. c.pc = "wipe" /\ c \in CatalogRequest /\ request' = [request EXCEPT ![r] = c]
      <4>1. list \in Nat
        BY <2>1
      <4>2. c.pc = "wipe" /\ c \in CatalogRequest
        BY <1>i, <4>1 DEF CatalogRequest
      <4> QED
        BY <3>1, <4>2
    <3> HIDE DEF c
    <3>3. /\ request'[r] = c /\ \A q \in Calls : q # r => request'[q] = request[q]
          /\ request' \in [Calls -> CatalogRequest]
      BY <1>2, <3>2
    <3>4. edits' # 0 /\ product' \in ProductRow /\ product'.content # 0 /\ product'.variants = product.variants
      BY <2>1, <3>0 DEF CatalogTyped, ProductRow
    <3>5. CatalogTyped'
      BY <3>2, <2>0, <2>1, <3>3, <3>4 DEF CatalogTyped, G!There
    <3>6. OneAtATime'
      BY <1>3, <2>0, <3>3 DEF OneAtATime
    <3>7. ADeleteIsDue'
      BY <1>3, <2>0, <3>2, <3>3 DEF ADeleteIsDue, Pending
    <3>8. ListsAreGiven'
      BY <1>l, <2>0, <2>3, <3>2, <3>4
    <3> QED
      BY <3>5, <3>6, <3>7, <3>8
  <2>4. CASE d.op \in {"delete", "stock", "status"} \/ (d.op = "update" /\ G!There)
    <3> DEFINE c == [G!Idle EXCEPT !.pc = "keys"]
    <3>1. request' = [request EXCEPT ![r] = c]
      BY <1>11, <2>4 DEF G!Write, G!Goto
    <3>2. c.pc = "keys" /\ c \in CatalogRequest
      BY <1>i DEF CatalogRequest
    <3> HIDE DEF c
    <3>3. /\ request'[r] = c /\ \A q \in Calls : q # r => request'[q] = request[q]
          /\ request' \in [Calls -> CatalogRequest]
      BY <1>2, <3>1, <3>2
    <3>4. /\ product' \in ProductRow
          /\ product'.content # 0 => G!There /\ product'.variants = product.variants /\ edits' # 0
          /\ product'.content = 0 => product' = G!NoProduct /\ product'.variants = 0
      <4>1. CASE d.op = "delete"
        BY <1>11, <1>n, <4>1 DEF G!Write
      <4>2. CASE d.op = "stock"
        <5>1. PICK s \in BOOLEAN : product' = IF product.variants = d.variants /\ G!There
                                              THEN [product EXCEPT !.stock = s] ELSE product
          BY <1>11, <4>2 DEF G!Write
        <5>2. CASE G!There /\ product.variants = d.variants
          BY <2>1, <5>1, <5>2 DEF CatalogTyped, G!There, ProductRow
        <5>3. CASE ~ (G!There /\ product.variants = d.variants)
          BY <1>n, <2>1, <5>1, <5>3 DEF CatalogTyped, G!There, ProductRow
        <5> QED
          BY <5>2, <5>3
      <4>3. CASE d.op \in {"update", "status"}
        <5>1. CASE G!There
          <6>1. edits' = edits + 1 /\ product' = [product EXCEPT !.content = edits']
            BY <1>11, <4>3, <5>1 DEF G!Write
          <6> QED
            BY <2>1, <5>1, <6>1 DEF CatalogTyped, G!There, ProductRow
        <5>2. CASE ~ G!There
          <6>1. product' = product
            BY <1>11, <4>3, <5>2 DEF G!Write
          <6> QED
            BY <1>n, <2>1, <5>2, <6>1 DEF CatalogTyped, G!There, ProductRow
        <5> QED
          BY <5>1, <5>2
      <4> QED
        BY <2>4, <4>1, <4>2, <4>3
    <3>5. CatalogTyped'
      BY <3>2, <2>0, <2>1, <3>3, <3>4 DEF CatalogTyped, G!There
    <3>6. OneAtATime'
      BY <1>3, <2>0, <3>3 DEF OneAtATime
    <3>7. ADeleteIsDue'
      BY <1>3, <2>0, <3>2, <3>3 DEF ADeleteIsDue, Pending
    <3>8. ListsAreGiven'
      BY <1>l, <2>0, <3>1, <3>2, <3>4 DEF G!There
    <3> QED
      BY <3>5, <3>6, <3>7, <3>8
  <2> QED
    BY <2>0, <2>2, <2>3, <2>4 DEF CatalogTyped, CatalogRequest
<1>12. ASSUME NEW r \in Calls, G!Wipe(r) PROVE CatalogInv'
  <2> DEFINE c == [request[r] EXCEPT !.pc = "fill"]
  <2>0. request[r].pc = "wipe" /\ request[r] \in CatalogRequest
    BY <1>12 DEF G!Wipe, G!At, CatalogTyped
  <2>1. /\ request' = [request EXCEPT ![r] = c] /\ UNCHANGED <<copy, edits, calm, unsaid>>
        /\ product' = [product EXCEPT !.variants = 0, !.stock = FALSE, !.coded = FALSE]
        /\ past' = [past EXCEPT !.given = request[r].list, !.lost = FALSE]
    BY <1>12 DEF G!Wipe
  <2>2. c.pc = "fill" /\ c.list = request[r].list /\ c \in CatalogRequest
    BY <2>0 DEF CatalogRequest
  <2> HIDE DEF c
  <2>3. /\ request'[r] = c /\ \A q \in Calls : q # r => request'[q] = request[q]
        /\ request' \in [Calls -> CatalogRequest]
    BY <1>2, <2>1, <2>2
  <2>4. product' \in ProductRow /\ product'.content = product.content /\ product'.variants = 0
    BY <2>1 DEF CatalogTyped, ProductRow
  <2>5. ~ G!There => product' = G!NoProduct
    <3>1. \A a, b \in ProductRow :
             a.content = b.content /\ a.variants = b.variants /\ a.stock = b.stock /\ a.coded = b.coded => a = b
      BY DEF ProductRow
    <3>2. ~ G!There => /\ product'.content = 0 /\ product'.variants = 0
                       /\ product'.stock = FALSE /\ product'.coded = FALSE
      BY <2>1, <2>4 DEF CatalogTyped, ProductRow, G!There
    <3> QED
      BY <1>n, <2>4, <3>1, <3>2 DEF G!NoProduct
  <2>p. past' \in [given : Nat, lost : BOOLEAN, stale : BOOLEAN] /\ past'.given = c.list
    BY <2>0, <2>1, <2>2 DEF CatalogTyped, CatalogRequest
  <2>6. CatalogTyped'
    BY <2>2, <2>1, <2>3, <2>4, <2>5, <2>p DEF CatalogTyped, G!There
  <2>7. OneAtATime'
    BY <1>3, <2>0, <2>1, <2>3 DEF OneAtATime
  <2>8. ADeleteIsDue'
    BY <1>3, <2>0, <2>1, <2>2, <2>3 DEF ADeleteIsDue, Pending
  <2>9. ListsAreGiven'
    <3>1. AListIsDue'
      BY <2>2, <2>3, <2>p DEF AListIsDue
    <3> QED
      BY <1>3, <2>0, <2>1, <2>2, <2>3, <2>4, <2>p, <3>1 DEF ListsAreGiven
  <2> QED
    BY <2>6, <2>7, <2>8, <2>9
<1>13. ASSUME NEW r \in Calls, G!Fill(r) PROVE CatalogInv'
  <2> DEFINE c == [G!Idle EXCEPT !.pc = "keys"]
             list == request[r].list
  <2>f. request[r].pc = "fill" /\ UNCHANGED <<copy, edits, calm, unsaid>>
    BY <1>13, Zenon DEF G!Fill, G!At
  <2>0. request[r].pc = "fill" /\ request[r] \in CatalogRequest /\ UNCHANGED <<copy, edits, calm, unsaid>>
    BY <2>f DEF CatalogTyped
  <2>c. c.pc = "keys" /\ c \in CatalogRequest
    BY <1>i DEF CatalogRequest
  <2>1. ASSUME request' = [request EXCEPT ![r] = c], past'.given = past.given,
               past' \in [given : Nat, lost : BOOLEAN, stale : BOOLEAN],
               product' \in ProductRow, product'.content = product.content,
               ~ G!There => product' = G!NoProduct,
               \/ product' = product /\ past' = past /\ list = 0
               \/ product'.variants = list /\ list # 0
        PROVE  CatalogInv'
    <3> HIDE DEF c
    <3>3. /\ request'[r] = c /\ \A q \in Calls : q # r => request'[q] = request[q]
          /\ request' \in [Calls -> CatalogRequest]
      BY <1>2, <2>c, <2>1
    <3>5. CatalogTyped'
      BY <2>0, <2>c, <2>1, <3>3 DEF CatalogTyped, G!There
    <3>6. OneAtATime'
      BY <1>3, <2>0, <3>3 DEF OneAtATime
    <3>7. ADeleteIsDue'
      BY <1>3, <2>0, <2>c, <3>3 DEF ADeleteIsDue, Pending
    <3>8. ListsAreGiven'
      <4>1. CASE product' = product /\ past' = past /\ list = 0
        <5>1. past.given # 0 /\ AListIsDue => AListIsDue'
          BY <2>0, <3>3, <4>1 DEF AListIsDue
        <5> QED
          BY <1>3, <2>0, <2>c, <3>3, <4>1, <5>1 DEF ListsAreGiven, G!There
      <4>2. CASE product'.variants = list /\ list # 0
        BY <1>3, <2>0, <2>c, <2>1, <3>3, <4>2 DEF ListsAreGiven
      <4> QED
        BY <2>1, <4>1, <4>2
    <3> QED
      BY <3>5, <3>6, <3>7, <3>8
  <2>2. CASE list = 0 /\ G!Goto(r, "keys") /\ UNCHANGED <<product, past>>
    BY <2>1, <2>2 DEF G!Goto, CatalogTyped
  <2>3. CASE /\ list # 0 /\ G!There /\ product.variants = 0
             /\ \E s \in BOOLEAN : product' = [product EXCEPT !.variants = list, !.stock = s]
             /\ past' = [past EXCEPT !.lost = FALSE]
             /\ G!Goto(r, "keys")
    <3>1. /\ product' \in ProductRow /\ product'.content = product.content /\ product'.variants = list
          /\ past' \in [given : Nat, lost : BOOLEAN, stale : BOOLEAN] /\ past'.given = past.given
      BY <2>0, <2>3 DEF CatalogTyped, ProductRow, CatalogRequest
    <3>2. request' = [request EXCEPT ![r] = c]
      BY <2>3 DEF G!Goto
    <3> QED
      BY <2>1, <2>3, <3>1, <3>2
  <2>4. CASE list # 0 /\ G!Breaks(TRUE) /\ G!Done(r) /\ UNCHANGED product
    BY <1>b, <2>0, <2>4 DEF G!Done
  <2> HIDE DEF c
  <2> QED
    BY <1>13, <2>2, <2>3, <2>4, Zenon DEF G!Fill
<1>14. ASSUME NEW r \in Calls, G!Del(r) \/ G!Store(r) PROVE CatalogInv'
  <2>1. /\ request' = [request EXCEPT ![r] = G!Idle] /\ UNCHANGED <<product, edits, calm>>
        /\ request[r].pc \in {"del", "store"} /\ unsaid' \in BOOLEAN
        /\ \/ copy' = G!NotCached
           \/ request[r].pc = "store" /\ copy' = request[r].seen /\ unsaid' = unsaid
        /\ past' \in [given : Nat, lost : BOOLEAN, stale : BOOLEAN]
        /\ past'.given = past.given /\ past'.lost = past.lost
    BY <1>14 DEF G!Del, G!Store, G!Done, G!At, CatalogTyped
  <2>2. /\ request'[r] = G!Idle /\ \A q \in Calls : q # r => request'[q] = request[q]
        /\ request' \in [Calls -> CatalogRequest]
    BY <1>i, <1>2, <2>1
  <2>3. calm => \A q \in Calls : request'[q].pc = "idle"
    BY <1>i, <1>3, <2>1, <2>2
  <2>4. CatalogTyped'
    BY <1>i, <2>1, <2>2 DEF CatalogTyped, G!There
  <2>5. OneAtATime'
    BY <2>1, <2>3 DEF OneAtATime
  <2>6. calm /\ copy' # G!NotCached => Fresh(copy)'
    BY <2>1 DEF ADeleteIsDue, Fresh, G!There
  <2>7. ADeleteIsDue'
    BY <2>1, <2>3, <2>6 DEF ADeleteIsDue
  <2>9. ListsAreGiven'
    BY <1>i, <1>l, <2>1 DEF G!There
  <2> QED
    BY <2>4, <2>5, <2>7, <2>9
<1>15. ASSUME NEW coded \in BOOLEAN, G!StockMoves(coded) PROVE CatalogInv'
  <2>1. /\ product.variants # 0 /\ product' = [product EXCEPT !.stock = ~ @, !.coded = coded]
        /\ UNCHANGED <<copy, edits, request, calm, past>>
        /\ unsaid' = (unsaid \/ copy # G!NotCached \/ \E q \in Calls : request[q].pc = "store")
    BY <1>15 DEF G!StockMoves, G!At
  <2>2. /\ product' \in ProductRow /\ product'.content = product.content
        /\ product'.variants = product.variants
    BY <2>1 DEF CatalogTyped, ProductRow
  <2>3. G!There
    BY <2>1 DEF CatalogTyped, G!NoProduct
  <2>4. CatalogTyped'
    BY <2>1, <2>2, <2>3 DEF CatalogTyped, G!There
  <2>5. OneAtATime' /\ ListsAreGiven'
    BY <2>1, <2>2 DEF OneAtATime, ListsAreGiven, AListIsDue, G!There
  <2>6. ADeleteIsDue'
    BY <2>1, <2>2 DEF ADeleteIsDue, Fresh, Pending, G!There
  <2> QED
    BY <2>4, <2>5, <2>6
<1>16. CASE G!Expire
  <2>1. /\ copy' = G!NotCached /\ UNCHANGED <<product, edits, request, calm>>
        /\ unsaid' = (\E q \in Calls : request[q].pc = "store")
        /\ past' = [past EXCEPT !.stale = FALSE]
    BY <1>16 DEF G!Expire, G!At
  <2>p. /\ past' \in [given : Nat, lost : BOOLEAN, stale : BOOLEAN]
        /\ past'.given = past.given /\ past'.lost = past.lost
    BY <2>1 DEF CatalogTyped
  <2>2. CatalogTyped' /\ OneAtATime' /\ ListsAreGiven'
    BY <2>1, <2>p DEF CatalogTyped, OneAtATime, ListsAreGiven, AListIsDue, G!There
  <2>3. ADeleteIsDue'
    BY <2>1 DEF ADeleteIsDue, Fresh, G!There
  <2> QED
    BY <2>2, <2>3
<1> QED
  BY <1>1, <1>5, <1>6, <1>7, <1>8, <1>9, <1>10, <1>11, <1>12, <1>13, <1>14, <1>15, <1>16 DEF G!Next

(* With one request at a time the cached copy is the product, but for its  *)
(* stock, and the product has the variants last given to it, unless an     *)
(* edit ended half way; also with edits that overlap it has none only if   *)
(* the last gave none, ended half way or has them still to insert.         *)
THEOREM TheCopyIsCurrent == ShopSpec => []CopyIsCurrent
<1> DEFINE Inv == part = "catalog" => CatalogInv
<1>1. ShopInit => Inv
  BY CatalogStarts DEF ShopInit
<1>2. Inv /\ [ShopNext]_all => Inv'
  <2>1. SUFFICES ASSUME Inv, [ShopNext]_all, part' = "catalog" PROVE CatalogInv'
    OBVIOUS
  <2>2. part = "catalog"
    BY <2>1 DEF ShopNext, all
  <2>3. CASE UNCHANGED all
    <3>1. UNCHANGED G!vars
      BY <2>3 DEF all, catalog, G!vars
    <3> QED
      BY <2>1, <2>2, <3>1, CatalogStays
  <2>4. CASE ShopNext
    <3>1. G!Next
      BY <2>2, <2>4 DEF ShopNext
    <3> QED
      BY <2>1, <2>2, <3>1, CatalogStays
  <2> QED
    BY <2>1, <2>3, <2>4
<1>3. CatalogInv => G!CopyIsCurrent
  <2>1. SUFFICES ASSUME CatalogInv PROVE G!CopyIsCurrent
    OBVIOUS
  <2>2. G!Quiet => ~ Pending /\ calm /\ ~ AListIsDue
    BY <2>1 DEF G!Quiet, G!At, Pending, AListIsDue
  <2> QED
    BY <2>1, <2>2 DEF CatalogInv, ADeleteIsDue, ListsAreGiven, AListIsDue, Fresh, G!At, G!CopyIsCurrent
<1>4. Inv => CopyIsCurrent
  BY <1>3 DEF CopyIsCurrent
<1> QED
  BY <1>1, <1>2, <1>4, PTL DEF ShopSpec
-----------------------------------------------------------------------------
CartConstants ==
  /\ "old" \notin Calls /\ Variants # {}
  /\ CartIds \subseteq Nat \ {0}
  /\ MaxQuantity \in Nat \ {0} /\ Quantities \subseteq 1 .. MaxQuantity
  /\ Stock \in [Variants -> Nat]
  /\ \A lines \in Carts0 : \A v \in DOMAIN lines : lines[v] \in Nat

CartSteps == {"idle", "create", "look", "insert", "raced", "save", "delete", "empty", "promo", "unpromo",
              "readUser", "convert", "merge", "dropItems", "dropCart", "done", "failed"}

CartRequest ==
  [pc : CartSteps,
   op : K!Ops, who : K!Owners, variant : Variants, n : Nat,
   cart : CartIds \cup {0}, target : CartIds \cup {0},
   seen : [Variants -> K!Row], mine : [Variants -> K!Row], todo : SUBSET Variants]

CartTyped ==
  /\ owners \in [CartIds -> SUBSET K!Owners]
  /\ item \in [CartIds -> [Variants -> K!Row]]
  /\ request \in [Calls -> CartRequest]

(* Where each operation goes, and what it then knows.                      *)
Asked(c) ==
  /\ c.pc = "idle" => c.op = "get"
  /\ c.pc \in {"look", "insert", "raced", "save", "delete", "empty", "promo", "convert"} => c.cart \in CartIds
  /\ c.pc \in {"look", "insert", "raced"} => c.op = "add"
  /\ c.pc = "save" => c.op \in {"add", "update"}
  /\ c.pc = "delete" => c.op = "remove"
  /\ c.pc = "empty" => c.op = "clear"
  /\ c.pc = "unpromo" => c.op \in {"clear", "unpromo"}
  /\ c.pc = "promo" => c.op = "apply"
  /\ c.pc \in {"merge", "dropItems", "dropCart", "readUser", "convert"} => c.op = "merge"
  /\ c.pc \in {"merge", "dropItems", "dropCart"} => c.target # 0
  /\ c.op \in {"add", "update"} => c.n \in 1 .. MaxQuantity
  /\ c.op = "add" /\ c.pc = "done" => c.cart \in CartIds

(* What a merge has read, and what is left to do.                          *)
Merging(c) ==
  c.op = "merge" =>
    /\ K!LinesIn(c.seen) # {} => c.cart \in CartIds /\ c.pc # "create"
    /\ c.target # 0 => /\ c.cart \in CartIds /\ c.cart # c.target
                       /\ c.todo \subseteq K!LinesIn(c.seen)
                       /\ c.pc \notin {"merge", "failed"} => c.todo = {}
                       /\ c.pc \in {"merge", "dropItems", "dropCart", "done", "failed"}
    /\ c.target = 0 => c.pc \in {"readUser", "create", "convert", "done"}

RequestsAreSound == \A r \in Calls : Asked(request[r]) /\ Merging(request[r])

(* A row is named by a call that has inserted it.                          *)
Named(lines) ==
  \A v \in Variants, q \in Calls :
    lines[v].id = q => request[q].op = "merge" \/ request[q].pc = "done"

RowsAreNamed ==
  /\ \A c \in CartIds : Named(item[c])
  /\ \A r \in Calls : Named(request[r].seen) /\ Named(request[r].mine)

(* What saves an addition: the row is there, or somebody has taken over.   *)
AdditionKept(q) ==
  LET e == request[q]
      v == e.variant
  IN  /\ e.op = "add" /\ e.pc = "done" =>
           K!Overwritten(v) \/ K!Undercut(q) \/ item[e.cart][v].qty >= e.n
      /\ e.op = "add" /\ e.pc = "raced" => K!Overwritten(v) \/ item[e.cart][v].qty > 0
      /\ e.op = "add" /\ e.pc = "save" => e.seen[v].qty > e.n \/ e.seen[v].qty >= MaxQuantity
      /\ e.op = "update" /\ e.pc = "save" => e.seen[v].qty > 0

AdditionsInv == \A q \in Calls : AdditionKept(q)

(* A cart keeps a line until somebody takes it away or moves all of them.  *)
Safe(c, v) ==
  \/ K!Has(item[c], v) \/ K!TakenAway(v)
  \/ \E q \in Calls : K!Emptied(q) /\ request[q].cart = c

MergeKept(q) ==
  LET e == request[q] IN
  e.op = "merge" =>
    /\ \A v \in K!LinesIn(e.seen) :
         /\ Safe(e.cart, v)
         /\ e.target # 0 /\ v \notin e.todo => Safe(e.target, v)
    /\ e.target # 0 => \/ owners[e.target] # {}
                       \/ \E p \in Calls : K!Emptied(p) /\ request[p].cart = e.target

MergesInv == \A q \in Calls : MergeKept(q)

CartInv == CartTyped /\ RequestsAreSound /\ RowsAreNamed /\ AdditionsInv /\ MergesInv
-----------------------------------------------------------------------------
(* The least of two numbers, the greatest, and the least of a set.         *)
LEMMA LeastAndGreatest ==
  \A a, b \in Nat : /\ K!Min({a, b}) = IF a <= b THEN a ELSE b
                    /\ K!Max({a, b}) = IF a >= b THEN a ELSE b
<1> SUFFICES ASSUME NEW a \in Nat, NEW b \in Nat
             PROVE  /\ K!Min({a, b}) = IF a <= b THEN a ELSE b
                    /\ K!Max({a, b}) = IF a >= b THEN a ELSE b
  OBVIOUS
<1> DEFINE m == IF a <= b THEN a ELSE b
           n == IF a >= b THEN a ELSE b
<1>1. m \in {a, b} /\ \A y \in {a, b} : m <= y
  OBVIOUS
<1>2. n \in {a, b} /\ \A y \in {a, b} : n >= y
  OBVIOUS
<1> HIDE DEF m, n
<1>3. \A x \in {a, b} : (\A y \in {a, b} : x <= y) => x = m
  BY <1>1
<1>4. \A x \in {a, b} : (\A y \in {a, b} : x >= y) => x = n
  BY <1>2
<1>5. K!Min({a, b}) = m
  BY <1>1, <1>3 DEF K!Min
<1>6. K!Max({a, b}) = n
  BY <1>2, <1>4 DEF K!Max
<1> QED
  BY <1>5, <1>6 DEF m, n

LEMMA TheLeastIsFound ==
  ASSUME NEW S, S \subseteq Nat, S # {}
  PROVE  K!Min(S) \in S
BY SomethingIsLeast DEF K!Min
-----------------------------------------------------------------------------
(* What one request becomes.                                               *)
Becomes(r, c) == request' = [request EXCEPT ![r] = c]

LEMMA OneMoves ==
  ASSUME CartTyped, NEW r \in Calls, NEW c \in CartRequest, Becomes(r, c)
  PROVE  /\ request'[r] = c /\ \A q \in Calls : q # r => request'[q] = request[q]
         /\ request' \in [Calls -> CartRequest]
BY DEF CartTyped, Becomes

LEMMA GotoMeans ==
  ASSUME CartTyped, NEW r \in Calls, NEW pc, K!Goto(r, pc)
  PROVE  Becomes(r, [request[r] EXCEPT !.pc = pc])
BY DEF K!Goto, Becomes, CartTyped

LEMMA CreateMeans ==
  ASSUME CartTyped, NEW r \in Calls, NEW d \in CartIds, K!Create(r, d)
  PROVE  Becomes(r, [request[r] EXCEPT !.cart = d,
                       !.pc = K!After(request[r].op, request[r].variant, request[r].n, K!NoItems)])
BY DEF K!Create, Becomes, CartTyped

LEMMA LookMeans ==
  ASSUME CartTyped, NEW r \in Calls, K!Look(r)
  PROVE  LET v == request[r].variant
             old == item[request[r].cart][v]
             new == old.qty + request[r].n
         IN Becomes(r, [request[r] EXCEPT !.seen = [@ EXCEPT ![v] = [old EXCEPT !.qty = new]],
                         !.pc = IF old.qty = 0 THEN "insert"
                     ELSE IF new > MaxQuantity \/ new > Stock[v] THEN "failed" ELSE "save"])
BY DEF K!Look, Becomes, CartTyped

LEMMA MergeItemMeans ==
  ASSUME CartTyped, NEW r \in Calls, NEW v \in Variants, K!MergeItem(r, v)
  PROVE  LET u == request[r].target
             own == request[r].mine[v]
             line == IF own.qty = 0 THEN [qty |-> request[r].seen[v].qty, id |-> r]
                ELSE [own EXCEPT !.qty = K!Merged(@, request[r].seen[v].qty)]
         IN Becomes(r, [request[r] EXCEPT !.todo = @ \ {v}, 
              !.pc = IF ~ K!Saves(u, v, line) THEN "failed"
                        ELSE IF request[r].todo = {v} THEN "dropItems" ELSE @])
BY DEF K!MergeItem, Becomes, CartTyped
-----------------------------------------------------------------------------
(* A request is itself to its end, and has then done what it has done.     *)
Continues(d, c) ==
  /\ d.pc \notin {"done", "failed"}
  /\ d.pc # "idle" => c.op = d.op /\ c.variant = d.variant /\ c.n = d.n
  /\ d.pc \notin {"idle", "create"} => c.cart = d.cart
  /\ d.pc \notin {"idle", "readUser"} => c.target = d.target
  /\ d.pc = "unpromo" => c.pc = "done"
  /\ d.pc = "dropCart" => c.pc = "done"

LEMMA WhatIsDoneStays ==
  ASSUME CartTyped, NEW r \in Calls, NEW c \in CartRequest, Becomes(r, c), Continues(request[r], c),
         Asked(request[r])
  PROVE  /\ \A v \in Variants : K!TakenAway(v) => K!TakenAway(v)'
         /\ \A v \in Variants : K!Overwritten(v) => K!Overwritten(v)'
         /\ \A q \in Calls : K!Emptied(q) => K!Emptied(q)' /\ request'[q].cart = request[q].cart
         /\ \A q \in Calls : request[q].pc = "done" /\ K!Undercut(q) => K!Undercut(q)'
         /\ \A q \in Calls : request[q].op = "merge" \/ request[q].pc = "done" =>
                               request'[q].op = "merge" \/ request'[q].pc = "done"
<1>1. request'[r] = c /\ \A q \in Calls : q # r => request'[q] = request[q]
  BY OneMoves
<1>2. ASSUME NEW v \in Variants, K!TakenAway(v) PROVE K!TakenAway(v)'
  BY <1>1, <1>2 DEF K!TakenAway, Continues
<1>3. ASSUME NEW v \in Variants, K!Overwritten(v) PROVE K!Overwritten(v)'
  BY <1>1, <1>2, <1>3 DEF K!Overwritten, Continues, Asked
<1>4. ASSUME NEW q \in Calls, K!Emptied(q) PROVE K!Emptied(q)' /\ request'[q].cart = request[q].cart
  BY <1>1, <1>4 DEF K!Emptied, Continues
<1>5. ASSUME NEW q \in Calls, request[q].pc = "done", K!Undercut(q) PROVE K!Undercut(q)'
  <2>1. q # r
    BY <1>5 DEF Continues
  <2>2. PICK p \in Calls : /\ request[p].op = "add" /\ request[p].pc = "done" /\ request[p].cart = request[q].cart
                           /\ request[p].variant = request[q].variant
                           /\ request[p].seen[request[q].variant].qty > request[p].n
                           /\ request[p].seen[request[q].variant].qty < request[q].n
    BY <1>5 DEF K!Undercut, K!At
  <2>3. p # r
    BY <2>2 DEF Continues
  <2> QED
    BY <1>1, <2>1, <2>2, <2>3 DEF K!Undercut, K!At
<1>6. ASSUME NEW q \in Calls, request[q].op = "merge" \/ request[q].pc = "done"
      PROVE  request'[q].op = "merge" \/ request'[q].pc = "done"
  BY <1>1, <1>6 DEF Continues, Asked
<1> QED
  BY <1>2, <1>3, <1>4, <1>5, <1>6

(* A step that leaves every cart to those who rely on it:                  *)
(* it names the rows by what it has read, or by itself when it has         *)
(* inserted one;                                                           *)
NamesRows(r, c, items) ==
  \A d \in CartIds, v \in Variants :
    \/ items[d][v].id \in {"old", item[d][v].id, request[r].seen[v].id, request[r].mine[v].id}
    \/ items[d][v].id = r /\ (c.op = "merge" \/ c.pc = "done")

ReadsRows(r, lines) ==
  \A v \in Variants : \/ lines[v].id \in {"old", request[r].seen[v].id, request[r].mine[v].id}
                      \/ \E d \in CartIds : lines[v].id = item[d][v].id

(* it takes pieces away only where an update, a merge or a removal does,   *)
(* or an addition that counted on top of an older row;                     *)
TakesLittle(r, c, items) ==
  \A d \in CartIds, v \in Variants :
    \/ items[d][v].qty >= item[d][v].qty
    \/ c.op \in {"update", "merge"} /\ (c.op = "update" => c.variant = v)
    \/ c.pc \in {"done", "unpromo"} /\ (c.op = "clear" \/ (c.op = "remove" /\ c.variant = v))
    \/ /\ c.op = "add" /\ c.pc = "done" /\ c.cart = d /\ c.variant = v
       /\ items[d][v].qty = c.seen[v].qty
       /\ c.seen[v].qty > c.n \/ c.seen[v].qty >= MaxQuantity

(* it removes a line or a cart only when it says so.                       *)
Empties(c) == c.op = "merge" /\ c.target # 0 /\ c.pc \in {"dropCart", "done"}

RemovesLittle(c, items) ==
  \A d \in CartIds, v \in Variants :
    \/ K!Has(item[d], v) => K!Has(items[d], v)
    \/ c.pc \in {"done", "unpromo"} /\ (c.op = "clear" \/ (c.op = "remove" /\ c.variant = v))
    \/ Empties(c) /\ c.cart = d

KeepsCarts(c, rows) ==
  \A d \in CartIds : owners[d] # {} => rows[d] # {} \/ (Empties(c) /\ c.cart = d)

(* What it knows itself of an addition and of a merge.                     *)
AddsUp(c, items) ==
  /\ c.op = "add" /\ c.pc = "done" => K!Overwritten(c.variant) \/ items[c.cart][c.variant].qty >= c.n
  /\ c.op = "add" /\ c.pc = "raced" => K!Has(items[c.cart], c.variant)
  /\ c.op = "add" /\ c.pc = "save" => c.seen[c.variant].qty > c.n \/ c.seen[c.variant].qty >= MaxQuantity
  /\ c.op = "update" /\ c.pc = "save" => c.seen[c.variant].qty > 0

MergesUp(r, c, items) ==
  LET d == request[r] IN
  c.op = "merge" =>
    /\ \A v \in K!LinesIn(c.seen) :
         /\ \/ K!Has(items[c.cart], v)
            \/ d.op = "merge" /\ d.seen = c.seen /\ d.cart = c.cart
         /\ c.target # 0 /\ v \notin c.todo =>
              \/ K!Has(items[c.target], v)
              \/ \E q \in Calls : K!Emptied(q) /\ request[q].cart = c.target
              \/ d.op = "merge" /\ d.seen = c.seen /\ d.target = c.target /\ v \notin d.todo
    /\ c.target # 0 => owners[c.target] # {} \/ (d.op = "merge" /\ d.target = c.target)
-----------------------------------------------------------------------------
LEMMA CartStays ==
  ASSUME CartInv, CartConstants,
         NEW r \in Calls, NEW c \in CartRequest, Becomes(r, c), Continues(request[r], c), Asked(c), Merging(c),
         owners' \in [CartIds -> SUBSET K!Owners], item' \in [CartIds -> [Variants -> K!Row]],
         NamesRows(r, c, item'), ReadsRows(r, c.seen), ReadsRows(r, c.mine),
         TakesLittle(r, c, item'), RemovesLittle(c, item'), KeepsCarts(c, owners'),
         AddsUp(c, item'), MergesUp(r, c, item')
  PROVE  CartInv'
<1> USE DEF CartInv
<1>1. request'[r] = c /\ \A q \in Calls : q # r => request'[q] = request[q]
  BY OneMoves
<1>2. CartTyped'
  BY OneMoves DEF CartTyped
<1>3. RequestsAreSound'
  BY <1>1 DEF RequestsAreSound, Asked, Merging, K!LinesIn, K!Has
<1>4. /\ \A v \in Variants : K!TakenAway(v) => K!TakenAway(v)'
      /\ \A v \in Variants : K!Overwritten(v) => K!Overwritten(v)'
      /\ \A q \in Calls : K!Emptied(q) => K!Emptied(q)' /\ request'[q].cart = request[q].cart
      /\ \A q \in Calls : request[q].pc = "done" /\ K!Undercut(q) => K!Undercut(q)'
      /\ \A q \in Calls : request[q].op = "merge" \/ request[q].pc = "done" =>
                            request'[q].op = "merge" \/ request'[q].pc = "done"
  BY WhatIsDoneStays DEF RequestsAreSound
<1>5. RowsAreNamed'
  <2>1. (\A d \in CartIds : Named(item[d])) /\ Named(request[r].seen) /\ Named(request[r].mine)
    BY DEF RowsAreNamed
  <2>2. ASSUME NEW d \in CartIds PROVE Named(item[d])'
    BY <1>1, <1>4, <2>1 DEF Named, NamesRows, CartConstants
  <2>3. ASSUME NEW lines, ReadsRows(r, lines), NEW v \in Variants, NEW q \in Calls, lines[v].id = q
        PROVE  request'[q].op = "merge" \/ request'[q].pc = "done"
    BY <1>4, <2>1, <2>3 DEF Named, ReadsRows, CartConstants
  <2>4. Named(request[r].seen)' /\ Named(request[r].mine)'
    BY <1>1, <2>3 DEF Named
  <2>5. ASSUME NEW q \in Calls, q # r PROVE Named(request[q].seen)' /\ Named(request[q].mine)'
    BY <1>1, <1>4, <2>5 DEF Named, RowsAreNamed
  <2> QED
    BY <2>2, <2>4, <2>5 DEF RowsAreNamed
<1>6. \A v \in Variants : /\ c.op \in {"update", "merge"} /\ (c.op = "update" => c.variant = v) => K!Overwritten(v)'
                          /\ c.pc \in {"done", "unpromo"} /\ (c.op = "clear" \/ (c.op = "remove" /\ c.variant = v))
                               => K!TakenAway(v)' /\ K!Overwritten(v)'
  BY <1>1 DEF K!Overwritten, K!TakenAway
<1>7. Empties(c) => K!Emptied(r)' /\ request'[r].cart = c.cart
  BY <1>1 DEF Empties, K!Emptied
<1>8. AdditionsInv'
  <2> SUFFICES ASSUME NEW q \in Calls PROVE AdditionKept(q)'
    BY DEF AdditionsInv
  <2>0. AdditionKept(q)
    BY DEF AdditionsInv
  <2>1. CASE q = r
    BY <1>1, <1>4, <2>1 DEF AdditionKept, AddsUp, CartRequest, K!Has
  <2>2. CASE q # r
    <3> DEFINE e == request[q]
               v == e.variant
               n == e.n
               old == item[e.cart][v].qty
               new == item'[e.cart][v].qty
    <3>0. /\ request'[q] = e /\ e \in CartRequest /\ v \in Variants /\ n \in Nat
      BY <1>1, <2>2 DEF CartTyped, CartRequest
    <3>1. /\ e.op = "add" /\ e.pc = "save" => e.seen[v].qty > n \/ e.seen[v].qty >= MaxQuantity
          /\ e.op = "update" /\ e.pc = "save" => e.seen[v].qty > 0
      BY <2>0 DEF AdditionKept
    <3>2. ASSUME e.op = "add", e.pc \in {"done", "raced"}
          PROVE  /\ e.cart \in CartIds /\ n \in 1 .. MaxQuantity /\ old \in Nat /\ new \in Nat
      BY <3>0, <3>2 DEF RequestsAreSound, Asked, CartTyped, K!Row
    <3>3. ASSUME e.op = "add", e.pc \in {"done", "raced"}, ~ K!Overwritten(v)'
          PROVE  \/ new >= old
                 \/ /\ c.op = "add" /\ c.pc = "done" /\ c.cart = e.cart /\ c.variant = v
                    /\ new = c.seen[v].qty /\ c.n \in Nat \ {0}
                    /\ c.seen[v].qty > c.n \/ c.seen[v].qty >= MaxQuantity
      <4>1. c.op = "add" => c.n \in Nat \ {0}
        BY DEF Asked, CartConstants
      <4> QED
        BY <1>6, <3>0, <3>2, <3>3, <4>1 DEF TakesLittle
    <3>4. ASSUME e.op = "add", e.pc = "done" PROVE K!Overwritten(v)' \/ K!Undercut(q)' \/ new >= n
      <4>1. CASE K!Overwritten(v) \/ K!Undercut(q)
        BY <1>4, <3>0, <3>4, <4>1
      <4>2. CASE old >= n /\ ~ K!Overwritten(v)' /\ new >= old
        BY <3>2, <3>4, <4>2
      <4>3. CASE ~ K!Overwritten(v)' /\ ~ (new >= old) /\ ~ (new >= n)
        <5>1. /\ c.op = "add" /\ c.pc = "done" /\ c.cart = e.cart /\ c.variant = v
              /\ new = c.seen[v].qty /\ c.seen[v].qty > c.n
          BY <3>2, <3>3, <3>4, <4>3 DEF CartConstants
        <5>2. c.seen[v].qty < n
          BY <3>2, <3>4, <4>3, <5>1
        <5> QED
          BY <1>1, <3>0, <5>1, <5>2 DEF K!Undercut, K!At
      <4>4. K!Overwritten(v) \/ K!Undercut(q) \/ old >= n
        BY <2>0, <3>4 DEF AdditionKept
      <4> QED
        BY <3>2, <3>4, <4>1, <4>2, <4>3, <4>4
    <3>5. ASSUME e.op = "add", e.pc = "raced" PROVE K!Overwritten(v)' \/ new > 0
      <4>1. K!Overwritten(v) \/ old > 0
        BY <2>0, <3>5 DEF AdditionKept
      <4>2. ~ K!Overwritten(v)' => new > 0
        BY <1>4, <3>0, <3>2, <3>3, <3>5, <4>1 DEF CartConstants
      <4> QED
        BY <4>2
    <3> HIDE DEF old, new
    <3> QED
      BY <3>0, <3>1, <3>4, <3>5 DEF AdditionKept, new
  <2> QED
    BY <2>1, <2>2
<1>9. ASSUME NEW d \in CartIds, NEW v \in Variants, Safe(d, v) PROVE Safe(d, v)'
  <2>1. CASE K!Has(item[d], v)
    <3>1. K!Has(item'[d], v) \/ K!TakenAway(v)' \/ (Empties(c) /\ c.cart = d)
      BY <1>6, <2>1 DEF RemovesLittle
    <3> QED
      BY <1>7, <3>1 DEF Safe, K!Has
  <2> QED
    BY <1>4, <1>9, <2>1 DEF Safe
<1>10. MergesInv'
  <2> SUFFICES ASSUME NEW q \in Calls, request'[q].op = "merge" PROVE MergeKept(q)'
    BY DEF MergesInv, MergeKept
  <2>0. ASSUME NEW p \in Calls, request[p].op = "merge", request[p].target # 0
        PROVE  \/ owners'[request[p].target] # {}
               \/ \E s \in Calls : K!Emptied(s)' /\ request'[s].cart = request[p].target
    <3>1. request[p].target \in CartIds
      BY <2>0 DEF CartTyped, CartRequest
    <3>2. \/ owners[request[p].target] # {}
          \/ \E s \in Calls : K!Emptied(s) /\ request[s].cart = request[p].target
      BY <2>0 DEF MergesInv, MergeKept
    <3> QED
      BY <1>4, <1>7, <3>1, <3>2 DEF KeepsCarts
  <2>1. CASE q # r
    <3>1. PICK e \in CartRequest : e = request[q] /\ e = request'[q]
      BY <1>1, <2>1 DEF CartTyped
    <3>2. ASSUME NEW v \in K!LinesIn(e.seen)
          PROVE  /\ Safe(e.cart, v)'
                 /\ e.target # 0 /\ v \notin e.todo => Safe(e.target, v)'
      <4>0. e.op = "merge"
        BY <3>1
      <4>1. v \in Variants /\ e.cart \in CartIds /\ e.target \in CartIds \cup {0}
        BY <3>1, <3>2, <4>0 DEF K!LinesIn, RequestsAreSound, Merging, CartRequest
      <4>2. /\ Safe(e.cart, v)
            /\ e.target # 0 /\ v \notin e.todo => Safe(e.target, v)
        BY <3>1, <3>2, <4>0 DEF MergesInv, MergeKept
      <4> QED
        BY <1>9, <4>1, <4>2
    <3>3. e.target # 0 => \/ owners'[e.target] # {}
                          \/ \E p \in Calls : K!Emptied(p)' /\ request'[p].cart = e.target
      BY <2>0, <3>1
    <3> QED
      BY <3>1, <3>2, <3>3 DEF MergeKept
  <2>2. CASE q = r
    <3>1. c.op = "merge" /\ c \in CartRequest
      BY <1>1, <2>2
    <3>2. ASSUME NEW v \in K!LinesIn(c.seen)
          PROVE  /\ Safe(c.cart, v)'
                 /\ c.target # 0 /\ v \notin c.todo => Safe(c.target, v)'
      <4>1. v \in Variants /\ c.cart \in CartIds /\ c.target \in CartIds \cup {0}
        BY <3>1, <3>2 DEF K!LinesIn, Merging, CartRequest
      <4>2. Safe(c.cart, v)'
        <5>1. CASE K!Has(item'[c.cart], v)
          BY <5>1 DEF Safe, K!Has
        <5>2. CASE request[r].op = "merge" /\ request[r].seen = c.seen /\ request[r].cart = c.cart
          <6>1. Safe(c.cart, v)
            BY <3>2, <5>2 DEF MergesInv, MergeKept
          <6> QED
            BY <1>9, <4>1, <6>1
        <5> QED
          BY <3>1, <3>2, <5>1, <5>2 DEF MergesUp
      <4>3. ASSUME c.target # 0, v \notin c.todo PROVE Safe(c.target, v)'
        <5>1. CASE K!Has(item'[c.target], v)
          BY <5>1 DEF Safe, K!Has
        <5>2. CASE \E p \in Calls : K!Emptied(p) /\ request[p].cart = c.target
          BY <1>4, <5>2 DEF Safe
        <5>3. CASE request[r].op = "merge" /\ request[r].seen = c.seen /\ request[r].target = c.target /\ v \notin request[r].todo
          <6>1. Safe(c.target, v)
            BY <3>2, <4>3, <5>3 DEF MergesInv, MergeKept
          <6> QED
            BY <1>9, <4>1, <4>3, <6>1
        <5> QED
          BY <3>1, <3>2, <4>3, <5>1, <5>2, <5>3 DEF MergesUp
      <4> QED
        BY <4>2, <4>3
    <3>3. ASSUME c.target # 0
          PROVE  \/ owners'[c.target] # {}
                 \/ \E p \in Calls : K!Emptied(p)' /\ request'[p].cart = c.target
      <4>1. CASE owners[c.target] # {}
        BY <1>7, <3>1, <3>3, <4>1 DEF KeepsCarts, CartRequest
      <4>2. CASE request[r].op = "merge" /\ request[r].target = c.target
        BY <2>0, <3>3, <4>2
      <4> QED
        BY <3>1, <3>3, <4>1, <4>2 DEF MergesUp
    <3> QED
      BY <1>1, <2>2, <3>2, <3>3 DEF MergeKept
  <2> QED
    BY <2>1, <2>2
<1> QED
  BY <1>2, <1>3, <1>5, <1>8, <1>10

(* A step that changes neither a row nor a cart.                           *)
LEMMA QuietSteps ==
  ASSUME CartInv, CartConstants, UNCHANGED <<owners, item>>,
         NEW r \in Calls, NEW c \in CartRequest, Becomes(r, c), Continues(request[r], c), Asked(c), Merging(c),
         ReadsRows(r, c.seen), ReadsRows(r, c.mine), AddsUp(c, item), MergesUp(r, c, item)
  PROVE  CartInv'
<1>1. owners' \in [CartIds -> SUBSET K!Owners] /\ item' \in [CartIds -> [Variants -> K!Row]]
  BY DEF CartInv, CartTyped
<1>2. /\ NamesRows(r, c, item') /\ RemovesLittle(c, item') /\ KeepsCarts(c, owners')
      /\ AddsUp(c, item') /\ MergesUp(r, c, item')
  BY DEF NamesRows, RemovesLittle, KeepsCarts
<1>3. TakesLittle(r, c, item')
  BY <1>1 DEF TakesLittle, K!Row
<1> QED
  BY <1>1, <1>2, <1>3, CartStays

(* A step to another place in the program.                                 *)
LEMMA OnlyThePlace ==
  ASSUME NEW d \in CartRequest, NEW pc \in CartSteps, NEW c, c = [d EXCEPT !.pc = pc]
  PROVE  /\ c \in CartRequest /\ c.pc = pc /\ c.op = d.op /\ c.who = d.who /\ c.variant = d.variant
         /\ c.n = d.n /\ c.cart = d.cart /\ c.target = d.target /\ c.seen = d.seen /\ c.mine = d.mine
         /\ c.todo = d.todo
BY DEF CartRequest

LEMMA OldRows ==
  ASSUME CartTyped, NEW r \in Calls
  PROVE  ReadsRows(r, request[r].seen) /\ ReadsRows(r, request[r].mine) /\ ReadsRows(r, K!NoItems)
BY DEF ReadsRows, K!NoItems, K!NoRow

LEMMA NewCallIsTyped ==
  ASSUME CartConstants
  PROVE  K!NewCall \in CartRequest /\ K!NoItems \in [Variants -> K!Row] /\ K!NoRow \in K!Row
<1>1. (CHOOSE v \in Variants : TRUE) \in Variants
  BY DEF CartConstants
<1>2. K!NoItems \in [Variants -> K!Row] /\ K!NoRow \in K!Row
  BY DEF K!NoItems, K!NoRow, K!Row
<1> QED
  BY <1>1, <1>2 DEF K!NewCall, CartRequest, CartSteps, K!Ops, K!Owners

LEMMA CartStarts ==
  ASSUME K!Init, CartConstants
  PROVE  CartInv
<1> USE DEF K!Init
<1>1. /\ K!NewCall \in CartRequest /\ K!NewCall.pc = "idle" /\ K!NewCall.op = "get" /\ K!NewCall.target = 0
      /\ K!NewCall.seen = K!NoItems /\ K!NewCall.mine = K!NoItems
  BY NewCallIsTyped DEF K!NewCall
<1>2. \A r \in Calls : request[r] = K!NewCall
  OBVIOUS
<1>3. item \in [CartIds -> [Variants -> K!Row]] /\ \A d \in CartIds, v \in Variants : item[d][v].id = "old"
  <2> DEFINE Lines(l) == [v \in Variants |-> IF v \in DOMAIN l THEN [qty |-> l[v], id |-> "old"] ELSE K!NoRow]
             Starts == {K!NoItems} \cup {Lines(l) : l \in Carts0}
  <2>1. \A l \in Carts0 : Lines(l) \in [Variants -> K!Row] /\ \A v \in Variants : Lines(l)[v].id = "old"
    BY DEF K!Row, K!NoRow, CartConstants
  <2>2. K!NoItems \in [Variants -> K!Row] /\ \A v \in Variants : K!NoItems[v].id = "old"
    BY NewCallIsTyped DEF K!NoItems, K!NoRow
  <2>3. item \in [CartIds -> Starts]
    OBVIOUS
  <2> HIDE DEF Lines
  <2>4. \A i \in Starts : i \in [Variants -> K!Row] /\ \A v \in Variants : i[v].id = "old"
    BY <2>1, <2>2
  <2> HIDE DEF Starts
  <2> QED
    BY <2>3, <2>4
<1>4. owners \in [CartIds -> SUBSET K!Owners]
  BY DEF K!Owners
<1>5. CartTyped
  BY <1>1, <1>3, <1>4 DEF CartTyped
<1>6. RequestsAreSound
  BY <1>1, <1>2 DEF RequestsAreSound, Asked, Merging
<1>7. RowsAreNamed
  BY <1>1, <1>2, <1>3 DEF RowsAreNamed, Named, K!NoItems, K!NoRow, CartConstants
<1>8. AdditionsInv /\ MergesInv
  BY <1>1, <1>2 DEF AdditionsInv, AdditionKept, MergesInv, MergeKept
<1> QED
  BY <1>5, <1>6, <1>7, <1>8 DEF CartInv
-----------------------------------------------------------------------------
(* The steps of the requests, one after the other.                         *)
LEMMA FoundIsACart ==
  ASSUME CartTyped, CartConstants, NEW who, K!Found(who) # {}
  PROVE  K!Min(K!Found(who)) \in K!Found(who) /\ K!Min(K!Found(who)) \in CartIds
<1>1. K!Found(who) \subseteq CartIds /\ K!Found(who) \subseteq Nat
  BY DEF K!Found, CartConstants
<1> QED
  BY <1>1, TheLeastIsFound

LEMMA FindKeeps ==
  ASSUME CartInv, CartConstants, NEW r \in Calls, NEW op \in K!Ops \ {"merge"}, NEW who \in K!Owners,
         NEW v \in Variants, NEW n \in Quantities, K!Find(r, op, who, v, n)
  PROVE  CartInv'
<1> DEFINE asked == [K!NewCall EXCEPT !.op = op, !.who = who, !.variant = v, !.n = n]
           m     == K!Min(K!Found(who))
<1>0. n \in Nat /\ n \in 1 .. MaxQuantity /\ request[r].pc = "idle" /\ UNCHANGED <<owners, item>>
  BY DEF CartConstants, K!Find, K!At
<1>1. /\ asked \in CartRequest /\ asked.op = op /\ asked.variant = v /\ asked.n = n /\ asked.cart = 0
      /\ asked.target = 0 /\ asked.seen = K!NoItems /\ asked.mine = K!NoItems
  BY <1>0, NewCallIsTyped DEF K!NewCall, CartRequest
<1>2. CartTyped /\ CartInv
  BY DEF CartInv
<1>3. CASE K!Found(who) = {}
  <2> DEFINE c == [asked EXCEPT !.pc = "create"]
  <2>1. Becomes(r, c)
    BY <1>3 DEF K!Find, Becomes
  <2> HIDE DEF asked
  <2>2. /\ c \in CartRequest /\ c.pc = "create" /\ c.op = op /\ c.variant = v /\ c.n = n
        /\ c.seen = K!NoItems /\ c.mine = K!NoItems
    BY <1>1, OnlyThePlace DEF CartSteps
  <2> HIDE DEF c
  <2>3. Continues(request[r], c) /\ Asked(c) /\ Merging(c) /\ AddsUp(c, item) /\ MergesUp(r, c, item)
    BY <1>0, <2>2 DEF Continues, Asked, Merging, AddsUp, MergesUp
  <2> QED
    BY <1>0, <1>2, <2>1, <2>2, <2>3, OldRows, QuietSteps
<1>4. CASE K!Found(who) # {}
  <2> DEFINE seen == [item[m] EXCEPT ![v].qty = IF op = "update" THEN n ELSE @]
             pc == K!After(op, v, n, item[m])
             c == [asked EXCEPT !.pc = pc, !.cart = m, !.seen = seen]
  <2>1. Becomes(r, c)
    BY <1>4 DEF K!Find, Becomes
  <2>2. m \in CartIds /\ item[m] \in [Variants -> K!Row]
    BY <1>2, <1>4, FoundIsACart DEF CartTyped
  <2>3. /\ pc \in CartSteps
        /\ pc = "look" <=> op = "add"
        /\ pc = "save" => op = "update"
        /\ pc = "delete" => op = "remove"
        /\ pc = "empty" => op = "clear"
        /\ pc = "promo" => op = "apply"
        /\ pc = "unpromo" => op = "unpromo"
        /\ pc \in {"look", "save", "failed", "delete", "empty", "promo", "unpromo", "done"}
    BY DEF K!After, CartSteps, K!Ops
  <2>4. /\ seen \in [Variants -> K!Row] /\ \A w \in Variants : seen[w].id = item[m][w].id
        /\ op = "update" => seen[v].qty = n
    BY <1>0, <2>2 DEF K!Row
  <2> HIDE DEF pc, seen
  <2>5. /\ c \in CartRequest /\ c.pc = pc /\ c.op = op /\ c.variant = v /\ c.n = n /\ c.cart = m
        /\ c.seen = seen /\ c.mine = K!NoItems
    BY <1>1, <2>2, <2>3, <2>4 DEF CartRequest
  <2> HIDE DEF c, asked, m
  <2>6. Continues(request[r], c) /\ Asked(c) /\ Merging(c)
    BY <1>0, <2>2, <2>3, <2>5 DEF Continues, Asked, Merging
  <2>7. AddsUp(c, item)
    BY <1>0, <2>3, <2>4, <2>5 DEF AddsUp
  <2>8. MergesUp(r, c, item)
    BY <2>5 DEF MergesUp
  <2>9. ReadsRows(r, c.seen) /\ ReadsRows(r, c.mine)
    BY <1>2, <2>2, <2>4, <2>5, OldRows DEF ReadsRows
  <2> QED
    BY <1>0, <1>2, <2>1, <2>5, <2>6, <2>7, <2>8, <2>9, QuietSteps
<1> QED
  BY <1>3, <1>4

LEMMA CreateKeeps ==
  ASSUME CartInv, CartConstants, NEW r \in Calls, NEW d \in CartIds, K!Create(r, d)
  PROVE  CartInv'
<1> DEFINE e  == request[r]
           pc == K!After(e.op, e.variant, e.n, K!NoItems)
           c  == [e EXCEPT !.cart = d, !.pc = pc]
<1>0. CartTyped /\ e \in CartRequest /\ e.pc = "create" /\ Asked(e) /\ Merging(e)
  BY DEF CartInv, CartTyped, RequestsAreSound, K!Create, K!At
<1>1. Becomes(r, c)
  BY <1>0, CreateMeans
<1>2. owners' = [owners EXCEPT ![d] = {e.who}] /\ item' = item /\ owners[d] = {}
  BY DEF K!Create
<1>3. /\ owners' \in [CartIds -> SUBSET K!Owners] /\ item' \in [CartIds -> [Variants -> K!Row]]
      /\ \A x \in CartIds : owners[x] # {} => owners'[x] # {}
  BY <1>0, <1>2 DEF CartTyped, CartRequest
<1>4. /\ pc \in CartSteps
      /\ pc = "look" <=> e.op = "add"
      /\ pc = "empty" => e.op = "clear"
      /\ pc = "unpromo" => e.op = "unpromo"
      /\ e.op = "merge" => pc = "done"
      /\ pc \in {"look", "failed", "empty", "unpromo", "done"}
  BY <1>0 DEF K!After, CartSteps, K!Ops, CartRequest, K!Has, K!NoItems, K!NoRow, K!LinesIn
<1> HIDE DEF pc
<1>5. /\ c \in CartRequest /\ c.pc = pc /\ c.op = e.op /\ c.variant = e.variant /\ c.n = e.n /\ c.cart = d
      /\ c.target = e.target /\ c.seen = e.seen /\ c.mine = e.mine /\ c.todo = e.todo
  BY <1>0, <1>4 DEF CartRequest
<1> HIDE DEF c
<1>6. Continues(e, c) /\ Asked(c)
  BY <1>0, <1>4, <1>5 DEF Continues, Asked
<1>7. e.op = "merge" => K!LinesIn(c.seen) = {} /\ c.target = 0
  BY <1>0, <1>5 DEF Merging
<1>8. Merging(c) /\ MergesUp(r, c, item')
  BY <1>4, <1>5, <1>7 DEF Merging, MergesUp
<1>9. AddsUp(c, item')
  BY <1>4, <1>5 DEF AddsUp
<1>10. NamesRows(r, c, item') /\ RemovesLittle(c, item') /\ KeepsCarts(c, owners')
  BY <1>2, <1>3 DEF NamesRows, RemovesLittle, KeepsCarts
<1>11. TakesLittle(r, c, item')
  BY <1>2, <1>3 DEF TakesLittle, K!Row
<1>12. ReadsRows(r, c.seen) /\ ReadsRows(r, c.mine)
  BY <1>0, <1>5, OldRows
<1> QED
  BY <1>1, <1>3, <1>5, <1>6, <1>8, <1>9, <1>10, <1>11, <1>12, CartStays

LEMMA LookKeeps ==
  ASSUME CartInv, CartConstants, NEW r \in Calls, K!Look(r)
  PROVE  CartInv'
<1> DEFINE e   == request[r]
           v   == e.variant
           old == item[e.cart][v]
           new == old.qty + e.n
           pc  == IF old.qty = 0 THEN "insert"
                  ELSE IF new > MaxQuantity \/ new > Stock[v] THEN "failed" ELSE "save"
           c   == [e EXCEPT !.seen = [@ EXCEPT ![v] = [old EXCEPT !.qty = new]], !.pc = pc]
<1>0. /\ CartTyped /\ e \in CartRequest /\ e.pc = "look" /\ Asked(e) /\ Merging(e)
      /\ UNCHANGED <<owners, item>>
  BY DEF CartInv, CartTyped, RequestsAreSound, K!Look, K!At
<1>1. Becomes(r, c)
  BY <1>0, LookMeans
<1>2. /\ e.op = "add" /\ e.cart \in CartIds /\ v \in Variants /\ e.n \in 1 .. MaxQuantity /\ e.n \in Nat
      /\ old \in K!Row /\ old.qty \in Nat /\ e.seen \in [Variants -> K!Row]
  BY <1>0 DEF Asked, CartRequest, CartTyped, K!Row
<1> HIDE DEF old
<1>3. /\ pc \in {"insert", "failed", "save"} /\ pc \in CartSteps
      /\ pc = "save" => new > e.n
  BY <1>2 DEF CartSteps, CartConstants
<1> DEFINE seen == [e.seen EXCEPT ![v] = [old EXCEPT !.qty = new]]
<1>4. /\ seen \in [Variants -> K!Row] /\ seen[v].qty = new
      /\ \A w \in Variants : seen[w].id \in {e.seen[w].id, item[e.cart][w].id}
  BY <1>2 DEF K!Row, old
<1> HIDE DEF pc
<1>5. /\ c \in CartRequest /\ c.pc = pc /\ c.op = e.op /\ c.variant = v /\ c.n = e.n /\ c.cart = e.cart
      /\ c.target = e.target /\ c.seen = seen /\ c.mine = e.mine
  BY <1>0, <1>3, <1>4 DEF CartRequest
<1> HIDE DEF c, seen
<1>6. Continues(e, c) /\ Asked(c) /\ Merging(c) /\ MergesUp(r, c, item)
  BY <1>0, <1>2, <1>3, <1>5 DEF Continues, Asked, Merging, MergesUp
<1>7. AddsUp(c, item)
  BY <1>2, <1>3, <1>4, <1>5 DEF AddsUp
<1>8. ReadsRows(r, c.seen) /\ ReadsRows(r, c.mine)
  BY <1>0, <1>2, <1>4, <1>5, OldRows DEF ReadsRows
<1> QED
  BY <1>0, <1>1, <1>5, <1>6, <1>7, <1>8, QuietSteps

LEMMA LookAgainMeans ==
  ASSUME CartTyped, NEW r \in Calls, K!LookAgain(r)
  PROVE  LET v == request[r].variant
             old == item[request[r].cart][v]
             new == K!Retried(old.qty, request[r].n)
         IN  Becomes(r, [request[r] EXCEPT !.seen = [@ EXCEPT ![v] = [old EXCEPT !.qty = new]],
               !.pc = IF old.qty = 0 THEN "done" ELSE IF new > Stock[v] THEN "failed" ELSE "save"])
BY DEF K!LookAgain, Becomes, CartTyped

LEMMA LookAgainKeeps ==
  ASSUME CartInv, CartConstants, NEW r \in Calls, K!LookAgain(r)
  PROVE  CartInv'
<1> DEFINE e   == request[r]
           v   == e.variant
           old == item[e.cart][v]
           new == K!Retried(old.qty, e.n)
           pc  == IF old.qty = 0 THEN "done" ELSE IF new > Stock[v] THEN "failed" ELSE "save"
           c   == [e EXCEPT !.seen = [@ EXCEPT ![v] = [old EXCEPT !.qty = new]], !.pc = pc]
<1>0. /\ CartTyped /\ e \in CartRequest /\ e.pc = "raced" /\ Asked(e) /\ Merging(e) /\ AdditionKept(r)
      /\ UNCHANGED <<owners, item>>
  BY DEF CartInv, CartTyped, RequestsAreSound, AdditionsInv, K!LookAgain, K!At
<1>1. Becomes(r, c)
  BY <1>0, LookAgainMeans
<1>2. /\ e.op = "add" /\ e.cart \in CartIds /\ v \in Variants /\ e.n \in 1 .. MaxQuantity /\ e.n \in Nat
      /\ old \in K!Row /\ old.qty \in Nat /\ e.seen \in [Variants -> K!Row]
  BY <1>0 DEF Asked, CartRequest, CartTyped, K!Row
<1>a. old.qty = 0 => K!Overwritten(v)
  BY <1>0, <1>2 DEF AdditionKept
<1> HIDE DEF old
<1>b. new \in Nat /\ (old.qty > 0 => new > e.n \/ new >= MaxQuantity)
  <2>1. new = IF old.qty + e.n <= MaxQuantity THEN old.qty + e.n ELSE MaxQuantity
    BY <1>2, LeastAndGreatest DEF K!Retried, CartConstants
  <2> QED
    BY <1>2, <2>1 DEF CartConstants
<1> HIDE DEF new
<1>3. /\ pc \in {"done", "failed", "save"} /\ pc \in CartSteps
      /\ pc = "save" => new > e.n \/ new >= MaxQuantity
      /\ pc = "done" => K!Overwritten(v)
  BY <1>2, <1>a, <1>b DEF CartSteps, CartConstants
<1> DEFINE seen == [e.seen EXCEPT ![v] = [old EXCEPT !.qty = new]]
<1>4. /\ seen \in [Variants -> K!Row] /\ seen[v].qty = new
      /\ \A w \in Variants : seen[w].id \in {e.seen[w].id, item[e.cart][w].id}
  BY <1>2, <1>b DEF K!Row, old
<1> HIDE DEF pc
<1>5. /\ c \in CartRequest /\ c.pc = pc /\ c.op = e.op /\ c.variant = v /\ c.n = e.n /\ c.cart = e.cart
      /\ c.target = e.target /\ c.seen = seen /\ c.mine = e.mine
  BY <1>0, <1>3, <1>4 DEF CartRequest
<1> HIDE DEF c, seen
<1>6. Continues(e, c) /\ Asked(c) /\ Merging(c) /\ MergesUp(r, c, item)
  BY <1>0, <1>2, <1>3, <1>5 DEF Continues, Asked, Merging, MergesUp
<1>7. AddsUp(c, item)
  BY <1>2, <1>3, <1>4, <1>5 DEF AddsUp
<1>8. ReadsRows(r, c.seen) /\ ReadsRows(r, c.mine)
  BY <1>0, <1>2, <1>4, <1>5, OldRows DEF ReadsRows
<1> QED
  BY <1>0, <1>1, <1>5, <1>6, <1>7, <1>8, QuietSteps

(* What saveItem does to a row.                                            *)
LEMMA SavedRows ==
  ASSUME CartTyped, NEW d \in CartIds, NEW v \in Variants, NEW line \in K!Row, K!SaveItem(d, v, line)
  PROVE  /\ item' \in [CartIds -> [Variants -> K!Row]]
         /\ K!Saves(d, v, line) => item'[d][v] = line
         /\ ~ K!Saves(d, v, line) => item' = item
         /\ \A x \in CartIds, w \in Variants : x # d \/ w # v => item'[x][w] = item[x][w]
         /\ \A x \in CartIds, w \in Variants : item[x][w] \in K!Row /\ item[x][w].qty \in Nat
<1>0. \A x \in CartIds, w \in Variants : item[x][w] \in K!Row /\ item[x][w].qty \in Nat
  BY DEF CartTyped, K!Row
<1>1. CASE K!Saves(d, v, line)
  <2>1. item' = [item EXCEPT ![d] = [item[d] EXCEPT ![v] = line]]
    BY <1>1 DEF K!SaveItem
  <2> QED
    BY <1>0, <1>1, <2>1 DEF CartTyped
<1>2. CASE ~ K!Saves(d, v, line)
  <2>1. item' = item
    BY <1>2 DEF K!SaveItem
  <2> QED
    BY <1>0, <1>2, <2>1 DEF CartTyped
<1> QED
  BY <1>1, <1>2

LEMMA InsertKeeps ==
  ASSUME CartInv, CartConstants, NEW r \in Calls, K!Insert(r)
  PROVE  CartInv'
<1> DEFINE e    == request[r]
           d    == e.cart
           v    == e.variant
           line == [qty |-> e.n, id |-> r]
           pc   == IF K!Saves(d, v, line) THEN "done" ELSE K!Refused(d)
           c    == [e EXCEPT !.pc = pc]
<1>0. /\ CartTyped /\ e \in CartRequest /\ e.pc = "insert" /\ Asked(e) /\ Merging(e) /\ Named(item[d])
      /\ owners' = owners /\ K!SaveItem(d, v, line)
  BY DEF CartInv, CartTyped, RequestsAreSound, RowsAreNamed, K!Insert, K!At, Asked
<1>1. Becomes(r, c)
  BY <1>0, GotoMeans DEF K!Insert
<1>2. /\ e.op = "add" /\ d \in CartIds /\ v \in Variants /\ e.n \in 1 .. MaxQuantity /\ e.n \in Nat /\ line \in K!Row
  BY <1>0 DEF Asked, CartRequest, K!Row
<1>3. /\ item' \in [CartIds -> [Variants -> K!Row]]
      /\ K!Saves(d, v, line) => item'[d][v] = line
      /\ ~ K!Saves(d, v, line) => item' = item
      /\ \A x \in CartIds, w \in Variants : x # d \/ w # v => item'[x][w] = item[x][w]
      /\ \A x \in CartIds, w \in Variants : item[x][w] \in K!Row /\ item[x][w].qty \in Nat
  BY <1>0, <1>2, SavedRows
<1>4. K!Saves(d, v, line) => item[d][v].qty = 0
  <2>1. item[d][v].id # r
    BY <1>0, <1>2 DEF Named
  <2> QED
    BY <1>2, <1>3, <2>1 DEF K!Saves, K!Has
<1>5. /\ pc \in {"done", "failed", "raced"} /\ pc \in CartSteps
      /\ pc = "done" <=> K!Saves(d, v, line)
      /\ pc = "raced" => K!Has(item[d], v)
  BY DEF CartSteps, K!Refused, K!Saves
<1>a. K!Saves(d, v, line) => item'[d][v].qty = e.n /\ item'[d][v].id = r
  BY <1>3
<1> HIDE DEF pc, line
<1>6. /\ c \in CartRequest /\ c.pc = pc /\ c.op = e.op /\ c.variant = v /\ c.n = e.n /\ c.cart = d
      /\ c.target = e.target /\ c.seen = e.seen /\ c.mine = e.mine
  BY <1>0, <1>5, OnlyThePlace
<1> HIDE DEF c
<1>7. Continues(e, c) /\ Asked(c) /\ Merging(c) /\ MergesUp(r, c, item')
  BY <1>0, <1>2, <1>5, <1>6 DEF Continues, Asked, Merging, MergesUp
<1>8. AddsUp(c, item')
  BY <1>2, <1>3, <1>5, <1>6, <1>a DEF AddsUp, K!Has
<1>9. NamesRows(r, c, item')
  BY <1>2, <1>3, <1>5, <1>6, <1>a DEF NamesRows
<1>10. TakesLittle(r, c, item')
  BY <1>2, <1>3, <1>4, <1>a DEF TakesLittle
<1>11. RemovesLittle(c, item') /\ KeepsCarts(c, owners')
  BY <1>0, <1>2, <1>3, <1>a DEF RemovesLittle, KeepsCarts, K!Has
<1>12. ReadsRows(r, c.seen) /\ ReadsRows(r, c.mine)
  BY <1>0, <1>6, OldRows
<1>13. owners' \in [CartIds -> SUBSET K!Owners]
  BY <1>0 DEF CartTyped
<1> QED
  BY <1>1, <1>3, <1>6, <1>7, <1>8, <1>9, <1>10, <1>11, <1>12, <1>13, CartStays

LEMMA SaveKeeps ==
  ASSUME CartInv, CartConstants, NEW r \in Calls, K!Save(r)
  PROVE  CartInv'
<1> DEFINE e    == request[r]
           d    == e.cart
           v    == e.variant
           line == e.seen[v]
           pc   == IF K!Saves(d, v, line) THEN "done" ELSE "failed"
           c    == [e EXCEPT !.pc = pc]
<1>0. /\ CartTyped /\ e \in CartRequest /\ e.pc = "save" /\ Asked(e) /\ Merging(e) /\ AdditionKept(r)
      /\ owners' = owners /\ K!SaveItem(d, v, line)
  BY DEF CartInv, CartTyped, RequestsAreSound, AdditionsInv, K!Save, K!At
<1>1. Becomes(r, c)
  BY <1>0, GotoMeans DEF K!Save
<1>2. /\ e.op \in {"add", "update"} /\ d \in CartIds /\ v \in Variants /\ e.n \in 1 .. MaxQuantity /\ e.n \in Nat
      /\ line \in K!Row /\ line.qty \in Nat
  BY <1>0 DEF Asked, CartRequest, K!Row
<1>3. /\ item' \in [CartIds -> [Variants -> K!Row]]
      /\ K!Saves(d, v, line) => item'[d][v] = line
      /\ ~ K!Saves(d, v, line) => item' = item
      /\ \A x \in CartIds, w \in Variants : x # d \/ w # v => item'[x][w] = item[x][w]
      /\ \A x \in CartIds, w \in Variants : item[x][w] \in K!Row /\ item[x][w].qty \in Nat
  BY <1>0, <1>2, SavedRows
<1>4. /\ e.op = "add" => line.qty > e.n \/ line.qty >= MaxQuantity
      /\ line.qty > 0
  BY <1>0, <1>2 DEF AdditionKept, CartConstants
<1>5. /\ pc \in {"done", "failed"} /\ pc \in CartSteps /\ (pc = "done" <=> K!Saves(d, v, line))
  BY DEF CartSteps
<1> HIDE DEF pc, line
<1>6. /\ c \in CartRequest /\ c.pc = pc /\ c.op = e.op /\ c.variant = v /\ c.n = e.n /\ c.cart = d
      /\ c.target = e.target /\ c.seen = e.seen /\ c.mine = e.mine
  BY <1>0, <1>5, OnlyThePlace
<1> HIDE DEF c
<1>7. Continues(e, c) /\ Asked(c) /\ Merging(c) /\ MergesUp(r, c, item')
  BY <1>0, <1>2, <1>5, <1>6 DEF Continues, Asked, Merging, MergesUp
<1>8. AddsUp(c, item')
  BY <1>2, <1>3, <1>4, <1>5, <1>6 DEF AddsUp, CartConstants
<1>9. NamesRows(r, c, item')
  BY <1>2, <1>3, <1>6 DEF NamesRows, line
<1>10. TakesLittle(r, c, item')
  <2> SUFFICES ASSUME NEW x \in CartIds, NEW w \in Variants, ~ (item'[x][w].qty >= item[x][w].qty), c.op # "update"
               PROVE  /\ c.op = "add" /\ c.pc = "done" /\ c.cart = x /\ c.variant = w
                      /\ item'[x][w].qty = c.seen[w].qty
                      /\ c.seen[w].qty > c.n \/ c.seen[w].qty >= MaxQuantity
    BY <1>2, <1>3, <1>6 DEF TakesLittle
  <2>1. x = d /\ w = v /\ K!Saves(d, v, line)
    BY <1>3
  <2> QED
    BY <1>2, <1>3, <1>4, <1>5, <1>6, <2>1 DEF line
<1>11. RemovesLittle(c, item') /\ KeepsCarts(c, owners')
  BY <1>0, <1>2, <1>3, <1>4 DEF RemovesLittle, KeepsCarts, K!Has
<1>12. ReadsRows(r, c.seen) /\ ReadsRows(r, c.mine)
  BY <1>0, <1>6, OldRows
<1>13. owners' \in [CartIds -> SUBSET K!Owners]
  BY <1>0 DEF CartTyped
<1> QED
  BY <1>1, <1>3, <1>6, <1>7, <1>8, <1>9, <1>10, <1>11, <1>12, <1>13, CartStays

LEMMA TakingAwayKeeps ==
  ASSUME CartInv, CartConstants, NEW r \in Calls, K!Delete(r) \/ K!Empty(r)
  PROVE  CartInv'
<1> DEFINE e  == request[r]
           pc == IF e.pc = "delete" THEN "done" ELSE "unpromo"
           c  == [e EXCEPT !.pc = pc]
<1>0. /\ CartTyped /\ e \in CartRequest /\ e.pc \in {"delete", "empty"} /\ Asked(e) /\ Merging(e)
      /\ owners' = owners
  BY DEF CartInv, CartTyped, RequestsAreSound, K!Delete, K!Empty, K!At
<1>1. Becomes(r, c)
  BY <1>0, GotoMeans DEF K!Delete, K!Empty, K!At
<1>2. /\ e.op = (IF e.pc = "delete" THEN "remove" ELSE "clear") /\ e.cart \in CartIds /\ e.variant \in Variants
  BY <1>0 DEF Asked, CartRequest
<1>n. K!NoRow \in K!Row /\ K!NoRow.id = "old" /\ K!NoItems \in [Variants -> K!Row]
      /\ \A v \in Variants : K!NoItems[v] = K!NoRow
  BY NewCallIsTyped DEF K!NoRow, K!NoItems
<1>3. /\ item' \in [CartIds -> [Variants -> K!Row]]
      /\ \A x \in CartIds, w \in Variants :
            \/ item'[x][w] = item[x][w]
            \/ item'[x][w] = K!NoRow /\ (e.pc = "delete" => w = e.variant)
  <2>1. CASE K!Delete(r)
    <3>1. e.pc = "delete"
      BY <2>1 DEF K!Delete, K!At
    <3>2. item' = item \/ item' = [item EXCEPT ![e.cart] = [item[e.cart] EXCEPT ![e.variant] = K!NoRow]]
      BY <2>1 DEF K!Delete
    <3>3. CASE item' = item
      BY <1>0, <3>3 DEF CartTyped
    <3>4. CASE item' = [item EXCEPT ![e.cart] = [item[e.cart] EXCEPT ![e.variant] = K!NoRow]]
      <4>1. item' \in [CartIds -> [Variants -> K!Row]]
        BY <1>0, <1>2, <1>n, <3>4 DEF CartTyped
      <4>2. \A x \in CartIds, w \in Variants :
               item'[x][w] = IF x = e.cart /\ w = e.variant THEN K!NoRow ELSE item[x][w]
        BY <1>0, <1>2, <3>4 DEF CartTyped
      <4> QED
        BY <4>1, <4>2
    <3> QED
      BY <3>2, <3>3, <3>4
  <2>2. CASE K!Empty(r)
    <3>1. e.pc = "empty" /\ item' = [item EXCEPT ![e.cart] = K!NoItems]
      BY <2>2 DEF K!Empty, K!At
    <3> QED
      BY <1>0, <1>2, <1>n, <3>1 DEF CartTyped
  <2> QED
    BY <2>1, <2>2
<1>5. pc \in CartSteps /\ pc = (IF e.pc = "delete" THEN "done" ELSE "unpromo")
  BY DEF CartSteps
<1> HIDE DEF pc
<1>6. /\ c \in CartRequest /\ c.pc = pc /\ c.op = e.op /\ c.variant = e.variant /\ c.n = e.n /\ c.cart = e.cart
      /\ c.target = e.target /\ c.seen = e.seen /\ c.mine = e.mine
  BY <1>0, <1>5, OnlyThePlace
<1> HIDE DEF c
<1>7. Continues(e, c) /\ Asked(c) /\ Merging(c) /\ MergesUp(r, c, item') /\ AddsUp(c, item')
  BY <1>0, <1>2, <1>5, <1>6 DEF Continues, Asked, Merging, MergesUp, AddsUp
<1>9. NamesRows(r, c, item')
  BY <1>3, <1>n DEF NamesRows
<1>10. TakesLittle(r, c, item')
  <2>1. \A x \in CartIds, w \in Variants : item[x][w].qty >= item[x][w].qty
    BY <1>0 DEF CartTyped, K!Row
  <2> QED
    BY <1>0, <1>2, <1>3, <1>5, <1>6, <2>1 DEF TakesLittle
<1>11. RemovesLittle(c, item') /\ KeepsCarts(c, owners')
  BY <1>0, <1>2, <1>3, <1>5, <1>6 DEF RemovesLittle, KeepsCarts, K!Has
<1>12. ReadsRows(r, c.seen) /\ ReadsRows(r, c.mine)
  BY <1>0, <1>6, OldRows
<1>13. owners' \in [CartIds -> SUBSET K!Owners]
  BY <1>0 DEF CartTyped
<1> QED
  BY <1>1, <1>3, <1>6, <1>7, <1>9, <1>10, <1>11, <1>12, <1>13, CartStays

LEMMA PromoKeeps ==
  ASSUME CartInv, CartConstants, NEW r \in Calls, K!RemovePromo(r) \/ K!ApplyPromo(r)
  PROVE  CartInv'
<1> DEFINE e == request[r]
<1>0. /\ CartTyped /\ e \in CartRequest /\ e.pc \in {"unpromo", "promo"} /\ Asked(e) /\ Merging(e)
      /\ UNCHANGED <<owners, item>>
  BY DEF CartInv, CartTyped, RequestsAreSound, K!RemovePromo, K!ApplyPromo, K!At
<1>1. PICK pc \in {"done", "failed"} : Becomes(r, [e EXCEPT !.pc = pc]) /\ (e.pc = "unpromo" => pc = "done")
  BY <1>0, GotoMeans DEF K!RemovePromo, K!ApplyPromo, K!At
<1> DEFINE c == [e EXCEPT !.pc = pc]
<1>2. pc \in CartSteps /\ Becomes(r, c)
  BY <1>1 DEF CartSteps
<1>3. /\ c \in CartRequest /\ c.pc = pc /\ c.op = e.op /\ c.variant = e.variant /\ c.n = e.n /\ c.cart = e.cart
      /\ c.target = e.target /\ c.seen = e.seen /\ c.mine = e.mine
  BY <1>0, <1>2, OnlyThePlace
<1> HIDE DEF c
<1>4. e.op \in {"clear", "unpromo", "apply"}
  BY <1>0 DEF Asked
<1>5. Continues(e, c) /\ Asked(c) /\ Merging(c) /\ MergesUp(r, c, item) /\ AddsUp(c, item)
  BY <1>0, <1>1, <1>3, <1>4 DEF Continues, Asked, Merging, MergesUp, AddsUp
<1>6. ReadsRows(r, c.seen) /\ ReadsRows(r, c.mine)
  BY <1>0, <1>3, OldRows
<1> QED
  BY <1>0, <1>2, <1>3, <1>5, <1>6, QuietSteps

LEMMA ReadGuestCartKeeps ==
  ASSUME CartInv, CartConstants, NEW r \in Calls, K!ReadGuestCart(r)
  PROVE  CartInv'
<1> DEFINE g    == IF K!Found("session") = {} THEN 0 ELSE K!Min(K!Found("session"))
           seen == IF g = 0 THEN K!NoItems ELSE item[g]
           c    == [K!NewCall EXCEPT !.pc = "readUser", !.op = "merge", !.who = "user", !.cart = g, !.seen = seen]
<1>0. CartTyped /\ request[r].pc = "idle" /\ UNCHANGED <<owners, item>>
  BY DEF CartInv, K!ReadGuestCart, K!At
<1>1. Becomes(r, c)
  BY DEF K!ReadGuestCart, Becomes
<1>2. g \in CartIds \cup {0} /\ 0 \notin CartIds
  BY <1>0, FoundIsACart DEF CartConstants
<1> HIDE DEF g
<1>3. /\ seen \in [Variants -> K!Row]
      /\ g = 0 => seen = K!NoItems
      /\ g # 0 => g \in CartIds /\ seen = item[g]
  BY <1>0, <1>2, NewCallIsTyped DEF CartTyped
<1> HIDE DEF seen
<1>4. /\ c \in CartRequest /\ c.pc = "readUser" /\ c.op = "merge" /\ c.cart = g /\ c.seen = seen
      /\ c.target = 0 /\ c.mine = K!NoItems
  BY <1>2, <1>3, NewCallIsTyped DEF K!NewCall, CartRequest, CartSteps, K!Ops, K!Owners
<1> HIDE DEF c
<1>5. K!LinesIn(K!NoItems) = {}
  BY DEF K!LinesIn, K!Has, K!NoItems, K!NoRow
<1>6. Continues(request[r], c) /\ Asked(c)
  BY <1>0, <1>4 DEF Continues, Asked
<1>7. Merging(c)
  BY <1>3, <1>4, <1>5 DEF Merging
<1>8. AddsUp(c, item)
  BY <1>4 DEF AddsUp
<1>9. MergesUp(r, c, item)
  BY <1>3, <1>4, <1>5 DEF MergesUp, K!LinesIn
<1>10. ReadsRows(r, c.seen) /\ ReadsRows(r, c.mine)
  BY <1>0, <1>3, <1>4, OldRows DEF ReadsRows
<1> QED
  BY <1>0, <1>1, <1>4, <1>6, <1>7, <1>8, <1>9, <1>10, QuietSteps

LEMMA ReadUserCartKeeps ==
  ASSUME CartInv, CartConstants, NEW r \in Calls, K!ReadUserCart(r)
  PROVE  CartInv'
<1> DEFINE e     == request[r]
           found == K!Found("user")
           guest == K!LinesIn(e.seen)
           u     == K!Min(found)
<1>0. CartTyped /\ e \in CartRequest /\ e.pc = "readUser" /\ Asked(e) /\ Merging(e) /\ UNCHANGED <<owners, item>>
  BY DEF CartInv, CartTyped, RequestsAreSound, K!ReadUserCart, K!At
<1>1. e.op = "merge" /\ e.target = 0 /\ (guest # {} => e.cart \in CartIds)
  BY <1>0 DEF Asked, Merging
<1>2. CASE guest # {} /\ found # {} /\ ~ K!SameCart(e.cart, u)
  <2> DEFINE c == [e EXCEPT !.pc = "merge", !.target = u, !.mine = item[u], !.todo = guest]
  <2>1. Becomes(r, c)
    BY <1>2 DEF K!ReadUserCart, Becomes
  <2>2. u \in found /\ u \in CartIds /\ u # 0 /\ owners[u] # {} /\ e.cart # u
    BY <1>0, <1>2, FoundIsACart DEF K!Found, K!SameCart, CartConstants
  <2> HIDE DEF u, guest
  <2>3. guest \subseteq Variants /\ item[u] \in [Variants -> K!Row] /\ guest = K!LinesIn(e.seen)
    BY <1>0, <2>2 DEF K!LinesIn, CartTyped, guest
  <2>4. /\ c \in CartRequest /\ c.pc = "merge" /\ c.op = e.op /\ c.variant = e.variant /\ c.n = e.n /\ c.cart = e.cart
        /\ c.target = u /\ c.seen = e.seen /\ c.mine = item[u] /\ c.todo = guest
    BY <1>0, <2>2, <2>3 DEF CartRequest, CartSteps
  <2> HIDE DEF c
  <2>5. Continues(e, c) /\ Asked(c) /\ AddsUp(c, item)
    BY <1>0, <1>1, <2>2, <2>4 DEF Continues, Asked, AddsUp
  <2>6. Merging(c) /\ MergesUp(r, c, item)
    BY <1>1, <1>2, <2>2, <2>3, <2>4 DEF Merging, MergesUp, guest
  <2>7. ReadsRows(r, c.seen) /\ ReadsRows(r, c.mine)
    BY <1>0, <2>2, <2>4, OldRows DEF ReadsRows
  <2> QED
    BY <1>0, <2>1, <2>4, <2>5, <2>6, <2>7, QuietSteps
<1>3. CASE ~ (guest # {} /\ found # {} /\ ~ K!SameCart(e.cart, u))
  <2>1. PICK pc \in {"create", "convert", "done"} :
          /\ Becomes(r, [e EXCEPT !.pc = pc])
          /\ pc = "create" => guest = {}
          /\ pc = "convert" => guest # {}
    BY <1>3 DEF K!ReadUserCart, Becomes
  <2> DEFINE c == [e EXCEPT !.pc = pc]
  <2>2. pc \in CartSteps /\ Becomes(r, c)
    BY <2>1 DEF CartSteps
  <2>3. /\ c \in CartRequest /\ c.pc = pc /\ c.op = e.op /\ c.variant = e.variant /\ c.n = e.n /\ c.cart = e.cart
        /\ c.target = e.target /\ c.seen = e.seen /\ c.mine = e.mine /\ c.todo = e.todo
    BY <1>0, <2>2, OnlyThePlace
  <2> HIDE DEF c
  <2>4. Continues(e, c) /\ Asked(c) /\ AddsUp(c, item)
    BY <1>0, <1>1, <2>1, <2>3 DEF Continues, Asked, AddsUp
  <2>5. Merging(c) /\ MergesUp(r, c, item)
    BY <1>0, <1>1, <2>1, <2>3 DEF Merging, MergesUp
  <2>6. ReadsRows(r, c.seen) /\ ReadsRows(r, c.mine)
    BY <1>0, <2>3, OldRows
  <2> QED
    BY <1>0, <2>2, <2>3, <2>4, <2>5, <2>6, QuietSteps
<1> QED
  BY <1>2, <1>3

LEMMA ConvertKeeps ==
  ASSUME CartInv, CartConstants, NEW r \in Calls, K!Convert(r)
  PROVE  CartInv'
<1> DEFINE e == request[r]
           c == [e EXCEPT !.pc = "done"]
<1>0. CartTyped /\ e \in CartRequest /\ e.pc = "convert" /\ Asked(e) /\ Merging(e) /\ item' = item
  BY DEF CartInv, CartTyped, RequestsAreSound, K!Convert, K!At
<1>1. Becomes(r, c)
  BY <1>0, GotoMeans DEF K!Convert
<1>2. e.op = "merge" /\ e.target = 0 /\ e.cart \in CartIds
  BY <1>0 DEF Asked, Merging
<1>3. owners' = [owners EXCEPT ![e.cart] = IF @ = {} THEN @ ELSE @ \cup {"user"}]
  BY DEF K!Convert
<1>4. /\ owners' \in [CartIds -> SUBSET K!Owners] /\ \A d \in CartIds : owners[d] # {} => owners'[d] # {}
  BY <1>0, <1>2, <1>3 DEF CartTyped, K!Owners
<1>5. /\ c \in CartRequest /\ c.pc = "done" /\ c.op = e.op /\ c.variant = e.variant /\ c.n = e.n /\ c.cart = e.cart
      /\ c.target = e.target /\ c.seen = e.seen /\ c.mine = e.mine /\ c.todo = e.todo
  BY <1>0, OnlyThePlace DEF CartSteps
<1> HIDE DEF c
<1>6. Continues(e, c) /\ Asked(c) /\ AddsUp(c, item')
  BY <1>0, <1>2, <1>5 DEF Continues, Asked, AddsUp
<1>7. Merging(c) /\ MergesUp(r, c, item')
  BY <1>0, <1>2, <1>5 DEF Merging, MergesUp
<1>8. NamesRows(r, c, item') /\ RemovesLittle(c, item') /\ KeepsCarts(c, owners')
  BY <1>0, <1>4 DEF NamesRows, RemovesLittle, KeepsCarts
<1>9. TakesLittle(r, c, item') /\ item' \in [CartIds -> [Variants -> K!Row]]
  BY <1>0 DEF TakesLittle, CartTyped, K!Row
<1>10. ReadsRows(r, c.seen) /\ ReadsRows(r, c.mine)
  BY <1>0, <1>5, OldRows
<1> QED
  BY <1>1, <1>4, <1>5, <1>6, <1>7, <1>8, <1>9, <1>10, CartStays

LEMMA MergeItemKeeps ==
  ASSUME CartInv, CartConstants, NEW r \in Calls, NEW v \in Variants, K!MergeItem(r, v)
  PROVE  CartInv'
<1> DEFINE e    == request[r]
           u    == e.target
           own  == e.mine[v]
           line == IF own.qty = 0 THEN [qty |-> e.seen[v].qty, id |-> r]
                   ELSE [own EXCEPT !.qty = K!Merged(@, e.seen[v].qty)]
           pc   == IF ~ K!Saves(u, v, line) THEN "failed" ELSE IF e.todo = {v} THEN "dropItems" ELSE e.pc
           todo == e.todo \ {v}
           c    == [e EXCEPT !.todo = todo, !.pc = pc]
<1>0. /\ CartTyped /\ e \in CartRequest /\ e.pc = "merge" /\ Asked(e) /\ Merging(e) /\ MergeKept(r)
      /\ v \in e.todo /\ owners' = owners /\ K!SaveItem(u, v, line)
  BY DEF CartInv, CartTyped, RequestsAreSound, MergesInv, K!MergeItem, K!At
<1>1. Becomes(r, c)
  BY <1>0, MergeItemMeans
<1>2. /\ e.op = "merge" /\ u # 0 /\ u \in CartIds /\ e.cart \in CartIds /\ e.cart # u
      /\ e.todo \subseteq K!LinesIn(e.seen) /\ v \in K!LinesIn(e.seen) /\ e.seen[v].qty > 0
      /\ own \in K!Row /\ e.seen[v].qty \in Nat
  BY <1>0 DEF Asked, Merging, CartRequest, K!LinesIn, K!Has, K!Row
<1>3. line \in K!Row /\ line.qty > 0 /\ line.id \in {r, own.id}
  <2>1. CASE own.qty = 0
    BY <1>2, <2>1 DEF K!Row
  <2>2. CASE own.qty # 0
    <3>1. own.qty \in Nat /\ own.qty > 0
      BY <1>2, <2>2 DEF K!Row
    <3>2. K!Merged(own.qty, e.seen[v].qty) \in Nat /\ K!Merged(own.qty, e.seen[v].qty) > 0
      <4> DEFINE most == K!Max({own.qty, e.seen[v].qty})
      <4>1. most = IF own.qty >= e.seen[v].qty THEN own.qty ELSE e.seen[v].qty
        BY <1>2, <3>1, LeastAndGreatest
      <4>2. most \in Nat /\ most > 0
        BY <1>2, <3>1, <4>1
      <4> HIDE DEF most
      <4>3. K!Min({most, MaxQuantity}) = IF most <= MaxQuantity THEN most ELSE MaxQuantity
        BY <4>2, LeastAndGreatest DEF CartConstants
      <4> QED
        BY <4>2, <4>3 DEF K!Merged, CartConstants, most
    <3>3. line = [own EXCEPT !.qty = K!Merged(own.qty, e.seen[v].qty)]
      BY <2>2
    <3> HIDE DEF line, own
    <3> QED
      BY <1>2, <3>2, <3>3 DEF K!Row
  <2> QED
    BY <2>1, <2>2
<1>4. /\ item' \in [CartIds -> [Variants -> K!Row]]
      /\ K!Saves(u, v, line) => item'[u][v] = line
      /\ ~ K!Saves(u, v, line) => item' = item
      /\ \A x \in CartIds, w \in Variants : x # u \/ w # v => item'[x][w] = item[x][w]
      /\ \A x \in CartIds, w \in Variants : item[x][w] \in K!Row /\ item[x][w].qty \in Nat
  <2> HIDE DEF line
  <2> QED
    BY <1>0, <1>2, <1>3, SavedRows
<1>5. ~ K!Saves(u, v, line) => owners[u] = {} \/ K!Has(item[u], v)
  BY DEF K!Saves
<1> HIDE DEF line
<1>6. /\ pc \in {"failed", "dropItems", "merge"} /\ pc \in CartSteps /\ todo \subseteq e.todo /\ todo \in SUBSET Variants
      /\ pc = "dropItems" => todo = {}
      /\ pc # "failed" => K!Saves(u, v, line)
  BY <1>0 DEF CartSteps, CartRequest
<1>a. \A w : w \notin todo => w \notin e.todo \/ w = v
  OBVIOUS
<1>b. K!Saves(u, v, line) \/ ~ K!Saves(u, v, line)
  OBVIOUS
<1> HIDE DEF pc, todo
<1>7. /\ c \in CartRequest /\ c.pc = pc /\ c.op = e.op /\ c.variant = e.variant /\ c.n = e.n /\ c.cart = e.cart
      /\ c.target = u /\ c.seen = e.seen /\ c.mine = e.mine /\ c.todo = todo
  BY <1>0, <1>6 DEF CartRequest
<1> HIDE DEF c
<1>8. Continues(e, c) /\ Asked(c) /\ AddsUp(c, item')
  BY <1>0, <1>2, <1>6, <1>7 DEF Continues, Asked, AddsUp
<1>9. Merging(c)
  BY <1>0, <1>2, <1>6, <1>7 DEF Merging
<1>10. \/ K!Has(item'[u], v)
       \/ \E q \in Calls : K!Emptied(q) /\ request[q].cart = u
  <2>1. CASE K!Saves(u, v, line)
    BY <1>3, <1>4, <2>1 DEF K!Has
  <2>2. CASE ~ K!Saves(u, v, line)
    BY <1>0, <1>2, <1>4, <1>5, <2>2 DEF MergeKept
  <2> QED
    BY <2>1, <2>2
<1>11. MergesUp(r, c, item')
  BY <1>2, <1>7, <1>10, <1>a DEF MergesUp
<1>12. NamesRows(r, c, item')
  BY <1>2, <1>3, <1>4, <1>7 DEF NamesRows
<1>13. TakesLittle(r, c, item')
  BY <1>2, <1>7 DEF TakesLittle
<1>14. RemovesLittle(c, item') /\ KeepsCarts(c, owners')
  BY <1>0, <1>2, <1>3, <1>4 DEF RemovesLittle, KeepsCarts, K!Has
<1>15. ReadsRows(r, c.seen) /\ ReadsRows(r, c.mine)
  BY <1>0, <1>7, OldRows
<1>16. owners' \in [CartIds -> SUBSET K!Owners]
  BY <1>0 DEF CartTyped
<1> QED
  BY <1>1, <1>4, <1>7, <1>8, <1>9, <1>11, <1>12, <1>13, <1>14, <1>15, <1>16, CartStays

LEMMA DroppingKeeps ==
  ASSUME CartInv, CartConstants, NEW r \in Calls, K!DropItems(r) \/ K!DropCart(r)
  PROVE  CartInv'
<1> DEFINE e  == request[r]
           pc == IF e.pc = "dropItems" THEN "dropCart" ELSE "done"
           c  == [e EXCEPT !.pc = pc]
<1>0. CartTyped /\ e \in CartRequest /\ e.pc \in {"dropItems", "dropCart"} /\ Asked(e) /\ Merging(e)
  BY DEF CartInv, CartTyped, RequestsAreSound, K!DropItems, K!DropCart, K!At
<1>1. Becomes(r, c)
  BY <1>0, GotoMeans DEF K!DropItems, K!DropCart, K!At
<1>2. e.op = "merge" /\ e.target # 0 /\ e.cart \in CartIds /\ e.todo = {}
  BY <1>0 DEF Asked, Merging
<1>3. item' = [item EXCEPT ![e.cart] = K!NoItems] /\ owners' \in {owners, [owners EXCEPT ![e.cart] = {}]}
  BY DEF K!DropItems, K!DropCart
<1>4. /\ item' \in [CartIds -> [Variants -> K!Row]] /\ owners' \in [CartIds -> SUBSET K!Owners]
      /\ \A d \in CartIds : d # e.cart => item'[d] = item[d] /\ owners'[d] = owners[d]
      /\ item'[e.cart] = K!NoItems
  BY <1>0, <1>2, <1>3, NewCallIsTyped DEF CartTyped
<1>5. pc \in CartSteps /\ pc = (IF e.pc = "dropItems" THEN "dropCart" ELSE "done")
  BY DEF CartSteps
<1> HIDE DEF pc
<1>6. /\ c \in CartRequest /\ c.pc = pc /\ c.op = e.op /\ c.variant = e.variant /\ c.n = e.n /\ c.cart = e.cart
      /\ c.target = e.target /\ c.seen = e.seen /\ c.mine = e.mine /\ c.todo = e.todo
  BY <1>0, <1>5, OnlyThePlace
<1> HIDE DEF c
<1>7. Continues(e, c) /\ Asked(c) /\ AddsUp(c, item')
  BY <1>0, <1>2, <1>5, <1>6 DEF Continues, Asked, AddsUp
<1>8. Merging(c) /\ Empties(c)
  BY <1>0, <1>2, <1>5, <1>6 DEF Merging, Empties
<1>9. MergesUp(r, c, item')
  BY <1>2, <1>6 DEF MergesUp
<1>10. NamesRows(r, c, item')
  BY <1>2, <1>4 DEF NamesRows, K!NoItems, K!NoRow
<1>11. TakesLittle(r, c, item')
  BY <1>2, <1>6 DEF TakesLittle
<1>12. RemovesLittle(c, item') /\ KeepsCarts(c, owners')
  BY <1>4, <1>6, <1>8 DEF RemovesLittle, KeepsCarts
<1>13. ReadsRows(r, c.seen) /\ ReadsRows(r, c.mine)
  BY <1>0, <1>6, OldRows
<1> QED
  BY <1>1, <1>4, <1>6, <1>7, <1>8, <1>9, <1>10, <1>11, <1>12, <1>13, CartStays

LEMMA CartsKeep ==
  ASSUME CartInv, CartConstants, [K!Next]_(K!vars)
  PROVE  CartInv'
<1>1. CASE UNCHANGED K!vars
  BY <1>1 DEF K!vars, CartInv, CartTyped, RequestsAreSound, Asked, Merging, K!LinesIn, K!Has, RowsAreNamed, Named,
     AdditionsInv, AdditionKept, K!Overwritten, K!TakenAway, K!Undercut, K!At, MergesInv, MergeKept, Safe, K!Emptied
<1>2. CASE K!Next
  <2>1. PICK r \in Calls :
          \/ \E op \in K!Ops \ {"merge"}, who \in K!Owners, v \in Variants, n \in Quantities :
               K!Find(r, op, who, v, n)
          \/ \E d \in CartIds : K!Create(r, d)
          \/ K!Look(r) \/ K!Insert(r) \/ K!LookAgain(r) \/ K!Save(r) \/ K!Delete(r) \/ K!Empty(r)
          \/ K!RemovePromo(r) \/ K!ApplyPromo(r)
          \/ K!ReadGuestCart(r) \/ K!ReadUserCart(r) \/ K!Convert(r) \/ K!DropItems(r) \/ K!DropCart(r)
          \/ \E v \in Variants : K!MergeItem(r, v)
    BY <1>2 DEF K!Next
  <2> QED
    BY <2>1, FindKeeps, CreateKeeps, LookKeeps, InsertKeeps, LookAgainKeeps, SaveKeeps, TakingAwayKeeps, PromoKeeps,
       ReadGuestCartKeeps, ReadUserCartKeeps, ConvertKeeps, DroppingKeeps, MergeItemKeeps
<1> QED
  BY <1>1, <1>2

(* What the invariant says of merges, once two of them are told apart.     *)
LEMMA MergesMean ==
  ASSUME CartInv
  PROVE  K!MergeLosesNothing
<1> SUFFICES ASSUME NEW r \in Calls, request[r].op = "merge", NEW v \in K!LinesIn(request[r].seen),
                    ~ K!TakenAway(v), ~ K!EmptiedUnseen(v), ~ K!MergedAway
             PROVE  \E d \in CartIds : K!Has(item[d], v)
  BY DEF K!MergeLosesNothing
<1>1. /\ \A q \in Calls : MergeKept(q) /\ Merging(request[q]) /\ request[q] \in CartRequest
  BY DEF CartInv, MergesInv, RequestsAreSound, CartTyped
<1>2. Safe(request[r].cart, v) /\ request[r].cart \in CartIds
  BY <1>1 DEF MergeKept, Merging
<1>3. CASE K!Has(item[request[r].cart], v)
  BY <1>2, <1>3
<1>4. ASSUME NEW q \in Calls, K!Emptied(q), request[q].cart = request[r].cart
      PROVE  \E d \in CartIds : K!Has(item[d], v)
  <2>1. /\ request[q].op = "merge" /\ request[q].target # 0 /\ request[q].target \in CartIds
        /\ request[q].cart # request[q].target /\ request[q].todo = {}
    BY <1>1, <1>4 DEF K!Emptied, Merging, CartRequest
  <2>2. v \in K!LinesIn(request[q].seen)
    BY <1>4 DEF K!EmptiedUnseen, K!LinesIn
  <2>3. Safe(request[q].target, v)
    BY <1>1, <2>1, <2>2 DEF MergeKept
  <2>4. \A p \in Calls : ~ (K!Emptied(p) /\ request[p].cart = request[q].target)
    BY <1>4, <2>1 DEF K!MergedAway
  <2> QED
    BY <2>1, <2>3, <2>4 DEF Safe
<1> QED
  BY <1>2, <1>3, <1>4 DEF Safe

(* What the shop never loses of a cart, however many requests of a visitor *)
(* overlap: what a merge has read (mergeCarts), and what addItem has       *)
(* accepted, but for the cases that the two properties name.               *)
LEMMA CartsStaySound ==
  ASSUME CartConstants
  PROVE  ShopSpec => [](part = "cart" => CartInv)
<1> DEFINE Inv == part = "cart" => CartInv
<1>1. ShopInit => Inv
  BY CartStarts DEF ShopInit
<1>2. Inv /\ [ShopNext]_all => Inv'
  <2>1. SUFFICES ASSUME Inv, [ShopNext]_all, part' = "cart" PROVE CartInv'
    OBVIOUS
  <2>2. part = "cart"
    BY <2>1 DEF ShopNext, all
  <2>3. CASE UNCHANGED all
    <3>1. UNCHANGED K!vars
      BY <2>3 DEF all, carts, K!vars
    <3> QED
      BY <2>1, <2>2, <3>1, CartsKeep
  <2>4. CASE ShopNext
    <3>1. K!Next
      BY <2>2, <2>4 DEF ShopNext
    <3> QED
      BY <2>1, <2>2, <3>1, CartsKeep
  <2> QED
    BY <2>1, <2>3, <2>4
<1> QED
  BY <1>1, <1>2, PTL DEF ShopSpec

(* Wherever a merge stops, what it has read in the guest's cart is in some *)
(* cart, unless a request took it away or two merges got into each other   *)
(* (mergeCarts).                                                           *)
THEOREM MergesKeepTheLines ==
  ASSUME CartConstants
  PROVE  ShopSpec => []MergeLosesNothing
<1>1. (part = "cart" => CartInv) => MergeLosesNothing
  BY MergesMean DEF MergeLosesNothing
<1> QED
  BY <1>1, CartsStaySound, PTL

(* An addition that was answered is in the cart, also when two of them     *)
(* race for one row and the unique index turns one down (addItem), unless  *)
(* a request with an older reading, or a removal, has undercut it.         *)
THEOREM AcceptedAdditionsStay ==
  ASSUME CartConstants
  PROVE  ShopSpec => []AdditionsAreKept
<1>1. CartInv => K!AdditionsAreKept
  BY DEF CartInv, AdditionsInv, AdditionKept, K!AdditionsAreKept, K!At
<1>2. (part = "cart" => CartInv) => AdditionsAreKept
  BY <1>1 DEF AdditionsAreKept
<1> QED
  BY <1>2, CartsStaySound, PTL
-----------------------------------------------------------------------------
(* What is assumed: the goods and the updates under way are finitely many, *)
(* amounts are natural numbers, and what is on sale costs something.       *)
RulesConstants ==
  /\ IsFiniteSet(Goods) /\ IsFiniteSet(Editors) /\ Rates \subseteq Nat \ {0} /\ Values \subseteq Nat
  /\ \A t \in Terms : t.cap \in Nat /\ t.min \in Nat
  /\ Edits \subseteq [type : D!Types \cup {"none"}, value : Values \cup {0}]

RulesRequest == [pc : {"idle", "write"}, type : D!Types \cup {"none"}, value : Values \cup {0}]

RulesTyped ==
  /\ offer \in [type : D!Types, value : Values, on : BOOLEAN, terms : Terms]
  /\ tags \in [Goods -> Rates \cup {0}] /\ entered \in [Goods -> Rates \cup {0}]
  /\ basket \in [Goods -> 0 .. 1] /\ \A p \in Goods : basket[p] > 0 => entered[p] # 0
  /\ kept \in [on : BOOLEAN, own : BOOLEAN, discount : Nat] /\ (~ kept.on => kept.discount = 0)
  /\ request \in [Editors -> RulesRequest]

(* With one update at a time what it has checked is still so when it       *)
(* writes.                                                                 *)
PercentagesHold ==
  D!OneAtATime =>
    /\ offer.type = "percentage" => offer.value <= 100
    /\ \A r \in Editors : request[r].pc = "write" => D!Right(request[r].type, request[r].value)

(* What applyPromo has found it would find again.                          *)
ThePromiseStands ==
  kept.on /\ ~ since =>
    /\ D!Valid(entered, D!InCart, TRUE, kept.own)
    /\ kept.discount = D!Discount(entered, D!Applicable(D!InCart, TRUE))

RulesInv == RulesTyped /\ PercentagesHold /\ ThePromiseStands

(* The instance brings its own copies of the library's operators.          *)
LEMMA TheSameSum ==
  ASSUME NEW f, NEW S
  PROVE  D!SumFunctionOnSet(f, S) = SumFunctionOnSet(f, S)
BY DEF D!SumFunctionOnSet, D!FoldFunctionOnSet, D!MapThenFoldSet,
       SumFunctionOnSet, FoldFunctionOnSet, MapThenFoldSet

LEMMA OneEditor ==
  ASSUME RulesConstants, D!OneAtATime, NEW r \in Editors, NEW q \in Editors
  PROVE  r = q
<1>1. D!Cardinality(Editors) = Cardinality(Editors)
  BY DEF D!Cardinality, Cardinality
<1>2. Cardinality(Editors) = 1
  BY <1>1 DEF D!OneAtATime
<1> QED
  BY <1>2, FS_Singleton DEF RulesConstants

LEMMA ARateIsNatural ==
  ASSUME RulesConstants
  PROVE  \A c \in Rates \cup {0} : c \in Nat
PROOF BY DEF RulesConstants

LEMMA APiece ==
  ASSUME RulesTyped
  PROVE  \A p \in Goods : basket[p] \in {0, 1}
<1>1. 0 .. 1 = {0, 1}
  OBVIOUS
<1> QED
  BY <1>1 DEF RulesTyped

(* At whatever prices: a total is a natural number, and part of the cart   *)
(* costs no more.                                                          *)
LEMMA TotalsAreSound ==
  ASSUME RulesConstants, RulesTyped, NEW at \in [Goods -> Rates \cup {0}], NEW ps \in SUBSET Goods
  PROVE  /\ D!Total(at, ps) \in Nat
         /\ \A qs \in SUBSET ps : D!Total(at, qs) \in Nat /\ D!Total(at, qs) <= D!Total(at, ps)
<1> DEFINE f == [p \in Goods |-> at[p] * basket[p]]
<1>1. \A p \in Goods : at[p] \in Nat /\ basket[p] \in {0, 1}
  BY ARateIsNatural, APiece
<1>2. \A p \in Goods : f[p] \in Nat
  <2>1. \A m \in Nat, n \in {0, 1} : m * n \in Nat
    OBVIOUS
  <2> QED
    BY <1>1, <2>1
<1>3. \A qs \in SUBSET Goods : D!Total(at, qs) = SumFunctionOnSet(f, qs)
  BY TheSameSum DEF D!Total
<1> HIDE DEF f
<1>4. \A qs \in SUBSET Goods : IsFiniteSet(qs) /\ Weighs(f, qs)
  BY <1>2, FS_Subset DEF RulesConstants, Weighs
<1> QED
  BY <1>3, <1>4, SumsAreNatural, PartsSumToNoMore

(* No discount is over the price of what it is for.                        *)
LEMMA DiscountsAreBounded ==
  ASSUME RulesConstants, RulesTyped, NEW at \in [Goods -> Rates \cup {0}], NEW ps \in SUBSET Goods
  PROVE  /\ D!Discount(at, ps) \in Nat
         /\ (offer.type = "percentage" => offer.value <= 100) => D!Discount(at, ps) <= D!Total(at, ps)
<1> DEFINE t == D!Total(at, ps)
           v == offer.value
           d == (t * v) \div 100
<1>1. t \in Nat /\ v \in Nat /\ offer.terms.cap \in Nat
  BY TotalsAreSound DEF RulesConstants, RulesTyped
<1>2. CASE offer.type = "percentage"
  <2> HIDE DEF t, v
  <2>1. t * v \in Nat
    BY <1>1
  <2>2. d \in Nat /\ 100 * d <= t * v
    BY <2>1
  <2>3. v <= 100 => t * v <= t * 100
    BY <1>1
  <2>4. v <= 100 => d <= t
    BY <1>1, <2>1, <2>2, <2>3
  <2> HIDE DEF d
  <2>5. D!Discount(at, ps) = IF offer.terms.cap # 0 THEN D!Least(d, offer.terms.cap) ELSE d
    BY <1>2 DEF D!Discount, d, t, v
  <2> QED
    BY <1>1, <1>2, <2>2, <2>4, <2>5 DEF D!Least, t, v
<1>3. CASE offer.type # "percentage"
  BY <1>1, <1>3 DEF D!Discount, D!Least
<1> QED
  BY <1>2, <1>3

(* What applyPromo finds depends on the promotion with its counters and on *)
(* the cart alone, whatever the products cost now.                         *)
LEMMA SameRules ==
  ASSUME UNCHANGED <<offer, basket, entered, uses>>, NEW user
  PROVE  /\ D!Valid(entered, D!InCart, TRUE, user)' = D!Valid(entered, D!InCart, TRUE, user)
         /\ D!Discount(entered, D!Applicable(D!InCart, TRUE))'
              = D!Discount(entered, D!Applicable(D!InCart, TRUE))
PROOF BY DEF D!InCart, D!Applicable, D!Total, D!WithinLimits, D!Valid, D!Discount

LEMMA RulesStart ==
  ASSUME RulesConstants, D!Init
  PROVE  RulesInv
<1>1. RulesTyped
  <2>1. offer \in [type : D!Types, value : Values, on : BOOLEAN, terms : Terms]
    BY DEF D!Init
  <2>2. /\ basket \in [Goods -> 0 .. 1] /\ \A p \in Goods : basket[p] > 0 => entered[p] # 0
        /\ tags \in [Goods -> Rates \cup {0}] /\ entered \in [Goods -> Rates \cup {0}]
    BY DEF D!Init
  <2>3. kept \in [on : BOOLEAN, own : BOOLEAN, discount : Nat] /\ (~ kept.on => kept.discount = 0)
    BY DEF D!Init
  <2>4. D!Idle \in RulesRequest
    BY DEF D!Idle, RulesRequest
  <2>5. request \in [Editors -> RulesRequest]
    BY <2>4 DEF D!Init
  <2> QED
    BY <2>1, <2>2, <2>3, <2>5 DEF RulesTyped
<1>2. PercentagesHold
  BY DEF D!Init, D!Idle, PercentagesHold
<1>3. ThePromiseStands
  BY DEF D!Init, ThePromiseStands
<1> QED
  BY <1>1, <1>2, <1>3 DEF RulesInv

LEMMA RulesStay ==
  ASSUME RulesConstants, RulesInv, D!Next \/ UNCHANGED D!vars
  PROVE  RulesInv'
<1>0. RulesTyped /\ PercentagesHold /\ ThePromiseStands
  BY DEF RulesInv
<1>1. CASE UNCHANGED D!vars
  <2>1. UNCHANGED <<offer, tags, basket, entered, uses, kept, since, request>>
    BY <1>1 DEF D!vars
  <2>2. RulesTyped' /\ PercentagesHold'
    BY <1>0, <2>1 DEF RulesTyped, PercentagesHold, D!OneAtATime, D!Right
  <2>3. ThePromiseStands'
    BY <1>0, <2>1, SameRules DEF ThePromiseStands
  <2> QED
    BY <2>2, <2>3 DEF RulesInv
<1>2. ASSUME NEW r \in Editors, D!Write(r) PROVE RulesInv'
  <2> DEFINE t == request[r].type
             v == request[r].value
  <2>1. /\ request[r].pc = "write" /\ since' = TRUE /\ UNCHANGED <<tags, basket, entered, kept>>
        /\ request' = [request EXCEPT ![r] = D!Idle]
        /\ offer' = [offer EXCEPT !.type = D!AsSent(t, offer.type, "none"),
                                  !.value = D!AsSent(v, offer.value, 0)]
    BY <1>2 DEF D!Write
  <2>2. t \in D!Types \cup {"none"} /\ v \in Values \cup {0}
    BY <1>0 DEF RulesTyped, RulesRequest
  <2>3. /\ offer'.type = D!AsSent(t, offer.type, "none") /\ offer'.type \in D!Types
        /\ offer'.value = D!AsSent(v, offer.value, 0) /\ offer'.value \in Values
        /\ offer' \in [type : D!Types, value : Values, on : BOOLEAN, terms : Terms]
    BY <1>0, <2>1, <2>2 DEF RulesTyped, D!AsSent
  <2>4. D!Idle \in RulesRequest /\ D!Idle.pc = "idle"
    BY DEF D!Idle, RulesRequest
  <2>5. RulesTyped'
    BY <1>0, <2>1, <2>3, <2>4 DEF RulesTyped
  <2>6. PercentagesHold'
    <3>1. SUFFICES ASSUME D!OneAtATime PROVE PercentagesHold'
      BY DEF PercentagesHold, D!OneAtATime
    <3>2. D!Right(t, v)
      BY <1>0, <2>1, <3>1 DEF PercentagesHold
    <3>3. ~ (offer'.type = "percentage" /\ offer'.value > 100) /\ offer'.value \in Nat
      BY <2>3, <3>2 DEF D!Right, RulesConstants
    <3>4. \A q \in Editors : request'[q].pc # "write"
      BY <1>0, <2>1, <2>4, <3>1, OneEditor DEF RulesTyped
    <3>5. offer'.type = "percentage" => offer'.value <= 100
      BY <3>3
    <3> QED
      BY <3>4, <3>5 DEF PercentagesHold
  <2>7. ThePromiseStands'
    BY <2>1 DEF ThePromiseStands
  <2> QED
    BY <2>5, <2>6, <2>7 DEF RulesInv
<1>3. ASSUME NEW r \in Editors, NEW e \in Edits, D!Update(r, e)
      PROVE  RulesInv'
  <2> DEFINE c == [pc |-> "write", type |-> e.type, value |-> e.value]
  <2>1. /\ D!Right(e.type, e.value)
        /\ UNCHANGED <<offer, tags, basket, entered, uses, kept, since>>
        /\ request' = [request EXCEPT ![r] = c]
    BY <1>3 DEF D!Update
  <2>2. c \in RulesRequest
    BY DEF RulesConstants, RulesRequest
  <2>3. RulesTyped'
    BY <1>0, <2>1, <2>2 DEF RulesTyped
  <2>4. PercentagesHold'
    <3>1. ASSUME D!OneAtATime, NEW q \in Editors, request'[q].pc = "write"
          PROVE  D!Right(request'[q].type, request'[q].value)
      <4>1. q = r
        BY <3>1, OneEditor
      <4>2. request'[q] = c
        BY <1>0, <2>1, <4>1 DEF RulesTyped
      <4> QED
        BY <2>1, <4>2
    <3>2. \A a, b : D!Right(a, b)' = D!Right(a, b)
      BY <2>1 DEF D!Right
    <3> QED
      BY <1>0, <2>1, <3>1, <3>2 DEF PercentagesHold, D!OneAtATime
  <2>5. ThePromiseStands'
    BY <1>0, <2>1, SameRules DEF ThePromiseStands
  <2> QED
    BY <2>3, <2>4, <2>5 DEF RulesInv
<1>4. CASE D!Switch
  <2>1. /\ offer' = [offer EXCEPT !.on = ~ @] /\ since' = TRUE
        /\ UNCHANGED <<tags, basket, entered, kept, request>>
    BY <1>4 DEF D!Switch
  <2>2. /\ offer' \in [type : D!Types, value : Values, on : BOOLEAN, terms : Terms]
        /\ offer'.type = offer.type /\ offer'.value = offer.value
    BY <1>0, <2>1 DEF RulesTyped
  <2>3. RulesTyped'
    BY <1>0, <2>1, <2>2 DEF RulesTyped
  <2>4. PercentagesHold'
    BY <1>0, <2>1, <2>2 DEF PercentagesHold, D!OneAtATime, D!Right
  <2>5. ThePromiseStands'
    BY <2>1 DEF ThePromiseStands
  <2> QED
    BY <2>3, <2>4, <2>5 DEF RulesInv
<1>5. ASSUME NEW user \in BOOLEAN, D!ApplyPromo(user) PROVE RulesInv'
  <2> DEFINE now == D!Discount(entered, D!Applicable(D!InCart, TRUE))
  <2>1. /\ D!Valid(entered, D!InCart, TRUE, user) /\ since' = FALSE
        /\ UNCHANGED <<offer, tags, basket, entered, uses, request>>
        /\ kept' = [on |-> TRUE, own |-> user, discount |-> now]
    BY <1>5 DEF D!ApplyPromo
  <2>2. D!Applicable(D!InCart, TRUE) \in SUBSET Goods
    BY DEF D!Applicable, D!InCart
  <2>3. now \in Nat
    BY <1>0, <2>2, DiscountsAreBounded DEF RulesTyped
  <2>4. RulesTyped'
    BY <1>0, <2>1, <2>3 DEF RulesTyped
  <2>5. PercentagesHold'
    BY <1>0, <2>1 DEF PercentagesHold, D!OneAtATime, D!Right
  <2>6. ThePromiseStands'
    BY <2>1, SameRules DEF ThePromiseStands
  <2> QED
    BY <2>4, <2>5, <2>6 DEF RulesInv
<1>6. ASSUME NEW p \in Goods, NEW n \in 0 .. 1, NEW c \in Rates \cup {0}, D!SetItem(p, n, c)
      PROVE  RulesInv'
  <2>1. /\ basket' = [basket EXCEPT ![p] = n] /\ entered' = [entered EXCEPT ![p] = c]
        /\ (n > 0 => c # 0) /\ since' = kept.on /\ UNCHANGED <<offer, tags, kept, request>>
    BY <1>6 DEF D!SetItem
  <2>2. RulesTyped'
    <3>1. \A q \in Goods : basket'[q] > 0 => entered'[q] # 0
      BY <1>0, <2>1 DEF RulesTyped
    <3> QED
      BY <1>0, <2>1, <3>1 DEF RulesTyped
  <2>3. PercentagesHold'
    BY <1>0, <2>1 DEF PercentagesHold, D!OneAtATime, D!Right
  <2>4. ThePromiseStands'
    BY <2>1 DEF ThePromiseStands
  <2> QED
    BY <2>2, <2>3, <2>4 DEF RulesInv
<1>7. ASSUME NEW p \in Goods, NEW c \in Rates \cup {0}, D!SetPrice(p, c) PROVE RulesInv'
  <2>1. /\ tags' = [tags EXCEPT ![p] = c] /\ since' = TRUE
        /\ UNCHANGED <<offer, basket, entered, uses, kept, request>>
    BY <1>7 DEF D!SetPrice
  <2>2. RulesTyped'
    BY <1>0, <2>1 DEF RulesTyped
  <2>3. PercentagesHold'
    BY <1>0, <2>1 DEF PercentagesHold, D!OneAtATime, D!Right
  <2>4. ThePromiseStands'
    BY <2>1 DEF ThePromiseStands
  <2> QED
    BY <2>2, <2>3, <2>4 DEF RulesInv
<1>8. ASSUME NEW own \in BOOLEAN, D!Use(own) PROVE RulesInv'
  <2>1. since' = TRUE /\ UNCHANGED <<offer, tags, basket, entered, kept, request>>
    BY <1>8 DEF D!Use
  <2>2. RulesTyped' /\ PercentagesHold'
    BY <1>0, <2>1 DEF RulesTyped, PercentagesHold, D!OneAtATime, D!Right
  <2>3. ThePromiseStands'
    BY <2>1 DEF ThePromiseStands
  <2> QED
    BY <2>2, <2>3 DEF RulesInv
<1> QED
  BY <1>1, <1>2, <1>3, <1>4, <1>5, <1>6, <1>7, <1>8 DEF D!Next

(* At the prices it has, what is in the cart is what the order takes, and  *)
(* costs as much.                                                          *)
LEMMA TheSamePrices ==
  ASSUME RulesConstants, RulesTyped, D!AsPriced
  PROVE  /\ D!Shown = D!InCart
         /\ \A ps : D!Total(tags, ps) = D!Total(entered, ps)
         /\ \A ps : D!Discount(tags, ps) = D!Discount(entered, ps)
<1>1. D!Shown = D!InCart
  BY DEF RulesTyped, D!AsPriced, D!Shown, D!InCart
<1>2. \A p \in Goods : tags[p] * basket[p] = entered[p] * basket[p]
  <2>1. ASSUME NEW p \in Goods PROVE tags[p] * basket[p] = entered[p] * basket[p]
    <3>1. basket[p] \in {0, 1} /\ tags[p] \in Nat /\ entered[p] \in Nat
      BY ARateIsNatural, APiece DEF RulesTyped
    <3>2. basket[p] = 1 => tags[p] = entered[p]
      BY <3>1 DEF D!AsPriced, D!InCart
    <3>3. CASE basket[p] = 0
      <4>1. \A m \in Nat : m * 0 = 0
        OBVIOUS
      <4> QED
        BY <3>1, <3>3, <4>1
    <3> QED
      BY <3>1, <3>2, <3>3
  <2> QED
    BY <2>1
<1>3. \A ps : D!Total(tags, ps) = D!Total(entered, ps)
  BY <1>2, Zenon DEF D!Total
<1>4. \A ps : D!Discount(tags, ps) = D!Discount(entered, ps)
  BY <1>3 DEF D!Discount
<1> QED
  BY <1>1, <1>3, <1>4

(* What the invariant says of the order that is placed now.                *)
LEMMA TheOrderIsAsPromised ==
  ASSUME RulesConstants, RulesInv
  PROVE  D!CheckoutKeepsThePromise
<1>1. SUFFICES ASSUME D!OneAtATime
               PROVE  /\ D!OrderDiscount <= D!Total(tags, D!Shown)
                      /\ kept.on /\ ~ since /\ D!AsPriced /\ (kept.own \/ D!WithinLimits(TRUE)) =>
                           D!OrderDiscount = IF D!OnlyCategories THEN 0 ELSE D!CartDiscount
  BY DEF D!CheckoutKeepsThePromise
<1> DEFINE A0 == D!Applicable(D!Shown, FALSE)
           z == D!Total(tags, D!Shown)
<1>2. RulesTyped /\ ThePromiseStands /\ (offer.type = "percentage" => offer.value <= 100)
  BY <1>1 DEF RulesInv, PercentagesHold
<1>3. D!Shown \in SUBSET Goods /\ tags \in [Goods -> Rates \cup {0}]
  BY <1>2 DEF D!Shown, D!InCart, RulesTyped
<1>4. \A ps \in SUBSET D!Shown : D!Discount(tags, ps) \in Nat /\ D!Discount(tags, ps) <= z
  <2>1. ASSUME NEW ps \in SUBSET D!Shown
        PROVE  D!Discount(tags, ps) \in Nat /\ D!Discount(tags, ps) <= z
    <3> DEFINE x == D!Discount(tags, ps)
               y == D!Total(tags, ps)
    <3>1. ps \in SUBSET Goods
      BY <1>3
    <3>2. x \in Nat /\ y \in Nat /\ z \in Nat /\ x <= y /\ y <= z
      BY <1>2, <1>3, <3>1, TotalsAreSound, DiscountsAreBounded
    <3> HIDE DEF x, y, z
    <3>3. x \in Nat /\ x <= z
      BY <3>2
    <3> QED
      BY <3>3 DEF x, z
  <2> QED
    BY <2>1
<1>5. z \in Nat
  BY <1>2, <1>3, TotalsAreSound
<1>6. D!OrderDiscount <= z
  <2>1. 0 <= z
    <3> HIDE DEF z
    <3> QED
      BY <1>5
  <2>2. A0 \in SUBSET D!Shown
    BY DEF D!Applicable
  <2>3. D!Discount(tags, A0) <= z
    BY <1>4, <2>2
  <2> QED
    BY <2>1, <2>3 DEF D!OrderDiscount
<1>7. ASSUME kept.on, ~ since, D!AsPriced, kept.own \/ D!WithinLimits(TRUE)
      PROVE  D!OrderDiscount = IF D!OnlyCategories THEN 0 ELSE D!CartDiscount
  <2> DEFINE A1 == D!Applicable(D!Shown, TRUE)
  <2>1. /\ D!Shown = D!InCart
        /\ \A ps : D!Total(tags, ps) = D!Total(entered, ps)
        /\ \A ps : D!Discount(tags, ps) = D!Discount(entered, ps)
    BY <1>2, <1>7, TheSamePrices
  <2>2. /\ D!Valid(entered, D!InCart, TRUE, kept.own)
        /\ kept.discount = D!Discount(entered, D!Applicable(D!InCart, TRUE))
    BY <1>2, <1>7 DEF ThePromiseStands
  <2>3. kept.discount = D!Discount(tags, A1)
    BY <2>1, <2>2
  <2>4. D!WithinLimits(TRUE)
    <3>1. kept.own \in BOOLEAN
      BY <1>2 DEF RulesTyped
    <3> QED
      BY <1>7, <2>2, <3>1 DEF D!Valid, D!WithinLimits
  <2>5. /\ offer.on /\ D!Total(tags, D!Shown) >= offer.terms.min
        /\ A1 = {} => offer.terms.categories = {} /\ offer.terms.products = {}
    BY <2>1, <2>2 DEF D!Valid
  <2>6. CASE D!OnlyCategories
    <3>1. A0 = {}
      BY <2>6 DEF D!OnlyCategories, D!Applicable
    <3> QED
      BY <2>6, <3>1 DEF D!OrderDiscount, D!Valid, D!OnlyCategories
  <2>7. CASE ~ D!OnlyCategories
    <3>1. A0 = A1
      BY <2>7 DEF D!OnlyCategories, D!Applicable
    <3>2. D!OrderDiscount = D!Discount(tags, A1)
      BY <2>4, <2>5, <3>1 DEF D!OrderDiscount, D!Valid
    <3>3. D!Discount(tags, A1) \in Nat /\ D!Discount(tags, A1) <= z
      <4>1. A1 \in SUBSET D!Shown
        BY DEF D!Applicable
      <4> QED
        BY <1>4, <4>1
    <3> QED
      BY <2>3, <2>7, <3>2, <3>3 DEF D!CartDiscount, D!Least
  <2> QED
    BY <2>6, <2>7
<1> QED
  BY <1>6, <1>7

(* CheckoutKeepsThePromise: with one update at a time and nothing changed  *)
(* since, the order gives the discount the cart shows, the exceptions of   *)
(* the code aside; and never, at no prices, more than the items cost.      *)
THEOREM ThePromiseIsKept ==
  ASSUME RulesConstants
  PROVE  ShopSpec => []CheckoutKeepsThePromise
<1> DEFINE Inv == part = "rules" => RulesInv
<1>1. ShopInit => Inv
  BY RulesStart DEF ShopInit
<1>2. Inv /\ [ShopNext]_all => Inv'
  <2>1. SUFFICES ASSUME Inv, [ShopNext]_all, part' = "rules" PROVE RulesInv'
    OBVIOUS
  <2>2. part = "rules"
    BY <2>1 DEF ShopNext, all
  <2>3. CASE UNCHANGED all
    <3>1. UNCHANGED D!vars
      BY <2>3 DEF all, rules, D!vars
    <3> QED
      BY <2>1, <2>2, <3>1, RulesStay
  <2>4. CASE ShopNext
    <3>1. D!Next
      BY <2>2, <2>4 DEF ShopNext
    <3> QED
      BY <2>1, <2>2, <3>1, RulesStay
  <2> QED
    BY <2>1, <2>3, <2>4
<1>3. Inv => CheckoutKeepsThePromise
  BY TheOrderIsAsPromised DEF CheckoutKeepsThePromise
<1> QED
  BY <1>1, <1>2, <1>3, PTL DEF ShopSpec
-----------------------------------------------------------------------------
(* What a request on the wishlist knows of the list it has read: whether   *)
(* the product was in it.                                                  *)
WishRequest ==
  [pc : {"idle", "look", "cart", "write"}, op : {"add", "remove", "move", "clear", "none"},
   product : Wishes \cup {"none"}, seen : [Wishes -> 0 .. 1]]

WishTyped ==
  /\ wishes \in [Wishes -> 0 .. 1] /\ available \subseteq Wishes
  /\ request \in [Calls -> WishRequest]

ListsWereChecked ==
  \A r \in Calls :
    /\ request[r].pc # "idle" => request[r].product \in Wishes
    /\ request[r].pc = "look" => request[r].op = "add"
    /\ request[r].pc = "cart" => request[r].op = "move"
    /\ request[r].pc = "write" /\ request[r].op = "add" => request[r].seen[request[r].product] = 0
    /\ request[r].pc \in {"cart", "write"} /\ request[r].op \in {"remove", "move", "none"} =>
         request[r].seen[request[r].product] = 1

WishInv == WishTyped /\ ListsWereChecked

LEMMA WishesStart == W!Init => WishInv
<1>1. W!Idle \in WishRequest /\ W!Idle.pc = "idle"
  BY DEF W!Idle, W!Nothing, WishRequest
<1>2. W!Nothing \in [Wishes -> 0 .. 1]
  BY DEF W!Nothing
<1> QED
  BY <1>1, <1>2 DEF W!Init, WishInv, WishTyped, ListsWereChecked

(* A product goes into a list that it was not in, and comes out of one     *)
(* that it was in.                                                         *)
LEMMA WishesStay == WishInv /\ [W!Next]_(W!vars) => WishInv'
<1> SUFFICES ASSUME WishInv, [W!Next]_(W!vars) PROVE WishInv'
  OBVIOUS
<1> USE DEF WishInv
<1>1. CASE UNCHANGED W!vars
  BY <1>1 DEF W!vars, WishTyped, ListsWereChecked
<1>2. ASSUME NEW p \in Wishes, W!DeleteProduct(p) PROVE WishInv'
  BY <1>2 DEF W!DeleteProduct, WishTyped, ListsWereChecked
<1>3. ASSUME NEW r \in Calls, NEW c \in WishRequest, request' = [request EXCEPT ![r] = c],
             c.pc # "idle" => c.product \in Wishes,
             c.pc = "look" => c.op = "add",
             c.pc = "cart" => c.op = "move",
             c.pc = "write" /\ c.op = "add" => c.seen[c.product] = 0,
             c.pc \in {"cart", "write"} /\ c.op \in {"remove", "move", "none"} => c.seen[c.product] = 1,
             wishes' \in [Wishes -> 0 .. 1], UNCHANGED available
      PROVE  WishInv'
  <2>1. request'[r] = c /\ \A q \in Calls : q # r => request'[q] = request[q]
    BY <1>3 DEF WishTyped
  <2>2. WishTyped'
    BY <1>3 DEF WishTyped
  <2>3. ListsWereChecked'
    BY <1>3, <2>1 DEF ListsWereChecked
  <2> QED
    BY <2>2, <2>3
<1>4. W!Idle \in WishRequest /\ W!Idle.pc = "idle"
  BY DEF W!Idle, W!Nothing, WishRequest
<1>5. ASSUME NEW r \in Calls, NEW op \in {"add", "remove", "move", "clear"}, NEW p \in Wishes,
             W!Start(r, op, p)
      PROVE  WishInv'
  <2> DEFINE pc == CASE op = "add" -> "look" [] op = "move" -> "cart" [] OTHER -> "write"
             c == [pc |-> pc, op |-> op, product |-> p, seen |-> wishes]
  <2>1. /\ request' = [request EXCEPT ![r] = c] /\ UNCHANGED <<wishes, available>>
        /\ op \in {"remove", "move"} => p \in W!Elements(wishes)
    BY <1>5 DEF W!Start
  <2>2. wishes \in [Wishes -> 0 .. 1] /\ (op \in {"remove", "move"} => wishes[p] = 1)
    BY <2>1 DEF WishTyped, W!Elements
  <2>3. pc \in {"look", "cart", "write"} /\ (pc = "look" <=> op = "add") /\ (pc = "cart" <=> op = "move")
    OBVIOUS
  <2>4. c.pc = pc /\ c.op = op /\ c.product = p /\ c.seen = wishes
    OBVIOUS
  <2>5. c \in WishRequest
    BY <2>2, <2>3 DEF WishRequest
  <2> HIDE DEF c, pc
  <2> QED
    BY <1>3, <2>1, <2>2, <2>3, <2>4, <2>5
<1>6. ASSUME NEW r \in Calls, W!Look(r) PROVE WishInv'
  <2> DEFINE d == request[r]
             c == [d EXCEPT !.pc = "write"]
  <2>0. d \in WishRequest /\ d.pc = "look" /\ d.op = "add" /\ d.product \in Wishes
    BY <1>6 DEF W!Look, WishTyped, ListsWereChecked
  <2>1. c \in WishRequest /\ c.pc = "write" /\ c.op = "add" /\ c.product = d.product /\ c.seen = d.seen
    BY <2>0 DEF WishRequest
  <2>2. CASE d.product \in available \ W!Elements(d.seen)
    <3>1. request' = [request EXCEPT ![r] = c] /\ UNCHANGED <<wishes, available>>
      BY <1>6, <2>2 DEF W!Look
    <3>2. d.seen[d.product] = 0
      BY <2>0, <2>2 DEF W!Elements, WishRequest
    <3>3. wishes' \in [Wishes -> 0 .. 1]
      BY <3>1 DEF WishTyped
    <3> HIDE DEF c, d
    <3> QED
      BY <1>3, <2>0, <2>1, <3>1, <3>2, <3>3
  <2>3. CASE d.product \notin available \ W!Elements(d.seen)
    <3>1. request' = [request EXCEPT ![r] = W!Idle] /\ UNCHANGED <<wishes, available>>
      BY <1>6, <2>3 DEF W!Look
    <3> QED
      BY <1>3, <1>4, <3>1 DEF WishTyped
  <2> QED
    BY <2>2, <2>3
<1>7. ASSUME NEW r \in Calls, W!Move(r) PROVE WishInv'
  <2> DEFINE d == request[r]
             c == [d EXCEPT !.pc = "write"]
  <2>0. /\ d \in WishRequest /\ d.op = "move" /\ d.product \in Wishes /\ d.seen[d.product] = 1
        /\ UNCHANGED <<wishes, available>>
    BY <1>7 DEF W!Move, WishTyped, ListsWereChecked
  <2>1. c \in WishRequest /\ c.pc = "write" /\ c.op = "move" /\ c.product = d.product /\ c.seen = d.seen
    BY <2>0 DEF WishRequest
  <2>2. request' \in {[request EXCEPT ![r] = c], [request EXCEPT ![r] = W!Idle]}
    BY <1>7 DEF W!Move, WishTyped
  <2>3. wishes' \in [Wishes -> 0 .. 1]
    BY <2>0 DEF WishTyped
  <2> HIDE DEF c, d
  <2> QED
    BY <1>3, <1>4, <2>0, <2>1, <2>2, <2>3
<1>8. ASSUME NEW r \in Calls, W!Write(r) PROVE WishInv'
  <2> DEFINE d == request[r]
  <2>1. /\ d \in WishRequest /\ d.pc = "write" /\ d.product \in Wishes
        /\ d.op = "add" => d.seen[d.product] = 0
        /\ d.op \in {"remove", "move", "none"} => d.seen[d.product] = 1
    BY <1>8 DEF W!Write, WishTyped, ListsWereChecked
  <2>2. /\ wishes' = W!Written(d.op, d.product, d.seen) /\ UNCHANGED available
        /\ request' = [request EXCEPT ![r] = W!Idle]
    BY <1>8 DEF W!Write
  <2> HIDE DEF d
  <2>3. W!Written(d.op, d.product, d.seen) \in [Wishes -> 0 .. 1]
    BY <2>1 DEF W!Written, W!Nothing, WishRequest
  <2> QED
    BY <1>3, <1>4, <2>2, <2>3
<1> QED
  BY <1>1, <1>2, <1>5, <1>6, <1>7, <1>8 DEF W!Next
-----------------------------------------------------------------------------
ReviewsConstants == IsFiniteSet(Customers) /\ Ratings \subseteq 1 .. 5

(* A sum of n numbers, each at most k, is at most k * n.                   *)
LEMMA SumsAreBounded ==
  ASSUME NEW S, IsFiniteSet(S), NEW f, Weighs(f, S), NEW k \in Nat, \A x \in S : f[x] <= k
  PROVE  SumFunctionOnSet(f, S) <= k * Cardinality(S)
<1> DEFINE Over == {s \in SUBSET S : ~ (SumFunctionOnSet(f, s) <= k * Cardinality(s))}
           Bad  == {Cardinality(s) : s \in Over}
<1>1. \A s \in SUBSET S : IsFiniteSet(s) /\ Weighs(f, s) /\ Cardinality(s) \in Nat
  BY FS_Subset, FS_CardinalityType DEF Weighs
<1>2. Over = {}
  <2>1. SUFFICES ASSUME Over # {} PROVE FALSE
    OBVIOUS
  <2>2. Bad # {} /\ Bad \subseteq Nat
    BY <1>1, <2>1
  <2>3. PICK n \in Bad : \A m \in Bad : n <= m
    BY <2>2, SomethingIsLeast
  <2>4. PICK s \in Over : Cardinality(s) = n
    BY <2>3
  <2>5. s # {}
    <3>1. SumFunctionOnSet(f, {}) = 0 /\ Cardinality({}) = 0
      BY NothingSumsToNothing, FS_EmptySet
    <3>2. k * 0 = 0
      OBVIOUS
    <3>3. ~ (SumFunctionOnSet(f, s) <= k * Cardinality(s))
      BY <2>4
    <3> QED
      BY <3>1, <3>2, <3>3
  <2>a. /\ First(s) \in s /\ Left(s) \in SUBSET S /\ Cardinality(s) \in Nat \ {0}
        /\ Cardinality(Left(s)) = Cardinality(s) - 1
    BY <2>4, <2>5, LeftIsSmaller
  <2>6. Left(s) \notin Over
    <3>1. SUFFICES ASSUME Left(s) \in Over PROVE FALSE
      OBVIOUS
    <3>2. Cardinality(Left(s)) \in Bad
      BY <3>1
    <3>3. n <= Cardinality(Left(s)) /\ n \in Nat
      BY <2>2, <2>3, <3>2
    <3> HIDE DEF Bad, Over
    <3> QED
      BY <2>4, <2>a, <3>3
  <2>7. SumFunctionOnSet(f, s) = f[First(s)] + SumFunctionOnSet(f, Left(s))
    BY <1>1, <2>4, <2>5, TheFirstIsTakenOff
  <2> DEFINE a == SumFunctionOnSet(f, Left(s))
             b == f[First(s)]
  <2>8. a <= k * (n - 1) /\ n \in Nat \ {0}
    BY <2>4, <2>6, <2>a
  <2>9. b \in Nat /\ b <= k /\ a \in Nat
    BY <1>1, <2>a, SumsAreNatural DEF Weighs
  <2>10. k * n = k * (n - 1) + k
    BY <2>8
  <2>11. ~ (b + a <= k * n)
    BY <2>4, <2>7
  <2> HIDE DEF a, b
  <2>12. k * (n - 1) \in Int /\ k * n \in Int
    BY <2>8
  <2> QED
    BY <2>8, <2>9, <2>10, <2>11, <2>12
<1> QED
  BY <1>2

LEMMA AveragesAreBounded ==
  ASSUME NEW n \in Nat \ {0}, NEW s \in Nat, s <= 5 * n
  PROVE  (20 * s + n) \div (2 * n) \in 0 .. 50
<1> DEFINE q == (20 * s + n) \div (2 * n)
<1>1. q \in Nat /\ (2 * n) * q <= 20 * s + n
  OBVIOUS
<1> HIDE DEF q
<1>2. 20 * s + n <= 101 * n
  OBVIOUS
<1>3. q >= 51 => (2 * n) * q >= (2 * n) * 51
  BY <1>1
<1>4. ~ (q >= 51)
  <2>1. (2 * n) * 51 = 102 * n /\ 101 * n < 102 * n /\ (2 * n) * q \in Int
    BY <1>1
  <2> QED
    BY <1>1, <1>2, <1>3, <2>1
<1>5. q \in 0 .. 50
  BY <1>1, <1>4
<1> QED
  BY <1>5 DEF q

LEMMA TheSameRatings ==
  ASSUME NEW f, NEW S
  PROVE  R!SumFunction(f) = SumFunction(f) /\ R!Cardinality(S) = Cardinality(S)
BY DEF R!SumFunction, R!SumFunctionOnSet, R!FoldFunctionOnSet, R!MapThenFoldSet,
       SumFunction, SumFunctionOnSet, FoldFunctionOnSet, MapThenFoldSet, R!Cardinality, Cardinality

(* What a product may show: as many reviews as there are customers, and a  *)
(* rating of five stars.                                                   *)
IsShown(a) == a.count \in 0 .. Cardinality(Customers) /\ a.rating \in 0 .. 50

RowIsSound(w, n) ==
  \/ w = R!NoReview
  \/ /\ w.id \in 1 .. w.text /\ w.text \in 1 .. n
     /\ w.rating \in Ratings

RequestIsSound(c, n) ==
  /\ c.pc = "insert" \/ (c.pc = "write" /\ c.op = "edit") => c.rating \in Ratings
  /\ c.pc = "write" => c.id # 0
  /\ c.pc = "rate" => \A a \in c.seen : IsShown(a)
  /\ c.pc = "store" => c.seen \subseteq 1 .. n

ReviewsAreBounded ==
  /\ IsShown(shown)
  /\ listing = R!NotCached \/ listing \subseteq 1 .. texts
  /\ approvals \subseteq 1 .. texts
  /\ \A u \in Customers : RowIsSound(review[u], texts)
  /\ \A r \in Calls : RequestIsSound(request[r], texts)

LEMMA AggregatesAreShown ==
  ASSUME ReviewsConstants, ReviewsTyped, \A u \in Customers : RowIsSound(review[u], texts)
  PROVE  IsShown(R!Aggregate)
<1> DEFINE f == [u \in R!Approved |-> review[u].rating]
           n == Cardinality(R!Approved)
<1>1. R!Approved \subseteq Customers
  BY DEF R!Approved
<1>2. IsFiniteSet(R!Approved) /\ n \in Nat /\ n <= Cardinality(Customers) /\ Cardinality(Customers) \in Nat
  BY <1>1, FS_Subset, FS_CardinalityType DEF ReviewsConstants
<1>3. \A u \in R!Approved : f[u] \in Nat /\ f[u] <= 5
  <2>1. SUFFICES ASSUME NEW u \in R!Approved PROVE review[u].rating \in Nat /\ review[u].rating <= 5
    OBVIOUS
  <2>2. u \in Customers /\ review[u].approved
    BY DEF R!Approved
  <2>3. review[u] # R!NoReview
    BY <2>2 DEF R!NoReview
  <2>4. review[u].rating \in Ratings
    BY <2>2, <2>3 DEF RowIsSound
  <2>5. \A x \in Ratings : x \in Nat /\ x <= 5
    BY DEF ReviewsConstants
  <2> QED
    BY <2>4, <2>5
<1>4. DOMAIN f = R!Approved
  OBVIOUS
<1> HIDE DEF f
<1>5. SumFunction(f) = SumFunctionOnSet(f, R!Approved)
  BY <1>4 DEF SumFunction
<1>6. SumFunction(f) \in Nat /\ SumFunction(f) <= 5 * n
  BY <1>2, <1>3, <1>5, SumsAreNatural, SumsAreBounded DEF Weighs
<1>7. R!Aggregate = IF n = 0 THEN [rating |-> 0, count |-> 0]
                    ELSE [rating |-> (20 * SumFunction(f) + n) \div (2 * n), count |-> n]
  BY <1>4, TheSameRatings DEF R!Aggregate, R!AggregateOf, f
<1> HIDE DEF n
<1>8. CASE n = 0
  BY <1>2, <1>7, <1>8 DEF IsShown
<1>9. CASE n # 0
  <2>1. (20 * SumFunction(f) + n) \div (2 * n) \in 0 .. 50
    BY <1>2, <1>6, <1>9, AveragesAreBounded
  <2> QED
    BY <1>2, <1>7, <1>9, <2>1 DEF IsShown
<1> QED
  BY <1>8, <1>9

LEMMA BoundsStart == ASSUME R!Init, ReviewsConstants PROVE ReviewsAreBounded
<1>1. Cardinality(Customers) \in Nat
  BY FS_CardinalityType DEF ReviewsConstants
<1>2. IsShown(shown)
  BY <1>1 DEF R!Init, IsShown
<1> QED
  BY <1>2 DEF R!Init, ReviewsAreBounded, RowIsSound, RequestIsSound, R!Idle

LEMMA BoundsMean == ASSUME ReviewsConstants, ReviewsTyped, ReviewsAreBounded PROVE R!TypeOK
<1>1. R!Cardinality(Customers) = Cardinality(Customers)
  BY TheSameRatings
<1>2. ASSUME NEW u \in Customers
      PROVE  /\ review[u].text \in 0 .. texts /\ review[u].id <= review[u].text
             /\ R!Exists(u) <=> review[u].rating \in Ratings
  BY <1>2 DEF ReviewsAreBounded, RowIsSound, ReviewsConstants, R!Exists, R!NoReview, ReviewsTyped
<1> QED
  BY <1>1, <1>2 DEF ReviewsAreBounded, ReviewsTyped, R!TypeOK, IsShown

(* Texts are only added, a row keeps its number, and what is shown was an  *)
(* aggregate.                                                              *)
LEMMA BoundsStay ==
  ASSUME ReviewsConstants, ReviewsTyped, ReviewsTyped', ApprovalsAreKnown, ReviewsAreBounded,
         [R!Next]_(R!vars)
  PROVE  ReviewsAreBounded'
<1> USE DEF R!At
<1>1. CASE UNCHANGED R!vars
  BY <1>1 DEF R!vars, ReviewsAreBounded, RowIsSound, RequestIsSound, IsShown
<1>2. ASSUME NEW r \in Calls, NEW c, request' = [request EXCEPT ![r] = c],
             texts' \in {texts, texts + 1}, RequestIsSound(c, texts'),
             IsShown(shown'), listing' = R!NotCached \/ listing' \subseteq 1 .. texts',
             approvals' \subseteq 1 .. texts',
             NEW u, \A v \in Customers : v # u => review'[v] = review[v],
             u \in Customers => RowIsSound(review'[u], texts')
      PROVE  ReviewsAreBounded'
  <2>1. request'[r] = c /\ \A q \in Calls : q # r => request'[q] = request[q]
    BY <1>2 DEF ReviewsTyped
  <2>2. texts \in Nat /\ 1 .. texts \subseteq 1 .. texts'
    BY <1>2 DEF ReviewsTyped
  <2>3. ASSUME NEW v \in Customers PROVE RowIsSound(review'[v], texts')
    BY <1>2, <2>2, <2>3 DEF ReviewsAreBounded, RowIsSound
  <2>4. ASSUME NEW q \in Calls PROVE RequestIsSound(request'[q], texts')
    <3>1. CASE q = r
      BY <1>2, <2>1, <3>1
    <3>2. CASE q # r
      BY <2>1, <2>2, <2>4, <3>2 DEF ReviewsAreBounded, RequestIsSound, IsShown
    <3> QED
      BY <3>1, <3>2
  <2>5. IsShown(shown)'
    BY <1>2 DEF IsShown
  <2> QED
    BY <1>2, <2>3, <2>4, <2>5 DEF ReviewsAreBounded
<1>3. ASSUME NEW r \in Calls, NEW c, request' = [request EXCEPT ![r] = c], UNCHANGED <<review, texts, approvals>>,
             RequestIsSound(c, texts),
             shown' = shown \/ IsShown(shown'),
             listing' = listing \/ listing' = R!NotCached \/ listing' \subseteq 1 .. texts
      PROVE  ReviewsAreBounded'
  <2>1. request'[r] = c /\ \A q \in Calls : q # r => request'[q] = request[q]
    BY <1>3 DEF ReviewsTyped
  <2>2. \A q \in Calls : RequestIsSound(request'[q], texts)
    BY <1>3, <2>1 DEF ReviewsAreBounded
  <2>3. \A q \in Calls : RequestIsSound(request'[q], texts')
    BY <1>3, <2>2 DEF RequestIsSound, IsShown
  <2>4. \A u \in Customers : RowIsSound(review'[u], texts')
    BY <1>3 DEF ReviewsAreBounded, RowIsSound
  <2> QED
    BY <1>3, <2>3, <2>4 DEF ReviewsAreBounded, IsShown
<1>4. ASSUME NEW r \in Calls, R!Done(r) \/ \E pc \in {"keys", "del", "count"} : R!Goto(r, pc)
      PROVE  \E c : /\ request' = [request EXCEPT ![r] = c]
                    /\ c.pc \in {"idle", "keys", "del", "count"}
  BY <1>4 DEF R!Done, R!Goto, R!Idle
<1>5. ASSUME NEW r \in Calls, UNCHANGED <<review, texts, approvals>>,
             R!Done(r) \/ \E pc \in {"keys", "del", "count"} : R!Goto(r, pc),
             shown' = shown \/ IsShown(shown'),
             listing' = listing \/ listing' = R!NotCached \/ listing' \subseteq 1 .. texts
      PROVE  ReviewsAreBounded'
  <2>1. PICK c : request' = [request EXCEPT ![r] = c] /\ c.pc \in {"idle", "keys", "del", "count"}
    BY <1>4, <1>5
  <2>2. RequestIsSound(c, texts)
    BY <2>1 DEF RequestIsSound
  <2> QED
    BY <1>3, <1>5, <2>1, <2>2
<1>6. ASSUME NEW r \in Calls, NEW u \in Customers, NEW n \in Ratings, R!StartCreate(r, u, n)
      PROVE  ReviewsAreBounded'
  <2> DEFINE c == [pc |-> "insert", op |-> "create", user |-> u, id |-> 0, rating |-> n, seen |-> {}]
  <2>1. request' = [request EXCEPT ![r] = c] /\ UNCHANGED <<review, texts, shown, approvals, listing>>
    BY <1>6 DEF R!StartCreate, R!Start
  <2>2. RequestIsSound(c, texts)
    BY DEF RequestIsSound
  <2> HIDE DEF c
  <2> QED
    BY <1>3, <2>1, <2>2
<1>7. ASSUME NEW r \in Calls, NEW u \in Customers, NEW n \in Ratings, NEW op \in R!Ops, R!StartOn(r, op, u, n)
      PROVE  ReviewsAreBounded'
  <2> DEFINE c == [pc |-> "write", op |-> op, user |-> u, id |-> review[u].id,
                   rating |-> IF op = "edit" THEN n ELSE 0, seen |-> {}]
  <2>1. request' = [request EXCEPT ![r] = c] /\ UNCHANGED <<review, texts, shown, approvals, listing>>
        /\ review[u] # R!NoReview
    BY <1>7 DEF R!StartOn, R!Start, R!Exists
  <2>2. review[u].id # 0
    BY <2>1 DEF ReviewsAreBounded, RowIsSound, ReviewsTyped, ReviewRow
  <2>3. RequestIsSound(c, texts)
    BY <2>2 DEF RequestIsSound
  <2> HIDE DEF c
  <2> QED
    BY <1>3, <2>1, <2>3
<1>8. ASSUME NEW r \in Calls, R!StartList(r) PROVE ReviewsAreBounded'
  <2> DEFINE c == [pc |-> "list", op |-> "list", user |-> "nobody", id |-> 0, rating |-> 0, seen |-> {}]
  <2>1. request' = [request EXCEPT ![r] = c] /\ UNCHANGED <<review, texts, shown, approvals, listing>>
    BY <1>8 DEF R!StartList, R!Start
  <2>2. RequestIsSound(c, texts)
    BY DEF RequestIsSound
  <2> HIDE DEF c
  <2> QED
    BY <1>3, <2>1, <2>2
<1>9. ASSUME NEW r \in Calls, R!Count(r) PROVE ReviewsAreBounded'
  <2> DEFINE c == [R!Idle EXCEPT !.pc = "rate", !.seen = {R!Aggregate}]
  <2>1. request' = [request EXCEPT ![r] = c] /\ UNCHANGED <<review, texts, shown, approvals, listing>>
    BY <1>9 DEF R!Count
  <2>2. c.pc = "rate" /\ c.seen = {R!Aggregate}
    BY DEF R!Idle
  <2>3. IsShown(R!Aggregate)
    BY AggregatesAreShown DEF ReviewsAreBounded
  <2> HIDE DEF c
  <2>4. RequestIsSound(c, texts)
    BY <2>2, <2>3 DEF RequestIsSound
  <2> QED
    BY <1>3, <2>1, <2>4
<1>10. ASSUME NEW r \in Calls, R!List(r) PROVE ReviewsAreBounded'
  <2> DEFINE c == [R!Idle EXCEPT !.pc = "store", !.seen = R!ApprovedTexts]
  <2>1. request' = [request EXCEPT ![r] = c] /\ UNCHANGED <<review, texts, shown, approvals, listing>>
    BY <1>10 DEF R!List
  <2>2. c.pc = "store" /\ c.seen = R!ApprovedTexts
    BY DEF R!Idle
  <2>3. R!ApprovedTexts \subseteq 1 .. texts
    BY DEF ApprovalsAreKnown, ReviewsAreBounded, R!ApprovedTexts, R!Approved
  <2> HIDE DEF c
  <2>4. RequestIsSound(c, texts)
    BY <2>2, <2>3 DEF RequestIsSound
  <2> QED
    BY <1>3, <2>1, <2>4
<1>11. ASSUME NEW r \in Calls, R!Keys(r) \/ R!Del(r) \/ R!Die(r) PROVE ReviewsAreBounded'
  BY <1>5, <1>11 DEF R!Keys, R!Del, R!Die
<1>12. ASSUME NEW r \in Calls, R!Rate(r) PROVE ReviewsAreBounded'
  <2>1. IsShown(shown')
    BY <1>12 DEF R!Rate, ReviewsAreBounded, RequestIsSound
  <2> QED
    BY <1>5, <1>12, <2>1 DEF R!Rate
<1>13. ASSUME NEW r \in Calls, R!Store(r) PROVE ReviewsAreBounded'
  <2>1. listing' \subseteq 1 .. texts
    BY <1>13 DEF R!Store, ReviewsAreBounded, RequestIsSound
  <2> QED
    BY <1>5, <1>13, <2>1 DEF R!Store
<1>14. CASE R!Expire
  BY <1>14 DEF R!Expire, ReviewsAreBounded, RowIsSound, RequestIsSound, IsShown
<1>15. ASSUME NEW r \in Calls, R!Insert(r) PROVE ReviewsAreBounded'
  <2> DEFINE u == request[r].user
             n == request[r].rating
  <2>0. u \in Customers /\ n \in Ratings
    BY <1>15 DEF R!Insert, ReviewsTyped, ReviewsAreBounded, RequestIsSound
  <2>1. CASE R!Exists(u)
    BY <1>5, <1>15, <2>1 DEF R!Insert
  <2>2. CASE ~ R!Exists(u)
    <3>1. /\ texts' = texts + 1
          /\ review' = [review EXCEPT ![u] = [id |-> texts + 1, text |-> texts + 1, rating |-> n, approved |-> FALSE]]
          /\ UNCHANGED <<shown, listing, approvals>> /\ R!Goto(r, "keys")
      BY <1>15, <2>2 DEF R!Insert
    <3>2. PICK c : request' = [request EXCEPT ![r] = c] /\ c.pc \in {"idle", "keys", "del", "count"}
      BY <1>4, <3>1
    <3>3. texts \in Nat /\ 1 .. texts \subseteq 1 .. texts'
      BY <3>1 DEF ReviewsTyped
    <3>4. /\ review'[u].id = texts' /\ review'[u].text = texts' /\ review'[u].rating = n
          /\ \A v \in Customers : v # u => review'[v] = review[v]
      BY <2>0, <3>1 DEF ReviewsTyped
    <3>5. RowIsSound(review'[u], texts')
      BY <2>0, <3>1, <3>3, <3>4 DEF RowIsSound
    <3>6. RequestIsSound(c, texts')
      BY <3>2 DEF RequestIsSound
    <3>7. /\ IsShown(shown') /\ approvals' \subseteq 1 .. texts'
          /\ listing' = R!NotCached \/ listing' \subseteq 1 .. texts'
      BY <3>1, <3>3 DEF ReviewsAreBounded, IsShown
    <3> HIDE DEF u
    <3> QED
      BY <1>2, <3>1, <3>2, <3>4, <3>5, <3>6, <3>7
  <2> QED
    BY <2>1, <2>2
<1>16. ASSUME NEW r \in Calls, R!Write(r) PROVE ReviewsAreBounded'
  <2> DEFINE d == request[r]
             u == d.user
             entry == review[u]
  <2>0. /\ u \in Customers /\ d.op \in R!Ops /\ d.id # 0 /\ (d.op = "edit" => d.rating \in Ratings)
        /\ entry \in ReviewRow /\ RowIsSound(review[u], texts)
    BY <1>16 DEF R!Write, ReviewsTyped, ReviewsAreBounded, RequestIsSound
  <2>1. PICK c : request' = [request EXCEPT ![r] = c] /\ c.pc \in {"idle", "keys", "del", "count"}
    BY <1>4, <1>16 DEF R!Write
  <2>2. /\ texts' \in {texts, texts + 1} /\ UNCHANGED <<shown, listing>>
        /\ entry.id = d.id /\ d.op = "edit" => texts' = texts + 1
    BY <1>16 DEF R!Write
  <2>3. texts \in Nat /\ 1 .. texts \subseteq 1 .. texts'
    BY <2>2 DEF ReviewsTyped
  <2>4. entry.id = d.id => entry.id \in 1 .. entry.text /\ entry.text \in 1 .. texts /\ entry.rating \in Ratings
    BY <2>0 DEF RowIsSound, R!NoReview
  <2>5. approvals' \subseteq 1 .. texts'
    BY <1>16, <2>3, <2>4 DEF R!Write, ReviewsAreBounded
  <2>6. /\ \A v \in Customers : v # u => review'[v] = review[v]
        /\ review'[u] = IF entry.id # d.id THEN entry
                        ELSE CASE d.op = "edit"    -> R!Edited(entry, texts', d.rating)
                               [] d.op = "delete"  -> R!NoReview
                               [] d.op = "approve" -> [entry EXCEPT !.approved = TRUE]
                               [] d.op = "reject"  -> [entry EXCEPT !.approved = FALSE]
                               [] d.op = "reply"   -> entry
    BY <1>16, <2>0 DEF R!Write, ReviewsTyped
  <2>7. RowIsSound(review'[u], texts')
    <3>1. CASE entry.id # d.id \/ d.op \in {"delete", "approve", "reject", "reply"}
      <4>1. \/ review'[u] = R!NoReview
            \/ review'[u].id = entry.id /\ review'[u].text = entry.text /\ review'[u].rating = entry.rating
        BY <2>0, <2>6, <3>1 DEF ReviewRow
      <4>2. entry.text \in 1 .. texts => entry.text \in 1 .. texts'
        BY <2>3
      <4>3. entry = R!NoReview => entry.id = 0 /\ entry.text = 0 /\ entry.rating = 0
        BY DEF R!NoReview
      <4>4. CASE review'[u] = R!NoReview
        BY <4>4 DEF RowIsSound
      <4>5. CASE review'[u] # R!NoReview /\ entry # R!NoReview
        <5>1. entry.id \in 1 .. entry.text /\ entry.text \in 1 .. texts /\ entry.rating \in Ratings
          BY <2>0, <4>5 DEF RowIsSound
        <5>2. /\ review'[u].id = entry.id /\ review'[u].text = entry.text
              /\ review'[u].rating = entry.rating
          BY <4>1, <4>5
        <5> HIDE DEF entry, d, u
        <5>3. /\ review'[u].id \in 1 .. review'[u].text /\ review'[u].text \in 1 .. texts'
              /\ review'[u].rating \in Ratings
          BY <4>2, <5>1, <5>2
        <5> QED
          BY <5>3 DEF RowIsSound
      <4>6. CASE review'[u] # R!NoReview /\ entry = R!NoReview
        <5>1. review'[u] = entry
          <6>1. d.id # 0 /\ entry.id = 0
            BY <2>0, <4>3, <4>6
          <6> QED
            BY <2>6, <6>1
        <5> QED
          BY <4>6, <5>1
      <4> QED
        BY <4>4, <4>5, <4>6
    <3>2. CASE entry.id = d.id /\ d.op = "edit"
      <4>1. review'[u] = R!Edited(entry, texts', d.rating)
        BY <2>6, <3>2
      <4>2. review'[u].id = entry.id /\ review'[u].text = texts' /\ review'[u].rating = d.rating
        BY <2>0, <4>1 DEF R!Edited, ReviewRow
      <4>3. entry.id \in 1 .. texts' /\ texts' \in 1 .. texts'
        BY <2>2, <2>3, <2>4, <3>2
      <4> HIDE DEF entry, d, u
      <4> QED
        BY <2>0, <3>2, <4>2, <4>3 DEF RowIsSound
    <3> QED
      BY <2>0, <3>1, <3>2 DEF R!Ops
  <2>8. RequestIsSound(c, texts')
    BY <2>1 DEF RequestIsSound
  <2>9. IsShown(shown') /\ (listing' = R!NotCached \/ listing' \subseteq 1 .. texts')
    BY <2>2, <2>3 DEF ReviewsAreBounded, IsShown
  <2> HIDE DEF entry, d, u
  <2> QED
    BY <1>2, <2>1, <2>2, <2>5, <2>6, <2>7, <2>8, <2>9
<1> QED
  BY <1>1, <1>6, <1>7, <1>8, <1>9, <1>10, <1>11, <1>12, <1>13, <1>14, <1>15, <1>16 DEF R!Next, R!Step
-----------------------------------------------------------------------------
(* The product and its list of variants carry the numbers of edits that    *)
(* were made, and a request that will insert a list carries one too.       *)
ProductIsListed(p, n) ==
  /\ p.content <= n /\ p.variants <= n
  /\ p.coded \/ p.stock => p.variants # 0

RequestIsListed(c, n) ==
  /\ c.pc \in {"wipe", "fill"} => c.list <= n
  /\ c.pc = "write" /\ c.op = "stock" => c.variants # 0

EditsAreBounded ==
  /\ edits <= MaxEdits /\ past.given <= edits
  /\ ProductIsListed(product, edits)
  /\ \A r \in Calls : RequestIsListed(request[r], edits)

LEMMA EditsStart == ASSUME G!Init, MaxEdits \in Nat PROVE EditsAreBounded
BY DEF G!Init, G!NoProduct, G!Idle, EditsAreBounded, ProductIsListed, RequestIsListed

LEMMA EditsMean == ASSUME CatalogTyped, EditsAreBounded, MaxEdits \in Nat PROVE G!TypeOK
BY DEF CatalogTyped, ProductRow, EditsAreBounded, ProductIsListed, G!TypeOK

(* The product changes by an edit with a number of its own, by a list of   *)
(* one, or by what does not touch the lists.                               *)
LEMMA EditsStay ==
  ASSUME CatalogTyped, CatalogTyped', EditsAreBounded, [G!Next]_(G!vars), MaxEdits \in Nat
  PROVE  EditsAreBounded'
<1> USE DEF G!At
<1>1. CASE UNCHANGED G!vars
  BY <1>1 DEF G!vars, EditsAreBounded
<1>2. ASSUME NEW r \in Calls, NEW c, request' = [request EXCEPT ![r] = c],
             edits' \in {edits, edits + 1}, edits' <= MaxEdits, ProductIsListed(product', edits'),
             past'.given = past.given \/ past'.given <= edits',
             RequestIsListed(c, edits')
      PROVE  EditsAreBounded'
  <2>1. request'[r] = c /\ \A q \in Calls : q # r => request'[q] = request[q]
    BY <1>2 DEF CatalogTyped
  <2>2. edits \in Nat /\ past.given \in Nat /\ \A q \in Calls : request[q].list \in Nat
    BY DEF CatalogTyped, CatalogRequest
  <2>3. \A q \in Calls : RequestIsListed(request[q], edits')
    BY <1>2, <2>2 DEF EditsAreBounded, RequestIsListed
  <2>4. \A q \in Calls : RequestIsListed(request'[q], edits')
    BY <1>2, <2>1, <2>3
  <2>5. past'.given <= edits'
    BY <1>2, <2>2 DEF EditsAreBounded
  <2> QED
    BY <1>2, <2>4, <2>5 DEF EditsAreBounded
<1>3. ASSUME NEW r \in Calls, NEW c, request' = [request EXCEPT ![r] = c], UNCHANGED <<product, edits>>,
             past'.given = past.given, RequestIsListed(c, edits)
      PROVE  EditsAreBounded'
  BY <1>2, <1>3 DEF EditsAreBounded
<1>4. ASSUME NEW r \in Calls, G!Done(r) \/ \E pc \in {"insert", "keys", "del"} : G!Goto(r, pc)
      PROVE  \E c : /\ request' = [request EXCEPT ![r] = c]
                    /\ c.pc \in {"idle", "insert", "keys", "del"}
  BY <1>4 DEF G!Done, G!Goto, G!Idle
<1>5. ASSUME NEW r \in Calls, UNCHANGED <<product, edits>>, past'.given = past.given,
             G!Done(r) \/ \E pc \in {"insert", "keys", "del"} : G!Goto(r, pc)
      PROVE  EditsAreBounded'
  <2>1. PICK c : request' = [request EXCEPT ![r] = c] /\ c.pc \in {"idle", "insert", "keys", "del"}
    BY <1>4, <1>5
  <2> QED
    BY <1>3, <1>5, <2>1 DEF RequestIsListed
<1>6. ASSUME NEW r \in Calls,
             \/ G!StartCreate(r) \/ G!Keys(r) \/ G!Del(r) \/ G!Store(r) \/ G!Die(r)
      PROVE  EditsAreBounded'
  <2>1. UNCHANGED <<product, edits>> /\ (G!Done(r) \/ \E pc \in {"insert", "keys", "del"} : G!Goto(r, pc))
    BY <1>6 DEF G!StartCreate, G!Keys, G!Del, G!Store, G!Die
  <2>2. past'.given = past.given
    BY <1>6 DEF G!StartCreate, G!Keys, G!Del, G!Store, G!Die, G!Breaks, CatalogTyped
  <2> QED
    BY <1>5, <2>1, <2>2
<1>7. ASSUME NEW r \in Calls, G!Insert(r) PROVE EditsAreBounded'
  <2>1. CASE G!There
    BY <1>5, <1>7, <2>1 DEF G!Insert
  <2>2. CASE ~ G!There
    <3>1. PICK list \in {0, edits + 1}, s \in BOOLEAN :
            /\ s => list # 0
            /\ product' = [content |-> edits + 1, variants |-> list, stock |-> s, coded |-> FALSE]
            /\ past' = [past EXCEPT !.given = list, !.lost = FALSE]
      BY <1>7, <2>2 DEF G!Insert
    <3>2. edits' = edits + 1 /\ edits < MaxEdits /\ edits \in Nat
      BY <1>7, <2>2 DEF G!Insert, CatalogTyped
    <3>3. PICK c : request' = [request EXCEPT ![r] = c] /\ c.pc \in {"idle", "insert", "keys", "del"}
      BY <1>4, <1>7, <2>2 DEF G!Insert
    <3>4. ProductIsListed(product', edits')
      BY <3>1, <3>2 DEF ProductIsListed
    <3>5. edits' <= MaxEdits /\ past'.given <= edits'
      BY <3>1, <3>2 DEF CatalogTyped
    <3> QED
      BY <1>2, <3>2, <3>3, <3>4, <3>5 DEF RequestIsListed
  <2> QED
    BY <2>1, <2>2
<1>8. ASSUME NEW r \in Calls, NEW op \in {"update", "variants", "delete", "status", "stock"}, G!StartOn(r, op)
      PROVE  EditsAreBounded'
  <2> DEFINE c == [G!Idle EXCEPT !.pc = "write", !.op = op, !.variants = product.variants]
  <2>1. request' = [request EXCEPT ![r] = c] /\ UNCHANGED <<product, edits, past>>
    BY <1>8 DEF G!StartOn
  <2>2. c.pc = "write" /\ c.op = op /\ c.variants = product.variants
    BY DEF G!Idle
  <2>3. op = "stock" => product.variants # 0
    BY <1>8 DEF G!StartOn
  <2> HIDE DEF c
  <2> QED
    BY <1>3, <2>1, <2>2, <2>3 DEF RequestIsListed
<1>9. ASSUME NEW r \in Calls, G!StartRead(r) PROVE EditsAreBounded'
  <2> DEFINE c == [G!Idle EXCEPT !.pc = "store", !.seen = G!Answer]
  <2>1. request' = [request EXCEPT ![r] = c] /\ UNCHANGED <<product, edits, past>>
    BY <1>9 DEF G!StartRead
  <2>2. c.pc = "store"
    BY DEF G!Idle
  <2> HIDE DEF c
  <2> QED
    BY <1>3, <2>1, <2>2 DEF RequestIsListed
<1>10. ASSUME NEW r \in Calls, G!Write(r) PROVE EditsAreBounded'
  <2> DEFINE d == request[r]
  <2>0. d \in CatalogRequest /\ d.pc = "write" /\ RequestIsListed(d, edits) /\ product \in ProductRow /\ edits \in Nat
    BY <1>10 DEF G!Write, CatalogTyped, EditsAreBounded
  <2>1. /\ edits' \in {edits, edits + 1} /\ edits' <= MaxEdits
        /\ G!There /\ d.op \in {"update", "variants", "status"} => edits' = edits + 1
        /\ UNCHANGED past
    BY <1>10 DEF G!Write
  <2>2. ProductIsListed(product, edits')
    BY <2>0, <2>1 DEF EditsAreBounded, ProductIsListed, ProductRow
  <2>3. ProductIsListed(product', edits')
    <3>1. CASE d.op = "delete"
      <4>1. product' = G!NoProduct
        BY <1>10, <3>1 DEF G!Write
      <4> QED
        BY <2>0, <2>1, <4>1 DEF G!NoProduct, ProductIsListed
    <3>2. CASE d.op = "stock"
      <4>1. PICK s \in BOOLEAN :
              product' = IF product.variants = d.variants /\ G!There THEN [product EXCEPT !.stock = s] ELSE product
        BY <1>10, <3>2 DEF G!Write
      <4>2. d.variants # 0
        BY <2>0, <3>2 DEF RequestIsListed
      <4> QED
        BY <2>0, <2>2, <4>1, <4>2 DEF ProductIsListed, ProductRow
    <3>3. CASE d.op \notin {"delete", "stock"}
      <4>1. product' = IF G!There THEN [product EXCEPT !.content = edits'] ELSE product
        BY <1>10, <3>3 DEF G!Write
      <4> QED
        BY <2>0, <2>1, <2>2, <4>1 DEF ProductIsListed, ProductRow
    <3> QED
      BY <3>1, <3>2, <3>3
  <2>4. CASE d.op # "variants" \/ ~ G!There
    <3>1. PICK c : request' = [request EXCEPT ![r] = c] /\ c.pc \in {"idle", "insert", "keys", "del"}
      BY <1>4, <1>10, <2>4 DEF G!Write
    <3> QED
      BY <1>2, <2>1, <2>3, <3>1 DEF RequestIsListed
  <2>5. CASE d.op = "variants" /\ G!There
    <3>0. PICK list \in {0, edits'} :
            request' = [request EXCEPT ![r] = [G!Idle EXCEPT !.pc = "wipe", !.list = list]]
      BY <1>10, <2>5 DEF G!Write
    <3> DEFINE c == [G!Idle EXCEPT !.pc = "wipe", !.list = list]
    <3>1. request' = [request EXCEPT ![r] = c]
      BY <3>0
    <3>2. c.pc = "wipe" /\ c.list \in {0, edits'}
      BY DEF G!Idle
    <3>3. edits' = edits + 1
      BY <2>1, <2>5
    <3> HIDE DEF c, d
    <3>4. RequestIsListed(c, edits')
      BY <2>0, <3>2, <3>3 DEF RequestIsListed
    <3> QED
      BY <1>2, <2>1, <2>3, <3>1, <3>4
  <2> QED
    BY <2>4, <2>5
<1>11. ASSUME NEW r \in Calls, G!Wipe(r) PROVE EditsAreBounded'
  <2> DEFINE c == [request[r] EXCEPT !.pc = "fill"]
  <2>1. /\ product' = [product EXCEPT !.variants = 0, !.stock = FALSE, !.coded = FALSE]
        /\ request' = [request EXCEPT ![r] = c] /\ UNCHANGED edits /\ request[r].pc = "wipe"
        /\ past' = [past EXCEPT !.given = request[r].list, !.lost = FALSE]
    BY <1>11 DEF G!Wipe, CatalogTyped
  <2>2. c.pc = "fill" /\ c.list = request[r].list
    BY DEF CatalogTyped, CatalogRequest
  <2> HIDE DEF c
  <2>3. RequestIsListed(c, edits')
    BY <2>1, <2>2 DEF EditsAreBounded, RequestIsListed
  <2>4. ProductIsListed(product', edits') /\ edits' <= MaxEdits
    BY <2>1 DEF EditsAreBounded, ProductIsListed, CatalogTyped, ProductRow
  <2>5. past'.given <= edits'
    BY <2>1 DEF EditsAreBounded, RequestIsListed, CatalogTyped
  <2> QED
    BY <1>2, <2>1, <2>3, <2>4, <2>5
<1>12. ASSUME NEW r \in Calls, G!Fill(r) PROVE EditsAreBounded'
  <2> DEFINE list == request[r].list
  <2>f. UNCHANGED edits /\ request[r].pc = "fill"
    BY <1>12, Zenon DEF G!Fill
  <2>0. UNCHANGED edits /\ list <= edits
    BY <2>f DEF EditsAreBounded, RequestIsListed
  <2>1. \/ list = 0 /\ G!Goto(r, "keys") /\ UNCHANGED <<product, past>>
        \/ /\ list # 0 /\ \E s \in BOOLEAN : product' = [product EXCEPT !.variants = list, !.stock = s]
           /\ past' = [past EXCEPT !.lost = FALSE] /\ G!Goto(r, "keys")
        \/ G!Breaks(TRUE) /\ G!Done(r) /\ UNCHANGED product
    BY <1>12, Zenon DEF G!Fill
  <2>h. UNCHANGED past \/ past' = [past EXCEPT !.lost = FALSE] \/ G!Breaks(TRUE)
    BY <2>1, Zenon
  <2>p. past'.given = past.given
    BY <2>h DEF G!Breaks, CatalogTyped
  <2>2. past'.given = past.given /\ (G!Done(r) \/ G!Goto(r, "keys"))
    BY <2>1, <2>p, Zenon
  <2>w. \/ UNCHANGED product
        \/ list # 0 /\ \E s \in BOOLEAN : product' = [product EXCEPT !.variants = list, !.stock = s]
    BY <2>1, Zenon
  <2>3. ASSUME list # 0, NEW s \in BOOLEAN, product' = [product EXCEPT !.variants = list, !.stock = s]
        PROVE  ProductIsListed(product', edits')
    BY <2>0, <2>3 DEF EditsAreBounded, ProductIsListed, CatalogTyped, ProductRow
  <2>u. UNCHANGED product => ProductIsListed(product', edits')
    BY <2>0 DEF EditsAreBounded, ProductIsListed
  <2>4. ProductIsListed(product', edits') /\ edits' <= MaxEdits
    <3>1. edits' <= MaxEdits
      BY <2>0 DEF EditsAreBounded
    <3> QED
      BY <2>w, <2>u, <2>3, <3>1, Zenon
  <2>5. PICK c : request' = [request EXCEPT ![r] = c] /\ c.pc \in {"idle", "insert", "keys", "del"}
    BY <1>4, <2>2
  <2> QED
    BY <1>2, <2>0, <2>2, <2>4, <2>5 DEF RequestIsListed
<1>13. ASSUME NEW coded \in BOOLEAN, G!StockMoves(coded) PROVE EditsAreBounded'
  <2> DEFINE d == [product EXCEPT !.stock = ~ @]
             e == [d EXCEPT !.coded = coded]
  <2>0. product \in ProductRow /\ product.variants # 0
    BY <1>13 DEF G!StockMoves, CatalogTyped
  <2>1. d \in ProductRow /\ d.content = product.content /\ d.variants = product.variants
    BY <2>0 DEF ProductRow
  <2>2. product' = e /\ UNCHANGED <<edits, request, past>>
    BY <1>13 DEF G!StockMoves
  <2> HIDE DEF d
  <2>3. e.content = product.content /\ e.variants = product.variants
    BY <2>1 DEF ProductRow
  <2> HIDE DEF e
  <2> QED
    BY <2>0, <2>2, <2>3 DEF EditsAreBounded, ProductIsListed
<1>14. CASE G!Expire
  BY <1>14 DEF G!Expire, EditsAreBounded, CatalogTyped
<1> QED
  BY <1>1, <1>6, <1>7, <1>8, <1>9, <1>10, <1>11, <1>12, <1>13, <1>14 DEF G!Next
-----------------------------------------------------------------------------
(* The carts a run starts from respect the limit and the stock.            *)
FirstCartsFit ==
  \A lines \in Carts0 : \A v \in DOMAIN lines \cap Variants : lines[v] <= MaxQuantity /\ lines[v] <= Stock[v]

Fits(v, n) == n <= MaxQuantity /\ n <= Stock[v]

(* What a request has asked for or read, and may write.                    *)
RequestFits(c) ==
  /\ c.op = "add" => c.n <= Stock[c.variant]
  /\ c.pc = "save" => Fits(c.variant, c.seen[c.variant].qty)
  /\ c.op = "merge" => \A v \in Variants : Fits(v, c.seen[v].qty) /\ Fits(v, c.mine[v].qty)

CartsFit ==
  /\ \A d \in CartIds : owners[d] = {} => item[d] = K!NoItems
  /\ \A d \in CartIds, v \in Variants : Fits(v, item[d][v].qty)
  /\ coupons \subseteq CartIds /\ \A d \in coupons : owners[d] # {}
  /\ \A r \in Calls : RequestFits(request[r])

LEMMA NothingFits ==
  ASSUME CartConstants
  PROVE  \A v \in Variants : K!NoItems[v] = K!NoRow /\ Fits(v, K!NoItems[v].qty) /\ Fits(v, K!NoRow.qty)
<1>1. \A v \in Variants : Stock[v] \in Nat /\ 0 <= Stock[v] /\ 0 <= MaxQuantity
  BY DEF CartConstants
<1> QED
  BY <1>1 DEF K!NoItems, K!NoRow, Fits

LEMMA FitsStart == ASSUME K!Init, CartConstants, FirstCartsFit PROVE CartsFit
<1>1. K!NewCall.op = "get" /\ K!NewCall.pc = "idle" /\ \A r \in Calls : request[r] = K!NewCall
  BY DEF K!Init, K!NewCall
<1>2. \A r \in Calls : RequestFits(request[r])
  BY <1>1 DEF RequestFits
<1> DEFINE Lines(l) == [v \in Variants |-> IF v \in DOMAIN l THEN [qty |-> l[v], id |-> "old"] ELSE K!NoRow]
           Starts == {K!NoItems} \cup {Lines(l) : l \in Carts0}
<1>3. \A l \in Carts0, v \in Variants : Fits(v, Lines(l)[v].qty)
  <2>1. SUFFICES ASSUME NEW l \in Carts0, NEW v \in Variants PROVE Fits(v, Lines(l)[v].qty)
    OBVIOUS
  <2>2. CASE v \in DOMAIN l
    BY <2>1, <2>2 DEF FirstCartsFit, Fits
  <2>3. CASE v \notin DOMAIN l
    BY <2>3, NothingFits
  <2> QED
    BY <2>2, <2>3
<1>4. item \in [CartIds -> Starts] /\ \A d \in CartIds : owners[d] = {} => item[d] = K!NoItems
  BY DEF K!Init
<1> HIDE DEF Lines
<1>5. \A i \in Starts, v \in Variants : Fits(v, i[v].qty)
  BY <1>3, NothingFits
<1> HIDE DEF Starts
<1>6. \A d \in CartIds, v \in Variants : Fits(v, item[d][v].qty)
  BY <1>4, <1>5
<1> QED
  BY <1>2, <1>4, <1>6 DEF CartsFit, K!Init

LEMMA FitsMean == ASSUME CartTyped, CartsFit PROVE K!TypeOK
BY DEF CartTyped, CartsFit, Fits, CartRequest, K!TypeOK

(* One request moves on, and leaves the carts as they should be.           *)
LEMMA FitsOn ==
  ASSUME CartTyped, CartsFit, NEW r \in Calls, NEW c \in CartRequest, Becomes(r, c), RequestFits(c),
         \A d \in CartIds : owners'[d] = {} => item'[d] = K!NoItems,
         \A d \in CartIds, v \in Variants : Fits(v, item'[d][v].qty),
         coupons' \subseteq CartIds, \A d \in coupons' : owners'[d] # {}
  PROVE  CartsFit'
<1>1. request'[r] = c /\ \A q \in Calls : q # r => request'[q] = request[q]
  BY OneMoves
<1>2. \A q \in Calls : RequestFits(request'[q])
  BY <1>1 DEF CartsFit
<1>3. \A q \in Calls : RequestFits(request[q])'
  BY <1>2 DEF RequestFits, Fits
<1>4. \A d \in CartIds, v \in Variants : Fits(v, item[d][v].qty)'
  BY DEF Fits
<1> QED
  BY <1>3, <1>4 DEF CartsFit

LEMMA FitsQuietly ==
  ASSUME CartTyped, CartsFit, NEW r \in Calls, NEW c \in CartRequest, Becomes(r, c), RequestFits(c),
         UNCHANGED <<owners, coupons, item>>
  PROVE  CartsFit'
BY FitsOn DEF CartsFit

(* A request that only goes on to another place still fits, and need not   *)
(* be looked at again unless it is about to save.                          *)
LEMMA ThePlaceFits ==
  ASSUME NEW d \in CartRequest, NEW pc \in CartSteps \ {"save"}, RequestFits(d)
  PROVE  [d EXCEPT !.pc = pc] \in CartRequest /\ RequestFits([d EXCEPT !.pc = pc])
<1> DEFINE c == [d EXCEPT !.pc = pc]
<1>1. /\ c \in CartRequest /\ c.pc = pc /\ c.op = d.op /\ c.variant = d.variant /\ c.n = d.n
      /\ c.seen = d.seen /\ c.mine = d.mine
  BY OnlyThePlace
<1> HIDE DEF c
<1>2. RequestFits(c)
  BY <1>1 DEF RequestFits
<1> QED
  BY <1>1, <1>2 DEF c

(* saveItem with a quantity that fits.                                     *)
LEMMA SavesFit ==
  ASSUME CartTyped, CartsFit, NEW r \in Calls, NEW c \in CartRequest, Becomes(r, c), RequestFits(c),
         NEW d \in CartIds, NEW v \in Variants, NEW line \in K!Row, K!SaveItem(d, v, line), Fits(v, line.qty),
         UNCHANGED <<owners, coupons>>
  PROVE  CartsFit'
<1>1. /\ K!Saves(d, v, line) => item'[d][v] = line
      /\ ~ K!Saves(d, v, line) => item' = item
      /\ \A x \in CartIds, w \in Variants : x # d \/ w # v => item'[x][w] = item[x][w]
  BY SavedRows
<1>2. \A x \in CartIds, w \in Variants : Fits(w, item'[x][w].qty)
  BY <1>1 DEF CartsFit
<1>3. item' = item \/ (owners[d] # {} /\ item' = [item EXCEPT ![d] = [item[d] EXCEPT ![v] = line]])
  BY DEF K!SaveItem, K!Saves
<1>4. \A x \in CartIds : owners'[x] = {} => item'[x] = K!NoItems
  BY <1>3 DEF CartsFit, CartTyped
<1> QED
  BY <1>2, <1>4, FitsOn DEF CartsFit
-----------------------------------------------------------------------------
LEMMA FindFits ==
  ASSUME CartInv, CartsFit, CartConstants, NEW r \in Calls, NEW op \in K!Ops \ {"merge"}, NEW who \in K!Owners,
         NEW v \in Variants, NEW n \in Quantities, K!Find(r, op, who, v, n)
  PROVE  CartsFit'
<1> DEFINE asked == [K!NewCall EXCEPT !.op = op, !.who = who, !.variant = v, !.n = n]
           m     == K!Min(K!Found(who))
<1>0. n \in Nat /\ n <= MaxQuantity /\ UNCHANGED <<owners, coupons, item>> /\ (op = "add" => n <= Stock[v])
  BY DEF CartConstants, K!Find
<1>1. asked \in CartRequest /\ asked.op = op /\ asked.variant = v /\ asked.n = n
  BY <1>0, NewCallIsTyped DEF K!NewCall, CartRequest
<1>2. CartTyped
  BY DEF CartInv
<1>3. CASE K!Found(who) = {}
  <2> DEFINE c == [asked EXCEPT !.pc = "create"]
  <2>1. Becomes(r, c)
    BY <1>3 DEF K!Find, Becomes
  <2> HIDE DEF asked
  <2>2. c \in CartRequest /\ c.pc = "create" /\ c.op = op /\ c.variant = v /\ c.n = n
    BY <1>1, OnlyThePlace DEF CartSteps
  <2> HIDE DEF c
  <2>3. RequestFits(c)
    BY <1>0, <2>2 DEF RequestFits
  <2> QED
    BY <1>0, <1>2, <2>1, <2>2, <2>3, FitsQuietly
<1>4. CASE K!Found(who) # {}
  <2> DEFINE seen == [item[m] EXCEPT ![v].qty = IF op = "update" THEN n ELSE @]
             pc == K!After(op, v, n, item[m])
             c == [asked EXCEPT !.pc = pc, !.cart = m, !.seen = seen]
  <2>1. Becomes(r, c)
    BY <1>4 DEF K!Find, Becomes
  <2>2. m \in CartIds /\ item[m] \in [Variants -> K!Row]
    BY <1>2, <1>4, FoundIsACart DEF CartTyped
  <2>3. pc \in CartSteps /\ (pc = "save" => op = "update" /\ n <= Stock[v])
    BY DEF K!After, CartSteps, K!Ops
  <2>4. seen \in [Variants -> K!Row] /\ (op = "update" => seen[v].qty = n)
    BY <1>0, <2>2 DEF K!Row
  <2> HIDE DEF pc, seen
  <2>5. c \in CartRequest /\ c.pc = pc /\ c.op = op /\ c.variant = v /\ c.n = n /\ c.seen = seen
    BY <1>1, <2>2, <2>3, <2>4 DEF CartRequest
  <2> HIDE DEF c, asked, m
  <2>6. RequestFits(c)
    BY <1>0, <2>3, <2>4, <2>5 DEF RequestFits, Fits
  <2> QED
    BY <1>0, <1>2, <2>1, <2>5, <2>6, FitsQuietly
<1> QED
  BY <1>3, <1>4

LEMMA CreateFits ==
  ASSUME CartInv, CartsFit, CartConstants, NEW r \in Calls, NEW d \in CartIds, K!Create(r, d)
  PROVE  CartsFit'
<1> DEFINE e  == request[r]
           pc == K!After(e.op, e.variant, e.n, K!NoItems)
           c  == [e EXCEPT !.cart = d, !.pc = pc]
<1>0. CartTyped /\ e \in CartRequest /\ RequestFits(e)
  BY DEF CartInv, CartTyped, CartsFit
<1>1. Becomes(r, c)
  BY <1>0, CreateMeans
<1>2. /\ owners' = [owners EXCEPT ![d] = {e.who}] /\ UNCHANGED <<item, coupons>>
      /\ \A x \in CartIds : owners[x] # {} => owners'[x] # {}
  BY <1>0 DEF K!Create, CartTyped
<1>3. pc \in CartSteps /\ pc # "save"
  <2>1. e.variant \in Variants /\ e.op \in K!Ops
    BY <1>0 DEF CartRequest
  <2>2. ~ K!Has(K!NoItems, e.variant)
    BY <2>1 DEF K!Has, K!NoItems, K!NoRow
  <2> QED
    BY <2>1, <2>2 DEF K!After, CartSteps, K!Ops
<1> HIDE DEF pc
<1>4. /\ c \in CartRequest /\ c.pc = pc /\ c.op = e.op /\ c.variant = e.variant /\ c.n = e.n
      /\ c.seen = e.seen /\ c.mine = e.mine
  BY <1>0, <1>3 DEF CartRequest
<1> HIDE DEF c
<1>5. RequestFits(c)
  BY <1>0, <1>3, <1>4 DEF RequestFits
<1>6. /\ \A x \in CartIds : owners'[x] = {} => item'[x] = K!NoItems
      /\ \A x \in CartIds, v \in Variants : Fits(v, item'[x][v].qty)
      /\ coupons' \subseteq CartIds /\ \A x \in coupons' : owners'[x] # {}
  BY <1>2 DEF CartsFit
<1> QED
  BY <1>0, <1>1, <1>4, <1>5, <1>6, FitsOn

LEMMA LooksFit ==
  ASSUME CartInv, CartsFit, CartConstants, NEW r \in Calls, K!Look(r) \/ K!LookAgain(r)
  PROVE  CartsFit'
<1> DEFINE e   == request[r]
           v   == e.variant
           old == item[e.cart][v]
<1>0. /\ CartTyped /\ e \in CartRequest /\ RequestFits(e) /\ Asked(e) /\ e.pc \in {"look", "raced"}
      /\ UNCHANGED <<owners, coupons, item>>
  BY DEF CartInv, CartTyped, CartsFit, RequestsAreSound, K!Look, K!LookAgain, K!At
<1>1. /\ e.op = "add" /\ e.cart \in CartIds /\ v \in Variants /\ e.n \in Nat
      /\ old \in K!Row /\ old.qty \in Nat /\ e.seen \in [Variants -> K!Row]
  BY <1>0 DEF Asked, CartRequest, CartTyped, K!Row
<1>2. PICK new \in Nat, pc \in {"insert", "failed", "save", "done"} :
        /\ Becomes(r, [e EXCEPT !.seen = [@ EXCEPT ![v] = [old EXCEPT !.qty = new]], !.pc = pc])
        /\ pc = "save" => Fits(v, new)
  <2>1. CASE K!Look(r)
    <3> DEFINE new == old.qty + e.n
               pc  == IF old.qty = 0 THEN "insert"
                      ELSE IF new > MaxQuantity \/ new > Stock[v] THEN "failed" ELSE "save"
    <3>1. Becomes(r, [e EXCEPT !.seen = [@ EXCEPT ![v] = [old EXCEPT !.qty = new]], !.pc = pc])
      BY <1>0, <2>1, LookMeans
    <3>2. new \in Nat /\ Stock[v] \in Nat /\ MaxQuantity \in Nat
      BY <1>1 DEF CartConstants
    <3> HIDE DEF new, old
    <3>3. pc \in {"insert", "failed", "save", "done"} /\ (pc = "save" => Fits(v, new))
      BY <3>2 DEF Fits
    <3> HIDE DEF pc
    <3> QED
      BY <3>1, <3>2, <3>3
  <2>2. CASE K!LookAgain(r)
    <3> DEFINE new == K!Retried(old.qty, e.n)
               pc  == IF old.qty = 0 THEN "done" ELSE IF new > Stock[v] THEN "failed" ELSE "save"
    <3>1. Becomes(r, [e EXCEPT !.seen = [@ EXCEPT ![v] = [old EXCEPT !.qty = new]], !.pc = pc])
      BY <1>0, <2>2, LookAgainMeans
    <3>2. new = IF old.qty + e.n <= MaxQuantity THEN old.qty + e.n ELSE MaxQuantity
      BY <1>1, LeastAndGreatest DEF K!Retried, CartConstants
    <3>3. new \in Nat /\ new <= MaxQuantity /\ Stock[v] \in Nat
      BY <1>1, <3>2 DEF CartConstants
    <3> HIDE DEF new, old
    <3>4. pc \in {"insert", "failed", "save", "done"} /\ (pc = "save" => Fits(v, new))
      BY <3>3 DEF Fits
    <3> HIDE DEF pc
    <3> QED
      BY <3>1, <3>3, <3>4
  <2> QED
    BY <2>1, <2>2
<1> DEFINE seen == [e.seen EXCEPT ![v] = [old EXCEPT !.qty = new]]
           c    == [e EXCEPT !.seen = seen, !.pc = pc]
<1>3. Becomes(r, c)
  BY <1>2
<1>4. seen \in [Variants -> K!Row] /\ seen[v].qty = new
  BY <1>1 DEF K!Row
<1> HIDE DEF seen
<1>5. /\ c \in CartRequest /\ c.pc = pc /\ c.op = e.op /\ c.variant = v /\ c.n = e.n /\ c.seen = seen
  BY <1>0, <1>4 DEF CartRequest, CartSteps
<1> HIDE DEF c
<1>6. RequestFits(c)
  BY <1>0, <1>1, <1>2, <1>4, <1>5 DEF RequestFits
<1> QED
  BY <1>0, <1>3, <1>5, <1>6, FitsQuietly

LEMMA WritesFit ==
  ASSUME CartInv, CartsFit, CartConstants, NEW r \in Calls, K!Insert(r) \/ K!Save(r)
  PROVE  CartsFit'
<1> DEFINE e == request[r]
           d == e.cart
           v == e.variant
<1>0. /\ CartTyped /\ e \in CartRequest /\ RequestFits(e) /\ Asked(e) /\ e.pc \in {"insert", "save"}
      /\ UNCHANGED <<owners, coupons>>
  BY DEF CartInv, CartTyped, CartsFit, RequestsAreSound, K!Insert, K!Save, K!At
<1>1. /\ d \in CartIds /\ v \in Variants /\ e.seen[v] \in K!Row
      /\ e.op \in {"add", "update"} /\ e.n \in Nat /\ e.n <= MaxQuantity
      /\ e.pc = "insert" => e.op = "add"
  BY <1>0 DEF Asked, CartRequest, CartConstants
<1>2. PICK line \in K!Row, pc \in CartSteps \ {"save"} :
        K!SaveItem(d, v, line) /\ Fits(v, line.qty) /\ K!Goto(r, pc)
  <2>1. CASE K!Insert(r)
    <3> DEFINE line == [qty |-> e.n, id |-> r]
               pc   == IF K!Saves(d, v, line) THEN "done" ELSE K!Refused(d)
    <3>1. K!SaveItem(d, v, line) /\ K!Goto(r, pc) /\ e.pc = "insert"
      BY <2>1 DEF K!Insert, K!At
    <3>2. line \in K!Row /\ line.qty = e.n
      BY <1>1 DEF K!Row
    <3>3. Fits(v, line.qty)
      BY <1>0, <1>1, <3>1, <3>2 DEF RequestFits, Fits
    <3>4. pc \in CartSteps \ {"save"}
      BY DEF CartSteps, K!Refused
    <3> HIDE DEF line, pc
    <3> QED
      BY <3>1, <3>2, <3>3, <3>4
  <2>2. CASE K!Save(r)
    <3> DEFINE line == e.seen[v]
               pc   == IF K!Saves(d, v, line) THEN "done" ELSE "failed"
    <3>1. K!SaveItem(d, v, line) /\ K!Goto(r, pc) /\ e.pc = "save"
      BY <2>2 DEF K!Save, K!At
    <3>2. Fits(v, line.qty)
      BY <1>0, <3>1 DEF RequestFits
    <3>3. pc \in CartSteps \ {"save"}
      BY DEF CartSteps
    <3> HIDE DEF pc
    <3> QED
      BY <1>1, <3>1, <3>2, <3>3
  <2> QED
    BY <2>1, <2>2
<1>3. Becomes(r, [e EXCEPT !.pc = pc])
  BY <1>0, <1>2, GotoMeans
<1>4. [e EXCEPT !.pc = pc] \in CartRequest /\ RequestFits([e EXCEPT !.pc = pc])
  BY <1>0, ThePlaceFits
<1> DEFINE c == [e EXCEPT !.pc = pc]
<1> HIDE DEF e
<1>5. c \in CartRequest /\ RequestFits(c) /\ Becomes(r, c)
  BY <1>3, <1>4
<1> HIDE DEF c
<1> QED
  BY <1>0, <1>1, <1>2, <1>5, SavesFit

(* What takes lines away, and what only moves on.                          *)
LEMMA EmptyingFits ==
  ASSUME CartInv, CartsFit, CartConstants, NEW r \in Calls, K!Delete(r) \/ K!Empty(r) \/ K!DropItems(r) \/ K!DropCart(r)
  PROVE  CartsFit'
<1> DEFINE e == request[r]
<1>0. /\ CartTyped /\ e \in CartRequest /\ RequestFits(e) /\ Asked(e) /\ Merging(e)
      /\ e.pc \in {"delete", "empty", "dropItems", "dropCart"}
  BY DEF CartInv, CartTyped, CartsFit, RequestsAreSound, K!Delete, K!Empty, K!DropItems, K!DropCart, K!At
<1>1. e.cart \in CartIds /\ e.variant \in Variants
  BY <1>0 DEF Asked, Merging, CartRequest
<1>2. PICK pc \in CartSteps \ {"save"} : K!Goto(r, pc)
  BY DEF K!Delete, K!Empty, K!DropItems, K!DropCart, CartSteps
<1> DEFINE c == [e EXCEPT !.pc = pc]
<1>3. c \in CartRequest /\ RequestFits(c) /\ Becomes(r, c)
  BY <1>0, <1>2, GotoMeans, ThePlaceFits
<1>4. /\ K!NoItems \in [Variants -> K!Row] /\ K!NoRow \in K!Row
      /\ \A v \in Variants : K!NoItems[v] = K!NoRow /\ Fits(v, K!NoItems[v].qty) /\ Fits(v, K!NoRow.qty)
  BY NewCallIsTyped, NothingFits
<1>5. \/ item' = item
      \/ item' = [item EXCEPT ![e.cart] = [item[e.cart] EXCEPT ![e.variant] = K!NoRow]]
      \/ item' = [item EXCEPT ![e.cart] = K!NoItems]
  BY DEF K!Delete, K!Empty, K!DropItems, K!DropCart
<1>6. \/ UNCHANGED <<owners, coupons>>
      \/ /\ owners' = [owners EXCEPT ![e.cart] = {}] /\ coupons' = coupons \ {e.cart}
         /\ item' = [item EXCEPT ![e.cart] = K!NoItems]
  BY DEF K!Delete, K!Empty, K!DropItems, K!DropCart
<1> HIDE DEF c
<1>7. \A x \in CartIds, w \in Variants : item'[x][w] = item[x][w] \/ item'[x][w] = K!NoRow
  BY <1>0, <1>1, <1>4, <1>5 DEF CartTyped
<1>8. item' \in [CartIds -> [Variants -> K!Row]]
  <2>1. item \in [CartIds -> [Variants -> K!Row]]
    BY <1>0 DEF CartTyped
  <2>2. CASE item' = item
    BY <2>1, <2>2
  <2>3. CASE item' = [item EXCEPT ![e.cart] = [item[e.cart] EXCEPT ![e.variant] = K!NoRow]]
    <3>1. [item[e.cart] EXCEPT ![e.variant] = K!NoRow] \in [Variants -> K!Row]
      BY <1>1, <1>4, <2>1
    <3> QED
      BY <2>1, <2>3, <3>1
  <2>4. CASE item' = [item EXCEPT ![e.cart] = K!NoItems]
    BY <1>4, <2>1, <2>4
  <2> QED
    BY <1>5, <2>2, <2>3, <2>4
<1>9. \A x \in CartIds : item[x] = K!NoItems => item'[x] = K!NoItems
  BY <1>4, <1>7, <1>8 DEF K!NoItems
<1>10. \A x \in CartIds : owners'[x] = {} => item'[x] = K!NoItems
  <2>1. CASE UNCHANGED <<owners, coupons>>
    BY <1>9, <2>1 DEF CartsFit
  <2>2. CASE ~ UNCHANGED <<owners, coupons>>
    BY <1>0, <1>1, <1>6, <1>9, <2>2 DEF CartsFit, CartTyped
  <2> QED
    BY <2>1, <2>2
<1>11. coupons' \subseteq CartIds /\ \A x \in coupons' : owners'[x] # {}
  BY <1>0, <1>1, <1>6 DEF CartsFit, CartTyped
<1>12. \A x \in CartIds, v \in Variants : Fits(v, item'[x][v].qty)
  BY <1>4, <1>7 DEF CartsFit
<1> QED
  BY <1>0, <1>3, <1>10, <1>11, <1>12, FitsOn

LEMMA PromosFit ==
  ASSUME CartInv, CartsFit, CartConstants, NEW r \in Calls, K!RemovePromo(r) \/ K!ApplyPromo(r) \/ K!Convert(r)
  PROVE  CartsFit'
<1> DEFINE e == request[r]
<1>0. CartTyped /\ e \in CartRequest /\ RequestFits(e) /\ Asked(e) /\ e.pc \in {"unpromo", "promo", "convert"}
      /\ item' = item
  BY DEF CartInv, CartTyped, CartsFit, RequestsAreSound, K!RemovePromo, K!ApplyPromo, K!Convert, K!At
<1>1. PICK pc \in CartSteps \ {"save"} : K!Goto(r, pc)
  BY DEF K!RemovePromo, K!ApplyPromo, K!Convert, CartSteps
<1> DEFINE c == [e EXCEPT !.pc = pc]
<1>2. c \in CartRequest /\ RequestFits(c) /\ Becomes(r, c)
  BY <1>0, <1>1, GotoMeans, ThePlaceFits
<1>3. coupons' \subseteq coupons \cup {d \in {e.cart} : owners[d] # {}}
  BY DEF K!RemovePromo, K!ApplyPromo, K!Convert
<1>4. e.pc = "promo" => e.cart \in CartIds
  BY <1>0 DEF Asked
<1>5. e.pc # "promo" => coupons' = coupons
  BY DEF K!RemovePromo, K!ApplyPromo, K!Convert, K!At
<1>6. owners' = owners \/ owners' = [owners EXCEPT ![e.cart] = IF @ = {} THEN @ ELSE @ \cup {"user"}]
  BY DEF K!RemovePromo, K!ApplyPromo, K!Convert
<1> HIDE DEF c
<1>7. \A x \in CartIds : owners'[x] = {} <=> owners[x] = {}
  BY <1>0, <1>6 DEF CartTyped
<1>8. coupons' \subseteq CartIds /\ \A x \in coupons' : owners'[x] # {}
  BY <1>3, <1>4, <1>5, <1>7 DEF CartsFit
<1>9. \A x \in CartIds : owners'[x] = {} => item'[x] = K!NoItems
  BY <1>0, <1>7 DEF CartsFit
<1>10. \A x \in CartIds, v \in Variants : Fits(v, item'[x][v].qty)
  BY <1>0 DEF CartsFit
<1> QED
  BY <1>0, <1>2, <1>8, <1>9, <1>10, FitsOn

LEMMA ReadingsFit ==
  ASSUME CartInv, CartsFit, CartConstants, NEW r \in Calls, K!ReadGuestCart(r)
  PROVE  CartsFit'
<1> DEFINE g    == IF K!Found("session") = {} THEN 0 ELSE K!Min(K!Found("session"))
           seen == IF g = 0 THEN K!NoItems ELSE item[g]
           c    == [K!NewCall EXCEPT !.pc = "readUser", !.op = "merge", !.who = "user", !.cart = g, !.seen = seen]
<1>0. CartTyped /\ UNCHANGED <<owners, coupons, item>>
  BY DEF CartInv, K!ReadGuestCart
<1>1. Becomes(r, c)
  BY DEF K!ReadGuestCart, Becomes
<1>2. g \in CartIds \cup {0} /\ 0 \notin CartIds
  BY <1>0, FoundIsACart DEF CartConstants
<1> HIDE DEF g
<1>3. seen \in [Variants -> K!Row] /\ (seen = K!NoItems \/ (g \in CartIds /\ seen = item[g]))
  BY <1>0, <1>2, NewCallIsTyped DEF CartTyped
<1>4. \A v \in Variants : Fits(v, seen[v].qty)
  BY <1>3, NothingFits DEF CartsFit
<1> HIDE DEF seen
<1>5. c \in CartRequest /\ c.pc = "readUser" /\ c.op = "merge" /\ c.seen = seen /\ c.mine = K!NoItems
  BY <1>2, <1>3, NewCallIsTyped DEF K!NewCall, CartRequest, CartSteps, K!Ops, K!Owners
<1> HIDE DEF c
<1>6. RequestFits(c)
  BY <1>4, <1>5, NothingFits DEF RequestFits
<1> QED
  BY <1>0, <1>1, <1>5, <1>6, FitsQuietly

LEMMA ReadingsOfBothFit ==
  ASSUME CartInv, CartsFit, CartConstants, NEW r \in Calls, K!ReadUserCart(r)
  PROVE  CartsFit'
<1> DEFINE e     == request[r]
           found == K!Found("user")
           guest == K!LinesIn(e.seen)
           u     == K!Min(found)
<1>0. CartTyped /\ e \in CartRequest /\ RequestFits(e) /\ Asked(e) /\ e.pc = "readUser"
      /\ UNCHANGED <<owners, coupons, item>>
  BY DEF CartInv, CartTyped, CartsFit, RequestsAreSound, K!ReadUserCart, K!At
<1>1. e.op = "merge"
  BY <1>0 DEF Asked
<1>2. CASE guest # {} /\ found # {} /\ ~ K!SameCart(e.cart, u)
  <2> DEFINE c == [e EXCEPT !.pc = "merge", !.target = u, !.mine = item[u], !.todo = guest]
  <2>1. Becomes(r, c)
    BY <1>2 DEF K!ReadUserCart, Becomes
  <2>2. u \in CartIds
    BY <1>0, <1>2, FoundIsACart
  <2> HIDE DEF u, guest
  <2>3. guest \subseteq Variants /\ item[u] \in [Variants -> K!Row]
    BY <1>0, <2>2 DEF K!LinesIn, CartTyped, guest
  <2>4. c \in CartRequest /\ c.pc = "merge" /\ c.op = e.op /\ c.seen = e.seen /\ c.mine = item[u]
    BY <1>0, <2>2, <2>3 DEF CartRequest, CartSteps
  <2> HIDE DEF c
  <2>5. RequestFits(c)
    BY <1>0, <1>1, <2>2, <2>4 DEF RequestFits, CartsFit
  <2> QED
    BY <1>0, <2>1, <2>4, <2>5, FitsQuietly
<1>3. CASE ~ (guest # {} /\ found # {} /\ ~ K!SameCart(e.cart, u))
  <2>1. PICK pc \in {"create", "convert", "done"} : Becomes(r, [e EXCEPT !.pc = pc])
    BY <1>3 DEF K!ReadUserCart, Becomes
  <2>2. [e EXCEPT !.pc = pc] \in CartRequest /\ RequestFits([e EXCEPT !.pc = pc])
    BY <1>0, ThePlaceFits DEF CartSteps
  <2> QED
    BY <1>0, <2>1, <2>2, FitsQuietly
<1> QED
  BY <1>2, <1>3

LEMMA MergedLinesFit ==
  ASSUME CartInv, CartsFit, CartConstants, NEW r \in Calls, NEW v \in Variants, K!MergeItem(r, v)
  PROVE  CartsFit'
<1> DEFINE e    == request[r]
           u    == e.target
           own  == e.mine[v]
           line == IF own.qty = 0 THEN [qty |-> e.seen[v].qty, id |-> r]
                   ELSE [own EXCEPT !.qty = K!Merged(@, e.seen[v].qty)]
           pc   == IF ~ K!Saves(u, v, line) THEN "failed" ELSE IF e.todo = {v} THEN "dropItems" ELSE e.pc
           todo == e.todo \ {v}
           c    == [e EXCEPT !.todo = todo, !.pc = pc]
<1>0. /\ CartTyped /\ e \in CartRequest /\ RequestFits(e) /\ e.pc = "merge" /\ Asked(e) /\ Merging(e)
      /\ UNCHANGED <<owners, coupons>> /\ K!SaveItem(u, v, line)
  BY DEF CartInv, CartTyped, CartsFit, RequestsAreSound, K!MergeItem, K!At
<1>1. Becomes(r, c)
  BY <1>0, MergeItemMeans
<1>2. /\ e.op = "merge" /\ u \in CartIds /\ own \in K!Row /\ e.seen[v].qty \in Nat /\ own.qty \in Nat
      /\ Fits(v, e.seen[v].qty) /\ Fits(v, own.qty) /\ Stock[v] \in Nat /\ MaxQuantity \in Nat
  BY <1>0 DEF Asked, CartRequest, K!Row, RequestFits, CartConstants
<1>3. line \in K!Row /\ Fits(v, line.qty)
  <2>1. CASE own.qty = 0
    BY <1>2, <2>1 DEF K!Row
  <2>2. CASE own.qty # 0
    <3> DEFINE most == K!Max({own.qty, e.seen[v].qty})
    <3>1. most = IF own.qty >= e.seen[v].qty THEN own.qty ELSE e.seen[v].qty
      BY <1>2, LeastAndGreatest
    <3>2. most \in Nat /\ Fits(v, most)
      BY <1>2, <3>1
    <3> HIDE DEF most
    <3>3. K!Min({most, MaxQuantity}) = IF most <= MaxQuantity THEN most ELSE MaxQuantity
      BY <1>2, <3>2, LeastAndGreatest
    <3>4. K!Merged(own.qty, e.seen[v].qty) = most
      BY <1>2, <3>2, <3>3 DEF K!Merged, Fits, most
    <3>5. line = [own EXCEPT !.qty = K!Merged(own.qty, e.seen[v].qty)]
      BY <2>2
    <3> HIDE DEF line, own
    <3> QED
      BY <1>2, <3>2, <3>4, <3>5 DEF K!Row
  <2> QED
    BY <2>1, <2>2
<1> HIDE DEF line
<1>4. pc \in CartSteps /\ pc # "save" /\ todo \in SUBSET Variants
  BY <1>0 DEF CartSteps, CartRequest
<1> HIDE DEF pc, todo
<1>5. c \in CartRequest /\ c.pc = pc /\ c.op = e.op /\ c.seen = e.seen /\ c.mine = e.mine
  BY <1>0, <1>4 DEF CartRequest
<1> HIDE DEF c
<1>6. RequestFits(c)
  BY <1>0, <1>2, <1>4, <1>5 DEF RequestFits
<1> QED
  BY <1>0, <1>1, <1>2, <1>3, <1>5, <1>6, SavesFit

LEMMA FitsStay ==
  ASSUME CartInv, CartsFit, CartConstants, [K!Next]_(K!vars)
  PROVE  CartsFit'
<1>1. CASE UNCHANGED K!vars
  BY <1>1 DEF K!vars, CartsFit, Fits, RequestFits
<1>2. CASE K!Next
  BY <1>2, FindFits, CreateFits, LooksFit, WritesFit, EmptyingFits, PromosFit, ReadingsFit,
     ReadingsOfBothFit, MergedLinesFit DEF K!Next
<1> QED
  BY <1>1, <1>2
-----------------------------------------------------------------------------
(* What is assumed of the shop: each customer's orders name a user, the    *)
(* first carts respect limit and stock, ratings are stars, amounts are     *)
(* natural numbers, and codes, customers, goods and editors are finitely   *)
(* many.                                                                   *)
ShopConstants ==
  /\ Buyer \in [Checkouts -> Users]
  /\ CartConstants /\ FirstCartsFit /\ ReviewsConstants /\ RulesConstants
  /\ T!Root \notin Cats /\ T!Gone \notin Cats
  /\ IsFiniteSet(Codes) /\ MaxRows \in Nat /\ Given \subseteq A!Status
  /\ MaxEdits \in Nat

FilterTyped == F!TypeOK

(* Everything that is known of the component at work.                      *)
PartInv ==
  /\ part = "cart" => CartInv /\ CartsFit
  /\ part = "wishlist" => WishInv
  /\ part = "reviews" => ReviewsInv /\ ReviewsAreBounded
  /\ part = "categories" => TreeInv
  /\ part = "marking" => P!Typed /\ P!ARecountIsDue /\ P!Numbered
  /\ part = "catalog" => CatalogInv /\ EditsAreBounded
  /\ part = "filter" => FilterTyped
  /\ part = "rules" => RulesInv

LEMMA MarkingIsAssumed ==
  ASSUME ShopConstants
  PROVE  P!MarkingConstants
<1>1. P!IsFiniteSet(Codes) <=> IsFiniteSet(Codes)
  BY DEF P!IsFiniteSet, IsFiniteSet
<1>2. P!Status = A!Status
  BY DEF P!Status, A!Status
<1> QED
  BY <1>1, <1>2 DEF ShopConstants, P!MarkingConstants

LEMMA SameMarkingTypes == P!TypeOK => A!TypeOK
<1>1. A!Cardinality(Codes) = P!Cardinality(Codes)
  BY DEF A!Cardinality, P!Cardinality
<1> QED
  BY <1>1 DEF A!TypeOK, P!TypeOK, A!Exists, P!Exists, A!NoRow, P!NoRow, A!Status, P!Status

LEMMA FilterStays == FilterTyped /\ [F!Next]_(F!vars) => FilterTyped'
<1> SUFFICES ASSUME FilterTyped, [F!Next]_(F!vars) PROVE FilterTyped'
  OBVIOUS
<1> USE DEF FilterTyped, F!TypeOK
<1>1. CASE UNCHANGED F!vars
  BY <1>1 DEF F!vars
<1>2. ASSUME NEW p \in Products, NEW s \in BOOLEAN, F!Show(p, s) PROVE FilterTyped'
  BY <1>2 DEF F!Show
<1>3. ASSUME NEW p \in Products, NEW z \in Sizes, NEW s \in {"in", "out"}, F!SetStock(p, z, s) PROVE FilterTyped'
  BY <1>3 DEF F!SetStock
<1>4. ASSUME NEW p \in Products, NEW zs \in SUBSET Sizes, F!ReplaceVariants(p, zs) PROVE FilterTyped'
  BY <1>4 DEF F!ReplaceVariants
<1> QED
  BY <1>1, <1>2, <1>3, <1>4 DEF F!Next

LEMMA PartsStart ==
  ASSUME ShopConstants, ShopInit
  PROVE  PartInv
<1>1. part = "cart" => CartInv /\ CartsFit
  BY CartStarts, FitsStart DEF ShopInit, ShopConstants
<1>2. part = "wishlist" => WishInv
  BY WishesStart DEF ShopInit
<1>3. part = "reviews" => ReviewsInv /\ ReviewsAreBounded
  BY ReviewsStart, BoundsStart DEF ShopInit, ShopConstants
<1>4. part = "categories" => TreeInv
  BY TreeStarts DEF ShopInit, ShopConstants
<1>5. part = "marking" => P!Typed /\ P!ARecountIsDue /\ P!Numbered
  <2>1. part = "marking" => P!Init
    BY SameMarking DEF ShopInit
  <2> QED
    BY <2>1, MarkingIsAssumed, P!AllStarts, P!NumberedStarts
<1>6. part = "catalog" => CatalogInv /\ EditsAreBounded
  BY CatalogStarts, EditsStart DEF ShopInit, ShopConstants
<1>7. part = "filter" => FilterTyped
  BY DEF ShopInit, F!Init, FilterTyped, F!TypeOK
<1>8. part = "rules" => RulesInv
  BY RulesStart DEF ShopInit, ShopConstants
<1> QED
  BY <1>1, <1>2, <1>3, <1>4, <1>5, <1>6, <1>7, <1>8 DEF PartInv

(* The component at work takes the step, or nothing changes.               *)
LEMMA OnlyThePartMoves ==
  ASSUME [ShopNext]_all
  PROVE  /\ part' = part
         /\ part = "cart" => [K!Next]_(K!vars)
         /\ part = "wishlist" => [W!Next]_(W!vars)
         /\ part = "reviews" => [R!Next]_(R!vars)
         /\ part = "categories" => [T!Next]_(T!vars)
         /\ part = "marking" => [A!Next]_(P!vars)
         /\ part = "catalog" => [G!Next]_(G!vars)
         /\ part = "filter" => [F!Next]_(F!vars)
         /\ part = "rules" => [D!Next]_(D!vars)
<1>1. CASE UNCHANGED all
  BY <1>1 DEF all, carts, wishing, reviews, cats, marking, catalog, filter, rules,
     K!vars, W!vars, R!vars, T!vars, P!vars, G!vars, F!vars, D!vars
<1>2. CASE ShopNext
  BY <1>2 DEF ShopNext
<1> QED
  BY <1>1, <1>2

LEMMA PartsStay ==
  ASSUME ShopConstants, PartInv, [ShopNext]_all
  PROVE  PartInv'
<1>p. part' = part
  BY OnlyThePartMoves
<1>1. part = "cart" => (CartInv /\ CartsFit)'
  BY OnlyThePartMoves, CartsKeep, FitsStay DEF PartInv, ShopConstants
<1>2. part = "wishlist" => WishInv'
  BY OnlyThePartMoves, WishesStay DEF PartInv
<1>3. part = "reviews" => (ReviewsInv /\ ReviewsAreBounded)'
  <2> SUFFICES ASSUME part = "reviews" PROVE (ReviewsInv /\ ReviewsAreBounded)'
    OBVIOUS
  <2>1. ReviewsInv /\ ReviewsAreBounded /\ [R!Next]_(R!vars)
    BY OnlyThePartMoves DEF PartInv
  <2>2. ReviewsConstants /\ Ratings \subseteq Nat
    BY DEF ShopConstants, ReviewsConstants
  <2>3. ReviewsInv'
    BY <2>1, <2>2, ReviewsStay
  <2>4. ReviewsTyped /\ ReviewsTyped' /\ ApprovalsAreKnown
    BY <2>1, <2>3 DEF ReviewsInv
  <2> QED
    BY <2>1, <2>2, <2>3, <2>4, BoundsStay
<1>4. part = "categories" => TreeInv'
  BY OnlyThePartMoves, TreeStays DEF PartInv, ShopConstants
<1>5. part = "marking" => (P!Typed /\ P!ARecountIsDue /\ P!Numbered)'
  <2>1. part = "marking" => [P!Next]_(P!vars)
    BY OnlyThePartMoves, SameMarking
  <2> QED
    BY <2>1, MarkingIsAssumed, P!AllStays, P!NumberedStays DEF PartInv
<1>6. part = "catalog" => (CatalogInv /\ EditsAreBounded)'
  <2> SUFFICES ASSUME part = "catalog" PROVE (CatalogInv /\ EditsAreBounded)'
    OBVIOUS
  <2>1. CatalogInv /\ EditsAreBounded /\ [G!Next]_(G!vars) /\ MaxEdits \in Nat
    BY OnlyThePartMoves DEF PartInv, ShopConstants
  <2>2. CatalogInv'
    BY <2>1, CatalogStays
  <2>3. CatalogTyped /\ CatalogTyped'
    BY <2>1, <2>2 DEF CatalogInv
  <2> QED
    BY <2>1, <2>2, <2>3, EditsStay
<1>7. part = "filter" => FilterTyped'
  BY OnlyThePartMoves, FilterStays DEF PartInv
<1>8. part = "rules" => RulesInv'
  BY OnlyThePartMoves, RulesStay DEF PartInv, ShopConstants
<1> QED
  BY <1>p, <1>1, <1>2, <1>3, <1>4, <1>5, <1>6, <1>7, <1>8 DEF PartInv

LEMMA PartsMean ==
  ASSUME ShopConstants, PartInv, TypeOK
  PROVE  TypesOK
<1>1. part = "cart" => K!TypeOK
  BY FitsMean DEF PartInv, CartInv
<1>2. part = "wishlist" => W!TypeOK
  BY DEF PartInv, WishInv, WishTyped, WishRequest, W!TypeOK
<1>3. part = "reviews" => R!TypeOK
  BY BoundsMean DEF PartInv, ReviewsInv, ShopConstants
<1>4. part = "categories" => T!TypeOK
  BY DEF PartInv, TreeInv, TreeTyped, Tables, Rooted, TreeRequest, T!TypeOK
<1>5. part = "marking" => A!TypeOK
  BY P!NumberedMeans, SameMarkingTypes DEF PartInv
<1>6. part = "catalog" => G!TypeOK
  BY EditsMean DEF PartInv, CatalogInv, ShopConstants
<1>7. part = "filter" => F!TypeOK
  BY DEF PartInv, FilterTyped
<1>8. part = "rules" => D!TypeOK
  BY DEF PartInv, RulesInv, RulesTyped, D!TypeOK
<1> QED
  BY <1>1, <1>2, <1>3, <1>4, <1>5, <1>6, <1>7, <1>8 DEF TypesOK

(* TypesOK: whatever the requests do to each other, every component keeps  *)
(* its type: no line of a cart passes the limit or the stock (CartService),*)
(* no product is twice in a wishlist, shown ratings are between 0 and 5,   *)
(* no two marking codes share a row, lists of variants are those of edits. *)
THEOREM EverythingKeepsItsType ==
  ASSUME ShopConstants
  PROVE  ShopSpec => []TypesOK
<1>1. ShopSpec => Spec
  <2>1. ShopInit => Init
    BY DEF ShopInit, NoPromo
  <2>2. [ShopNext]_all => [Next]_vars
    BY DEF ShopNext, all, vars
  <2> QED
    BY <2>1, <2>2, PTL DEF ShopSpec, Spec
<1>2. Spec => []TypeOK
  BY TypesHold DEF ShopConstants
<1>3. ShopInit => PartInv
  BY PartsStart
<1>4. PartInv /\ [ShopNext]_all => PartInv'
  BY PartsStay
<1>5. PartInv /\ TypeOK => TypesOK
  BY PartsMean
<1> QED
  BY <1>1, <1>2, <1>3, <1>4, <1>5, PTL DEF ShopSpec
=============================================================================
