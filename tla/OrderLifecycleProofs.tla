------------------------ MODULE OrderLifecycleProofs ------------------------
(***************************************************************************)
(* Proofs that the row of an order stays consistent for any number of      *)
(* orders, requests and customers.                                         *)
(*                                                                         *)
(* Neither property is inductive by itself.  A history is written from the *)
(* snapshot of a request, so LegalHistory must hold of every snapshot, and *)
(* the entry that will be appended must be a legal step from the end of    *)
(* the snapshot.  A number is inserted from a draft, so a draft must be 1  *)
(* or follow the number of a placed order, which stays placed.             *)
(*                                                                         *)
(* That the status follows the transition table needs the requests to take *)
(* turns.  What a step of the table is decided on is then not the status   *)
(* of now but the one the request has read, so the invariant says that a   *)
(* write to come still fits the status it will replace.                    *)
(***************************************************************************)
EXTENDS OrderTurns, TLAPS

WritesAreLegal ==
  \A r \in Requests :
    req[r] # Idle =>
      /\ req[r].order \in Placed
      /\ LegalHistory(req[r].order, req[r].seen)
      /\ LegalStep(req[r].order, LastOf(req[r].seen), req[r].entry)

Follows(n) == n = 1 \/ \E p \in Placed : number[p] + 1 = n

DraftsFollow == \A o \in Orders : draft[o] # 0 => o \notin Placed /\ Follows(draft[o])

RowInv == TypeOK /\ HistoryIsLegal /\ StatusMatchesHistory /\ WritesAreLegal

(* No two orders carry the same number: what makes findByOrderNumber a     *)
(* function, and what the read-then-insert of create would break without   *)
(* the unique index.                                                       *)
NumbersAreUnique ==
  \A o, p \in Placed : number[o] = number[p] => o = p

NumberInv == TypeOK /\ DraftsFollow /\ NumbersHaveNoGap /\ NumbersAreUnique
-----------------------------------------------------------------------------
(* The entries the three writers make are entries. *)
LEMMA EntriesAreTyped ==
  /\ Created \in Entries
  /\ \A s \in OrderStatus, a \in Actors : [status |-> s, by |-> a] \in Entries
BY DEF Created, Entries, Entry, OrderStatus

(* Type correctness of every reachable state: in particular no request     *)
(* ever writes a status outside the enumeration or an empty snapshot's     *)
(* successor.                                                              *)
THEOREM TypeCorrect == Spec => []TypeOK
<1>1. Init => TypeOK
  BY DEF Init, TypeOK, Idle
<1>2. TypeOK /\ [Next]_vars => TypeOK'
  <2> SUFFICES ASSUME TypeOK, [Next]_vars PROVE TypeOK'
    OBVIOUS
  <2>1. CASE UNCHANGED vars
    BY <2>1 DEF TypeOK, vars
  <2>2. ASSUME NEW o \in Orders, ReadNumber(o) PROVE TypeOK'
    <3>1. \E n \in Nat : draft' = [draft EXCEPT ![o] = n]
      <4>1. \A p \in Placed : number[p] + 1 \in Nat
        BY DEF TypeOK, Placed
      <4> QED
        BY <2>2, <4>1 DEF ReadNumber
    <3> QED
      BY <2>2, <3>1 DEF ReadNumber, TypeOK
  <2>3. ASSUME NEW o \in Orders, Insert(o) PROVE TypeOK'
    <3>1. Created \in Entries
      BY EntriesAreTyped
    <3>2. <<Created>> \in Seq(Entries)
      BY <3>1
    <3>3. "pending" \in OrderStatus
      BY DEF OrderStatus
    <3> QED
      BY <2>3, <3>2, <3>3 DEF Insert, TypeOK
  <2>4. ASSUME NEW o \in Orders, GiveUp(o) PROVE TypeOK'
    BY <2>4 DEF GiveUp, TypeOK
  <2>5. ASSUME NEW r \in Requests, NEW o \in Orders, NEW s \in OrderStatus,
               NEW actor \in Actors, Intend(r, o, s, actor),
               UNCHANGED <<status, history, number, draft>>
        PROVE TypeOK'
    <3>1. [status |-> s, by |-> actor] \in Entries
      BY EntriesAreTyped
    <3>2. history[o] \in Seq(Entries)
      BY DEF TypeOK
    <3>3. req'[r] \in Write /\ req' = [req EXCEPT ![r] = req'[r]]
      BY <2>5, <3>1, <3>2 DEF Intend, Write, TypeOK
    <3> QED
      BY <2>5, <3>3 DEF TypeOK
  <2>6. ASSUME NEW r \in Requests, Commit(r) PROVE TypeOK'
    <3>1. req[r] \in Write
      BY <2>6 DEF Commit, CommitAs, TypeOK
    <3>2. /\ req[r].order \in Orders
          /\ req[r].entry.status \in OrderStatus
          /\ Append(req[r].seen, req[r].entry) \in Seq(Entries)
      BY <3>1 DEF Write, Entries, Entry
    <3> QED
      BY <2>6, <3>2 DEF Commit, CommitAs, TypeOK
  <2>7. ASSUME NEW r \in Requests, Abandon(r) PROVE TypeOK'
    BY <2>7 DEF Abandon, TypeOK
  <2>8. ASSUME NEW r \in Requests, NEW o \in Orders, NEW s \in OrderStatus,
               StartUpdate(r, o, s)
        PROVE TypeOK'
    BY <2>5, <2>8 DEF StartUpdate, Actors
  <2>9. ASSUME NEW r \in Requests, NEW o \in Orders, NEW actor \in Actors,
               StartCancel(r, o, actor)
        PROVE TypeOK'
    <3>1. "cancelled" \in OrderStatus
      BY DEF OrderStatus
    <3> QED
      BY <2>5, <2>9, <3>1 DEF StartCancel
  <2> QED
    BY <2>1, <2>2, <2>3, <2>4, <2>6, <2>7, <2>8, <2>9 DEF Next
<1> QED
  BY <1>1, <1>2, PTL DEF Spec
-----------------------------------------------------------------------------
(* Appending a legal step to a legal history gives a legal history. *)
LEMMA LegalAppend ==
  ASSUME NEW o \in Orders, NEW h \in Seq(Entries), NEW e \in Entries,
         LegalHistory(o, h), LegalStep(o, LastOf(h), e)
  PROVE  /\ LegalHistory(o, Append(h, e))
         /\ LastOf(Append(h, e)) = e
<1> DEFINE g == Append(h, e)
<1>1. /\ Len(h) \in Nat \ {0}
      /\ Len(g) = Len(h) + 1
      /\ g[Len(h) + 1] = e
      /\ \A i \in 1 .. Len(h) : g[i] = h[i]
      /\ g # <<>>
  BY DEF LegalHistory
<1>2. g[1] = Created
  BY <1>1 DEF LegalHistory
<1>3. ASSUME NEW i \in 1 .. Len(g) - 1 PROVE LegalStep(o, g[i], g[i + 1])
  <2>1. CASE i = Len(h)
    BY <1>1, <2>1 DEF LastOf
  <2>2. CASE i # Len(h)
    <3>1. i \in 1 .. Len(h) - 1 /\ i \in 1 .. Len(h) /\ i + 1 \in 1 .. Len(h)
      BY <1>1, <2>2
    <3>2. LegalStep(o, h[i], h[i + 1])
      BY <3>1 DEF LegalHistory
    <3> QED
      BY <1>1, <3>1, <3>2
  <2> QED
    BY <2>1, <2>2
<1>4. LastOf(g) = e
  BY <1>1 DEF LastOf
<1> HIDE DEF g
<1> QED
  BY <1>1, <1>2, <1>3, <1>4 DEF LegalHistory, g

(* The history every order starts with. *)
LEMMA LegalCreation ==
  \A o \in Orders : LegalHistory(o, <<Created>>) /\ LastOf(<<Created>>) = Created
BY DEF LegalHistory, LastOf

(* The entry of a request that has passed the checks of updateStatus or of *)
(* cancel is a legal step from the status it has read.                     *)
LEMMA ChecksGiveLegalSteps ==
  ASSUME NEW o \in Placed, StatusMatchesHistory
  PROVE  /\ \A s \in Allowed[status[o]] :
              LegalStep(o, LastOf(history[o]), [status |-> s, by |-> Admin])
         /\ \A actor \in Actors : MayCancel(actor, o) =>
              LegalStep(o, LastOf(history[o]), [status |-> "cancelled", by |-> actor])
<1>1. LastOf(history[o]).status = status[o]
  BY DEF StatusMatchesHistory
<1> QED
  BY <1>1 DEF LegalStep, MayCancel

(* Starting a request leaves RowInv: the new write is legal. *)
LEMMA IntendKeepsRowInv ==
  ASSUME RowInv, TypeOK', NEW r \in Requests, NEW o \in Placed, NEW s, NEW actor,
         Intend(r, o, s, actor), UNCHANGED <<status, history, number, draft>>,
         LegalStep(o, LastOf(history[o]), [status |-> s, by |-> actor])
  PROVE  RowInv'
<1>1. Placed' = Placed
  BY DEF Placed
<1>2. HistoryIsLegal' /\ StatusMatchesHistory'
  BY <1>1 DEF RowInv, HistoryIsLegal, StatusMatchesHistory
<1>3. ASSUME NEW q \in Requests, req'[q] # Idle
      PROVE  /\ req'[q].order \in Placed'
             /\ LegalHistory(req'[q].order, req'[q].seen)
             /\ LegalStep(req'[q].order, LastOf(req'[q].seen), req'[q].entry)
  <2>1. CASE q # r
    <3>1. req'[q] = req[q]
      BY <2>1 DEF Intend, RowInv, TypeOK
    <3> QED
      BY <1>1, <1>3, <3>1 DEF RowInv, WritesAreLegal
  <2>2. CASE q = r
    <3>1. /\ req'[q].order = o
          /\ req'[q].seen = history[o]
          /\ req'[q].entry = [status |-> s, by |-> actor]
      BY <2>2 DEF Intend, RowInv, TypeOK
    <3>2. LegalHistory(o, history[o])
      BY DEF RowInv, HistoryIsLegal
    <3> QED
      BY <1>1, <3>1, <3>2
  <2> QED
    BY <2>1, <2>2
<1> QED
  BY <1>2, <1>3 DEF RowInv, WritesAreLegal

(* Whatever does not touch the rows and starts no request keeps RowInv. *)
LEMMA QuietKeepsRowInv ==
  ASSUME RowInv, TypeOK', UNCHANGED <<status, history>>,
         \A q \in Requests : req'[q] = req[q] \/ req'[q] = Idle
  PROVE  RowInv'
<1>1. Placed' = Placed
  BY DEF Placed
<1>2. HistoryIsLegal' /\ StatusMatchesHistory'
  BY <1>1 DEF RowInv, HistoryIsLegal, StatusMatchesHistory
<1>3. WritesAreLegal'
  BY <1>1 DEF RowInv, WritesAreLegal
<1> QED
  BY <1>2, <1>3 DEF RowInv
-----------------------------------------------------------------------------
(* RowInv is inductive, given that only unplaced orders have a draft. *)
LEMMA RowInvStep == RowInv /\ DraftsFollow /\ TypeOK' /\ [Next]_vars => RowInv'
<1> SUFFICES ASSUME RowInv, DraftsFollow, TypeOK', [Next]_vars PROVE RowInv'
  OBVIOUS
<1>1. CASE UNCHANGED vars
  BY <1>1, QuietKeepsRowInv DEF vars
<1>2. ASSUME NEW o \in Orders, ReadNumber(o) \/ GiveUp(o) PROVE RowInv'
  BY <1>2, QuietKeepsRowInv DEF ReadNumber, GiveUp
<1>3. ASSUME NEW o \in Orders, Insert(o) PROVE RowInv'
  <2>1. /\ status' = [status EXCEPT ![o] = "pending"]
        /\ history' = [history EXCEPT ![o] = <<Created>>]
        /\ req' = req
        /\ o \notin Placed
    BY <1>3 DEF Insert, DraftsFollow
  <2>2. Placed' = Placed \cup {o}
    BY <2>1 DEF Placed, RowInv, TypeOK
  <2>3. \A p \in Placed : status'[p] = status[p] /\ history'[p] = history[p]
    BY <2>1 DEF Placed, RowInv, TypeOK
  <2>4. status'[o] = "pending" /\ history'[o] = <<Created>>
    BY <2>1 DEF RowInv, TypeOK
  <2>5. HistoryIsLegal'
    BY <2>2, <2>3, <2>4, LegalCreation DEF RowInv, HistoryIsLegal
  <2>6. StatusMatchesHistory'
    BY <2>2, <2>3, <2>4, LegalCreation DEF RowInv, StatusMatchesHistory, Created
  <2>7. WritesAreLegal'
    BY <2>1, <2>2 DEF RowInv, WritesAreLegal
  <2> QED
    BY <2>5, <2>6, <2>7 DEF RowInv
<1>4. ASSUME NEW r \in Requests, NEW o \in Orders, NEW s \in OrderStatus,
             StartUpdate(r, o, s)
      PROVE RowInv'
  <2>1. LegalStep(o, LastOf(history[o]), [status |-> s, by |-> Admin])
    BY <1>4, ChecksGiveLegalSteps DEF StartUpdate, RowInv
  <2> QED
    BY <1>4, <2>1, IntendKeepsRowInv DEF StartUpdate
<1>5. ASSUME NEW r \in Requests, NEW o \in Orders, NEW actor \in Actors,
             StartCancel(r, o, actor)
      PROVE RowInv'
  <2>1. LegalStep(o, LastOf(history[o]), [status |-> "cancelled", by |-> actor])
    BY <1>5, ChecksGiveLegalSteps DEF StartCancel, RowInv
  <2> QED
    BY <1>5, <2>1, IntendKeepsRowInv DEF StartCancel
<1>6. ASSUME NEW r \in Requests, Commit(r) PROVE RowInv'
  <2> DEFINE o == req[r].order
             h == Append(req[r].seen, req[r].entry)
  <2>1. /\ o \in Placed
        /\ req[r].seen \in Seq(Entries)
        /\ req[r].entry \in Entries
        /\ LegalHistory(o, req[r].seen)
        /\ LegalStep(o, LastOf(req[r].seen), req[r].entry)
    BY <1>6 DEF Commit, CommitAs, RowInv, WritesAreLegal, TypeOK, Write
  <2>2. LegalHistory(o, h) /\ LastOf(h) = req[r].entry
    BY <2>1, LegalAppend DEF Placed
  <2>3. /\ status' = [status EXCEPT ![o] = req[r].entry.status]
        /\ history' = [history EXCEPT ![o] = h]
        /\ req' = [req EXCEPT ![r] = Idle]
    BY <1>6 DEF Commit, CommitAs
  <2>4. req[r].entry.status \in OrderStatus
    BY <2>1 DEF Entries, Entry
  <2>5. Placed' = Placed
    BY <2>1, <2>3, <2>4 DEF Placed, RowInv, TypeOK, OrderStatus
  <2> HIDE DEF h, o
  <2>6. /\ \A p \in Placed \ {o} : status'[p] = status[p] /\ history'[p] = history[p]
        /\ status'[o] = req[r].entry.status
        /\ history'[o] = h
    BY <2>1, <2>3 DEF Placed, RowInv, TypeOK
  <2>7. HistoryIsLegal'
    BY <2>2, <2>5, <2>6 DEF RowInv, HistoryIsLegal
  <2>8. StatusMatchesHistory'
    BY <2>2, <2>5, <2>6 DEF RowInv, StatusMatchesHistory
  <2>9. WritesAreLegal'
    BY <2>3, <2>5 DEF RowInv, WritesAreLegal, TypeOK
  <2> QED
    BY <2>7, <2>8, <2>9 DEF RowInv
<1>7. ASSUME NEW r \in Requests, Abandon(r) PROVE RowInv'
  BY <1>7, QuietKeepsRowInv DEF Abandon, RowInv, TypeOK
<1> QED
  BY <1>1, <1>2, <1>3, <1>4, <1>5, <1>6, <1>7 DEF Next
-----------------------------------------------------------------------------
(* A step that leaves the numbers and the set of placed orders alone, and  *)
(* gives an unplaced order a draft that follows, or takes a draft away,    *)
(* keeps NumberInv.                                                        *)
LEMMA DraftKeepsNumberInv ==
  ASSUME NumberInv, TypeOK', Placed' = Placed, number' = number,
         \A o \in Orders : \/ draft'[o] = draft[o]
                           \/ draft'[o] = 0
                           \/ o \notin Placed /\ Follows(draft'[o])
  PROVE  NumberInv'
<1>1. NumbersHaveNoGap' /\ NumbersAreUnique'
  BY DEF NumberInv, NumbersHaveNoGap, NumbersAreUnique
<1>2. DraftsFollow'
  BY DEF NumberInv, DraftsFollow, Follows
<1> QED
  BY <1>1, <1>2 DEF NumberInv

(* NumberInv is inductive. *)
LEMMA NumberInvStep == NumberInv /\ WritesAreLegal /\ TypeOK' /\ [Next]_vars => NumberInv'
<1> SUFFICES ASSUME NumberInv, WritesAreLegal, TypeOK', [Next]_vars PROVE NumberInv'
  OBVIOUS
<1>1. CASE UNCHANGED vars
  BY <1>1, DraftKeepsNumberInv DEF vars, Placed
<1>2. ASSUME NEW o \in Orders, ReadNumber(o) PROVE NumberInv'
  <2>1. Placed' = Placed /\ number' = number /\ o \notin Placed
    BY <1>2 DEF ReadNumber, Placed
  <2>2. \A p \in Orders : p # o => draft'[p] = draft[p]
    BY <1>2 DEF ReadNumber, NumberInv, TypeOK
  <2>3. Follows(draft'[o])
    <3>1. CASE draft' = [draft EXCEPT ![o] = 1]
      BY <3>1 DEF Follows, NumberInv, TypeOK
    <3>2. ASSUME NEW p \in Placed, draft' = [draft EXCEPT ![o] = number[p] + 1]
          PROVE  Follows(draft'[o])
      BY <3>2 DEF Follows, NumberInv, TypeOK
    <3> QED
      BY <1>2, <3>1, <3>2 DEF ReadNumber
  <2> QED
    BY <2>1, <2>2, <2>3, DraftKeepsNumberInv
<1>3. ASSUME NEW o \in Orders, Insert(o) PROVE NumberInv'
  <2>1. /\ Placed' = Placed \cup {o}
        /\ o \notin Placed
        /\ Follows(draft[o])
    BY <1>3 DEF Insert, Placed, NumberInv, TypeOK, DraftsFollow
  <2>2. /\ number'[o] = draft[o]
        /\ \A p \in Placed : number'[p] = number[p]
        /\ \A p \in Placed : number[p] # draft[o]
    BY <1>3, <2>1 DEF Insert, Placed, NumberInv, TypeOK, Taken
  <2>3. \A n : Follows(n) => Follows(n)'
    BY <2>1, <2>2 DEF Follows
  <2>4. NumbersHaveNoGap'
    BY <2>1, <2>2, <2>3 DEF NumberInv, NumbersHaveNoGap, Follows
  <2>5. NumbersAreUnique'
    BY <2>1, <2>2 DEF NumberInv, NumbersAreUnique
  <2>6. DraftsFollow'
    <3>1. ASSUME NEW p \in Orders, draft'[p] # 0
          PROVE  (p \notin Placed /\ Follows(draft[p]))'
      <4>1. p # o /\ draft'[p] = draft[p]
        BY <1>3, <3>1 DEF Insert, NumberInv, TypeOK
      <4>2. p \notin Placed /\ Follows(draft[p])
        BY <3>1, <4>1 DEF NumberInv, DraftsFollow
      <4> QED
        BY <2>1, <2>2, <4>1, <4>2 DEF Follows
    <3> QED
      BY <3>1 DEF DraftsFollow
  <2> QED
    BY <2>4, <2>5, <2>6 DEF NumberInv
<1>4. ASSUME NEW o \in Orders, GiveUp(o) PROVE NumberInv'
  BY <1>4, DraftKeepsNumberInv DEF GiveUp, Placed, NumberInv, TypeOK
<1>5. ASSUME NEW r \in Requests, Commit(r) PROVE NumberInv'
  <2>1. req[r] \in Write /\ req[r].order \in Placed /\ req[r].entry.status # "absent"
    BY <1>5 DEF Commit, CommitAs, WritesAreLegal, NumberInv, TypeOK, Write, Entries, Entry,
                OrderStatus
  <2>2. Placed' = Placed
    BY <1>5, <2>1 DEF Commit, CommitAs, Placed, NumberInv, TypeOK
  <2> QED
    BY <1>5, <2>2, DraftKeepsNumberInv DEF Commit, CommitAs
<1>6. ASSUME NEW r \in Requests,
             \/ Abandon(r)
             \/ \E o \in Orders, s \in OrderStatus : StartUpdate(r, o, s)
             \/ \E o \in Orders, actor \in Actors : StartCancel(r, o, actor)
      PROVE NumberInv'
  BY <1>6, DraftKeepsNumberInv DEF Abandon, StartUpdate, StartCancel, Placed
<1> QED
  BY <1>1, <1>2, <1>3, <1>4, <1>5, <1>6 DEF Next
-----------------------------------------------------------------------------
(* What is true of every reachable state, for any number of orders,        *)
(* customers and concurrent requests.                                      *)
LEMMA RowsAndNumbers == Spec => [](RowInv /\ NumberInv)
<1>1. Init => RowInv /\ NumberInv
  <2>1. Init => TypeOK /\ Placed = {}
    BY DEF Init, TypeOK, Placed, Idle
  <2> QED
    BY <2>1 DEF Init, RowInv, NumberInv, HistoryIsLegal, StatusMatchesHistory,
                WritesAreLegal, DraftsFollow, NumbersHaveNoGap, NumbersAreUnique
<1>2. RowInv /\ NumberInv /\ TypeOK' /\ [Next]_vars => (RowInv /\ NumberInv)'
  BY RowInvStep, NumberInvStep DEF RowInv, NumberInv
<1> QED
  BY <1>1, <1>2, TypeCorrect, PTL DEF Spec

(* However many updateStatus and cancel calls race on an order, its        *)
(* history is one legal life that starts with its creation.                *)
THEOREM HistoriesStayLegal == Spec => []HistoryIsLegal
<1>1. RowInv /\ NumberInv => HistoryIsLegal
  BY DEF RowInv
<1> QED
  BY <1>1, RowsAndNumbers, PTL

(* The status column and the history never disagree. *)
THEOREM StatusStaysWithHistory == Spec => []StatusMatchesHistory
<1>1. RowInv /\ NumberInv => StatusMatchesHistory
  BY DEF RowInv
<1> QED
  BY <1>1, RowsAndNumbers, PTL

(* Concurrent create calls number the orders they place 1, 2, 3, ...,      *)
(* without a hole and without a duplicate.                                 *)
THEOREM NumbersStayDense == Spec => [](NumbersHaveNoGap /\ NumbersAreUnique)
<1>1. RowInv /\ NumberInv => NumbersHaveNoGap /\ NumbersAreUnique
  BY DEF NumberInv
<1> QED
  BY <1>1, RowsAndNumbers, PTL
-----------------------------------------------------------------------------
(* What one step of the table, or an administrator's cancellation, does. *)
MayBecome(a, b) == b \in Allowed[a] \/ (b = "cancelled" /\ a # "cancelled")

WritesFit ==
  \A r \in Requests :
    req[r] # Idle => /\ req[r].order \in Placed
                     /\ MayBecome(status[req[r].order], req[r].entry.status)

TurnsInv == sequential => OneAtATime /\ WritesFit

Shown == IF sequential THEN status ELSE [o \in Orders |-> "absent"]

LEMMA SameTable ==
  /\ Machine!OrderStatus = OrderStatus
  /\ Machine!Allowed = Allowed
BY DEF Machine!OrderStatus, OrderStatus, Machine!Allowed, Allowed

(* With one request at a time, no status changes between the check of a    *)
(* request and its write.                                                  *)
LEMMA WritesStayFit ==
  ASSUME TypeOK, TypeOK', DraftsFollow, OneAtATime, WritesFit, Next
  PROVE  WritesFit'
<1>1. ASSUME NEW o \in Orders, ReadNumber(o) \/ GiveUp(o) PROVE WritesFit'
  BY <1>1 DEF ReadNumber, GiveUp, WritesFit, Placed
<1>2. ASSUME NEW o \in Orders, Insert(o) PROVE WritesFit'
  <2>1. o \notin Placed /\ req' = req
    BY <1>2 DEF Insert, DraftsFollow
  <2>2. \A p \in Placed : p \in Placed' /\ status'[p] = status[p]
    BY <1>2, <2>1 DEF Insert, Placed, TypeOK
  <2> QED
    BY <2>1, <2>2 DEF WritesFit
<1>3. ASSUME NEW r \in Requests, NEW o \in Placed, NEW s, NEW actor, Intend(r, o, s, actor),
             status' = status, MayBecome(status[o], s)
      PROVE  WritesFit'
  <2>1. Placed' = Placed
    BY <1>3 DEF Placed
  <2>2. /\ req'[r].order = o
        /\ req'[r].entry.status = s
        /\ \A q \in Requests : q # r => req'[q] = req[q]
    BY <1>3 DEF Intend, TypeOK
  <2> QED
    BY <1>3, <2>1, <2>2 DEF WritesFit
<1>4. ASSUME NEW r \in Requests, NEW o \in Orders, NEW s \in OrderStatus,
             StartUpdate(r, o, s)
      PROVE  WritesFit'
  BY <1>3, <1>4 DEF StartUpdate, MayBecome
<1>5. ASSUME NEW r \in Requests, NEW o \in Orders, NEW actor \in Actors,
             StartCancel(r, o, actor)
      PROVE  WritesFit'
  BY <1>3, <1>5 DEF StartCancel, MayCancel, MayBecome
<1>6. ASSUME NEW r \in Requests, Commit(r) PROVE WritesFit'
  <2>1. \A q \in Requests : req'[q] = Idle
    BY <1>6 DEF Commit, CommitAs, OneAtATime, TypeOK
  <2> QED
    BY <2>1 DEF WritesFit
<1>7. ASSUME NEW r \in Requests, Abandon(r) PROVE WritesFit'
  <2>1. status' = status /\ \A q \in Requests : req'[q] = req[q] \/ req'[q] = Idle
    BY <1>7 DEF Abandon, TypeOK
  <2> QED
    BY <2>1 DEF WritesFit, Placed
<1> QED
  BY <1>1, <1>2, <1>4, <1>5, <1>6, <1>7 DEF Next

(* The status column changes by an insert or by a write that fits, and     *)
(* either is a step of the table.                                          *)
LEMMA StatusTakesATableStep ==
  ASSUME TypeOK, DraftsFollow, WritesFit, Next, sequential = TRUE, sequential' = TRUE
  PROVE  Machine!Next \/ status' = status
<1>1. ASSUME NEW o \in Orders, Insert(o) PROVE Machine!Next
  <2>1. status[o] = "absent" /\ status' = [status EXCEPT ![o] = "pending"]
    BY <1>1 DEF Insert, DraftsFollow, Placed
  <2>2. Machine!Place(o)
    BY <2>1 DEF Machine!Place
  <2> QED
    BY <2>2 DEF Machine!Next
<1>2. ASSUME NEW r \in Requests, Commit(r) PROVE Machine!Next
  <2> DEFINE o == req[r].order
             s == req[r].entry.status
  <2>1. /\ o \in Placed
        /\ MayBecome(status[o], s)
        /\ status' = [status EXCEPT ![o] = s]
    BY <1>2 DEF Commit, CommitAs, WritesFit
  <2>2. o \in Orders /\ status[o] \in OrderStatus
    BY <2>1 DEF Placed, TypeOK
  <2> HIDE DEF o, s
  <2>3. CASE s \in Allowed[status[o]]
    <3>1. Machine!Follow(o)
      BY <2>1, <2>2, <2>3, SameTable DEF Machine!Follow
    <3> QED
      BY <2>2, <3>1 DEF Machine!Next
  <2>4. CASE s = "cancelled" /\ status[o] # "cancelled"
    <3>1. Machine!AdminCancel(o)
      BY <2>1, <2>2, <2>4, SameTable DEF Machine!AdminCancel
    <3> QED
      BY <2>2, <3>1 DEF Machine!Next
  <2> QED
    BY <2>1, <2>3, <2>4 DEF MayBecome
<1>3. ASSUME NEW o \in Orders, ReadNumber(o) \/ GiveUp(o) PROVE status' = status
  BY <1>3 DEF ReadNumber, GiveUp
<1>4. ASSUME NEW r \in Requests,
             \/ Abandon(r)
             \/ \E o \in Orders, s \in OrderStatus : StartUpdate(r, o, s)
             \/ \E o \in Orders, actor \in Actors : StartCancel(r, o, actor)
      PROVE  status' = status
  BY <1>4 DEF Abandon, StartUpdate, StartCancel
<1> QED
  BY <1>1, <1>2, <1>3, <1>4 DEF Next

LEMMA TurnsAreRows == TurnsSpec => Spec
<1>1. TurnsInit => Init
  BY DEF TurnsInit
<1>2. [TurnsNext]_all => [Next]_vars
  BY DEF TurnsNext, all, vars
<1> QED
  BY <1>1, <1>2, PTL DEF TurnsSpec, Spec

(* As long as the requests that change a status take turns, every status   *)
(* change is one step of the table of validateStatusTransition, or an      *)
(* administrator's cancellation: what updateStatus and cancel have checked *)
(* still holds when they write.                                            *)
THEOREM StatusesFollowTheTable == TurnsSpec => FollowsTheTable
<1> DEFINE Typed == TypeOK /\ DraftsFollow
<1>1. TurnsSpec => []Typed
  <2>1. RowInv /\ NumberInv => Typed
    BY DEF NumberInv
  <2> QED
    BY <2>1, TurnsAreRows, RowsAndNumbers, PTL
<1>2. TurnsInit => sequential \in BOOLEAN /\ TurnsInv
  BY DEF TurnsInit, Init, TurnsInv, OneAtATime, WritesFit
<1>3. ASSUME sequential \in BOOLEAN, TurnsInv, Typed, Typed', [TurnsNext]_all
      PROVE  (sequential \in BOOLEAN /\ TurnsInv)'
  <2>1. sequential' = sequential
    BY <1>3 DEF TurnsNext, all
  <2>2. CASE sequential /\ TurnsNext
    <3>1. OneAtATime' /\ WritesFit'
      BY <1>3, <2>2, WritesStayFit DEF TurnsInv, TurnsNext
    <3> QED
      BY <1>3, <2>1, <3>1 DEF TurnsInv
  <2>3. CASE UNCHANGED all
    BY <1>3, <2>3 DEF all, TurnsInv, OneAtATime, WritesFit, Placed
  <2>4. CASE ~ sequential
    BY <1>3, <2>1, <2>4 DEF TurnsInv
  <2> QED
    BY <1>3, <2>2, <2>3, <2>4
<1>4. TurnsSpec => [](sequential \in BOOLEAN /\ TurnsInv)
  BY <1>1, <1>2, <1>3, PTL DEF TurnsSpec
<1>5. TurnsInit => Machine!Init
  BY DEF TurnsInit, Init, Machine!Init
<1>6. ASSUME sequential \in BOOLEAN, TurnsInv, Typed, [TurnsNext]_all
      PROVE  Machine!Next \/ Shown' = Shown
  <2>1. sequential' = sequential
    BY <1>6 DEF TurnsNext, all
  <2>2. CASE sequential = TRUE /\ TurnsNext
    <3>1. Machine!Next \/ status' = status
      BY <1>6, <2>1, <2>2, StatusTakesATableStep DEF TurnsInv, TurnsNext
    <3> QED
      BY <2>1, <2>2, <3>1 DEF Shown
  <2>3. CASE UNCHANGED all
    BY <2>3 DEF all, Shown
  <2>4. CASE sequential = FALSE
    BY <2>1, <2>4 DEF Shown
  <2> QED
    BY <1>6, <2>2, <2>3, <2>4
<1>7. ASSUME sequential \in BOOLEAN, TurnsInv, Typed, [TurnsNext]_all
      PROVE  [Machine!Next]_(IF sequential THEN status ELSE [o \in Orders |-> "absent"])
  BY <1>6, <1>7 DEF Shown
<1> HIDE DEF Typed
<1> QED
  BY <1>1, <1>4, <1>5, <1>7, PTL DEF TurnsSpec, FollowsTheTable, Machine!Spec
=============================================================================
