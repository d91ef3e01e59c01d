--------------------------- MODULE OrderLifecycle ---------------------------
(***************************************************************************)
(* The row of an order as OrdersService writes it: its number, its status  *)
(* and its history.                                                        *)
(*                                                                         *)
(* Every HTTP request is a process of its own that the event loop may      *)
(* switch away from at each await.  create reads the last order number in  *)
(* one query and inserts the row in another; updateStatus and cancel read  *)
(* the row (findById), check it, and later write the status together with  *)
(* the history they have READ plus one entry.  Nothing is re-read and no   *)
(* transaction spans the two, so a request may write over what another has *)
(* written in between.                                                     *)
(*                                                                         *)
(* The processes are requests (status changes) and orders (an order stands *)
(* for the create calls that may become that order).                       *)
(***************************************************************************)
EXTENDS OrderStates

CONSTANTS Orders,      \* the orders that may be placed
          Requests,    \* concurrent updateStatus and cancel calls
          Customers,   \* the users with role CUSTOMER
          Admin,       \* a user with role ADMIN
          Owner        \* [Orders -> Customers]: orders.userId

ASSUME OwnerAssumption == Owner \in [Orders -> Customers]

VARIABLES
  status,    \* [Orders -> OrderStatus], "absent" before the row exists
  history,   \* [Orders -> Seq(Entry)]
  number,    \* [Orders -> Nat]: the sequence part of orderNumber, 0 if none
  draft,     \* [Orders -> Nat]: the number create has computed, 0 if none
  req        \* [Requests -> a write to come, or Idle]

vars == <<status, history, number, draft, req>>

Actors  == Customers \cup {Admin}
Entries == Entry(Actors)

Idle == [kind |-> "idle"]

Write == [kind : {"write"}, order : Orders, entry : Entries, seen : Seq(Entries)]

Placed == {o \in Orders : status[o] # "absent"}

TypeOK ==
  /\ status \in [Orders -> OrderStatus \cup {"absent"}]
  /\ history \in [Orders -> Seq(Entries)]
  /\ number \in [Orders -> Nat]
  /\ draft \in [Orders -> Nat]
  /\ req \in [Requests -> Write \cup {Idle}]

Init ==
  /\ status = [o \in Orders |-> "absent"]
  /\ history = [o \in Orders |-> <<>>]
  /\ number = [o \in Orders |-> 0]
  /\ draft = [o \in Orders |-> 0]
  /\ req = [r \in Requests |-> Idle]
-----------------------------------------------------------------------------
(* Mutation: the next number is taken past the numbers of pending inserts. *)
ReadNumberPastDrafts(o) ==
  /\ o \notin Placed
  /\ draft[o] = 0
  /\ \E n \in {number[p] : p \in Orders} \cup {draft[p] : p \in Orders} :
       /\ \A p \in Orders : number[p] <= n /\ draft[p] <= n
       /\ draft' = [draft EXCEPT ![o] = n + 1]
  /\ UNCHANGED <<status, history, number, req>>

(* generateOrderNumber: one more than the greatest number stored, 1 when   *)
(* there is none.  Numbers have at most six digits here, so the order of   *)
(* the strings getLastOrderNumber sorts by is the order of the numbers.    *)
ReadNumber(o) ==
  /\ o \notin Placed
  /\ draft[o] = 0
  /\ \/ /\ Placed = {}
        /\ draft' = [draft EXCEPT ![o] = 1]
     \/ \E p \in Placed :
          /\ \A q \in Placed : number[q] <= number[p]
          /\ draft' = [draft EXCEPT ![o] = number[p] + 1]
  /\ UNCHANGED <<status, history, number, req>>

Taken(n) == \E p \in Placed : number[p] = n

(* ordersRepository.create: the unique index on orderNumber lets the row   *)
(* in only when nobody has taken the number since it was computed.         *)
Insert(o) ==
  /\ draft[o] # 0
  /\ ~ Taken(draft[o])
  /\ status' = [status EXCEPT ![o] = "pending"]
  /\ history' = [history EXCEPT ![o] = <<Created>>]
  /\ number' = [number EXCEPT ![o] = draft[o]]
  /\ draft' = [draft EXCEPT ![o] = 0]
  /\ UNCHANGED req

(* The create call ends without a row: the insert met the unique index, or *)
(* the database or the process failed.  The customer may try again.        *)
GiveUp(o) ==
  /\ draft[o] # 0
  /\ draft' = [draft EXCEPT ![o] = 0]
  /\ UNCHANGED <<status, history, number, req>>
-----------------------------------------------------------------------------
Intend(r, o, s, actor) ==
  req' = [req EXCEPT ![r] = [kind |-> "write", order |-> o,
                             entry |-> [status |-> s, by |-> actor],
                             seen |-> history[o]]]

(* Mutation: updateStatus without validateStatusTransition. *)
StartUpdateUnchecked(r, o, s) ==
  /\ req[r] = Idle
  /\ o \in Placed
  /\ Intend(r, o, s, Admin)
  /\ UNCHANGED <<status, history, number, draft>>

(* updateStatus up to its UPDATE: findById, validateStatusTransition and   *)
(* the new entry.  The route is for administrators only.                   *)
StartUpdate(r, o, s) ==
  /\ req[r] = Idle
  /\ o \in Placed
  /\ s \in Allowed[status[o]]
  /\ Intend(r, o, s, Admin)
  /\ UNCHANGED <<status, history, number, draft>>

MayCancel(actor, o) ==
  /\ status[o] # "cancelled"
  /\ actor # Admin => /\ actor = Owner[o]
                      /\ status[o] \in CustomerCancellable

(* cancel up to its UPDATE. *)
StartCancel(r, o, actor) ==
  /\ req[r] = Idle
  /\ o \in Placed
  /\ MayCancel(actor, o)
  /\ Intend(r, o, "cancelled", actor)
  /\ UNCHANGED <<status, history, number, draft>>

CommitAs(r, s, h) ==
  /\ req[r] # Idle
  /\ status' = [status EXCEPT ![req[r].order] = s]
  /\ history' = [history EXCEPT ![req[r].order] = h]
  /\ req' = [req EXCEPT ![r] = Idle]
  /\ UNCHANGED <<number, draft>>

(* Mutation: the entry is appended to the history as it is by now. *)
CommitRereads(r) ==
  CommitAs(r, req[r].entry.status, Append(history[req[r].order], req[r].entry))

(* Mutation: a cancelled status is protected, its history is not. *)
CommitSparesCancelled(r) ==
  LET o == req[r].order IN
    CommitAs(r, IF status[o] = "cancelled" THEN "cancelled" ELSE req[r].entry.status,
                Append(req[r].seen, req[r].entry))

(* The UPDATE of updateStatus and of cancel: both columns in one statement. *)
Commit(r) == CommitAs(r, req[r].entry.status, Append(req[r].seen, req[r].entry))

(* The request ends before its UPDATE: a database error or a restart. *)
Abandon(r) ==
  /\ req[r] # Idle
  /\ req' = [req EXCEPT ![r] = Idle]
  /\ UNCHANGED <<status, history, number, draft>>

Next ==
  \/ \E o \in Orders : ReadNumber(o) \/ Insert(o) \/ GiveUp(o)
  \/ \E r \in Requests :
       \/ \E o \in Orders, s \in OrderStatus : StartUpdate(r, o, s)
       \/ \E o \in Orders, actor \in Actors : StartCancel(r, o, actor)
       \/ Commit(r)
       \/ Abandon(r)

Spec == Init /\ [][Next]_vars
-----------------------------------------------------------------------------
LegalStep(o, a, b) ==
  \/ b.by = Admin /\ b.status \in Allowed[a.status]
  \/ b.by = Admin /\ b.status = "cancelled" /\ a.status # "cancelled"
  \/ b.by = Owner[o] /\ b.status = "cancelled" /\ a.status \in CustomerCancellable

LegalHistory(o, h) ==
  /\ h # <<>>
  /\ h[1] = Created
  /\ \A i \in 1 .. Len(h) - 1 : LegalStep(o, h[i], h[i + 1])

(* However requests interleave, the history of an order reads as one legal *)
(* life: it begins with its creation, each entry follows from the one      *)
(* before it by the table or by a cancellation, and a customer's entry is  *)
(* a cancellation of an own order that was pending or confirmed.  Lost     *)
(* updates may remove entries but may not splice two lives together        *)
(* (updateStatus and cancel, which build the history from the row they     *)
(* have read).                                                             *)
HistoryIsLegal == \A o \in Placed : LegalHistory(o, history[o])

(* The status column is the status of the last history entry: the two are  *)
(* written by one statement from one reading of the row, so two requests   *)
(* that race cannot leave the status of one and the history of the other.  *)
StatusMatchesHistory == \A o \in Placed : LastOf(history[o]).status = status[o]

(* Order numbers are 1, 2, ... without a hole: a number is given up with   *)
(* the create call that computed it, never skipped, although several calls *)
(* compute the same number at once and all but one of them fail            *)
(* (generateOrderNumber and the unique index on orderNumber).              *)
NumbersHaveNoGap ==
  \A o \in Placed : number[o] = 1 \/ \E p \in Placed : number[p] + 1 = number[o]

(* A cancelled order stays cancelled: the table's row CANCELLED: [] of     *)
(* validateStatusTransition.                                               *)
CancelledIsFinal ==
  [][\A o \in Orders : status[o] = "cancelled" => status'[o] = "cancelled"]_vars
=============================================================================
