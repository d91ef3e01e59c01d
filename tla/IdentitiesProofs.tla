-------------------------- MODULE IdentitiesProofs --------------------------
(***************************************************************************)
(* Proofs about the accounts of providers that are linked to users, for    *)
(* any number of users, accounts and requests.                             *)
(*                                                                         *)
(* unlinkIdentity deletes by the id it has read.  What makes this safe is  *)
(* that an id stands for one user for ever, also when a login inserts the  *)
(* row again: only an unlink of the same user can take away the other link *)
(* that was seen.                                                          *)
(***************************************************************************)
EXTENDS Identities, TLAPS

Addresses == Emails \cup Profiles \cup {EmailOf[p] : p \in Profiles} \cup {NoEmail}
Account   == [email : Addresses, password : BOOLEAN]
Identity  == [owner : Users \cup {Nobody}, id : Nat]
Places    == {"idle", "byEmail", "create", "find", "link", "touch", "save", "user", "others", "delete"}
Call      == [pc : Places, user : Users \cup {Nobody}, profile : Profiles \cup {"none"}, id : Nat]

Typed ==
  /\ account \in [Users -> Account] /\ identity \in [Profiles -> Identity] /\ lastId \in Nat
  /\ call \in [Calls -> Call]

(* What a request knows where it stands. *)
Known ==
  /\ \A u \in Users : Exists(u) => u \in born
  /\ \A p \in Profiles : Linked(p) => identity[p].id # 0 /\ identity[p].owner \in Users
  /\ \A r \in Calls :
       /\ call[r].pc \in {"byEmail", "create"} => call[r].profile \in Profiles
       /\ call[r].pc \in {"find", "link", "touch", "save", "user", "others", "delete"} =>
            call[r].profile \in Profiles /\ call[r].user \in Users
       /\ call[r].pc \in {"touch", "save", "user", "others", "delete"} => call[r].id # 0

(* Whom an id stands for: in a row, or as a request has read it. *)
Stands(id, u) ==
  id # 0 /\ \/ \E p \in Profiles : identity[p].id = id /\ identity[p].owner = u
            \/ \E r \in Calls : call[r].id = id /\ call[r].user = u

IdsStandForOne ==
  /\ \A id, u, v : Stands(id, u) /\ Stands(id, v) => u = v
  /\ \A id, u : Stands(id, u) => id <= lastId /\ u \in born

(* Unlinks of one user do not overlap, and one that will delete has seen a *)
(* password or another link.                                               *)
UnlinksAreAlone ==
  \A q, r \in Calls : Unlinking(q) /\ Unlinking(r) /\ call[q].user = call[r].user => q = r

SomethingIsLeft(r) ==
  Exists(call[r].user) =>
    account[call[r].user].password \/ \E p \in Of(call[r].user) : identity[p].id # call[r].id

UnlinksSpareOne == \A r \in Calls : At(r, "delete") => SomethingIsLeft(r)

LogInInv == crossed \/ (UnlinksAreAlone /\ UnlinksSpareOne /\ EverybodyCanLogIn)

RowInv == Typed /\ Known /\ IdsStandForOne

StepOf(r) ==
  \/ ByEmail(r) \/ FindLink(r) \/ Link(r) \/ Touch(r) \/ Save(r)
  \/ UnlinkUser(r) \/ UnlinkOthers(r) \/ Unlink(r)
  \/ \E u \in Users : Create(r, u)
  \/ \E p \in Profiles : \/ Login(r, p) \/ StartUnlink(r, p)
                         \/ \E u \in Users : StartLink(r, u, p)

Moves(r) == \E c \in Call : call' = [call EXCEPT ![r] = c]

StepOn(u) == SetPassword(u) \/ Delete(u) \/ \E e \in Emails : Register(u, e) \/ ChangeEmail(u, e)
-----------------------------------------------------------------------------
(* Where a request goes, and that it goes alone. *)
LEMMA RequestsMoveAlone ==
  ASSUME Typed, Known, NEW r \in Calls, StepOf(r)
  PROVE  Moves(r)
<1>1. /\ call[r] \in Call /\ call[r].user \in Users \cup {Nobody}
      /\ call[r].profile \in Profiles \cup {"none"} /\ call[r].id \in Nat
      /\ \A p \in Profiles : identity[p].owner \in Users \cup {Nobody} /\ identity[p].id \in Nat
  BY DEF Typed, Identity, Call
<1>2. \A pc \in Places, u \in Users \cup {Nobody}, p \in Profiles \cup {"none"}, id \in Nat :
        [pc |-> pc, user |-> u, profile |-> p, id |-> id] \in Call
  BY DEF Call
<1>3. Done(r) => Moves(r)
  <2>1. Idle \in Call
    BY <1>2 DEF Idle, Places
  <2> QED
    BY <2>1 DEF Done, Moves
<1>4. ASSUME NEW pc \in Places, Goto(r, pc) PROVE Moves(r)
  <2>1. [call[r] EXCEPT !.pc = pc] \in Call
    BY <1>1 DEF Call
  <2>2. call' = [call EXCEPT ![r] = [call[r] EXCEPT !.pc = pc]]
    BY <1>4 DEF Goto
  <2> QED
    BY <2>1, <2>2 DEF Moves
<1>5. CASE ByEmail(r)
  <2>1. \/ Goto(r, "create") \/ Done(r)
        \/ \E u \in Users : Go(r, "link", u, call[r].profile, 0)
    BY <1>5 DEF ByEmail, WithEmail
  <2> QED
    BY <1>1, <1>2, <1>3, <1>4, <2>1 DEF Go, Moves, Places
<1>6. CASE FindLink(r)
  <2>1. call[r].profile \in Profiles
    BY <1>6 DEF FindLink, At, Known
  <2>2. \/ Goto(r, "link") \/ Done(r)
        \/ Go(r, "touch", call[r].user, call[r].profile, identity[call[r].profile].id)
    BY <1>6 DEF FindLink
  <2> QED
    BY <1>1, <1>2, <1>3, <1>4, <2>1, <2>2 DEF Go, Moves, Places
<1>7. CASE Link(r) \/ Save(r) \/ Unlink(r)
  BY <1>3, <1>7 DEF Link, Save, Unlink
<1>8. CASE Touch(r) \/ UnlinkUser(r) \/ UnlinkOthers(r)
  <2>1. Done(r) \/ Goto(r, "save") \/ Goto(r, "delete") \/ Goto(r, "others")
    BY <1>8 DEF Touch, UnlinkUser, UnlinkOthers
  <2> QED
    BY <1>3, <1>4, <2>1 DEF Places
<1>9. ASSUME NEW u \in Users, Create(r, u) PROVE Moves(r)
  BY <1>3, <1>9 DEF Create
<1>10. ASSUME NEW p \in Profiles, Login(r, p) PROVE Moves(r)
  <2>1. \/ Go(r, "touch", identity[p].owner, p, identity[p].id)
        \/ Go(r, "create", Nobody, p, 0) \/ Go(r, "byEmail", Nobody, p, 0)
    BY <1>10 DEF Login
  <2> QED
    BY <1>1, <1>2, <2>1 DEF Go, Moves, Places
<1>11. ASSUME NEW p \in Profiles, StartUnlink(r, p) PROVE Moves(r)
  BY <1>1, <1>2, <1>11 DEF Go, Moves, Places, StartUnlink
<1>12. ASSUME NEW p \in Profiles, NEW u \in Users, StartLink(r, u, p) PROVE Moves(r)
  BY <1>1, <1>2, <1>12 DEF Go, Moves, Places, StartLink
<1> QED
  BY <1>5, <1>6, <1>7, <1>8, <1>9, <1>10, <1>11, <1>12 DEF StepOf
-----------------------------------------------------------------------------
(* What a request knows after its step, before what is in the tables. *)
KnowsNext(r) ==
  /\ call'[r].pc \in {"byEmail", "create"} => call'[r].profile \in Profiles
  /\ call'[r].pc \in {"find", "link", "touch", "save", "user", "others", "delete"} =>
       call'[r].profile \in Profiles /\ call'[r].user \in Users
  /\ call'[r].pc \in {"touch", "save", "user", "others", "delete"} => call'[r].id # 0
  /\ call'[r].id # 0 =>
       \/ call'[r].id = call[r].id /\ call'[r].user = call[r].user
       \/ \E p \in Profiles : call'[r].id = identity[p].id /\ call'[r].user = identity[p].owner
  /\ crossed => crossed'
  /\ Unlinking(r)' =>
       \/ Unlinking(r) /\ call'[r].user = call[r].user
       \/ ~ crossed' => \A q \in Calls : Unlinking(q) => call[q].user # call'[r].user
  /\ call'[r].pc = "delete" =>
       /\ UNCHANGED <<account, identity>>
       /\ \/ account[call'[r].user].password
          \/ \E p \in Of(call'[r].user) : identity[p].id # call'[r].id

LEMMA RequestsKnow ==
  ASSUME Typed, Known, NEW r \in Calls, StepOf(r)
  PROVE  KnowsNext(r)
<1> USE DEF KnowsNext, Unlinking, At, Still
<1>1. /\ call[r] \in Call
      /\ \A c : call' = [call EXCEPT ![r] = c] => call'[r] = c
  BY DEF Typed
<1>2. Done(r) /\ (crossed => crossed') => KnowsNext(r)
  <2>1. Done(r) => call'[r] = Idle
    BY <1>1 DEF Done
  <2>2. Idle.pc = "idle" /\ Idle.id = 0
    BY DEF Idle
  <2> QED
    BY <2>1, <2>2
<1>3. ASSUME NEW pc \in Places, Goto(r, pc)
      PROVE  /\ call'[r].pc = pc /\ call'[r].user = call[r].user
             /\ call'[r].profile = call[r].profile /\ call'[r].id = call[r].id
  <2>1. call' = [call EXCEPT ![r] = [call[r] EXCEPT !.pc = pc]]
    BY <1>3 DEF Goto
  <2>2. call'[r] = [call[r] EXCEPT !.pc = pc]
    BY <1>1, <2>1
  <2> QED
    BY <1>1, <2>2 DEF Call
<1>4. CASE ByEmail(r)
  <2>1. UNCHANGED <<account, identity, crossed>> /\ call[r].profile \in Profiles
    BY <1>4 DEF ByEmail, Known
  <2>2. \/ Goto(r, "create") \/ Done(r)
        \/ \E u \in Users : Go(r, "link", u, call[r].profile, 0)
    BY <1>4 DEF ByEmail, WithEmail
  <2>3. CASE \E u \in Users : Go(r, "link", u, call[r].profile, 0)
    <3>1. \E u \in Users : call'[r] = [pc |-> "link", user |-> u, profile |-> call[r].profile, id |-> 0]
      BY <1>1, <2>3 DEF Go
    <3> QED
      BY <2>1, <3>1
  <2>4. CASE Goto(r, "create")
    BY <1>3, <2>1, <2>4 DEF Places
  <2> QED
    BY <1>2, <2>1, <2>2, <2>3, <2>4
<1>5. CASE FindLink(r)
  <2>1. /\ UNCHANGED <<account, identity, crossed>> /\ call[r].profile \in Profiles
        /\ call[r].user \in Users
    BY <1>5 DEF FindLink, Known
  <2>2. \/ Goto(r, "link") \/ Done(r)
        \/ /\ Go(r, "touch", call[r].user, call[r].profile, identity[call[r].profile].id)
           /\ Linked(call[r].profile) /\ identity[call[r].profile].owner = call[r].user
    BY <1>5 DEF FindLink
  <2>3. CASE Goto(r, "link")
    BY <1>3, <2>1, <2>3 DEF Places
  <2>4. CASE /\ Go(r, "touch", call[r].user, call[r].profile, identity[call[r].profile].id)
             /\ Linked(call[r].profile) /\ identity[call[r].profile].owner = call[r].user
    <3>1. call'[r] = [pc |-> "touch", user |-> call[r].user, profile |-> call[r].profile,
                      id |-> identity[call[r].profile].id]
      BY <1>1, <2>4 DEF Go
    <3> QED
      BY <2>1, <2>4, <3>1 DEF Known
  <2> QED
    BY <1>2, <2>1, <2>2, <2>3, <2>4
<1>6. CASE Link(r) \/ Save(r) \/ Unlink(r)
  BY <1>2, <1>6 DEF Link, Save, Unlink
<1>7. CASE Touch(r)
  BY <1>2, <1>3, <1>7 DEF Touch, Known, Places
<1>8. CASE UnlinkUser(r)
  BY <1>2, <1>3, <1>8 DEF UnlinkUser, Known, Places
<1>9. CASE UnlinkOthers(r)
  BY <1>2, <1>3, <1>9 DEF UnlinkOthers, Others, Known, Places
<1>10. ASSUME NEW u \in Users, Create(r, u) PROVE KnowsNext(r)
  BY <1>2, <1>10 DEF Create
<1>11. ASSUME NEW p \in Profiles, Login(r, p) PROVE KnowsNext(r)
  <2>1. crossed' = crossed /\ UNCHANGED <<account, identity>>
    BY <1>11 DEF Login
  <2>2. CASE Linked(p)
    <3>1. call'[r] = [pc |-> "touch", user |-> identity[p].owner, profile |-> p, id |-> identity[p].id]
      BY <1>1, <1>11, <2>2 DEF Login, Go
    <3> QED
      BY <2>1, <2>2, <3>1 DEF Known
  <2>3. CASE ~ Linked(p)
    <3>1. \E pc \in {"create", "byEmail"} :
            call'[r] = [pc |-> pc, user |-> Nobody, profile |-> p, id |-> 0]
      BY <1>1, <1>11, <2>3 DEF Login, Go
    <3> QED
      BY <2>1, <3>1
  <2> QED
    BY <2>2, <2>3
<1>12. ASSUME NEW p \in Profiles, StartUnlink(r, p) PROVE KnowsNext(r)
  <2>1. call'[r] = [pc |-> "user", user |-> identity[p].owner, profile |-> p, id |-> identity[p].id]
    BY <1>1, <1>12 DEF StartUnlink, Go
  <2>2. identity[p].owner \in Users /\ identity[p].id # 0
    BY <1>12 DEF StartUnlink, Known
  <2>3. ~ crossed' => ~ crossed /\ \A q \in Calls : Unlinking(q) => call[q].user # identity[p].owner
    BY <1>12 DEF StartUnlink
  <2> QED
    BY <2>1, <2>2, <2>3
<1>13. ASSUME NEW p \in Profiles, NEW u \in Users, StartLink(r, u, p) PROVE KnowsNext(r)
  BY <1>1, <1>13 DEF StartLink, Go
<1> QED
  BY <1>4, <1>5, <1>6, <1>7, <1>8, <1>9, <1>10, <1>11, <1>12, <1>13 DEF StepOf
-----------------------------------------------------------------------------
(* What a step does to the tables: a link comes only where there is none,  *)
(* with a new id, or with the id and the user of a request.                *)
TablesStep(w) ==
  /\ account' \in [Users -> Account] /\ identity' \in [Profiles -> Identity] /\ lastId' \in Nat
  /\ lastId <= lastId' /\ born \subseteq born'
  /\ \A u \in Users : Exists(u)' => u \in born'
  /\ w \in born' \/ lastId' = lastId
  /\ \A p \in Profiles :
       \/ identity'[p] = identity[p]
       \/ identity'[p] = NoRow
       \/ /\ ~ Linked(p) /\ identity'[p].owner \in Users /\ identity'[p].id # 0
          /\ \/ lastId' = lastId + 1 /\ identity'[p].id = lastId' /\ identity'[p].owner = w
             \/ \E r \in Calls : identity'[p].id = call[r].id /\ identity'[p].owner = call[r].user

LEMMA TablesAreKept ==
  ASSUME Typed, Known,
         \/ \E r \in Calls : StepOf(r)
         \/ \E u \in Users : StepOn(u)
         \/ UNCHANGED vars
  PROVE  \E w : TablesStep(w)
<1> USE DEF TablesStep
<1>1. /\ lastId \in Nat /\ lastId <= lastId /\ NoRow \in Identity
      /\ account \in [Users -> Account] /\ identity \in [Profiles -> Identity]
      /\ \A r \in Calls : call[r].user \in Users \cup {Nobody} /\ call[r].id \in Nat
  BY DEF Typed, NoRow, Identity, Call
<1>2. UNCHANGED <<account, identity, born, lastId>> => TablesStep(Nobody)
  BY <1>1 DEF Known, Exists
<1>3. ASSUME NEW r \in Calls, NEW u \in Users, Create(r, u) PROVE TablesStep(u)
  <2>1. CASE UNCHANGED <<account, identity, born, lastId>>
    BY <1>1, <2>1 DEF Known, Exists
  <2>2. CASE ~ UNCHANGED <<account, identity, born, lastId>>
    <3> DEFINE p == call[r].profile
    <3>1. p \in Profiles
      BY <1>3 DEF Create, At, Known
    <3>2. /\ lastId' = lastId + 1 /\ born' = born \cup {u} /\ ~ Linked(p)
          /\ account' = [account EXCEPT ![u] = [email |-> Address(p), password |-> FALSE]]
          /\ identity' = [identity EXCEPT ![p] = [owner |-> u, id |-> lastId + 1]]
      BY <1>3, <2>2 DEF Create
    <3>3. [email |-> Address(p), password |-> FALSE] \in Account
      BY <3>1 DEF Account, Addresses, Address
    <3>4. [owner |-> u, id |-> lastId + 1] \in Identity
      BY <1>1 DEF Identity
    <3>5. account' \in [Users -> Account] /\ identity' \in [Profiles -> Identity]
      BY <1>1, <3>2, <3>3, <3>4
    <3>6. \A v \in Users : Exists(v)' => v \in born'
      BY <1>1, <3>2 DEF Known, Exists
    <3>7. \A q \in Profiles : q # p => identity'[q] = identity[q]
      BY <1>1, <3>2
    <3>8. identity'[p] = [owner |-> u, id |-> lastId + 1]
      BY <1>1, <3>1, <3>2
    <3> HIDE DEF p
    <3> QED
      BY <1>1, <3>2, <3>5, <3>6, <3>7, <3>8
  <2> QED
    BY <2>1, <2>2
<1>4. ASSUME NEW r \in Calls, Link(r) PROVE TablesStep(call[r].user)
  <2>1. CASE UNCHANGED <<account, identity, born, lastId>>
    BY <1>1, <2>1 DEF Known, Exists
  <2>2. CASE ~ UNCHANGED <<account, identity, born, lastId>>
    <3> DEFINE p == call[r].profile
               u == call[r].user
    <3>1. p \in Profiles /\ u \in Users
      BY <1>4 DEF Link, At, Known
    <3>2. /\ lastId' = lastId + 1 /\ UNCHANGED <<account, born>> /\ ~ Linked(p) /\ Exists(u)
          /\ identity' = [identity EXCEPT ![p] = [owner |-> u, id |-> lastId + 1]]
      BY <1>4, <2>2 DEF Link
    <3>3. u \in born /\ \A v \in Users : Exists(v)' => v \in born'
      BY <3>1, <3>2 DEF Known, Exists
    <3>4. [owner |-> u, id |-> lastId + 1] \in Identity
      BY <1>1, <3>1 DEF Identity
    <3>5. identity' \in [Profiles -> Identity]
      BY <1>1, <3>2, <3>4
    <3>7. \A q \in Profiles : q # p => identity'[q] = identity[q]
      BY <1>1, <3>2
    <3>8. identity'[p] = [owner |-> u, id |-> lastId + 1]
      BY <1>1, <3>1, <3>2
    <3> HIDE DEF p, u
    <3> QED
      BY <1>1, <3>1, <3>2, <3>3, <3>5, <3>7, <3>8 DEF u
  <2> QED
    BY <2>1, <2>2
<1>5. ASSUME NEW r \in Calls, Save(r) PROVE TablesStep(Nobody)
  <2>1. CASE UNCHANGED <<account, identity, born, lastId>>
    BY <1>2, <2>1
  <2>2. CASE ~ UNCHANGED <<account, identity, born, lastId>>
    <3> DEFINE p == call[r].profile
    <3>1. p \in Profiles /\ call[r].user \in Users /\ call[r].id # 0
      BY <1>5 DEF Save, At, Known
    <3>2. /\ UNCHANGED <<account, born, lastId>> /\ ~ Linked(p)
          /\ identity' = [identity EXCEPT ![p] = [owner |-> call[r].user, id |-> call[r].id]]
      BY <1>5, <2>2 DEF Save
    <3>3. \A v \in Users : Exists(v)' => v \in born'
      BY <3>2 DEF Known, Exists
    <3>4. [owner |-> call[r].user, id |-> call[r].id] \in Identity
      BY <1>1, <3>1 DEF Identity
    <3>5. identity' \in [Profiles -> Identity]
      BY <1>1, <3>2, <3>4
    <3>7. \A q \in Profiles : q # p => identity'[q] = identity[q]
      BY <1>1, <3>2
    <3>8. identity'[p] = [owner |-> call[r].user, id |-> call[r].id]
      BY <1>1, <3>1, <3>2
    <3> HIDE DEF p
    <3> QED
      BY <1>1, <3>1, <3>2, <3>3, <3>5, <3>7, <3>8
  <2> QED
    BY <2>1, <2>2
<1>6. ASSUME NEW r \in Calls, Unlink(r) PROVE TablesStep(Nobody)
  <2>1. UNCHANGED <<account, born, lastId>> /\ identity' \in [Profiles -> Identity]
    BY <1>1, <1>6 DEF Unlink
  <2>2. \A p \in Profiles : identity'[p] \in {identity[p], NoRow}
    BY <1>1, <1>6 DEF Unlink
  <2>3. \A v \in Users : Exists(v)' => v \in born'
    BY <2>1 DEF Known, Exists
  <2> QED
    BY <1>1, <2>1, <2>2, <2>3
<1>7. ASSUME NEW u \in Users, Delete(u) PROVE TablesStep(Nobody)
  <2>1. NoAccount \in Account
    BY DEF NoAccount, Account, Addresses
  <2>2. UNCHANGED <<born, lastId>> /\ account' = [account EXCEPT ![u] = NoAccount]
    BY <1>7 DEF Delete
  <2>3. /\ identity' = [p \in Profiles |-> IF identity[p].owner = u THEN NoRow ELSE identity[p]]
        /\ account' \in [Users -> Account]
    BY <1>1, <1>7, <2>1, <2>2 DEF Delete
  <2>4. identity' \in [Profiles -> Identity]
    BY <1>1, <2>3
  <2>5. \A p \in Profiles : identity'[p] \in {identity[p], NoRow}
    BY <1>1, <2>3
  <2>6. \A v \in Users : Exists(v)' => v \in born'
    BY <1>1, <2>2 DEF Known, Exists
  <2> QED
    BY <1>1, <2>2, <2>3, <2>4, <2>5, <2>6
<1>8. ASSUME NEW u \in Users, SetPassword(u) PROVE TablesStep(Nobody)
  <2>1. account' = [account EXCEPT ![u] = [account[u] EXCEPT !.password = TRUE]] /\ Exists(u)
    BY <1>8 DEF SetPassword
  <2>2. [account[u] EXCEPT !.password = TRUE] \in Account
    BY <1>1 DEF Account
  <2>3. account' \in [Users -> Account]
    BY <1>1, <2>1, <2>2
  <2>4. UNCHANGED <<identity, born, lastId>>
    BY <1>8 DEF SetPassword
  <2>5. \A v \in Users : Exists(v)' => v \in born'
    BY <1>1, <2>1, <2>4 DEF Known, Exists
  <2> QED
    BY <1>1, <2>3, <2>4, <2>5
<1>9. ASSUME NEW u \in Users, NEW e \in Emails, Register(u, e) PROVE TablesStep(Nobody)
  <2>1. [email |-> e, password |-> TRUE] \in Account
    BY DEF Account, Addresses
  <2>2. /\ account' = [account EXCEPT ![u] = [email |-> e, password |-> TRUE]]
        /\ born' = born \cup {u} /\ UNCHANGED <<identity, lastId>>
    BY <1>9 DEF Register
  <2>3. account' \in [Users -> Account]
    BY <1>1, <2>1, <2>2
  <2>4. \A v \in Users : Exists(v)' => v \in born'
    BY <1>1, <2>2 DEF Known, Exists
  <2> QED
    BY <1>1, <2>2, <2>3, <2>4
<1>13. ASSUME NEW u \in Users, NEW e \in Emails, ChangeEmail(u, e) PROVE TablesStep(Nobody)
  <2>1. account' = [account EXCEPT ![u] = [account[u] EXCEPT !.email = e]] /\ Exists(u)
    BY <1>13 DEF ChangeEmail
  <2>2. [account[u] EXCEPT !.email = e] \in Account
    BY <1>1 DEF Account, Addresses
  <2>3. account' \in [Users -> Account]
    BY <1>1, <2>1, <2>2
  <2>4. UNCHANGED <<identity, born, lastId>>
    BY <1>13 DEF ChangeEmail
  <2>5. \A v \in Users : Exists(v)' => v \in born'
    BY <1>1, <2>1, <2>4 DEF Known, Exists
  <2> QED
    BY <1>1, <2>3, <2>4, <2>5
<1> HIDE DEF TablesStep
<1>10. ASSUME UNCHANGED <<account, identity, born, lastId>> PROVE \E w : TablesStep(w)
  BY <1>2, <1>10
<1>11. ASSUME NEW r \in Calls, StepOf(r) PROVE \E w : TablesStep(w)
  <2>1. CASE \E u \in Users : Create(r, u)
    BY <1>3, <2>1
  <2>2. CASE Link(r) \/ Save(r) \/ Unlink(r)
    BY <1>4, <1>5, <1>6, <2>2
  <2>3. CASE /\ ~ \E u \in Users : Create(r, u)
             /\ ~ (Link(r) \/ Save(r) \/ Unlink(r))
    <3>1. UNCHANGED <<account, identity, born, lastId>>
      BY <1>11, <2>3
         DEF StepOf, Still, ByEmail, FindLink, Touch, UnlinkUser, UnlinkOthers, Login, StartUnlink, StartLink
    <3> QED
      BY <1>10, <3>1
  <2> QED
    BY <2>1, <2>2, <2>3
<1>12. ASSUME NEW u \in Users, StepOn(u) PROVE \E w : TablesStep(w)
  BY <1>7, <1>8, <1>9, <1>12, <1>13 DEF StepOn
<1> QED
  BY <1>10, <1>11, <1>12 DEF vars
-----------------------------------------------------------------------------
LEMMA RowsStayKnown ==
  ASSUME RowInv, [Next]_vars
  PROVE  RowInv'
<1>1. Typed /\ Known /\ IdsStandForOne
  BY DEF RowInv
<1>2. \/ \E r \in Calls : StepOf(r)
      \/ \E u \in Users : StepOn(u)
      \/ UNCHANGED vars
  BY DEF Next, StepOf, StepOn
<1>3. PICK w : TablesStep(w)
  BY <1>1, <1>2, TablesAreKept
<1>4. \/ \E r \in Calls : Moves(r) /\ KnowsNext(r)
      \/ call' = call
  <2>1. (\E u \in Users : StepOn(u)) => call' = call
    BY DEF StepOn, SetPassword, Delete, Register, ChangeEmail
  <2> QED
    BY <1>1, <1>2, <2>1, RequestsMoveAlone, RequestsKnow DEF vars
<1>5. Typed'
  BY <1>1, <1>3, <1>4 DEF Typed, TablesStep, Moves
<1>6. Known'
  <2>1. \A u \in Users : Exists(u)' => u \in born'
    BY <1>3 DEF TablesStep
  <2>2. \A p \in Profiles : Linked(p)' => identity'[p].id # 0 /\ identity'[p].owner \in Users
    BY <1>1, <1>3 DEF TablesStep, Known, Linked
  <2>3. CASE call' = call
    BY <1>1, <2>1, <2>2, <2>3 DEF Known
  <2>4. ASSUME NEW r \in Calls, Moves(r), KnowsNext(r) PROVE Known'
    <3>1. \A q \in Calls : q # r => call'[q] = call[q]
      BY <1>1, <2>4 DEF Moves, Typed
    <3> QED
      BY <1>1, <2>1, <2>2, <2>4, <3>1 DEF Known, KnowsNext
  <2> QED
    BY <1>4, <2>3, <2>4
<1>7. IdsStandForOne'
  <2>1. \A r \in Calls : call'[r].id # 0 =>
           \/ \E q \in Calls : call'[r].id = call[q].id /\ call'[r].user = call[q].user
           \/ \E p \in Profiles : call'[r].id = identity[p].id /\ call'[r].user = identity[p].owner
    <3>1. ASSUME NEW r \in Calls, Moves(r), KnowsNext(r), NEW q \in Calls, q # r PROVE call'[q] = call[q]
      BY <1>1, <3>1 DEF Moves, Typed
    <3> QED
      BY <1>4, <3>1 DEF KnowsNext
  <2>2. NoRow.id = 0
    BY DEF NoRow
  <2>3. ASSUME NEW id, NEW u, Stands(id, u)'
        PROVE  Stands(id, u) \/ (id = lastId + 1 /\ lastId' = lastId + 1 /\ u = w)
    <3>1. CASE \E p \in Profiles : identity'[p].id = id /\ identity'[p].owner = u
      BY <1>3, <2>2, <2>3, <3>1 DEF Stands, TablesStep
    <3>2. CASE \E r \in Calls : call'[r].id = id /\ call'[r].user = u
      BY <2>1, <2>3, <3>2 DEF Stands
    <3> QED
      BY <2>3, <3>1, <3>2 DEF Stands
  <2>4. lastId \in Nat /\ lastId' \in Nat /\ lastId <= lastId' /\ born \subseteq born'
        /\ (w \in born' \/ lastId' = lastId)
    BY <1>1, <1>3 DEF Typed, TablesStep
  <2>5. ASSUME NEW id, NEW u, Stands(id, u) PROVE id \in Nat /\ id <= lastId /\ u \in born
    <3>1. id \in Nat
      BY <1>1, <2>5 DEF Stands, Typed, Identity, Call
    <3> QED
      BY <1>1, <2>5, <3>1 DEF IdsStandForOne
  <2>6. ASSUME NEW id, NEW u, NEW v, Stands(id, u)', Stands(id, v)' PROVE u = v
    <3>1. CASE Stands(id, u) /\ Stands(id, v)
      BY <1>1, <3>1 DEF IdsStandForOne
    <3>2. CASE id = lastId + 1
      BY <2>3, <2>4, <2>5, <2>6, <3>2
    <3> QED
      BY <2>3, <2>6, <3>1, <3>2
  <2>7. ASSUME NEW id, NEW u, Stands(id, u)' PROVE id <= lastId' /\ u \in born'
    BY <2>3, <2>4, <2>5, <2>7
  <2> QED
    BY <2>6, <2>7 DEF IdsStandForOne
<1> QED
  BY <1>5, <1>6, <1>7 DEF RowInv

LEMMA RowsStartKnown == Init => RowInv
<1> SUFFICES ASSUME Init PROVE RowInv
  OBVIOUS
<1>1. NoAccount \in Account /\ NoRow \in Identity /\ Idle \in Call
      /\ NoRow.id = 0 /\ Idle.id = 0 /\ Idle.pc = "idle"
  BY DEF NoAccount, NoRow, Idle, Account, Addresses, Identity, Call, Places
<1>2. Typed
  BY <1>1 DEF Init, Typed
<1>3. Known
  BY <1>1 DEF Init, Known, Exists, Linked
<1>4. IdsStandForOne
  BY <1>1 DEF Init, IdsStandForOne, Stands
<1> QED
  BY <1>2, <1>3, <1>4 DEF RowInv

(* An account of a provider never passes from one user to another in one   *)
(* step, however logins that insert a link again, new links, unlinks and   *)
(* deletions overlap (the unique index, and the id that Save keeps).       *)
LEMMA StepsMoveNoIdentity ==
  ASSUME RowInv, Next
  PROVE  IdentitiesDoNotMove
<1>1. PICK w : TablesStep(w)
  BY TablesAreKept DEF RowInv, Next, StepOf, StepOn
<1> QED
  BY <1>1 DEF TablesStep, IdentitiesDoNotMove

(* The same of a behaviour. *)
THEOREM AccountsOfProvidersStay == Spec => [][IdentitiesDoNotMove]_vars
<1>1. RowInv /\ [Next]_vars => [IdentitiesDoNotMove]_vars
  BY StepsMoveNoIdentity
<1> QED
  BY <1>1, RowsStayKnown, RowsStartKnown, PTL DEF Spec
-----------------------------------------------------------------------------
(* What a user has stays: the password and the links. *)
Keeps(v) ==
  /\ Exists(v)' => Exists(v)
  /\ account[v].password => account'[v].password
  /\ \A p \in Profiles : identity[p].owner = v => identity'[p] = identity[p]

(* A step that leaves all users but one what they have, and that one a way *)
(* to log in, preserves what the unlinks under way have seen.              *)
LEMMA WaysInAreKept ==
  ASSUME UnlinksSpareOne, EverybodyCanLogIn, ~ crossed, NEW w,
         \A v \in Users : v # w => Keeps(v),
         w \in Users /\ Exists(w)' => CanLogIn(w)',
         \A q \in Calls : At(q, "delete")' =>
            \/ SomethingIsLeft(q)'
            \/ call'[q] = call[q] /\ call[q].user \in Users /\ call[q].user # w
  PROVE  UnlinksSpareOne' /\ EverybodyCanLogIn'
<1>1. ASSUME NEW v \in Users, Exists(v)' PROVE CanLogIn(v)'
  <2>1. CASE v = w
    BY <1>1, <2>1
  <2>2. CASE v # w
    <3>1. Keeps(v) /\ Exists(v) /\ CanLogIn(v)
      BY <1>1, <2>2 DEF Keeps, EverybodyCanLogIn
    <3>2. CASE account[v].password
      BY <3>1, <3>2 DEF Keeps, CanLogIn
    <3>3. CASE Of(v) # {}
      <4>1. PICK p \in Profiles : identity[p].owner = v
        BY <3>3 DEF Of
      <4>2. identity'[p].owner = v
        BY <3>1, <4>1 DEF Keeps
      <4> QED
        BY <4>2 DEF CanLogIn, Of
    <3> QED
      BY <3>1, <3>2, <3>3 DEF CanLogIn
  <2> QED
    BY <2>1, <2>2
<1>2. ASSUME NEW q \in Calls, At(q, "delete")' PROVE SomethingIsLeft(q)'
  <2>1. CASE call'[q] = call[q] /\ call[q].user \in Users /\ call[q].user # w
    <3>0. PICK v \in Users : v = call[q].user
      BY <2>1
    <3>1. At(q, "delete") /\ Keeps(v) /\ SomethingIsLeft(q)
      BY <1>2, <2>1, <3>0 DEF UnlinksSpareOne, At
    <3>2. SUFFICES ASSUME Exists(v)'
                   PROVE  account'[v].password \/ \E p \in Of(v)' : identity'[p].id # call[q].id
      BY <2>1, <3>0 DEF SomethingIsLeft
    <3>3. account[v].password \/ \E p \in Of(v) : identity[p].id # call[q].id
      BY <3>0, <3>1, <3>2 DEF SomethingIsLeft, Keeps
    <3>4. CASE account[v].password
      BY <3>1, <3>4 DEF Keeps
    <3>5. CASE \E p \in Of(v) : identity[p].id # call[q].id
      <4>1. PICK p \in Profiles : identity[p].owner = v /\ identity[p].id # call[q].id
        BY <3>5 DEF Of
      <4>2. identity'[p] = identity[p]
        BY <3>1, <4>1 DEF Keeps
      <4> QED
        BY <4>1, <4>2 DEF Of
    <3> QED
      BY <3>3, <3>4, <3>5
  <2> QED
    BY <1>2, <2>1
<1> QED
  BY <1>1, <1>2 DEF UnlinksSpareOne, EverybodyCanLogIn

(* A step of a request keeps the ways in. *)
LEMMA RequestsKeepWaysIn ==
  ASSUME Nobody \notin Users, RowInv, LogInInv, NEW r \in Calls, StepOf(r), ~ crossed'
  PROVE  UnlinksAreAlone' /\ UnlinksSpareOne' /\ EverybodyCanLogIn'
<1>1. Typed /\ Known /\ IdsStandForOne /\ Moves(r) /\ KnowsNext(r)
  BY RequestsMoveAlone, RequestsKnow DEF RowInv
<1>2. ~ crossed /\ UnlinksAreAlone /\ UnlinksSpareOne /\ EverybodyCanLogIn
  BY <1>1 DEF KnowsNext, LogInInv
<1>3. \A q \in Calls : q # r => call'[q] = call[q]
  BY <1>1 DEF Typed, Moves
<1>4. UnlinksAreAlone'
  <2>1. ASSUME NEW q \in Calls, q # r, Unlinking(q)', Unlinking(r)', call'[q].user = call'[r].user
        PROVE  FALSE
    <3>1. Unlinking(q) /\ call[q].user = call'[r].user
      BY <1>3, <2>1 DEF Unlinking
    <3>2. Unlinking(r) /\ call'[r].user = call[r].user
      BY <1>1, <2>1, <3>1 DEF KnowsNext
    <3> QED
      BY <1>2, <2>1, <3>1, <3>2 DEF UnlinksAreAlone
  <2>2. ASSUME NEW q \in Calls, NEW s \in Calls, q # r, s # r,
               Unlinking(q)', Unlinking(s)', call'[q].user = call'[s].user
        PROVE  q = s
    BY <1>2, <1>3, <2>2 DEF UnlinksAreAlone, Unlinking
  <2> QED
    BY <2>1, <2>2 DEF UnlinksAreAlone
<1>5. \A q \in Calls : q # r /\ At(q, "delete")' => call'[q] = call[q] /\ call[q].user \in Users /\ call[q].id # 0
  BY <1>1, <1>3 DEF At, Known
<1>6. Idle.pc = "idle"
  BY DEF Idle
<1>7. CASE Unlink(r)
  <2> DEFINE u == call[r].user
             p == call[r].profile
  <2>1. /\ p \in Profiles /\ u \in Users /\ call[r].id # 0 /\ At(r, "delete") /\ Unlinking(r)
        /\ UNCHANGED account /\ call'[r] = Idle
    BY <1>1, <1>7 DEF Unlink, At, Known, Unlinking, Done, Typed
  <2>2. \A q \in Profiles : identity'[q] = identity[q] \/ (q = p /\ identity[p].id = call[r].id)
    BY <1>1, <1>7 DEF Unlink, Typed
  <2>3. identity[p].id = call[r].id => identity[p].owner = u
    BY <1>1, <2>1 DEF IdsStandForOne, Stands
  <2>4. \A v \in Users : v # u => Keeps(v)
    BY <2>1, <2>2, <2>3 DEF Keeps, Exists
  <2>5. Exists(u) => account[u].password \/ \E q \in Profiles : identity[q].owner = u /\ identity[q].id # call[r].id
    BY <1>2, <2>1 DEF UnlinksSpareOne, SomethingIsLeft, Of
  <2>6. PICK w \in Users : w = u
    BY <2>1
  <2>7. Exists(w)' => CanLogIn(w)'
    <3>1. SUFFICES ASSUME Exists(w)' PROVE CanLogIn(w)'
      OBVIOUS
    <3>2. Exists(w)
      BY <2>1, <3>1 DEF Exists
    <3>3. CASE account[w].password
      BY <2>1, <3>3 DEF CanLogIn
    <3>4. CASE \E q \in Profiles : identity[q].owner = w /\ identity[q].id # call[r].id
      <4>1. PICK q \in Profiles : identity[q].owner = w /\ identity[q].id # call[r].id
        BY <3>4
      <4>2. identity'[q] = identity[q]
        BY <2>2, <4>1
      <4> QED
        BY <4>1, <4>2 DEF CanLogIn, Of
    <3> QED
      BY <2>5, <2>6, <3>2, <3>3, <3>4
  <2>8. ASSUME NEW q \in Calls, At(q, "delete")' PROVE call'[q] = call[q] /\ call[q].user \in Users /\ call[q].user # w
    <3>1. q # r
      BY <1>6, <2>1, <2>8 DEF At
    <3>2. call'[q] = call[q] /\ Unlinking(q) /\ call[q].user \in Users
      BY <1>5, <2>8, <3>1 DEF At, Unlinking
    <3> QED
      BY <1>2, <2>1, <2>6, <3>1, <3>2 DEF UnlinksAreAlone
  <2>9. \A v \in Users : v # w => Keeps(v)
    BY <2>4, <2>6
  <2> HIDE DEF u, p
  <2> QED
    BY <1>2, <1>4, <2>7, <2>8, <2>9, WaysInAreKept
<1>8. ASSUME NEW w \in Users, Create(r, w) PROVE UnlinksSpareOne' /\ EverybodyCanLogIn'
  <2> DEFINE p == call[r].profile
  <2>1. p \in Profiles /\ call'[r] = Idle /\ w \notin born
    BY <1>1, <1>8 DEF Create, At, Known, Done, Typed
  <2>2. CASE UNCHANGED <<account, identity>>
    <3>1. \A v \in Users : Keeps(v)
      BY <2>2 DEF Keeps, Exists
    <3>2. Exists(w)' => CanLogIn(w)'
      BY <1>1, <2>1, <2>2 DEF Exists, Known
    <3>3. ASSUME NEW q \in Calls, At(q, "delete")' PROVE call'[q] = call[q] /\ call[q].user \in Users /\ call[q].user # w
      <4>1. q # r
        BY <1>6, <2>1, <3>3 DEF At
      <4>2. call'[q] = call[q] /\ call[q].user \in Users /\ call[q].id # 0
        BY <1>5, <3>3, <4>1
      <4>3. call[q].user \in born
        BY <1>1, <4>2 DEF IdsStandForOne, Stands
      <4> QED
        BY <2>1, <4>2, <4>3
    <3> QED
      BY <1>2, <3>1, <3>2, <3>3, WaysInAreKept
  <2>3. CASE ~ UNCHANGED <<account, identity>>
    <3>1. /\ ~ Linked(p) /\ account' = [account EXCEPT ![w] = [email |-> Address(p), password |-> FALSE]]
          /\ \E id : identity' = [identity EXCEPT ![p] = [owner |-> w, id |-> id]]
      BY <1>8, <2>3 DEF Create
    <3>2. \A v \in Users : v # w => account'[v] = account[v]
      BY <1>1, <3>1 DEF Typed
    <3>3. \A q \in Profiles : q # p => identity'[q] = identity[q]
      BY <1>1, <3>1 DEF Typed
    <3>4. identity'[p].owner = w
      BY <1>1, <2>1, <3>1 DEF Typed
    <3>5. CanLogIn(w)'
      BY <2>1, <3>4 DEF CanLogIn, Of
    <3>6. NoRow.owner = Nobody
      BY DEF NoRow
    <3>7. ASSUME NEW q \in Calls, At(q, "delete")' PROVE call'[q] = call[q] /\ call[q].user \in Users /\ call[q].user # w
      <4>1. q # r
        BY <1>6, <2>1, <3>7 DEF At
      <4>2. call'[q] = call[q] /\ call[q].user \in Users /\ call[q].id # 0
        BY <1>5, <3>7, <4>1
      <4>3. call[q].user \in born
        BY <1>1, <4>2 DEF IdsStandForOne, Stands
      <4> QED
        BY <2>1, <4>2, <4>3
    <3>8. ASSUME NEW v \in Users, v # w, v # Nobody PROVE Keeps(v)
      BY <3>1, <3>2, <3>3, <3>6, <3>8 DEF Keeps, Exists, Linked
    <3> HIDE DEF p
    <3> QED
      BY <1>2, <3>5, <3>7, <3>8, WaysInAreKept
  <2> QED
    BY <2>2, <2>3
<1>9. CASE Link(r) \/ Save(r)
  <2> DEFINE p == call[r].profile
  <2>1. call'[r] = Idle /\ UNCHANGED account
    BY <1>1, <1>9 DEF Link, Save, Done, Typed
  <2>2. \A q \in Profiles : identity'[q] = identity[q] \/ (q = p /\ ~ Linked(p))
    BY <1>1, <1>9 DEF Link, Save, Typed
  <2>3. NoRow.owner = Nobody
    BY DEF NoRow
  <2>4. ASSUME NEW v \in Users, v # Nobody PROVE Keeps(v)
    BY <2>1, <2>2, <2>3, <2>4 DEF Keeps, Exists, Linked
  <2>5. ASSUME NEW q \in Calls, At(q, "delete")' PROVE call'[q] = call[q] /\ call[q].user \in Users /\ call[q].user # Nobody
    <3>1. q # r
      BY <1>6, <2>1, <2>5 DEF At
    <3> QED
      BY <1>5, <2>5, <3>1
  <2> HIDE DEF p
  <2> QED
    BY <1>2, <1>4, <2>4, <2>5, WaysInAreKept
<1>10. CASE UNCHANGED <<account, identity>>
  <2>1. \A v \in Users : Keeps(v)
    BY <1>10 DEF Keeps, Exists
  <2>2. ASSUME At(r, "delete")' PROVE SomethingIsLeft(r)'
    <3>1. PICK v : v = call'[r].user
      OBVIOUS
    <3>2. account[v].password \/ \E p \in Of(v) : identity[p].id # call'[r].id
      BY <1>1, <2>2, <3>1 DEF KnowsNext, At
    <3>3. Of(v)' = Of(v)
      BY <1>10 DEF Of
    <3>4. account'[v].password \/ \E p \in Of(v)' : identity'[p].id # call'[r].id
      BY <1>10, <3>2, <3>3
    <3> QED
      BY <3>1, <3>4 DEF SomethingIsLeft
  <2>3. ASSUME NEW q \in Calls, At(q, "delete")', q # r
        PROVE  call'[q] = call[q] /\ call[q].user \in Users /\ call[q].user # Nobody
    BY <1>5, <2>3
  <2> QED
    BY <1>2, <1>4, <2>1, <2>2, <2>3, WaysInAreKept
<1> QED
  BY <1>4, <1>7, <1>8, <1>9, <1>10
     DEF StepOf, Still, ByEmail, FindLink, Touch, UnlinkUser, UnlinkOthers, Login, StartUnlink, StartLink

(* A step of a user keeps the ways in. *)
LEMMA UsersKeepWaysIn ==
  ASSUME Nobody \notin Users, RowInv, LogInInv, NEW w \in Users, StepOn(w), ~ crossed'
  PROVE  UnlinksAreAlone' /\ UnlinksSpareOne' /\ EverybodyCanLogIn'
<1>1. Typed /\ Known /\ IdsStandForOne
  BY DEF RowInv
<1>2. call' = call /\ crossed' = crossed
  BY DEF StepOn, SetPassword, Delete, Register, ChangeEmail
<1>3. ~ crossed /\ UnlinksAreAlone /\ UnlinksSpareOne /\ EverybodyCanLogIn
  BY <1>2 DEF LogInInv
<1>4. UnlinksAreAlone'
  BY <1>2, <1>3 DEF UnlinksAreAlone, Unlinking
<1>5. ASSUME NEW q \in Calls, At(q, "delete")'
      PROVE  call'[q] = call[q] /\ call[q].user \in Users /\ call[q].user \in born /\ SomethingIsLeft(q)
  BY <1>1, <1>2, <1>3, <1>5 DEF At, Known, IdsStandForOne, Stands, UnlinksSpareOne
<1>6. CASE SetPassword(w)
  <2>1. UNCHANGED identity /\ account' = [account EXCEPT ![w] = [account[w] EXCEPT !.password = TRUE]] /\ Exists(w)
    BY <1>6 DEF SetPassword
  <2>2. account'[w].password /\ \A v \in Users : v # w => account'[v] = account[v]
    BY <1>1, <2>1 DEF Typed, Account
  <2>3. \A v \in Users : Keeps(v)
    BY <2>1, <2>2 DEF Keeps, Exists
  <2>4. CanLogIn(w)'
    BY <2>2 DEF CanLogIn
  <2>5. ASSUME NEW q \in Calls, At(q, "delete")', call[q].user = w PROVE SomethingIsLeft(q)'
    BY <1>2, <2>2, <2>5 DEF SomethingIsLeft
  <2> QED
    BY <1>3, <1>4, <1>5, <2>3, <2>4, <2>5, WaysInAreKept
<1>7. CASE Delete(w)
  <2>1. /\ account' = [account EXCEPT ![w] = NoAccount]
        /\ identity' = [p \in Profiles |-> IF identity[p].owner = w THEN NoRow ELSE identity[p]]
    BY <1>7 DEF Delete
  <2>2. ~ Exists(w)' /\ \A v \in Users : v # w => account'[v] = account[v]
    BY <1>1, <2>1 DEF Typed, Exists
  <2>3. \A v \in Users : v # w => Keeps(v)
    BY <2>1, <2>2 DEF Keeps, Exists
  <2>4. ASSUME NEW q \in Calls, At(q, "delete")', call[q].user = w PROVE SomethingIsLeft(q)'
    BY <1>2, <2>2, <2>4 DEF SomethingIsLeft, Exists
  <2> QED
    BY <1>3, <1>4, <1>5, <2>2, <2>3, <2>4, WaysInAreKept
<1>8. ASSUME NEW e \in Emails, Register(w, e) PROVE UnlinksSpareOne' /\ EverybodyCanLogIn'
  <2>1. /\ account' = [account EXCEPT ![w] = [email |-> e, password |-> TRUE]]
        /\ identity' = identity /\ w \notin born
    BY <1>8 DEF Register
  <2>2. account'[w].password /\ \A v \in Users : v # w => account'[v] = account[v]
    BY <1>1, <2>1 DEF Typed
  <2>3. \A v \in Users : v # w => Keeps(v)
    BY <2>1, <2>2 DEF Keeps, Exists
  <2>4. CanLogIn(w)'
    BY <2>2 DEF CanLogIn
  <2> QED
    BY <1>3, <1>5, <2>1, <2>3, <2>4, WaysInAreKept
<1>9. ASSUME NEW e \in Emails, ChangeEmail(w, e) PROVE UnlinksSpareOne' /\ EverybodyCanLogIn'
  <2>1. UNCHANGED identity /\ account' = [account EXCEPT ![w] = [account[w] EXCEPT !.email = e]] /\ Exists(w)
    BY <1>9 DEF ChangeEmail
  <2>2. account'[w].password = account[w].password /\ \A v \in Users : v # w => account'[v] = account[v]
    BY <1>1, <2>1 DEF Typed, Account
  <2>3. \A v \in Users : Keeps(v)
    BY <2>1, <2>2 DEF Keeps, Exists
  <2>4. CanLogIn(w)'
    BY <1>3, <2>1, <2>2 DEF CanLogIn, EverybodyCanLogIn, Of
  <2>5. ASSUME NEW q \in Calls, At(q, "delete")', call[q].user = w PROVE SomethingIsLeft(q)'
    BY <1>2, <1>5, <2>1, <2>2, <2>5 DEF SomethingIsLeft, Of
  <2> QED
    BY <1>3, <1>5, <2>3, <2>4, <2>5, WaysInAreKept
<1> QED
  BY <1>4, <1>6, <1>7, <1>8, <1>9 DEF StepOn

LEMMA WaysInStart == Init => LogInInv
<1> SUFFICES ASSUME Init PROVE LogInInv
  OBVIOUS
<1>1. Idle.pc = "idle"
  BY DEF Idle
<1>2. \A r \in Calls : call[r].pc = "idle"
  BY <1>1 DEF Init
<1>3. \A u \in Users : ~ Exists(u)
  BY DEF Init, Exists
<1> QED
  BY <1>2, <1>3 DEF LogInInv, UnlinksAreAlone, UnlinksSpareOne, EverybodyCanLogIn, Unlinking, At

LEMMA WaysInStay ==
  ASSUME Nobody \notin Users, RowInv, LogInInv, [Next]_vars
  PROVE  LogInInv'
<1> SUFFICES ASSUME ~ crossed'
             PROVE  UnlinksAreAlone' /\ UnlinksSpareOne' /\ EverybodyCanLogIn'
  BY DEF LogInInv
<1>1. CASE UNCHANGED vars
  BY <1>1 DEF vars, LogInInv, UnlinksAreAlone, UnlinksSpareOne, EverybodyCanLogIn,
              Unlinking, At, SomethingIsLeft, CanLogIn, Exists, Of
<1>2. CASE \E r \in Calls : StepOf(r)
  BY <1>2, RequestsKeepWaysIn
<1>3. CASE \E u \in Users : StepOn(u)
  BY <1>3, UsersKeepWaysIn
<1> QED
  BY <1>1, <1>2, <1>3 DEF Next, StepOf, StepOn

(* Whatever logins, links, registrations and deletions run during an       *)
(* unlink: while no two unlinks of one user overlap, every user keeps a    *)
(* password or a linked account (unlinkIdentity, createUserWithIdentity).  *)
THEOREM EverybodyKeepsAWayIn ==
  ASSUME Nobody \notin Users
  PROVE  Spec => []EverybodyCanLogIn
<1>1. LogInInv => EverybodyCanLogIn
  BY DEF LogInInv, EverybodyCanLogIn
<1> QED
  BY <1>1, WaysInStart, WaysInStay, RowsStayKnown, RowsStartKnown, PTL DEF Spec
-----------------------------------------------------------------------------
(* The rows and the calls keep their types: an e-mail names one user and   *)
(* a link one user who exists, because create and register look first and  *)
(* the unique index and the foreign key refuse the rest.                   *)
Unique ==
  /\ \A u \in Users : Exists(u) => account[u].email # NoEmail
  /\ \A u, v \in Users : Exists(u) /\ account[v].email = account[u].email => u = v

Owned == \A p \in Profiles : Linked(p) => Exists(identity[p].owner)

Bounded == born \subseteq Users /\ lastId \in 0 .. MaxRows /\ crossed \in BOOLEAN

LEMMA TypesFromParts ==
  ASSUME RowInv, Unique, Owned, Bounded
  PROVE  TypeOK
<1>1. \A u \in Users : Exists(u) => u \in born /\ account[u].email # NoEmail /\ WithEmail(account[u].email) = {u}
  BY DEF RowInv, Known, Unique, WithEmail
<1>2. ASSUME NEW p \in Profiles
      PROVE  identity[p].id \in 0 .. lastId /\ (Linked(p) => identity[p].owner \in Users /\ Exists(identity[p].owner))
  <2>1. identity[p].id \in Nat /\ lastId \in Nat
    BY DEF RowInv, Typed, Identity
  <2>2. identity[p].id # 0 => Stands(identity[p].id, identity[p].owner)
    BY DEF Stands
  <2>3. identity[p].id # 0 => identity[p].id <= lastId
    BY <2>2 DEF RowInv, IdsStandForOne
  <2> QED
    BY <2>1, <2>3 DEF RowInv, Known, Owned
<1>3. ASSUME NEW r \in Calls PROVE call[r].user \in Users \cup {Nobody} /\ call[r].id \in 0 .. lastId
  <2>1. call[r].user \in Users \cup {Nobody} /\ call[r].id \in Nat /\ lastId \in Nat
    BY DEF RowInv, Typed, Call
  <2>2. call[r].id # 0 => Stands(call[r].id, call[r].user)
    BY DEF Stands
  <2>3. call[r].id # 0 => call[r].id <= lastId
    BY <2>2 DEF RowInv, IdsStandForOne
  <2> QED
    BY <2>1, <2>3
<1> QED
  BY <1>1, <1>2, <1>3 DEF TypeOK, Bounded

(* A row of a user that comes has a new e-mail. *)
LEMMA UsersComeWithNewEmails ==
  ASSUME RowInv, Unique, NEW u \in Users, NEW e, e # NoEmail, WithEmail(e) = {}, NEW b,
         account' = [account EXCEPT ![u] = [email |-> e, password |-> b]]
  PROVE  Unique' /\ Exists(u)' /\ \A v \in Users : Exists(v) => Exists(v)'
<1>1. account \in [Users -> Account]
  BY DEF RowInv, Typed
<1>2. account'[u].email = e /\ \A v \in Users : v # u => account'[v] = account[v]
  BY <1>1
<1>3. \A v \in Users : account[v].email # e
  BY DEF WithEmail
<1>4. Exists(u)'
  BY <1>2 DEF Exists, NoAccount
<1>5. \A v \in Users : v # u => (Exists(v)' <=> Exists(v))
  BY <1>2 DEF Exists
<1>6. \A v \in Users : Exists(v)' => account'[v].email # NoEmail
  BY <1>2, <1>5 DEF Unique
<1>7. ASSUME NEW v \in Users, NEW w \in Users, Exists(v)', account'[w].email = account'[v].email
      PROVE  v = w
  BY <1>2, <1>3, <1>5, <1>7 DEF Unique
<1> QED
  BY <1>4, <1>5, <1>6, <1>7 DEF Unique

(* A step keeps the parts. *)
LEMMA PartsAreKept ==
  ASSUME Nobody \notin Users, NoEmail \notin Emails \cup Profiles, MaxRows \in Nat,
         RowInv, Unique, Owned, Bounded, [Next]_vars
  PROVE  Unique' /\ Owned' /\ Bounded'
<1>1. /\ account \in [Users -> Account] /\ identity \in [Profiles -> Identity] /\ lastId \in Nat
      /\ Typed /\ Known /\ NoRow.owner = Nobody
  BY DEF RowInv, Typed, NoRow
<1>2. CASE UNCHANGED <<account, identity, born, lastId>>
  <2>1. crossed' \in BOOLEAN
    BY DEF Next, Bounded, ByEmail, FindLink, Link, Touch, Save, UnlinkUser, UnlinkOthers, Unlink, Create,
           Login, StartUnlink, StartLink, SetPassword, Delete, Register, ChangeEmail, Still, vars
  <2> QED
    BY <1>2, <2>1 DEF Unique, Owned, Bounded, Exists, Linked
<1>3. ASSUME NEW r \in Calls, NEW u \in Users, Create(r, u), ~ UNCHANGED <<account, identity, born, lastId>>
      PROVE  Unique' /\ Owned' /\ Bounded'
  <2> DEFINE p == call[r].profile
  <2>1. p \in Profiles /\ crossed' = crossed
    BY <1>1, <1>3 DEF Create, At, Known
  <2>2. /\ lastId < MaxRows /\ lastId' = lastId + 1 /\ born' = born \cup {u}
        /\ WithEmail(Address(p)) = {}
        /\ account' = [account EXCEPT ![u] = [email |-> Address(p), password |-> FALSE]]
        /\ identity' = [identity EXCEPT ![p] = [owner |-> u, id |-> lastId']]
    BY <1>3 DEF Create
  <2>3. Address(p) # NoEmail
    BY <2>1 DEF Address
  <2>4. Unique' /\ Exists(u)' /\ \A v \in Users : Exists(v) => Exists(v)'
    BY <2>2, <2>3, UsersComeWithNewEmails
  <2>5. identity'[p].owner = u /\ \A q \in Profiles : q # p => identity'[q] = identity[q]
    BY <1>1, <2>1, <2>2
  <2>6. \A q \in Profiles : Linked(q) => identity[q].owner \in Users
    BY <1>1 DEF Known
  <2>7. Owned'
    BY <2>4, <2>5, <2>6 DEF Owned, Linked
  <2>8. Bounded'
    BY <1>1, <2>1, <2>2 DEF Bounded
  <2> QED
    BY <2>4, <2>7, <2>8
<1>4. ASSUME NEW r \in Calls, Link(r) \/ Save(r), ~ UNCHANGED <<account, identity, born, lastId>>
      PROVE  Unique' /\ Owned' /\ Bounded'
  <2> DEFINE p == call[r].profile
  <2>1. UNCHANGED <<account, born, crossed>> /\ Exists(call[r].user) /\ call[r].user \in Users
    BY <1>1, <1>4 DEF Link, Save, At, Known
  <2>2. lastId' \in 0 .. MaxRows
    BY <1>1, <1>4 DEF Link, Save, Bounded
  <2>3. \A q \in Profiles : identity'[q] = identity[q] \/ identity'[q].owner = call[r].user
    BY <1>1, <1>4 DEF Link, Save
  <2>4. Owned'
    BY <2>1, <2>3 DEF Owned, Linked, Exists
  <2> QED
    BY <2>1, <2>2, <2>4 DEF Unique, Bounded, Exists
<1>5. ASSUME NEW r \in Calls, Unlink(r) PROVE Unique' /\ Owned' /\ Bounded'
  <2>1. UNCHANGED <<account, born, lastId, crossed>> /\ \A q \in Profiles : identity'[q] \in {identity[q], NoRow}
    BY <1>1, <1>5 DEF Unlink
  <2> QED
    BY <2>1 DEF Unique, Owned, Bounded, Exists, Linked
<1>6. ASSUME NEW u \in Users, SetPassword(u) PROVE Unique' /\ Owned' /\ Bounded'
  <2>1. UNCHANGED <<identity, born, lastId, crossed>> /\ Exists(u)
        /\ account' = [account EXCEPT ![u] = [account[u] EXCEPT !.password = TRUE]]
    BY <1>6 DEF SetPassword
  <2>2. \A v \in Users : account'[v].email = account[v].email /\ (v # u => account'[v] = account[v])
    BY <1>1, <2>1 DEF Account
  <2>3. account[u].email # NoEmail
    BY <2>1 DEF Unique
  <2>4. \A v \in Users : Exists(v)' <=> Exists(v)
    BY <2>1, <2>2, <2>3 DEF Exists, NoAccount
  <2>5. \A p \in Profiles : Linked(p) => identity[p].owner \in Users
    BY <1>1 DEF Known
  <2> QED
    BY <2>1, <2>2, <2>4, <2>5 DEF Unique, Owned, Bounded, Linked
<1>7. ASSUME NEW u \in Users, Delete(u) PROVE Unique' /\ Owned' /\ Bounded'
  <2>1. /\ UNCHANGED <<born, lastId, crossed>> /\ account' = [account EXCEPT ![u] = NoAccount]
        /\ identity' = [p \in Profiles |-> IF identity[p].owner = u THEN NoRow ELSE identity[p]]
    BY <1>7 DEF Delete
  <2>2. account'[u] = NoAccount /\ \A v \in Users : v # u => account'[v] = account[v]
    BY <1>1, <2>1
  <2>3. \A v \in Users : Exists(v)' => Exists(v) /\ v # u
    BY <2>2 DEF Exists
  <2>4. Unique'
    BY <2>2, <2>3 DEF Unique, NoAccount
  <2>5. \A p \in Profiles : Linked(p)' => Linked(p) /\ identity'[p] = identity[p] /\ identity[p].owner # u
    BY <2>1 DEF Linked
  <2>6. \A p \in Profiles : Linked(p) => identity[p].owner \in Users
    BY <1>1 DEF Known
  <2>7. Owned'
    BY <2>2, <2>5, <2>6 DEF Owned, Exists
  <2> QED
    BY <2>1, <2>4, <2>7 DEF Bounded
<1>8. ASSUME NEW u \in Users, NEW e \in Emails, Register(u, e) PROVE Unique' /\ Owned' /\ Bounded'
  <2>1. /\ UNCHANGED <<identity, lastId, crossed>> /\ born' = born \cup {u} /\ WithEmail(e) = {}
        /\ account' = [account EXCEPT ![u] = [email |-> e, password |-> TRUE]]
    BY <1>8 DEF Register
  <2>2. Unique' /\ \A v \in Users : Exists(v) => Exists(v)'
    BY <2>1, UsersComeWithNewEmails
  <2>3. \A p \in Profiles : Linked(p) => identity[p].owner \in Users
    BY <1>1 DEF Known
  <2> QED
    BY <2>1, <2>2, <2>3 DEF Owned, Bounded, Linked
<1>12. ASSUME NEW u \in Users, NEW e \in Emails, ChangeEmail(u, e) PROVE Unique' /\ Owned' /\ Bounded'
  <2>1. /\ UNCHANGED <<identity, born, lastId, crossed>> /\ WithEmail(e) = {}
        /\ account' = [account EXCEPT ![u] = [account[u] EXCEPT !.email = e]]
    BY <1>12 DEF ChangeEmail
  <2>2. account[u] \in Account
    BY <1>1
  <2>3. [account[u] EXCEPT !.email = e] = [email |-> e, password |-> account[u].password]
    BY <2>2 DEF Account
  <2>4. Unique' /\ \A v \in Users : Exists(v) => Exists(v)'
    BY <2>1, <2>3, UsersComeWithNewEmails
  <2>5. \A p \in Profiles : Linked(p) => identity[p].owner \in Users
    BY <1>1 DEF Known
  <2> QED
    BY <2>1, <2>4, <2>5 DEF Owned, Bounded, Linked
<1>9. ASSUME NEW r \in Calls, StepOf(r) PROVE Unique' /\ Owned' /\ Bounded'
  <2>1. \/ UNCHANGED <<account, identity, born, lastId>> \/ Link(r) \/ Save(r) \/ Unlink(r)
        \/ \E u \in Users : Create(r, u)
    BY <1>9 DEF StepOf, Still, ByEmail, FindLink, Touch, UnlinkUser, UnlinkOthers, Login, StartUnlink, StartLink
  <2> QED
    BY <1>2, <1>3, <1>4, <1>5, <2>1
<1>10. ASSUME NEW u \in Users, StepOn(u) PROVE Unique' /\ Owned' /\ Bounded'
  BY <1>6, <1>7, <1>8, <1>10, <1>12 DEF StepOn
<1>11. UNCHANGED vars => UNCHANGED <<account, identity, born, lastId>>
  BY DEF vars
<1> QED
  BY <1>2, <1>9, <1>10, <1>11 DEF Next, StepOf, StepOn

LEMMA PartsStart ==
  ASSUME MaxRows \in Nat, Init
  PROVE  Unique /\ Owned /\ Bounded
<1>1. \A u \in Users : ~ Exists(u)
  BY DEF Init, Exists
<1>2. \A p \in Profiles : ~ Linked(p)
  BY DEF Init, Linked
<1>3. 0 \in 0 .. MaxRows
  OBVIOUS
<1>4. Bounded
  BY <1>3 DEF Init, Bounded
<1> QED
  BY <1>1, <1>2, <1>4 DEF Unique, Owned

(* What the steps keep, for the composition to cite. *)
AllInv == RowInv /\ LogInInv /\ Unique /\ Owned /\ Bounded

LEMMA AllStarts ==
  ASSUME MaxRows \in Nat, Init
  PROVE  AllInv
BY RowsStartKnown, WaysInStart, PartsStart DEF AllInv

LEMMA AllStays ==
  ASSUME Nobody \notin Users, NoEmail \notin Emails \cup Profiles, MaxRows \in Nat,
         AllInv, [Next]_vars
  PROVE  AllInv'
BY RowsStayKnown, WaysInStay, PartsAreKept DEF AllInv

LEMMA AllMeans ==
  ASSUME AllInv
  PROVE  TypeOK /\ EverybodyCanLogIn
BY TypesFromParts DEF AllInv, LogInInv, EverybodyCanLogIn

(* In every reachable state each row and each request keeps its type, an   *)
(* e-mail names one user and a link a user who exists.                     *)
THEOREM TypesHold ==
  ASSUME Nobody \notin Users, NoEmail \notin Emails \cup Profiles, MaxRows \in Nat
  PROVE  Spec => []TypeOK
<1>1. AllInv => TypeOK
  BY AllMeans
<1>2. Init => AllInv
  BY AllStarts
<1>3. AllInv /\ [Next]_vars => AllInv'
  BY AllStays
<1> QED
  BY <1>1, <1>2, <1>3, PTL DEF Spec
=============================================================================
