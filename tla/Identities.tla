----------------------------- MODULE Identities -----------------------------
(***************************************************************************)
(* How a customer may log in: a password, or accounts of VK and Yandex     *)
(* that are linked to the user (OAuthService, UserOAuthIdentityRepository).*)
(* One row of user_oauth_identities exists for an account of a provider    *)
(* (unique index) and goes with its user (ON DELETE CASCADE).              *)
(*                                                                         *)
(* Calls are cut where the service awaits a query.  The transaction of     *)
(* createUserWithIdentity is one step: its two inserts commit together.    *)
(***************************************************************************)
EXTENDS Naturals, FiniteSets

CONSTANTS Users,     \* the uuids, each given once
          Emails,
          Profiles,  \* accounts of the providers
          EmailOf,   \* [Profiles -> Emails, or NoEmail]
          Verified,  \* the profiles of Yandex; VK vouches for no address
          Calls,
          MaxRows    \* bound of the model: rows inserted

VARIABLES
  account,  \* [Users -> [email, password]], NoAccount where there is no row
  identity, \* [Profiles -> [owner, id]], NoRow where there is no row
  born,     \* the users there were
  lastId,
  call,     \* [Calls -> the state of a request]
  crossed   \* history: two unlinks of one user have run at once

vars == <<account, identity, born, lastId, call, crossed>>

NoEmail   == "none"
Nobody    == "nobody"
NoAccount == [email |-> NoEmail, password |-> FALSE]
NoRow     == [owner |-> Nobody, id |-> 0]
Idle      == [pc |-> "idle", user |-> Nobody, profile |-> "none", id |-> 0]

Exists(u) == account[u] # NoAccount
Linked(p) == identity[p] # NoRow
Of(u)     == {p \in Profiles : identity[p].owner = u}
WithEmail(e) == {u \in Users : account[u].email = e}

(* A linked account has an existing user; e-mails are unique. *)
TypeOK ==
  /\ born \subseteq Users /\ lastId \in 0 .. MaxRows /\ crossed \in BOOLEAN
  /\ \A u \in Users : Exists(u) => u \in born /\ account[u].email # NoEmail
                                   /\ WithEmail(account[u].email) = {u}
  /\ \A p \in Profiles : /\ identity[p].id \in 0 .. lastId
                         /\ Linked(p) => identity[p].owner \in Users /\ Exists(identity[p].owner)
  /\ \A r \in Calls : call[r].user \in Users \cup {Nobody} /\ call[r].id \in 0 .. lastId

Init ==
  /\ account = [u \in Users |-> NoAccount] /\ identity = [p \in Profiles |-> NoRow]
  /\ born = {} /\ lastId = 0 /\ call = [r \in Calls |-> Idle] /\ crossed = FALSE
-----------------------------------------------------------------------------
At(r, pc) == call[r].pc = pc
Go(r, pc, u, p, id) == call' = [call EXCEPT ![r] = [pc |-> pc, user |-> u, profile |-> p, id |-> id]]
Goto(r, pc) == call' = [call EXCEPT ![r].pc = pc]
Done(r) == call' = [call EXCEPT ![r] = Idle]
Still == UNCHANGED <<account, identity, born, lastId, crossed>>

(* generatePlaceholderEmail where the provider gave none. *)
Address(p) == IF EmailOf[p] = NoEmail THEN p ELSE EmailOf[p]

(* resolveOAuth: findByProvider. *)
Login(r, p) ==
  /\ At(r, "idle")
  /\ IF Linked(p) THEN Go(r, "touch", identity[p].owner, p, identity[p].id)
     ELSE Go(r, IF EmailOf[p] = NoEmail THEN "create" ELSE "byEmail", Nobody, p, 0)
  /\ Still

(* resolveOAuth: findByEmail.  A verified address links to its user, one   *)
(* that is not verified is a conflict.                                     *)
ByEmail(r) ==
  /\ At(r, "byEmail")
  /\ LET p == call[r].profile
         found == WithEmail(EmailOf[p])
     IN  IF found = {} THEN Goto(r, "create")
         ELSE IF p \in Verified THEN \E u \in found : Go(r, "link", u, p, 0)
         ELSE Done(r)
  /\ Still

(* createUserWithIdentity: both rows or, when a unique index refuses, none. *)
Create(r, u) ==
  /\ At(r, "create")
  /\ u \notin born
  /\ LET p == call[r].profile IN
       IF WithEmail(Address(p)) = {} /\ ~ Linked(p)
       THEN /\ lastId < MaxRows
            /\ lastId' = lastId + 1
            /\ account' = [account EXCEPT ![u] = [email |-> Address(p), password |-> FALSE]]
            /\ identity' = [identity EXCEPT ![p] = [owner |-> u, id |-> lastId']]
            /\ born' = born \cup {u}
       ELSE UNCHANGED <<account, identity, born, lastId>>
  /\ Done(r)
  /\ UNCHANGED crossed

(* linkToUser: findById, then findByProvider. *)
StartLink(r, u, p) ==
  /\ At(r, "idle") /\ Exists(u)
  /\ Go(r, "find", u, p, 0)
  /\ Still
FindLink(r) ==
  /\ At(r, "find")
  /\ LET u == call[r].user
         p == call[r].profile
     IN  IF ~ Linked(p) THEN Goto(r, "link")
         ELSE IF identity[p].owner = u THEN Go(r, "touch", u, p, identity[p].id)
         ELSE Done(r)
  /\ Still

(* link: an INSERT, which the unique index or the foreign key may refuse. *)
Link(r) ==
  /\ At(r, "link")
  /\ LET p == call[r].profile
         u == call[r].user
     IN  IF ~ Linked(p) /\ Exists(u)
         THEN /\ lastId < MaxRows
              /\ lastId' = lastId + 1
              /\ identity' = [identity EXCEPT ![p] = [owner |-> u, id |-> lastId']]
         ELSE UNCHANGED <<identity, lastId>>
  /\ Done(r)
  /\ UNCHANGED <<account, born, crossed>>

(* updateProfile: findById ... *)
Touch(r) ==
  /\ At(r, "touch")
  /\ IF identity[call[r].profile].id = call[r].id THEN Goto(r, "save") ELSE Done(r)
  /\ Still

(* Mutation: no unique index on the account of the provider. *)
SaveOver(r) ==
  /\ At(r, "save")
  /\ LET c == call[r] IN
       identity' = IF Exists(c.user) THEN [identity EXCEPT ![c.profile] = [owner |-> c.user, id |-> c.id]]
                   ELSE identity
  /\ Done(r)
  /\ UNCHANGED <<account, born, lastId, crossed>>

(* ... and save, which inserts a row again that was deleted since, unless  *)
(* the account is linked anew (unique index) or the user is gone.          *)
Save(r) ==
  /\ At(r, "save")
  /\ LET c == call[r] IN
       identity' = IF ~ Linked(c.profile) /\ Exists(c.user)
                   THEN [identity EXCEPT ![c.profile] = [owner |-> c.user, id |-> c.id]]
                   ELSE identity
  /\ Done(r)
  /\ UNCHANGED <<account, born, lastId, crossed>>
-----------------------------------------------------------------------------
Unlinking(r) == call[r].pc \in {"user", "others", "delete"}

(* unlinkIdentity: findById, the password of the user, the other links ... *)
StartUnlink(r, p) ==
  /\ At(r, "idle") /\ Linked(p)
  /\ Go(r, "user", identity[p].owner, p, identity[p].id)
  /\ crossed' = (crossed \/ \E q \in Calls : Unlinking(q) /\ call[q].user = identity[p].owner)
  /\ UNCHANGED <<account, identity, born, lastId>>
UnlinkUser(r) ==
  /\ At(r, "user")
  /\ LET u == call[r].user IN
       IF ~ Exists(u) THEN Done(r)
       ELSE Goto(r, IF account[u].password THEN "delete" ELSE "others")
  /\ Still

(* Mutation: the link itself is counted among the others. *)
AnyLinks(r) == Of(call[r].user)

Others(r) == {p \in Of(call[r].user) : identity[p].id # call[r].id}
UnlinkOthers(r) ==
  /\ At(r, "others")
  /\ IF Others(r) = {} THEN Done(r) ELSE Goto(r, "delete")
  /\ Still
(* ... and the DELETE by id. *)
Unlink(r) ==
  /\ At(r, "delete")
  /\ LET p == call[r].profile IN
       identity' = IF identity[p].id = call[r].id THEN [identity EXCEPT ![p] = NoRow] ELSE identity
  /\ Done(r)
  /\ UNCHANGED <<account, born, lastId, crossed>>

(* register, update, confirmEmailChange and delete of UsersService, which  *)
(* AccountMails models; setInitialPassword, resetPassword.                 *)
Register(u, e) ==
  /\ u \notin born /\ WithEmail(e) = {}
  /\ account' = [account EXCEPT ![u] = [email |-> e, password |-> TRUE]]
  /\ born' = born \cup {u}
  /\ UNCHANGED <<identity, lastId, call, crossed>>
ChangeEmail(u, e) ==
  /\ Exists(u) /\ WithEmail(e) = {}
  /\ account' = [account EXCEPT ![u].email = e]
  /\ UNCHANGED <<identity, born, lastId, call, crossed>>
SetPassword(u) ==
  /\ Exists(u)
  /\ account' = [account EXCEPT ![u].password = TRUE]
  /\ UNCHANGED <<identity, born, lastId, call, crossed>>
Delete(u) ==
  /\ Exists(u)
  /\ account' = [account EXCEPT ![u] = NoAccount]
  /\ identity' = [p \in Profiles |-> IF identity[p].owner = u THEN NoRow ELSE identity[p]]
  /\ UNCHANGED <<born, lastId, call, crossed>>

Next ==
  \/ \E r \in Calls :
       \/ ByEmail(r) \/ FindLink(r) \/ Link(r) \/ Touch(r) \/ Save(r)
       \/ UnlinkUser(r) \/ UnlinkOthers(r) \/ Unlink(r)
       \/ \E u \in Users : Create(r, u)
       \/ \E p \in Profiles : \/ Login(r, p) \/ StartUnlink(r, p)
                              \/ \E u \in Users : StartLink(r, u, p)
  \/ \E u \in Users : \/ SetPassword(u) \/ Delete(u)
                      \/ \E e \in Emails : Register(u, e) \/ ChangeEmail(u, e)

Spec == Init /\ [][Next]_vars
-----------------------------------------------------------------------------
CanLogIn(u) == account[u].password \/ Of(u) # {}

(* Every user has a password or a linked account, whatever logins, links   *)
(* and deletions run during an unlink: the user and the account are        *)
(* created together, and unlinkIdentity looks at what else there is.  Only *)
(* two unlinks of one user that run at once escape it.                     *)
EverybodyCanLogIn == crossed \/ \A u \in Users : Exists(u) => CanLogIn(u)

(* The same without the exception: unlinkIdentity "forbids to unlink the   *)
(* last way to log in" (Запрещает отвязку последнего способа входа).       *)
LastMethodStays == \A u \in Users : Exists(u) => CanLogIn(u)

(* An account of a provider never passes from one user to another without  *)
(* an unlink or a deletion in between, although a login that is under way  *)
(* may insert the link it had read again: the unique index decides.        *)
IdentitiesDoNotMove ==
  \A p \in Profiles : Linked(p) /\ identity'[p] # NoRow
    => identity'[p].owner = identity[p].owner
=============================================================================
