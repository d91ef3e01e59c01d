--------------------------- MODULE AccountsProofs ---------------------------
(***************************************************************************)
(* Proofs about the accounts, for any number of users, addresses, requests *)
(* and providers.  A behaviour is one of the component at work, so an      *)
(* invariant of a component is one of the accounts where it is at work;    *)
(* what is proved of the sessions holds of every behaviour.                *)
(***************************************************************************)
EXTENDS Accounts, SessionsProofs, FiniteSetTheorems, Functions, Sequences

P == INSTANCE IdentitiesProofs WITH Users <- People, Emails <- Mailboxes, call <- request
-----------------------------------------------------------------------------
(* The sessions of a behaviour of the accounts are sessions. *)
LEMMA SessionsRun == AccountsSpec => Spec
<1>1. AccountsInit => Init
  BY DEF AccountsInit, NoSessions
<1>2. [AccountsNext]_all => [Next]_vars
  BY DEF AccountsNext, all
<1> QED
  BY <1>1, <1>2, PTL DEF AccountsSpec, Spec
-----------------------------------------------------------------------------
(* A route of the office: no guard lets anybody through it, or anybody who *)
(* is only signed in.                                                      *)
Guarded(r) ==
  ~ r.needs.public /\ r.needs.roles # {} /\ r.needs.roles \subseteq X!Office

(* The routes of one controller that are work of the office are guarded. *)
Safe(S) == \A r \in S : r \in X!OfficeWork => Guarded(r)

LEMMA OfficeWorkIsGuarded == \A r \in X!OfficeWork : Guarded(r)
<1> USE DEF Safe, Guarded, X!OfficeWork, X!Route, X!Anybody, X!SignedIn, X!Only, X!Office
<1>1. Safe(X!AuthOpen) /\ Safe(X!AuthOwn)
  BY DEF X!AuthOpen, X!AuthOwn
<1>2. Safe(X!OAuthVk) /\ Safe(X!OAuthYandex) /\ Safe(X!OAuthOwn)
  BY DEF X!OAuthVk, X!OAuthYandex, X!OAuthOwn
<1>3. Safe(X!UserRoutes)
  BY DEF X!UserRoutes
<1>4. Safe(X!Orders)
  BY DEF X!Orders
<1>5. Safe(X!Cart) /\ Safe(X!Wishlist)
  BY DEF X!Cart, X!Wishlist
<1>6. Safe(X!Reviews)
  BY DEF X!Reviews
<1>7. Safe(X!Products)
  BY DEF X!Products
<1>8. Safe(X!Categories)
  BY DEF X!Categories
<1>9. Safe(X!Promotions)
  BY DEF X!Promotions
<1>10. Safe(X!Settings)
  BY DEF X!Settings
<1>11. Safe(X!Pages)
  BY DEF X!Pages
<1>12. Safe(X!Upload) /\ Safe(X!Marking) /\ Safe(X!Import)
  BY DEF X!Upload, X!Marking, X!Import
<1>13. Safe(X!Analytics) /\ Safe(X!Health)
  BY DEF X!Analytics, X!Health
<1> QED
  BY <1>1, <1>2, <1>3, <1>4, <1>5, <1>6, <1>7, <1>8, <1>9, <1>10, <1>11, <1>12, <1>13 DEF X!All

(* The guards read the role of the row and the audience of the token, so   *)
(* that no valid token does more than its user may do now (JwtStrategy,    *)
(* RolesGuard).                                                            *)
THEOREM OfficeWorkStaysInTheOffice == AccountsSpec => []OfficeWorkIsForTheOffice
<1> DEFINE Inv == part = "access" => X!TypeOK
<1>1. AccountsInit => Inv
  BY DEF AccountsInit, X!Init, X!TypeOK, X!Token
<1>2. Inv /\ [AccountsNext]_all => Inv'
  <2> SUFFICES ASSUME X!TypeOK, [AccountsNext]_all, part = "access" PROVE X!TypeOK'
    BY DEF AccountsNext, all
  <2>1. CASE UNCHANGED access
    BY <2>1 DEF access, X!TypeOK
  <2>2. CASE X!Next
    BY <2>2 DEF X!Next, X!Login, X!Expire, X!SetRole, X!Delete, X!TypeOK, X!Token
  <2> QED
    BY <2>1, <2>2 DEF AccountsNext, all
<1>3. X!OfficeWorkIsForTheOffice
  BY OfficeWorkIsGuarded DEF Guarded, X!OfficeWorkIsForTheOffice, X!Admits, X!Passes, X!CurrentRole, X!Office
<1>4. TypeOK /\ Inv => OfficeWorkIsForTheOffice
  BY <1>3 DEF OfficeWorkIsForTheOffice
<1> QED
  BY <1>1, <1>2, <1>4, SessionsRun, RowsAreTyped, PTL DEF AccountsSpec
-----------------------------------------------------------------------------
(* The identities of the providers are those that IdentitiesProofs treats. *)
LEMMA SameIdentities ==
  /\ I!Init <=> P!Init
  /\ I!Next <=> P!Next
  /\ I!TypeOK <=> P!TypeOK
  /\ I!EverybodyCanLogIn <=> P!EverybodyCanLogIn
  /\ I!IdentitiesDoNotMove <=> P!IdentitiesDoNotMove
  /\ P!vars = <<account, identity, born, lastId, request, crossed>>
<1>1. I!Init <=> P!Init
  BY DEF I!Init, P!Init, I!NoAccount, P!NoAccount, I!NoRow, P!NoRow, I!Idle, P!Idle,
         I!NoEmail, P!NoEmail, I!Nobody, P!Nobody
<1>2. I!TypeOK <=> P!TypeOK
  BY DEF I!TypeOK, P!TypeOK, I!Exists, P!Exists, I!Linked, P!Linked,
         I!WithEmail, P!WithEmail, I!NoAccount, P!NoAccount, I!NoRow, P!NoRow,
         I!NoEmail, P!NoEmail, I!Nobody, P!Nobody
<1>3. I!EverybodyCanLogIn <=> P!EverybodyCanLogIn
  BY DEF I!EverybodyCanLogIn, P!EverybodyCanLogIn, I!CanLogIn, P!CanLogIn,
         I!Exists, P!Exists, I!Of, P!Of, I!NoAccount, P!NoAccount, I!NoEmail,
         P!NoEmail
<1>4. I!IdentitiesDoNotMove <=> P!IdentitiesDoNotMove
  BY DEF I!IdentitiesDoNotMove, P!IdentitiesDoNotMove, I!Linked, P!Linked,
         I!NoRow, P!NoRow, I!Nobody, P!Nobody
<1>5. P!vars = <<account, identity, born, lastId, request, crossed>>
  BY DEF P!vars
<1>6. I!Next <=> P!Next
  BY DEF I!Next, P!Next, I!NoAccount, P!NoAccount, I!NoRow, P!NoRow, I!Idle,
         P!Idle, I!NoEmail, P!NoEmail, I!Nobody, P!Nobody, I!Exists, P!Exists,
         I!Linked, P!Linked, I!Of, P!Of, I!WithEmail, P!WithEmail, I!At, P!At,
         I!Go, P!Go, I!Goto, P!Goto, I!Done, P!Done, I!Still, P!Still,
         I!Address, P!Address, I!Login, P!Login, I!ByEmail, P!ByEmail,
         I!Create, P!Create, I!StartLink, P!StartLink, I!FindLink, P!FindLink,
         I!Link, P!Link, I!Touch, P!Touch, I!Save, P!Save, I!Unlinking,
         P!Unlinking, I!StartUnlink, P!StartUnlink, I!UnlinkUser,
         P!UnlinkUser, I!Others, P!Others, I!UnlinkOthers, P!UnlinkOthers,
         I!Unlink, P!Unlink, I!Register, P!Register, I!ChangeEmail, P!ChangeEmail, I!SetPassword,
         P!SetPassword, I!Delete, P!Delete
<1> QED
  BY <1>1, <1>2, <1>3, <1>4, <1>5, <1>6

IdentitiesInv == part = "identities" => P!AllInv

LEMMA IdentitiesKept ==
  ASSUME "nobody" \notin People, "none" \notin Mailboxes \cup Profiles, MaxRows \in Nat
  PROVE  /\ AccountsInit => IdentitiesInv
         /\ IdentitiesInv /\ [AccountsNext]_all => IdentitiesInv'
         /\ IdentitiesInv => EverybodyCanLogIn
<1>1. P!Nobody \notin People /\ P!NoEmail \notin Mailboxes \cup Profiles
  BY DEF P!Nobody, P!NoEmail
<1>2. AccountsInit => IdentitiesInv
  <2>1. AccountsInit /\ part = "identities" => P!Init
    BY SameIdentities DEF AccountsInit
  <2> QED
    BY <1>1, <2>1, P!AllStarts DEF IdentitiesInv
<1>3. IdentitiesInv /\ [AccountsNext]_all => IdentitiesInv'
  <2> SUFFICES ASSUME IdentitiesInv, [AccountsNext]_all, part' = "identities" PROVE P!AllInv'
    BY DEF IdentitiesInv
  <2>1. part = "identities"
    BY DEF AccountsNext, all
  <2>2. CASE UNCHANGED all
    <3>1. UNCHANGED <<account, identity, born, lastId, request, crossed>>
      BY <2>2 DEF all, logins
    <3>2. UNCHANGED P!vars
      BY <3>1 DEF P!vars
    <3> QED
      BY <1>1, <2>1, <3>2, P!AllStays DEF IdentitiesInv
  <2>3. CASE AccountsNext
    <3>1. P!Next
      BY <2>1, <2>3, SameIdentities DEF AccountsNext
    <3> QED
      BY <1>1, <2>1, <3>1, P!AllStays DEF IdentitiesInv
  <2> QED
    BY <2>2, <2>3
<1>4. IdentitiesInv => EverybodyCanLogIn
  BY SameIdentities, P!AllMeans DEF IdentitiesInv, EverybodyCanLogIn
<1> QED
  BY <1>2, <1>3, <1>4

(* Every account keeps a way to log in unless two unlinks of it overlap,   *)
(* and a link belongs to a user who exists.                                *)
THEOREM EverybodyKeepsALogin ==
  ASSUME "nobody" \notin People, "none" \notin Mailboxes \cup Profiles, MaxRows \in Nat
  PROVE  AccountsSpec => []EverybodyCanLogIn
BY IdentitiesKept, PTL DEF AccountsSpec

(* No step gives an account of a provider to another user: the unique      *)
(* index decides, whatever logins are about to insert again.               *)
THEOREM NoIdentityMoves ==
  ASSUME "nobody" \notin People, "none" \notin Mailboxes \cup Profiles, MaxRows \in Nat
  PROVE  AccountsSpec => IdentitiesDoNotMove
<1>1. IdentitiesInv /\ [AccountsNext]_all => [part = "identities" => I!IdentitiesDoNotMove]_all
  <2> SUFFICES ASSUME IdentitiesInv, AccountsNext, part = "identities" PROVE I!IdentitiesDoNotMove
    OBVIOUS
  <2>1. P!Next /\ P!RowInv
    BY SameIdentities DEF AccountsNext, IdentitiesInv, P!AllInv
  <2> QED
    BY <2>1, SameIdentities, P!StepsMoveNoIdentity
<1> QED
  BY <1>1, IdentitiesKept, PTL DEF AccountsSpec, IdentitiesDoNotMove
-----------------------------------------------------------------------------
(* The rows, the mails and the requests of AccountMails, with their types. *)
MailRow == [email : Emails \cup {"none"}, verified : BOOLEAN, verify : Nat, reset : Nat,
            pending : Emails \cup {"none"}, pendingToken : Nat]
MailLink == [kind : {"verify", "reset", "change"}, user : Users, to : Emails]
MailCall == [pc    : M!Origins \cup {"idle", "verifyLink", "resetLink", "changeLink",
                                   "verify", "reset", "check", "change", "edit"},
             user  : Users \cup {0},
             email : Emails \cup {"none"},
             link  : Nat]

MailsTyped ==
  row \in [Users -> MailRow] /\ links \in Seq(MailLink) /\ request \in [Calls -> MailCall]

IsLink(ls, n, kind, u) == n \in 1 .. Len(ls) /\ ls[n].kind = kind /\ ls[n].user = u

(* The tokens of a row stand for links that were mailed to its user, and   *)
(* that of the change for one mailed to the address that is pending.       *)
RowKnows(ls, x, u) ==
  /\ x.email = "none" => x = M!NoRow
  /\ x.verify # 0 => IsLink(ls, x.verify, "verify", u)
  /\ x.reset # 0 => IsLink(ls, x.reset, "reset", u)
  /\ x.pendingToken # 0 => IsLink(ls, x.pendingToken, "change", u) /\ ls[x.pendingToken].to = x.pending
  /\ x.pendingToken = 0 => x.pending = "none"

(* A request under way carries a link of its own kind and user, and one    *)
(* that will confirm an address the link that was mailed there.            *)
CallKnows(ls, g, c) ==
  /\ c.link # 0 => c.link \in 1 .. Len(ls)
  /\ c.pc \notin {"idle", "verify", "reset"} => c.email \in Emails
  /\ c.pc \notin M!Origins \cup {"idle"} => c.user \in Users
  /\ c.pc = "verifyLink" => <<c.user, c.email, "registration">> \in g
  /\ c.pc = "verify" => IsLink(ls, c.link, "verify", c.user)
  /\ c.pc = "reset" => IsLink(ls, c.link, "reset", c.user)
  /\ c.pc \in {"check", "change"} => IsLink(ls, c.link, "change", c.user) /\ ls[c.link].to = c.email

(* Where the address of a row is from, and who vouches for it.             *)
Own(x, u, g, p) ==
  (\E by \in M!Origins \cup {"office"} : <<u, x.email, by>> \in g) \/ <<u, x.email>> \in p
Vouched(x, u, g, p) ==
  x.verified => <<u, x.email>> \in p \/ \E by \in {"office", "vouched"} : <<u, x.email, by>> \in g

RowsKnow  == \A u \in Users : RowKnows(links, row[u], u)
RowsOwn   == \A u \in Users : M!Exists(u) => Own(row[u], u, typed, proved) /\ u \in M!Known
RowsVouch == \A u \in Users : Vouched(row[u], u, typed, proved)
CallsKnow == \A r \in Calls : CallKnows(links, typed, request[r])

EmailsDiffer == \A u, v \in Users : M!Exists(u) /\ row[u].email = row[v].email => u = v

(* An account is created once, and a confirmation goes to the address that *)
(* was typed at the registration.                                          *)
Counted == \E k \in Nat : M!Known = 1 .. k
Once ==
  \A g, h \in typed : g[1] = h[1] /\ g[3] \in M!Origins /\ h[3] \in M!Origins => g = h
Confirming ==
  \A n \in 1 .. Len(links) :
    links[n].kind = "verify" => <<links[n].user, links[n].to, "registration">> \in typed

RowsInv == RowsKnow /\ EmailsDiffer /\ RowsOwn /\ RowsVouch
Registered == Counted /\ Once /\ Confirming
MailsInv == MailsTyped /\ RowsInv /\ CallsKnow /\ Registered

USE DEF M!Origins

(* The mails and the histories only grow. *)
Grows ==
  /\ links' \in Seq(MailLink) /\ Len(links) <= Len(links')
  /\ \A n \in 1 .. Len(links) : links'[n] = links[n]
  /\ typed \subseteq typed' /\ proved \subseteq proved'

LEMMA KnowledgeStays ==
  ASSUME MailsTyped, Grows
  PROVE  /\ \A x \in MailRow, u \in Users :
              /\ RowKnows(links, x, u) => RowKnows(links', x, u)
              /\ Own(x, u, typed, proved) => Own(x, u, typed', proved')
              /\ Vouched(x, u, typed, proved) => Vouched(x, u, typed', proved')
         /\ \A c \in MailCall : CallKnows(links, typed, c) => CallKnows(links', typed', c)
<1>1. Len(links) \in Nat /\ Len(links') \in Nat
  BY DEF MailsTyped, Grows
<1>2. \A n, kind, u : IsLink(links, n, kind, u) => IsLink(links', n, kind, u) /\ links'[n] = links[n]
  BY <1>1 DEF IsLink, Grows
<1>3. \A x \in MailRow, u \in Users : RowKnows(links, x, u) => RowKnows(links', x, u)
  BY <1>2 DEF RowKnows
<1>4. \A c \in MailCall : CallKnows(links, typed, c) => CallKnows(links', typed', c)
  BY <1>1, <1>2 DEF CallKnows, Grows
<1> QED
  BY <1>3, <1>4 DEF Own, Vouched, Grows

(* A step that moves one request to what it may know. *)
Moves(r, c) ==
  /\ r \in Calls /\ c \in MailCall /\ request' = [request EXCEPT ![r] = c]
  /\ CallKnows(links', typed', c)

LEMMA CallsStay ==
  ASSUME MailsTyped, CallsKnow, Grows, request' = request \/ \E r, c : Moves(r, c)
  PROVE  request' \in [Calls -> MailCall] /\ CallsKnow'
<1>1. \A r \in Calls : request[r] \in MailCall /\ CallKnows(links', typed', request[r])
  BY KnowledgeStays DEF MailsTyped, CallsKnow
<1>2. CASE request' = request
  BY <1>1, <1>2 DEF MailsTyped, CallsKnow
<1>3. ASSUME NEW r, NEW c, Moves(r, c) PROVE request' \in [Calls -> MailCall] /\ CallsKnow'
  <2>1. r \in Calls /\ c \in MailCall /\ request' = [request EXCEPT ![r] = c] /\ CallKnows(links', typed', c)
    BY <1>3 DEF Moves
  <2>2. \A q \in Calls : request'[q] = IF q = r THEN c ELSE request[q]
    BY <2>1 DEF MailsTyped
  <2> QED
    BY <1>1, <2>1, <2>2 DEF MailsTyped, CallsKnow
<1> QED
  BY <1>2, <1>3

(* A step that writes one row. *)
Writes(w, x) ==
  /\ w \in Users /\ x \in MailRow /\ row' = [row EXCEPT ![w] = x]
  /\ RowKnows(links', x, w)
  /\ x = M!NoRow \/ x.email = row[w].email \/ M!WithEmail(x.email) \subseteq {w}
  /\ x # M!NoRow => Own(x, w, typed', proved') /\ \E g \in typed' : w = g[1]
  /\ Vouched(x, w, typed', proved')

LEMMA RowsStay ==
  ASSUME MailsTyped, RowsInv, Grows, row' = row \/ \E w, x : Writes(w, x)
  PROVE  row' \in [Users -> MailRow] /\ RowsInv'
<1>1. \A u \in Users : /\ row[u] \in MailRow /\ RowKnows(links', row[u], u)
                       /\ Vouched(row[u], u, typed', proved')
                       /\ M!Exists(u) => Own(row[u], u, typed', proved') /\ \E g \in typed' : u = g[1]
  BY KnowledgeStays DEF MailsTyped, RowsInv, RowsKnow, RowsOwn, RowsVouch, M!Known, Grows
<1>2. CASE row' = row
  BY <1>1, <1>2 DEF MailsTyped, RowsInv, RowsKnow, RowsOwn, RowsVouch, EmailsDiffer, M!Exists, M!Known
<1>3. ASSUME NEW w, NEW x, Writes(w, x) PROVE row' \in [Users -> MailRow] /\ RowsInv'
  <2>1. w \in Users /\ x \in MailRow /\ row' = [row EXCEPT ![w] = x]
    BY <1>3 DEF Writes
  <2>2. \A u \in Users : row'[u] = IF u = w THEN x ELSE row[u]
    BY <2>1 DEF MailsTyped
  <2>3. RowsKnow' /\ RowsVouch'
    BY <1>1, <1>3, <2>2 DEF Writes, RowsKnow, RowsVouch
  <2>4. RowsOwn'
    BY <1>1, <1>3, <2>2 DEF Writes, RowsOwn, M!Exists, M!Known
  <2>5. M!NoRow.email = "none" /\ \A u \in Users : row[u].email = "none" => ~ M!Exists(u)
    BY DEF M!NoRow, M!NoEmail, RowsInv, RowsKnow, RowKnows, M!Exists
  <2>6. x.email = "none" => x = M!NoRow
    BY <1>3 DEF Writes, RowKnows
  <2>7. ASSUME NEW v \in Users, v # w, x # M!NoRow, row[v].email = x.email PROVE FALSE
    <3>1. x.email # "none"
      BY <2>6, <2>7
    <3>2. CASE x.email = row[w].email
      <4>1. M!Exists(w)
        BY <2>5, <3>1, <3>2 DEF M!Exists
      <4> QED
        BY <2>1, <2>7, <3>2, <4>1 DEF RowsInv, EmailsDiffer
    <3>3. CASE M!WithEmail(x.email) \subseteq {w}
      BY <2>7, <3>3 DEF M!WithEmail
    <3> QED
      BY <1>3, <2>7, <3>2, <3>3 DEF Writes
  <2>8. ASSUME NEW u \in Users, NEW v \in Users, row'[u] # M!NoRow, row'[u].email = row'[v].email
        PROVE  u = v
    <3>1. CASE u # w /\ v # w
      BY <2>2, <2>8, <3>1 DEF RowsInv, EmailsDiffer, M!Exists
    <3>2. CASE u = w /\ v # w
      BY <2>2, <2>7, <2>8, <3>2
    <3>3. CASE u # w /\ v = w
      <4>1. row[u].email # "none" /\ row[u].email = x.email
        BY <2>2, <2>5, <2>8, <3>3 DEF M!Exists
      <4> QED
        BY <2>5, <2>7, <3>3, <4>1
    <3> QED
      BY <3>1, <3>2, <3>3
  <2>9. EmailsDiffer'
    BY <2>8 DEF EmailsDiffer, M!Exists
  <2> QED
    BY <2>1, <2>3, <2>4, <2>9 DEF MailsTyped, RowsInv
<1> QED
  BY <1>2, <1>3

(* Where nothing is mailed and nobody is registered, and where a mail is.  *)
LEMMA NothingGrows ==
  ASSUME MailsTyped, Registered, UNCHANGED links, typed' = typed, proved \subseteq proved'
  PROVE  Grows /\ Registered'
<1>1. Grows
  BY DEF Grows, MailsTyped
<1>2. Registered'
  BY DEF Registered, Counted, Once, Confirming, M!Known
<1> QED
  BY <1>1, <1>2

LEMMA AMailGrows ==
  ASSUME MailsTyped, Registered, NEW l \in MailLink, links' = Append(links, l), UNCHANGED <<typed, proved>>,
         l.kind = "verify" => <<l.user, l.to, "registration">> \in typed
  PROVE  Grows /\ Registered' /\ Len(links') = Len(links) + 1 /\ links'[Len(links) + 1] = l
<1>1. /\ links' \in Seq(MailLink) /\ Len(links') = Len(links) + 1 /\ links'[Len(links) + 1] = l
      /\ Len(links) \in Nat /\ \A n \in 1 .. Len(links) : links'[n] = links[n]
  BY DEF MailsTyped
<1>2. Grows
  BY <1>1 DEF Grows
<1>3. ASSUME NEW n \in 1 .. Len(links'), links'[n].kind = "verify"
      PROVE  <<links'[n].user, links'[n].to, "registration">> \in typed'
  <2>1. n \in 1 .. Len(links) \/ n = Len(links) + 1
    BY <1>1
  <2> QED
    BY <1>1, <1>3, <2>1 DEF Registered, Confirming
<1>4. Registered'
  BY <1>3 DEF Registered, Counted, Once, Confirming, M!Known
<1> QED
  BY <1>1, <1>2, <1>4

(* Where a request moves, and the rest stays. *)
LEMMA OnlyARequestMoves ==
  ASSUME MailsInv, NEW r \in Calls, NEW c \in MailCall, request' = [request EXCEPT ![r] = c],
         CallKnows(links, typed, c), UNCHANGED <<row, links, proved, typed>>
  PROVE  MailsInv'
<1>1. Grows /\ Registered'
  BY NothingGrows DEF MailsInv
<1>2. Moves(r, c)
  BY DEF Moves
<1> QED
  BY <1>1, <1>2, CallsStay, RowsStay DEF MailsInv, MailsTyped, Grows

LEMMA IdleKnowsNothing ==
  /\ M!Idle \in MailCall
  /\ \A ls, g : CallKnows(ls, g, M!Idle)
BY DEF M!Idle, M!NoEmail, MailCall, CallKnows

LEMMA RowsOfUsers ==
  ASSUME "none" \notin Emails, MailsInv, NEW u \in Users
  PROVE  /\ row[u] \in MailRow /\ RowKnows(links, row[u], u) /\ Vouched(row[u], u, typed, proved)
         /\ M!Exists(u) => /\ row[u].email \in Emails /\ Own(row[u], u, typed, proved)
                           /\ \E g \in typed : u = g[1]
BY DEF MailsInv, MailsTyped, RowsInv, RowsKnow, RowsOwn, RowsVouch, RowKnows, M!Exists, M!Known, MailRow

(* Requests that begin, and those that look for their link. *)
LEMMA RequestsBegin ==
  ASSUME "none" \notin Emails, MailsInv, NEW r \in Calls, NEW u \in Users, NEW e \in Emails,
         M!Forgot(r, u) \/ M!RequestChange(r, u, e) \/ M!Edit(r, u, e)
  PROVE  MailsInv'
<1> DEFINE C(pc, w, m) == [pc |-> pc, user |-> w, email |-> m, link |-> 0]
<1>1. UNCHANGED <<row, links, proved, typed>>
  BY DEF M!Forgot, M!RequestChange, M!Edit, M!Still
<1>2. CASE M!Forgot(r, u)
  <2>1. request' = [request EXCEPT ![r] = C("resetLink", u, row[u].email)] /\ row[u].email \in Emails
    BY <1>2, RowsOfUsers DEF M!Forgot, M!Go
  <2>2. C("resetLink", u, row[u].email) \in MailCall /\ CallKnows(links, typed, C("resetLink", u, row[u].email))
    BY <2>1 DEF MailCall, CallKnows
  <2> QED
    BY <1>1, <2>1, <2>2, OnlyARequestMoves
<1>3. CASE M!RequestChange(r, u, e)
  <2>1. request' = [request EXCEPT ![r] = C("changeLink", u, e)]
    BY <1>3 DEF M!RequestChange, M!Go
  <2>2. C("changeLink", u, e) \in MailCall /\ CallKnows(links, typed, C("changeLink", u, e))
    BY DEF MailCall, CallKnows
  <2> QED
    BY <1>1, <2>1, <2>2, OnlyARequestMoves
<1>4. CASE M!Edit(r, u, e)
  <2>1. request' = [request EXCEPT ![r] = C("edit", u, e)]
    BY <1>4 DEF M!Edit, M!Go
  <2>2. C("edit", u, e) \in MailCall /\ CallKnows(links, typed, C("edit", u, e))
    BY DEF MailCall, CallKnows
  <2> QED
    BY <1>1, <2>1, <2>2, OnlyARequestMoves
<1> QED
  BY <1>2, <1>3, <1>4

LEMMA RequestsFind ==
  ASSUME "none" \notin Emails, MailsInv, NEW r \in Calls, NEW n \in DOMAIN links,
         M!FindVerify(r, n) \/ M!FindReset(r, n) \/ M!FindChange(r, n)
  PROVE  MailsInv'
<1> DEFINE C(pc, w, m) == [pc |-> pc, user |-> w, email |-> m, link |-> n]
<1>1. UNCHANGED <<row, links, proved, typed>>
  BY DEF M!FindVerify, M!FindReset, M!FindChange, M!Still
<1>2. n \in 1 .. Len(links) /\ n # 0 /\ n \in Nat /\ links[n] \in MailLink
  BY DEF MailsInv, MailsTyped
<1>3. CASE M!FindVerify(r, n)
  <2>1. PICK u \in Users : row[u].verify = n /\ request' = [request EXCEPT ![r] = C("verify", u, "none")]
    BY <1>3 DEF M!FindVerify, M!Visible, M!Go, M!NoEmail
  <2>2. C("verify", u, "none") \in MailCall /\ CallKnows(links, typed, C("verify", u, "none"))
    BY <1>2, <2>1, RowsOfUsers DEF MailCall, CallKnows, RowKnows
  <2> QED
    BY <1>1, <2>1, <2>2, OnlyARequestMoves
<1>4. CASE M!FindReset(r, n)
  <2>1. PICK u \in Users : row[u].reset = n /\ request' = [request EXCEPT ![r] = C("reset", u, "none")]
    BY <1>4 DEF M!FindReset, M!Visible, M!Go, M!NoEmail
  <2>2. C("reset", u, "none") \in MailCall /\ CallKnows(links, typed, C("reset", u, "none"))
    BY <1>2, <2>1, RowsOfUsers DEF MailCall, CallKnows, RowKnows
  <2> QED
    BY <1>1, <2>1, <2>2, OnlyARequestMoves
<1>5. CASE M!FindChange(r, n)
  <2>1. PICK u \in Users : /\ row[u].pendingToken = n
                           /\ request' = [request EXCEPT ![r] = C("check", u, row[u].pending)]
    BY <1>5 DEF M!FindChange, M!Go
  <2>2. IsLink(links, n, "change", u) /\ links[n].to = row[u].pending
    BY <1>2, <2>1, RowsOfUsers DEF RowKnows
  <2>3. row[u].pending \in Emails
    BY <1>2, <2>2 DEF MailLink
  <2>4. C("check", u, row[u].pending) \in MailCall /\ CallKnows(links, typed, C("check", u, row[u].pending))
    BY <1>2, <2>2, <2>3 DEF MailCall, CallKnows
  <2> QED
    BY <1>1, <2>1, <2>4, OnlyARequestMoves
<1> QED
  BY <1>3, <1>4, <1>5

LEMMA RequestsCheck ==
  ASSUME MailsInv, NEW r \in Calls, M!CheckChange(r)
  PROVE  MailsInv'
<1>1. UNCHANGED <<row, links, proved, typed>> /\ request[r].pc = "check"
  BY DEF M!CheckChange, M!Still, M!At
<1>2. request[r] \in MailCall /\ CallKnows(links, typed, request[r]) /\ request \in [Calls -> MailCall]
  BY DEF MailsInv, MailsTyped, CallsKnow
<1> DEFINE c == [request[r] EXCEPT !.pc = "change"]
<1>3. c \in MailCall /\ CallKnows(links, typed, c)
  BY <1>1, <1>2 DEF MailCall, CallKnows
<1>4. request' = [request EXCEPT ![r] = c] \/ request' = [request EXCEPT ![r] = M!Idle]
  BY <1>2 DEF M!CheckChange, M!Done
<1> HIDE DEF c
<1> QED
  BY <1>1, <1>3, <1>4, OnlyARequestMoves, IdleKnowsNothing

(* Requests that end: what they write is all that is left to show.         *)
LEMMA ARequestEnds ==
  ASSUME MailsInv, NEW r \in Calls, request' = [request EXCEPT ![r] = M!Idle], Grows, Registered',
         row' = row \/ \E w, x : Writes(w, x)
  PROVE  MailsInv'
<1>1. Moves(r, M!Idle)
  BY IdleKnowsNothing DEF Moves
<1>2. request' \in [Calls -> MailCall] /\ CallsKnow'
  BY <1>1, CallsStay DEF MailsInv
<1>3. row' \in [Users -> MailRow] /\ RowsInv'
  BY RowsStay DEF MailsInv
<1> QED
  BY <1>2, <1>3 DEF MailsInv, MailsTyped, Grows

LEMMA LinksAreIssued ==
  ASSUME "none" \notin Emails, MailsInv, NEW r \in Calls,
         M!IssueVerify(r) \/ M!IssueReset(r) \/ M!IssueChange(r)
  PROVE  MailsInv'
<1> DEFINE u == request[r].user
           n == Len(links) + 1
           e == request[r].email
<1>1. /\ request' = [request EXCEPT ![r] = M!Idle] /\ UNCHANGED <<typed, proved>>
      /\ u \in Users /\ e \in Emails /\ n \in Nat /\ n # 0
      /\ request[r].pc = "verifyLink" => <<u, e, "registration">> \in typed
      /\ MailsTyped /\ Registered
  <2>1. request[r].pc \in {"verifyLink", "resetLink", "changeLink"} /\ request' = [request EXCEPT ![r] = M!Idle]
        /\ UNCHANGED <<typed, proved>>
    BY DEF M!IssueVerify, M!IssueReset, M!IssueChange, M!Done, M!At
  <2>2. MailsTyped /\ Registered /\ CallKnows(links, typed, request[r]) /\ n \in Nat /\ n # 0
    BY DEF MailsInv, MailsTyped, CallsKnow
  <2>3. u \in Users /\ e \in Emails /\ (request[r].pc = "verifyLink" => <<u, e, "registration">> \in typed)
    BY <2>1, <2>2 DEF CallKnows
  <2> QED
    BY <2>1, <2>2, <2>3
<1>2. CASE ~ M!Exists(u)
  <2>1. UNCHANGED <<row, links>>
    BY <1>2 DEF M!IssueVerify, M!IssueReset, M!IssueChange
  <2> QED
    BY <1>1, <2>1, NothingGrows, ARequestEnds
<1>3. ASSUME NEW l \in MailLink, l.user = u, links' = Append(links, l),
             l.kind = "verify" => <<u, l.to, "registration">> \in typed,
             M!Exists(u), NEW x \in MailRow, row' = [row EXCEPT ![u] = x],
             x.email = row[u].email, x.verified = row[u].verified,
             x.verify = IF l.kind = "verify" THEN n ELSE row[u].verify,
             x.reset = IF l.kind = "reset" THEN n ELSE row[u].reset,
             x.pendingToken = IF l.kind = "change" THEN n ELSE row[u].pendingToken,
             x.pending = IF l.kind = "change" THEN l.to ELSE row[u].pending
      PROVE  MailsInv'
  <2>1. Grows /\ Registered' /\ Len(links') = n /\ links'[n] = l
    BY <1>1, <1>3, AMailGrows
  <2>2. /\ RowKnows(links', row[u], u) /\ Vouched(row[u], u, typed', proved')
        /\ row[u].email \in Emails /\ Own(row[u], u, typed', proved') /\ \E g \in typed' : u = g[1]
    BY <1>1, <1>3, <2>1, KnowledgeStays, RowsOfUsers DEF Grows
  <2>3. IsLink(links', n, l.kind, u)
    BY <1>1, <1>3, <2>1 DEF IsLink
  <2>4. x.email \in Emails /\ x # M!NoRow
    BY <1>3, <2>2 DEF M!NoRow, M!NoEmail
  <2>5. RowKnows(links', x, u)
    BY <1>1, <1>3, <2>1, <2>2, <2>3, <2>4 DEF RowKnows, MailLink
  <2>6. Own(x, u, typed', proved') /\ Vouched(x, u, typed', proved')
    BY <1>3, <2>2 DEF Own, Vouched
  <2>7. Writes(u, x)
    BY <1>1, <1>3, <2>2, <2>5, <2>6 DEF Writes
  <2> QED
    BY <1>1, <2>1, <2>7, ARequestEnds
<1>4. ASSUME NEW kind \in {"verify", "reset", "change"}
      PROVE  LET l == [kind |-> kind, user |-> u, to |-> e]
             IN  l \in MailLink /\ l.kind = kind /\ l.user = u /\ l.to = e
  BY <1>1 DEF MailLink
<1>5. CASE M!IssueVerify(r) /\ M!Exists(u)
  <2> DEFINE x == [row[u] EXCEPT !.verify = n]
  <2>1. links' = Append(links, [kind |-> "verify", user |-> u, to |-> e]) /\ row' = [row EXCEPT ![u] = x]
    BY <1>5, <1>1 DEF M!IssueVerify, M!Mail, M!NextLink, MailsTyped
  <2>2. x \in MailRow /\ x.email = row[u].email /\ x.verified = row[u].verified /\ x.verify = n
        /\ x.reset = row[u].reset /\ x.pendingToken = row[u].pendingToken /\ x.pending = row[u].pending
    BY <1>1 DEF MailsTyped, MailRow
  <2>3. request[r].pc = "verifyLink"
    BY <1>5 DEF M!IssueVerify, M!At
  <2> HIDE DEF x
  <2> QED
    BY <1>1, <1>3, <1>4, <1>5, <2>1, <2>2, <2>3
<1>6. CASE M!IssueReset(r) /\ M!Exists(u)
  <2> DEFINE x == [row[u] EXCEPT !.reset = n]
  <2>1. links' = Append(links, [kind |-> "reset", user |-> u, to |-> e]) /\ row' = [row EXCEPT ![u] = x]
    BY <1>6, <1>1 DEF M!IssueReset, M!Mail, M!NextLink, MailsTyped
  <2>2. x \in MailRow /\ x.email = row[u].email /\ x.verified = row[u].verified /\ x.verify = row[u].verify
        /\ x.reset = n /\ x.pendingToken = row[u].pendingToken /\ x.pending = row[u].pending
    BY <1>1 DEF MailsTyped, MailRow
  <2> HIDE DEF x
  <2> QED
    BY <1>1, <1>3, <1>4, <1>6, <2>1, <2>2
<1>7. CASE M!IssueChange(r) /\ M!Exists(u)
  <2> DEFINE x == [row[u] EXCEPT !.pending = e, !.pendingToken = n]
  <2>1. links' = Append(links, [kind |-> "change", user |-> u, to |-> e]) /\ row' = [row EXCEPT ![u] = x]
    BY <1>7, <1>1 DEF M!IssueChange, M!Mail, M!NextLink, MailsTyped
  <2>2. x \in MailRow /\ x.email = row[u].email /\ x.verified = row[u].verified /\ x.verify = row[u].verify
        /\ x.reset = row[u].reset /\ x.pendingToken = n /\ x.pending = e
    BY <1>1 DEF MailsTyped, MailRow
  <2> HIDE DEF x
  <2> QED
    BY <1>1, <1>3, <1>4, <1>7, <2>1, <2>2
<1> QED
  BY <1>2, <1>5, <1>6, <1>7

LEMMA SameCardinality == \A S : M!Cardinality(S) = Cardinality(S)
BY DEF M!Cardinality, Cardinality

LEMMA UsersAreInserted ==
  ASSUME "none" \notin Emails, MailsInv, NEW r \in Calls, NEW u \in Users, M!Insert(r, u)
  PROVE  MailsInv'
<1> DEFINE e == request[r].email
           o == request[r].pc
           g == <<u, e, o>>
           x == M!NewRow(e, o)
           c == [pc |-> "verifyLink", user |-> u, email |-> e, link |-> 0]
<1>1. e \in Emails /\ o \in M!Origins /\ MailsTyped /\ Registered
  BY DEF M!Insert, MailsInv, MailsTyped, CallsKnow, CallKnows, M!Origins
<1>2. CASE ~ M!Free(e)
  <2>1. request' = [request EXCEPT ![r] = M!Idle] /\ UNCHANGED <<row, links, typed, proved>>
    BY <1>2 DEF M!Insert, M!Done
  <2> QED
    BY <1>1, <2>1, NothingGrows, ARequestEnds
<1>3. CASE M!Free(e)
  <2>1. /\ row' = [row EXCEPT ![u] = x] /\ typed' = typed \cup {g} /\ UNCHANGED <<links, proved>>
        /\ u = Cardinality(M!Known) + 1
        /\ \/ o = "registration" /\ request' = [request EXCEPT ![r] = c]
           \/ request' = [request EXCEPT ![r] = M!Idle]
    BY <1>3, SameCardinality DEF M!Insert, M!Go, M!Done
  <2>2. PICK k \in Nat : M!Known = 1 .. k
    BY <1>1 DEF Registered, Counted
  <2>3. u = k + 1
    <3>1. Cardinality(1 .. k) = k
      BY FS_Interval
    <3> HIDE DEF x, c, g
    <3> QED
      BY <2>1, <2>2, <3>1
  <2>4. \A h \in typed : h[1] # u
    BY <2>2, <2>3 DEF M!Known
  <2>5. Grows
    BY <1>1, <2>1 DEF Grows, MailsTyped
  <2>6. M!Known' = 1 .. (k + 1)
    <3> HIDE DEF g
    <3>1. M!Known' = M!Known \cup {g[1]}
      BY <2>1 DEF M!Known
    <3>2. g[1] = u
      BY DEF g
    <3> QED
      BY <2>2, <2>3, <3>1, <3>2
  <2>7. Once'
    <3>1. g[1] = u
      OBVIOUS
    <3> HIDE DEF g
    <3> QED
      BY <1>1, <2>1, <2>4, <3>1 DEF Registered, Once
  <2>8. Registered'
    <3>1. k + 1 \in Nat
      OBVIOUS
    <3>2. Counted'
      BY <2>6, <3>1 DEF Counted
    <3>3. Confirming'
      BY <1>1, <2>1 DEF Registered, Confirming
    <3> QED
      BY <2>7, <3>2, <3>3 DEF Registered
  <2>9. /\ x \in MailRow /\ x.email = e /\ x.verified = (o = "vouched") /\ x.verify = 0 /\ x.reset = 0
        /\ x.pending = "none" /\ x.pendingToken = 0
    BY <1>1 DEF M!NewRow, M!NoRow, M!NoEmail, MailRow
  <2> HIDE DEF x
  <2>10. RowKnows(links', x, u) /\ Own(x, u, typed', proved') /\ Vouched(x, u, typed', proved')
    BY <1>1, <2>1, <2>9 DEF RowKnows, Own, Vouched
  <2>11. M!WithEmail(x.email) \subseteq {u}
    BY <1>3, <2>9 DEF M!Free
  <2>12. \E h \in typed' : u = h[1]
    <3>1. g \in typed' /\ g[1] = u
      BY <2>1
    <3> HIDE DEF g
    <3> QED
      BY <3>1
  <2>13. Writes(u, x)
    BY <2>1, <2>9, <2>10, <2>11, <2>12 DEF Writes
  <2>14. Moves(r, c) \/ Moves(r, M!Idle)
    <3>1. c \in MailCall
      BY <1>1 DEF MailCall, M!Origins
    <3>2. o = "registration" => CallKnows(links', typed', c)
      BY <1>1, <2>1 DEF CallKnows, M!Origins
    <3> QED
      BY <2>1, <3>1, <3>2, IdleKnowsNothing DEF Moves
  <2>15. request' \in [Calls -> MailCall] /\ CallsKnow'
    BY <2>5, <2>14, CallsStay DEF MailsInv
  <2>16. row' \in [Users -> MailRow] /\ RowsInv'
    BY <2>5, <2>13, RowsStay DEF MailsInv
  <2> QED
    BY <2>5, <2>8, <2>15, <2>16 DEF MailsInv, MailsTyped, Grows
<1> QED
  BY <1>2, <1>3

LEMMA UsersAreRolledBack ==
  ASSUME MailsInv, NEW r \in Calls, M!RollBack(r)
  PROVE  MailsInv'
<1>1. UNCHANGED <<row, links, proved, typed>> /\ request' = [request EXCEPT ![r] = M!Idle]
  BY DEF M!RollBack, M!Still, M!Done
<1> QED
  BY <1>1, IdleKnowsNothing, OnlyARequestMoves

(* A link is followed: it proves the address it was mailed to. *)
LEMMA LinksAreFollowed ==
  ASSUME "none" \notin Emails, MailsInv, NEW r \in Calls,
         M!Verify(r) \/ M!Reset(r) \/ M!Change(r)
  PROVE  MailsInv'
<1> DEFINE u == request[r].user
           n == request[r].link
           m == links[n].to
<1>1. /\ MailsTyped /\ Registered /\ CallKnows(links, typed, request[r]) /\ u \in Users
      /\ request' = [request EXCEPT ![r] = M!Idle] /\ UNCHANGED <<links, typed>>
      /\ proved' = proved \cup {<<links[n].user, m>>}
      /\ request[r].pc \in {"verify", "reset", "change"}
  BY DEF M!Verify, M!Reset, M!Change, M!Follow, M!Done, M!At, MailsInv, CallsKnow, CallKnows
<1>2. n \in 1 .. Len(links) /\ links[n].user = u /\ <<u, m>> \in proved'
      /\ (request[r].pc = "verify" => links[n].kind = "verify")
      /\ (request[r].pc = "change" => request[r].email = m /\ m \in Emails)
  BY <1>1 DEF CallKnows, IsLink
<1>3. Grows /\ Registered'
  BY <1>1, NothingGrows
<1>4. /\ row[u] \in MailRow /\ RowKnows(links', row[u], u) /\ Vouched(row[u], u, typed', proved')
      /\ M!Exists(u) => /\ row[u].email \in Emails /\ Own(row[u], u, typed', proved')
                        /\ \E g \in typed' : u = g[1]
  BY <1>1, <1>3, KnowledgeStays, RowsOfUsers DEF Grows
<1>5. CASE row' = row
  BY <1>1, <1>3, <1>5, ARequestEnds
<1>6. CASE M!Verify(r) /\ M!Exists(u)
  <2> DEFINE x == [row[u] EXCEPT !.verified = TRUE]
  <2>1. row' = [row EXCEPT ![u] = x]
    BY <1>1, <1>6 DEF M!Verify, MailsTyped
  <2>2. x \in MailRow /\ x.email = row[u].email /\ x.verify = row[u].verify
        /\ x.reset = row[u].reset /\ x.pendingToken = row[u].pendingToken /\ x.pending = row[u].pending
    BY <1>4 DEF MailRow
  <2>3. <<u, m, "registration">> \in typed
    BY <1>1, <1>2, <1>6 DEF Registered, Confirming, M!Verify, M!At
  <2>4. \A by \in M!Origins : <<u, row[u].email, by>> \in typed => row[u].email = m
    BY <1>1, <2>3 DEF Registered, Once, M!Origins
  <2>5. Own(x, u, typed', proved') /\ Vouched(x, u, typed', proved')
    BY <1>1, <1>2, <1>4, <1>6, <2>2, <2>4 DEF Own, Vouched
  <2> HIDE DEF x
  <2>6. RowKnows(links', x, u)
    BY <1>4, <1>6, <2>2 DEF RowKnows
  <2>7. Writes(u, x)
    BY <1>1, <1>4, <1>6, <2>1, <2>2, <2>5, <2>6 DEF Writes
  <2> QED
    BY <1>1, <1>3, <2>7, ARequestEnds
<1>7. CASE M!Change(r) /\ M!Exists(u) /\ M!WithEmail(m) \subseteq {u}
  <2> DEFINE x == [row[u] EXCEPT !.email = m]
  <2>1. row' = [row EXCEPT ![u] = x] /\ m \in Emails
    BY <1>1, <1>2, <1>7 DEF M!Change, M!Confirmed, M!At, MailsTyped
  <2>2. x \in MailRow /\ x.email = m /\ x.verified = row[u].verified /\ x.verify = row[u].verify
        /\ x.reset = row[u].reset /\ x.pendingToken = row[u].pendingToken /\ x.pending = row[u].pending
    BY <1>4, <2>1 DEF MailRow
  <2> HIDE DEF x
  <2>3. Own(x, u, typed', proved') /\ Vouched(x, u, typed', proved')
    BY <1>2, <2>2 DEF Own, Vouched
  <2>4. RowKnows(links', x, u)
    BY <1>4, <2>1, <2>2 DEF RowKnows
  <2>5. Writes(u, x)
    BY <1>1, <1>4, <1>7, <2>1, <2>2, <2>3, <2>4 DEF Writes
  <2> QED
    BY <1>1, <1>3, <2>5, ARequestEnds
<1>8. CASE M!Verify(r) /\ ~ M!Exists(u)
  <2>1. row' = row
    BY <1>1, <1>8 DEF M!Verify, MailsTyped
  <2> QED
    BY <1>5, <2>1
<1>9. M!Reset(r) => row' = row
  BY DEF M!Reset
<1>10. M!Change(r) => row' = row \/ (M!Exists(u) /\ M!WithEmail(m) \subseteq {u})
  BY <1>2 DEF M!Change, M!Confirmed, M!At
<1> QED
  BY <1>5, <1>6, <1>7, <1>8, <1>9, <1>10

(* The office writes a row, or deletes it. *)
LEMMA TheOfficeWrites ==
  ASSUME "none" \notin Emails, MailsInv, NEW r \in Calls, M!WriteEdit(r)
  PROVE  MailsInv'
<1> DEFINE u == request[r].user
           e == request[r].email
           x == [row[u] EXCEPT !.email = e]
<1>1. /\ MailsTyped /\ Registered /\ u \in Users /\ e \in Emails
      /\ request' = [request EXCEPT ![r] = M!Idle] /\ UNCHANGED <<links, proved>>
  BY DEF M!WriteEdit, M!Done, M!At, MailsInv, CallsKnow, CallKnows
<1>2. CASE ~ (M!Exists(u) /\ M!WithEmail(e) \subseteq {u})
  <2>1. UNCHANGED <<row, typed>>
    BY <1>2 DEF M!WriteEdit
  <2> QED
    BY <1>1, <2>1, NothingGrows, ARequestEnds
<1>3. CASE M!Exists(u) /\ M!WithEmail(e) \subseteq {u}
  <2>1. row' = [row EXCEPT ![u] = x] /\ typed' = typed \cup {<<u, e, "office">>}
    BY <1>1, <1>3 DEF M!WriteEdit, MailsTyped
  <2>2. PICK h \in typed : u = h[1]
    BY <1>3, RowsOfUsers, <1>1
  <2>3. Grows
    BY <1>1, <2>1 DEF Grows, MailsTyped
  <2>4. M!Known' = M!Known
    BY <2>1, <2>2 DEF M!Known
  <2>5. Counted'
    BY <1>1, <2>4 DEF Registered, Counted
  <2>6. Once' /\ Confirming'
    BY <1>1, <2>1 DEF Registered, Once, Confirming
  <2>7. row[u] \in MailRow /\ RowKnows(links', row[u], u)
    BY <1>1, RowsOfUsers
  <2>8. x \in MailRow /\ x.email = e /\ x.verify = row[u].verify
        /\ x.reset = row[u].reset /\ x.pendingToken = row[u].pendingToken /\ x.pending = row[u].pending
    BY <1>1, <2>7 DEF MailRow
  <2> HIDE DEF x
  <2>9. RowKnows(links', x, u) /\ Own(x, u, typed', proved') /\ Vouched(x, u, typed', proved')
    BY <1>1, <2>1, <2>7, <2>8 DEF RowKnows, Own, Vouched
  <2>10. Writes(u, x)
    BY <1>1, <1>3, <2>1, <2>2, <2>8, <2>9 DEF Writes
  <2> QED
    BY <1>1, <2>3, <2>5, <2>6, <2>10, ARequestEnds DEF Registered
<1> QED
  BY <1>2, <1>3

LEMMA UsersAreDeleted ==
  ASSUME MailsInv, NEW u \in Users, M!Delete(u)
  PROVE  MailsInv'
<1>1. M!NoRow \in MailRow /\ RowKnows(links, M!NoRow, u) /\ Vouched(M!NoRow, u, typed, proved)
  BY DEF M!NoRow, M!NoEmail, MailRow, RowKnows, Vouched
<1>2. Writes(u, M!NoRow) /\ UNCHANGED <<links, request, proved, typed>>
  BY <1>1 DEF Writes, M!Delete
<1>3. Grows /\ Registered'
  BY <1>2, NothingGrows DEF MailsInv
<1>4. request' \in [Calls -> MailCall] /\ CallsKnow'
  BY <1>2, <1>3, CallsStay DEF MailsInv
<1>5. row' \in [Users -> MailRow] /\ RowsInv'
  BY <1>2, <1>3, RowsStay DEF MailsInv
<1> QED
  BY <1>3, <1>4, <1>5 DEF MailsInv, MailsTyped, Grows

LEMMA MailsStart ==
  ASSUME "none" \notin Emails, M!Init
  PROVE  MailsInv
<1>1. PICK e \in Emails :
        /\ row = [u \in Users |-> IF u = 1 THEN M!NewRow(e, "registration") ELSE M!NoRow] /\ links = <<>>
        /\ request = [r \in Calls |-> M!Idle]
        /\ proved = {} /\ typed = {<<1, e, "registration">>}
  BY DEF M!Init
<1> DEFINE g == <<1, e, "registration">>
<1>2. M!NoRow = [email |-> "none", verified |-> FALSE, verify |-> 0, reset |-> 0,
                 pending |-> "none", pendingToken |-> 0]
  BY DEF M!NoRow, M!NoEmail
<1>3. /\ M!NoRow \in MailRow /\ M!NoRow.email = "none" /\ M!NoRow.verified = FALSE /\ M!NoRow.verify = 0
      /\ M!NoRow.reset = 0 /\ M!NoRow.pendingToken = 0 /\ M!NoRow.pending = "none"
  BY <1>2 DEF MailRow
<1> DEFINE x == M!NewRow(e, "registration")
<1>4. /\ x \in MailRow /\ x.email = e /\ x.verified = FALSE
      /\ x.verify = 0 /\ x.reset = 0 /\ x.pendingToken = 0
      /\ x.pending = "none"
  BY <1>2 DEF M!NewRow, MailRow
<1>5. MailsTyped
  BY <1>1, <1>3, <1>4, IdleKnowsNothing DEF MailsTyped
<1>6. CallsKnow
  BY <1>1, IdleKnowsNothing DEF CallsKnow
<1>7. RowsKnow /\ RowsVouch
  BY <1>1, <1>3, <1>4 DEF RowsKnow, RowKnows, RowsVouch, Vouched
<1>8. EmailsDiffer
  BY <1>1, <1>3, <1>4 DEF EmailsDiffer, M!Exists
<1>9. M!Known = {1}
  <2>1. g[1] = 1 /\ typed = {g}
    BY <1>1
  <2> HIDE DEF g
  <2> QED
    BY <2>1 DEF M!Known
<1>10. RowsOwn
  BY <1>1, <1>4, <1>9 DEF RowsOwn, Own, M!Exists, M!Origins
<1>11. Registered
  <2>1. M!Known = 1 .. 1 /\ 1 \in Nat
    BY <1>9
  <2>2. Counted
    BY <2>1 DEF Counted
  <2>3. Once
    BY <1>1 DEF Once
  <2>4. Confirming
    BY <1>1 DEF Confirming
  <2> QED
    BY <2>2, <2>3, <2>4 DEF Registered
<1> QED
  BY <1>5, <1>6, <1>7, <1>8, <1>10, <1>11 DEF MailsInv, RowsInv

LEMMA MailsStay ==
  ASSUME "none" \notin Emails, MailsInv, M!Next \/ UNCHANGED <<row, links, proved, typed, request>>
  PROVE  MailsInv'
<1>1. CASE UNCHANGED <<row, links, proved, typed, request>>
  <2>1. Grows /\ Registered'
    BY <1>1, NothingGrows DEF MailsInv
  <2>2. request' \in [Calls -> MailCall] /\ CallsKnow'
    BY <1>1, <2>1, CallsStay DEF MailsInv
  <2>3. row' \in [Users -> MailRow] /\ RowsInv'
    BY <1>1, <2>1, RowsStay DEF MailsInv
  <2> QED
    BY <2>1, <2>2, <2>3 DEF MailsInv, MailsTyped, Grows
<1>2. ASSUME NEW r \in Calls, \E u \in Users : M!Forgot(r, u) PROVE MailsInv'
  <2>1. PICK u \in Users : M!Forgot(r, u)
    BY <1>2
  <2>2. row[u].email \in Emails
    BY <2>1, RowsOfUsers DEF M!Forgot
  <2> QED
    BY <2>1, <2>2, RequestsBegin
<1>3. ASSUME NEW r \in Calls, \E e \in Emails : M!Register(r, e) PROVE MailsInv'
  <2>1. PICK e \in Emails : M!Register(r, e)
    BY <1>3
  <2> DEFINE c == [pc |-> "registration", user |-> 0, email |-> e, link |-> 0]
  <2>2. UNCHANGED <<row, links, proved, typed>> /\ request' = [request EXCEPT ![r] = c]
    BY <2>1 DEF M!Register, M!Go, M!Still
  <2>3. c \in MailCall /\ CallKnows(links, typed, c)
    BY DEF MailCall, CallKnows, M!Origins
  <2> QED
    BY <2>2, <2>3, OnlyARequestMoves
<1>4. ASSUME NEW r \in Calls, NEW e \in Emails, NEW o \in M!Origins, M!SignIn(r, e, o) PROVE MailsInv'
  <2> DEFINE c == [pc |-> o, user |-> 0, email |-> e, link |-> 0]
  <2>1. UNCHANGED <<row, links, proved, typed>> /\ request' = [request EXCEPT ![r] = c]
    BY <1>4 DEF M!SignIn, M!Go, M!Still
  <2>2. c \in MailCall /\ CallKnows(links, typed, c)
    BY DEF MailCall, CallKnows, M!Origins
  <2> QED
    BY <2>1, <2>2, OnlyARequestMoves
<1> QED
  BY <1>1, <1>2, <1>3, <1>4, UsersAreRolledBack, RequestsBegin, RequestsFind, RequestsCheck, LinksAreIssued, UsersAreInserted,
     LinksAreFollowed, TheOfficeWrites, UsersAreDeleted DEF M!Next

LEMMA MailsMean ==
  ASSUME "none" \notin Emails, MailsInv
  PROVE  M!TypeOK /\ M!EmailsAreOwn /\ M!VerifiedMeansProved
<1>1. Len(links) \in Nat
  BY DEF MailsInv, MailsTyped
<1>2. ASSUME NEW u \in Users
      PROVE  /\ row[u].email \in Emails \cup {M!NoEmail}
             /\ {row[u].verify, row[u].reset, row[u].pendingToken} \subseteq 0 .. Len(links)
             /\ row[u].pending # M!NoEmail => row[u].pendingToken # 0
  <2>1. row[u] \in MailRow /\ RowKnows(links, row[u], u)
    BY RowsOfUsers
  <2> QED
    BY <1>1, <2>1 DEF RowKnows, IsLink, MailRow, M!NoEmail
<1>3. ASSUME NEW r \in Calls
      PROVE  request[r].link \in 0 .. Len(links) /\ request[r].user \in Users \cup {0}
  <2>1. request[r] \in MailCall /\ CallKnows(links, typed, request[r])
    BY DEF MailsInv, MailsTyped, CallsKnow
  <2> QED
    BY <1>1, <2>1 DEF CallKnows, MailCall
<1>4. M!TypeOK
  BY <1>2, <1>3 DEF M!TypeOK, MailsInv, RowsInv, EmailsDiffer
<1> QED
  BY <1>4 DEF M!EmailsAreOwn, M!VerifiedMeansProved, M!GivenBy, MailsInv, RowsInv, RowsOwn, RowsVouch, Own, Vouched

LEMMA MailsKept ==
  ASSUME "none" \notin Emails
  PROVE  /\ AccountsInit => (part = "mails" => MailsInv)
         /\ (part = "mails" => MailsInv) /\ [AccountsNext]_all => (part = "mails" => MailsInv)'
         /\ (part = "mails" => MailsInv) => EmailsAreOwn /\ VerifiedMeansProved
<1>1. AccountsInit => (part = "mails" => MailsInv)
  BY MailsStart DEF AccountsInit
<1>2. ASSUME part = "mails" => MailsInv, [AccountsNext]_all, part' = "mails" PROVE MailsInv'
  <2>1. part = "mails" /\ (M!Next \/ UNCHANGED <<row, links, proved, typed, request>>)
    BY <1>2 DEF AccountsNext, all, mails
  <2> QED
    BY <1>2, <2>1, MailsStay
<1>3. (part = "mails" => MailsInv) => EmailsAreOwn /\ VerifiedMeansProved
  BY MailsMean DEF EmailsAreOwn, VerifiedMeansProved
<1> QED
  BY <1>1, <1>2, <1>3

(* Whatever changes of the e-mail are asked for and confirmed at once, an  *)
(* account keeps the address it was created with, by a registration or by  *)
(* the log-in of a provider, or has one that the office set or that a link *)
(* mailed to it has proved (createUserWithIdentity, requestEmailChange,    *)
(* confirmEmailChange).                                                    *)
THEOREM AddressesAreOwn ==
  ASSUME "none" \notin Emails
  PROVE  AccountsSpec => []EmailsAreOwn
BY MailsKept, PTL DEF AccountsSpec

(* A late confirmation of a registration never vouches for an address that *)
(* the account got since, and of the providers only one that checked the   *)
(* address vouches for it (verifyEmail, confirmEmailChange,                *)
(* createUserWithIdentity).                                                *)
THEOREM VerifiedAddressesAreProved ==
  ASSUME "none" \notin Emails
  PROVE  AccountsSpec => []VerifiedMeansProved
BY MailsKept, PTL DEF AccountsSpec
-----------------------------------------------------------------------------
(* The list of addresses: each id once, and one default at most. *)
BookCall == [pc : {"idle", "read", "write"}, op : {"none", "add", "update", "remove"},
             id : Ids \cup {"none"}, mark : {"yes", "no", "same"}, list : Seq(B!Address)]

Book(l) ==
  /\ l \in Seq(B!Address)
  /\ \A i, j \in DOMAIN l : l[i].id = l[j].id => i = j
  /\ \A i, j \in DOMAIN l : l[i].dflt /\ l[j].dflt => i = j
HasDefault(l) == l # <<>> => \E i \in DOMAIN l : l[i].dflt

BookIsGood ==
  /\ Book(book) /\ B!IdsIn(book) \subseteq ids /\ ids \subseteq Ids /\ unset \in BOOLEAN
  /\ ~ unset => HasDefault(book)

(* A list that waits to be written is good too, and takes the mark away    *)
(* only as an update that was told to.                                     *)
ListsAreGood ==
  \A r \in Calls :
    /\ Book(request[r].list) /\ B!IdsIn(request[r].list) \subseteq ids
    /\ request[r].pc = "read" => request[r].op # "none" /\ request[r].id \in Ids
    /\ request[r].pc = "write" /\ ~ unset /\ ~ (request[r].op = "update" /\ request[r].mark = "no")
         => HasDefault(request[r].list)

(* The id of an address that is about to be added is in no list yet.       *)
Adding(r) == request[r].pc = "read" /\ request[r].op = "add"
NewIdsAreNew ==
  \A r \in Calls : Adding(r) =>
    /\ request[r].id \in ids \ B!IdsIn(book)
    /\ \A q \in Calls : /\ request[r].id \notin B!IdsIn(request[q].list)
                        /\ Adding(q) /\ request[q].id = request[r].id => q = r

BookInv == request \in [Calls -> BookCall] /\ BookIsGood /\ ListsAreGood /\ NewIdsAreNew

(* What the three operations make of a list. *)
LEMMA AddedIsGood ==
  ASSUME NEW l, Book(l), NEW id \in Ids, id \notin B!IdsIn(l), NEW mark
  PROVE  LET a == B!Added(l, id, mark)
         IN  Book(a) /\ B!IdsIn(a) \subseteq B!IdsIn(l) \cup {id} /\ (HasDefault(l) => HasDefault(a))
<1> DEFINE u == B!Unmarked(l)
           x == [id |-> id, dflt |-> TRUE]
           y == [id |-> id, dflt |-> FALSE]
<1>1. l \in Seq(B!Address) /\ Len(l) \in Nat /\ DOMAIN l = 1 .. Len(l) /\ \A i \in DOMAIN l : l[i] \in B!Address
  BY DEF Book
<1>2. /\ u \in Seq(B!Address) /\ Len(u) = Len(l) /\ DOMAIN u = DOMAIN l
      /\ \A i \in DOMAIN l : u[i].id = l[i].id /\ ~ u[i].dflt
  <2>1. \A i \in 1 .. Len(l) : [l[i] EXCEPT !.dflt = FALSE] \in B!Address
    BY <1>1 DEF B!Address
  <2>2. u = [i \in 1 .. Len(l) |-> [l[i] EXCEPT !.dflt = FALSE]]
    BY <1>1 DEF B!Unmarked
  <2>3. u \in Seq(B!Address) /\ Len(u) = Len(l)
    BY <1>1, <2>1, <2>2
  <2> QED
    BY <1>1, <2>2, <2>3 DEF B!Address
<1>3. x \in B!Address /\ x.id = id /\ x.dflt /\ y \in B!Address /\ y.id = id /\ ~ y.dflt
  BY DEF B!Address
<1>4. \A i \in DOMAIN l : l[i].id # id
  BY DEF B!IdsIn
<1> HIDE DEF u, x, y
<1>5. ASSUME NEW base \in {u, l}, NEW z \in {x, y}, base = u \/ ~ z.dflt
      PROVE  LET a == Append(base, z)
             IN  /\ Book(a) /\ B!IdsIn(a) \subseteq B!IdsIn(l) \cup {id}
                 /\ a # <<>> /\ Len(a) = Len(l) + 1 /\ a[Len(l) + 1] = z
                 /\ \A i \in DOMAIN l : i \in DOMAIN a /\ a[i] = base[i]
  <2> DEFINE a == Append(base, z)
  <2>1. base \in Seq(B!Address) /\ Len(base) = Len(l) /\ z \in B!Address /\ z.id = id
        /\ \A i \in DOMAIN l : base[i].id = l[i].id
    BY <1>1, <1>2, <1>3, <1>5
  <2>2. /\ a \in Seq(B!Address) /\ Len(a) = Len(l) + 1 /\ DOMAIN a = 1 .. (Len(l) + 1)
        /\ a[Len(l) + 1] = z /\ \A i \in 1 .. Len(l) : a[i] = base[i]
    BY <1>1, <2>1
  <2> HIDE DEF a
  <2>3. \A i \in DOMAIN a : i \in DOMAIN l \/ i = Len(l) + 1
    BY <1>1, <2>2
  <2>4. \A i, j \in DOMAIN a : a[i].id = a[j].id => i = j
    BY <1>1, <1>4, <2>1, <2>2, <2>3 DEF Book
  <2>5. \A i, j \in DOMAIN a : a[i].dflt /\ a[j].dflt => i = j
    BY <1>1, <1>2, <1>5, <2>1, <2>2, <2>3 DEF Book
  <2>6. B!IdsIn(a) \subseteq B!IdsIn(l) \cup {id}
    BY <1>1, <2>1, <2>2, <2>3 DEF B!IdsIn
  <2>7. a # <<>>
    BY <1>1, <2>2
  <2> QED
    BY <1>1, <2>2, <2>4, <2>5, <2>6, <2>7 DEF Book, a
<1>6. CASE mark = "yes" \/ l = <<>>
  <2>1. B!Added(l, id, mark) = Append(u, x)
    BY <1>6 DEF B!Added, u, x
  <2>2. HasDefault(Append(u, x))
    BY <1>1, <1>2, <1>3, <1>5 DEF HasDefault
  <2> QED
    BY <1>5, <2>1, <2>2
<1>7. CASE ~ (mark = "yes" \/ l = <<>>)
  <2>1. B!Added(l, id, mark) = Append(l, y)
    BY <1>7 DEF B!Added, y
  <2>2. HasDefault(l) => HasDefault(Append(l, y))
    BY <1>1, <1>3, <1>5, <1>7 DEF HasDefault
  <2> QED
    BY <1>3, <1>5, <2>1, <2>2
<1> QED
  BY <1>6, <1>7

LEMMA UpdatedIsGood ==
  ASSUME NEW l, Book(l), NEW id \in B!IdsIn(l), NEW mark \in {"yes", "no", "same"}
  PROVE  LET a == B!Updated(l, id, mark)
         IN  Book(a) /\ B!IdsIn(a) \subseteq B!IdsIn(l) /\ (mark # "no" /\ HasDefault(l) => HasDefault(a))
<1> DEFINE u == B!Unmarked(l)
           a == B!Updated(l, id, mark)
<1>1. l \in Seq(B!Address) /\ Len(l) \in Nat /\ DOMAIN l = 1 .. Len(l) /\ \A i \in DOMAIN l : l[i] \in B!Address
  BY DEF Book
<1>2. \A i \in DOMAIN l : u[i] \in B!Address /\ u[i].id = l[i].id /\ ~ u[i].dflt
  BY <1>1 DEF B!Unmarked, B!Address
<1> HIDE DEF u
<1> DEFINE base == IF mark = "yes" THEN u ELSE l
<1>3. \A i \in DOMAIN l : base[i] \in B!Address /\ base[i].id = l[i].id
  BY <1>1, <1>2
<1>4. /\ mark = "yes" => base = u
      /\ mark # "yes" => base = l
  OBVIOUS
<1>5. a = [i \in DOMAIN l |-> IF l[i].id = id /\ mark # "same" THEN [base[i] EXCEPT !.dflt = mark = "yes"] ELSE base[i]]
  BY DEF B!Updated, u
<1> HIDE DEF base, a
<1>6. \A i \in DOMAIN l :
        /\ a[i] \in B!Address /\ a[i].id = l[i].id
        /\ a[i].dflt = IF l[i].id = id /\ mark # "same" THEN mark = "yes" ELSE base[i].dflt
  BY <1>3, <1>5 DEF B!Address
<1>7. a \in Seq(B!Address) /\ Len(a) = Len(l) /\ DOMAIN a = DOMAIN l
  <2>1. a = [i \in 1 .. Len(l) |-> a[i]]
    BY <1>1, <1>5
  <2>2. \A i \in 1 .. Len(l) : a[i] \in B!Address
    BY <1>1, <1>6
  <2> QED
    BY <1>1, <2>1, <2>2
<1>8. \A i, j \in DOMAIN a : a[i].id = a[j].id => i = j
  BY <1>6, <1>7 DEF Book
<1>9. \A i, j \in DOMAIN a : a[i].dflt /\ a[j].dflt => i = j
  <2>1. CASE mark = "yes"
    BY <1>2, <1>4, <1>6, <1>7, <2>1 DEF Book
  <2>2. CASE mark # "yes"
    <3>1. \A i \in DOMAIN l : a[i].dflt => l[i].dflt
      BY <1>4, <1>6, <2>2
    <3> QED
      BY <1>7, <3>1 DEF Book
  <2> QED
    BY <2>1, <2>2
<1>10. B!IdsIn(a) \subseteq B!IdsIn(l)
  BY <1>6, <1>7 DEF B!IdsIn
<1>11. ASSUME mark # "no", HasDefault(l), a # <<>> PROVE \E i \in DOMAIN a : a[i].dflt
  <2>1. CASE mark = "yes"
    <3>1. PICK i \in DOMAIN l : l[i].id = id
      BY DEF B!IdsIn
    <3> QED
      BY <1>6, <1>7, <2>1, <3>1
  <2>2. CASE mark = "same"
    <3>1. l # <<>>
      BY <1>1, <1>7, <1>11
    <3> QED
      BY <1>4, <1>6, <1>7, <1>11, <2>2, <3>1 DEF HasDefault
  <2> QED
    BY <1>11, <2>1, <2>2
<1> QED
  BY <1>7, <1>8, <1>9, <1>10, <1>11 DEF Book, HasDefault, a

LEMMA OthersAreGood ==
  ASSUME NEW l, Book(l), NEW id
  PROVE  LET a == B!Others(l, id)
         IN  /\ Book(a) /\ B!IdsIn(a) \subseteq B!IdsIn(l)
             /\ \A i \in DOMAIN l : l[i].id # id => \E j \in DOMAIN a : a[j] = l[i]
             /\ \A j \in DOMAIN a : a[j].id # id /\ \E i \in DOMAIN l : a[j] = l[i]
<1>1. l \in Seq(B!Address) /\ Len(l) \in Nat /\ DOMAIN l = 1 .. Len(l) /\ \A i \in DOMAIN l : l[i] \in B!Address
  BY DEF Book
<1>2. CASE id \notin B!IdsIn(l)
  <2>1. B!Others(l, id) = l
    BY <1>2 DEF B!Others
  <2>2. \A i \in DOMAIN l : l[i].id # id
    BY <1>2 DEF B!IdsIn
  <2> QED
    BY <2>1, <2>2
<1>3. CASE id \in B!IdsIn(l)
  <2> DEFINE k == CHOOSE i \in DOMAIN l : l[i].id = id
             at(j) == IF j < k THEN j ELSE j + 1
             a == [j \in 1 .. Len(l) - 1 |-> l[at(j)]]
  <2>1. k \in DOMAIN l /\ l[k].id = id /\ k \in Nat
    BY <1>1, <1>3 DEF B!IdsIn
  <2>2. B!Others(l, id) = a
    BY <1>3 DEF B!Others
  <2> HIDE DEF k
  <2>3. \A j \in 1 .. Len(l) - 1 : at(j) \in DOMAIN l /\ at(j) # k
    BY <1>1, <2>1
  <2>4. \A i, j \in 1 .. Len(l) - 1 : at(i) = at(j) => i = j
    BY <1>1, <2>1
  <2>5. \A i \in DOMAIN l \ {k} : \E j \in 1 .. Len(l) - 1 : at(j) = i
    <3> SUFFICES ASSUME NEW i \in DOMAIN l \ {k} PROVE \E j \in 1 .. Len(l) - 1 : at(j) = i
      OBVIOUS
    <3>1. CASE i < k
      <4>1. i \in 1 .. Len(l) - 1 /\ at(i) = i
        BY <1>1, <2>1, <3>1
      <4> QED
        BY <4>1
    <3>2. CASE k < i
      <4>1. i - 1 \in 1 .. Len(l) - 1 /\ at(i - 1) = i
        BY <1>1, <2>1, <3>2
      <4> QED
        BY <4>1
    <3> QED
      BY <1>1, <2>1, <3>1, <3>2
  <2>6. DOMAIN a = 1 .. Len(l) - 1 /\ \A j \in 1 .. Len(l) - 1 : a[j] = l[at(j)]
    OBVIOUS
  <2>7. a \in Seq(B!Address)
    <3>1. Len(l) - 1 \in Nat
      BY <1>1, <2>1
    <3>2. \A j \in 1 .. Len(l) - 1 : l[at(j)] \in B!Address
      BY <1>1, <2>3
    <3> QED
      BY <3>1, <3>2
  <2> HIDE DEF a, at
  <2>8. \A j \in DOMAIN a : a[j].id # id /\ \E i \in DOMAIN l : a[j] = l[i]
    BY <2>1, <2>3, <2>6 DEF Book
  <2>9. \A i \in DOMAIN l : l[i].id # id => \E j \in DOMAIN a : a[j] = l[i]
    BY <2>1, <2>5, <2>6
  <2>10. \A i, j \in DOMAIN a : a[i].id = a[j].id => i = j
    BY <2>3, <2>4, <2>6 DEF Book
  <2>11. \A i, j \in DOMAIN a : a[i].dflt /\ a[j].dflt => i = j
    BY <2>3, <2>4, <2>6 DEF Book
  <2>12. B!IdsIn(a) \subseteq B!IdsIn(l)
    BY <2>8 DEF B!IdsIn
  <2> QED
    BY <2>2, <2>7, <2>8, <2>9, <2>10, <2>11, <2>12 DEF Book
<1> QED
  BY <1>2, <1>3

LEMMA RemovedIsGood ==
  ASSUME NEW l, Book(l), NEW id
  PROVE  LET a == B!Removed(l, id)
         IN  Book(a) /\ B!IdsIn(a) \subseteq B!IdsIn(l) /\ (HasDefault(l) => HasDefault(a))
<1> DEFINE rest == B!Others(l, id)
           was == \E i \in B!Defaults(l) : l[i].id = id
<1>1. /\ Book(rest) /\ B!IdsIn(rest) \subseteq B!IdsIn(l)
      /\ \A i \in DOMAIN l : l[i].id # id => \E j \in DOMAIN rest : rest[j] = l[i]
      /\ \A j \in DOMAIN rest : rest[j].id # id /\ \E i \in DOMAIN l : rest[j] = l[i]
  BY OthersAreGood
<1> HIDE DEF rest
<1>2. /\ rest \in Seq(B!Address) /\ Len(rest) \in Nat /\ DOMAIN rest = 1 .. Len(rest)
      /\ \A j \in DOMAIN rest : rest[j] \in B!Address
  BY <1>1 DEF Book
<1>3. CASE was /\ rest # <<>>
  <2> DEFINE a == [rest EXCEPT ![1] = [rest[1] EXCEPT !.dflt = TRUE]]
  <2>1. 1 \in DOMAIN rest
    BY <1>2, <1>3
  <2>2. B!Removed(l, id) = a
    BY <1>2, <1>3 DEF B!Removed, rest
  <2>3. [rest[1] EXCEPT !.dflt = TRUE] \in B!Address /\ [rest[1] EXCEPT !.dflt = TRUE].id = rest[1].id
        /\ [rest[1] EXCEPT !.dflt = TRUE].dflt
    BY <1>2, <2>1 DEF B!Address
  <2>4. /\ a \in Seq(B!Address) /\ DOMAIN a = DOMAIN rest /\ a[1].dflt
        /\ \A j \in DOMAIN rest : a[j].id = rest[j].id /\ (j # 1 => a[j] = rest[j])
    BY <1>2, <2>1, <2>3
  <2> HIDE DEF a
  <2>5. \A j \in DOMAIN rest : ~ rest[j].dflt
    <3>1. PICK d \in DOMAIN l : l[d].dflt /\ l[d].id = id
      BY <1>3 DEF B!Defaults
    <3>2. \A i \in DOMAIN l : l[i].dflt => l[i].id = id
      BY <3>1 DEF Book
    <3> QED
      BY <1>1, <3>2
  <2>6. \A i, j \in DOMAIN a : a[i].id = a[j].id => i = j
    BY <1>1, <2>4 DEF Book
  <2>7. \A i, j \in DOMAIN a : a[i].dflt /\ a[j].dflt => i = j
    BY <2>4, <2>5
  <2>8. B!IdsIn(a) \subseteq B!IdsIn(l)
    BY <1>1, <2>4 DEF B!IdsIn
  <2>9. HasDefault(a)
    BY <2>1, <2>4 DEF HasDefault
  <2> QED
    BY <2>2, <2>4, <2>6, <2>7, <2>8, <2>9 DEF Book
<1>4. CASE ~ (was /\ rest # <<>>)
  <2>1. B!Removed(l, id) = rest
    BY <1>4 DEF B!Removed, rest
  <2>2. ASSUME HasDefault(l), rest # <<>> PROVE \E j \in DOMAIN rest : rest[j].dflt
    <3>1. l # <<>>
      <4>1. 1 \in DOMAIN rest
        BY <1>2, <2>2
      <4> QED
        BY <1>1, <4>1
    <3>2. PICK d \in DOMAIN l : l[d].dflt
      BY <2>2, <3>1 DEF HasDefault
    <3>3. l[d].id # id
      BY <1>4, <2>2, <3>2 DEF B!Defaults
    <3> QED
      BY <1>1, <3>2, <3>3
  <2> QED
    BY <1>1, <2>1, <2>2 DEF HasDefault
<1> QED
  BY <1>3, <1>4

(* A step of one request. *)
LEMMA ARequestOnTheBookMoves ==
  ASSUME request \in [Calls -> BookCall], NEW r \in Calls, NEW c \in BookCall,
         request' = [request EXCEPT ![r] = c]
  PROVE  request' \in [Calls -> BookCall] /\ request'[r] = c /\ \A q \in Calls \ {r} : request'[q] = request[q]
OBVIOUS

LEMMA EmptyBook == Book(<<>>) /\ B!IdsIn(<<>>) = {} /\ HasDefault(<<>>)
BY DEF Book, B!IdsIn, HasDefault

LEMMA BookIsAsked ==
  ASSUME BookInv, NEW r \in Calls, NEW op \in {"add", "update", "remove"}, NEW id \in Ids,
         NEW mark \in {"yes", "no", "same"}, B!Ask(r, op, id, mark)
  PROVE  BookInv'
<1> DEFINE c == [pc |-> "read", op |-> op, id |-> id, mark |-> mark, list |-> <<>>]
<1>1. request' = [request EXCEPT ![r] = c] /\ UNCHANGED <<book, unset>>
  BY DEF B!Ask
<1>2. /\ c \in BookCall /\ c.pc = "read" /\ c.op = op /\ c.id = id /\ c.list = <<>>
  BY DEF BookCall
<1> HIDE DEF c
<1>3. /\ request' \in [Calls -> BookCall] /\ request'[r] = c
      /\ \A q \in Calls \ {r} : request'[q] = request[q]
  BY <1>1, <1>2, ARequestOnTheBookMoves DEF BookInv
<1>4. ids \subseteq ids' /\ ids' \subseteq Ids /\ (op = "add" => id \notin ids /\ id \in ids')
  BY DEF B!Ask, BookInv, BookIsGood
<1>5. BookIsGood'
  BY <1>1, <1>4 DEF BookInv, BookIsGood
<1>6. ListsAreGood'
  BY <1>1, <1>2, <1>3, <1>4, EmptyBook DEF BookInv, ListsAreGood
<1>7. NewIdsAreNew'
  <2>1. \A q \in Calls : B!IdsIn(request[q].list) \subseteq ids /\ (Adding(q) => request[q].id \in ids)
    BY DEF BookInv, ListsAreGood, NewIdsAreNew
  <2>2. B!IdsIn(book) \subseteq ids
    BY DEF BookInv, BookIsGood
  <2>3. \A q \in Calls : Adding(q)' <=> IF q = r THEN op = "add" ELSE Adding(q)
    BY <1>2, <1>3 DEF Adding
  <2>4. \A q \in Calls : B!IdsIn(request'[q].list) = IF q = r THEN {} ELSE B!IdsIn(request[q].list)
    BY <1>2, <1>3, EmptyBook
  <2> QED
    BY <1>1, <1>2, <1>3, <1>4, <2>1, <2>2, <2>3, <2>4 DEF BookInv, NewIdsAreNew
<1> QED
  BY <1>3, <1>5, <1>6, <1>7 DEF BookInv

LEMMA BookIsRead ==
  ASSUME BookInv, NEW r \in Calls, B!Read(r)
  PROVE  BookInv'
<1> DEFINE c == request[r]
           a == CASE c.op = "add"    -> B!Added(book, c.id, c.mark)
                  [] c.op = "update" -> B!Updated(book, c.id, c.mark)
                  [] c.op = "remove" -> B!Removed(book, c.id)
           d == [c EXCEPT !.pc = "write", !.list = a]
<1>1. /\ c \in BookCall /\ c.pc = "read" /\ c.op \in {"add", "update", "remove"} /\ c.id \in Ids
      /\ UNCHANGED <<book, ids, unset>> /\ request \in [Calls -> BookCall]
  BY DEF B!Read, BookInv, ListsAreGood, BookCall
<1>2. Book(book) /\ B!IdsIn(book) \subseteq ids /\ (~ unset => HasDefault(book))
  BY DEF BookInv, BookIsGood
<1>3. CASE c.op = "update" /\ c.id \notin B!IdsIn(book)
  <2>1. request' = [request EXCEPT ![r] = B!Idle]
    BY <1>3 DEF B!Read
  <2>2. B!Idle \in BookCall /\ B!Idle.pc = "idle" /\ B!Idle.list = <<>>
    BY DEF B!Idle, BookCall
  <2>3. /\ request' \in [Calls -> BookCall] /\ request'[r] = B!Idle
        /\ \A q \in Calls \ {r} : request'[q] = request[q]
    BY <1>1, <2>1, <2>2, ARequestOnTheBookMoves
  <2>4. ListsAreGood'
    BY <1>1, <2>2, <2>3, EmptyBook DEF BookInv, ListsAreGood
  <2>5. NewIdsAreNew'
    BY <1>1, <2>2, <2>3, EmptyBook DEF BookInv, NewIdsAreNew, Adding
  <2> QED
    BY <1>1, <2>3, <2>4, <2>5 DEF BookInv, BookIsGood
<1>4. CASE ~ (c.op = "update" /\ c.id \notin B!IdsIn(book))
  <2>1. request' = [request EXCEPT ![r] = d]
    BY <1>4 DEF B!Read
  <2>2. /\ Book(a) /\ B!IdsIn(a) \subseteq B!IdsIn(book) \cup (IF c.op = "add" THEN {c.id} ELSE {})
        /\ ~ (c.op = "update" /\ c.mark = "no") /\ HasDefault(book) => HasDefault(a)
    <3>1. CASE c.op = "add"
      <4>1. c.id \notin B!IdsIn(book)
        BY <1>1, <3>1 DEF BookInv, NewIdsAreNew, Adding
      <4>2. a = B!Added(book, c.id, c.mark)
        BY <3>1
      <4> HIDE DEF a
      <4> QED
        BY <1>1, <1>2, <3>1, <4>1, <4>2, AddedIsGood
    <3>2. CASE c.op = "update"
      <4>1. c.id \in B!IdsIn(book) /\ c.mark \in {"yes", "no", "same"}
        BY <1>1, <1>4, <3>2 DEF BookCall
      <4>2. a = B!Updated(book, c.id, c.mark)
        BY <3>2
      <4> HIDE DEF a
      <4> QED
        BY <1>2, <3>2, <4>1, <4>2, UpdatedIsGood
    <3>3. CASE c.op = "remove"
      <4>1. a = B!Removed(book, c.id)
        BY <3>3
      <4> HIDE DEF a
      <4> QED
        BY <1>2, <3>3, <4>1, RemovedIsGood
    <3> QED
      BY <1>1, <3>1, <3>2, <3>3
  <2> HIDE DEF a
  <2>3. /\ d \in BookCall /\ d.pc = "write" /\ d.op = c.op /\ d.mark = c.mark /\ d.list = a
    BY <1>1, <2>2 DEF BookCall, Book
  <2> HIDE DEF d
  <2>4. /\ request' \in [Calls -> BookCall] /\ request'[r] = d
        /\ \A q \in Calls \ {r} : request'[q] = request[q]
    BY <1>1, <2>1, <2>3, ARequestOnTheBookMoves
  <2>5. B!IdsIn(a) \subseteq ids
    BY <1>1, <1>2, <2>2 DEF BookInv, NewIdsAreNew, Adding
  <2>6. ListsAreGood'
    BY <1>1, <1>2, <2>2, <2>3, <2>4, <2>5 DEF BookInv, ListsAreGood
  <2>7. NewIdsAreNew'
    <3>1. \A q \in Calls : Adding(q)' <=> q # r /\ Adding(q)
      BY <2>3, <2>4 DEF Adding
    <3>2. ASSUME NEW q \in Calls, Adding(q), q # r PROVE request[q].id \notin B!IdsIn(a)
      <4>1. request[q].id \notin B!IdsIn(book)
        BY <3>2 DEF BookInv, NewIdsAreNew
      <4>2. c.op = "add" => request[q].id # c.id
        BY <1>1, <3>2 DEF BookInv, NewIdsAreNew, Adding
      <4> QED
        BY <2>2, <4>1, <4>2
    <3> QED
      BY <1>1, <2>3, <2>4, <3>1, <3>2 DEF BookInv, NewIdsAreNew
  <2> QED
    BY <1>1, <2>4, <2>6, <2>7 DEF BookInv, BookIsGood
<1> QED
  BY <1>3, <1>4

LEMMA BookIsWritten ==
  ASSUME BookInv, NEW r \in Calls, B!Write(r)
  PROVE  BookInv'
<1> DEFINE c == request[r]
<1>1. /\ c.pc = "write" /\ book' = c.list /\ ids' = ids /\ request' = [request EXCEPT ![r] = B!Idle]
      /\ unset' = (unset \/ (c.op = "update" /\ c.mark = "no")) /\ request \in [Calls -> BookCall]
  BY DEF B!Write, BookInv
<1>2. B!Idle \in BookCall /\ B!Idle.pc = "idle" /\ B!Idle.list = <<>>
  BY DEF B!Idle, BookCall
<1>3. /\ request' \in [Calls -> BookCall] /\ request'[r] = B!Idle
      /\ \A q \in Calls \ {r} : request'[q] = request[q]
  BY <1>1, <1>2, ARequestOnTheBookMoves
<1>4. unset' \in BOOLEAN /\ (~ unset' => ~ unset /\ ~ (c.op = "update" /\ c.mark = "no"))
  BY <1>1
<1>5. BookIsGood'
  BY <1>1, <1>4 DEF BookInv, BookIsGood, ListsAreGood
<1>6. ListsAreGood'
  BY <1>1, <1>2, <1>3, <1>4, EmptyBook DEF BookInv, ListsAreGood
<1>7. NewIdsAreNew'
  BY <1>1, <1>2, <1>3, EmptyBook DEF BookInv, NewIdsAreNew, Adding
<1> QED
  BY <1>3, <1>5, <1>6, <1>7 DEF BookInv

LEMMA SameCardinalityOfTheBook == \A S : B!Cardinality(S) = Cardinality(S)
BY DEF B!Cardinality, Cardinality

LEMMA BooksMean ==
  ASSUME BookInv
  PROVE  B!TypeOK /\ B!OneDefault
<1>1. /\ book \in Seq(B!Address) /\ Len(book) \in Nat /\ DOMAIN book = 1 .. Len(book)
      /\ \A i, j \in DOMAIN book : book[i].id = book[j].id => i = j
  BY DEF BookInv, BookIsGood, Book
<1>2. Cardinality(B!IdsIn(book)) = Len(book)
  <2> DEFINE f == [i \in 1 .. Len(book) |-> book[i].id]
  <2>1. f \in [1 .. Len(book) -> B!IdsIn(book)]
    BY <1>1 DEF B!IdsIn
  <2>2. \A i, j \in 1 .. Len(book) : f[i] = f[j] => i = j
    BY <1>1
  <2>3. \A t \in B!IdsIn(book) : \E i \in 1 .. Len(book) : f[i] = t
    BY <1>1 DEF B!IdsIn
  <2> HIDE DEF f
  <2>4. f \in Bijection(1 .. Len(book), B!IdsIn(book))
    BY <2>1, <2>2, <2>3 DEF Bijection, Injection, Surjection, IsInjective
  <2>5. ExistsBijection(1 .. Len(book), B!IdsIn(book))
    BY <2>4 DEF ExistsBijection
  <2> QED
    BY <1>1, <2>5, FS_CountingElements
<1>3. B!TypeOK
  BY <1>1, <1>2, SameCardinalityOfTheBook DEF B!TypeOK, BookInv, BookIsGood, ListsAreGood
<1>4. Cardinality(B!Defaults(book)) <= 1
  <2>1. CASE B!Defaults(book) = {}
    BY <2>1, FS_EmptySet
  <2>2. ASSUME NEW i \in B!Defaults(book) PROVE Cardinality(B!Defaults(book)) <= 1
    <3>1. B!Defaults(book) = {i}
      BY <2>2 DEF B!Defaults, BookInv, BookIsGood, Book
    <3> QED
      BY <3>1, FS_Singleton
  <2> QED
    BY <2>1, <2>2
<1> QED
  BY <1>3, <1>4, SameCardinalityOfTheBook DEF B!OneDefault, BookInv, BookIsGood, HasDefault, B!Defaults

(* Whatever requests overwrite each other, the address book has one        *)
(* default address at most, and one unless an update has taken the mark    *)
(* away (addAddress, updateAddress, removeAddress).                        *)
THEOREM AddressesHaveOneDefault == AccountsSpec => []OneDefault
<1> DEFINE Inv == part = "addresses" => BookInv
<1>1. AccountsInit => Inv
  <2> SUFFICES ASSUME B!Init PROVE BookInv
    BY DEF AccountsInit
  <2>1. B!Idle \in BookCall /\ B!Idle.pc = "idle" /\ B!Idle.list = <<>>
    BY DEF B!Idle, BookCall
  <2>2. \A r \in Calls : request[r] = B!Idle
    BY DEF B!Init
  <2>3. request \in [Calls -> BookCall]
    BY <2>1 DEF B!Init
  <2>4. BookIsGood
    BY EmptyBook DEF B!Init, BookIsGood
  <2>5. ListsAreGood /\ NewIdsAreNew
    BY <2>1, <2>2, EmptyBook DEF ListsAreGood, NewIdsAreNew, Adding
  <2> QED
    BY <2>3, <2>4, <2>5 DEF BookInv
<1>2. Inv /\ [AccountsNext]_all => Inv'
  <2> SUFFICES ASSUME BookInv, [AccountsNext]_all, part = "addresses" PROVE BookInv'
    BY DEF AccountsNext, all
  <2>1. CASE UNCHANGED <<book, ids, unset, request>>
    BY <2>1 DEF BookInv, BookIsGood, ListsAreGood, NewIdsAreNew, Adding
  <2>2. CASE B!Next
    BY <2>2, BookIsAsked, BookIsRead, BookIsWritten DEF B!Next
  <2> QED
    BY <2>1, <2>2 DEF AccountsNext, all, books
<1>3. Inv => OneDefault
  BY BooksMean DEF OneDefault
<1> QED
  BY <1>1, <1>2, <1>3, PTL DEF AccountsSpec
=============================================================================
