------------------------------ MODULE Accounts ------------------------------
(***************************************************************************)
(* The accounts of the shop: log-in sessions, the routes and their guards, *)
(* the mails that prove an address, the address book and the identities of *)
(* the providers.  They meet only in the row of a user.  Each writes       *)
(* columns of its own but for the e-mail and the insert of the row, which  *)
(* AccountMails and Identities both model: the first for the addresses,    *)
(* the second for the identities, each with whatever the other may do to   *)
(* what it reads.  So a behaviour is one of the first component that       *)
(* moves; where another is at work, the sessions rest.                     *)
(***************************************************************************)
EXTENDS Sessions, Naturals

CONSTANTS
  Customer, Manager, Admin,                   \* Access
  Users, Emails, Window, MaxLinks, MaxGiven,  \* AccountMails
  Ids,                                        \* AddressBook
  People, Mailboxes, Profiles, EmailOf, Verified, MaxRows  \* Identities

VARIABLES
  part,                                       \* the component at work
  userRole, tokens,                           \* Access
  row, links, proved, typed,                  \* AccountMails
  book, ids, unset,                           \* AddressBook
  account, identity, born, lastId, crossed,   \* Identities
  request   \* the requests of AccountMails, AddressBook or Identities

access == <<userRole, tokens>>
mails  == <<row, links, proved, typed>>
books  == <<book, ids, unset>>
logins == <<account, identity, born, lastId, crossed>>
all    == <<part, vars, access, mails, books, logins, request>>

X == INSTANCE Access WITH role <- userRole
M == INSTANCE AccountMails WITH call <- request, given <- typed
B == INSTANCE AddressBook WITH call <- request, given <- ids
I == INSTANCE Identities WITH Users <- People, Emails <- Mailboxes, call <- request
-----------------------------------------------------------------------------
(* The variables of a component that is not at work. *)
Off        == 0
NoAccess   == userRole = Off /\ tokens = Off
NoMails    == row = Off /\ links = Off /\ proved = Off /\ typed = Off
NoBook     == book = Off /\ ids = Off /\ unset = Off
NoLogins   == account = Off /\ identity = Off /\ born = Off /\ lastId = Off /\ crossed = Off
NoSessions == Init /\ ~ overlap /\ role = CHOOSE r \in Roles : TRUE

AccountsInit ==
  \/ part = "sessions" /\ Init /\ NoAccess /\ NoMails /\ NoBook /\ NoLogins /\ request = Off
  \/ part = "access" /\ X!Init /\ NoSessions /\ NoMails /\ NoBook /\ NoLogins /\ request = Off
  \/ part = "mails" /\ M!Init /\ NoSessions /\ NoAccess /\ NoBook /\ NoLogins
  \/ part = "addresses" /\ B!Init /\ NoSessions /\ NoAccess /\ NoMails /\ NoLogins
  \/ part = "identities" /\ I!Init /\ NoSessions /\ NoAccess /\ NoMails /\ NoBook

AccountsNext ==
  \/ part = "sessions" /\ Next /\ UNCHANGED <<part, access, mails, books, logins, request>>
  \/ part = "access" /\ X!Next /\ UNCHANGED <<part, vars, mails, books, logins, request>>
  \/ part = "mails" /\ M!Next /\ UNCHANGED <<part, vars, access, books, logins>>
  \/ part = "addresses" /\ B!Next /\ UNCHANGED <<part, vars, access, mails, logins>>
  \/ part = "identities" /\ I!Next /\ UNCHANGED <<part, vars, access, mails, books>>

AccountsSpec == AccountsInit /\ [][AccountsNext]_all
-----------------------------------------------------------------------------
(* Whoever gets through to the work of the office holds a token of its     *)
(* panel and still has the role for it. (And every variable keeps its      *)
(* type, here and in the sessions.)                                        *)
OfficeWorkIsForTheOffice ==
  TypeOK /\ (part = "access" => X!TypeOK /\ X!OfficeWorkIsForTheOffice)

(* Every address of an account is the one it was created with, was set by  *)
(* the office, or was proved by a link mailed to that address. (And every  *)
(* variable keeps its type.)                                               *)
EmailsAreOwn == part = "mails" => M!TypeOK /\ M!EmailsAreOwn

(* isEmailVerified is true only of an address that a link mailed to it has *)
(* proved, that the provider vouched for when it created the account, or   *)
(* that the office has set.                                                *)
VerifiedMeansProved == part = "mails" => M!VerifiedMeansProved

(* At most one address of a book is the default one. (And every variable   *)
(* keeps its type.)                                                        *)
OneDefault == part = "addresses" => B!TypeOK /\ B!OneDefault

(* Every account keeps a password or a provider to log in with, unless two *)
(* unlinks of it have run at once. (And every variable keeps its type.)    *)
EverybodyCanLogIn == part = "identities" => I!TypeOK /\ I!EverybodyCanLogIn

(* An identity never passes from one account to another. *)
IdentitiesDoNotMove == [][part = "identities" => I!IdentitiesDoNotMove]_all
=============================================================================
