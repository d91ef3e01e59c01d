---------------------------- MODULE AccountMails ----------------------------
(***************************************************************************)
(* Accounts, their addresses and the links that are mailed to them:        *)
(* registration with its confirmation, accounts created by the log-in of a *)
(* provider, the forgotten password and the change of the e-mail in two    *)
(* steps (AuthService, OAuthService, UsersService).                        *)
(*                                                                         *)
(* A link is named by the order in which it was issued and a row keeps the *)
(* last link of each kind, as a hash.  A used token is "cleared" with      *)
(* undefined, which TypeORM leaves out of the UPDATE: it stays until it is *)
(* replaced or expires.  A call is cut at its awaits.                      *)
(***************************************************************************)
EXTENDS Naturals, FiniteSets, Sequences

CONSTANTS Users,     \* in the order of their creation: 1, 2, ...
          Emails,    \* written in one way (toLowerCase)
          Calls,
          Window,    \* verifyEmail and resetPassword look at the newest 1000
          MaxLinks,  \* bound of the model: mails sent
          MaxGiven   \* bound of the model: accounts created, addresses set

VARIABLES
  row,     \* [Users -> Rows], NoRow when there is none
  links,   \* the mails sent: [1 .. n -> [kind, user, to]]
  call,    \* [Calls -> the state of a request]
  proved,  \* history: <<user, email>> of links that were followed
  given    \* history: <<user, email, by>> set without a link

vars == <<row, links, call, proved, given>>

NoEmail == "none"
NoRow == [email |-> NoEmail, verified |-> FALSE, verify |-> 0, reset |-> 0,
          pending |-> NoEmail, pendingToken |-> 0]
Exists(u) == row[u] # NoRow

(* How an account comes to be: its owner types the address, or a provider  *)
(* tells it and vouches for it (Yandex) or does not (VK), or tells none    *)
(* and a placeholder is made up.  The first row is verified only in the    *)
(* second case.                                                            *)
Origins == {"registration", "vouched", "provider", "placeholder"}
NewRow(e, o) == [NoRow EXCEPT !.email = e, !.verified = (o = "vouched")]
Idle == [pc |-> "idle", user |-> 0, email |-> NoEmail, link |-> 0]

TypeOK ==
  /\ \A u \in Users : /\ row[u].email \in Emails \cup {NoEmail}
                      /\ {row[u].verify, row[u].reset, row[u].pendingToken} \subseteq 0 .. Len(links)
                      /\ row[u].pending # NoEmail => row[u].pendingToken # 0
  /\ \A r \in Calls : call[r].link \in 0 .. Len(links) /\ call[r].user \in Users \cup {0}
  /\ \A u, v \in Users : Exists(u) /\ row[u].email = row[v].email => u = v

(* One user has registered before. *)
Init ==
  \E e \in Emails :
    /\ row = [u \in Users |-> IF u = 1 THEN NewRow(e, "registration") ELSE NoRow] /\ links = <<>>
    /\ call = [r \in Calls |-> Idle]
    /\ proved = {} /\ given = {<<1, e, "registration">>}
-----------------------------------------------------------------------------
At(r, pc) == call[r].pc = pc
Go(r, pc, u, e, n) == call' = [call EXCEPT ![r] = [pc |-> pc, user |-> u, email |-> e, link |-> n]]
Done(r) == call' = [call EXCEPT ![r] = Idle]

WithEmail(e) == {u \in Users : row[u].email = e}
Free(e) == WithEmail(e) = {}

(* findAll({ limit: 1000 }): the newest rows. *)
Visible == {u \in Users : Exists(u) /\ Cardinality({v \in Users : Exists(v) /\ v > u}) < Window}

Mail(kind, u, to) ==
  /\ Len(links) < MaxLinks
  /\ links' = Append(links, [kind |-> kind, user |-> u, to |-> to])
NextLink == Len(links) + 1

Still == UNCHANGED <<row, links, proved, given>>

(* The users there are or were. *)
Known == {g[1] : g \in given}

(* register: the e-mail is free (asked twice), then bcrypt.hash ... *)
Register(r, e) ==
  /\ At(r, "idle") /\ Free(e) /\ Cardinality(given) < MaxGiven
  /\ Go(r, "registration", 0, e, 0)
  /\ Still

(* resolveOAuth of an identity nobody has linked: an account that has the  *)
(* address is linked to it, or the log-in is refused, and neither writes   *)
(* the row of a user; nobody is asked about a placeholder.                 *)
SignIn(r, e, o) ==
  /\ At(r, "idle") /\ o # "registration" /\ Cardinality(given) < MaxGiven
  /\ o = "placeholder" \/ Free(e)
  /\ Go(r, o, 0, e, 0)
  /\ Still

(* ... and the insert, which the unique index on the e-mail may refuse.    *)
(* Only a registration is followed by the link of its confirmation.        *)
Insert(r, u) ==
  /\ call[r].pc \in Origins
  /\ u = Cardinality(Known) + 1
  /\ IF Free(call[r].email)
     THEN /\ row' = [row EXCEPT ![u] = NewRow(call[r].email, call[r].pc)]
          /\ given' = given \cup {<<u, call[r].email, call[r].pc>>}
          /\ IF call[r].pc = "registration" THEN Go(r, "verifyLink", u, call[r].email, 0) ELSE Done(r)
     ELSE Done(r) /\ UNCHANGED <<row, given>>
  /\ UNCHANGED <<links, proved>>

(* createUserWithIdentity is one transaction: where the identity is linked *)
(* meanwhile, the user is rolled back with it.                             *)
RollBack(r) ==
  /\ call[r].pc \in Origins \ {"registration"}
  /\ Done(r)
  /\ Still

(* generateEmailVerificationToken and the mail. *)
IssueVerify(r) ==
  /\ At(r, "verifyLink")
  /\ LET u == call[r].user IN
       IF Exists(u)
       THEN /\ row' = [row EXCEPT ![u].verify = NextLink]
            /\ Mail("verify", u, call[r].email)
       ELSE UNCHANGED <<row, links>>
  /\ Done(r)
  /\ UNCHANGED <<proved, given>>

(* forgotPassword: the user is looked up by the e-mail, the token is       *)
(* stored, and the mail goes to the address that was read.                 *)
Forgot(r, u) ==
  /\ At(r, "idle") /\ Exists(u)
  /\ Go(r, "resetLink", u, row[u].email, 0)
  /\ Still
IssueReset(r) ==
  /\ At(r, "resetLink")
  /\ LET u == call[r].user IN
       IF Exists(u)
       THEN /\ row' = [row EXCEPT ![u].reset = NextLink]
            /\ Mail("reset", u, call[r].email)
       ELSE UNCHANGED <<row, links>>
  /\ Done(r)
  /\ UNCHANGED <<proved, given>>

(* requestEmailChange: password, e-mail and its uniqueness are checked.    *)
(* (Passwords are not modelled: who has none may set one at any time.)     *)
RequestChange(r, u, e) ==
  /\ At(r, "idle") /\ Exists(u) /\ e # row[u].email /\ Free(e)
  /\ Go(r, "changeLink", u, e, 0)
  /\ Still
(* Mutation: the link goes to the address the account has. *)
IssueChangeToOldAddress(r) ==
  /\ At(r, "changeLink") /\ Exists(call[r].user)
  /\ row' = [row EXCEPT ![call[r].user].pending = call[r].email, ![call[r].user].pendingToken = NextLink]
  /\ Mail("change", call[r].user, row[call[r].user].email)
  /\ Done(r)
  /\ UNCHANGED <<proved, given>>

(* ... and the address and the hash of its token are stored together. *)
IssueChange(r) ==
  /\ At(r, "changeLink")
  /\ LET u == call[r].user IN
       IF Exists(u)
       THEN /\ row' = [row EXCEPT ![u].pending = call[r].email, ![u].pendingToken = NextLink]
            /\ Mail("change", u, call[r].email)
       ELSE UNCHANGED <<row, links>>
  /\ Done(r)
  /\ UNCHANGED <<proved, given>>
-----------------------------------------------------------------------------
(* verifyEmail: a scan of the newest rows, then the UPDATE. *)
FindVerify(r, n) ==
  /\ At(r, "idle")
  /\ \E u \in Visible : row[u].verify = n /\ Go(r, "verify", u, NoEmail, n)
  /\ Still
Follow(n) == proved' = proved \cup {<<links[n].user, links[n].to>>}
Verify(r) ==
  /\ At(r, "verify")
  /\ row' = [row EXCEPT ![call[r].user] = IF Exists(call[r].user) THEN [@ EXCEPT !.verified = TRUE] ELSE @]
  /\ Follow(call[r].link)
  /\ Done(r)
  /\ UNCHANGED <<links, given>>

(* resetPassword: the same scan; the UPDATE writes the password and ends   *)
(* the sessions, which Sessions models.                                    *)
FindReset(r, n) ==
  /\ At(r, "idle")
  /\ \E u \in Visible : row[u].reset = n /\ Go(r, "reset", u, NoEmail, n)
  /\ Still
Reset(r) ==
  /\ At(r, "reset")
  /\ Follow(call[r].link)
  /\ Done(r)
  /\ UNCHANGED <<row, links, given>>

(* Mutation: the pending address and not the one that was asked for. *)
PendingByNow(r) == row[call[r].user].pending

(* The address of the row that was read. *)
Confirmed(r) == call[r].email

(* confirmEmailChange: the row is found by the token ... *)
FindChange(r, n) ==
  /\ At(r, "idle")
  /\ \E u \in Users : Exists(u) /\ row[u].pendingToken = n /\ Go(r, "check", u, row[u].pending, n)
  /\ Still
(* ... the uniqueness is asked again (a conflict ends the call and, with   *)
(* undefined, changes nothing) ...                                         *)
CheckChange(r) ==
  /\ At(r, "check")
  /\ IF WithEmail(call[r].email) \subseteq {call[r].user}
     THEN call' = [call EXCEPT ![r].pc = "change"]
     ELSE Done(r)
  /\ Still
(* ... and the row is written unless the unique index refuses. *)
Change(r) ==
  /\ At(r, "change")
  /\ LET u == call[r].user IN
       IF Exists(u) /\ WithEmail(Confirmed(r)) \subseteq {u}
       THEN row' = [row EXCEPT ![u].email = Confirmed(r)]
       ELSE UNCHANGED row
  /\ Follow(call[r].link)
  /\ Done(r)
  /\ UNCHANGED <<links, given>>

(* UsersService.update by an administrator, and delete. *)
Edit(r, u, e) ==
  /\ At(r, "idle") /\ Exists(u) /\ Free(e) /\ Cardinality(given) < MaxGiven
  /\ Go(r, "edit", u, e, 0)
  /\ Still
WriteEdit(r) ==
  /\ At(r, "edit")
  /\ LET u == call[r].user
         e == call[r].email
     IN  IF Exists(u) /\ WithEmail(e) \subseteq {u}
         THEN row' = [row EXCEPT ![u].email = e] /\ given' = given \cup {<<u, e, "office">>}
         ELSE UNCHANGED <<row, given>>
  /\ Done(r)
  /\ UNCHANGED <<links, proved>>
Delete(u) ==
  /\ Exists(u)
  /\ row' = [row EXCEPT ![u] = NoRow]
  /\ UNCHANGED <<links, call, proved, given>>

Next ==
  \/ \E r \in Calls :
       \/ IssueVerify(r) \/ IssueReset(r) \/ IssueChange(r) \/ Verify(r) \/ Reset(r)
       \/ CheckChange(r) \/ Change(r) \/ WriteEdit(r) \/ RollBack(r)
       \/ \E e \in Emails : Register(r, e) \/ \E o \in Origins : SignIn(r, e, o)
       \/ \E u \in Users : Insert(r, u) \/ Forgot(r, u)
       \/ \E u \in Users, e \in Emails : RequestChange(r, u, e) \/ Edit(r, u, e)
       \/ \E n \in DOMAIN links : FindVerify(r, n) \/ FindReset(r, n) \/ FindChange(r, n)
  \/ \E u \in Users : Delete(u)

Spec == Init /\ [][Next]_vars
-----------------------------------------------------------------------------
GivenBy(u, e, by) == <<u, e, by>> \in given

(* Every address of an account is the one it was created with, was set by  *)
(* the office, or was proved by a link that was mailed to that very        *)
(* address, also when several changes of the e-mail are asked for and      *)
(* confirmed at once: the address and its token are written together and   *)
(* the confirmation writes the address of the row it found by the token.   *)
EmailsAreOwn ==
  \A u \in Users : Exists(u) =>
    \/ \E by \in Origins \cup {"office"} : GivenBy(u, row[u].email, by)
    \/ <<u, row[u].email>> \in proved

(* isEmailVerified is true of the address the account has now, unless the  *)
(* office set it: a link mailed there was followed, or the provider that   *)
(* the account was created by vouches for it.  Confirming an old link      *)
(* after a change of the e-mail does not vouch for an address nobody has   *)
(* proved, nor does the log-in of a provider that did not check it.        *)
VerifiedMeansProved ==
  \A u \in Users : row[u].verified =>
    \/ <<u, row[u].email>> \in proved
    \/ \E by \in {"office", "vouched"} : GivenBy(u, row[u].email, by)
=============================================================================
