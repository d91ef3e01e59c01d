------------------------------ MODULE Sessions ------------------------------
(***************************************************************************)
(* The refresh tokens of one user (rows of users do not touch each other): *)
(* AuthService and UsersService over users.refreshTokens, one hash for     *)
(* each audience in one jsonb column.                                      *)
(*                                                                         *)
(* A login or a refresh hashes the new token, reads the row, and writes    *)
(* the whole column; a change of the password or the e-mail writes null.   *)
(* bcrypt compares 72 bytes, which for a JWT end within the user's id: any *)
(* refresh token of the user passes while a hash of its audience is there, *)
(* so a session is an audience that has a hash.                            *)
(***************************************************************************)
CONSTANTS Calls, Roles, Staff

Audiences == {"web", "admin-panel"}

VARIABLES
  exists,   \* the row of the user
  role,
  open,     \* the audiences in refreshTokens
  call,     \* [Calls -> the state of the request]
  overlap,  \* whether requests run at once in this behaviour
  fresh,    \* history: audiences logged in since the last revocation
  tainted   \* history: a call older than the last revocation has written

vars == <<exists, role, open, call, overlap, fresh, tainted>>

Idle == [pc |-> "idle", op |-> "none", aud |-> "web", seen |-> {}, staff |-> FALSE, old |-> FALSE]
Busy(r) == call[r].pc \in {"checked", "read", "write", "revoke"}

TypeOK ==
  /\ exists \in BOOLEAN /\ overlap \in BOOLEAN /\ tainted \in BOOLEAN
  /\ role \in Roles
  /\ open \subseteq Audiences /\ fresh \subseteq Audiences
  /\ ~ exists => open = {}
  /\ \A r \in Calls : call[r].seen \subseteq Audiences
                      /\ (~ Busy(r) => call[r].op \in {"none", "login", "refresh"})

Init ==
  /\ exists = TRUE /\ role \in Roles /\ open = {} /\ overlap \in BOOLEAN
  /\ call = [r \in Calls |-> Idle]
  /\ fresh = {} /\ tainted = FALSE
-----------------------------------------------------------------------------
MayStart(r) == ~ Busy(r) /\ (overlap \/ \A q \in Calls : ~ Busy(q))

Start(r, pc, op, a, seen) ==
  call' = [call EXCEPT ![r] = [pc |-> pc, op |-> op, aud |-> a, seen |-> seen,
                               staff |-> role \in Staff, old |-> FALSE]]

(* The call ends; what only a later step asks for is forgotten. *)
Ended(c) == IF c.op \in {"login", "refresh"} THEN [Idle EXCEPT !.pc = "done", !.op = c.op, !.aud = c.aud, !.staff = c.staff]
                                             ELSE Idle

Suits(a) == a = "admin-panel" => role \in Staff

(* validateUser (or the exchange of an OAuth handoff, always for the web)  *)
(* and the check of the role in login.                                     *)
Login(r, a) ==
  /\ MayStart(r) /\ exists /\ Suits(a)
  /\ Start(r, "read", "login", a, {})
  /\ UNCHANGED <<exists, role, open, overlap, fresh, tainted>>

(* refreshTokens, validateRefreshToken. *)
Refresh(r, a) ==
  /\ MayStart(r) /\ exists /\ a \in open
  /\ Start(r, "checked", "refresh", a, {})
  /\ UNCHANGED <<exists, role, open, overlap, fresh, tainted>>

(* Mutation: the role is not checked again. *)
CheckRoleNever(r) ==
  /\ call[r].pc = "checked"
  /\ call' = [call EXCEPT ![r].pc = "read"]
  /\ UNCHANGED <<exists, role, open, overlap, fresh, tainted>>

(* refreshTokens: findById and the role, in case it was downgraded. *)
CheckRole(r) ==
  /\ call[r].pc = "checked"
  /\ call' = [call EXCEPT ![r] = IF exists /\ Suits(@.aud) THEN [@ EXCEPT !.pc = "read"] ELSE Idle]
  /\ UNCHANGED <<exists, role, open, overlap, fresh, tainted>>

(* Mutation: the other audience is not carried over. *)
TokensOnly(op, a, seen) == IF op = "logout" THEN {} ELSE {a}

TokensAfter(op, a, seen) == IF op = "logout" THEN seen \ {a} ELSE seen \cup {a}

(* UsersRepository.updateRefreshToken: the row is read ... *)
ReadTokens(r) ==
  /\ call[r].pc = "read"
  /\ call' = [call EXCEPT ![r].pc = "write", ![r].seen = open]
  /\ UNCHANGED <<exists, role, open, overlap, fresh, tainted>>

(* ... and the column is written from that reading; on a row deleted since *)
(* the UPDATE changes nothing.                                             *)
WriteTokens(r) ==
  /\ call[r].pc = "write"
  /\ open' = IF exists THEN TokensAfter(call[r].op, call[r].aud, call[r].seen) ELSE open
  /\ fresh' = IF call[r].op = "login" /\ exists THEN fresh \cup {call[r].aud} ELSE fresh
  /\ tainted' = (tainted \/ call[r].old)
  /\ call' = [call EXCEPT ![r] = Ended(@)]
  /\ UNCHANGED <<exists, role, overlap>>

Logout(r, a) ==
  /\ MayStart(r) /\ exists
  /\ Start(r, "write", "logout", a, open)
  /\ UNCHANGED <<exists, role, open, overlap, fresh, tainted>>

(* changePassword, resetPassword and confirmEmailChange up to their UPDATE *)
(* (bcrypt.hash or the second look at the e-mail is awaited in between).   *)
StartRevoking(r) ==
  /\ MayStart(r) /\ exists
  /\ Start(r, "revoke", "revoke", "web", {})
  /\ UNCHANGED <<exists, role, open, overlap, fresh, tainted>>

(* Mutation: the session in use is spared. *)
RevokeOthers(r) ==
  /\ call[r].pc = "revoke"
  /\ open' = open \cap {"web"} /\ fresh' = {} /\ tainted' = FALSE
  /\ call' = [q \in Calls |-> IF q = r THEN Idle ELSE [call[q] EXCEPT !.old = Busy(q)]]
  /\ UNCHANGED <<exists, role, overlap>>

(* refreshTokens: null, in the UPDATE that writes the password or e-mail. *)
Revoke(r) ==
  /\ call[r].pc = "revoke"
  /\ open' = {} /\ fresh' = {} /\ tainted' = FALSE
  /\ call' = [q \in Calls |-> IF q = r THEN Idle ELSE [call[q] EXCEPT !.old = Busy(q)]]
  /\ UNCHANGED <<exists, role, overlap>>

(* UsersService.update by an administrator, and UsersService.delete. *)
SetRole(s) ==
  /\ exists /\ (overlap \/ \A q \in Calls : ~ Busy(q))
  /\ role' = s
  /\ call' = [q \in Calls |-> [call[q] EXCEPT !.staff = @ \/ (Busy(q) /\ s \in Staff)]]
  /\ UNCHANGED <<exists, open, overlap, fresh, tainted>>

Delete ==
  /\ exists /\ (overlap \/ \A q \in Calls : ~ Busy(q))
  /\ exists' = FALSE /\ open' = {}
  /\ UNCHANGED <<role, call, overlap, fresh, tainted>>

Next ==
  \/ \E r \in Calls : \/ \E a \in Audiences : Login(r, a) \/ Refresh(r, a) \/ Logout(r, a)
                      \/ CheckRole(r) \/ ReadTokens(r) \/ WriteTokens(r) \/ StartRevoking(r) \/ Revoke(r)
  \/ \E s \in Roles : SetRole(s)
  \/ Delete

Spec == Init /\ [][Next]_vars
-----------------------------------------------------------------------------
(* Tokens for the admin panel are handed only to a user who was staff at   *)
(* some moment of the very call that hands them out: a session opened as a *)
(* manager cannot be refreshed after the downgrade, whatever else runs     *)
(* (the re-check of the role in refreshTokens).                            *)
AdminTokensAreForStaff ==
  \A r \in Calls : call[r].pc = "done" /\ call[r].aud = "admin-panel" => call[r].staff

(* After a change of the password or of the e-mail a session is open only  *)
(* where somebody has logged in since: a refresh that begins later finds   *)
(* nothing to refresh.  Only a login, refresh or logout that was already   *)
(* under way may undo this, by writing back what it had read.              *)
RevocationHolds == tainted \/ open \subseteq fresh

(* Requests that do not overlap implement sessions that are opened and     *)
(* closed in one step, each audience without the other.                    *)
Abstract == INSTANCE LoginSessions WITH role <- role, open <- open
IsAtomic == overlap \/ [Abstract!Next]_(Abstract!vars)
StepsAreAtomic == [][IsAtomic]_vars
=============================================================================
