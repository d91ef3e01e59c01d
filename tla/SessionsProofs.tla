--------------------------- MODULE SessionsProofs ---------------------------
(***************************************************************************)
(* Proofs about the refresh tokens of one user, for any number of requests *)
(* that overlap in any way.                                                *)
(*                                                                         *)
(* What a token is worth depends on what its call has seen, so the         *)
(* invariants speak of calls under way: one that will hand out a token for *)
(* the admin panel has met a member of the staff, and one that began after *)
(* the last revocation has read only sessions opened since.                *)
(***************************************************************************)
EXTENDS Sessions, TLAPS

Call == [pc    : {"idle", "checked", "read", "write", "revoke", "done"},
         op    : {"none", "login", "refresh", "logout", "revoke"},
         aud   : Audiences,
         seen  : SUBSET Audiences,
         staff : BOOLEAN,
         old   : BOOLEAN]

CallsAreTyped == call \in [Calls -> Call] /\ open \subseteq Audiences

Granting(r) == call[r].op \in {"login", "refresh"} /\ call[r].aud = "admin-panel"

(* A call notices when the user is staff, at its start or later, and one   *)
(* that has passed the check of the role for the admin panel has.          *)
StaffIsNoticed ==
  \A r \in Calls :
    /\ Busy(r) /\ role \in Staff => call[r].staff
    /\ call[r].pc \in {"read", "write"} /\ Granting(r) => call[r].staff
    /\ call[r].pc = "done" => call[r].op \in {"login", "refresh"}
    /\ call[r].pc = "done" /\ call[r].aud = "admin-panel" => call[r].staff

(* A call that began after the last revocation carries only sessions that  *)
(* were opened after it.                                                   *)
YoungCallsAreFresh ==
  \A r \in Calls : Busy(r) /\ ~ call[r].old =>
    /\ call[r].pc = "write" => call[r].seen \subseteq fresh
    /\ call[r].pc \in {"checked", "read", "write"} => call[r].op \in {"login", "refresh", "logout"}
    /\ call[r].op = "refresh" => call[r].aud \in fresh

FreshInv == tainted \/ (open \subseteq fresh /\ YoungCallsAreFresh)

(* Where calls do not overlap, the one under way has the row to itself.    *)
OneCallKnows ==
  ~ overlap =>
    \A r \in Calls : Busy(r) =>
      /\ \A q \in Calls : Busy(q) => q = r
      /\ exists
      /\ call[r].pc \in {"checked", "read", "write"} => call[r].op \in {"login", "refresh", "logout"}
      /\ call[r].pc = "write" => call[r].seen = open
      /\ call[r].pc \in {"read", "write"} /\ call[r].op # "logout" => Suits(call[r].aud)
-----------------------------------------------------------------------------
(* The call that starts is a call. *)
LEMMA StartsACall ==
  ASSUME CallsAreTyped, NEW r \in Calls, NEW pc \in {"read", "checked", "write", "revoke"},
         NEW op \in {"login", "refresh", "logout", "revoke"}, NEW a \in Audiences,
         NEW seen \in SUBSET Audiences, Start(r, pc, op, a, seen)
  PROVE  /\ call' \in [Calls -> Call]
         /\ call'[r].pc = pc /\ call'[r].op = op /\ call'[r].aud = a
         /\ call'[r].seen = seen /\ ~ call'[r].old
         /\ call'[r].staff <=> role \in Staff
         /\ \A q \in Calls \ {r} : call'[q] = call[q]
<1> DEFINE c == [pc |-> pc, op |-> op, aud |-> a, seen |-> seen,
                 staff |-> role \in Staff, old |-> FALSE]
<1>1. (role \in Staff) \in BOOLEAN
  OBVIOUS
<1>2. c \in Call /\ call' = [call EXCEPT ![r] = c]
  BY <1>1 DEF Start, Call
<1>3. c.pc = pc /\ c.op = op /\ c.aud = a /\ c.seen = seen /\ c.staff = (role \in Staff) /\ c.old = FALSE
  OBVIOUS
<1> HIDE DEF c
<1> QED
  BY <1>2, <1>3 DEF CallsAreTyped

(* What the calls that begin have in common: who is staff is noticed, and  *)
(* what a call is to write was read in this very step.                     *)
Begins(r) ==
  /\ call' \in [Calls -> Call]
  /\ exists /\ (overlap \/ \A q \in Calls : ~ Busy(q))
  /\ call'[r].pc \in {"read", "checked", "write", "revoke"}
  /\ call'[r].staff <=> role \in Staff
  /\ ~ call'[r].old
  /\ call'[r].pc = "read" => call'[r].op = "login" /\ (call'[r].aud = "admin-panel" => role \in Staff)
  /\ call'[r].pc = "write" => call'[r].op = "logout" /\ call'[r].seen = open
  /\ call'[r].pc = "checked" => call'[r].op = "refresh"
  /\ call'[r].op = "refresh" => call'[r].pc = "checked" /\ call'[r].aud \in open
  /\ \A q \in Calls \ {r} : call'[q] = call[q]
  /\ UNCHANGED <<exists, role, open, overlap, fresh, tainted>>

LEMMA ACallBegins ==
  ASSUME CallsAreTyped, NEW r \in Calls, NEW a \in Audiences,
         Login(r, a) \/ Refresh(r, a) \/ Logout(r, a) \/ StartRevoking(r)
  PROVE  Begins(r)
<1>1. open \in SUBSET Audiences /\ {} \in SUBSET Audiences /\ "web" \in Audiences
  BY DEF CallsAreTyped, Audiences
<1>2. CASE Login(r, a)
  <2>1. Start(r, "read", "login", a, {}) /\ UNCHANGED <<exists, role, open, overlap, fresh, tainted>> /\ Suits(a)
    BY <1>2 DEF Login
  <2>2. exists /\ (overlap \/ \A q \in Calls : ~ Busy(q))
    BY <1>2 DEF Login, MayStart
  <2> QED
    BY <1>1, <2>1, <2>2, StartsACall DEF Begins, Suits
<1>3. CASE Refresh(r, a)
  <2>1. Start(r, "checked", "refresh", a, {}) /\ UNCHANGED <<exists, role, open, overlap, fresh, tainted>> /\ a \in open
    BY <1>3 DEF Refresh
  <2>2. exists /\ (overlap \/ \A q \in Calls : ~ Busy(q))
    BY <1>3 DEF Refresh, MayStart
  <2> QED
    BY <1>1, <2>1, <2>2, StartsACall DEF Begins
<1>4. CASE Logout(r, a)
  <2>1. Start(r, "write", "logout", a, open) /\ UNCHANGED <<exists, role, open, overlap, fresh, tainted>>
    BY <1>4 DEF Logout
  <2>2. exists /\ (overlap \/ \A q \in Calls : ~ Busy(q))
    BY <1>4 DEF Logout, MayStart
  <2> QED
    BY <1>1, <2>1, <2>2, StartsACall DEF Begins
<1>5. CASE StartRevoking(r)
  <2>1. Start(r, "revoke", "revoke", "web", {}) /\ UNCHANGED <<exists, role, open, overlap, fresh, tainted>>
    BY <1>5 DEF StartRevoking
  <2>2. exists /\ (overlap \/ \A q \in Calls : ~ Busy(q))
    BY <1>5 DEF StartRevoking, MayStart
  <2> QED
    BY <1>1, <2>1, <2>2, StartsACall DEF Begins
<1> QED
  BY <1>2, <1>3, <1>4, <1>5

(* What a call is after its write. *)
LEMMA ACallEnds ==
  ASSUME CallsAreTyped, NEW r \in Calls, WriteTokens(r)
  PROVE  /\ call' \in [Calls -> Call]
         /\ call'[r].pc \in {"idle", "done"}
         /\ call'[r].pc = "done" => /\ call'[r].op = call[r].op /\ call[r].op \in {"login", "refresh"}
                                    /\ call'[r].aud = call[r].aud /\ call'[r].staff = call[r].staff
         /\ \A q \in Calls \ {r} : call'[q] = call[q]
<1> DEFINE c == Ended(call[r])
<1>1. /\ c \in Call /\ c.pc \in {"idle", "done"}
      /\ c.pc = "done" => /\ c.op = call[r].op /\ call[r].op \in {"login", "refresh"}
                          /\ c.aud = call[r].aud /\ c.staff = call[r].staff
  BY DEF CallsAreTyped, Call, Ended, Idle, Audiences
<1>2. call' = [call EXCEPT ![r] = c]
  BY DEF WriteTokens
<1> HIDE DEF c
<1> QED
  BY <1>1, <1>2 DEF CallsAreTyped

(* The calls keep their type, at any number of them. *)
THEOREM TypesHold == Spec => []CallsAreTyped
<1>1. Init => CallsAreTyped
  BY DEF Init, CallsAreTyped, Call, Idle, Audiences
<1>2. CallsAreTyped /\ [Next]_vars => CallsAreTyped'
  <2> SUFFICES ASSUME CallsAreTyped, [Next]_vars PROVE CallsAreTyped'
    OBVIOUS
  <2>1. CASE UNCHANGED vars
    BY <2>1 DEF vars, CallsAreTyped
  <2>2. ASSUME NEW r \in Calls, NEW a \in Audiences,
               Login(r, a) \/ Refresh(r, a) \/ Logout(r, a) \/ StartRevoking(r)
        PROVE CallsAreTyped'
    BY <2>2, ACallBegins DEF Begins, CallsAreTyped
  <2>3. ASSUME NEW r \in Calls, CheckRole(r) \/ ReadTokens(r) PROVE CallsAreTyped'
    <3>1. Idle \in Call /\ [call[r] EXCEPT !.pc = "read"] \in Call
      BY DEF Idle, CallsAreTyped, Call, Audiences
    <3>2. [call[r] EXCEPT !.pc = "write", !.seen = open] \in Call
      BY DEF CallsAreTyped, Call
    <3>3. \E c \in Call : call' = [call EXCEPT ![r] = c]
      BY <2>3, <3>1, <3>2 DEF CheckRole, ReadTokens, CallsAreTyped
    <3>4. call' \in [Calls -> Call]
      BY <3>3 DEF CallsAreTyped
    <3> QED
      BY <2>3, <3>4 DEF CheckRole, ReadTokens, CallsAreTyped
  <2>4. ASSUME NEW r \in Calls, WriteTokens(r) PROVE CallsAreTyped'
    <3>1. call' \in [Calls -> Call]
      BY <2>4, ACallEnds
    <3>2. open' \subseteq Audiences
      BY <2>4 DEF WriteTokens, TokensAfter, CallsAreTyped, Call
    <3> QED
      BY <3>1, <3>2 DEF CallsAreTyped
  <2>5. ASSUME NEW r \in Calls, Revoke(r) PROVE CallsAreTyped'
    <3> DEFINE c(q) == IF q = r THEN Idle ELSE [call[q] EXCEPT !.old = Busy(q)]
    <3>1. Idle \in Call
      BY DEF Idle, Call, Audiences
    <3>2. ASSUME NEW q \in Calls PROVE [call[q] EXCEPT !.old = Busy(q)] \in Call
      <4>1. Busy(q) \in BOOLEAN
        BY DEF Busy
      <4> QED
        BY <4>1 DEF CallsAreTyped, Call
    <3>3. \A q \in Calls : c(q) \in Call
      BY <3>1, <3>2
    <3>4. call' = [q \in Calls |-> c(q)] /\ open' = {}
      BY <2>5 DEF Revoke
    <3> HIDE DEF c
    <3> QED
      BY <3>3, <3>4 DEF CallsAreTyped
  <2>6. ASSUME NEW s \in Roles, SetRole(s) PROVE CallsAreTyped'
    <3> DEFINE c(q) == [call[q] EXCEPT !.staff = @ \/ (Busy(q) /\ s \in Staff)]
    <3>1. ASSUME NEW q \in Calls PROVE c(q) \in Call
      <4>1. (call[q].staff \/ (Busy(q) /\ s \in Staff)) \in BOOLEAN
        OBVIOUS
      <4> QED
        BY <4>1 DEF CallsAreTyped, Call
    <3>2. call' = [q \in Calls |-> c(q)] /\ open' = open
      BY <2>6 DEF SetRole
    <3> HIDE DEF c
    <3> QED
      BY <3>1, <3>2 DEF CallsAreTyped
  <2>7. CASE Delete
    BY <2>7 DEF Delete, CallsAreTyped
  <2> QED
    BY <2>1, <2>2, <2>3, <2>4, <2>5, <2>6, <2>7 DEF Next, Audiences
<1> QED
  BY <1>1, <1>2, PTL DEF Spec
-----------------------------------------------------------------------------
(* Tokens for the admin panel are handed out only to a user who was staff  *)
(* during the call, however logins, refreshes, downgrades and revocations  *)
(* overlap (login and refreshTokens).                                      *)
THEOREM OfficeTokensAreForStaff == Spec => []AdminTokensAreForStaff
<1>1. Init => StaffIsNoticed
  <2>1. Idle.pc = "idle"
    BY DEF Idle
  <2>2. Init => \A r \in Calls : call[r].pc = "idle"
    BY <2>1 DEF Init
  <2> QED
    BY <2>2 DEF StaffIsNoticed, Busy
<1>2. CallsAreTyped /\ StaffIsNoticed /\ [Next]_vars => StaffIsNoticed'
  <2> SUFFICES ASSUME CallsAreTyped, StaffIsNoticed, [Next]_vars PROVE StaffIsNoticed'
    OBVIOUS
  <2> USE DEF CallsAreTyped, Call, StaffIsNoticed, Busy, Granting
  <2>1. CASE UNCHANGED vars
    BY <2>1 DEF vars
  <2>2. ASSUME NEW r \in Calls, NEW a \in Audiences,
               Login(r, a) \/ Refresh(r, a) \/ Logout(r, a) \/ StartRevoking(r)
        PROVE StaffIsNoticed'
    BY <2>2, ACallBegins DEF Begins
  <2>3. ASSUME NEW r \in Calls, CheckRole(r) PROVE StaffIsNoticed'
    BY <2>3 DEF CheckRole, Idle, Suits
  <2>4. ASSUME NEW r \in Calls, ReadTokens(r) PROVE StaffIsNoticed'
    BY <2>4 DEF ReadTokens
  <2>5. ASSUME NEW r \in Calls, WriteTokens(r) PROVE StaffIsNoticed'
    <3>1. /\ call'[r].pc \in {"idle", "done"}
          /\ call'[r].pc = "done" => /\ call'[r].op = call[r].op /\ call[r].op \in {"login", "refresh"}
                                     /\ call'[r].aud = call[r].aud /\ call'[r].staff = call[r].staff
          /\ \A q \in Calls \ {r} : call'[q] = call[q]
      BY <2>5, ACallEnds
    <3>2. call[r].pc = "write" /\ role' = role
      BY <2>5 DEF WriteTokens
    <3>3. call[r].op \in {"login", "refresh"} /\ call[r].aud = "admin-panel" => call[r].staff
      BY <3>2
    <3>4. call'[r].pc = "done" /\ call'[r].aud = "admin-panel" => call'[r].staff
      BY <3>1, <3>3, Zenon
    <3>5. ASSUME NEW q \in Calls \ {r} PROVE call'[q] = call[q]
      BY <3>1
    <3> QED
      BY <3>1, <3>2, <3>4, <3>5
  <2>6. ASSUME NEW r \in Calls, Revoke(r) PROVE StaffIsNoticed'
    BY <2>6 DEF Revoke, Idle
  <2>7. ASSUME NEW s \in Roles, SetRole(s) PROVE StaffIsNoticed'
    BY <2>7 DEF SetRole
  <2>8. CASE Delete
    BY <2>8 DEF Delete
  <2> QED
    BY <2>1, <2>2, <2>3, <2>4, <2>5, <2>6, <2>7, <2>8 DEF Next, Audiences
<1>3. StaffIsNoticed => AdminTokensAreForStaff
  BY DEF StaffIsNoticed, AdminTokensAreForStaff
<1> QED
  BY <1>1, <1>2, <1>3, TypesHold, PTL DEF Spec
-----------------------------------------------------------------------------
(* After a change of the password or the e-mail a session is open only     *)
(* where somebody has logged in since, unless a call that had begun before *)
(* the change has written after it (refreshTokens: null).                  *)
THEOREM RevocationsHold == Spec => []RevocationHolds
<1>1. Init => FreshInv
  BY DEF Init, FreshInv, YoungCallsAreFresh, Idle, Busy
<1>2. CallsAreTyped /\ FreshInv /\ [Next]_vars => FreshInv'
  <2> SUFFICES ASSUME CallsAreTyped, FreshInv, [Next]_vars PROVE FreshInv'
    OBVIOUS
  <2> USE DEF CallsAreTyped, Call, FreshInv, YoungCallsAreFresh, Busy
  <2>1. CASE UNCHANGED vars
    BY <2>1 DEF vars
  <2>2. ASSUME NEW r \in Calls, NEW a \in Audiences,
               Login(r, a) \/ Refresh(r, a) \/ Logout(r, a) \/ StartRevoking(r)
        PROVE FreshInv'
    BY <2>2, ACallBegins DEF Begins
  <2>3. ASSUME NEW r \in Calls, CheckRole(r) PROVE FreshInv'
    BY <2>3 DEF CheckRole, Idle
  <2>4. ASSUME NEW r \in Calls, ReadTokens(r) PROVE FreshInv'
    BY <2>4 DEF ReadTokens
  <2>5. ASSUME NEW r \in Calls, WriteTokens(r) PROVE FreshInv'
    <3>1. call'[r].pc \in {"idle", "done"} /\ \A q \in Calls \ {r} : call'[q] = call[q]
      BY <2>5, ACallEnds
    <3>2. CASE tainted \/ call[r].old
      BY <2>5, <3>2 DEF WriteTokens
    <3>3. CASE ~ tainted /\ ~ call[r].old
      <4>1. call[r].seen \subseteq fresh /\ call[r].op \in {"login", "refresh", "logout"} /\ (call[r].op = "refresh" => call[r].aud \in fresh)
        BY <2>5, <3>3 DEF WriteTokens
      <4>2. open' \subseteq fresh' /\ fresh \subseteq fresh'
        <5>1. open \subseteq fresh
          BY <3>3
        <5>2. CASE ~ exists
          BY <2>5, <5>1, <5>2 DEF WriteTokens
        <5>3. CASE exists /\ call[r].op = "logout"
          BY <2>5, <4>1, <5>3 DEF WriteTokens, TokensAfter
        <5>4. CASE exists /\ call[r].op = "login"
          BY <2>5, <4>1, <5>4 DEF WriteTokens, TokensAfter
        <5>5. CASE exists /\ call[r].op = "refresh"
          BY <2>5, <4>1, <5>5 DEF WriteTokens, TokensAfter
        <5> QED
          BY <5>2, <5>3, <5>4, <5>5, <4>1
      <4> QED
        BY <3>1, <3>3, <4>2
    <3> QED
      BY <3>2, <3>3
  <2>6. ASSUME NEW r \in Calls, Revoke(r) PROVE FreshInv'
    BY <2>6 DEF Revoke, Idle
  <2>7. ASSUME NEW s \in Roles, SetRole(s) PROVE FreshInv'
    BY <2>7 DEF SetRole
  <2>8. CASE Delete
    BY <2>8 DEF Delete
  <2> QED
    BY <2>1, <2>2, <2>3, <2>4, <2>5, <2>6, <2>7, <2>8 DEF Next, Audiences
<1>3. FreshInv => RevocationHolds
  BY DEF FreshInv, RevocationHolds
<1> QED
  BY <1>1, <1>2, <1>3, TypesHold, PTL DEF Spec
-----------------------------------------------------------------------------
(* Where requests do not overlap, every step of a request is a step of     *)
(* LoginSessions or leaves its state alone: login, refreshTokens, logout,  *)
(* the revocations, the change of the role and the deletion.               *)
THEOREM StepsRefineSessions == Spec => StepsAreAtomic
<1>1. Init => OneCallKnows
  <2>1. Idle.pc = "idle"
    BY DEF Idle
  <2>2. Init => \A r \in Calls : call[r].pc = "idle"
    BY <2>1 DEF Init
  <2> QED
    BY <2>2 DEF OneCallKnows, Busy
<1>2. CallsAreTyped /\ OneCallKnows /\ [Next]_vars => OneCallKnows' /\ [IsAtomic]_vars
  <2> SUFFICES ASSUME CallsAreTyped, OneCallKnows, Next, ~ overlap
               PROVE  OneCallKnows' /\ [Abstract!Next]_(Abstract!vars)
    <3>1. UNCHANGED vars => (OneCallKnows => OneCallKnows')
      BY DEF vars, OneCallKnows, Busy, Suits
    <3>2. Next => overlap' = overlap
      BY DEF Next, Login, Refresh, Logout, CheckRole, ReadTokens, WriteTokens, StartRevoking, Revoke, SetRole, Delete
    <3>3. overlap' => OneCallKnows'
      BY DEF OneCallKnows
    <3> QED
      BY <3>1, <3>2, <3>3 DEF IsAtomic
  <2> USE DEF OneCallKnows, Busy, Suits
  <2>1. ASSUME NEW r \in Calls, NEW a \in Audiences,
               Login(r, a) \/ Refresh(r, a) \/ Logout(r, a) \/ StartRevoking(r)
        PROVE OneCallKnows' /\ UNCHANGED <<role, open>>
    <3>1. Begins(r)
      BY <2>1, ACallBegins
    <3> QED
      BY <3>1 DEF Begins
  <2>2. ASSUME NEW r \in Calls, CheckRole(r) PROVE OneCallKnows' /\ UNCHANGED <<role, open>>
    BY <2>2 DEF CheckRole, Idle, CallsAreTyped, Call
  <2>3. ASSUME NEW r \in Calls, ReadTokens(r) PROVE OneCallKnows' /\ UNCHANGED <<role, open>>
    BY <2>3 DEF ReadTokens, CallsAreTyped, Call
  <2>4. ASSUME NEW r \in Calls, WriteTokens(r)
        PROVE OneCallKnows' /\ \E a \in Audiences : Abstract!Open(a) \/ Abstract!Close(a)
    <3>1. call'[r].pc \in {"idle", "done"} /\ \A q \in Calls \ {r} : call'[q] = call[q]
      BY <2>4, ACallEnds
    <3>2. OneCallKnows'
      BY <2>4, <3>1 DEF WriteTokens
    <3>3. /\ exists /\ call[r].op \in {"login", "refresh", "logout"} /\ call[r].seen = open
          /\ call[r].op # "logout" => (call[r].aud = "admin-panel" => role \in Staff)
          /\ call[r].aud \in Audiences
      BY <2>4 DEF WriteTokens, CallsAreTyped, Call
    <3>4. open' = TokensAfter(call[r].op, call[r].aud, call[r].seen) /\ role' = role
      BY <2>4, <3>3 DEF WriteTokens
    <3>5. Abstract!Open(call[r].aud) \/ Abstract!Close(call[r].aud)
      BY <3>3, <3>4 DEF TokensAfter, Abstract!Open, Abstract!Close, Abstract!MayOpen
    <3> QED
      BY <3>2, <3>3, <3>5
  <2>5. ASSUME NEW r \in Calls, Revoke(r) PROVE OneCallKnows' /\ Abstract!CloseAll
    BY <2>5 DEF Revoke, Idle, CallsAreTyped, Call, Abstract!CloseAll
  <2>6. ASSUME NEW s \in Roles, SetRole(s) PROVE OneCallKnows' /\ Abstract!SetRole(s)
    BY <2>6 DEF SetRole, CallsAreTyped, Call, Abstract!SetRole
  <2>7. CASE Delete
    <3>1. OneCallKnows' /\ Abstract!CloseAll
      BY <2>7 DEF Delete, Abstract!CloseAll
    <3> QED
      BY <3>1 DEF Abstract!Next
  <2> QED
    BY <2>1, <2>2, <2>3, <2>4, <2>5, <2>6, <2>7 DEF Next, Audiences, Abstract!Next, Abstract!vars
<1> QED
  BY <1>1, <1>2, TypesHold, PTL DEF Spec, StepsAreAtomic
-----------------------------------------------------------------------------
(* The rest of the row: without a row no audience is open, and a call that *)
(* does not run keeps nothing but what it has answered.                    *)
RowIsTyped ==
  /\ exists \in BOOLEAN /\ overlap \in BOOLEAN /\ tainted \in BOOLEAN
  /\ role \in Roles /\ fresh \subseteq Audiences
  /\ ~ exists => open = {}

EndedCallsAreTyped ==
  \A r \in Calls : /\ call[r].pc = "idle" => call[r].op = "none"
                   /\ call[r].pc = "done" => call[r].op \in {"login", "refresh"}

LEMMA RowStaysTyped ==
  ASSUME CallsAreTyped, RowIsTyped, [Next]_vars
  PROVE  RowIsTyped'
<1>1. CASE UNCHANGED <<exists, role, open, overlap, fresh, tainted>>
  BY <1>1 DEF RowIsTyped
<1>2. CASE \E r \in Calls : WriteTokens(r)
  <2>1. PICK r \in Calls : WriteTokens(r)
    BY <1>2
  <2>2. call[r].aud \in Audiences /\ call[r].old \in BOOLEAN
    BY DEF CallsAreTyped, Call
  <2>3. tainted' \in BOOLEAN
    BY <2>1 DEF WriteTokens
  <2>4. UNCHANGED <<exists, role, overlap>> /\ fresh' \subseteq Audiences /\ (~ exists => open' = open)
    BY <2>1, <2>2 DEF WriteTokens, RowIsTyped
  <2> QED
    BY <2>3, <2>4 DEF RowIsTyped
<1>3. CASE \E r \in Calls : Revoke(r)
  BY <1>3 DEF Revoke, RowIsTyped
<1>4. CASE \E s \in Roles : SetRole(s)
  BY <1>4 DEF SetRole, RowIsTyped
<1>5. CASE Delete
  BY <1>5 DEF Delete, RowIsTyped
<1> QED
  BY <1>1, <1>2, <1>3, <1>4, <1>5
  DEF Next, vars, Login, Refresh, Logout, StartRevoking, CheckRole, ReadTokens

LEMMA EndedCallsStayTyped ==
  ASSUME CallsAreTyped, EndedCallsAreTyped, [Next]_vars
  PROVE  EndedCallsAreTyped'
<1>1. Idle.op = "none" /\ Idle.pc = "idle"
  BY DEF Idle
<1>2. CASE UNCHANGED vars
  BY <1>2 DEF vars, EndedCallsAreTyped
<1>3. ASSUME NEW r \in Calls, NEW a \in Audiences,
             Login(r, a) \/ Refresh(r, a) \/ Logout(r, a) \/ StartRevoking(r)
      PROVE EndedCallsAreTyped'
  BY <1>3, ACallBegins DEF Begins, EndedCallsAreTyped
<1>4. ASSUME NEW r \in Calls, CheckRole(r) \/ ReadTokens(r) PROVE EndedCallsAreTyped'
  <2>1. \A q \in Calls :
          (q # r /\ call'[q] = call[q]) \/ (q = r /\ (call'[q] = Idle \/ call'[q].pc \in {"read", "write"}))
    <3>1. [call[r] EXCEPT !.pc = "read"].pc = "read" /\ [call[r] EXCEPT !.pc = "write", !.seen = open].pc = "write"
      BY DEF CallsAreTyped, Call
    <3>2. \E c \in {Idle, [call[r] EXCEPT !.pc = "read"], [call[r] EXCEPT !.pc = "write", !.seen = open]} :
            call' = [call EXCEPT ![r] = c]
      BY <1>4 DEF CheckRole, ReadTokens, CallsAreTyped
    <3>3. PICK c : (c = Idle \/ c.pc \in {"read", "write"}) /\ call' = [call EXCEPT ![r] = c]
      BY <3>1, <3>2
    <3>4. call'[r] = c /\ \A q \in Calls : q # r => call'[q] = call[q]
      BY <3>3 DEF CallsAreTyped
    <3> QED
      BY <3>3, <3>4
  <2> QED
    BY <1>1, <2>1 DEF EndedCallsAreTyped
<1>5. ASSUME NEW r \in Calls, WriteTokens(r) PROVE EndedCallsAreTyped'
  <2>1. call'[r] = Ended(call[r]) /\ \A q \in Calls \ {r} : call'[q] = call[q]
    BY <1>5 DEF WriteTokens, CallsAreTyped
  <2>2. CASE call[r].op \in {"login", "refresh"}
    <3>1. call'[r].op = call[r].op /\ call'[r].pc = "done"
      BY <2>1, <2>2 DEF Ended, Idle
    <3> QED
      BY <2>1, <2>2, <3>1 DEF EndedCallsAreTyped
  <2>3. CASE call[r].op \notin {"login", "refresh"}
    BY <1>1, <2>1, <2>3 DEF Ended, EndedCallsAreTyped
  <2> QED
    BY <2>2, <2>3
<1>6. ASSUME NEW r \in Calls, Revoke(r) PROVE EndedCallsAreTyped'
  <2>1. \A q \in Calls : call'[q] = Idle \/ (call'[q].pc = call[q].pc /\ call'[q].op = call[q].op)
    BY <1>6 DEF Revoke, CallsAreTyped, Call
  <2> QED
    BY <1>1, <2>1 DEF EndedCallsAreTyped
<1>7. ASSUME NEW s \in Roles, SetRole(s) PROVE EndedCallsAreTyped'
  <2>1. \A q \in Calls : call'[q].pc = call[q].pc /\ call'[q].op = call[q].op
    BY <1>7 DEF SetRole, CallsAreTyped, Call
  <2> QED
    BY <2>1 DEF EndedCallsAreTyped
<1>8. CASE Delete
  BY <1>8 DEF Delete, EndedCallsAreTyped
<1> QED
  BY <1>2, <1>3, <1>4, <1>5, <1>6, <1>7, <1>8 DEF Next, Audiences

(* Every variable keeps its type, and a deleted user has no open session.  *)
THEOREM RowsAreTyped == Spec => []TypeOK
<1>1. Init => RowIsTyped /\ EndedCallsAreTyped
  <2>1. Idle.op = "none" /\ Idle.pc = "idle"
    BY DEF Idle
  <2>2. Init => \A r \in Calls : call[r] = Idle
    BY DEF Init
  <2>3. Init => RowIsTyped
    BY DEF Init, RowIsTyped
  <2> QED
    BY <2>1, <2>2, <2>3 DEF EndedCallsAreTyped
<1>2. CallsAreTyped /\ RowIsTyped /\ EndedCallsAreTyped => TypeOK
  <2> SUFFICES ASSUME CallsAreTyped, RowIsTyped, EndedCallsAreTyped PROVE TypeOK
    OBVIOUS
  <2>1. \A r \in Calls : call[r].seen \subseteq Audiences /\ (~ Busy(r) => call[r].op \in {"none", "login", "refresh"})
    BY DEF CallsAreTyped, Call, Busy, EndedCallsAreTyped
  <2> QED
    BY <2>1 DEF TypeOK, RowIsTyped, CallsAreTyped
<1>3. CallsAreTyped /\ RowIsTyped /\ EndedCallsAreTyped /\ [Next]_vars => (RowIsTyped /\ EndedCallsAreTyped)'
  BY RowStaysTyped, EndedCallsStayTyped
<1> QED
  BY <1>1, <1>2, <1>3, TypesHold, PTL DEF Spec
=============================================================================
