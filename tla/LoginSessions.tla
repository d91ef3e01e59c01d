--------------------------- MODULE LoginSessions ---------------------------
(***************************************************************************)
(* What a customer may expect of the sessions of an account, as if every   *)
(* request were one step: a login opens the session of one audience and    *)
(* leaves the other alone, a logout closes one, a change of the password   *)
(* or of the e-mail closes all.                                            *)
(***************************************************************************)
CONSTANTS Audiences, Roles, Staff

VARIABLES role, open

vars == <<role, open>>

MayOpen(a) == a = "admin-panel" => role \in Staff

Init == role \in Roles /\ open = {}

Open(a)    == MayOpen(a) /\ open' = open \cup {a} /\ UNCHANGED role
Close(a)   == open' = open \ {a} /\ UNCHANGED role
CloseAll   == open' = {} /\ UNCHANGED role
SetRole(s) == role' = s /\ UNCHANGED open

Next == \/ \E a \in Audiences : Open(a) \/ Close(a)
        \/ CloseAll
        \/ \E s \in Roles : SetRole(s)

Spec == Init /\ [][Next]_vars
=============================================================================
