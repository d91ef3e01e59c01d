------------------------------- MODULE Access -------------------------------
(***************************************************************************)
(* Who gets through the guards: access tokens outlive a change of the      *)
(* role.  A token carries the role and the audience of its login;          *)
(* JwtStrategy reads the user anew on every request and keeps only the     *)
(* audience of the token, then RolesGuard compares the route with both.    *)
(***************************************************************************)
EXTENDS Routes

VARIABLES
  role,    \* users.role, "gone" when the row was deleted
  tokens   \* the access tokens that have not expired

vars == <<role, tokens>>

Audiences == {"web", "admin-panel"}
Token == [aud : Audiences, role : AllRoles]

TypeOK == role \in AllRoles \cup {"gone"} /\ tokens \subseteq Token

Init == role \in AllRoles /\ tokens = {}

Login(a) ==
  /\ role # "gone"
  /\ a = "admin-panel" => role \in Office
  /\ tokens' = tokens \cup {[aud |-> a, role |-> role]}
  /\ UNCHANGED role

Expire(t) == t \in tokens /\ tokens' = tokens \ {t} /\ UNCHANGED role

SetRole(s) == role # "gone" /\ role' = s /\ UNCHANGED tokens
Delete == role' = "gone" /\ UNCHANGED tokens

Next == \/ \E a \in Audiences : Login(a)
        \/ \E t \in tokens : Expire(t)
        \/ \E s \in AllRoles : SetRole(s)
        \/ Delete

Spec == Init /\ [][Next]_vars
-----------------------------------------------------------------------------
(* Mutation: the role of the token counts. *)
RoleInToken(t) == t.role

(* JwtStrategy.validate *)
CurrentRole(t) == role

(* RolesGuard.canActivate *)
Passes(t, needs) ==
  \/ needs.roles = {}
  \/ /\ CurrentRole(t) \in needs.roles
     /\ needs.roles \cap Office # {} => t.aud = "admin-panel"

(* JwtAuthGuard and RolesGuard, in this order. *)
Admits(t, route) ==
  \/ route.needs.public
  \/ /\ role # "gone"
     /\ Passes(t, route.needs)
-----------------------------------------------------------------------------
(* What only the office may do: everything that changes the shop itself.   *)
OfficeWork ==
  {r \in All : \/ r.of \in {"users", "upload", "marking", "import"}
               \/ r.of \in {"products", "categories", "promotions", "settings", "pages"}
                  /\ r.name \in {"create", "update", "delete", "bulkDelete", "bulkUpdateStatus",
                       "updateStock", "reorder", "updateSettings", "createShippingMethod",
                       "updateShippingMethod", "deleteShippingMethod", "createPaymentMethod",
                       "updatePaymentMethod", "deletePaymentMethod", "uploadFile", "deleteFile"}
               \/ r.of = "orders" /\ r.name \in {"updateStatus", "update"}
               \/ r.of = "reviews" /\ r.name \in {"approve", "addReply"}}

(* A downgrade, a deletion and the audience take effect on the very next   *)
(* request although the old token is still valid: no route that changes    *)
(* the shop admits it.                                                     *)
OfficeWorkIsForTheOffice ==
  \A t \in tokens, r \in OfficeWork : Admits(t, r) => role \in Office /\ t.aud = "admin-panel"
=============================================================================
