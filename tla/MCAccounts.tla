----------------------------- MODULE MCAccounts -----------------------------
(***************************************************************************)
(* Two requests at a time on one account or two: three addresses, one of   *)
(* them to start from, two links to follow, an address book of three, and  *)
(* two profiles of providers for two users.                                *)
(***************************************************************************)
EXTENDS Accounts, TLC

CONSTANTS r1, r2, a1, a2, a3, m1, m2, u1, u2, p1, p2

MCCalls     == {r1, r2}
MCUsers     == {1, 2}
MCAddresses == {a1, a2, a3}
MCPeople    == {u1, u2}
MCMailboxes == {m1, m2}
MCProfiles  == {p1, p2}

(* Yandex vouches for the address of p1, VK gives p2 none. *)
MCEmailOf  == (p1 :> m1) @@ (p2 :> "none")
MCVerified == {p1}

(* Requests are interchangeable, and so are the addresses of AccountMails  *)
(* and of the book.                                                        *)
Symmetry == Permutations(Calls) \cup Permutations(MCAddresses)
=============================================================================
