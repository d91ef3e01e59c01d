---------------------------- MODULE AddressBook ----------------------------
(***************************************************************************)
(* The delivery addresses of one user: a list in one jsonb column that     *)
(* every operation of UsersService and UsersRepository reads, changes and  *)
(* writes back as a whole.  Of an address only the mark "default" counts.  *)
(***************************************************************************)
EXTENDS Naturals, FiniteSets, Sequences

CONSTANTS Calls, Ids   \* Ids: the uuids, each given once

VARIABLES
  book,   \* the column: a sequence of addresses
  call,   \* [Calls -> the state of a request]
  given,  \* the ids there were
  unset   \* history: somebody has written isDefault: false on a default

vars == <<book, call, given, unset>>

Address == [id : Ids, dflt : BOOLEAN]
Idle == [pc |-> "idle", op |-> "none", id |-> "none", mark |-> "same", list |-> <<>>]

IdsIn(list) == {list[i].id : i \in DOMAIN list}
Defaults(list) == {i \in DOMAIN list : list[i].dflt}

TypeOK ==
  /\ given \subseteq Ids /\ unset \in BOOLEAN
  /\ book \in Seq(Address) /\ IdsIn(book) \subseteq given
  /\ Cardinality(IdsIn(book)) = Len(book)
  /\ \A r \in Calls : IdsIn(call[r].list) \subseteq given

Init == book = <<>> /\ call = [r \in Calls |-> Idle] /\ given = {} /\ unset = FALSE
-----------------------------------------------------------------------------
Unmarked(list) == [i \in DOMAIN list |-> [list[i] EXCEPT !.dflt = FALSE]]

(* Mutation: the other addresses keep their mark. *)
AddedBeside(list, id, mark) == Append(list, [id |-> id, dflt |-> mark = "yes" \/ list = <<>>])

(* addAddress: the first one and one that asks for it become the default. *)
Added(list, id, mark) ==
  IF mark = "yes" \/ list = <<>> THEN Append(Unmarked(list), [id |-> id, dflt |-> TRUE])
                                 ELSE Append(list, [id |-> id, dflt |-> FALSE])

(* updateAddress: "same" is a body without isDefault. *)
Updated(list, id, mark) ==
  LET base == IF mark = "yes" THEN Unmarked(list) ELSE list IN
    [i \in DOMAIN list |->
       IF list[i].id = id /\ mark # "same" THEN [base[i] EXCEPT !.dflt = mark = "yes"] ELSE base[i]]

(* The others keep their order; an id is in a list once. *)
Others(list, id) ==
  IF id \in IdsIn(list)
  THEN LET k == CHOOSE i \in DOMAIN list : list[i].id = id
       IN  [i \in 1 .. Len(list) - 1 |-> list[IF i < k THEN i ELSE i + 1]]
  ELSE list

(* removeAddress: the first of the others inherits the mark. *)
Removed(list, id) ==
  LET rest == Others(list, id)
      wasDefault == \E i \in Defaults(list) : list[i].id = id
  IN  IF wasDefault /\ rest # <<>> THEN [rest EXCEPT ![1].dflt = TRUE] ELSE rest
-----------------------------------------------------------------------------
(* UsersService: the address must be there, except to add one. *)
Ask(r, op, id, mark) ==
  /\ call[r].pc = "idle"
  /\ IF op = "add" THEN id \notin given /\ given' = given \cup {id}
                   ELSE id \in IdsIn(book) /\ UNCHANGED given
  /\ call' = [call EXCEPT ![r] = [pc |-> "read", op |-> op, id |-> id, mark |-> mark, list |-> <<>>]]
  /\ UNCHANGED <<book, unset>>

(* UsersRepository reads the row again.  An update of an address that has  *)
(* gone ends here; a removal writes the list as it is.                     *)
Read(r) ==
  /\ call[r].pc = "read"
  /\ LET c == call[r] IN
       call' = [call EXCEPT ![r] =
         IF c.op = "update" /\ c.id \notin IdsIn(book) THEN Idle
         ELSE [c EXCEPT !.pc = "write",
                        !.list = CASE c.op = "add"    -> Added(book, c.id, c.mark)
                                   [] c.op = "update" -> Updated(book, c.id, c.mark)
                                   [] c.op = "remove" -> Removed(book, c.id)]]
  /\ UNCHANGED <<book, given, unset>>

Write(r) ==
  /\ call[r].pc = "write"
  /\ book' = call[r].list
  /\ unset' = (unset \/ (call[r].op = "update" /\ call[r].mark = "no"))
  /\ call' = [call EXCEPT ![r] = Idle]
  /\ UNCHANGED given

Next ==
  \E r \in Calls :
    \/ \E id \in Ids, mark \in {"yes", "no", "same"} : Ask(r, "add", id, mark) \/ Ask(r, "update", id, mark)
    \/ \E id \in Ids : Ask(r, "remove", id, "same")
    \/ Read(r) \/ Write(r)

Spec == Init /\ [][Next]_vars
-----------------------------------------------------------------------------
(* The checkout offers the default address: whatever requests overwrite    *)
(* each other, the list never has two defaults, and it always has one      *)
(* unless somebody has taken the mark away by an update.                   *)
OneDefault ==
  /\ Cardinality(Defaults(book)) <= 1
  /\ book # <<>> /\ ~ unset => Defaults(book) # {}
=============================================================================
