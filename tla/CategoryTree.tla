---------------------------- MODULE CategoryTree ----------------------------
(***************************************************************************)
(* The categories of the shop: CategoriesService over a table in which a   *)
(* row names its parent (foreign key), and the tree that is cached in      *)
(* Redis for an hour.  update walks up from the new parent with one query  *)
(* for each step and only then writes.  Slugs, names and the order among   *)
(* siblings are left out; reorder only empties the cache.                  *)
(***************************************************************************)
EXTENDS Naturals, FiniteSets

CONSTANTS Cats, Calls,
          Readers    \* whether the tree is read in this instance

VARIABLES
  parent, \* [Cats -> Cats, Root, or Gone where there is no row]
  tree,   \* the cached tree: a table as it was, or NotCached
  call,   \* [Calls -> the state of a request]
  calm    \* in this behaviour requests do not overlap

vars == <<parent, tree, call, calm>>

Root == "root"
Gone == "gone"
NotCached == <<>>
Idle == [pc |-> "idle", cat |-> Root, target |-> Root, at |-> Root, visited |-> {}, seen |-> NotCached]

In(table) == {c \in Cats : table[c] # Gone}

(* Every parent exists; a walk is never longer than the table. *)
TypeOK ==
  /\ parent \in [Cats -> Cats \cup {Root, Gone}]
  /\ \A c \in In(parent) : parent[c] \in In(parent) \cup {Root}
  /\ calm \in BOOLEAN
  /\ \A r \in Calls : call[r].visited \subseteq Cats

Init ==
  /\ parent = [c \in Cats |-> Gone] /\ tree = NotCached
  /\ call = [r \in Calls |-> Idle] /\ calm \in BOOLEAN
-----------------------------------------------------------------------------
MayStart(r) == call[r].pc = "idle" /\ (calm => \A q \in Calls : call[q].pc = "idle")
At(r, pc) == call[r].pc = pc
Done(r) == call' = [call EXCEPT ![r] = Idle]
Flush(r) == call' = [call EXCEPT ![r] = [Idle EXCEPT !.pc = "flush"]]

(* create: findById of the parent, then the insert. *)
StartCreate(r, c, p) ==
  /\ MayStart(r) /\ parent[c] = Gone /\ p \in In(parent) \cup {Root}
  /\ call' = [call EXCEPT ![r] = [Idle EXCEPT !.pc = "insert", !.cat = c, !.target = p]]
  /\ UNCHANGED <<parent, tree, calm>>
Insert(r) ==
  /\ At(r, "insert")
  /\ LET c == call[r].cat
         p == call[r].target
     IN  IF parent[c] = Gone /\ p \in In(parent) \cup {Root}
         THEN parent' = [parent EXCEPT ![c] = p] /\ Flush(r)
         ELSE Done(r) /\ UNCHANGED parent
  /\ UNCHANGED <<tree, calm>>

(* update with a parentId: findById of both, not the category itself. *)
StartMove(r, c, p) ==
  /\ MayStart(r) /\ {c, p} \subseteq In(parent) /\ c # p
  /\ call' = [call EXCEPT ![r] = [Idle EXCEPT !.pc = "walk", !.cat = c, !.target = p, !.at = p]]
  /\ UNCHANGED <<parent, tree, calm>>

(* Mutation: nobody remembers where the walk has been. *)
KnownNever(visited, c) == FALSE

Known(visited, c) == c \in visited

(* Mutation: only the new parent itself is compared. *)
ClosesAtOnce(c) == c.at = c.cat /\ c.visited = {}

Closes(c) == c.at = c.cat

(* checkCircularDependency: one turn of the loop. *)
Walk(r) ==
  /\ At(r, "walk")
  /\ LET c == call[r]
         up == IF parent[c.at] \in Cats THEN parent[c.at] ELSE Root
     IN  IF Closes(c) THEN Done(r)
         ELSE call' = [call EXCEPT ![r] =
                IF Known(c.visited, c.at) \/ up = Root
                THEN [c EXCEPT !.pc = "move", !.at = Root, !.visited = {}]
                ELSE [c EXCEPT !.at = up, !.visited = @ \cup {c.at}]]
  /\ UNCHANGED <<parent, tree, calm>>

(* The UPDATE, which the foreign key may refuse.  Then findById: a row     *)
(* that has gone fails the call after the invalidation.                    *)
Move(r) ==
  /\ At(r, "move")
  /\ LET c == call[r].cat
         p == call[r].target
     IN  IF c \in In(parent) /\ p \notin In(parent) THEN Done(r) /\ UNCHANGED parent
         ELSE /\ parent' = [parent EXCEPT ![c] = IF c \in In(parent) THEN p ELSE @]
              /\ Flush(r)
  /\ UNCHANGED <<tree, calm>>

(* update of other fields.  A parentId of '' or null becomes undefined,    *)
(* which TypeORM leaves out: a category cannot be moved to the root.  And  *)
(* reorder.                                                                *)
StartEdit(r) ==
  /\ MayStart(r) /\ In(parent) # {}
  /\ Flush(r)
  /\ UNCHANGED <<parent, tree, calm>>

Children(c) == {d \in In(parent) : parent[d] = c}

(* delete: no subcategories, then the DELETE (the foreign key again). *)
StartDelete(r, c) ==
  /\ MayStart(r) /\ c \in In(parent) /\ Children(c) = {}
  /\ call' = [call EXCEPT ![r] = [Idle EXCEPT !.pc = "delete", !.cat = c]]
  /\ UNCHANGED <<parent, tree, calm>>
Delete(r) ==
  /\ At(r, "delete")
  /\ LET c == call[r].cat IN
       IF Children(c) # {} THEN Done(r) /\ UNCHANGED parent
       ELSE parent' = [parent EXCEPT ![c] = Gone] /\ Flush(r)
  /\ UNCHANGED <<tree, calm>>

Invalidate(r) ==
  /\ At(r, "flush")
  /\ tree' = NotCached
  /\ Done(r)
  /\ UNCHANGED <<parent, calm>>

(* findTree and findAll on a miss. *)
StartRead(r) ==
  /\ Readers /\ MayStart(r) /\ tree = NotCached
  /\ call' = [call EXCEPT ![r] = [Idle EXCEPT !.pc = "store", !.seen = parent]]
  /\ UNCHANGED <<parent, tree, calm>>
Store(r) ==
  /\ At(r, "store")
  /\ tree' = call[r].seen
  /\ Done(r)
  /\ UNCHANGED <<parent, calm>>
Expire ==
  /\ tree # NotCached
  /\ tree' = NotCached
  /\ UNCHANGED <<parent, call, calm>>

Step(r) == \/ Insert(r) \/ Walk(r) \/ Move(r) \/ Delete(r) \/ Invalidate(r) \/ Store(r)

Next ==
  \/ \E r \in Calls :
       \/ \E c \in Cats, p \in Cats \cup {Root} : StartCreate(r, c, p)
       \/ \E c, p \in Cats : StartMove(r, c, p)
       \/ \E c \in Cats : StartDelete(r, c)
       \/ StartEdit(r) \/ StartRead(r) \/ Step(r)
  \/ Expire

(* Node runs every request on. *)
Spec == Init /\ [][Next]_vars /\ \A r \in Calls : WF_vars(Step(r))
-----------------------------------------------------------------------------
(* buildTree: what hangs on a root, directly or by its parents: a category *)
(* that is in every set that has the roots and the children of its own.  A *)
(* child whose parent is missing from the table would be a root, too.      *)
Above(table, c) == IF table[c] \in In(table) THEN table[c] ELSE Root
Attached(table, cs) == \A c \in In(table) : Above(table, c) \in cs \cup {Root} => c \in cs
BuiltTree(table) ==
  {c \in In(table) : \A cs \in SUBSET In(table) : Attached(table, cs) => c \in cs}

(* With one request at a time every category is in the tree: moves never   *)
(* close a cycle, which buildTree would leave out with all that hangs on   *)
(* it, and between requests the cached tree is that of the table.  (Two    *)
(* moves at once can close a cycle.)                                       *)
EveryCategoryIsInTheTree ==
  calm => /\ BuiltTree(parent) = In(parent)
          /\ (\A r \in Calls : At(r, "idle")) => tree \in {NotCached, parent}

(* Every request ends, also when the walk meets a cycle that two earlier   *)
(* moves have closed: it stops at a category it has visited.               *)
RequestsEnd == \A r \in Calls : ~ At(r, "idle") ~> At(r, "idle")
=============================================================================
