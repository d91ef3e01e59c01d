----------------------------- MODULE JobsProofs -----------------------------
(***************************************************************************)
(* Proofs about the work of the queues: imports of any number of groups,   *)
(* the counters of a day for any number of events, and the mails, with any *)
(* number of crashes.                                                      *)
(*                                                                         *)
(* A job that has not ended has stalled once at most, which bounds how     *)
(* often it runs; what the processor has counted is a number of the groups *)
(* it has passed, and every counter of a day is a step ahead of the        *)
(* narrower one while an event is in work.                                 *)
(***************************************************************************)
EXTENDS Jobs, FiniteSetTheorems, TLAPS

(* What is assumed of the files. *)
ImportConstants ==
  /\ N \in Nat
  /\ Files \subseteq [J!Groups -> [sku : BOOLEAN, name : BOOLEAN, category : BOOLEAN]]

(* What the processor has counted of the groups before the next one.       *)
Treated == {g \in J!Groups : fate[g] \in {"created", "updated"}}
Blamed  == {g \in J!Groups : fate[g] = "reported"}

(* While a run is between these steps, the fates are its own. *)
AtWork == {"read", "group", "progress", "catch"}

FileIsTyped ==
  /\ file \in Files
  /\ old \in [Old -> [sku : J!Groups \cup {0}, like : SUBSET J!Groups]]
  /\ \A p, q \in Old : old[p].sku # 0 /\ old[q].sku = old[p].sku => q = p
  /\ choice \in [skip : BOOLEAN, given : BOOLEAN, resolved : SUBSET Old]

JobIsTyped ==
  /\ job \in [st : J!JobStates, tries : 0 .. 1, stalls : 0 .. 2]
  /\ job.st \in {"unborn", "waiting", "active"} => job.stalls <= 1 /\ job.tries = 0

RowIsTyped ==
  /\ row \in [status : J!Statuses, ok : Nat, bad : Nat] /\ row.ok + row.bad <= N
  /\ row.status = "completed" => run.pc \in {"off", "mark", "settle"}

RunIsTyped ==
  /\ run \in [pc : J!Steps, at : 1 .. N + 1, ok : Nat, bad : Nat, known : SUBSET Old]
  /\ (run.pc = "off") = (job.st # "active")
  /\ run.ok + run.bad < run.at
  /\ run.pc = "mark" => run.at = 1 /\ run.ok = 0 /\ run.bad = 0

(* The fates of the groups are those of the run the row tells of. *)
FatesAreOfTheRun ==
  /\ fate \in [J!Groups -> J!Fates]
  /\ \A g \in J!Groups : fate[g] = "skipped" => file[g].sku /\ choice.skip
  /\ run.pc \in AtWork => /\ \A g \in J!Groups : fate[g] = "none" <=> run.at <= g
                          /\ run.ok = Cardinality(Treated) /\ run.bad = Cardinality(Blamed)
  /\ row.status = "completed" => /\ \A g \in J!Groups : fate[g] # "none"
                                 /\ row.ok = Cardinality(Treated) /\ row.bad = Cardinality(Blamed)

(* A SKU is that of one product, and a group without one is created once   *)
(* in each run of the job.                                                 *)
Runs == job.stalls + IF job.st = "unborn" THEN 0 ELSE 1
ShopIsTyped ==
  /\ there \subseteq Old /\ made \in [J!Groups -> Nat]
  /\ \A g \in J!Groups :
       IF file[g].sku THEN made[g] <= 1 /\ (made[g] = 1 => J!Bearers(g) = {})
       ELSE made[g] + (IF run.pc \in AtWork \cup {"mark"} /\ run.at <= g THEN 1
                       ELSE IF job.st = "waiting" THEN 1 ELSE 0) <= Runs

ImportInv == FileIsTyped /\ JobIsTyped /\ RowIsTyped /\ RunIsTyped /\ FatesAreOfTheRun /\ ShopIsTyped

-----------------------------------------------------------------------------
LEMMA SameCardinality == \A S : J!Cardinality(S) = Cardinality(S)
BY DEF J!Cardinality, Cardinality

LEMMA CountedGroups == ASSUME N \in Nat PROVE IsFiniteSet(Treated) /\ IsFiniteSet(Blamed)
<1>1. IsFiniteSet(J!Groups)
  BY FS_Interval DEF J!Groups
<1> QED
  BY <1>1, FS_Subset DEF Treated, Blamed

LEMMA ImportStarts ==
  ASSUME ImportConstants, J!Init
  PROVE  ImportInv
<1>1. FileIsTyped
  BY DEF J!Init, FileIsTyped
<1>2. JobIsTyped
  BY DEF J!Init, JobIsTyped, J!Unborn, J!JobStates
<1>3. RowIsTyped
  BY DEF J!Init, RowIsTyped, J!Statuses, ImportConstants
<1>4. RunIsTyped
  BY DEF J!Init, RunIsTyped, J!Off, J!Unborn, J!Steps, ImportConstants
<1>5. FatesAreOfTheRun
  BY DEF J!Init, FatesAreOfTheRun, J!Fates, J!Off, AtWork
<1>6. ShopIsTyped
  BY DEF J!Init, ShopIsTyped, Runs, J!Unborn, J!Off, AtWork
<1> QED
  BY <1>1, <1>2, <1>3, <1>4, <1>5, <1>6 DEF ImportInv

(* The step of one group. *)
LEMMA AGroupIsTreated ==
  ASSUME ImportConstants, ImportInv, J!Treat
  PROVE  ImportInv'
<1> DEFINE g == run.at
<1> USE DEF ImportInv
<1>0. N \in Nat
  BY DEF ImportConstants
<1>1. /\ g \in J!Groups /\ run.pc = "group" /\ job.st = "active"
      /\ UNCHANGED <<file, old, choice, there, job, row>>
      /\ fate \in [J!Groups -> J!Fates] /\ fate[g] = "none" /\ row.status # "completed"
  BY <1>0 DEF J!Treat, J!still, J!Groups, RunIsTyped, FatesAreOfTheRun, RowIsTyped, AtWork
<1>a. PICK f \in J!Outcome(g), due \in BOOLEAN :
        /\ fate' = [fate EXCEPT ![g] = f]
        /\ made' = IF f = "created" THEN [made EXCEPT ![g] = @ + 1] ELSE made
        /\ run' = [run EXCEPT !.pc = IF due THEN "progress" ELSE "group", !.at = @ + 1,
                              !.ok = IF f \in {"created", "updated"} THEN @ + 1 ELSE @,
                              !.bad = IF f = "reported" THEN @ + 1 ELSE @]
  BY Zenon DEF J!Treat
<1> DEFINE pc == IF due THEN "progress" ELSE "group"
<1>b. pc \in {"progress", "group"}
  OBVIOUS
<1>2. /\ fate' = [fate EXCEPT ![g] = f]
      /\ made' = IF f = "created" THEN [made EXCEPT ![g] = made[g] + 1] ELSE made
      /\ run' = [run EXCEPT !.pc = pc, !.at = run.at + 1,
                            !.ok = IF f \in {"created", "updated"} THEN run.ok + 1 ELSE run.ok,
                            !.bad = IF f = "reported" THEN run.bad + 1 ELSE run.bad]
  BY <1>a
<1> HIDE DEF pc
<1>3. /\ f \in {"reported", "skipped", "updated", "created"}
      /\ f = "skipped" => file[g].sku /\ choice.skip
      /\ f = "created" => ~ (file[g].sku /\ (made[g] > 0 \/ J!Bearers(g) # {}))
  <2>1. \/ f \in {"reported", "updated"}
        \/ f = "skipped" /\ J!SkuTaken(g) /\ choice.skip
        \/ f = "created" /\ ~ J!SkuTaken(g)
    BY DEF J!Outcome
  <2> QED
    BY <2>1 DEF J!SkuTaken
<1>4. /\ run' \in [pc : J!Steps, at : 1 .. N + 1, ok : Nat, bad : Nat, known : SUBSET Old]
      /\ run'.pc \in {"progress", "group"} /\ run'.at = g + 1
      /\ run'.ok = IF f \in {"created", "updated"} THEN run.ok + 1 ELSE run.ok
      /\ run'.bad = IF f = "reported" THEN run.bad + 1 ELSE run.bad
  <2> DEFINE ok  == IF f \in {"created", "updated"} THEN run.ok + 1 ELSE run.ok
             bad == IF f = "reported" THEN run.bad + 1 ELSE run.bad
  <2>1. run \in [pc : J!Steps, at : 1 .. N + 1, ok : Nat, bad : Nat, known : SUBSET Old]
    BY DEF RunIsTyped
  <2>2. ok \in Nat /\ bad \in Nat /\ g + 1 \in 1 .. N + 1 /\ pc \in J!Steps
    BY <1>0, <1>1, <1>b, <2>1 DEF J!Groups, J!Steps
  <2>3. run' = [run EXCEPT !.pc = pc, !.at = g + 1, !.ok = ok, !.bad = bad]
    BY <1>2
  <2> HIDE DEF ok, bad
  <2>4. run'.at = g + 1 /\ run'.ok = ok /\ run'.bad = bad /\ run'.pc = pc
        /\ run' \in [pc : J!Steps, at : 1 .. N + 1, ok : Nat, bad : Nat, known : SUBSET Old]
    BY <2>1, <2>2, <2>3
  <2> QED
    BY <1>b, <1>1, <2>4 DEF ok, bad
<1>5. RunIsTyped'
  BY <1>0, <1>1, <1>3, <1>4 DEF RunIsTyped
<1>6. FatesAreOfTheRun'
  <2>1. fate' \in [J!Groups -> J!Fates] /\ \A i \in J!Groups : fate'[i] = IF i = g THEN f ELSE fate[i]
    BY <1>1, <1>2, <1>3 DEF J!Fates
  <2>2. \A i \in J!Groups : fate'[i] = "skipped" => file[i].sku /\ choice.skip
    BY <1>3, <2>1 DEF FatesAreOfTheRun
  <2>3. \A i \in J!Groups : fate'[i] = "none" <=> g + 1 <= i
    BY <1>0, <1>1, <1>3, <2>1 DEF FatesAreOfTheRun, J!Groups, AtWork
  <2>5. Cardinality(Treated') = IF f \in {"created", "updated"} THEN Cardinality(Treated) + 1 ELSE Cardinality(Treated)
    <3>1. g \notin Treated /\ Treated' = IF f \in {"created", "updated"} THEN Treated \cup {g} ELSE Treated
      BY <1>1, <2>1 DEF Treated
    <3> QED
      BY <1>0, <3>1, CountedGroups, FS_AddElement
  <2>6. Cardinality(Blamed') = IF f = "reported" THEN Cardinality(Blamed) + 1 ELSE Cardinality(Blamed)
    <3>1. g \notin Blamed /\ Blamed' = IF f = "reported" THEN Blamed \cup {g} ELSE Blamed
      BY <1>1, <2>1 DEF Blamed
    <3> QED
      BY <1>0, <3>1, CountedGroups, FS_AddElement
  <2>7. run.ok = Cardinality(Treated) /\ run.bad = Cardinality(Blamed)
    BY <1>1 DEF FatesAreOfTheRun, AtWork
  <2> QED
    BY <1>1, <1>4, <2>1, <2>2, <2>3, <2>5, <2>6, <2>7 DEF FatesAreOfTheRun
<1>7. ShopIsTyped'
  <2>1. \A i \in J!Groups : made[i] \in Nat /\ made'[i] = IF i = g /\ f = "created" THEN made[i] + 1 ELSE made[i]
    BY <1>1, <1>2 DEF ShopIsTyped
  <2>2. made' \in [J!Groups -> Nat]
    BY <1>1, <1>2, <2>1 DEF ShopIsTyped
  <2>3. Runs' = Runs /\ Runs \in Nat /\ g \in Nat
    BY <1>0, <1>1 DEF Runs, JobIsTyped, J!Groups
  <2>4. \A i \in J!Groups : J!Bearers(i)' = J!Bearers(i)
    BY <1>1 DEF J!Bearers
  <2>5. ASSUME NEW i \in J!Groups
        PROVE  IF file[i].sku THEN made'[i] <= 1 /\ (made'[i] = 1 => J!Bearers(i)' = {})
               ELSE made'[i] + (IF g + 1 <= i THEN 1 ELSE 0) <= Runs
    <3>1. CASE file[i].sku
      BY <1>3, <2>1, <2>4, <3>1 DEF ShopIsTyped
    <3>2. CASE ~ file[i].sku
      <4>1. made[i] + (IF g <= i THEN 1 ELSE 0) <= Runs
        BY <1>1, <3>2 DEF ShopIsTyped, AtWork
      <4> QED
        BY <1>0, <2>1, <2>3, <3>2, <4>1 DEF J!Groups
    <3> QED
      BY <3>1, <3>2
  <2> QED
    BY <1>1, <1>4, <2>2, <2>3, <2>5 DEF ShopIsTyped, AtWork
<1>8. FileIsTyped' /\ JobIsTyped' /\ RowIsTyped'
  BY <1>1 DEF FileIsTyped, JobIsTyped, RowIsTyped
<1> QED
  BY <1>5, <1>6, <1>7, <1>8

(* The shop stays as it is, and what a run may still create grows no more. *)
LEMMA TheShopIsLeft ==
  ASSUME ImportConstants, ImportInv, UNCHANGED <<file, old, there, made>>,
         Runs' \in Nat, Runs' >= Runs,
         job'.st = "waiting" => Runs' >= Runs + 1 \/ job.st = "waiting",
         run'.pc \in AtWork \cup {"mark"} =>
           \/ run.pc \in AtWork \cup {"mark"} /\ run'.at = run.at
           \/ job.st = "waiting" /\ run.pc = "off"
  PROVE  ShopIsTyped'
<1> USE DEF ImportInv
<1>1. Runs \in Nat
  BY DEF Runs, JobIsTyped
<1>2. \A g \in J!Groups : J!Bearers(g)' = J!Bearers(g)
  BY DEF J!Bearers
<1>3. ASSUME NEW g \in J!Groups, ~ file[g].sku
      PROVE  made[g] + (IF run'.pc \in AtWork \cup {"mark"} /\ run'.at <= g THEN 1
                        ELSE IF job'.st = "waiting" THEN 1 ELSE 0) <= Runs'
  <2>1. made[g] \in Nat
    BY DEF ShopIsTyped
  <2>2. made[g] + (IF run.pc \in AtWork \cup {"mark"} /\ run.at <= g THEN 1
                   ELSE IF job.st = "waiting" THEN 1 ELSE 0) <= Runs
    BY <1>3 DEF ShopIsTyped
  <2>3. made[g] <= Runs
    BY <1>1, <2>1, <2>2
  <2>4. job.st = "waiting" => made[g] + 1 <= Runs
    BY <1>1, <2>1, <2>2 DEF RunIsTyped, AtWork
  <2>5. run.pc \in AtWork \cup {"mark"} /\ run.at <= g => made[g] + 1 <= Runs
    BY <2>2
  <2>6. CASE run'.pc \in AtWork \cup {"mark"} /\ run'.at <= g
    BY <1>1, <2>1, <2>4, <2>5, <2>6
  <2>7. CASE ~ (run'.pc \in AtWork \cup {"mark"} /\ run'.at <= g)
    BY <1>1, <2>1, <2>3, <2>4, <2>7
  <2> QED
    BY <2>6, <2>7
<1> QED
  BY <1>2, <1>3 DEF ShopIsTyped

(* A job that is taken has nothing behind it, and the update that marks    *)
(* the row starts the fates again.                                         *)
LEMMA TheJobIsTaken ==
  ASSUME ImportConstants, ImportInv, J!Take
  PROVE  ImportInv'
<1> USE DEF ImportInv
<1>1. /\ job.st = "waiting" /\ run.pc = "off"
      /\ UNCHANGED <<file, old, choice, there, made, row, fate>>
      /\ run' = [pc |-> "mark", at |-> 1, ok |-> 0, bad |-> 0, known |-> {}]
  BY DEF J!Take, J!still, J!products, J!Off, RunIsTyped
<1>2. /\ job' \in [st : J!JobStates, tries : 0 .. 1, stalls : 0 .. 2]
      /\ job'.st = "active" /\ job'.stalls = job.stalls /\ job'.tries = job.tries
  BY DEF J!Take, J!Taken, JobIsTyped, J!JobStates
<1>3. Runs' = Runs /\ Runs \in Nat
  BY <1>1, <1>2 DEF Runs, JobIsTyped
<1>4. FileIsTyped' /\ JobIsTyped' /\ RowIsTyped'
  BY <1>1, <1>2 DEF FileIsTyped, JobIsTyped, RowIsTyped
<1>5. RunIsTyped'
  BY <1>1, <1>2 DEF RunIsTyped, J!Steps, ImportConstants
<1>6. FatesAreOfTheRun'
  BY <1>1 DEF FatesAreOfTheRun, Treated, Blamed, AtWork
<1>7. ShopIsTyped'
  BY <1>1, <1>2, <1>3, TheShopIsLeft
<1> QED
  BY <1>4, <1>5, <1>6, <1>7

(* The steps that only move the run, within the try and to its catch.      *)
LEMMA TheRunGoesOn ==
  ASSUME ImportConstants, ImportInv, run.pc \in AtWork,
         UNCHANGED <<file, old, choice, there, made, job, fate>>,
         NEW pc \in AtWork \cup {"settle"}, run'.pc = pc, run'.at = run.at, run'.ok = run.ok, run'.bad = run.bad,
         run' \in [pc : J!Steps, at : 1 .. N + 1, ok : Nat, bad : Nat, known : SUBSET Old],
         row' \in [status : J!Statuses, ok : Nat, bad : Nat], row'.ok + row'.bad <= N,
         row'.status = "completed" =>
           /\ pc = "settle" /\ row'.ok = run.ok /\ row'.bad = run.bad
           /\ \A g \in J!Groups : fate[g] # "none"
  PROVE  ImportInv'
<1> USE DEF ImportInv
<1>1. FileIsTyped' /\ JobIsTyped' /\ RowIsTyped'
  BY DEF FileIsTyped, JobIsTyped, RowIsTyped
<1>2. RunIsTyped'
  BY DEF RunIsTyped, AtWork
<1>3. FatesAreOfTheRun'
  BY DEF FatesAreOfTheRun, Treated, Blamed, AtWork
<1>4. Runs' = Runs /\ Runs \in Nat
  BY DEF Runs, JobIsTyped
<1>5. ShopIsTyped'
  <2>1. job.st = "active" /\ job'.st = "active"
    BY DEF RunIsTyped, AtWork
  <2> QED
    BY <1>4, <2>1, TheShopIsLeft DEF AtWork
<1> QED
  BY <1>1, <1>2, <1>3, <1>5

(* An error in the try. *)
LEMMA AnErrorIsCaught ==
  ASSUME ImportConstants, ImportInv, run.pc \in AtWork, J!Caught,
         UNCHANGED <<file, old, choice, there, made>>
  PROVE  ImportInv'
<1> USE DEF ImportInv
<1>1. run' = [run EXCEPT !.pc = "catch"] /\ UNCHANGED <<job, row, fate>>
  BY DEF J!Caught
<1>2. run' \in [pc : J!Steps, at : 1 .. N + 1, ok : Nat, bad : Nat, known : SUBSET Old]
      /\ run'.pc = "catch" /\ run'.at = run.at /\ run'.ok = run.ok /\ run'.bad = run.bad
  BY <1>1 DEF RunIsTyped, J!Steps
<1>3. row.status # "completed"
  BY DEF RowIsTyped, AtWork
<1>4. "catch" \in AtWork \cup {"settle"}
  BY DEF AtWork
<1> QED
  BY <1>1, <1>2, <1>3, <1>4, TheRunGoesOn DEF RowIsTyped

(* The row says how it ended. *)
LEMMA ARunFails ==
  ASSUME ImportConstants, ImportInv, run.pc \in AtWork, J!End("failed", row),
         UNCHANGED <<file, old, choice, there, made>>
  PROVE  ImportInv'
<1> USE DEF ImportInv
<1>1. /\ run' = [run EXCEPT !.pc = "settle"] /\ row' = [row EXCEPT !.status = "failed"]
      /\ UNCHANGED <<job, fate>>
  BY DEF J!End
<1>2. run' \in [pc : J!Steps, at : 1 .. N + 1, ok : Nat, bad : Nat, known : SUBSET Old]
      /\ run'.pc = "settle" /\ run'.at = run.at /\ run'.ok = run.ok /\ run'.bad = run.bad
  BY <1>1 DEF RunIsTyped, J!Steps
<1>3. /\ row' \in [status : J!Statuses, ok : Nat, bad : Nat] /\ row'.ok + row'.bad <= N
      /\ row'.status = "failed"
  BY <1>1 DEF RowIsTyped, J!Statuses
<1> QED
  BY <1>1, <1>2, <1>3, TheRunGoesOn

(* An error that nothing catches fails the job, which had one attempt. *)
LEMMA ARefusalEndsIt ==
  ASSUME ImportConstants, ImportInv, run.pc \in {"mark", "catch"}, J!Refused,
         UNCHANGED <<file, old, choice, there, made>>
  PROVE  ImportInv'
<1> USE DEF ImportInv
<1>1. /\ run' = [pc |-> "off", at |-> 1, ok |-> 0, bad |-> 0, known |-> {}]
      /\ UNCHANGED <<row, fate>> /\ job.st = "active"
  BY DEF J!Refused, J!Off, RunIsTyped
<1>2. /\ job' \in [st : J!JobStates, tries : 0 .. 1, stalls : 0 .. 2]
      /\ job'.st = "failed" /\ job'.stalls = job.stalls
  <2>1. job.tries = 0 /\ job \in [st : J!JobStates, tries : 0 .. 1, stalls : 0 .. 2]
    BY <1>1 DEF JobIsTyped
  <2>2. job' = [job EXCEPT !.tries = 1, !.st = "failed"]
    BY <2>1 DEF J!Refused, J!Threw
  <2>3. "failed" \in J!JobStates /\ 1 \in 0 .. 1
    BY DEF J!JobStates
  <2> QED
    BY <2>1, <2>2, <2>3
<1>3. Runs' = Runs /\ Runs \in Nat
  BY <1>1, <1>2 DEF Runs, JobIsTyped
<1>4. FileIsTyped' /\ JobIsTyped' /\ RowIsTyped'
  BY <1>1, <1>2 DEF FileIsTyped, JobIsTyped, RowIsTyped
<1>5. RunIsTyped'
  BY <1>1, <1>2 DEF RunIsTyped, J!Steps, ImportConstants
<1>6. FatesAreOfTheRun'
  BY <1>1 DEF FatesAreOfTheRun, Treated, Blamed, AtWork
<1>7. ShopIsTyped'
  BY <1>1, <1>2, <1>3, TheShopIsLeft DEF AtWork
<1> QED
  BY <1>4, <1>5, <1>6, <1>7

(* The row says that the import is at work, which forgets the run before.  *)
LEMMA TheRowIsMarked ==
  ASSUME ImportConstants, ImportInv, J!Mark
  PROVE  ImportInv'
<1> USE DEF ImportInv
<1>1. UNCHANGED <<file, old, choice, there, made>> /\ run.pc = "mark"
  BY DEF J!Mark, J!still, J!products
<1>2. CASE J!Refused
  BY <1>1, <1>2, ARefusalEndsIt
<1>3. CASE /\ row' = [row EXCEPT !.status = "processing"] /\ run' = [run EXCEPT !.pc = "read"]
           /\ fate' = [g \in J!Groups |-> "none"] /\ UNCHANGED job
  <2>1. /\ run' \in [pc : J!Steps, at : 1 .. N + 1, ok : Nat, bad : Nat, known : SUBSET Old]
        /\ run'.pc = "read" /\ run'.at = 1 /\ run'.ok = 0 /\ run'.bad = 0 /\ run.at = 1
    BY <1>1, <1>3 DEF RunIsTyped, J!Steps
  <2>2. /\ row' \in [status : J!Statuses, ok : Nat, bad : Nat] /\ row'.ok + row'.bad <= N
        /\ row'.status = "processing"
    BY <1>3 DEF RowIsTyped, J!Statuses
  <2>3. FileIsTyped' /\ JobIsTyped' /\ RowIsTyped' /\ RunIsTyped'
    BY <1>1, <1>3, <2>1, <2>2 DEF FileIsTyped, JobIsTyped, RowIsTyped, RunIsTyped
  <2>4. FatesAreOfTheRun'
    <3>1. Treated' = {} /\ Blamed' = {}
      BY <1>3 DEF Treated, Blamed
    <3> QED
      BY <1>3, <2>1, <2>2, <3>1, FS_EmptySet DEF FatesAreOfTheRun, J!Fates, J!Groups
  <2>5. ShopIsTyped'
    <3>1. Runs' = Runs /\ Runs \in Nat /\ job'.st = "active"
      BY <1>1, <1>3 DEF Runs, JobIsTyped, RunIsTyped
    <3> QED
      BY <1>1, <2>1, <3>1, TheShopIsLeft DEF AtWork
  <2> QED
    BY <2>3, <2>4, <2>5
<1> QED
  BY <1>2, <1>3 DEF J!Mark

(* The file is read, progress is written, the run ends.                    *)
LEMMA TheTryStays ==
  ASSUME ImportConstants, ImportInv, J!Read \/ J!Progress \/ J!Finish \/ J!Catch
  PROVE  ImportInv'
<1> USE DEF ImportInv
<1>0. N \in Nat
  BY DEF ImportConstants
<1>1. UNCHANGED <<file, old, choice, there, made>> /\ run.pc \in AtWork /\ row.status # "completed"
  <2>1. UNCHANGED <<J!still, J!products>> /\ run.pc \in {"read", "progress", "group", "catch"}
    BY Zenon DEF J!Read, J!Progress, J!Finish, J!Catch
  <2>2. UNCHANGED <<file, old, choice, there, made>> /\ run.pc \in AtWork
    BY <2>1 DEF J!still, J!products, AtWork
  <2>3. row.status # "completed"
    BY <2>1 DEF RowIsTyped
  <2> QED
    BY <2>2, <2>3
<1>c. CASE J!Caught
  BY <1>1, <1>c, AnErrorIsCaught
<1>f. CASE J!End("failed", row)
  BY <1>1, <1>f, ARunFails
<1>2. CASE J!Read
  <2>1. ASSUME NEW k \in SUBSET (choice.resolved \cap there),
               run' = [run EXCEPT !.pc = "group", !.known = k], UNCHANGED <<job, row, fate>>
        PROVE  ImportInv'
    <3>1. k \in SUBSET Old
      BY DEF ShopIsTyped
    <3>2. run' \in [pc : J!Steps, at : 1 .. N + 1, ok : Nat, bad : Nat, known : SUBSET Old]
          /\ run'.pc = "group" /\ run'.at = run.at /\ run'.ok = run.ok /\ run'.bad = run.bad
      BY <2>1, <3>1 DEF RunIsTyped, J!Steps
    <3>3. "group" \in AtWork \cup {"settle"}
      BY DEF AtWork
    <3> QED
      BY <1>1, <2>1, <3>2, <3>3, TheRunGoesOn DEF RowIsTyped
  <2>2. \/ \E k \in SUBSET (choice.resolved \cap there) :
              run' = [run EXCEPT !.pc = "group", !.known = k] /\ UNCHANGED <<job, row, fate>>
        \/ J!End("failed", row)
        \/ J!Caught
    BY <1>2, Zenon DEF J!Read
  <2> QED
    BY <2>1, <2>2, <1>c, <1>f, Zenon
<1>3. /\ J!Counted \in [status : J!Statuses, ok : Nat, bad : Nat] /\ J!Counted.status = row.status
      /\ J!Counted.ok = run.ok /\ J!Counted.bad = run.bad /\ run.ok + run.bad <= N
  <2>1. run.ok \in Nat /\ run.bad \in Nat /\ run.ok + run.bad <= N
    BY <1>0 DEF RunIsTyped
  <2> QED
    BY <2>1 DEF J!Counted, RowIsTyped
<1>4. CASE J!Progress
  <2>1. ASSUME row' = J!Counted, run' = [run EXCEPT !.pc = "group"], UNCHANGED <<job, fate>>
        PROVE  ImportInv'
    <3>1. run' \in [pc : J!Steps, at : 1 .. N + 1, ok : Nat, bad : Nat, known : SUBSET Old]
          /\ run'.pc = "group" /\ run'.at = run.at /\ run'.ok = run.ok /\ run'.bad = run.bad
      BY <2>1 DEF RunIsTyped, J!Steps
    <3>2. "group" \in AtWork \cup {"settle"}
      BY DEF AtWork
    <3> QED
      BY <1>1, <1>3, <2>1, <3>1, <3>2, TheRunGoesOn
  <2> QED
    BY <1>4, <2>1, <1>c DEF J!Progress
<1>5. CASE J!Finish
  <2>1. ASSUME J!End("completed", J!Counted)
        PROVE  ImportInv'
    <3>1. /\ row' = [J!Counted EXCEPT !.status = "completed"] /\ run' = [run EXCEPT !.pc = "settle"]
          /\ UNCHANGED <<job, fate>>
      BY <2>1 DEF J!End
    <3>2. run' \in [pc : J!Steps, at : 1 .. N + 1, ok : Nat, bad : Nat, known : SUBSET Old]
          /\ run'.pc = "settle" /\ run'.at = run.at /\ run'.ok = run.ok /\ run'.bad = run.bad
      BY <3>1 DEF RunIsTyped, J!Steps
    <3>3. /\ row' \in [status : J!Statuses, ok : Nat, bad : Nat]
          /\ row'.ok = run.ok /\ row'.bad = run.bad
      BY <1>3, <3>1 DEF J!Statuses
    <3>4. \A g \in J!Groups : fate[g] # "none"
      BY <1>0, <1>5 DEF J!Finish, FatesAreOfTheRun, RunIsTyped, J!Groups, AtWork
    <3> QED
      BY <1>1, <1>3, <3>1, <3>2, <3>3, <3>4, TheRunGoesOn
  <2> QED
    BY <1>5, <2>1, <1>c DEF J!Finish
<1>6. CASE J!Catch
  <2>1. run.pc = "catch" /\ (J!End("failed", row) \/ J!Refused)
    BY <1>6 DEF J!Catch
  <2>2. CASE J!Refused
    BY <1>1, <2>1, <2>2, ARefusalEndsIt
  <2> QED
    BY <2>1, <2>2, <1>f
<1> QED
  BY <1>2, <1>4, <1>5, <1>6

(* The queue learns that a run has ended, or that its process has died:    *)
(* then the job waits again, or has failed for good.                       *)
LEMMA TheRunIsOver ==
  ASSUME ImportConstants, ImportInv, J!Settle \/ J!Die
  PROVE  ImportInv'
<1> USE DEF ImportInv
<1>1. /\ UNCHANGED <<file, old, choice, there, made, fate, row>> /\ job.st = "active" /\ run.pc # "off"
      /\ run' = [pc |-> "off", at |-> 1, ok |-> 0, bad |-> 0, known |-> {}]
  BY DEF J!Settle, J!Die, J!still, J!products, J!Off, RunIsTyped
<1>2. /\ job' \in [st : J!JobStates, tries : 0 .. 1, stalls : 0 .. 2] /\ job'.tries = job.tries
      /\ \/ job'.st = "completed" /\ job'.stalls = job.stalls
         \/ job'.stalls = job.stalls + 1 /\ job'.st = IF job.stalls = 0 THEN "waiting" ELSE "failed"
  <2>1. CASE J!Settle
    BY <2>1 DEF J!Settle, J!Completed, JobIsTyped, J!JobStates
  <2>2. CASE J!Die
    <3> DEFINE s == IF job.stalls = 0 THEN "waiting" ELSE "failed"
    <3>1. job.stalls + 1 \in 0 .. 2 /\ s \in J!JobStates
      BY <1>1 DEF JobIsTyped, J!JobStates
    <3>2. job' = [job EXCEPT !.stalls = job.stalls + 1, !.st = s]
      BY <2>2 DEF J!Die, J!Stalled
    <3> HIDE DEF s
    <3>3. /\ job' \in [st : J!JobStates, tries : 0 .. 1, stalls : 0 .. 2]
          /\ job'.tries = job.tries /\ job'.stalls = job.stalls + 1 /\ job'.st = s
      BY <3>1, <3>2 DEF JobIsTyped
    <3> QED
      BY <3>3 DEF s
  <2> QED
    BY <2>1, <2>2
<1>3. FileIsTyped' /\ JobIsTyped' /\ RowIsTyped'
  BY <1>1, <1>2 DEF FileIsTyped, JobIsTyped, RowIsTyped
<1>4. RunIsTyped'
  BY <1>1, <1>2 DEF RunIsTyped, J!Steps, ImportConstants
<1>5. FatesAreOfTheRun'
  BY <1>1 DEF FatesAreOfTheRun, Treated, Blamed, AtWork
<1>6. ShopIsTyped'
  <2>1. Runs \in Nat /\ Runs' \in Nat /\ Runs' >= Runs /\ (job'.st = "waiting" => Runs' >= Runs + 1)
    BY <1>1, <1>2 DEF Runs, JobIsTyped
  <2> QED
    BY <1>1, <1>2, <2>1, TheShopIsLeft DEF AtWork
<1> QED
  BY <1>3, <1>4, <1>5, <1>6

(* The steps around a run: the row and the job of the caller, and the      *)
(* edits of the office.                                                    *)
LEMMA TheRestOfTheImport ==
  ASSUME ImportConstants, ImportInv, J!Start \/ J!Enqueue \/ (\E g \in J!Groups : J!OfficeEdits(g))
  PROVE  ImportInv'
<1> USE DEF ImportInv
<1>1. UNCHANGED <<file, old, choice, run, fate>> /\ FileIsTyped'
  BY DEF J!Start, J!Enqueue, J!OfficeEdits, J!still, FileIsTyped
<1>2. CASE J!Start
  <2>1. UNCHANGED <<there, made, job>> /\ row.status = "none" /\ row' = [row EXCEPT !.status = "pending"]
    BY <1>2 DEF J!Start, J!products
  <2>2. /\ row' \in [status : J!Statuses, ok : Nat, bad : Nat] /\ row'.status = "pending"
        /\ row'.ok = row.ok /\ row'.bad = row.bad
    BY <2>1 DEF RowIsTyped, J!Statuses
  <2> QED
    BY <1>1, <2>1, <2>2 DEF JobIsTyped, RowIsTyped, RunIsTyped, FatesAreOfTheRun, ShopIsTyped, Runs, Treated, Blamed, J!Bearers
<1>3. CASE J!Enqueue
  <2>1. UNCHANGED <<there, made, row>> /\ row.status = "pending" /\ job.st = "unborn" /\ run.pc = "off"
    BY <1>3 DEF J!Enqueue, J!products, J!Unborn, RunIsTyped
  <2>2. /\ job' \in [st : J!JobStates, tries : 0 .. 1, stalls : 0 .. 2]
        /\ job'.st = "waiting" /\ job'.stalls = job.stalls /\ job'.tries = job.tries
    BY <1>3, <2>1 DEF J!Enqueue, J!Queued, JobIsTyped, J!JobStates
  <2>3. JobIsTyped' /\ RowIsTyped' /\ RunIsTyped' /\ FatesAreOfTheRun'
    BY <1>1, <2>1, <2>2 DEF JobIsTyped, RowIsTyped, RunIsTyped, FatesAreOfTheRun, Treated, Blamed
  <2>4. Runs' = Runs + 1 /\ Runs \in Nat
    BY <2>1, <2>2 DEF Runs, JobIsTyped
  <2>5. ShopIsTyped'
    BY <1>1, <2>1, <2>2, <2>4, TheShopIsLeft DEF AtWork
  <2> QED
    BY <1>1, <2>3, <2>5
<1>4. ASSUME NEW g \in J!Groups, J!OfficeEdits(g)
      PROVE  ImportInv'
  <2>1. /\ UNCHANGED <<job, row>>
        /\ \/ (\E q \in there : there' = there \ {q}) /\ UNCHANGED made
           \/ made[g] > 0 /\ made' = [made EXCEPT ![g] = made[g] - 1] /\ UNCHANGED there
           \/ /\ file[g].sku /\ made[g] = 0 /\ J!Bearers(g) = {}
              /\ made' = [made EXCEPT ![g] = made[g] + 1] /\ UNCHANGED there
    <3>1. made[g] \in Nat
      BY DEF ShopIsTyped
    <3> QED
      BY <1>4, <3>1 DEF J!OfficeEdits, J!SkuTaken
  <2>2. there' \subseteq there /\ \A i \in J!Groups : J!Bearers(i)' \subseteq J!Bearers(i)
    BY <1>1, <2>1 DEF J!Bearers
  <2>3. made' \in [J!Groups -> Nat] /\ \A i \in J!Groups \ {g} : made'[i] = made[i]
    BY <2>1 DEF ShopIsTyped
  <2>4. \/ made'[g] <= made[g]
        \/ file[g].sku /\ made'[g] = 1 /\ J!Bearers(g) = {}
    BY <2>1 DEF ShopIsTyped
  <2>5. Runs' = Runs /\ Runs \in Nat
    BY <2>1 DEF Runs, JobIsTyped
  <2>6. ASSUME NEW i \in J!Groups, file[i].sku
        PROVE  made'[i] <= 1 /\ (made'[i] = 1 => J!Bearers(i)' = {})
    <3>1. made[i] \in Nat /\ made[i] <= 1 /\ (made[i] = 1 => J!Bearers(i) = {}) /\ made'[i] \in Nat
      BY <2>3, <2>6 DEF ShopIsTyped
    <3>2. CASE i = g
      BY <2>2, <2>4, <3>1, <3>2
    <3>3. CASE i # g
      BY <2>2, <2>3, <3>1, <3>3
    <3> QED
      BY <3>2, <3>3
  <2>7. ASSUME NEW i \in J!Groups, ~ file[i].sku
        PROVE  made'[i] \in Nat /\ made[i] \in Nat /\ made'[i] <= made[i]
    BY <2>3, <2>4, <2>7 DEF ShopIsTyped
  <2>8. ShopIsTyped'
    <3>1. ASSUME NEW i \in J!Groups, ~ file[i].sku
          PROVE  made'[i] + (IF run.pc \in AtWork \cup {"mark"} /\ run.at <= i THEN 1
                             ELSE IF job.st = "waiting" THEN 1 ELSE 0) <= Runs
      <4> DEFINE due == IF run.pc \in AtWork \cup {"mark"} /\ run.at <= i THEN 1
                        ELSE IF job.st = "waiting" THEN 1 ELSE 0
      <4>1. made[i] + due <= Runs /\ due \in Nat
        BY <3>1 DEF ShopIsTyped
      <4> HIDE DEF due
      <4>2. made'[i] + due <= Runs
        BY <2>5, <2>7, <3>1, <4>1
      <4> QED
        BY <4>2 DEF due
    <3> QED
      BY <1>1, <2>1, <2>2, <2>3, <2>5, <2>6, <3>1 DEF ShopIsTyped
  <2> QED
    BY <1>1, <2>1, <2>8 DEF JobIsTyped, RowIsTyped, RunIsTyped, FatesAreOfTheRun, Treated, Blamed
<1> QED
  BY <1>2, <1>3, <1>4

LEMMA ImportStays ==
  ASSUME ImportConstants, ImportInv, J!Next \/ UNCHANGED imports
  PROVE  ImportInv'
<1>1. CASE UNCHANGED imports
  <2>1. UNCHANGED <<file, old, choice, there, made, job, row, run, fate>>
    BY <1>1 DEF imports
  <2> QED
    BY <2>1 DEF ImportInv, FileIsTyped, JobIsTyped, RowIsTyped, RunIsTyped, FatesAreOfTheRun,
                ShopIsTyped, Runs, Treated, Blamed, J!Bearers
<1> QED
  BY <1>1, AGroupIsTreated, TheJobIsTaken, TheRowIsMarked, TheTryStays, TheRunIsOver, TheRestOfTheImport
     DEF J!Next, J!Work

LEMMA ImportMeans ==
  ASSUME ImportConstants, ImportInv
  PROVE  J!TypeOK /\ J!ImportedOnce
<1> USE DEF ImportInv
<1>1. \A g \in J!Groups : made[g] \in 0 .. 4 /\ (file[g].sku => made[g] <= 1)
  BY DEF ShopIsTyped, Runs, JobIsTyped
<1>2. J!TypeOK
  BY <1>1 DEF J!TypeOK, ShopIsTyped, JobIsTyped, RowIsTyped, RunIsTyped, FatesAreOfTheRun, J!Job
<1>3. ASSUME NEW g \in J!Groups, file[g].sku
      PROVE  /\ made[g] <= 1 /\ (made[g] = 1 => J!Bearers(g) = {})
             /\ \A p, q \in J!Bearers(g) : p = q
  <2>1. g # 0
    BY DEF J!Groups, ImportConstants
  <2> QED
    BY <1>3, <2>1 DEF ShopIsTyped, FileIsTyped, J!Bearers
<1>4. J!ImportedOnce
  BY <1>3, SameCardinality DEF J!ImportedOnce, FatesAreOfTheRun, Treated, Blamed
<1> QED
  BY <1>2, <1>4

(* A SKU of the file is that of one product, however often the job runs    *)
(* and whatever the office edits meanwhile, and a completed import tells   *)
(* of every group what became of it: for files of any length, any resolved *)
(* duplicates and any row the database refuses.                            *)
THEOREM AnImportTellsAll ==
  ASSUME ImportConstants
  PROVE  JobsSpec => []ImportedOnce
<1> DEFINE Inv == part = "import" => ImportInv
<1>1. JobsInit => Inv
  BY ImportStarts DEF JobsInit
<1>2. Inv /\ [JobsNext]_all => Inv'
  <2>1. SUFFICES ASSUME Inv, [JobsNext]_all, part' = "import"
                 PROVE  ImportInv'
    OBVIOUS
  <2>2. part = "import" /\ (J!Next \/ UNCHANGED imports)
    BY <2>1 DEF JobsNext, all, Importing, Counting, Mailing, Reviewing, Sorting
  <2> QED
    BY <2>1, <2>2, ImportStays
<1>3. Inv => ImportedOnce
  BY ImportMeans DEF ImportedOnce
<1> QED
  BY <1>1, <1>2, <1>3, PTL DEF JobsSpec
-----------------------------------------------------------------------------
(* The counters of a day in the middle of an event, the day and the        *)
(* session of that event.                                                  *)
Of(pcs, d) == work.pc \in pcs /\ C!LocalDay(work.now) = d
One(p) == IF p THEN 1 ELSE 0
Finished == {e \in Events : event[e].st = "completed"}
VisitsOf(d) == {v \in visits : v[1] = d}
TheVisit == <<C!LocalDay(work.now), SessionOf[work.of]>>
Places == {"rest", "first", "second", "set", "unique", "end"}

EventsAreTyped ==
  /\ event \in [Events -> C!Job]
  /\ \A e \in Events : event[e].st \in {"waiting", "active"} => event[e].tries <= 2 /\ event[e].stalls <= 1
  /\ \A e \in Events : event[e].st = "active" <=> work.pc # "rest" /\ work.of = e
  /\ hour \in 1 .. 3 /\ offset \in BOOLEAN /\ troubles \in 0 .. MaxTroubles
  /\ work \in [pc : Places, now : 1 .. 3, of : Events \cup {0}] /\ (work.pc # "rest" => work.of \in Events)
  /\ seen \in [C!Days -> SUBSET Sessions]

CountersAreOrdered ==
  /\ day \in [C!Days -> [pageViews : Nat, visitors : Nat, uniqueVisitors : Nat]]
  /\ \A d \in C!Days :
       /\ day[d].visitors + One(Of({"second"}, d)) <= day[d].pageViews
       /\ day[d].uniqueVisitors + One(Of({"set", "unique"}, d)) <= day[d].visitors

CountersAreOfTheEvents ==
  LET pages == day[1].pageViews + day[2].pageViews
      mine  == Cardinality(Finished) + One(work.pc \notin {"rest", "first"})
  IN  pages <= mine + troubles /\ (troubles = 0 => pages = mine)

VisitorsAreUnique ==
  troubles = 0 /\ ~ offset =>
    /\ IsFiniteSet(visits) /\ visits \subseteq C!Days \X Sessions
    /\ \A d \in C!Days, s \in Sessions :
         s \in seen[d] <=> <<d, s>> \in visits \/ (work.pc \in {"unique", "end"} /\ <<d, s>> = TheVisit)
    /\ work.pc = "unique" => TheVisit \notin visits
    /\ \A d \in C!Days :
         day[d].uniqueVisitors = Cardinality(VisitsOf(d)) + One(Of({"end"}, d) /\ TheVisit \notin visits)

CountersInv == EventsAreTyped /\ CountersAreOrdered /\ CountersAreOfTheEvents /\ VisitorsAreUnique

CountersRow == [pageViews : Nat, visitors : Nat, uniqueVisitors : Nat]

-----------------------------------------------------------------------------
LEMMA SameCardinalityOfCounters == \A S : C!Cardinality(S) = Cardinality(S)
BY DEF C!Cardinality, Cardinality

(* incrementField adds one to one counter of one day. *)
LEMMA OneCounterGrows ==
  ASSUME NEW x \in C!Days, x = C!LocalDay(work.now), day \in [C!Days -> CountersRow],
         NEW f \in {"pageViews", "visitors", "uniqueVisitors"}, day' = C!Counted(f)
  PROVE  /\ day' \in [C!Days -> CountersRow]
         /\ \A d \in C!Days :
              /\ day'[d].pageViews = day[d].pageViews + One(d = x /\ f = "pageViews")
              /\ day'[d].visitors = day[d].visitors + One(d = x /\ f = "visitors")
              /\ day'[d].uniqueVisitors = day[d].uniqueVisitors + One(d = x /\ f = "uniqueVisitors")
<1> DEFINE c == [day[x] EXCEPT ![f] = day[x][f] + 1]
<1>1. day' = [day EXCEPT ![x] = c]
  BY DEF C!Counted
<1>2. c \in CountersRow
  BY DEF CountersRow
<1>3. /\ c.pageViews = day[x].pageViews + One(f = "pageViews")
      /\ c.visitors = day[x].visitors + One(f = "visitors")
      /\ c.uniqueVisitors = day[x].uniqueVisitors + One(f = "uniqueVisitors")
  BY DEF CountersRow, One
<1> HIDE DEF c
<1>4. day' \in [C!Days -> CountersRow] /\ \A d \in C!Days : day'[d] = IF d = x THEN c ELSE day[d]
  BY <1>1, <1>2
<1>5. ASSUME NEW d \in C!Days, d # x
      PROVE  /\ day'[d] = day[d] /\ day[d].pageViews \in Nat
             /\ day[d].visitors \in Nat /\ day[d].uniqueVisitors \in Nat
  BY <1>4, <1>5 DEF CountersRow
<1> QED
  BY <1>3, <1>4, <1>5 DEF One

LEMMA EventsAreCounted ==
  ASSUME IsFiniteSet(Events)
  PROVE  IsFiniteSet(Finished) /\ Cardinality(Finished) \in Nat
BY FS_Subset, FS_CardinalityType DEF Finished

LEMMA VisitsAreCounted ==
  ASSUME IsFiniteSet(visits), NEW d
  PROVE  IsFiniteSet(VisitsOf(d)) /\ Cardinality(VisitsOf(d)) \in Nat
BY FS_Subset, FS_CardinalityType DEF VisitsOf

LEMMA TheDays ==
  ASSUME NEW h \in 1 .. 3, offset \in BOOLEAN
  PROVE  C!LocalDay(h) \in C!Days /\ C!UTCDay(h) \in C!Days /\ (~ offset => C!LocalDay(h) = C!UTCDay(h))
BY DEF C!LocalDay, C!UTCDay, C!Days

LEMMA CountersStart ==
  ASSUME IsFiniteSet(Events), MaxTroubles \in Nat, C!Init
  PROVE  CountersInv
<1>1. /\ \A e \in Events : event[e].st = "waiting" /\ event[e].tries = 0 /\ event[e].stalls = 0
      /\ event \in [Events -> C!Job]
  BY DEF C!Init, C!Queued, C!Unborn, C!Job, C!JobStates
<1>2. /\ work.pc = "rest" /\ work.now = 1 /\ hour = 1 /\ troubles = 0 /\ visits = {} /\ offset \in BOOLEAN
      /\ seen = [d \in C!Days |-> {}]
  BY DEF C!Init, C!Resting
<1>3. /\ day \in [C!Days -> CountersRow]
      /\ \A d \in C!Days : day[d].pageViews = 0 /\ day[d].visitors = 0 /\ day[d].uniqueVisitors = 0
  BY DEF C!Init, C!Zero, CountersRow
<1>4. EventsAreTyped
  <2>1. work \in [pc : Places, now : 1 .. 3, of : Events \cup {0}]
    BY DEF C!Init, C!Resting, Places
  <2> QED
    BY <1>1, <1>2, <2>1 DEF EventsAreTyped, Places
<1>5. CountersAreOrdered
  BY <1>2, <1>3 DEF CountersAreOrdered, CountersRow, Of, One
<1>6. Finished = {}
  BY <1>1 DEF Finished
<1>7. CountersAreOfTheEvents
  <2>1. Cardinality(Finished) = 0
    BY <1>6, FS_EmptySet
  <2> QED
    BY <1>2, <1>3, <2>1 DEF CountersAreOfTheEvents, One, C!Days
<1>8. VisitorsAreUnique
  <2>1. IsFiniteSet(visits) /\ \A d : VisitsOf(d) = {} /\ Cardinality(VisitsOf(d)) = 0
    BY <1>2, FS_EmptySet DEF VisitsOf
  <2> QED
    BY <1>2, <1>3, <2>1 DEF VisitorsAreUnique, Of, One
<1> QED
  BY <1>4, <1>5, <1>7, <1>8 DEF CountersInv

(* The hour turns, and an event is taken: neither counts anything. *)
LEMMA NothingIsCountedYet ==
  ASSUME IsFiniteSet(Events), MaxTroubles \in Nat, CountersInv, C!Turn \/ (\E e \in Events : C!Take(e))
  PROVE  CountersInv'
<1> USE DEF CountersInv
<1>1. UNCHANGED <<day, seen, troubles, offset, visits>>
  BY DEF C!Turn, C!Take
<1>2. CASE C!Turn
  <2>1. UNCHANGED <<event, work>> /\ hour' \in 1 .. 3
    BY <1>2 DEF C!Turn, EventsAreTyped
  <2>2. EventsAreTyped'
    BY <1>1, <2>1 DEF EventsAreTyped
  <2>3. CountersAreOrdered'
    BY <1>1, <2>1 DEF CountersAreOrdered, Of, C!LocalDay
  <2>4. CountersAreOfTheEvents'
    BY <1>1, <2>1 DEF CountersAreOfTheEvents, Finished
  <2>5. VisitorsAreUnique'
    BY <1>1, <2>1 DEF VisitorsAreUnique, VisitsOf, TheVisit, Of, C!LocalDay
  <2> QED
    BY <2>2, <2>3, <2>4, <2>5
<1>3. ASSUME NEW e \in Events, C!Take(e)
      PROVE  CountersInv'
  <2>1. /\ event[e].st = "waiting" /\ UNCHANGED hour
        /\ event' = [event EXCEPT ![e] = [event[e] EXCEPT !.st = "active"]]
        /\ work'.pc = "first" /\ work'.now = hour /\ work'.of = e
    BY <1>3 DEF C!Take, C!Taken
  <2>2. work.pc = "rest"
    BY <1>3 DEF C!Take, C!Idling, EventsAreTyped
  <2> DEFINE j == [event[e] EXCEPT !.st = "active"]
  <2>3. j \in C!Job /\ j.st = "active" /\ j.tries <= 2 /\ j.stalls <= 1
    BY <2>1 DEF EventsAreTyped, C!Job, C!JobStates
  <2> HIDE DEF j
  <2>4. event' \in [Events -> C!Job] /\ \A i \in Events : event'[i] = IF i = e THEN j ELSE event[i]
    BY <2>1, <2>3 DEF EventsAreTyped, j
  <2>5. EventsAreTyped'
    <3>0. work' \in [pc : Places, now : 1 .. 3, of : Events \cup {0}]
      BY <1>3 DEF C!Take, EventsAreTyped, Places
    <3>1. \A i \in Events : event'[i].st = "active" <=> work'.pc # "rest" /\ work'.of = i
      BY <2>1, <2>2, <2>3, <2>4 DEF EventsAreTyped
    <3>2. \A i \in Events : event'[i].st \in {"waiting", "active"} => event'[i].tries <= 2 /\ event'[i].stalls <= 1
      BY <2>3, <2>4 DEF EventsAreTyped
    <3> QED
      BY <1>1, <2>1, <2>4, <3>0, <3>1, <3>2 DEF EventsAreTyped, Places
  <2>6. CountersAreOrdered'
    BY <1>1, <2>1, <2>2 DEF CountersAreOrdered, Of, One
  <2>7. CountersAreOfTheEvents'
    <3>1. Finished' = Finished
      BY <2>1, <2>3, <2>4 DEF Finished
    <3> QED
      BY <1>1, <2>1, <2>2, <3>1 DEF CountersAreOfTheEvents
  <2>8. VisitorsAreUnique'
    BY <1>1, <2>1, <2>2 DEF VisitorsAreUnique, VisitsOf, TheVisit, Of, One
  <2> QED
    BY <2>5, <2>6, <2>7, <2>8
<1> QED
  BY <1>2, <1>3

(* A page, a visitor, a unique visitor: the wider counter comes first. *)
LEMMA TheFieldsAreCounted ==
  ASSUME IsFiniteSet(Events), MaxTroubles \in Nat, CountersInv, C!Count
  PROVE  CountersInv'
<1> DEFINE x == C!LocalDay(work.now)
<1> USE DEF CountersInv
<1>1. UNCHANGED <<event, hour, seen, troubles, offset, visits>>
  BY DEF C!Count
<1>2. PICK f \in {"pageViews", "visitors", "uniqueVisitors"}, p \in Places :
        /\ day' = C!Counted(f) /\ work' = [work EXCEPT !.pc = p]
        /\ \/ f = "pageViews" /\ work.pc = "first" /\ p = "second"
           \/ f = "visitors" /\ work.pc = "second" /\ p = "set"
           \/ f = "uniqueVisitors" /\ work.pc = "unique" /\ p = "end"
  BY DEF C!Count, C!Step, C!FirstFields, Places
<1>3. work' \in [pc : Places, now : 1 .. 3, of : Events \cup {0}]
      /\ work'.pc = p /\ work'.now = work.now /\ work'.of = work.of
  BY <1>2 DEF EventsAreTyped
<1>4. x \in C!Days /\ x = C!LocalDay(work.now)
  BY TheDays DEF EventsAreTyped
<1>5. /\ day \in [C!Days -> CountersRow] /\ day' \in [C!Days -> CountersRow]
      /\ \A d \in C!Days :
           /\ day'[d].pageViews = day[d].pageViews + One(d = x /\ f = "pageViews")
           /\ day'[d].visitors = day[d].visitors + One(d = x /\ f = "visitors")
           /\ day'[d].uniqueVisitors = day[d].uniqueVisitors + One(d = x /\ f = "uniqueVisitors")
  <2>1. day \in [C!Days -> CountersRow]
    BY DEF CountersAreOrdered, CountersRow
  <2> QED
    BY <1>2, <1>4, <2>1, OneCounterGrows
<1>6. \A d \in C!Days : /\ day[d].pageViews \in Nat /\ day[d].visitors \in Nat /\ day[d].uniqueVisitors \in Nat
  BY <1>5 DEF CountersRow
<1>7. x' = x /\ TheVisit' = TheVisit
  BY <1>1, <1>3 DEF TheVisit, C!LocalDay
<1>8. \A pcs, d : (Of(pcs, d) <=> work.pc \in pcs /\ x = d) /\ (Of(pcs, d)' <=> p \in pcs /\ x = d)
  BY <1>3, <1>7 DEF Of
<1> HIDE DEF x
<1>9. EventsAreTyped'
  BY <1>1, <1>2, <1>3 DEF EventsAreTyped
<1>10. CountersAreOrdered'
  <2>1. ASSUME NEW d \in C!Days
        PROVE  /\ day'[d].visitors + One(p = "second" /\ x = d) <= day'[d].pageViews
               /\ day'[d].uniqueVisitors + One(p \in {"set", "unique"} /\ x = d) <= day'[d].visitors
    <3>1. /\ day[d].visitors + One(work.pc = "second" /\ x = d) <= day[d].pageViews
          /\ day[d].uniqueVisitors + One(work.pc \in {"set", "unique"} /\ x = d) <= day[d].visitors
      BY <1>8 DEF CountersAreOrdered, One
    <3> QED
      BY <1>2, <1>5, <1>6, <3>1 DEF One
  <2>2. ASSUME NEW d \in C!Days
        PROVE  /\ One(Of({"second"}, d))' = One(p = "second" /\ x = d)
               /\ One(Of({"set", "unique"}, d))' = One(p \in {"set", "unique"} /\ x = d)
    BY <1>8 DEF One
  <2> QED
    BY <1>5, <2>1, <2>2 DEF CountersAreOrdered, CountersRow
<1>11. CountersAreOfTheEvents'
  <2>1. Finished' = Finished /\ Cardinality(Finished) \in Nat
    BY <1>1, EventsAreCounted DEF Finished
  <2>2. day'[1].pageViews + day'[2].pageViews = day[1].pageViews + day[2].pageViews + One(f = "pageViews")
    BY <1>4, <1>5, <1>6 DEF C!Days, One
  <2>3. One(p \notin {"rest", "first"}) = One(work.pc \notin {"rest", "first"}) + One(f = "pageViews")
    BY <1>2 DEF One
  <2>4. troubles \in Nat /\ day[1].pageViews \in Nat /\ day[2].pageViews \in Nat
    BY <1>6 DEF EventsAreTyped, C!Days
  <2> QED
    BY <1>1, <1>3, <2>1, <2>2, <2>3, <2>4 DEF CountersAreOfTheEvents, One
<1>12. VisitorsAreUnique'
  <2>1. SUFFICES ASSUME troubles = 0, ~ offset, VisitorsAreUnique
                 PROVE  /\ \A d \in C!Days, s \in Sessions :
                             s \in seen[d] <=> <<d, s>> \in visits \/ (p \in {"unique", "end"} /\ <<d, s>> = TheVisit)
                        /\ p = "unique" => TheVisit \notin visits
                        /\ \A d \in C!Days :
                             day'[d].uniqueVisitors = Cardinality(VisitsOf(d)) + One(p = "end" /\ x = d /\ TheVisit \notin visits)
    <3>1. ASSUME NEW d \in C!Days
          PROVE  One(Of({"end"}, d) /\ TheVisit \notin visits)' = One(p = "end" /\ x = d /\ TheVisit \notin visits)
      BY <1>1, <1>7, <1>8 DEF One
    <3>2. ASSUME NEW d
          PROVE  VisitsOf(d)' = VisitsOf(d)
      BY <1>1 DEF VisitsOf
    <3> QED
      BY <1>1, <1>3, <1>7, <3>1, <3>2 DEF VisitorsAreUnique
  <2>2. \A d \in C!Days, s \in Sessions :
          s \in seen[d] <=> <<d, s>> \in visits \/ (work.pc \in {"unique", "end"} /\ <<d, s>> = TheVisit)
    BY <2>1 DEF VisitorsAreUnique
  <2>3. ASSUME NEW d \in C!Days
        PROVE  /\ Cardinality(VisitsOf(d)) \in Nat
               /\ day[d].uniqueVisitors = Cardinality(VisitsOf(d)) + One(work.pc = "end" /\ x = d /\ TheVisit \notin visits)
    <3>1. IsFiniteSet(visits) /\ day[d].uniqueVisitors = Cardinality(VisitsOf(d)) + One(Of({"end"}, d) /\ TheVisit \notin visits)
      BY <2>1 DEF VisitorsAreUnique
    <3>2. One(Of({"end"}, d) /\ TheVisit \notin visits) = One(work.pc = "end" /\ x = d /\ TheVisit \notin visits)
      BY <1>8 DEF One
    <3> QED
      BY <3>1, <3>2, VisitsAreCounted
  <2>4. f = "uniqueVisitors" => TheVisit \notin visits
    BY <1>2, <2>1 DEF VisitorsAreUnique
  <2>5. \A d \in C!Days :
          day'[d].uniqueVisitors = Cardinality(VisitsOf(d)) + One(p = "end" /\ x = d /\ TheVisit \notin visits)
    BY <1>2, <1>5, <2>3, <2>4 DEF One
  <2> QED
    BY <1>2, <2>2, <2>5
<1> QED
  BY <1>9, <1>10, <1>11, <1>12

(* sadd notes the session of the day, and says whether it was new. *)
LEMMA TheSessionIsNoted ==
  ASSUME IsFiniteSet(Events), MaxTroubles \in Nat, SessionOf \in [Events -> Sessions], CountersInv, C!SAdd
  PROVE  CountersInv'
<1> DEFINE s == SessionOf[work.of]
           y == C!UTCDay(work.now)
           p == IF s \in seen[y] THEN "end" ELSE "unique"
<1> USE DEF CountersInv
<1>1. /\ UNCHANGED <<event, hour, day, troubles, offset, visits>> /\ work.pc = "set"
      /\ seen' = [seen EXCEPT ![y] = seen[y] \cup {s}] /\ work' = [work EXCEPT !.pc = p]
  BY DEF C!SAdd, C!Noted
<1>2. s \in Sessions /\ y \in C!Days /\ offset \in BOOLEAN /\ p \in {"end", "unique"}
      /\ (~ offset => C!LocalDay(work.now) = y)
  BY <1>1, TheDays DEF EventsAreTyped
<1>3. TheVisit = <<C!LocalDay(work.now), s>> /\ (p = "end" <=> s \in seen[y])
  BY DEF TheVisit
<1> HIDE DEF s, y, p
<1>4. work' \in [pc : Places, now : 1 .. 3, of : Events \cup {0}]
      /\ work'.pc = p /\ work'.now = work.now /\ work'.of = work.of
  BY <1>1, <1>2 DEF EventsAreTyped, Places
<1>5. /\ seen' \in [C!Days -> SUBSET Sessions]
      /\ \A d \in C!Days : seen'[d] = IF d = y THEN seen[d] \cup {s} ELSE seen[d]
  BY <1>1, <1>2 DEF EventsAreTyped
<1>6. TheVisit' = TheVisit /\ \A pcs, d : Of(pcs, d)' <=> p \in pcs /\ C!LocalDay(work.now) = d
  BY <1>1, <1>4 DEF TheVisit, Of, C!LocalDay
<1>7. EventsAreTyped'
  BY <1>1, <1>2, <1>4, <1>5 DEF EventsAreTyped
<1>8. CountersAreOrdered'
  <2>1. ASSUME NEW d \in C!Days
        PROVE  /\ One(Of({"second"}, d))' = 0
               /\ One(Of({"set", "unique"}, d))' <= One(Of({"set", "unique"}, d))
    <3>1. ~ Of({"second"}, d)' /\ (Of({"set", "unique"}, d)' => Of({"set", "unique"}, d))
      BY <1>1, <1>2, <1>6 DEF Of
    <3> QED
      BY <3>1 DEF One
  <2>2. ASSUME NEW d \in C!Days
        PROVE  One(Of({"second"}, d)) \in {0, 1} /\ One(Of({"set", "unique"}, d)) \in {0, 1}
               /\ One(Of({"set", "unique"}, d))' \in {0, 1}
    BY DEF One
  <2> QED
    BY <1>1, <2>1, <2>2 DEF CountersAreOrdered
<1>9. CountersAreOfTheEvents'
  BY <1>1, <1>2, <1>4 DEF CountersAreOfTheEvents, Finished, One
<1>10. VisitorsAreUnique'
  <2>1. SUFFICES ASSUME troubles = 0, ~ offset
                 PROVE  /\ \A d \in C!Days, t \in Sessions :
                             t \in seen'[d] <=> <<d, t>> \in visits \/ <<d, t>> = TheVisit
                        /\ p = "unique" => TheVisit \notin visits
                        /\ \A d \in C!Days :
                             day[d].uniqueVisitors = Cardinality(VisitsOf(d)) + One(p = "end" /\ C!LocalDay(work.now) = d /\ TheVisit \notin visits)
    <3>1. ASSUME NEW d \in C!Days
          PROVE  One(Of({"end"}, d) /\ TheVisit \notin visits)'
                   = One(p = "end" /\ C!LocalDay(work.now) = d /\ TheVisit \notin visits)
      BY <1>1, <1>6 DEF One
    <3>2. ASSUME NEW d
          PROVE  VisitsOf(d)' = VisitsOf(d)
      BY <1>1 DEF VisitsOf
    <3> QED
      BY <1>1, <1>2, <1>4, <1>6, <2>1, <3>1, <3>2 DEF VisitorsAreUnique
  <2>2. /\ \A d \in C!Days, t \in Sessions : t \in seen[d] <=> <<d, t>> \in visits
        /\ TheVisit = <<y, s>> /\ (p = "end" <=> TheVisit \in visits)
    BY <1>1, <1>2, <1>3, <2>1 DEF VisitorsAreUnique
  <2>3. \A d \in C!Days : One(Of({"end"}, d) /\ TheVisit \notin visits) = 0
    BY <1>1 DEF One, Of
  <2>4. \A d \in C!Days : One(p = "end" /\ C!LocalDay(work.now) = d /\ TheVisit \notin visits) = 0
    BY <2>2 DEF One
  <2>5. \A d \in C!Days, t \in Sessions : t \in seen'[d] <=> <<d, t>> \in visits \/ <<d, t>> = TheVisit
    BY <1>5, <2>2
  <2> QED
    BY <1>2, <2>1, <2>2, <2>3, <2>4, <2>5 DEF VisitorsAreUnique
<1> QED
  BY <1>7, <1>8, <1>9, <1>10

(* An event is done: its visit is among the visits, once. *)
LEMMA TheEventIsDone ==
  ASSUME IsFiniteSet(Events), MaxTroubles \in Nat, SessionOf \in [Events -> Sessions], CountersInv, C!End
  PROVE  CountersInv'
<1> DEFINE e == work.of
<1> USE DEF CountersInv
<1>1. /\ UNCHANGED <<hour, day, seen, troubles, offset>> /\ work.pc = "end"
      /\ event' = [event EXCEPT ![e] = [event[e] EXCEPT !.st = "completed"]]
      /\ visits' = visits \cup {TheVisit}
      /\ work' = [pc |-> "rest", now |-> 1, of |-> 0]
  BY DEF C!End, C!Completed, C!Resting, TheVisit
<1>2. e \in Events /\ event[e] \in C!Job /\ event[e].st = "active"
      /\ TheVisit \in C!Days \X Sessions /\ TheVisit[1] = C!LocalDay(work.now)
  BY <1>1, TheDays DEF EventsAreTyped, TheVisit
<1> DEFINE j == [event[e] EXCEPT !.st = "completed"]
<1>3. j \in C!Job /\ j.st = "completed"
  BY <1>2 DEF C!Job, C!JobStates
<1> HIDE DEF e, j
<1>4. event' \in [Events -> C!Job] /\ \A i \in Events : event'[i] = IF i = e THEN j ELSE event[i]
  BY <1>1, <1>2, <1>3 DEF EventsAreTyped, j
<1>5. EventsAreTyped'
  <2>1. \A i \in Events : event'[i].st # "active"
    BY <1>1, <1>3, <1>4 DEF EventsAreTyped, e
  <2>2. work' \in [pc : Places, now : 1 .. 3, of : Events \cup {0}] /\ work'.pc = "rest"
    BY <1>1 DEF Places
  <2>3. \A i \in Events : event'[i].st = "waiting" => event'[i].tries <= 2 /\ event'[i].stalls <= 1
    BY <1>3, <1>4 DEF EventsAreTyped
  <2> QED
    BY <1>1, <1>4, <2>1, <2>2, <2>3 DEF EventsAreTyped
<1>6. CountersAreOrdered'
  <2>1. ASSUME NEW d \in C!Days
        PROVE  One(Of({"second"}, d))' = 0 /\ One(Of({"set", "unique"}, d))' = 0
               /\ One(Of({"second"}, d)) = 0 /\ One(Of({"set", "unique"}, d)) = 0
    BY <1>1 DEF One, Of
  <2> QED
    BY <1>1, <2>1 DEF CountersAreOrdered
<1>7. CountersAreOfTheEvents'
  <2>1. Finished' = Finished \cup {e} /\ e \notin Finished
    BY <1>2, <1>3, <1>4 DEF Finished
  <2>2. Cardinality(Finished') = Cardinality(Finished) + 1 /\ Cardinality(Finished) \in Nat
    BY <2>1, EventsAreCounted, FS_AddElement
  <2> QED
    BY <1>1, <2>2 DEF CountersAreOfTheEvents, One
<1>8. VisitorsAreUnique'
  <2>1. SUFFICES ASSUME troubles = 0, ~ offset
                 PROVE  VisitorsAreUnique'
    BY <1>1 DEF VisitorsAreUnique
  <2>2. /\ IsFiniteSet(visits) /\ visits \subseteq C!Days \X Sessions
        /\ \A d \in C!Days, t \in Sessions : t \in seen[d] <=> <<d, t>> \in visits \/ <<d, t>> = TheVisit
    BY <1>1, <2>1 DEF VisitorsAreUnique
  <2>3. IsFiniteSet(visits') /\ visits' \subseteq C!Days \X Sessions
    BY <1>1, <1>2, <2>2, FS_AddElement
  <2>4. \A d \in C!Days, t \in Sessions : t \in seen'[d] <=> <<d, t>> \in visits'
    BY <1>1, <2>2
  <2>5. ASSUME NEW d \in C!Days
        PROVE  day'[d].uniqueVisitors = Cardinality(VisitsOf(d)')
    <3>1. /\ day[d].uniqueVisitors = Cardinality(VisitsOf(d)) + One(Of({"end"}, d) /\ TheVisit \notin visits)
          /\ IsFiniteSet(VisitsOf(d)) /\ Cardinality(VisitsOf(d)) \in Nat
      BY <2>1, <2>2, VisitsAreCounted DEF VisitorsAreUnique
    <3>2. CASE C!LocalDay(work.now) = d /\ TheVisit \notin visits
      <4>1. VisitsOf(d)' = VisitsOf(d) \cup {TheVisit} /\ TheVisit \notin VisitsOf(d)
        BY <1>1, <1>2, <3>2 DEF VisitsOf
      <4>2. One(Of({"end"}, d) /\ TheVisit \notin visits) = 1
        BY <1>1, <3>2 DEF One, Of
      <4>3. Cardinality(VisitsOf(d)') = Cardinality(VisitsOf(d)) + 1
        BY <3>1, <4>1, FS_AddElement
      <4> QED
        BY <1>1, <3>1, <4>2, <4>3
    <3>3. CASE ~ (C!LocalDay(work.now) = d /\ TheVisit \notin visits)
      <4>1. VisitsOf(d)' = VisitsOf(d)
        BY <1>1, <1>2, <3>3 DEF VisitsOf
      <4>2. One(Of({"end"}, d) /\ TheVisit \notin visits) = 0
        BY <1>1, <3>3 DEF One, Of
      <4> QED
        BY <1>1, <3>1, <4>1, <4>2
    <3> QED
      BY <3>2, <3>3
  <2>6. work'.pc = "rest" /\ \A d \in C!Days : One(Of({"end"}, d) /\ TheVisit \notin visits)' = 0
    BY <1>1 DEF One, Of
  <2>7. ASSUME NEW d \in C!Days
        PROVE  Cardinality(VisitsOf(d)') \in Nat
    <3>1. VisitsOf(d)' \subseteq visits'
      BY DEF VisitsOf
    <3> QED
      BY <2>3, <3>1, FS_Subset, FS_CardinalityType
  <2> QED
    BY <2>3, <2>4, <2>5, <2>6, <2>7 DEF VisitorsAreUnique
<1> QED
  BY <1>5, <1>6, <1>7, <1>8

(* An event that throws or stalls leaves what it has counted behind. *)
LEMMA TroubleIsCounted ==
  ASSUME IsFiniteSet(Events), MaxTroubles \in Nat, CountersInv, C!Trouble
  PROVE  CountersInv'
<1> DEFINE e == work.of
<1> USE DEF CountersInv
<1>1. /\ UNCHANGED <<hour, day, seen, offset, visits>> /\ work.pc # "rest"
      /\ troubles < MaxTroubles /\ troubles' = troubles + 1
      /\ work' = [pc |-> "rest", now |-> 1, of |-> 0]
  BY DEF C!Trouble, C!Resting
<1>2. PICK j \in {C!Threw(event[e], C!Attempts), C!Stalled(event[e])} : event' = [event EXCEPT ![e] = j]
  BY DEF C!Trouble
<1>3. e \in Events /\ event[e] \in C!Job /\ event[e].st = "active" /\ event[e].tries <= 2 /\ event[e].stalls <= 1
  BY <1>1 DEF EventsAreTyped
<1>4. j \in C!Job /\ j.st \in {"waiting", "failed"} /\ (j.st = "waiting" => j.tries <= 2 /\ j.stalls <= 1)
  <2>1. CASE j = C!Threw(event[e], C!Attempts)
    <3> DEFINE t == IF event[e].tries + 1 < 3 THEN "waiting" ELSE "failed"
    <3>1. j = [event[e] EXCEPT !.tries = event[e].tries + 1, !.st = t]
      BY <2>1 DEF C!Threw, C!Attempts
    <3>2. event[e].tries + 1 \in 0 .. 3 /\ t \in {"waiting", "failed"} /\ (t = "waiting" => event[e].tries + 1 <= 2)
      BY <1>3 DEF C!Job
    <3> HIDE DEF t
    <3> QED
      BY <1>3, <3>1, <3>2 DEF C!Job, C!JobStates
  <2>2. CASE j = C!Stalled(event[e])
    <3> DEFINE t == IF event[e].stalls = 0 THEN "waiting" ELSE "failed"
    <3>1. j = [event[e] EXCEPT !.stalls = event[e].stalls + 1, !.st = t]
      BY <2>2 DEF C!Stalled
    <3>2. event[e].stalls + 1 \in 0 .. 2 /\ t \in {"waiting", "failed"} /\ (t = "waiting" => event[e].stalls + 1 <= 1)
      BY <1>3 DEF C!Job
    <3> HIDE DEF t
    <3> QED
      BY <1>3, <3>1, <3>2 DEF C!Job, C!JobStates
  <2> QED
    BY <2>1, <2>2
<1> HIDE DEF e
<1>5. event' \in [Events -> C!Job] /\ \A i \in Events : event'[i] = IF i = e THEN j ELSE event[i]
  BY <1>2, <1>3, <1>4 DEF EventsAreTyped
<1>6. EventsAreTyped'
  <2>1. \A i \in Events : event'[i].st # "active"
    BY <1>1, <1>4, <1>5 DEF EventsAreTyped, e
  <2>2. work' \in [pc : Places, now : 1 .. 3, of : Events \cup {0}] /\ work'.pc = "rest"
    BY <1>1 DEF Places
  <2>3. \A i \in Events : event'[i].st = "waiting" => event'[i].tries <= 2 /\ event'[i].stalls <= 1
    BY <1>4, <1>5 DEF EventsAreTyped
  <2>4. troubles' \in 0 .. MaxTroubles
    BY <1>1 DEF EventsAreTyped
  <2> QED
    BY <1>1, <1>5, <2>1, <2>2, <2>3, <2>4 DEF EventsAreTyped
<1>7. CountersAreOrdered'
  <2>1. ASSUME NEW d \in C!Days
        PROVE  /\ One(Of({"second"}, d))' = 0 /\ One(Of({"set", "unique"}, d))' = 0
               /\ One(Of({"second"}, d)) \in {0, 1} /\ One(Of({"set", "unique"}, d)) \in {0, 1}
    BY <1>1 DEF One, Of
  <2>2. \A d \in C!Days : day[d].pageViews \in Nat /\ day[d].visitors \in Nat /\ day[d].uniqueVisitors \in Nat
    BY DEF CountersAreOrdered
  <2>3. ASSUME NEW d \in C!Days
        PROVE  /\ day'[d].visitors + One(Of({"second"}, d))' <= day'[d].pageViews
               /\ day'[d].uniqueVisitors + One(Of({"set", "unique"}, d))' <= day'[d].visitors
    BY <1>1, <2>1, <2>2 DEF CountersAreOrdered
  <2> QED
    BY <1>1, <2>3 DEF CountersAreOrdered
<1>8. CountersAreOfTheEvents'
  <2>1. Finished' = Finished /\ Cardinality(Finished) \in Nat
    BY <1>3, <1>4, <1>5, EventsAreCounted DEF Finished
  <2>2. troubles \in Nat /\ One(work.pc \notin {"rest", "first"}) \in {0, 1} /\ One(work'.pc \notin {"rest", "first"}) = 0
    BY <1>1 DEF EventsAreTyped, One
  <2>3. day[1].pageViews \in Nat /\ day[2].pageViews \in Nat
    BY DEF CountersAreOrdered, C!Days
  <2> QED
    BY <1>1, <2>1, <2>2, <2>3 DEF CountersAreOfTheEvents
<1>9. VisitorsAreUnique'
  <2>1. troubles' # 0
    BY <1>1 DEF EventsAreTyped
  <2> QED
    BY <2>1 DEF VisitorsAreUnique
<1> QED
  BY <1>6, <1>7, <1>8, <1>9

LEMMA CountersStay ==
  ASSUME IsFiniteSet(Events), MaxTroubles \in Nat, SessionOf \in [Events -> Sessions],
         CountersInv, C!Next \/ UNCHANGED counters
  PROVE  CountersInv'
<1>1. CASE UNCHANGED counters
  <2>1. UNCHANGED <<event, hour, day, seen, work, troubles, offset, visits>>
    BY <1>1 DEF counters
  <2>2. \A pcs, d : Of(pcs, d)' <=> Of(pcs, d)
    BY <2>1 DEF Of, C!LocalDay
  <2>3. TheVisit' = TheVisit /\ Finished' = Finished /\ \A d : VisitsOf(d)' = VisitsOf(d)
    BY <2>1 DEF TheVisit, C!LocalDay, Finished, VisitsOf
  <2>4. EventsAreTyped' /\ CountersAreOfTheEvents' /\ CountersAreOrdered'
    BY <2>1, <2>2, <2>3 DEF CountersInv, EventsAreTyped, CountersAreOfTheEvents, CountersAreOrdered, One
  <2>5. VisitorsAreUnique'
    BY <2>1, <2>2, <2>3 DEF CountersInv, VisitorsAreUnique, One
  <2> QED
    BY <2>4, <2>5 DEF CountersInv
<1> QED
  BY <1>1, NothingIsCountedYet, TheFieldsAreCounted, TheSessionIsNoted, TheEventIsDone, TroubleIsCounted DEF C!Next

LEMMA CountersMean ==
  ASSUME IsFiniteSet(Events), MaxTroubles \in Nat, CountersInv
  PROVE  C!TypeOK /\ C!FunnelIsOrdered
<1> USE DEF CountersInv
<1>1. /\ Cardinality(Finished) \in Nat /\ Cardinality(Events) \in Nat
      /\ work.pc # "rest" => Cardinality(Finished) + 1 <= Cardinality(Events)
      /\ Cardinality(Finished) <= Cardinality(Events)
  <2>1. IsFiniteSet(Finished) /\ Finished \subseteq Events /\ Cardinality(Finished) <= Cardinality(Events)
    BY EventsAreCounted, FS_Subset DEF Finished
  <2>2. CASE work.pc # "rest"
    <3>1. work.of \in Events /\ work.of \notin Finished
      BY <2>2 DEF EventsAreTyped, Finished
    <3>2. Cardinality(Finished \cup {work.of}) = Cardinality(Finished) + 1
      BY <2>1, <3>1, FS_AddElement
    <3>3. Finished \cup {work.of} \subseteq Events
      BY <2>1, <3>1
    <3>4. Cardinality(Finished \cup {work.of}) <= Cardinality(Events)
      BY <3>3, FS_Subset
    <3> QED
      BY <2>1, <3>2, <3>4, EventsAreCounted, FS_CardinalityType
  <2> QED
    BY <2>1, <2>2, EventsAreCounted, FS_CardinalityType
<1>2. \A d \in C!Days : day[d].pageViews \in Nat /\ day[d].visitors \in Nat /\ day[d].uniqueVisitors \in Nat
  BY DEF CountersAreOrdered
<1>3. \A p : One(p) \in {0, 1}
  BY DEF One
<1>4. troubles \in 0 .. MaxTroubles
  BY DEF EventsAreTyped
<1>5. C!TypeOK
  <2>1. day[1].pageViews + day[2].pageViews <= Cardinality(Events) + MaxTroubles
    <3>1. Cardinality(Finished) + One(work.pc \notin {"rest", "first"}) <= Cardinality(Events)
      BY <1>1 DEF One
    <3> QED
      BY <1>1, <1>2, <1>3, <1>4, <3>1 DEF CountersAreOfTheEvents, C!Days
  <2>2. \A d \in C!Days : day[d].pageViews <= 3 * Cardinality(Events) + MaxTroubles
    BY <1>1, <1>2, <2>1 DEF C!Days
  <2>3. work.pc = "rest" <=> C!Idling(event)
    BY DEF EventsAreTyped, C!Idling
  <2> QED
    BY <1>1, <1>2, <2>2, <2>3, SameCardinalityOfCounters DEF C!TypeOK, EventsAreTyped
<1>6. ASSUME NEW d \in C!Days
      PROVE  day[d].uniqueVisitors <= day[d].visitors /\ day[d].visitors <= day[d].pageViews
  BY <1>2, <1>3 DEF CountersAreOrdered
<1>7. ASSUME troubles = 0, work.pc = "rest"
      PROVE  /\ day[1].pageViews + day[2].pageViews = Cardinality(Finished)
             /\ ~ offset => \A d \in C!Days : day[d].uniqueVisitors = Cardinality(VisitsOf(d))
  <2>1. day[1].pageViews + day[2].pageViews = Cardinality(Finished)
    BY <1>1, <1>7 DEF CountersAreOfTheEvents, One
  <2>2. ASSUME ~ offset, NEW d \in C!Days
        PROVE  day[d].uniqueVisitors = Cardinality(VisitsOf(d))
    <3>1. One(Of({"end"}, d) /\ TheVisit \notin visits) = 0
      BY <1>7 DEF One, Of
    <3>2. IsFiniteSet(visits) /\ day[d].uniqueVisitors = Cardinality(VisitsOf(d)) + One(Of({"end"}, d) /\ TheVisit \notin visits)
      BY <1>7, <2>2 DEF VisitorsAreUnique
    <3> QED
      BY <3>1, <3>2, VisitsAreCounted
  <2> QED
    BY <2>1, <2>2
<1>8. C!FunnelIsOrdered
  BY <1>6, <1>7, SameCardinalityOfCounters DEF C!FunnelIsOrdered, Finished, VisitsOf
<1> QED
  BY <1>5, <1>8

-----------------------------------------------------------------------------
(* The mails: three attempts, and a job that stalls once more.             *)
MailsInv ==
  /\ mail \in [Mails -> M!Job] /\ out \in [Mails -> 0 .. 5] /\ deaths \in 0 .. MaxCrashes
  /\ \A m \in Mails : mail[m].st \in {"unborn", "waiting", "active"} => mail[m].tries <= 2 /\ mail[m].stalls <= 1

(* What every step does: one job takes another state, and the server may   *)
(* have taken its mail.                                                    *)
LEMMA OneMailMoves ==
  ASSUME MailsInv, NEW m \in Mails, NEW j \in M!Job, NEW k \in {0, 1},
         j.st \in {"unborn", "waiting", "active"} => j.tries <= 2 /\ j.stalls <= 1,
         mail' = [mail EXCEPT ![m] = j], out' = [out EXCEPT ![m] = M!More(out[m], k)],
         deaths' \in 0 .. MaxCrashes
  PROVE  MailsInv'
<1>1. M!More(out[m], k) \in 0 .. 5
  BY DEF M!More, MailsInv
<1>2. mail' \in [Mails -> M!Job] /\ \A i \in Mails : mail'[i] = IF i = m THEN j ELSE mail[i]
  BY DEF MailsInv
<1> QED
  BY <1>1, <1>2 DEF MailsInv

LEMMA MailsStay ==
  ASSUME MaxCrashes \in Nat, MailsInv, M!Next \/ UNCHANGED <<mails, deaths>>
  PROVE  MailsInv'
<1>1. CASE UNCHANGED <<mails, deaths>>
  BY <1>1 DEF MailsInv, mails
<1>2. ASSUME NEW m \in Mails, M!Add(m) \/ M!Work(m) \/ M!Die(m)
      PROVE  MailsInv'
  <2>1. mail[m] \in M!Job /\ out[m] \in 0 .. 5
        /\ (mail[m].st \in {"unborn", "waiting", "active"} => mail[m].tries <= 2 /\ mail[m].stalls <= 1)
    BY DEF MailsInv
  <2>2. ASSUME NEW st \in M!JobStates, NEW k \in {0, 1}, mail[m].st \in {"unborn", "waiting", "active"},
               mail' = [mail EXCEPT ![m] = [mail[m] EXCEPT !.st = st]],
               out' = [out EXCEPT ![m] = M!More(out[m], k)], UNCHANGED deaths
        PROVE  MailsInv'
    <3> DEFINE j == [mail[m] EXCEPT !.st = st]
    <3>1. j \in M!Job /\ j.tries <= 2 /\ j.stalls <= 1
      BY <2>1, <2>2 DEF M!Job
    <3>2. mail' = [mail EXCEPT ![m] = j] /\ deaths' \in 0 .. MaxCrashes
      BY <2>2 DEF MailsInv
    <3> HIDE DEF j
    <3> QED
      BY <2>2, <3>1, <3>2, OneMailMoves
  <2>3. UNCHANGED out => out' = [out EXCEPT ![m] = M!More(out[m], 0)]
    BY <2>1 DEF MailsInv, M!More
  <2>4. CASE M!Add(m) \/ M!Take(m)
    BY <2>2, <2>3, <2>4 DEF M!Add, M!Take, M!Queued, M!Taken, M!JobStates
  <2>5. CASE M!Send(m)
    <3>1. mail[m].st = "active" /\ UNCHANGED deaths
      BY <2>5 DEF M!Send
    <3>2. CASE mail' = [mail EXCEPT ![m] = M!Completed(mail[m])] /\ out' = [out EXCEPT ![m] = M!More(out[m], 1)]
      BY <2>2, <3>1, <3>2 DEF M!Completed, M!JobStates
    <3>3. CASE mail' = [mail EXCEPT ![m] = M!Failed(mail[m])]
               /\ \E k \in {0, 1} : out' = [out EXCEPT ![m] = M!More(out[m], k)]
      <4>1. PICK k \in {0, 1} : out' = [out EXCEPT ![m] = M!More(out[m], k)]
        BY <3>3
      <4> DEFINE t == IF mail[m].tries + 1 < 3 THEN "waiting" ELSE "failed"
                 j == [mail[m] EXCEPT !.tries = mail[m].tries + 1, !.st = t]
      <4>2. t \in {"waiting", "failed"} /\ (t = "waiting" => mail[m].tries + 1 <= 2) /\ mail[m].tries + 1 \in 0 .. 3
        BY <2>1, <3>1 DEF M!Job
      <4>3. mail' = [mail EXCEPT ![m] = j] /\ deaths' \in 0 .. MaxCrashes
        BY <3>1, <3>3 DEF M!Failed, M!Threw, M!Attempts, MailsInv
      <4> HIDE DEF t
      <4>4. j \in M!Job /\ (j.st \in {"unborn", "waiting", "active"} => j.tries <= 2 /\ j.stalls <= 1)
        BY <2>1, <3>1, <4>2 DEF M!Job, M!JobStates
      <4> HIDE DEF j
      <4> QED
        BY <4>1, <4>3, <4>4, OneMailMoves
    <3> QED
      BY <2>5, <3>2, <3>3 DEF M!Send
  <2>6. CASE M!Die(m)
    <3>1. mail[m].st = "active" /\ deaths' \in 0 .. MaxCrashes
      BY <2>6 DEF M!Die, MailsInv
    <3>2. PICK k \in {0, 1} : out' = [out EXCEPT ![m] = M!More(out[m], k)]
      BY <2>6 DEF M!Die
    <3> DEFINE t == IF mail[m].stalls = 0 THEN "waiting" ELSE "failed"
               j == [mail[m] EXCEPT !.stalls = mail[m].stalls + 1, !.st = t]
    <3>3. t \in {"waiting", "failed"} /\ (t = "waiting" => mail[m].stalls + 1 <= 1) /\ mail[m].stalls + 1 \in 0 .. 2
      BY <2>1, <3>1 DEF M!Job
    <3>4. mail' = [mail EXCEPT ![m] = j]
      BY <2>6 DEF M!Die, M!Stalled
    <3> HIDE DEF t
    <3>5. j \in M!Job /\ (j.st \in {"unborn", "waiting", "active"} => j.tries <= 2 /\ j.stalls <= 1)
      BY <2>1, <3>1, <3>3 DEF M!Job, M!JobStates
    <3> HIDE DEF j
    <3> QED
      BY <3>1, <3>2, <3>4, <3>5, OneMailMoves
  <2> QED
    BY <1>2, <2>4, <2>5, <2>6 DEF M!Work
<1> QED
  BY <1>1, <1>2 DEF M!Next

(* On no day are there more unique visitors than visitors, or more         *)
(* visitors than pages, whatever fails; without an error every event is    *)
(* one page, and with a clock in UTC the unique visitors are the sessions  *)
(* of the day: for any number of events and troubles.                      *)
THEOREM CountersKeepTheirOrder ==
  ASSUME IsFiniteSet(Events), MaxTroubles \in Nat, MaxCrashes \in Nat, SessionOf \in [Events -> Sessions]
  PROVE  JobsSpec => []FunnelIsOrdered
<1> DEFINE Inv == (part = "counters" => CountersInv) /\ (part = "mails" => MailsInv)
<1>1. JobsInit => Inv
  <2>1. JobsInit /\ part = "mails" => M!Init
    BY DEF JobsInit
  <2>2. M!Init => MailsInv
    BY DEF M!Init, MailsInv, M!Unborn, M!Job, M!JobStates
  <2> QED
    BY <2>1, <2>2, CountersStart DEF JobsInit
<1>2. Inv /\ [JobsNext]_all => Inv'
  <2>1. ASSUME Inv, [JobsNext]_all, part' = "counters"
        PROVE  CountersInv'
    <3>1. part = "counters" /\ (C!Next \/ UNCHANGED counters)
      BY <2>1 DEF JobsNext, all, Importing, Counting, Mailing, Reviewing, Sorting
    <3> QED
      BY <2>1, <3>1, CountersStay
  <2>2. ASSUME Inv, [JobsNext]_all, part' = "mails"
        PROVE  MailsInv'
    <3>1. part = "mails" /\ (M!Next \/ UNCHANGED <<mails, deaths>>)
      BY <2>2 DEF JobsNext, all, Importing, Counting, Mailing, Reviewing, Sorting
    <3> QED
      BY <2>2, <3>1, MailsStay
  <2> QED
    BY <2>1, <2>2
<1>3. Inv => FunnelIsOrdered
  <2>1. MailsInv => M!TypeOK
    BY DEF MailsInv, M!TypeOK
  <2> QED
    BY <2>1, CountersMean DEF FunnelIsOrdered
<1> QED
  BY <1>1, <1>2, <1>3, PTL DEF JobsSpec
=============================================================================
