----------------------------- MODULE ImportJob -----------------------------
(***************************************************************************)
(* The import of products from a file: ImportService.start writes a row of *)
(* import_jobs and puts a job into the queue "import" (one attempt), and   *)
(* ImportProcessor works through the groups of rows of the file, each its  *)
(* own update or create in the shop.                                       *)
(*                                                                         *)
(* A group is one product; products with the same SKU exclude each other.  *)
(* The office, which has resolved products as duplicates, edits products   *)
(* meanwhile.  The process may die: the job is taken once more and starts  *)
(* from the first group.  The database may refuse any update of the row.   *)
(***************************************************************************)
EXTENDS JobQueue, FiniteSets

CONSTANTS N,          \* groups of the file, 1 .. N in its order
          Files,      \* subset of [1 .. N -> [sku, name, category : BOOLEAN]]: which cells
                      \* have something, for the category something known
          Old,        \* products that are there before
          MaxDeaths, MaxEdits   \* bounds of the model: crashes, edits of the office

VARIABLES
  file,    \* one of Files
  old,     \* [Old -> [sku, like]]: the group with its SKU or 0, the groups with its name
           \* (or with its SKU in other letters)
  choice,  \* [skip, given, resolved]: skipDuplicates, duplicateResolutions and its products
  there,   \* the products of Old that are still there
  made,    \* [1 .. N -> products created for this group, or by the office with its SKU]
  job,     \* the job in the queue
  row,     \* import_jobs: its status and counters
  run,     \* the processor: its next step and group, counters, existingProductMap
  fate,    \* history: [1 .. N -> what became of the group in the last run]
  refused, \* history: a row that was to say how the run starts or ends was refused
  deaths, edits

vars == <<file, old, choice, there, made, job, row, run, fate, refused, deaths, edits>>
still == <<file, old, choice, deaths, edits>>
products == <<there, made>>

Groups == 1 .. N
Fates == {"none", "updated", "created", "reported", "skipped"}
Statuses == {"none", "pending", "processing", "completed", "failed"}
Steps == {"off", "mark", "read", "group", "progress", "catch", "settle"}
Off == [pc |-> "off", at |-> 1, ok |-> 0, bad |-> 0, known |-> {}]

TypeOK ==
  /\ there \subseteq Old /\ made \in [Groups -> 0 .. 4] /\ job \in Job
  /\ row.status \in Statuses /\ row.ok + row.bad <= N
  /\ run.pc \in Steps /\ run.at \in 1 .. N + 1 /\ run.known \subseteq Old
  /\ fate \in [Groups -> Fates] /\ (run.pc = "off") = (job.st # "active")

(* No two products have one SKU, and only what is there can be resolved.   *)
Init ==
  /\ file \in Files
  /\ old \in {o \in [Old -> [sku : Groups \cup {0}, like : SUBSET Groups]] :
                \A p \in Old : o[p].sku # 0 =>
                  file[o[p].sku].sku /\ \A q \in Old : o[q].sku = o[p].sku => q = p}
  /\ choice \in {c \in [skip : BOOLEAN, given : BOOLEAN, resolved : SUBSET Old] :
                   c.resolved # {} => c.given}
  /\ there = Old /\ made = [g \in Groups |-> 0]
  /\ job = Unborn /\ row = [status |-> "none", ok |-> 0, bad |-> 0] /\ run = Off
  /\ fate = [g \in Groups |-> "none"] /\ refused = FALSE /\ deaths = 0 /\ edits = 0
-----------------------------------------------------------------------------
(* start: the row is saved first, and stays pending when the add fails. *)
Start ==
  /\ row.status = "none"
  /\ row' = [row EXCEPT !.status = "pending"]
  /\ UNCHANGED <<still, products, job, run, fate, refused>>
Enqueue ==
  /\ row.status = "pending" /\ job = Unborn
  /\ job' = Queued(job)
  /\ UNCHANGED <<still, products, row, run, fate, refused>>

Take ==
  /\ job.st = "waiting"
  /\ job' = Taken(job) /\ run' = [Off EXCEPT !.pc = "mark"]
  /\ UNCHANGED <<still, products, row, fate, refused>>

(* An error outside of the try, or in its catch, is the job's: it had one  *)
(* attempt, and the row stays as it is.                                    *)
Refused ==
  /\ job' = Threw(job, 1) /\ run' = Off /\ refused' = TRUE
  /\ UNCHANGED <<row, fate>>

(* The update to PROCESSING, before the try.  (The fates are those of the  *)
(* run the row tells of.)                                                  *)
Mark ==
  /\ run.pc = "mark"
  /\ \/ /\ row' = [row EXCEPT !.status = "processing"] /\ run' = [run EXCEPT !.pc = "read"]
        /\ fate' = [g \in Groups |-> "none"] /\ UNCHANGED <<job, refused>>
     \/ Refused
  /\ UNCHANGED <<still, products>>

(* Mutation: the file is fetched outside of the try. *)
UncaughtError == job' = Threw(job, 1) /\ run' = Off /\ UNCHANGED <<row, fate, refused>>

(* An error inside of the try. *)
Caught == run' = [run EXCEPT !.pc = "catch"] /\ UNCHANGED <<job, row, fate, refused>>

(* The row says how the run ended; the queue learns of it in Settle. *)
End(status, r) ==
  /\ row' = [r EXCEPT !.status = status] /\ run' = [run EXCEPT !.pc = "settle"]
  /\ UNCHANGED <<job, fate, refused>>

(* The file from S3, a file without rows, the categories, and the resolved *)
(* products: what is not found, or not read, is left out.                  *)
Read ==
  /\ run.pc = "read"
  /\ \/ /\ \E k \in SUBSET (choice.resolved \cap there) :
              run' = [run EXCEPT !.pc = "group", !.known = k]
        /\ UNCHANGED <<job, row, fate, refused>>
     \/ End("failed", row)
     \/ Caught
  /\ UNCHANGED <<still, products>>
-----------------------------------------------------------------------------
(* Mutation: the SKU is not looked up. *)
SkuIgnored(g) == FALSE

(* The SKU of a new product is taken. *)
Bearers(g) == {q \in there : old[q].sku = g}
SkuTaken(g) == file[g].sku /\ (made[g] > 0 \/ Bearers(g) # {})

(* existingMatch: by SKU, otherwise by name. *)
Match(g) ==
  LET same == {q \in run.known : file[g].sku /\ old[q].sku = g}
  IN  IF same # {} THEN same ELSE {q \in run.known : g \in old[q].like}

(* The group ends before the try has tried anything (continue). *)
Incomplete(g) == ~ file[g].category \/ (Match(g) = {} /\ ~ file[g].name)

(* One group: any error is reported.  A match is updated, if it is still   *)
(* there; the rest is created, if its SKU is free, and a duplicate may be  *)
(* skipped silently when the office was not asked to resolve any.          *)
Outcome(g) ==
  {"reported"} \cup
    (CASE Incomplete(g) -> {}
       [] ~ Incomplete(g) /\ Match(g) # {} -> {f \in {"updated"} : Match(g) \cap there # {}}
       [] OTHER -> IF SkuTaken(g) THEN {f \in {"skipped"} : choice.skip /\ ~ choice.given}
                   ELSE {"created"})

(* The progress is due after every tenth row, and after the last. *)
Treat ==
  /\ run.pc = "group" /\ run.at <= N
  /\ \E f \in Outcome(run.at), due \in BOOLEAN :
       /\ IF Incomplete(run.at) THEN ~ due ELSE run.at = N => due
       /\ fate' = [fate EXCEPT ![run.at] = f]
       /\ made' = IF f = "created" THEN [made EXCEPT ![run.at] = @ + 1] ELSE made
       /\ run' = [run EXCEPT !.pc = IF due THEN "progress" ELSE "group", !.at = @ + 1,
                             !.ok = IF f \in {"created", "updated"} THEN @ + 1 ELSE @,
                             !.bad = IF f = "reported" THEN @ + 1 ELSE @]
  /\ UNCHANGED <<still, there, job, row, refused>>

Counted == [row EXCEPT !.ok = run.ok, !.bad = run.bad]
Progress ==
  /\ run.pc = "progress"
  /\ \/ row' = Counted /\ run' = [run EXCEPT !.pc = "group"] /\ UNCHANGED <<job, fate, refused>>
     \/ Caught
  /\ UNCHANGED <<still, products>>

Finish ==
  /\ run.pc = "group" /\ run.at > N
  /\ End("completed", Counted) \/ Caught
  /\ UNCHANGED <<still, products>>

(* The catch: the row says failed, or the database refuses that as well.   *)
Catch ==
  /\ run.pc = "catch"
  /\ End("failed", row) \/ Refused
  /\ UNCHANGED <<still, products>>

Settle ==
  /\ run.pc = "settle"
  /\ job' = Completed(job) /\ run' = Off
  /\ UNCHANGED <<still, products, row, fate, refused>>
-----------------------------------------------------------------------------
Die ==
  /\ job.st = "active" /\ deaths < MaxDeaths
  /\ job' = Stalled(job) /\ run' = Off /\ deaths' = deaths + 1
  /\ UNCHANGED <<file, old, choice, edits, products, row, fate, refused>>

(* The office deletes a product, or adds one with the SKU of a group.      *)
OfficeEdits(g) ==
  /\ edits < MaxEdits /\ edits' = edits + 1
  /\ \/ \E q \in there : there' = there \ {q} /\ UNCHANGED made
     \/ made[g] > 0 /\ made' = [made EXCEPT ![g] = @ - 1] /\ UNCHANGED there
     \/ file[g].sku /\ ~ SkuTaken(g) /\ made' = [made EXCEPT ![g] = @ + 1] /\ UNCHANGED there
  /\ UNCHANGED <<file, old, choice, deaths, job, row, run, fate, refused>>

Work == Take \/ Mark \/ Read \/ Treat \/ Progress \/ Finish \/ Catch \/ Settle
Next == Start \/ Enqueue \/ Work \/ Die \/ \E g \in Groups : OfficeEdits(g)

(* The worker runs on while its process lives. *)
Fairness == WF_vars(Work)
Spec == Init /\ [][Next]_vars /\ Fairness
-----------------------------------------------------------------------------
(* However often the import runs and whatever the office does meanwhile, a *)
(* SKU of the file is that of one product (a group without one is created  *)
(* again).  And an import that says completed has dealt with every group   *)
(* of the file: it is in the shop, or among the errors, or it was a        *)
(* duplicate that was to be skipped; the counters say how many.            *)
ImportedOnce ==
  /\ \A g \in Groups : file[g].sku =>
       /\ made[g] <= 1 /\ (made[g] = 1 => Bearers(g) = {})
       /\ \A p, q \in Bearers(g) : p = q
  /\ row.status = "completed" =>
       /\ \A g \in Groups : fate[g] # "none" /\ (fate[g] = "skipped" => file[g].sku /\ choice.skip)
       /\ row.ok = Cardinality({g \in Groups : fate[g] \in {"created", "updated"}})
       /\ row.bad = Cardinality({g \in Groups : fate[g] = "reported"})

(* An import whose job was queued ends as completed or failed, whatever    *)
(* goes wrong in it, unless the database refuses the row in which the      *)
(* start or the failure is to be told, or the process dies twice.          *)
InQueue == job.st = "waiting"
Told    == row.status \in {"completed", "failed"}
Over    == Told \/ refused \/ job.stalls = 2
QueuedImportsEnd == InQueue ~> Over
=============================================================================
