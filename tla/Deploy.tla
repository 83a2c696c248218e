-------------------------------- MODULE Deploy --------------------------------
(***************************************************************************)
(* Releases of the backend: the pipeline's job for each commit, which       *)
(* validates the database migrations (scripts/ci/check_migrations.py),      *)
(* applies them, and runs the deploy driver (scripts/ci/deploy.py): set the *)
(* image, wait for the rollout, smoke-test the service, and on a failure    *)
(* undo the rollout.                                                       *)
(*                                                                         *)
(* The cluster is outside the repository: it keeps the revisions of the     *)
(* deployment's template, starts a pod of the current image beside the old  *)
(* ones and retires those once it is ready.  Pods are ready when GET /ready *)
(* says so, which depends on services that all images share.               *)
(***************************************************************************)
EXTENDS Integers, Sequences, FiniteSets, SequencesExt, Readiness

CONSTANTS
  Images,     (* the images, one for each commit                              *)
  First,      (* the image that is deployed to begin with                     *)
  Jobs,       (* the runs of the pipeline                                     *)
  Image,      (* the image each of them deploys                               *)
  Broken,     (* images whose pods never get ready                            *)
  Files,      (* the migrations in each image: sets of [rev, down, adds, drops] *)
  Validated,  (* the pipeline validates the migrations before it applies them *)
  Serialized, (* a run of the pipeline waits for the one before               *)
  MaxOutages  (* bound: outages of the shared services                        *)

Services == {"database", "redis", "kafka"}

ASSUME DeployAssumption ==
  /\ First \in Images /\ Image \in [Jobs -> Images] /\ Broken \subseteq Images
  /\ DOMAIN Files = Images
  /\ Validated \in BOOLEAN /\ Serialized \in BOOLEAN /\ MaxOutages \in Nat

VARIABLES
  revs,    \* the deployment's revisions: images, the current one last
  pods,    \* the images that pods run
  up,      \* the shared services that answer
  outages, \* outages so far
  applied, \* the migrations the database has seen
  tables,  \* the tables it holds
  pc,      \* where each job is
  undone,  \* what the driver's rollback returned: "none", "yes", "no"
  before   \* history: the current image when the job set its own

clusterVars == <<revs, pods>>
serviceVars == <<up, outages>>
schemaVars == <<applied, tables>>
jobVars == <<pc, undone, before>>
deployVars == <<clusterVars, serviceVars, schemaVars, jobVars>>

Ended == {"ok", "failed", "crashed"}
Current == Last(revs)

Condition(i) ==
  [url |-> TRUE, model |-> i \notin Broken, loads |-> TRUE, pool |-> "none",
   shut |-> FALSE, database |-> "database" \in up, redis |-> "redis" \in up,
   kafka |-> "kafka" \in up, analytics |-> "running", alerts |-> "running"]
InService == {i \in pods : Ready(Condition(i))}
RolledOut == pods = {Current} /\ InService = {Current}

Revisions(files) == {f.rev : f \in files}
Added(files) == UNION {f.adds : f \in files}
Dropped(files) == UNION {f.drops : f \in files}
Tables(i) == Added(Files[i]) \ Dropped(Files[i])

DeployInit ==
  /\ revs = <<First>> /\ pods = {First}
  /\ up = Services /\ outages = 0
  /\ applied = Revisions(Files[First]) /\ tables = Tables(First)
  /\ pc = [j \in Jobs |-> "waiting"]
  /\ undone = [j \in Jobs |-> "none"]
  /\ before = [j \in Jobs |-> First]

JobStep(j, from, to) == pc[j] = from /\ pc' = [pc EXCEPT ![j] = to]
-----------------------------------------------------------------------------
(* The migrations. *)

Parents(files) == UNION {f.down : f \in files}
Heads(files) == Revisions(files) \ Parents(files)

\* Mutant of Valid: nobody looks for destructive upgrades.
Valid_Destructive(files) ==
  /\ \A f, g \in files : f.rev = g.rev => f = g
  /\ Parents(files) \subseteq Revisions(files)
  /\ Cardinality(Heads(files)) = 1

(* No identifier twice, no parent that is missing, one head, and nothing    *)
(* that drops a table on the way up.                                       *)
Valid(files) ==
  /\ \A f, g \in files : f.rev = g.rev => f = g
  /\ Parents(files) \subseteq Revisions(files)
  /\ Cardinality(Heads(files)) = 1
  /\ Dropped(files) = {}

Begin(j) ==
  /\ Serialized => \A k \in Jobs : pc[k] \in {"waiting"} \cup Ended
  /\ JobStep(j, "waiting", "validate")
  /\ UNCHANGED <<clusterVars, serviceVars, schemaVars, undone, before>>

Validate(j) ==
  /\ JobStep(j, "validate",
          IF Validated /\ ~Valid(Files[Image[j]]) THEN "failed" ELSE "migrate")
  /\ UNCHANGED <<clusterVars, serviceVars, schemaVars, undone, before>>

(* upgrade head fails without a database, without a single head, and on a   *)
(* database that has seen a migration the image does not know.             *)
CanMigrate(files) ==
  /\ "database" \in up /\ applied \subseteq Revisions(files)
  /\ Cardinality(Heads(files)) = 1

Migrate(j) ==
  LET files == Files[Image[j]]
      new == {f \in files : f.rev \notin applied}
  IN /\ IF CanMigrate(files)
        THEN /\ JobStep(j, "migrate", "set")
             /\ applied' = applied \cup Revisions(new)
             /\ tables' = (tables \cup Added(new)) \ Dropped(new)
        ELSE JobStep(j, "migrate", "failed") /\ UNCHANGED schemaVars
     /\ UNCHANGED <<clusterVars, serviceVars, undone, before>>

-----------------------------------------------------------------------------
(* The driver. *)

(* The cluster moves a revision it has already had to the end. *)
Others(i) ==
  IF i \in ToSet(revs) THEN RemoveAt(revs, CHOOSE k \in DOMAIN revs : revs[k] = i)
  ELSE revs
MakeCurrent(i) == revs' = Append(Others(i), i)

SetImage(j) ==
  /\ JobStep(j, "set", "status")
  /\ before' = [before EXCEPT ![j] = Current]
  /\ MakeCurrent(Image[j])
  /\ UNCHANGED <<pods, serviceVars, schemaVars, undone>>

(* Whatever the cluster refuses or answers too late fails the job.  Only    *)
(* setting the image is not followed by a rollback.                        *)
SetRefused(j) ==
  /\ JobStep(j, "set", "failed")
  /\ UNCHANGED <<clusterVars, serviceVars, schemaVars, undone, before>>

RolloutStatus(j) ==
  /\ \/ RolledOut /\ JobStep(j, "status", "smoke")
     \/ ~RolledOut /\ JobStep(j, "status", "undo")
  /\ UNCHANGED <<clusterVars, serviceVars, schemaVars, undone, before>>

(* kubectl itself hangs: the exception is not the one the driver handles,   *)
(* and it ends with a traceback where it was.                              *)
StatusHangs(j) ==
  /\ JobStep(j, "status", "crashed")
  /\ UNCHANGED <<clusterVars, serviceVars, schemaVars, undone, before>>

(* The test asks the service for /health, which any pod in service answers. *)
SmokeTest(j) ==
  /\ \/ InService # {} /\ JobStep(j, "smoke", "ok")
     \/ InService = {} /\ JobStep(j, "smoke", "undo")
  /\ UNCHANGED <<clusterVars, serviceVars, schemaVars, undone, before>>

(* undo goes back to the revision before the current one, whoever made it. *)
Undo(j) ==
  /\ Len(revs) > 1
  /\ JobStep(j, "undo", "undoing")
  /\ MakeCurrent(revs[Len(revs) - 1])
  /\ UNCHANGED <<pods, serviceVars, schemaVars, undone, before>>

UndoRefused(j) ==
  /\ JobStep(j, "undo", "failed")
  /\ undone' = [undone EXCEPT ![j] = "no"]
  /\ UNCHANGED <<clusterVars, serviceVars, schemaVars, before>>

\* Mutant of RollbackReturns: it is enough that the undo was accepted.
RollbackReturns_Accepted == "yes"

(* The rollback returns what the status of the undone rollout says. *)
RollbackReturns == IF RolledOut THEN "yes" ELSE "no"

UndoStatus(j) ==
  /\ JobStep(j, "undoing", "failed")
  /\ undone' = [undone EXCEPT ![j] = RollbackReturns]
  /\ UNCHANGED <<clusterVars, serviceVars, schemaVars, before>>

-----------------------------------------------------------------------------
(* The cluster and the shared services. *)

Surge ==
  /\ Current \notin pods
  /\ pods' = pods \cup {Current}
  /\ UNCHANGED <<revs, serviceVars, schemaVars, jobVars>>

Retire ==
  /\ Current \in InService /\ pods # {Current}
  /\ pods' = {Current}
  /\ UNCHANGED <<revs, serviceVars, schemaVars, jobVars>>

Outage(s) ==
  /\ s \in up /\ outages < MaxOutages
  /\ up' = up \ {s}
  /\ outages' = outages + 1
  /\ UNCHANGED <<clusterVars, schemaVars, jobVars>>

Recover(s) ==
  /\ s \notin up /\ up' = up \cup {s}
  /\ UNCHANGED <<clusterVars, outages, schemaVars, jobVars>>

Drive(j) ==
  \/ Begin(j) \/ Validate(j) \/ Migrate(j)
  \/ SetImage(j) \/ SetRefused(j) \/ RolloutStatus(j) \/ StatusHangs(j)
  \/ SmokeTest(j) \/ Undo(j) \/ UndoRefused(j) \/ UndoStatus(j)

DeployNext ==
  \/ \E j \in Jobs : Drive(j)
  \/ Surge \/ Retire
  \/ \E s \in Services : Outage(s) \/ Recover(s)

DeploySpec == DeployInit /\ [][DeployNext]_deployVars
-----------------------------------------------------------------------------
(* "Rolls back automatically when the rollout stalls or the post-deploy     *)
(* smoke test fails" (deploy.py:8): when a rollback has returned true, what *)
(* was current before the job is current again and the job's image serves   *)
(* nobody.  It needs the job to be alone, for the cluster undoes whatever   *)
(* revision is the last, and its image to be a new one: setting the image   *)
(* that is already current makes no revision, and the undo then takes back  *)
(* a release that was good.                                                *)
FailedDeployIsUndone ==
  [][\A j \in Jobs :
       undone'[j] = "yes" /\ undone[j] # "yes" /\ before[j] # Image[j]
         => Current' = before[j] /\ Image[j] \notin InService']_deployVars

(* Every pod finds the tables its image uses, while the old image and the   *)
(* new one run side by side and after a rollback, which does not take the   *)
(* migrations back: that is what the check for destructive upgrades is for  *)
(* (check_migrations.py:3).                                                *)
PodsFindTheirTables == \A i \in pods : Tables(i) \subseteq tables
=============================================================================
