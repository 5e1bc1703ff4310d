--------------------------- MODULE SiteDeployment ---------------------------
(***************************************************************************)
(* The deployment of the public evaluation bundle to the site's bucket     *)
(* (.github/workflows/publish-site.yml, steps Publish and Prune, with      *)
(* scripts/lib/evaluation-bundle-deployment.mjs): immutable bundle         *)
(* directories, two mutable markers that move last, one after the other,   *)
(* the rollback copies of both, and the retention that prunes what nothing *)
(* may need any more.  The workflow's concurrency group runs one           *)
(* deployment at a time; each may be interrupted between two requests and  *)
(* is then dispatched again, with the same bundle or another.  The live    *)
(* markers are read over HTTPS with every error discarded: a read that     *)
(* fails looks as if nothing had been live.  An operator may roll both     *)
(* markers back between deployments.  Readers resolve the pointer and      *)
(* fetch the parts while all this goes on.                                 *)
(*                                                                         *)
(* The HTML, the ledger and the support artifacts are left out: they are   *)
(* neither named by a marker nor pruned.  An operator commented "Slip" is  *)
(* a plausible mistake in the operator after it, used by no specification. *)
(***************************************************************************)
EXTENDS Naturals, FiniteSets

CONSTANTS
    Bundles,      \* the bundles ever deployed: content-addressed directories
    Parts,        \* the files of a bundle
    MaxFailures,  \* bound: interruptions and failed reads of the live markers
    NoBundle      \* no pointer, index or rollback copy

ASSUME DeployAssumption ==
    /\ NoBundle \notin Bundles
    /\ Parts # {}
    /\ MaxFailures \in Nat

VARIABLES
    bucket,      \* per bundle, the parts that are stored
    pointer,     \* the bundle that evaluation-bundle-v1.json names
    index,       \* the bundle that evaluation-domains-v2.json commits to
    rollback,    \* the copies of both under results/rollback
    job,         \* where the deployment is
    publishing,  \* the bundle it deploys
    previous,    \* the markers it read as live when it started
    replaced,    \* the bundle that was live then, which an edge may still serve
    doomed,      \* what the retention plan prunes
    failures,
    broken,      \* history: bundles a rollback put back incomplete
    held,        \* the bundle a reader has resolved the pointer to
    age          \* 1 once a deployment or rollback has begun since

markers == <<pointer, index>>
deployment == <<publishing, previous, replaced>>
plan == <<deployment, doomed>>
reader == <<held, age>>
deployVars == <<bucket, pointer, index, rollback, job, plan, failures, broken, reader>>

Named == Bundles \cup {NoBundle}
Marks == [pointer : Named, index : Named]
Jobs == {"idle", "upload", "copyPointer", "copyIndex", "movePointer", "moveIndex",
         "retain", "prune", "rollback"}

DeployTypeOK ==
    /\ bucket \in [Bundles -> SUBSET Parts]
    /\ pointer \in Named
    /\ index \in Named
    /\ rollback \in Marks
    /\ job \in Jobs
    /\ publishing \in Named
    /\ previous \in Marks
    /\ replaced \in Named
    /\ doomed \subseteq Bundles
    /\ failures \in 0..MaxFailures
    /\ broken \subseteq Bundles
    /\ held \in Named
    /\ age \in 0..1

NoMarks == [pointer |-> NoBundle, index |-> NoBundle]

DeployInit ==
    /\ bucket = [b \in Bundles |-> {}]
    /\ pointer = NoBundle
    /\ index = NoBundle
    /\ rollback = NoMarks
    /\ job = "idle"
    /\ publishing = NoBundle
    /\ previous = NoMarks
    /\ replaced = NoBundle
    /\ doomed = {}
    /\ failures = 0
    /\ broken = {}
    /\ held = NoBundle
    /\ age = 0

Whole(b) == bucket[b] = Parts
Stored == {b \in Bundles : bucket[b] # {}}

(* Readers grow older when a deployment or a rollback begins; one that a   *)
(* second overtakes has been promised nothing and is forgotten.            *)
Older ==
    /\ held' = IF age = 0 THEN held ELSE NoBundle
    /\ age' = IF held' = NoBundle THEN 0 ELSE 1

-----------------------------------------------------------------------------
LiveMarks ==
    IF pointer # NoBundle /\ index # NoBundle
      THEN [pointer |-> pointer, index |-> index]
      ELSE NoMarks

(* The live markers are read before anything changes, both or neither.     *)
ReadMarkers == previous' = LiveMarks /\ UNCHANGED failures

(* The two curls are the condition of an if: a timeout or a server error   *)
(* leaves previous_id empty, and the deployment goes on.                   *)
ReadFails ==
    /\ failures < MaxFailures
    /\ failures' = failures + 1
    /\ previous' = NoMarks

Dispatch ==
    /\ job = "idle"
    /\ \E b \in Bundles : publishing' = b
    /\ ReadMarkers \/ ReadFails
    /\ replaced' = pointer
    /\ job' = "upload"
    /\ Older
    /\ UNCHANGED <<bucket, markers, rollback, doomed, broken>>

UploadPart ==
    /\ job = "upload"
    /\ \E part \in Parts \ bucket[publishing] :
          bucket' = [bucket EXCEPT ![publishing] = @ \cup {part}]
    /\ UNCHANGED <<markers, rollback, job, plan, failures, broken, reader>>

(* A re-run of the live bundle never overwrites the rollback target.       *)
AfterListing ==
    IF previous.pointer \notin {NoBundle, publishing} THEN "copyPointer" ELSE "movePointer"

(* listingProblems: every file of the validated bundle is in the bucket.   *)
VerifyListing ==
    /\ job = "upload"
    /\ Whole(publishing)
    /\ job' = AfterListing
    /\ broken' = broken \ {publishing}
    /\ UNCHANGED <<bucket, markers, rollback, plan, failures, reader>>

CopyPointer ==
    /\ job = "copyPointer"
    /\ rollback' = [rollback EXCEPT !.pointer = previous.pointer]
    /\ job' = "copyIndex"
    /\ UNCHANGED <<bucket, markers, plan, failures, broken, reader>>

CopyIndex ==
    /\ job = "copyIndex"
    /\ rollback' = [rollback EXCEPT !.index = previous.index]
    /\ job' = "movePointer"
    /\ UNCHANGED <<bucket, markers, plan, failures, broken, reader>>

(* Slip: a bundle that is already live needs no further marker. *)
MovePointerOnce ==
    /\ job = "movePointer"
    /\ pointer' = publishing
    /\ job' = IF pointer = publishing THEN "retain" ELSE "moveIndex"
    /\ UNCHANGED <<bucket, index, rollback, plan, failures, broken, reader>>

MovePointer ==
    /\ job = "movePointer"
    /\ pointer' = publishing
    /\ job' = "moveIndex"
    /\ UNCHANGED <<bucket, index, rollback, plan, failures, broken, reader>>

MoveIndex ==
    /\ job = "moveIndex"
    /\ index' = publishing
    /\ job' = "retain"
    /\ UNCHANGED <<bucket, pointer, rollback, plan, failures, broken, reader>>

(* Slip: the plan keeps the published bundle and what is live. *)
PlanRetentionWithoutPrevious ==
    /\ job = "retain"
    /\ doomed' = Stored \ {publishing, pointer}
    /\ job' = "prune"
    /\ UNCHANGED <<bucket, markers, rollback, deployment, failures, broken, reader>>

(* retentionPlan: keep the published bundle, the previous one and the live *)
(* one.  The live pointer is read over HTTPS, where a cache may still      *)
(* serve the one that was replaced; here a failed read ends the job.       *)
PlanRetention ==
    /\ job = "retain"
    /\ publishing \in Stored
    /\ \E live \in {pointer, replaced} \ {NoBundle} :
          /\ live \in Stored \cup {previous.pointer}
          /\ doomed' = Stored \ {publishing, previous.pointer, live}
    /\ job' = "prune"
    /\ UNCHANGED <<bucket, markers, rollback, deployment, failures, broken, reader>>

(* aws s3 rm --recursive deletes one object after the other.               *)
PrunePart ==
    /\ job = "prune"
    /\ \E b \in doomed : \E part \in bucket[b] :
          bucket' = [bucket EXCEPT ![b] = @ \ {part}]
    /\ UNCHANGED <<markers, rollback, job, plan, failures, broken, reader>>

EndDeployment ==
    /\ job = "prune"
    /\ \A b \in doomed : bucket[b] = {}
    /\ job' = "idle"
    /\ doomed' = {}
    /\ UNCHANGED <<bucket, markers, rollback, deployment, failures, broken, reader>>

(* A step of the job fails or its runner is lost: nothing is undone, and   *)
(* its plan is lost.                                                       *)
JobInterrupted ==
    /\ job # "idle"
    /\ failures < MaxFailures
    /\ failures' = failures + 1
    /\ job' = "idle"
    /\ doomed' = {}
    /\ UNCHANGED <<bucket, markers, rollback, deployment, broken, reader>>

(* A rollback puts a bundle back without looking at its parts.             *)
PutBack(b) == broken' = IF Whole(b) THEN broken \ {b} ELSE broken \cup {b}

(* The operator's rollback between deployments: the pointer first, the     *)
(* index last, each from its saved copy.  The parts are verified only      *)
(* afterwards, which changes nothing here.                                 *)
RollBackPointer ==
    /\ job = "idle"
    /\ rollback.pointer # NoBundle
    /\ pointer' = rollback.pointer
    /\ PutBack(rollback.pointer)
    /\ job' = "rollback"
    /\ Older
    /\ UNCHANGED <<bucket, index, rollback, plan, failures>>

(* The second copy is missing when the deployment that took them stopped   *)
(* in between; the command then fails and leaves the index.                *)
RollBackIndex ==
    /\ job = "rollback"
    /\ IF rollback.index = NoBundle
         THEN UNCHANGED <<index, broken>>
         ELSE index' = rollback.index /\ PutBack(rollback.index)
    /\ job' = "idle"
    /\ UNCHANGED <<bucket, pointer, rollback, plan, failures, reader>>

(* A reader resolves the pointer, refuses it when the index commits to     *)
(* another manifest, and from then on fetches the parts of the bundle.     *)
ResolvePointer ==
    /\ pointer # NoBundle
    /\ index = pointer
    /\ held' = pointer
    /\ age' = IF job = "idle" THEN 0 ELSE 1
    /\ UNCHANGED <<bucket, markers, rollback, job, plan, failures, broken>>

JobStep ==
    \/ UploadPart \/ VerifyListing \/ CopyPointer \/ CopyIndex
    \/ MovePointer \/ MoveIndex \/ PlanRetention \/ PrunePart \/ EndDeployment

DeployNext ==
    \/ Dispatch \/ JobStep \/ JobInterrupted
    \/ RollBackPointer \/ RollBackIndex \/ ResolvePointer

DeploySpec == DeployInit /\ [][DeployNext]_deployVars

(* Steps of a job follow each other unless it is interrupted.  An          *)
(* interrupted publication is dispatched again, however often rollbacks    *)
(* come in between ("recover by finishing the publish (re-dispatch) or     *)
(* rolling back").                                                         *)
DeployFairness ==
    /\ WF_deployVars(JobStep \/ RollBackIndex)
    /\ SF_deployVars(Dispatch)

-----------------------------------------------------------------------------
(* "Immutable content first, mutable markers last": whatever is            *)
(* interrupted and dispatched again, rolled back or pruned, what a marker  *)
(* names is in the bucket with every part; except for a bundle that a      *)
(* rollback put back with parts missing, which it does not look at.        *)
PublishedIsWhole ==
    \A b \in {pointer, index} \ ({NoBundle} \cup broken) : Whole(b)

(* "It names the bundle that stays reachable for readers mid-deployment"   *)
(* (publish-site.yml:566-567): a reader that resolved the pointer before   *)
(* or during a deployment finds every part until the next deployment or    *)
(* rollback begins.  Of this code it is true only where the read of the    *)
(* live markers succeeds (LiveStaysUnlessUnread).                          *)
LiveStaysReachable ==
    held \notin {NoBundle} \cup broken => Whole(held)

(* What was live and a deployment neither publishes nor read as previous:  *)
(* its read of the live markers failed.                                    *)
Overlooked == {replaced} \ {publishing, previous.pointer}

(* LiveStaysReachable as far as it is true: for every reader but those of  *)
(* a bundle that a deployment overlooked, which retention may prune under  *)
(* them.                                                                   *)
ReaderFindsParts ==
    held \notin {NoBundle} \cup broken \cup Overlooked => Whole(held)

(* Nobody follows a name to a part that is not there, but for a bundle a   *)
(* rollback put back incomplete and one that a deployment overlooked.      *)
NothingIsMissing == PublishedIsWhole /\ ReaderFindsParts

(* "The previous bundle's directory is retained by the rule above, so      *)
(* every part is present" (docs/specs/evaluation-bundle-deployment.md:49): *)
(* once the markers agree, the rollback target is whole, and the operator  *)
(* copies the markers back without looking.                                *)
RollbackRetained ==
    (job = "idle" /\ pointer = index /\ rollback.pointer # NoBundle)
        => Whole(rollback.pointer)

(* Pointer and index that disagree, which readers refuse, agree again.     *)
MarkersAgree == pointer # index ~> pointer = index
=============================================================================
