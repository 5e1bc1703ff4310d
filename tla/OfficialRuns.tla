---------------------------- MODULE OfficialRuns ----------------------------
(***************************************************************************)
(* The official runs of the population that is measured in two stages, and *)
(* what becomes of them: the workflow (official-runs.yml) with its driver  *)
(* (run-official-credential-eval.ts), the retry that takes finished stages *)
(* from an earlier run, the registry of recorded runs, its repins, the     *)
(* archive and the qualification view.                                     *)
(*                                                                         *)
(* One workflow run works at a time (its concurrency group), on the pins   *)
(* of the commit it was dispatched on; it may fail or be cancelled between *)
(* any two steps, its runner may be lost, and what it uploaded may expire  *)
(* or not download.  An artifact is known by the run that measured it and  *)
(* by its identity.  `engine` stands for all that a receipt is compared    *)
(* with and the registry pins (revision, platform, methods selection,      *)
(* evaluation evidence), `optional` for the scanner selection, and         *)
(* `steady` says that measuring it again gives the same semantic digest,   *)
(* which only a second measurement can tell.                               *)
(*                                                                         *)
(* An operator commented "Slip" is a plausible mistake in the operator     *)
(* after it, used by no specification.                                     *)
(***************************************************************************)
EXTENDS Naturals, Sequences

CONSTANTS
    EnginePins,        \* engine revisions
    EvidencePins,      \* evidence releases
    MaxOfficialRuns,   \* bound: runs dispatched
    MaxRepins,         \* bound: commits that move a pin
    NoOutput            \* no artifact, no file, no upload

VARIABLES
    pins,              \* the registry's pins at the head of the branch
    repins,            \* how often they were moved
    runNumber,         \* the last run that was dispatched
    want,              \* what that run measures
    offered,           \* per stage, the directories of the retried run
    tried,             \* how many of them the driver has rejected
    measuring,         \* the stage the run is at
    progress,          \* where the run is
    kept,              \* artifact-1.json, measured or taken over
    workspace,         \* per stage, the run's output directory
    uploads,           \* per run, the artifacts it uploaded
    recordedRuns,      \* runs[] of the registry
    historicalRuns,    \* historicalRuns[] of the registry
    archive,           \* the release asset with the recorded artifacts
    view               \* the qualification view built last

officialVars == <<pins, repins, runNumber, want, offered, tried, measuring, progress,
                  kept, workspace, uploads, recordedRuns, historicalRuns, archive, view>>
jobVars == <<runNumber, want, offered, tried, measuring, progress, kept, workspace>>
registryVars == <<pins, repins, recordedRuns, historicalRuns, archive>>

Stages == {"plain", "methods"}
Pins == [engine : EnginePins, evidence : EvidencePins]
Wants == [engine : EnginePins, evidence : EvidencePins, optional : BOOLEAN]
WorkflowRuns == 1..MaxOfficialRuns
RunArtifacts == [run : WorkflowRuns, stage : Stages, engine : EnginePins,
                 evidence : EvidencePins, optional : BOOLEAN, steady : BOOLEAN]

ASSUME OfficialAssumption ==
    /\ EnginePins # {} /\ EvidencePins # {}
    /\ MaxOfficialRuns \in Nat /\ MaxRepins \in Nat
    /\ NoOutput \notin RunArtifacts \cup Wants

Perhaps(S) == S \cup {NoOutput}
Artifact(a) == a # NoOutput

(* artifact.json, the run record, the stage receipt and the marker of an   *)
(* incomplete stage.  Record and receipt are known by the artifact whose   *)
(* digest they hold.                                                       *)
StageDirs == [artifact : Perhaps(RunArtifacts), record : Perhaps(RunArtifacts),
              receipt : Perhaps(RunArtifacts), marker : BOOLEAN]
EmptyDir == [artifact |-> NoOutput, record |-> NoOutput, receipt |-> NoOutput, marker |-> FALSE]
EmptyDirs == [s \in Stages |-> EmptyDir]

(* stage-plain-* and stage-methods-*, and official-run-*, with both. *)
Upload == [staged : [Stages -> StageDirs], final : [Stages -> StageDirs]]
NoUpload == [staged |-> EmptyDirs, final |-> EmptyDirs]
NoArtifacts == [s \in Stages |-> NoOutput]

Progress == {"idle", "trying", "kept", "marked", "verified", "copied", "recorded",
             "complete", "receipted", "finished", "failed", "viewing"}
OfficialTypeOK ==
    /\ pins \in Pins /\ repins \in 0..MaxRepins
    /\ runNumber \in 0..MaxOfficialRuns /\ want \in Perhaps(Wants)
    /\ offered \in [Stages -> Seq(StageDirs)] /\ tried \in Nat
    /\ measuring \in Stages /\ progress \in Progress
    /\ kept \in Perhaps(RunArtifacts)
    /\ workspace \in [Stages -> StageDirs]
    /\ uploads \in [WorkflowRuns -> Upload]
    /\ recordedRuns \in [Stages -> Perhaps(RunArtifacts)]
    /\ historicalRuns \subseteq RunArtifacts
    /\ archive \in [Stages -> Perhaps(RunArtifacts)]
    /\ view \in [Stages -> Perhaps(RunArtifacts)]

(* Between two runs there is no runner and no directory.                   *)
NoJob ==
    /\ progress = "idle" /\ measuring = "plain" /\ tried = 0
    /\ want = NoOutput /\ kept = NoOutput
    /\ offered = [s \in Stages |-> <<>>]
    /\ workspace = EmptyDirs

EndJob ==
    /\ progress' = "idle" /\ measuring' = "plain" /\ tried' = 0
    /\ want' = NoOutput /\ kept' = NoOutput
    /\ offered' = [s \in Stages |-> <<>>]
    /\ workspace' = EmptyDirs

(* It makes no difference which pins are the first.                        *)
OfficialInit ==
    /\ pins = CHOOSE p \in Pins : TRUE
    /\ repins = 0 /\ runNumber = 0 /\ NoJob
    /\ uploads = [r \in WorkflowRuns |-> NoUpload]
    /\ recordedRuns = NoArtifacts /\ historicalRuns = {}
    /\ archive = NoArtifacts /\ view = NoArtifacts

-----------------------------------------------------------------------------
(* A run is dispatched, to measure the optional scanner too or not, and as *)
(* a retry of an earlier run or not.  Of that run's artifacts the ones     *)
(* that exist and download are offered, the stage's own before the final.  *)
Downloaded(d, available) == IF available /\ d # EmptyDir THEN <<d>> ELSE <<>>
OfferedBy(q, s, got) ==
    Downloaded(uploads[q].staged[s], s \in got) \o Downloaded(uploads[q].final[s], "final" \in got)

DispatchRun(optional) ==
    /\ progress = "idle" /\ runNumber < MaxOfficialRuns
    /\ runNumber' = runNumber + 1
    /\ want' = [engine |-> pins.engine, evidence |-> pins.evidence, optional |-> optional]
    /\ \/ offered' = [s \in Stages |-> <<>>]
       \/ \E q \in 1..runNumber, got \in SUBSET (Stages \cup {"final"}) :
             offered' = [s \in Stages |-> OfferedBy(q, s, got)]
    /\ tried' = 0 /\ measuring' = "plain" /\ progress' = "trying"
    /\ kept' = NoOutput /\ workspace' = EmptyDirs
    /\ UNCHANGED <<registryVars, uploads, view>>

-----------------------------------------------------------------------------
(* receiptProblems and stageReceiptProblems: neither looks at the evidence *)
(* that was measured.                                                      *)
Identical(a, s) ==
    /\ a.stage = s
    /\ a.engine = want.engine
    /\ a.optional = want.optional

Usable(d, s) ==
    /\ ~d.marker
    /\ Artifact(d.artifact) /\ d.record = d.artifact
    /\ Identical(d.record, s)
    /\ Artifact(d.receipt) => d.receipt = d.artifact

Untried == tried < Len(offered[measuring])

RejectSource ==
    /\ progress = "trying" /\ Untried
    /\ ~Usable(offered[measuring][tried + 1], measuring)
    /\ tried' = tried + 1
    /\ UNCHANGED <<registryVars, runNumber, want, offered, measuring, progress, kept,
                   workspace, uploads, view>>

ReuseStage ==
    /\ progress = "trying" /\ Untried
    /\ Usable(offered[measuring][tried + 1], measuring)
    /\ kept' = offered[measuring][tried + 1].artifact
    /\ progress' = "kept"
    /\ UNCHANGED <<registryVars, runNumber, want, offered, tried, measuring, workspace,
                   uploads, view>>

(* The engine runs twice.                                                  *)
MeasureStage ==
    /\ progress = "trying" /\ ~Untried
    /\ \E steady \in BOOLEAN :
          kept' = [run |-> runNumber, stage |-> measuring, engine |-> want.engine,
                   evidence |-> want.evidence, optional |-> want.optional, steady |-> steady]
    /\ progress' = "kept"
    /\ UNCHANGED <<registryVars, runNumber, want, offered, tried, measuring, workspace,
                   uploads, view>>

-----------------------------------------------------------------------------
(* The steps of a stage that change its output directory.                  *)
Here == workspace[measuring]

Write(from, to, directory) ==
    /\ progress = from /\ progress' = to
    /\ workspace' = [workspace EXCEPT ![measuring] = directory]
    /\ UNCHANGED <<registryVars, runNumber, want, offered, tried, measuring, kept, uploads, view>>

MarkIncomplete == Write("kept", "marked", [Here EXCEPT !.marker = TRUE])

(* bindingProblems, and the scanners that the engine measured.             *)
Binds(a, w) == a.engine = w.engine /\ a.evidence = w.evidence

(* Slip: what was taken over is not bound to the pins of the run. *)
AcceptedIfMeasured == kept.run = runNumber => Binds(kept, want)

Accepted == Binds(kept, want) /\ kept.optional = want.optional

(* Slip: the digests of the two measurements are not compared. *)
VerifyOne ==
    /\ progress = "marked"
    /\ progress' = IF Accepted THEN "verified" ELSE "failed"
    /\ UNCHANGED <<registryVars, runNumber, want, offered, tried, measuring, kept, workspace,
                   uploads, view>>

(* An artifact that was taken over is the only one there is.               *)
VerifyStage ==
    /\ progress = "marked"
    /\ progress' = IF Accepted /\ (kept.run = runNumber => kept.steady)
                     THEN "verified" ELSE "failed"
    /\ UNCHANGED <<registryVars, runNumber, want, offered, tried, measuring, kept, workspace,
                   uploads, view>>

CopyArtifact == Write("verified", "copied", [Here EXCEPT !.artifact = kept])

WriteRunRecord == Write("copied", "recorded", [Here EXCEPT !.record = kept])

(* Slip: the marker stays when the stage verifies. *)
KeepMarker == Write("recorded", "complete", [Here EXCEPT !.marker = TRUE])

RemoveMarker == Write("recorded", "complete", [Here EXCEPT !.marker = FALSE])

WriteStageReceipt == Write("complete", "receipted", [Here EXCEPT !.receipt = Here.record])

UploadStage ==
    /\ progress = "receipted"
    /\ uploads' = [uploads EXCEPT ![runNumber].staged[measuring] = workspace[measuring]]
    /\ IF measuring = "plain"
         THEN progress' = "trying" /\ measuring' = "methods" /\ tried' = 0 /\ kept' = NoOutput
         ELSE progress' = "finished" /\ UNCHANGED <<measuring, tried, kept>>
    /\ UNCHANGED <<registryVars, runNumber, want, offered, workspace, view>>

(* A step fails, or the job is cancelled or out of time.                   *)
FailRun ==
    /\ progress \notin {"idle", "viewing", "failed"}
    /\ progress' = "failed"
    /\ UNCHANGED <<registryVars, runNumber, want, offered, tried, measuring, kept, workspace,
                   uploads, view>>

(* always(): the output directory is uploaded, finished or not.            *)
UploadFinal ==
    /\ progress \in {"finished", "failed"}
    /\ uploads' = [uploads EXCEPT ![runNumber].final = workspace]
    /\ IF progress = "finished"
         THEN progress' = "viewing" /\ UNCHANGED <<want, offered, tried, measuring, kept, workspace>>
         ELSE EndJob
    /\ UNCHANGED <<registryVars, runNumber, view>>

LoseRunner ==
    /\ progress # "idle"
    /\ EndJob
    /\ UNCHANGED <<registryVars, runNumber, uploads, view>>

-----------------------------------------------------------------------------
(* buildQualificationView reads artifact.json of both stages and nothing   *)
(* beside it.  Both must be there in the workflow, which derives inputs    *)
(* from the methods artifact.                                              *)
ViewAccepts(artifacts, w) ==
    /\ Artifact(artifacts["plain"]) /\ Binds(artifacts["plain"], w)
    /\ Artifact(artifacts["methods"]) =>
          /\ Binds(artifacts["methods"], w)
          /\ artifacts["methods"].optional = artifacts["plain"].optional

FinalArtifacts(q) == [s \in Stages |-> uploads[q].final[s].artifact]

BuildView(q, w) ==
    /\ Artifact(FinalArtifacts(q)["methods"]) /\ ViewAccepts(FinalArtifacts(q), w)
    /\ view' = FinalArtifacts(q)

ViewOfRun ==
    /\ progress = "viewing" /\ BuildView(runNumber, want)
    /\ EndJob
    /\ UNCHANGED <<registryVars, runNumber, uploads>>

(* reuse_run_id: the job alone, on the artifacts of any run, which may be  *)
(* one that failed.                                                        *)
ViewOfEarlierRun ==
    /\ progress = "idle"
    /\ \E q \in 1..runNumber : BuildView(q, pins)
    /\ UNCHANGED <<registryVars, jobVars, uploads>>

-----------------------------------------------------------------------------
(* officialRunProblems.                                                    *)
RegistryFits(p, recorded, historical) ==
    /\ \A s \in Stages : Artifact(recorded[s]) => Binds(recorded[s], p)
    /\ \A a \in historical : a.evidence # p.evidence
    /\ \A a, b \in historical : a # b => a.stage # b.stage \/ a.evidence # b.evidence

RecordRun(q, s) ==
    LET a == uploads[q].final[s].record
    IN  /\ progress = "idle" /\ Artifact(a)
        /\ recordedRuns' = [recordedRuns EXCEPT ![s] = a]
        /\ RegistryFits(pins, recordedRuns', historicalRuns)
        /\ UNCHANGED <<pins, repins, historicalRuns, archive, jobVars, uploads, view>>

Recorded == {recordedRuns[s] : s \in Stages} \ {NoOutput}

(* repinPopulation: the recorded runs become receipts of the earlier pin.  *)
RepinEvidence(e) ==
    /\ progress = "idle"
    /\ repins < MaxRepins /\ repins' = repins + 1
    /\ e # pins.evidence /\ pins' = [pins EXCEPT !.evidence = e]
    /\ recordedRuns' = NoArtifacts
    /\ historicalRuns' = historicalRuns \cup Recorded
    /\ RegistryFits(pins', recordedRuns', historicalRuns')
    /\ UNCHANGED <<archive, jobVars, uploads, view>>

(* A commit that moves the engine has to drop the runs on the earlier one. *)
RepinEngine(g) ==
    /\ progress = "idle"
    /\ repins < MaxRepins /\ repins' = repins + 1
    /\ g # pins.engine /\ pins' = [pins EXCEPT !.engine = g]
    /\ recordedRuns' = NoArtifacts
    /\ UNCHANGED <<historicalRuns, archive, jobVars, uploads, view>>

(* expectedFiles and verifyDirectory: exactly the recorded bytes.          *)
IsRecorded(artifacts) == Recorded # {} /\ artifacts = recordedRuns

PackArchive(q) ==
    /\ progress = "idle"
    /\ IsRecorded(FinalArtifacts(q))
    /\ archive' = FinalArtifacts(q)
    /\ UNCHANGED <<pins, repins, recordedRuns, historicalRuns, jobVars, uploads, view>>

(* The publish build fetches the archive and builds the view from it.      *)
PublishArchive ==
    /\ progress = "idle"
    /\ IsRecorded(archive) /\ ViewAccepts(archive, pins)
    /\ view' = archive
    /\ UNCHANGED <<registryVars, jobVars, uploads>>

RunStep ==
    \/ RejectSource \/ ReuseStage \/ MeasureStage \/ MarkIncomplete \/ VerifyStage
    \/ CopyArtifact \/ WriteRunRecord \/ RemoveMarker \/ WriteStageReceipt \/ UploadStage
    \/ UploadFinal \/ ViewOfRun

OfficialNext ==
    \/ \E optional \in BOOLEAN : DispatchRun(optional)
    \/ RunStep \/ FailRun \/ LoseRunner \/ ViewOfEarlierRun \/ PublishArchive
    \/ \E q \in 1..runNumber : PackArchive(q) \/ \E s \in Stages : RecordRun(q, s)
    \/ \E e \in EvidencePins : RepinEvidence(e)
    \/ \E g \in EnginePins : RepinEngine(g)

OfficialSpec == OfficialInit /\ [][OfficialNext]_officialVars

-----------------------------------------------------------------------------
ArtifactsOf(dirs) == (UNION {{dirs[s].artifact, dirs[s].record} : s \in Stages}) \ {NoOutput}
ArtifactsIn(pair) == {pair[s] : s \in Stages} \ {NoOutput}

(* "An official artifact needs a determinism check": whatever carries the  *)
(* name artifact.json, and whatever is recorded, kept or shown, was        *)
(* measured twice with one result, by the run at hand or by one that it    *)
(* was taken over from, however many retries ago, also when the run failed *)
(* later and its leftovers are used.                                       *)
Verified(a) == a.steady
VerifiedOnly ==
    /\ \A a \in ArtifactsOf(workspace) : Verified(a)
    /\ \A q \in WorkflowRuns : \A a \in ArtifactsOf(uploads[q].staged) \cup ArtifactsOf(uploads[q].final) : Verified(a)
    /\ \A a \in Recorded \cup historicalRuns \cup ArtifactsIn(archive) \cup ArtifactsIn(view) : Verified(a)

(* "Identities are never mixed": the two stages of a run, of the archive   *)
(* and of a view measured the same scanners of the same engine on the same *)
(* evidence.                                                               *)
SameIdentity(a, b) == a.engine = b.engine /\ a.evidence = b.evidence /\ a.optional = b.optional
OneIdentity(pair) == \A a, b \in ArtifactsIn(pair) : SameIdentity(a, b)
NeverMixed ==
    /\ OneIdentity(archive) /\ OneIdentity(view)
    /\ \A q \in WorkflowRuns : OneIdentity(FinalArtifacts(q))

OfficialRunsAreSound == VerifiedOnly /\ NeverMixed

(* "A retry of a failed run reuses a receipt instead of repeating the      *)
(* engine runs" (receipt-reuse.ts:6-7): when a directory that was offered  *)
(* has the stage receipt of what the run measures, on the evidence that    *)
(* the run pins, the artifact is taken from an offered one.  The equal     *)
(* evidence is a condition of this property and not of the code: Identical *)
(* takes a stage over after a repin of the evidence too, and Binds then    *)
(* refuses it, where receipt-reuse.ts:8-9 says that it is measured fresh.  *)
HasFinished(d, s) ==
    Artifact(d.receipt) /\ Identical(d.receipt, s) /\ d.receipt.evidence = want.evidence
Offers(a) == \E i \in DOMAIN offered[measuring] : offered[measuring][i].artifact = a
FinishedIsNotRepeated ==
    [][\A i \in DOMAIN offered[measuring] :
          /\ kept = NoOutput /\ kept' # NoOutput
          /\ HasFinished(offered[measuring][i], measuring)
          => Offers(kept')]_officialVars
=============================================================================
