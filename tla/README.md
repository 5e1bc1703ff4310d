# Verification of redact-secret-benchmarks

TLA+ models of the parts of this repository that keep a promise across
processes, crashes and files, or whose arithmetic decides what is published;
TLC configurations that check them on small instances; and TLAPS proofs for
every value of their constants.

`PROJECT.json` lists the components, the runs with their properties, the
mutants that each property catches, the source lines of every definition, the
findings, the hazards and the theorems. Paths below are relative to the
repository.

    tlc -workers 2 -config MCHoldout.cfg Holdout       # a run
    tlapm HoldoutProofs.tla                            # a proof module

## 1. Inventory

The repository measures secret and PII scanners on fixtures with authored
ground truth. Most of it is sequential: a driver reads fixtures, runs scanners,
scores and writes reports. What is hard sits around that pipeline: lifecycles
that must spend a scarce resource (a protected corpus, a blind epoch) at most so
often whatever crashes, publications of several files that must appear together,
records that must stay true of what was once measured, and scoring rules that
must not reward a scanner for saying less.

### Protected holdout lifecycle (`holdout/`, `benchmarks/holdout.ts`)

*State*: in `holdout/generated/<corpus hash>/`, `corpus.json`, `state.json`
(status and the list of reserved runs), `.lock`, `plan-<id>.json` and
`aggregate-<id>.json`; next to it the manifest with its budget `maxRuns`.
*Operations*: `seal`, `run`, `contaminate`; for PII a whole input is sealed
family by family (`domains/pii/beta11-protected.ts`).
*Interaction*: every command works on the same directory; `run` calls a domain
adapter, which runs the scanners and measures the candidate a second time.
*Hard*: concurrent commands, a crash after the reservation, a stale lock and its
removal by hand, a candidate upgraded during a scan, seals that overlap or stop
between two families.
*Correct when*: the lock excludes; the budget is never exceeded; whoever opened
the corpus is on record; a reservation is never lost; a contaminated corpus is
never opened again; a complete report was measured with the frozen candidate; a
manifest names a complete store, and a seal record all families of its input.

### Blind evaluation (`benchmarks/blind/`, `benchmarks/blind.ts`)

*State*: a private root outside the repository with `fixtures.json`,
`freeze.json`, `ledger.json`, `.lock`, `runs/<id>/` and a scratch directory.
*Operations*: `freeze` (check epoch, candidate and ledger, write a freeze),
`run` (check everything again, lock, reserve, consume the freeze, scan, check
the candidate again, release the aggregate, record the status), and the
reduction of the observations to that aggregate.
*Interaction*: a freeze authorises one run; both rely on the ledger; people edit
the fixtures and rebuild the candidate in between.
*Hard*: the ledger is read before the lock and written back under it; `freeze`
takes no lock; a crash between any two files; a rebuild during a scan; small
strata that could be recovered by subtraction.
*Correct when*: one attempt per candidate and epoch; one corpus per epoch label
and one label per set of fixtures; the ledger only grows and never calls a run
complete without a complete release; no freeze is spent twice; a stratum that is
suppressed cannot be recovered from what is released.

### Scoring and evaluation (`benchmarks/scoring/`, `benchmarks/evaluation/substrate/`)

*State*: none beyond one evaluation; a row is a function of expected spans and
reported findings, and an evaluation collects the findings of its scanners over
a scratch tree.
*Operations*: run every scanner, replay it, keep what the replays agree on;
deduplicate, classify every secret span on the lattice EXACT > COVERED >
OVERBROAD > PARTIAL > MISS, count leaked and collateral bytes, flag controls and
twins, and total groups of rows.
*Hard*: a scanner that fails or disagrees half way; adjacent, nested and
overlapping ranges; coverage judged by single findings and exposure by their
union; several findings on one range.
*Correct when*: nothing of an unstable or failed scanner is kept and nobody is
lost; the sweeps count every byte once; another finding never makes an outcome
worse or a cost smaller; what does not count as leaked is covered; no finding on
a control disappears.

### Evidence adoption (`scripts/lib/pii-evidence-adoption*.mjs`)

*State*: the active PII evidence, nineteen files (comparison files,
`adoption.json`, history, pins and preflight report), a lock directory and a
transaction directory with staged bytes and backups.
*Operations*: prepare a review package, apply it, check the active files, and
the operator's recovery of an interrupted transaction.
*Interaction*: packages are made by one process and applied by another, later;
gates read the active files without the lock.
*Hard*: the files are replaced one at a time; a replacement, the rollback or the
process may fail; checks precede the lock; readers overlap appliers.
*Correct when*: the lock excludes; files that are not whole have their backups;
a refused apply leaves everything as it was; every adoption continues the
accepted history; what a gate returns is what it checked.

### Official runs (`scripts/run-official-credential-eval.ts`, receipts, registry, archive)

*State*: the registry `official-runs.json` with its pins and recorded runs, the
artifacts and receipts each workflow run uploaded, the archive, the view.
*Operations*: dispatch (as a retry too), take over a finished stage, measure
it, verify it by a second measurement, upload, record, repin, archive, publish.
*Interaction*: a retry reads the leftovers of an earlier run, which may have
been a retry itself; a repin moves the evidence or the engine in between.
*Hard*: runs that fail or lose their runner between any two steps, leftovers
that are offered later, pins that changed since.
*Correct when*: whatever is kept, recorded, archived or shown was measured twice
with one result; no run, archive or view mixes identities; a finished stage on
the evidence a run pins is not measured again.

### Publication and storage

| part | source | what is hard | correct when |
| --- | --- | --- | --- |
| record and report commit | `scripts/adoption-report-sync.mjs`, `record-deployment-receipt.mjs` | a journal over three files, edits by others, crashes, a recovery that must refuse | the files change together, or not at all |
| site deployment | `.github/workflows/publish-site.yml`, `evaluation-bundle-deployment.mjs` | two markers that move last, retention under readers, interruptions, rollback | what a marker names is there with every part, and stays for who reads it |
| adversarial intake | `benchmarks/lib/adversarial-intake.ts` and its two scripts | only two revisions are ever compared | an accepted pack has the fixtures of its first run |
| B11 protected seals | `domains/pii/beta11-protected.ts` | one seal per family, then one record; a failure in between | above |
| measurement outputs | `scripts/lib/measurement-output.mjs`, `staged-async-measurement.mjs` | never replace an output; staged, locked, renamed | an output is whole and stays |
| artifact and index | `scripts/atomic-publication.ts`, `publish-pii-support.ts` | shared temporary names, evidence that changes | the index names an artifact that is there and whole |
| generated reports | `scripts/lib/generated-output.mjs` | several files with rollback; failing restorations | the record is never ahead of a report |
| discovery store | `benchmarks/evaluation/storage/` | a directory swapped by two renames under a reader | a reader gets one whole store; one is never lost |
| blind aggregate | `benchmarks/blind/aggregate.ts` | small strata must not be recoverable | above |

### The rest

The evaluation domains and bundle builder, the benchmark and qualification
drivers, scanner adapters, accounting and statistics, review ledger and
promotion, peer observations, support matrix, calibration and score evasion
studies, CI planning, corpora and generators, web site and workflows.
`PROJECT.json` gives for each the reason why it is not modelled; section 6 sums
up.

## 2. Modules

| module | models | abstract promise |
| --- | --- | --- |
| `EvaluationBudget` | what both lifecycles promise: attempts reserved before protected bytes are opened, never more than the budget, never given back, none after closing | - |
| `Holdout` | `runHoldout`, `contaminateHoldout`, their crashes and their custodian | `EvaluationBudget` |
| `HoldoutSeal` | sealing one input family by family, any number of times | - |
| `Blind` | `freezeBlind`, `runBlind`, crashes, corpus edits, rebuilds | `EvaluationBudget`, budget 1 |
| `BlindAggregate` | `summarize` and the arithmetic of `validateAggregate` | - |
| `ScoringLattice` | `lattice.ts` and `score`, for one row that receives findings one by one | - |
| `EvaluationRuntime` | `executeRuntime`: scanners, replays, failures | - |
| `EvidenceAdoption` | prepare, apply, rollback, recovery and readers of the active evidence | - |
| `OfficialRuns` | the official runs with retries, registry, archive and view | - |
| `AtomicFiles` | several files that change in one step, staged against what they held | - |
| `ReportCommit` | the journaled commit of record and report, and its commands | `AtomicFiles` |
| `SiteDeployment` | deployment, retention and rollback of the evaluation bundle, and a reader | - |
| `DiscoveryStore`, `StagedMeasurement`, `GeneratedPublication`, `ArtifactIndex` | the other publications of section 1 | - |
| `AdversarialIntake` | what the intake gate accepts from revision to revision | - |
| `MCBlind`, `MCEvidenceAdoption`, `MCScoringLattice` | the instances TLC checks | |
| `MCPublication` | nine components that share no state; the variable `acting` chooses the one that acts, so that TLC visits the union of their state graphs | |
| `MCMeasurements` | a row, an evaluation and the official runs, in the same way (`part`) | |
| `FoldLemmas` | what sums over sets and folds over sequences compute | |
| `...Proofs` | the theorems | |

An operator commented "Slip" is a plausible mistake in the operator after it. No
specification uses one; `PROJECT.json` pairs it with the property that catches it.

### Holdout and HoldoutSeal

A process is one invocation and also its run id (a fresh UUID in the code). One
action is one file operation with the checks that use what it read, so a crash
(`Crash`) can fall between any two. `mem` is the copy of `state.json` a process
holds between reading and replacing it.

| code | actions of `Holdout` |
| --- | --- |
| `main` takes the candidate snapshot; checks before the lock | `Snapshot`, `Preflight`, `BeginContamination` |
| `writeFile(.lock, 'wx')` | `TakeLock` |
| `stateOf` and the two refusals | `ReadState` |
| `state.runs.push`, `atomicPrivateWrite` | `Reserve` |
| plan file, `privateRead(corpus.json)` | `WritePlan`, `OpenCorpus` |
| `domain.evaluate` | `Scan`, `VerifyCandidate` |
| aggregate file | `WriteAggregate` |
| `contaminateHoldout` | `ReadStateToContaminate`, `Contaminate` |
| an exception, the `finally` | `Fail`, `Unlock` |
| "verify no process still owns `.lock` before a custodian removes the stale lock" (`holdout/README.md`) | `VerifyStale`, then `RemoveStaleLock` |
| an operator installs another candidate | `Upgrade` |

`atomicPrivateWrite` is one action because its temporary file has a fresh name.
The scanners, the corpus and the tool plan are abstracted to the build that was
measured and whether the scan was complete. Sealing is the initial state of
`Holdout` and has a module of its own: in `HoldoutSeal` the families of one input
are `1..Families` in their fixed order, `CreateStore`, `WriteCorpus`,
`WriteState`, `PutManifest` and `PutRecord` are the writes of
`sealProtectedCorpusValue` and `sealB11ProtectedInput`, `SealStops` is a refusal
or a crash, and `SpendFamily` is all that a run later does to a sealed store.

### Blind and BlindAggregate

A hash is modelled by what it identifies: the commitment by nonce and fixtures,
the fixtures digest by the fixtures, an artifact set by the number of its build.
`corp`, `frz` and `mem` are the corpus, the freeze and the ledger a process read;
`Overlap` says whether commands may run at the same time. Environment, benchmark
checkout and configuration can only refuse a command: they are the refusals in
`FreezeResolve` and `RecheckCandidate` that need no reason.

| code | actions of `Blind` |
| --- | --- |
| `freezeBlind` | `FreezeReadCorpus`, `FreezeReadLedger`, `FreezeResolve`, `FreezeWrite` |
| `runBlind` before the lock | `ReadFreeze`, `RecheckCorpus`, `RecheckCandidate`, `ReadLedger` |
| lock, reservation, `rename(freeze.json)` | `TakeLock`, `Reserve`, `ConsumeFreeze` |
| scratch, scan, second `resolveCandidate` | `StageFixtures`, `Scan`, `RecheckAfterScan` |
| private aggregate, release, ledger status | `KeepAggregate`, `Release`, `RecordStatus` |
| `catch`, `finally` | `Fail`, `Abort`, `Leave` |
| people | `EditCorpus`, `Rebuild`, `RemoveStaleLock` |

`BlindAggregate` is what `Release` publishes: each step counts one more
observation of `summarize` (`Withhold`, `MeasureControl`, `MeasurePositive`), and
the strata that are released are operators over the counts.

### ScoringLattice and EvaluationRuntime

The variables of `ScoringLattice` are one row: its expected spans, its twin
scope, and the findings in the order in which they were reported. The only action
reports one more. Everything published about the row (outcomes, leaked and
collateral bytes, flag, co-detection) is an operator over these, as in the code,
so the properties can compare a row with the same row after one more finding. The
sorted-and-merged `union` and the two-cursor sweep of `bytesOutside` are folds,
compared with the plain count of bytes.

`EvaluationRuntime` is how findings come in. Scanners run one after the other
(`SkipUnranged`, `AskVersion`, `Replay`, `ScannerFails`, `CompareReplays`), then
the reused observations are added and captured (`AddReused`,
`CaptureObservations`), and the `finally` removes the scratch tree
(`RemoveScratch`). What a replay returns is how often it has each normalized
finding, because the code compares replays as sets and keeps the first as it is.

### EvidenceAdoption

A bundle is its chain of releases: the anchor first, its own release last, none
twice. Every bundle writes every file, so the bytes of a file are modelled by
the bundle that wrote them, and `tree[n]` is the bundle in file `n`. The files
are numbered in the sorted order in which the code replaces them. `prior` is
what a package was prepared from (`expectedPriorSha256`), `previous` what was
found under the lock (the backups). Recovery is the documented one: backups are
restored, or the transaction is closed because the files are whole.

| code | actions |
| --- | --- |
| `prepareEvidenceAdoptionReview` | `Prepare` |
| checks before the lock, first `inspect` | `CheckActive`, `Inspect`, `Refuse` |
| `mkdirSync(lock)`, second `inspect`, staging | `TakeLock`, `InspectAgain`, `Stage` |
| the loop of renames, the final check | `Replace`, `FinalCheck` |
| an exception; rollback; rollback failing | `Fail`, `Restore`, `RestoreFails` |
| `finally` | `CleanUp`, `Unlock` |
| `checkActiveEvidenceFiles` in another process | `ReadPins`, `ReadAdoption`, `CompareFile`, `EndRead` |

### OfficialRuns

An artifact is known by the run that measured it and by its identity: `engine`
(revision, platform, selections), `evidence`, and `optional` (the scanner
selection); `steady` says that a second measurement gives the same digest.
`uploads[q]` is what workflow run `q` left behind, `offered` what a retry was
given of it, `workspace` the files of the run at hand, `progress` where its
driver is.

| code | actions |
| --- | --- |
| the workflow is dispatched, `retry-receipts.mjs` | `DispatchRun` |
| a stage: the directories offered, measuring, the marker | `RejectSource`, `ReuseStage`, `MeasureStage`, `MarkIncomplete`, `VerifyStage` |
| artifact, run record, receipt | `CopyArtifact`, `WriteRunRecord`, `RemoveMarker`, `WriteStageReceipt` |
| uploads, the view of the run or of an earlier one | `UploadStage`, `UploadFinal`, `ViewOfRun`, `ViewOfEarlierRun` |
| `record-official-run.mjs` and its gate; repins | `RecordRun`, `RepinEvidence`, `RepinEngine` |
| `official-run-archive.mjs`; the publish build | `PackArchive`, `PublishArchive` |
| a step fails; the runner is lost | `FailRun`, `LoseRunner` |

### ReportCommit, AtomicFiles, SiteDeployment

A content is the version of the record a file states. `files`, `next` and
`entries` are the three files, their `.next` copies and the journal.

| code (`adoption-report-sync.mjs`) | actions of `ReportCommit` |
| --- | --- |
| `main`, `planRecord`, `stageReport` | `StartCommand`, `ReadRecord`, `StageReport`, `Select`, `Refuse` |
| `commitFiles`: check, copies, journal | `CheckTargets`, `WriteNext`, `AllWritten`, `CommitFails`, `Commit` |
| `finishCommit`: conflicts, renames, the journal removed | `FinishCheck`, `RenameTarget`, `FinishFails`, `DropJournal` |
| "resolve the conflict by hand" | `Resolve` |
| crash, an edit by somebody else | `CrashCommand`, `EditFile` |

The refinement reads the three files as the journal has them: once it is in
place, a target that still holds its old content counts as replaced.

`SiteDeployment` has one bucket, two markers and their rollback copies. The
steps of a job follow the workflow: `Dispatch`, `UploadPart`, `VerifyListing`,
`CopyPointer`, `CopyIndex`, `MovePointer`, `MoveIndex`, `PlanRetention`,
`PrunePart`, `EndDeployment`; `JobInterrupted` may come between any two. In
`Dispatch` the live markers are read (`ReadMarkers`), or the read fails and the
deployment goes on as if nothing had been live (`ReadFails`:
`publish-site.yml:570-575`). The operator's rollback is `RollBackPointer`, then
`RollBackIndex`: it copies both markers back without looking at the parts, which
the documented procedure verifies afterwards. A reader resolves the pointer and
holds on to a bundle until a second deployment or rollback begins; `age` is 1
once one has, `replaced` is what was live when the deployment started, whatever
it read, and the history variable `broken` has the bundles that a rollback put
back incomplete.

### The other publications, and the intake

| module | code | actions |
| --- | --- | --- |
| `DiscoveryStore` | `writeDiscoveryStore` | `BeginStaging`, `WriteStorePart`, `WriteManifest`, `StatStore`, `MoveAside`, `MoveIn`, `DropAside`, `StoreFails`, `StoreCrash` |
| | a reader | `OpenStore`, `ReadPart` |
| `StagedMeasurement` | bundles and single files | `AskOutput`, `LockOutput`, `LookAgain`, `StageOutput`, `StageDone`, `Place`, `CleanStage`, `Unlock`, `MeasurementFails`, `MeasurementCrash`, `RemoveDeadLock` |
| `GeneratedPublication` | `publishGeneratedFiles` | `BeginPublication`, `ApplyTarget`, `ApplyFails`, `RestoreTarget`, `RestoreFails`, `Publish`, `ThrowError`, `RestoreByHand`, `Retry`, `GeneratedCrash` |
| `ArtifactIndex` | `publishArtifactAndIndex`, its caller | `BuildPublication`, `WriteArtifact`, `RenameArtifact`, `WriteIndex`, `CheckIndex`, `RenameIndex`, `PublicationFails`, `PublicationDies`, `ReplaceEvidence` |
| `AdversarialIntake` | the gate over one revision | `Revise` (any record that `ValidIntake` and `Immutable` accept) |
| | `freeze-adversarial-first-run.mjs` | `FreezeFirstRun`, `CheckOutFirstRun` |

## 3. Runs

| run | question | bounds |
| --- | --- | --- |
| `holdout_safety` | exclusion, budget, audit trail, candidate identity; does `Holdout` implement `EvaluationBudget`; is a lock always released, one left by a crash too | 2 runs, 1 contamination, budget 1, 1 upgrade |
| `blind_serial` | attempts, epochs and ledger, one command at a time; does `Blind` then implement `EvaluationBudget` | 2 freezes, 2 runs, 3 corpora, 1 rebuild |
| `blind_overlap` | what lock and file operations ensure when commands overlap; is the lock released | 1 freeze, 2 runs, 2 corpora, 1 rebuild |
| `measurements` | byte counts, redaction, flags that fail closed, monotonicity; an honest evaluation; sound official runs | 4 bytes, 2 spans, 2 families, 2 findings; 3 scanners, 2 replays, 2 findings up to twice; 2 official runs, 1 repin, 2 engine and 2 evidence pins |
| `adoption_apply` | exclusion, rollback, backups, history; is the lock released | 2 appliers and a reader, 4 files, 3 releases |
| `publication` | what is published is whole, what is named is there, what is interrupted can be finished | 3 record versions and 1 edit; 3 bundles of 2 parts and 1 interruption; 3 writers of a store; 2 bundles and a file on one output; 2 seals of 3 families; 3 targets, 2 publications; 2 artifacts; 2 versions of a pack, 2 scans; 2 strata, 4 observations, a minimum of 2 |
| `blind_attempts` | (violated) one attempt, when commands overlap | |
| `scoring_attribution` | (violated) a finding of the twin's own family fails it | 2 families, 2 findings |
| `adoption_reader` | (violated) a reader returns the pins it checked | 1 applier, 1 reader |
| `report_overwritten` | (violated) a commit replaces what its update was staged against | 2 versions, 2 edits |
| `deployment_rollback` | (violated) the rollback target is whole | 2 bundles of 1 part, no interruption |
| `intake_converted` | (violated) a converted pack stays converted | 2 versions, 2 scans |

Some properties are conjunctions of named parts, each with its own comment:

| property | parts |
| --- | --- |
| `BudgetHolds` (Holdout) | the budget, readers on record, reservations without repetition |
| `OneAttemptPerEpoch`, `NothingIsForgotten` (Blind) | one attempt and one corpus per epoch; a freeze that is pending stays, the ledger grows |
| `RunsAreExclusive`, `ReleasesAreHonest` (Blind) | lock, reserved scans, freezes spent once; complete aggregates, honest status |
| `NothingIsHidden` (ScoringLattice) | what is not leaked is redacted; no finding on a control disappears |
| `RuntimeIsHonest` | only what all replays report is kept; everybody is observed, the tree removed |
| `OfficialRunsAreSound` | everything was verified; identities are never mixed |
| `FilesAreRecoverable` (EvidenceAdoption) | the lock excludes; partial states have backups; a refusal leaves the files |
| `CommitIsSafe` (ReportCommit) | an interrupted commit rolls forward; the report follows the record; a receipt replaces what it was staged against |
| `NothingIsMissing` (SiteDeployment) | what a marker names is whole, but for what a rollback put back incomplete; a reader finds every part, but for a bundle a deployment overlooked |
| `StoreReads`, `MeasurementsAreSafe`, `SealsAreWhole`, `ReportsMatchRecord`, `AggregateReleases` | see their modules |

Why the bounds are enough to meet the interesting cases:

- *Holdout*: the budget is smaller than the number of runs, so a run meets an
  exhausted budget, a crashed one and a stale lock while another waits; the
  contamination and the upgrade can fall anywhere. Larger budgets are covered by
  the proofs.
- *Blind*: two freezes and two runs are what a repeated attempt takes. Between
  the three corpora lie the edits the epoch rules tell apart: another corpus
  under the same label, the same fixtures under another label, and a proper
  rotation.
- *Scoring*: four bytes hold an envelope wider than its span, two spans, and two
  findings that straddle, nest, touch or overlap. The sweep depends only on the
  order of range ends.
- *Evaluation*: of three scanners the middle one has no ranges; a replay may
  drop, add or repeat a finding.
- *Adoption*: of nineteen files the four kinds matter (before the record, the
  record, after it, a pin). Three releases give a chain in which a package is
  prepared one adoption ahead.
- *Official runs*: the second run may retry the first after any failure, with
  other scanners and after either pin moved.
- *Deployment*: with three bundles one is neither live, previous nor current; a
  bundle of two parts can be half there. One interruption or one failed read of
  the live markers occurs; the theorems allow any number of both.
  `DeploymentRollback.cfg` allows neither, so that the failed read is not what its
  trace rests on.
- *Publications*: a third writer finds the store that the first moved aside; of
  three targets one is between the first and the record; of four observations
  two make a stratum exactly as large as the minimum, and what is left of them is
  one short of it, or reaches it in two small strata.

Deadlock checking is off everywhere because commands end and may leave nothing
to do: a finished set of commands is the normal end of a behaviour. Symmetry is
declared only for a run without liveness, and the one operator there that
chooses an order does so for sets of at most one member.

### Fairness

- *Holdout*: a started command keeps going unless it crashes (weak fairness of
  its steps), and the custodian gets round to a stale lock, as
  `holdout/README.md` prescribes. Nobody has to start, crash or upgrade.
- *Blind*: a started run keeps going unless it crashes. Nothing is documented
  for a stale lock, so `LockReleased` is claimed only where no run crashed.
- *Adoption*: an applier keeps going unless it crashes, and an operator performs
  the "reviewed recovery" of `docs/specs/pii-evidence-adoption-workflow.md`.
- *Report commit*: every command refuses until a pending commit is recovered, so
  `recover` is run again until it gets through, and the conflicts it names are
  resolved by hand: strong fairness of `recover`, of its steps and of `Resolve`,
  since each attempt may fail or crash.
- *Deployment*: the steps of a job follow each other unless it is interrupted,
  an operator who began a rollback ends it, and a deployment is dispatched again
  however often rollbacks come in between: strong fairness of `Dispatch`, since a
  rollback under way disables it. The deployment's document has both as the ways
  out of markers that disagree ("recover by finishing the publish (re-dispatch) or
  rolling back"), and only the first is sure to help: an interrupted `CopyIndex`
  leaves copies that disagree too. Interruptions and failed reads are bounded.
- *Measurements*: a command that has begun goes on until it ends or dies, and
  somebody removes the lock of a dead one.

## 4. Findings

1. **Blind attempts** (`blind_attempts`). `runBlind` checks the ledger before it
   has the lock and writes that copy back; `freezeBlind` takes no lock. With
   overlapping commands a reservation is overwritten and the same candidate is
   evaluated twice on an epoch, against "A candidate identity gets one attempt
   per epoch" (`benchmarks/blind/lifecycle.ts:77`). One command at a time, it
   holds, and is proved.
2. **Overlapping check** (`adoption_reader`). The gate returns the pins it read
   before the record it validates; overlapping an apply, they differ.
3. **Attribution** (`scoring_attribution`). Findings on one range are reduced to
   the last one reported, so a finding of the twin's own family can be hidden by
   another family's, against the protocol's negative-twin rule.
4. **Edit overwritten** (`report_overwritten`). `render` takes the digests it
   expects after it has rendered, so an edit made meanwhile is overwritten,
   against "a concurrent edit is refused, never overwritten"
   (`scripts/adoption-report-sync.mjs:115`). A receipt passes the digests of what
   it was staged from, and keeps the promise.
5. **Rollback target pruned** (`deployment_rollback`). When the live bundle is
   deployed again, the rollback copies keep naming the bundle before it, and the
   retention plan no longer keeps that bundle, against "The previous bundle's
   directory is retained by the rule above, so every part is present"
   (`docs/specs/evaluation-bundle-deployment.md:49`). The documented rollback
   copies both markers first and verifies afterwards, so that it then publishes
   the pruned bundle.
6. **Conversion undone** (`intake_converted`). Between two revisions only the
   bytes of a first run are compared, so a later record may drop the edit and
   the conversion and count as externally authored again.

Seen while modelling, and stated by no run:

- `.github/workflows/publish-site.yml:570-575` reads the live markers with `curl`
  as the condition of an `if`, errors discarded. When a read fails for a moment,
  `previous_id` stays empty: no rollback copies are taken (`:595`), and retention
  (`:625-632`) prunes the bundle that was live, under its readers, and sooner or
  later the one that the older copies name. That the live pointer "names the
  bundle that stays reachable for readers mid-deployment and for rollback"
  (`:566-567`) is then false: with `LiveStaysReachable` as the invariant and
  `MaxFailures = 1`, the trace TLC finds is that of one failed read.
  `LiveStaysUnlessUnread` says that nothing else breaks it, and
  `NothingIsMissing` leaves readers of an overlooked bundle out (`Overlooked`).
- `benchmarks/qualification/receipt-reuse.ts:8-9`, `scripts/retry-receipts.mjs:9-12`
  and `scripts/run-official-credential-eval.ts:264-265` say that a stage whose
  sources differ in the pins measures fresh. A receipt is not compared with the
  evidence pin: a retry after an evidence repin takes the stage over, its own
  binding check refuses it, and the run fails, as does every retry of it. The
  model has this behaviour; what is kept stays sound. `FinishedIsNotRepeated`
  takes no side: it speaks of receipts on the evidence that the run pins.
- `docs/specs/evaluation-engine-v1.1.md:274-281` compares replays as sorted tuples
  and calls any disagreement unstable; `runtime.ts:97-104` compares them as sets,
  so that a finding reported twice by one replay and once by another agrees.
  `Agree` models the code.
- With `Careful = FALSE`, TLC refutes `AdoptionsChain`: predecessor and history of
  a package are validated before the lock and not again under it, so a package
  prepared ahead of its predecessor can be applied over the older files once an
  interrupted apply was recovered.
- Before the first adoption (`Start = Absent`) there is no record to compare with,
  so the check accepts comparison files a crashed first apply left behind.
- With `Quiet = FALSE` an edit between the check of a target and its rename is
  overwritten (`adoption-report-sync.mjs:156`).

## 5. Proofs

Every theorem is a statement about the specification for all values of the
constants that satisfy the named assumptions of the module: any number of
processes, files, families, parts or runs. Every invariant and action property
that a passing run checks is the subject of a theorem, under the assumptions
listed at the end of this section.

Where a run refutes a claim (section 4), a theorem says how far the claim does
hold, by naming what breaks it: a constant (1), a condition on the findings (3),
or an action formula that is conjoined to the unchanged specification:

| finding | theorem | holds as long as |
| --- | --- | --- |
| 1 | `AttemptsOnce`, `EpochsAreSpentOnce` | one command at a time (`~Overlap`) |
| 2 | `UndisturbedChecks` | no file changes while a check is under way (`ChecksUndisturbed`) |
| 3 | `LastFindingDecides` | the last finding on the range is the twin's own |
| 4 | `StagedUnlessDisturbed` | no edit between rendering and taking the digests (`DigestsUndisturbed`) |
| 5 | `RollbackStaysWhole` | no deployment publishes the live bundle again (`LiveNotRedeployed`), and every read of the live markers succeeds (`LiveIsRead`) |
| failed read (seen) | `LiveStaysUnlessUnread` | every read of the live markers succeeds (`LiveIsRead`) |
| 6 | `ConvertedStaysConverted` | no revision drops an edit it has recorded (`EditsStay`) |

**HoldoutProofs.** Type correctness, exclusion, budget, readers within the
budget and on record, complete reports, reservations, contamination, and the
refinement of `EvaluationBudget`. None of the properties is inductive. `IInv`
adds what each program point knows: a process past the lock owns it, hence the
copy of `state.json` it is about to write back is still what the file holds
(`CopyIsCurrent`) and was admissible; a verified stale lock stays stale until it
is removed (`StaleStaysStale`), because its owner is dead and the lock file
exists; a run past its reservation is on record in a corpus still sealed
(`ReservedOnRecord`); builds only go up, so equality before and after a scan
means the scan used the frozen build (`BuildsInOrder`). The bound on readers
follows because readers are distinct members of the reserved list, whose length
is the budget. `LockHasOwner` is the safety half of `LockReleased`: a lock that
is taken belongs to a command that is still to release it, or to a crashed one.

**BlindProofs.** In two layers. `IInv` holds however commands overlap: whoever is
past a check still has what it established, no copy of the ledger in any process
claims more than was released, and each freeze file comes from its own process.
It gives exclusion, reserved scans, complete aggregates about the freeze, an
honest ledger and freezes spent once. `SerialInv` needs `~Overlap`: then the copy
read before the lock is still the ledger when it is written, so an attempt that
was free at the check is free at the reservation. It gives one attempt, one
corpus per epoch, a growing ledger, and the refinement of `EvaluationBudget`.
`LockHasOwner`, as above, holds however commands overlap.

**ScoringLatticeProofs.** One more finding never makes an outcome worse or leaks
another byte, and takes no collateral byte back; a span that is not leaked is covered byte by byte; a finding on a control is never
discarded. The first rests on a lemma that deduplication keeps every range
(`RangesStay`) and on the monotonicity of `SpanOutcome` in the set of ranges.
*Bytes*: the merged union of sorted ranges is in order, apart and covers what
the ranges cover; each step of the two-cursor sweep adds the bytes of one span
outside that union, and disjoint parts add up. Leaked, collateral and authored
bytes are therefore what a plain count of bytes gives. *Twins*: deduplication
keeps the last finding of every range, so a twin is flagged exactly when one of
these is of its own family or of none (`LastFindingDecides`).

**EvidenceAdoptionProofs.** `PackageInv` says what an applier found under the
lock is what its package names, hence what its bundle was drafted for; with
careful packages every adoption continues the history. `FilesInv` says that
while an applier is under the lock the files are its bundle up to where it got
and its backups from there on (`Mix`), which gives the backups of partial states
and the exactness of rollback. The gate reads file by file without the lock: as
long as no file changes under it, what it has read so far is what the files hold
(`ReadsAreCurrent`), and so the pins it returns are those of the record it
compared.

**CommitAndDeployProofs.** *Commit*: it is safe, and it implements `AtomicFiles`.
The invariant says what the journal guarantees of every target nobody touched
(its new content is in place or next to it), that the copies are complete before
the journal exists, and that in the window nothing changed since the check.
Writing the journal then is the one abstract step; a rename is a stutter. From
the first part, recovery is refused only because somebody edited a target
(`RecoveryGoesThrough`, the safety half of `JournalResolved`). *Deployment*: a
bundle the markers name is whole unless a rollback put it back incomplete, and so
is the one a reader holds until the next deployment or rollback begins, unless
the deployment under way overlooked it. The invariant ties each program point to
what was uploaded and listed, and says that a recent reader holds what is being
published or what it replaces, and that the retention plan spares what is
published and what was read as live. Where every read of the live markers
succeeds, what was live is what was read, so no reader is left out
(`LiveStaysUnlessUnread`); where in addition no deployment publishes the live
bundle again, the rollback copies name a whole bundle, and no rollback puts back
an incomplete one (`RollbackStaysWhole`). The markers differ only between the two
requests that move them, or once a job was interrupted or a read failed
(`MarkersMoveTogether`, the safety half of `MarkersAgree`).

**PublishedFilesProofs.** Seven protocols and their composition.
*Discovery store*: what a writer moves into place is whole, because its manifest
is last and its staging directory its own; a run drops the copy it put aside
only when another whole copy exists. *Measurements*: whoever is inside the lock
of an output created it, and what is placed is what was staged whole; a path
that is taken is never placed on; a lock left behind is that of a command that
died. *Seals*: a manifest is only written by the seal that created the store, in
the order of the families, so the seal that created the first family's store is
the only one that gets past it, and one that reaches the record has them all.
*Generated reports*: until a publication is over, every target holds what the
publication found or its own number, the list going up while it applies and down
while it restores. *Index*: an artifact is in place and whole before the index
names it, and nothing takes it away. *Intake*: a first run, in the working tree
or committed, copies the digest of what it scanned, and the gate pins it; over
any revisions the accepted pack is the one that was scanned. *Aggregate*: the
reported strata and the rest partition all strata, so a total minus what is
reported is the sum over the rest; `summarize` releases strata only when that
rest is empty or has at least the minimum of fixtures, and a hidden stratum has
fewer, so that the rest is never one of them alone; the totals balance because
sums of sums do. *The whole* (`MCPublication`): a step belongs to
one part and leaves the others alone, so each of the nine parts behaves as its
own specification says (`PartsBehave`), and the theorems about the parts are
theorems about what the run `publication` checks (`PublicationIsSafe`).

**RecordedRunsProofs.** *Official runs*: what an earlier run left behind may be
taken over, so the invariant says of everything in every upload that it was
verified, that an artifact is kept only when it binds to the pins of the run,
and that a stage receipt stands for a finished stage. *Evaluation*: observation
`i` is scanner `i`'s until the reused ones are added, so no replay changes what
an observation was made of. *The whole* (`MCMeasurements`): row, evaluation and
official runs take turns without touching each other, so everything the run
`measurements` checks holds for all values of the constants
(`MeasurementsAreSound`).

**FoldLemmas.** What the folds that the models use compute: `SumFunctionOnSet`
adds over a set in an order nobody states, so one value taken out, two disjoint
parts, equal and larger terms, and sums of sums are lemmas about any finite set;
`FoldLeft` takes a sequence element by element. Both are recursive functions
behind a `CHOOSE`, so what they compute rests on an induction. The library's
induction rules take an operator, which none of the provers can instantiate; the
lemmas here take sets instead and argue by a smallest counterexample: a set of
finite sets has a member with no other inside it (`FewestFirst`), and a set of
naturals a least one (`LeastNatural`).

Assumptions, and why they are there:

- builds are numbered and never come back (`Upgrade`, `Rebuild`): a candidate
  exchanged during the scan and put back before the second measurement is
  invisible to the code, and the property would not hold;
- `~Overlap` for the serial theorems about `Blind`, which finding 1 shows is
  needed;
- `Careful` for `NoAdoptionLost` and `Start # Absent` (the repository has adopted
  once) for the theorems on files, as section 4 explains;
- `Quiet` for the theorems about commits: no lock keeps an editor out of the
  window between check and rename;
- one command at a time for the report commit, the generated reports and the
  artifact index. Nothing in the code excludes a second one, which would share
  their temporary names; the workflow's concurrency group does for what it runs;
- evidence that nobody replaces between the check of an index
  (`atomic-publication.ts:19`) and its rename (`:20`) for `IndexStaysSound`: no
  lock excludes it, and an index published then would commit to evidence that is
  gone;
- `LiveIsRead` and `LiveNotRedeployed` for the two theorems that name them;
- the strata of an aggregate are finitely many: they are the labels of one file;
- `Replays > 0`: an evaluation with no replay would keep what nobody reported;
- placeholders (`Nobody`, `NoFile`, `NoEntry`, `Absent`, `NoRun`, ...) are not
  members of what they stand for the absence of.

**Only model-checked.** Liveness under fairness (`LockReleased`, `LockFreed`,
`JournalResolved`, `MarkersAgree`), which the provers cannot treat; what they
need of safety is proved as `LockHasOwner`, `OutputLockHasOwner`,
`RecoveryGoesThrough` and `MarkersMoveTogether`. That the promises refuted in
section 4 are broken is shown by TLC's counterexamples.

## 6. What is abstracted, and what is not modelled

Abstracted:

- Permissions, symbolic links, path checks and digests as computations: a digest
  is what it identifies, and two different contents never share one.
- A write is one action, except where a module says otherwise (`ArtifactIndex`
  has torn temporary files). `freeze.json`, a plan or an aggregate written in
  place with `wx` may be torn by a crash; a torn file is read as invalid and
  refused.
- A temporary file with a fresh random name is invisible to everyone else.
- The holdout status `retired` is accepted on reading and written by no command.
- `runHoldout` accepts an explicit run id; the command line never passes one.
- The public-conformance mode of the holdout uses a temporary directory of its
  own.
- `Prepare` reads all files in one step. In the code it reads them one by one; a
  package of files of two releases matches no accepted files and is refused.
- Directories created for new evidence files, file modes, and the names of the
  retained files, which are the same for every bundle.
- The intake gate compares with a base revision, which is taken to be available;
  reruns and adjudications beside a record are left out.
- Official runs: the population that is measured in two stages. Candidate,
  attribution, diagnostic and rehearsal runs, and the plain artifacts of earlier
  workflows, are left out.
- The HTML, the ledger and the support artifacts of the site, which no marker
  names and nothing prunes.
- An operator rolls the site back while no deployment runs, and what a deployment
  reads of the live markers, if it reads them, is fresh (they are `no-cache`); the
  retention step may be served the pointer from before the deployment.
- Reused observations of an evaluation are known by who they are of; progress
  messages, which a caller's callback could refuse, always succeed.

Not modelled, and why. The map covers about two in a hundred lines of the
implementation, because most of it has no state to model:

- *Web resolvers, pages and assembly* read retained JSON and produce tables and
  HTML; *evaluation domains, case construction and corpora* are operators on
  fixture text; the *support matrix, qualification tables, review ledger,
  promotion, peer observations, CI planning* are one-pass derivations and
  validators over hand-maintained or retained data. Each is a pure function over
  large inputs. A model would repeat its text.
- *Accounting and statistics*: intervals and bootstrap estimates over reals.
- *Scanner adapters, MCP qualification, generators*: programs of others, from
  which the models take any finding and any failure.
- *Benchmark drivers* (`run.ts`, `evaluate.ts`, `qualify.ts`): argument handling,
  one scan after another, and report files that one process writes. The scores
  are `ScoringLattice`'s, the scans `EvaluationRuntime`'s.
- *Evaluation bundle builder*: digests over fixed bytes in one process.

## 7. What could be added

1. Group totals (`lattice.ts:113-190`) over rows of `ScoringLattice`: totals are
   sums over rows, twins count once.
2. The benchmark driver (`benchmarks/run.ts`) with the readers of its output: a
   run whose reports and summary carry different run ids must be refused
   (`web/services/run.ts`), and a scanner whose snapshot fails after its result
   was recorded is listed twice.
3. Edits in the window of a commit and two publishers at once, for the day the
   code excludes them: `Quiet` and the one-command assumptions would go.
4. Candidate and diagnostic modes of the official runs.
