-------------------------- MODULE AdversarialIntake --------------------------
(***************************************************************************)
(* The intake of one external adversarial pack                             *)
(* (benchmarks/lib/adversarial-intake.ts), over the revisions of the       *)
(* repository: what validateIntake and the comparison of first runs with   *)
(* the base revision accept may be committed next, however far it is from  *)
(* the revision before it, and the script that freezes a first run         *)
(* (scripts/freeze-adversarial-first-run.mjs) may be used, interrupted and *)
(* used again in between.                                                  *)
(*                                                                         *)
(* A set of fixtures is its version, and the digest of expectations is the *)
(* version it was taken of.  A first run is the version the scanners read, *)
(* the digest it copies and the number of the scan, since no two scans     *)
(* give the same bytes; what pins it is the run itself.  The times and     *)
(* names in a record are what its author claims, and left out.             *)
(*                                                                         *)
(* An operator commented "Slip" is a plausible mistake in the operator     *)
(* after it, used by no specification.                                     *)
(***************************************************************************)
EXTENDS Naturals

CONSTANTS
    PackVersions,   \* versions of the pack's fixtures
    MaxScans,       \* bound: scans of one version
    NoFirstRun      \* no first-run.json, nothing pinned

VARIABLES
    record,    \* intake.json in the last revision
    firstRun,  \* first-run.json in the last revision
    treeRun    \* first-run.json in the working tree

intakeVars == <<record, firstRun, treeRun>>

FirstRuns == [measured : PackVersions, digest : PackVersions, scan : 1..MaxScans]

ASSUME IntakeAssumption == PackVersions # {} /\ MaxScans \in Nat /\ NoFirstRun \notin FirstRuns

IntakeStatus == {"submitted", "safety-review", "frozen-first-run", "accepted",
                 "rejected", "converted-to-maintainer-regression"}
AfterFirstRun == {"frozen-first-run", "accepted", "converted-to-maintainer-regression"}

(* `ground` stands for a ground that is in the record itself: material that *)
(* is not synthetic, scanner output consulted, no redistribution.  Each     *)
(* status has a history that leads to it, and a rejection its reason.       *)
IntakeRecord ==
    [status : IntakeStatus, external : BOOLEAN, ground : BOOLEAN,
     review : {"none", "passed", "failed"}, pin : FirstRuns \cup {NoFirstRun},
     digest : PackVersions, fixtures : PackVersions, materialEdit : BOOLEAN]

IntakeTypeOK ==
    /\ record \in IntakeRecord
    /\ firstRun \in FirstRuns \cup {NoFirstRun}
    /\ treeRun \in FirstRuns \cup {NoFirstRun}

-----------------------------------------------------------------------------
Qualification(r) ==
    IF r.external /\ r.status # "converted-to-maintainer-regression" /\ ~r.materialEdit
    THEN "externally-authored" ELSE "maintainer-regression"

RejectionGrounds(r) == r.ground \/ r.review = "failed"

StatusFits(r) ==
    /\ r.status # "rejected" => ~RejectionGrounds(r)
    /\ r.status \in AfterFirstRun => r.review = "passed" /\ r.pin # NoFirstRun
    /\ r.status \in {"submitted", "safety-review"} => r.pin = NoFirstRun
    /\ r.status = "submitted" => r.review = "none"

(* A material edit shows in the status, and a change of the fixtures as a  *)
(* material edit.                                                          *)
EditsFit(r) ==
    /\ r.status = "converted-to-maintainer-regression" => r.materialEdit
    /\ r.materialEdit => r.status \in {"converted-to-maintainer-regression", "rejected"}
    /\ r.digest = r.fixtures \/ r.materialEdit

(* Slip: the digest that the run copied is not compared. *)
FirstRunPinned(r, run) == r.pin # NoFirstRun => run = r.pin

(* A first run that is not pinned is not looked at. *)
FirstRunFits(r, run) ==
    r.pin # NoFirstRun => run = r.pin /\ run.digest = r.digest

ValidIntake(r, run) == StatusFits(r) /\ EditsFit(r) /\ FirstRunFits(r, run)

(* firstRunImmutabilityProblems: added, never rewritten.                   *)
Immutable(base, run) == base # NoFirstRun => run = base

-----------------------------------------------------------------------------
Submitted == {r \in IntakeRecord : r.status = "submitted" /\ ValidIntake(r, NoFirstRun)}

IntakeInit ==
    /\ record \in Submitted
    /\ firstRun = NoFirstRun
    /\ treeRun = NoFirstRun

(* The gate accepts the next revision.                                     *)
Revise ==
    /\ Immutable(firstRun, treeRun)
    /\ \E r \in IntakeRecord : ValidIntake(r, treeRun) /\ record' = r
    /\ firstRun' = treeRun
    /\ UNCHANGED treeRun

(* The script scans a record that is at its safety review, whose fixtures  *)
(* are those of the last revision and match their digest.  It writes       *)
(* first-run.json over the one that is there; the record with its pin,     *)
(* which it writes next, is for the next revision to commit, or not.       *)
CanFreeze(r) ==
    /\ r.status = "safety-review" /\ r.review = "passed"
    /\ r.fixtures = record.fixtures
    /\ r.digest = r.fixtures

FreezeFirstRun ==
    /\ \E r \in IntakeRecord : \E n \in 1..MaxScans :
          /\ CanFreeze(r)
          /\ treeRun' = [measured |-> r.fixtures, digest |-> r.digest, scan |-> n]
    /\ UNCHANGED <<record, firstRun>>

CheckOutFirstRun ==
    /\ treeRun' = firstRun
    /\ UNCHANGED <<record, firstRun>>

IntakeNext == Revise \/ FreezeFirstRun \/ CheckOutFirstRun

IntakeSpec == IntakeInit /\ [][IntakeNext]_intakeVars

-----------------------------------------------------------------------------
(* "Any material maintainer edit removes externally-authored", and "later  *)
(* fixes cannot rewrite" a first run: whatever the revisions make of the   *)
(* record, its history included, an accepted pack has the fixtures that    *)
(* the scanners read, in the first run that was ever committed.            *)
AcceptedIsFirstRun ==
    [][/\ firstRun # NoFirstRun => firstRun' = firstRun
       /\ record'.status = "accepted" =>
             firstRun' # NoFirstRun /\ firstRun'.measured = record'.fixtures]_intakeVars

(* "The pack becomes converted-to-maintainer-regression and is reported as *)
(* maintainer regression from then on" (adversarial/README.md:102-103): it *)
(* is never evidence of its author again.                                  *)
Converted == record.status = "converted-to-maintainer-regression"
PublicAdversarial == record.status = "accepted" /\ Qualification(record) = "externally-authored"
ConvertedForGood == [][Converted => ~PublicAdversarial']_intakeVars
=============================================================================
