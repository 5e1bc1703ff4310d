-------------------------- MODULE EvaluationRuntime --------------------------
(***************************************************************************)
(* One evaluation of the substrate (benchmarks/evaluation/substrate/       *)
(* runtime.ts): the inputs are written to a scratch tree, every scanner is *)
(* asked for its version and replays its scan of that tree, and what it    *)
(* found is kept only when the replays agree.  A scanner that fails is     *)
(* recorded and the others go on; an error outside the scanners ends the   *)
(* evaluation, and the tree is removed on every way out.                   *)
(*                                                                         *)
(* Scanners run in the order 1..LastScanner; what a replay returns is how  *)
(* often it has each finding, normalized.  An operator commented "Slip" is *)
(* a plausible mistake in the operator after it, used by no specification. *)
(***************************************************************************)
EXTENDS Naturals, Sequences

CONSTANTS
    LastScanner,   \* how many scanners are executed
    Unranged,      \* those whose adapter has no source ranges
    Replays,       \* accounting.replays
    FindingKinds,  \* normalized findings a scanner may report
    MaxCopies,     \* bound: how often one replay reports the same finding
    Peers          \* the observations that are reused from a snapshot, in order

ASSUME RuntimeAssumption ==
    /\ LastScanner \in Nat /\ Replays \in Nat \ {0} /\ MaxCopies \in Nat
    /\ Unranged \subseteq 1..LastScanner
    /\ Peers \in Seq(Nat)

VARIABLES
    at,          \* where the evaluation is
    scanner,     \* the scanner it is at
    replayed,    \* per scanner, what its replays have returned
    observed,    \* the observations so far
    scratchTree, \* does the scratch tree exist?
    outcome      \* how the evaluation ends

runtimeVars == <<at, scanner, replayed, observed, scratchTree, outcome>>

Scanner == 1..LastScanner
Found == [FindingKinds -> 0..MaxCopies]
None == [k \in FindingKinds |-> 0]
Statuses == {"complete", "unstable", "unsupported", "unavailable", "error", "reused"}

RuntimeTypeOK ==
    /\ at \in {"prepare", "write", "version", "scan", "compare", "capture", "clean",
               "over", "dead"}
    /\ scanner \in 1..LastScanner + 1
    /\ replayed \in [Scanner -> Seq(Found)]
    /\ observed \in Seq([by : Nat, status : Statuses, findings : Found])
    /\ scratchTree \in BOOLEAN
    /\ outcome \in {"none", "returned", "thrown"}

RuntimeInit ==
    /\ at = "prepare"
    /\ scanner = 1
    /\ replayed = [s \in Scanner |-> << >>]
    /\ observed = << >>
    /\ scratchTree = FALSE
    /\ outcome = "none"

Observe(status, findings) ==
    /\ observed' = Append(observed, [by |-> scanner, status |-> status, findings |-> findings])
    /\ scanner' = scanner + 1
    /\ at' = "version"

-----------------------------------------------------------------------------
(* Selection and reused observations are validated before there is a tree. *)
Prepare ==
    /\ at = "prepare"
    /\ \/ at' = "write" /\ scratchTree' = TRUE /\ UNCHANGED outcome
       \/ at' = "over" /\ outcome' = "thrown" /\ UNCHANGED scratchTree
    /\ UNCHANGED <<scanner, replayed, observed>>

WriteInputs ==
    /\ at = "write"
    /\ \/ at' = "version" /\ UNCHANGED outcome
       \/ at' = "clean" /\ outcome' = "thrown"
    /\ UNCHANGED <<scanner, replayed, observed, scratchTree>>

SkipUnranged ==
    /\ at = "version"
    /\ scanner \in Unranged
    /\ Observe("unsupported", None)
    /\ UNCHANGED <<replayed, scratchTree, outcome>>

AskVersion ==
    /\ at = "version"
    /\ scanner \in Scanner \ Unranged
    /\ at' = "scan"
    /\ UNCHANGED <<scanner, replayed, observed, scratchTree, outcome>>

Replay ==
    /\ at = "scan"
    /\ \E found \in Found :
          replayed' = [replayed EXCEPT ![scanner] = Append(@, found)]
    /\ at' = IF Len(replayed[scanner]) + 1 = Replays THEN "compare" ELSE "scan"
    /\ UNCHANGED <<scanner, observed, scratchTree, outcome>>

(* Slip: the try block is around the loop over the scanners. *)
ScannerEndsAll ==
    /\ at \in {"version", "scan"}
    /\ scanner \in Scanner \ Unranged
    /\ at' = "capture"
    /\ UNCHANGED <<scanner, replayed, observed, scratchTree, outcome>>

(* Its version, its scan, the validation or the normalization throws.      *)
ScannerFails ==
    /\ at \in {"version", "scan"}
    /\ scanner \in Scanner \ Unranged
    /\ \E status \in {"unavailable", "error"} : Observe(status, None)
    /\ UNCHANGED <<replayed, scratchTree, outcome>>

Reports(found) == {k \in FindingKinds : found[k] > 0}

(* Slip: only what a later replay lacks is divergent. *)
NothingMissing(replays) ==
    \A i \in 2..Len(replays) : Reports(replays[1]) \subseteq Reports(replays[i])

(* The replays are compared as sets of findings.                           *)
Agree(replays) ==
    \A i \in 2..Len(replays) : Reports(replays[i]) = Reports(replays[1])

CompareReplays ==
    /\ at = "compare"
    /\ IF Agree(replayed[scanner])
         THEN Observe("complete", replayed[scanner][1])
         ELSE Observe("unstable", None)
    /\ UNCHANGED <<replayed, scratchTree, outcome>>

AddReused ==
    /\ at = "version"
    /\ scanner = LastScanner + 1
    /\ observed' = observed \o
          [i \in DOMAIN Peers |-> [by |-> Peers[i], status |-> "reused", findings |-> None]]
    /\ at' = "capture"
    /\ UNCHANGED <<scanner, replayed, scratchTree, outcome>>

CaptureObservations ==
    /\ at = "capture"
    /\ at' = "clean"
    /\ outcome' \in {"returned", "thrown"}
    /\ UNCHANGED <<scanner, replayed, observed, scratchTree>>

(* The removal itself may fail, which is then what the caller gets.        *)
RemoveScratch ==
    /\ at = "clean"
    /\ at' = "over"
    /\ \/ scratchTree' = FALSE /\ UNCHANGED outcome
       \/ outcome' = "thrown" /\ UNCHANGED scratchTree
    /\ UNCHANGED <<scanner, replayed, observed>>

RuntimeDies ==
    /\ at \notin {"prepare", "over", "dead"}
    /\ at' = "dead"
    /\ UNCHANGED <<scanner, replayed, observed, scratchTree, outcome>>

RuntimeNext ==
    \/ Prepare \/ WriteInputs \/ SkipUnranged \/ AskVersion \/ Replay \/ ScannerFails
    \/ CompareReplays \/ AddReused \/ CaptureObservations \/ RemoveScratch \/ RuntimeDies

RuntimeSpec == RuntimeInit /\ [][RuntimeNext]_runtimeVars

-----------------------------------------------------------------------------
(* "Required stability replays": findings are kept only of a scanner all   *)
(* of whose replays ran and reported the same, in whatever way it or       *)
(* another one failed before; of any other nothing is kept.                *)
KeptIsReplayed ==
    \A i \in DOMAIN observed :
        IF observed[i].status = "complete"
        THEN LET replays == replayed[observed[i].by]
             IN  /\ Len(replays) = Replays
                 /\ observed[i].findings = replays[1]
                 /\ \A j \in 1..Replays : Reports(replays[j]) = Reports(observed[i].findings)
        ELSE observed[i].findings = None

(* An evaluation that returns has one observation of every scanner that    *)
(* was selected, in their order, and then the reused ones, whichever of    *)
(* them failed; and it leaves no input of a case behind.                   *)
NobodyIsLost ==
    at = "over" /\ outcome = "returned" =>
        /\ [i \in DOMAIN observed |-> observed[i].by] = [s \in Scanner |-> s] \o Peers
        /\ ~scratchTree

(* What an evaluation returns is complete, replayed and its own.           *)
RuntimeIsHonest == KeptIsReplayed /\ NobodyIsLost
=============================================================================
