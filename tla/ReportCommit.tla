---------------------------- MODULE ReportCommit ----------------------------
(***************************************************************************)
(* The commit of the adoption record together with the two report files    *)
(* rendered from it (scripts/adoption-report-sync.mjs), and the commands   *)
(* that use it: recording a deployment receipt                             *)
(* (scripts/record-deployment-receipt.mjs), `render` and `recover`.        *)
(*                                                                         *)
(* A content is a number: the version of the record that a file states.    *)
(* The record states its own version, a report file the version it was     *)
(* rendered from.  One command runs at a time, any number of them, and     *)
(* each may fail or crash between any two file operations.  Somebody else  *)
(* may edit a file; with Quiet, not while a command is past its check of   *)
(* the targets, since no lock excludes that.                               *)
(*                                                                         *)
(* A digest is compared where the code compares one: equal contents have   *)
(* equal digests.  An operator commented "Slip" is a plausible mistake in  *)
(* the operator after it, used by no specification.                        *)
(***************************************************************************)
EXTENDS Naturals, FiniteSets

CONSTANTS
    MaxVersion,  \* bound: receipts ever recorded
    MaxEdits,    \* bound: edits by somebody else
    Quiet        \* do edits stay out of the commit's own window?

ASSUME ReportCommitAssumption ==
    /\ MaxVersion \in Nat \ {0}
    /\ MaxEdits \in Nat
    /\ Quiet \in BOOLEAN

Reports == {"comparison", "report"}
Targets == Reports \cup {"record"}
Versions == 1..MaxVersion
Unusable == 0    \* a `.next` file that is missing or was torn by a crash

VARIABLES
    files,      \* the canonical files
    next,       \* their `.next` neighbours
    pending,    \* does the journal exist?
    entries,    \* its entries: which files, from which contents, to which
    command,    \* the command that runs
    pc,         \* where it is
    version,    \* the record version it is to commit, 0 before it has one
    seen,       \* the contents it read while it staged the update
    expected,   \* the contents commitFiles is told to expect
    todo,       \* the files that remain in the loop it is in
    edits,      \* edits by somebody else so far
    touched     \* files they edited since the journal was written

commitVars == <<files, next, pending, entries, command, pc, version, seen,
                expected, todo, edits, touched>>
disk == <<files, next, pending, entries>>
outside == <<edits, touched>>

Commands == {"record", "render", "recover"}
Window == {"write", "journal", "finish", "rename"}
Steps == {"idle", "read", "stage", "select", "check"} \cup Window

CommitTypeOK ==
    /\ files \in [Targets -> Versions]
    /\ next \in [Targets -> Versions \cup {Unusable}]
    /\ pending \in BOOLEAN
    /\ entries \in [set : SUBSET Targets, from : [Targets -> Versions], to : Versions]
    /\ command \in Commands
    /\ pc \in Steps
    /\ version \in 0..MaxVersion
    /\ seen \in [Targets -> Versions]
    /\ expected \in [Targets -> Versions]
    /\ todo \subseteq Targets
    /\ edits \in Nat
    /\ touched \subseteq Targets

CommitInit ==
    /\ files = [f \in Targets |-> 1]
    /\ next = [f \in Targets |-> Unusable]
    /\ pending = FALSE
    /\ entries = [set |-> {}, from |-> files, to |-> 1]
    /\ command = "recover"
    /\ pc = "idle"
    /\ version = 0
    /\ seen = files
    /\ expected = files
    /\ todo = {}
    /\ edits = 0
    /\ touched = {}

(* The update the process holds is gone with the process.                  *)
Stop == pc' = "idle" /\ version' = 0 /\ todo' = {} /\ UNCHANGED <<command, seen, expected>>

-----------------------------------------------------------------------------
(* A pending journal is rolled forward first by the receipt command, is    *)
(* all that `recover` looks at, and is refused by `render`.                *)
StartCommand ==
    /\ pc = "idle"
    /\ \E c \in Commands :
          /\ c = "recover" => pending
          /\ c = "render" => ~pending
          /\ command' = c
    /\ pc' = IF pending THEN "finish" ELSE "read"
    /\ UNCHANGED <<disk, outside, version, seen, expected, todo>>

(* The record, and for a receipt the record that carries it: a new one, or *)
(* the same when this run's receipt is already recorded (a repair).        *)
ReadRecord ==
    /\ pc = "read"
    /\ seen' = [seen EXCEPT !["record"] = files["record"]]
    /\ expected' = [expected EXCEPT !["record"] = files["record"]]
    /\ version' \in {files["record"]} \cup
                    (IF command = "record" /\ files["record"] < MaxVersion
                       THEN {files["record"] + 1} ELSE {})
    /\ pc' = "stage"
    /\ UNCHANGED <<disk, outside, command, todo>>

(* stageReport digests the report files and renders them for the version.  *)
StageReport ==
    /\ pc = "stage"
    /\ seen' = [f \in Targets |-> IF f \in Reports THEN files[f] ELSE seen[f]]
    /\ expected' = [f \in Targets |-> IF f \in Reports THEN files[f] ELSE expected[f]]
    /\ pc' = "select"
    /\ UNCHANGED <<disk, outside, command, version, todo>>

(* What is committed: the files whose bytes differ from what is rendered.  *)
(* `render` takes the digests it expects from the files as they are now,   *)
(* not from what stageReport read.                                         *)
Changed == {f \in IF command = "record" THEN Targets ELSE Reports : files[f] # version}

Select ==
    /\ pc = "select"
    /\ \/ command = "record" /\ expected' = expected
       \/ /\ command = "render"
          /\ Changed # {}
          /\ expected' = [f \in Targets |-> IF f \in Changed THEN files[f] ELSE expected[f]]
    /\ todo' = Changed
    /\ pc' = "check"
    /\ UNCHANGED <<disk, outside, command, version, seen>>

(* The refusals and errors that leave every file as it is: an invalid      *)
(* receipt or report, inputs that are missing, nothing to render.          *)
Refuse ==
    /\ pc \in {"read", "stage", "select"}
    /\ Stop
    /\ UNCHANGED <<disk, outside>>

(* Nobody else can observe the comparisons one by one: an edit between two *)
(* of them is as well before or after all of them.                         *)
CheckTargets ==
    /\ pc = "check"
    /\ IF \A f \in todo : files[f] = expected[f]
         THEN pc' = "write" /\ UNCHANGED <<command, version, seen, expected, todo>>
         ELSE Stop
    /\ UNCHANGED <<disk, outside>>

Strays == {f \in Targets : next[f] = version}

WriteNext ==
    /\ pc = "write"
    /\ \E f \in todo :
          /\ next[f] # version
          /\ next' = [next EXCEPT ![f] = version]
    /\ UNCHANGED <<files, pending, entries, outside, command, pc, version, seen, expected, todo>>

(* Slip: the journal is written next to the new contents, not after them. *)
AllWrittenOrNot ==
    /\ pc = "write"
    /\ pc' = "journal"
    /\ UNCHANGED <<disk, outside, command, version, seen, expected, todo>>

AllWritten ==
    /\ pc = "write"
    /\ todo \subseteq Strays
    /\ pc' = "journal"
    /\ UNCHANGED <<disk, outside, command, version, seen, expected, todo>>

(* A write, or the rename of the journal, fails: the strays are removed.   *)
CommitFails ==
    /\ pc \in {"write", "journal"}
    /\ next' = [f \in Targets |-> IF f \in todo THEN Unusable ELSE next[f]]
    /\ Stop
    /\ UNCHANGED <<files, pending, entries, outside>>

(* The commit point: the rename of the whole journal into place.           *)
Commit ==
    /\ pc = "journal"
    /\ pending' = TRUE
    /\ entries' = [set |-> todo, from |-> expected, to |-> version]
    /\ touched' = {}
    /\ todo' = {}
    /\ pc' = "finish"
    /\ UNCHANGED <<files, next, edits, command, version, seen, expected>>

Applied(f) == files[f] = entries.to

(* Slip: only the new contents are looked at, not the targets. *)
ConflictOfContents ==
    \E f \in entries.set :
        /\ ~Applied(f)
        /\ next[f] # entries.to

Conflict ==
    \E f \in entries.set :
        /\ ~Applied(f)
        /\ files[f] # entries.from[f] \/ next[f] # entries.to

(* finishCommit: a target that was edited, or a new content that is gone,  *)
(* refuses the whole, before anything is renamed.                          *)
FinishCheck ==
    /\ pc = "finish"
    /\ IF Conflict
         THEN Stop
         ELSE /\ todo' = {f \in entries.set : ~Applied(f)}
              /\ pc' = "rename"
              /\ UNCHANGED <<command, version, seen, expected>>
    /\ UNCHANGED <<disk, outside>>

RenameTarget ==
    /\ pc = "rename"
    /\ \E f \in todo :
          /\ files' = [files EXCEPT ![f] = next[f]]
          /\ next' = [next EXCEPT ![f] = Unusable]
          /\ todo' = todo \ {f}
    /\ UNCHANGED <<pending, entries, outside, command, pc, version, seen, expected>>

(* The receipt command that found a journal goes on with its own update.   *)
DropJournal ==
    /\ pc = "rename"
    /\ todo = {}
    /\ pending' = FALSE
    /\ IF command = "record" /\ version = 0
         THEN pc' = "read" /\ UNCHANGED <<command, version, seen, expected, todo>>
         ELSE Stop
    /\ UNCHANGED <<files, next, entries, outside>>

FinishFails == pc \in {"finish", "rename"} /\ Stop /\ UNCHANGED <<disk, outside>>

(* The process ends anywhere; a write it was in leaves a torn file.        *)
CrashCommand ==
    /\ pc # "idle"
    /\ Stop
    /\ \/ UNCHANGED next
       \/ /\ pc = "write"
          /\ \E f \in todo \ Strays : next' = [next EXCEPT ![f] = Unusable]
    /\ UNCHANGED <<files, pending, entries, outside>>

-----------------------------------------------------------------------------
(* Somebody else changes one file: an editor, a checkout, a merge.         *)
EditFile ==
    /\ edits < MaxEdits
    /\ Quiet => pc \notin Window
    /\ \E f \in Targets, v \in Versions :
          /\ v # files[f]
          /\ files' = [files EXCEPT ![f] = v]
          /\ touched' = touched \cup {f}
    /\ edits' = edits + 1
    /\ UNCHANGED <<next, pending, entries, command, pc, version, seen, expected, todo>>

(* Slip: the new contents go, and the journal stays. *)
ResolveLeavingJournal ==
    /\ pc = "idle"
    /\ pending
    /\ Conflict
    /\ next' = [f \in Targets |-> IF f \in entries.set THEN Unusable ELSE next[f]]
    /\ UNCHANGED <<files, pending, entries, outside, command, pc, version, seen, expected, todo>>

(* The way out of a refused recovery that its message gives: the operator  *)
(* deletes the journal and the new contents, and runs the command again.   *)
Resolve ==
    /\ pc = "idle"
    /\ pending
    /\ Conflict
    /\ pending' = FALSE
    /\ next' = [f \in Targets |-> IF f \in entries.set THEN Unusable ELSE next[f]]
    /\ edits' = edits + 1
    /\ UNCHANGED <<files, entries, command, pc, version, seen, expected, todo, touched>>

CommitNext ==
    \/ StartCommand \/ ReadRecord \/ StageReport \/ Select \/ Refuse
    \/ CheckTargets \/ WriteNext \/ AllWritten \/ CommitFails \/ Commit
    \/ FinishCheck \/ RenameTarget \/ DropJournal \/ FinishFails
    \/ CrashCommand \/ EditFile \/ Resolve

CommitSpec == CommitInit /\ [][CommitNext]_commitVars

(* The message of the gate sends the operator to `recover`, or to the      *)
(* files in conflict, until none is pending; a recovery that is repeated   *)
(* is not interrupted at the same place for ever.                          *)
CommitFairness ==
    /\ SF_commitVars(StartCommand /\ command' = "recover")
    /\ SF_commitVars(FinishCheck)
    /\ SF_commitVars(RenameTarget)
    /\ SF_commitVars(DropJournal)
    /\ SF_commitVars(Resolve)

-----------------------------------------------------------------------------
(* A crash after the commit point rolls forward: whatever was interrupted, *)
(* every target of the journal that nobody edited holds its new content,   *)
(* or its old one with the new one next to it.                             *)
CanRollForward ==
    pending => \A f \in entries.set \ touched :
                  \/ files[f] = entries.to
                  \/ files[f] = entries.from[f] /\ next[f] = entries.to

(* The report follows the record: as long as nobody edits a file by hand,  *)
(* the three files state one version whenever no commit is under way or    *)
(* pending, crashes and failures included.                                 *)
ReportFollowsRecord ==
    (edits = 0 /\ ~pending) => \A f \in Reports : files[f] = files["record"]

(* "A concurrent edit of any target is refused, never overwritten"         *)
(* (adoption-report-sync.mjs:9): what a commit replaces is what its update *)
(* was staged against.  It holds for receipts ...                          *)
ReceiptsReplaceStaged ==
    (pc = "journal" /\ command = "record") => \A f \in todo : files[f] = seen[f]

(* ... and is refuted for `render`.                                        *)
StagedIsReplaced == pc = "journal" => \A f \in todo : files[f] = seen[f]

(* Three ways a commit may not lose what somebody wrote, in one.           *)
CommitIsSafe == CanRollForward /\ ReportFollowsRecord /\ ReceiptsReplaceStaged

(* A pending commit does not stay pending.                                 *)
JournalResolved == pending ~> ~pending

(* The files as the commit point has it: a journaled target nobody edited  *)
(* already holds its new content.                                          *)
Tree == [f \in Targets |->
            IF pending /\ f \in entries.set /\ files[f] = entries.from[f]
              THEN entries.to ELSE files[f]]

Atomic == INSTANCE AtomicFiles WITH
              Names <- Targets, Contents <- Versions,
              tree <- Tree, snapshot <- expected, edits <- edits

(* The commit of several files is one step, refused when any of them       *)
(* changed since the digests it expects were taken.                        *)
KeepsAtomic == Atomic!Spec
=============================================================================
