------------------------ MODULE CommitAndDeployProofs ------------------------
(***************************************************************************)
(* Why the record commit and the site deployment are safe for every bound  *)
(* on receipts, edits, bundles and interruptions.  They share no state;    *)
(* each has its inductive invariant, one lemma per conjunct that its steps *)
(* can disturb, and the theorems it gives.                                 *)
(***************************************************************************)
EXTENDS ReportCommit, SiteDeployment, TLAPS

-----------------------------------------------------------------------------
(* The report commit.  The inductive invariant says what the code relies   *)
(* on at each place without checking it again: no journal while an update  *)
(* is staged and written, the new contents next to their targets before    *)
(* the journal, and, while edits stay out of the window (Quiet), targets   *)
(* that are still what they were checked to be.                            *)

Staging == {"read", "stage", "select", "check", "write", "journal"}
Chosen == Staging \ {"read"}
Finishing == {"finish", "rename"}

(* Where the journal can exist, and where a version has been chosen.       *)
Phases ==
    /\ pc \in Staging => ~pending /\ command # "recover"
    /\ pc \in Finishing => pending
    /\ pc \in Chosen => version \in Versions

(* The new contents that the commit, or the renames, rely on.              *)
Written ==
    /\ pc = "journal" => \A f \in todo : next[f] = version
    /\ pc = "rename" => todo \subseteq entries.set /\ \A f \in todo : next[f] = entries.to

(* A receipt is committed against what was read while it was staged.       *)
Staged ==
    command = "record" =>
        /\ pc = "stage" => expected["record"] = seen["record"]
        /\ pc \in {"select", "check", "write", "journal"} => expected = seen

(* In the window nobody edits, the targets stay as they were checked.      *)
Unedited ==
    /\ pc \in {"write", "journal"} => \A f \in todo : files[f] = expected[f]
    /\ pc = "rename" =>
          \A f \in entries.set : files[f] = IF f \in todo THEN entries.from[f] ELSE entries.to

(* Before the first edit, what is not being replaced already states the    *)
(* version that is being committed.                                        *)
Current ==
    edits = 0 =>
        /\ ~pending => \A f \in Reports : files[f] = files["record"]
        /\ pending => touched = {} /\ \A f \in Targets \ entries.set : files[f] = entries.to
        /\ (command = "render" /\ pc \in Chosen) => version = files["record"]
        /\ pc \in {"check", "write", "journal"} => \A f \in Targets \ todo : files[f] = version

(* What holds whenever edits fall.                                         *)
CommitBase == CommitTypeOK /\ Phases /\ Written

CommitInv == CommitBase /\ Staged /\ Unedited /\ Current /\ CanRollForward

-----------------------------------------------------------------------------
LEMMA CommitInitial == CommitInit => CommitInv
<1> SUFFICES ASSUME CommitInit PROVE CommitInv
  OBVIOUS
<1> USE DEF CommitInit
<1>1. 1 \in Versions
  BY ReportCommitAssumption DEF Versions
<1>2. CommitTypeOK
  <2>1. files \in [Targets -> Versions] /\ version \in 0..MaxVersion
    BY <1>1, ReportCommitAssumption
  <2>2. QED
    BY <1>1, <2>1 DEF CommitTypeOK, Commands, Steps, Window, Unusable
<1>3. Phases /\ Written /\ Staged /\ Unedited /\ CanRollForward
  BY DEF Phases, Written, Staged, Unedited, CanRollForward, Staging, Chosen, Finishing
<1>4. Current
  BY DEF Current, Reports, Targets, Chosen, Staging
<1>5. QED
  BY <1>2, <1>3, <1>4 DEF CommitInv, CommitBase

(* Types are kept: what is committed is a version, and what is renamed is   *)
(* a whole new content.                                                    *)
LEMMA CommitTyping ==
    ASSUME CommitBase, [CommitNext]_commitVars PROVE CommitTypeOK'
<1> USE ReportCommitAssumption DEF CommitBase, CommitTypeOK, disk, outside, Stop, Steps, Window
<1>1. CASE StartCommand BY <1>1 DEF StartCommand
<1>2. CASE ReadRecord
  <2>1. files["record"] \in Versions
    BY DEF Targets
  <2>2. version' \in 0..MaxVersion
    BY <1>2, <2>1 DEF ReadRecord, Versions
  <2>3. QED
    BY <1>2, <2>1, <2>2 DEF ReadRecord, Targets
<1>3. CASE StageReport BY <1>3 DEF StageReport
<1>4. CASE Select
  <2>1. Changed \subseteq Targets
    BY DEF Changed, Targets
  <2>2. QED
    BY <1>4, <2>1 DEF Select
<1>5. CASE Refuse BY <1>5 DEF Refuse
<1>6. CASE CheckTargets BY <1>6 DEF CheckTargets
<1>7. CASE WriteNext
  <2>1. PICK f \in todo : next[f] # version /\ next' = [next EXCEPT ![f] = version]
    BY <1>7 DEF WriteNext
  <2>2. version \in Versions \cup {Unusable}
    BY DEF Versions, Unusable
  <2>3. QED
    BY <1>7, <2>1, <2>2 DEF WriteNext
<1>8. CASE AllWritten BY <1>8 DEF AllWritten
<1>9. CASE CommitFails BY <1>9 DEF CommitFails
<1>10. CASE Commit
  <2>1. version \in Versions
    BY <1>10 DEF Versions, Commit, Phases, Chosen, Staging
  <2>2. QED
    BY <1>10, <2>1 DEF Commit
<1>11. CASE FinishCheck BY <1>11 DEF FinishCheck
<1>12. CASE RenameTarget
  <2>1. PICK f \in todo : /\ files' = [files EXCEPT ![f] = next[f]]
                         /\ next' = [next EXCEPT ![f] = Unusable]
                         /\ todo' = todo \ {f}
    BY <1>12 DEF RenameTarget
  <2>2. next[f] \in Versions
    BY <1>12, <2>1 DEF RenameTarget, Written
  <2>3. QED
    BY <1>12, <2>1, <2>2 DEF RenameTarget
<1>13. CASE DropJournal
  <2>1. version' \in 0..MaxVersion /\ pc' \in Steps /\ todo' \subseteq Targets
    BY <1>13 DEF DropJournal
  <2>2. QED
    BY <1>13, <2>1 DEF DropJournal
<1>14. CASE FinishFails BY <1>14 DEF FinishFails
<1>15. CASE CrashCommand BY <1>15 DEF CrashCommand
<1>16. CASE EditFile BY <1>16 DEF EditFile
<1>17. CASE Resolve
  <2>1. next' \in [Targets -> Versions \cup {Unusable}] /\ edits' \in Nat
    BY <1>17 DEF Resolve
  <2>2. QED
    BY <1>17, <2>1 DEF Resolve
<1>18. CASE UNCHANGED commitVars BY <1>18 DEF commitVars
<1>19. QED
  BY <1>1, <1>2, <1>3, <1>4, <1>5, <1>6, <1>7, <1>8, <1>9, <1>10, <1>11, <1>12, <1>13, <1>14, <1>15, <1>16, <1>17, <1>18 DEF CommitNext

LEMMA CommitPhases ==
    ASSUME CommitBase, [CommitNext]_commitVars PROVE Phases'
<1> USE ReportCommitAssumption DEF CommitBase, CommitTypeOK, disk, outside, Stop, Phases, Staging, Chosen, Finishing, Versions
<1>1. CASE StartCommand BY <1>1 DEF StartCommand
<1>2. CASE ReadRecord
  <2>1. files["record"] \in Versions
    BY DEF Targets
  <2>2. version' \in Versions
    BY <1>2, <2>1 DEF ReadRecord
  <2>3. QED
    BY <1>2, <2>2 DEF ReadRecord
<1>3. CASE StageReport BY <1>3 DEF StageReport
<1>4. CASE Select BY <1>4 DEF Select
<1>5. CASE Refuse BY <1>5 DEF Refuse
<1>6. CASE CheckTargets BY <1>6 DEF CheckTargets
<1>7. CASE WriteNext BY <1>7 DEF WriteNext
<1>8. CASE AllWritten BY <1>8 DEF AllWritten
<1>9. CASE CommitFails BY <1>9 DEF CommitFails
<1>10. CASE Commit BY <1>10 DEF Commit
<1>11. CASE FinishCheck BY <1>11 DEF FinishCheck
<1>12. CASE RenameTarget BY <1>12 DEF RenameTarget
<1>13. CASE DropJournal
  <2>1. pc' \in {"read", "idle"} /\ ~pending'
    BY <1>13 DEF DropJournal
  <2>2. pc' = "read" => command' # "recover"
    BY <1>13 DEF DropJournal
  <2>3. QED
    BY <2>1, <2>2
<1>14. CASE FinishFails BY <1>14 DEF FinishFails
<1>15. CASE CrashCommand BY <1>15 DEF CrashCommand
<1>16. CASE EditFile BY <1>16 DEF EditFile
<1>17. CASE Resolve
  <2>1. pc' = "idle"
    BY <1>17 DEF Resolve
  <2>2. QED
    BY <2>1
<1>18. CASE UNCHANGED commitVars BY <1>18 DEF commitVars
<1>19. QED
  BY <1>1, <1>2, <1>3, <1>4, <1>5, <1>6, <1>7, <1>8, <1>9, <1>10, <1>11, <1>12, <1>13, <1>14, <1>15, <1>16, <1>17, <1>18 DEF CommitNext

LEMMA CommitWritten ==
    ASSUME CommitBase, [CommitNext]_commitVars PROVE Written'
<1> USE ReportCommitAssumption DEF CommitBase, CommitTypeOK, disk, outside, Stop, Written, Phases, Staging, Chosen, Finishing, Strays, Conflict, Applied
<1>1. CASE StartCommand BY <1>1 DEF StartCommand
<1>2. CASE ReadRecord BY <1>2 DEF ReadRecord
<1>3. CASE StageReport BY <1>3 DEF StageReport
<1>4. CASE Select BY <1>4 DEF Select
<1>5. CASE Refuse BY <1>5 DEF Refuse
<1>6. CASE CheckTargets BY <1>6 DEF CheckTargets
<1>7. CASE WriteNext BY <1>7 DEF WriteNext
<1>8. CASE AllWritten BY <1>8 DEF AllWritten
<1>9. CASE CommitFails BY <1>9 DEF CommitFails
<1>10. CASE Commit BY <1>10 DEF Commit
<1>11. CASE FinishCheck BY <1>11 DEF FinishCheck
<1>12. CASE RenameTarget BY <1>12 DEF RenameTarget
<1>13. CASE DropJournal BY <1>13 DEF DropJournal
<1>14. CASE FinishFails BY <1>14 DEF FinishFails
<1>15. CASE CrashCommand BY <1>15 DEF CrashCommand
<1>16. CASE EditFile BY <1>16 DEF EditFile
<1>17. CASE Resolve BY <1>17 DEF Resolve
<1>18. CASE UNCHANGED commitVars BY <1>18 DEF commitVars
<1>19. QED
  BY <1>1, <1>2, <1>3, <1>4, <1>5, <1>6, <1>7, <1>8, <1>9, <1>10, <1>11, <1>12, <1>13, <1>14, <1>15, <1>16, <1>17, <1>18 DEF CommitNext

LEMMA CommitBaseKept == CommitBase /\ [CommitNext]_commitVars => CommitBase'
BY CommitTyping, CommitPhases, CommitWritten DEF CommitBase

LEMMA CommitStaged ==
    ASSUME CommitBase, Staged, [CommitNext]_commitVars PROVE Staged'
<1> USE ReportCommitAssumption DEF CommitBase, CommitTypeOK, disk, outside, Stop, Staged, Phases, Staging, Commands, Reports, Targets
<1>1. CASE StartCommand BY <1>1 DEF StartCommand
<1>2. CASE ReadRecord BY <1>2 DEF ReadRecord
<1>3. CASE StageReport BY <1>3 DEF StageReport
<1>4. CASE Select BY <1>4 DEF Select
<1>5. CASE Refuse BY <1>5 DEF Refuse
<1>6. CASE CheckTargets BY <1>6 DEF CheckTargets
<1>7. CASE WriteNext BY <1>7 DEF WriteNext
<1>8. CASE AllWritten BY <1>8 DEF AllWritten
<1>9. CASE CommitFails BY <1>9 DEF CommitFails
<1>10. CASE Commit BY <1>10 DEF Commit
<1>11. CASE FinishCheck BY <1>11 DEF FinishCheck
<1>12. CASE RenameTarget BY <1>12 DEF RenameTarget
<1>13. CASE DropJournal BY <1>13 DEF DropJournal
<1>14. CASE FinishFails BY <1>14 DEF FinishFails
<1>15. CASE CrashCommand BY <1>15 DEF CrashCommand
<1>16. CASE EditFile BY <1>16 DEF EditFile
<1>17. CASE Resolve BY <1>17 DEF Resolve
<1>18. CASE UNCHANGED commitVars BY <1>18 DEF commitVars
<1>19. QED
  BY <1>1, <1>2, <1>3, <1>4, <1>5, <1>6, <1>7, <1>8, <1>9, <1>10, <1>11, <1>12, <1>13, <1>14, <1>15, <1>16, <1>17, <1>18 DEF CommitNext

LEMMA CommitUnedited ==
    ASSUME Quiet, CommitBase, Unedited, [CommitNext]_commitVars PROVE Unedited'
<1> USE ReportCommitAssumption DEF CommitBase, CommitTypeOK, disk, outside, Stop, Unedited, Written, Phases, Staging, Chosen, Finishing, Window, Conflict, Applied
<1>1. CASE StartCommand BY <1>1 DEF StartCommand
<1>2. CASE ReadRecord BY <1>2 DEF ReadRecord
<1>3. CASE StageReport BY <1>3 DEF StageReport
<1>4. CASE Select BY <1>4 DEF Select
<1>5. CASE Refuse BY <1>5 DEF Refuse
<1>6. CASE CheckTargets BY <1>6 DEF CheckTargets
<1>7. CASE WriteNext BY <1>7 DEF WriteNext
<1>8. CASE AllWritten BY <1>8 DEF AllWritten
<1>9. CASE CommitFails BY <1>9 DEF CommitFails
<1>10. CASE Commit BY <1>10 DEF Commit
<1>11. CASE FinishCheck BY <1>11 DEF FinishCheck
<1>12. CASE RenameTarget BY <1>12 DEF RenameTarget
<1>13. CASE DropJournal BY <1>13 DEF DropJournal
<1>14. CASE FinishFails BY <1>14 DEF FinishFails
<1>15. CASE CrashCommand BY <1>15 DEF CrashCommand
<1>16. CASE EditFile BY <1>16 DEF EditFile
<1>17. CASE Resolve BY <1>17 DEF Resolve
<1>18. CASE UNCHANGED commitVars BY <1>18 DEF commitVars
<1>19. QED
  BY <1>1, <1>2, <1>3, <1>4, <1>5, <1>6, <1>7, <1>8, <1>9, <1>10, <1>11, <1>12, <1>13, <1>14, <1>15, <1>16, <1>17, <1>18 DEF CommitNext

LEMMA CommitCurrent ==
    ASSUME CommitBase, Unedited, Current, [CommitNext]_commitVars PROVE Current'
<1> USE ReportCommitAssumption DEF CommitBase, CommitTypeOK, disk, outside, Stop, Current, Unedited, Written, Phases, Staging, Chosen, Finishing, Commands, Reports, Targets, Changed
<1>1. CASE StartCommand BY <1>1 DEF StartCommand
<1>2. CASE ReadRecord BY <1>2 DEF ReadRecord
<1>3. CASE StageReport BY <1>3 DEF StageReport
<1>4. CASE Select BY <1>4 DEF Select
<1>5. CASE Refuse BY <1>5 DEF Refuse
<1>6. CASE CheckTargets BY <1>6 DEF CheckTargets
<1>7. CASE WriteNext BY <1>7 DEF WriteNext
<1>8. CASE AllWritten BY <1>8 DEF AllWritten
<1>9. CASE CommitFails BY <1>9 DEF CommitFails
<1>10. CASE Commit BY <1>10 DEF Commit
<1>11. CASE FinishCheck BY <1>11 DEF FinishCheck
<1>12. CASE RenameTarget BY <1>12 DEF RenameTarget
<1>13. CASE DropJournal BY <1>13 DEF DropJournal
<1>14. CASE FinishFails BY <1>14 DEF FinishFails
<1>15. CASE CrashCommand BY <1>15 DEF CrashCommand
<1>16. CASE EditFile BY <1>16 DEF EditFile
<1>17. CASE Resolve BY <1>17 DEF Resolve
<1>18. CASE UNCHANGED commitVars BY <1>18 DEF commitVars
<1>19. QED
  BY <1>1, <1>2, <1>3, <1>4, <1>5, <1>6, <1>7, <1>8, <1>9, <1>10, <1>11, <1>12, <1>13, <1>14, <1>15, <1>16, <1>17, <1>18 DEF CommitNext

LEMMA CommitRolls ==
    ASSUME CommitBase, Unedited, CanRollForward, [CommitNext]_commitVars PROVE CanRollForward'
<1> USE ReportCommitAssumption DEF CommitBase, CommitTypeOK, disk, outside, Stop, CanRollForward, Unedited, Written, Phases, Staging, Chosen, Finishing, Strays
<1>1. CASE StartCommand BY <1>1 DEF StartCommand
<1>2. CASE ReadRecord BY <1>2 DEF ReadRecord
<1>3. CASE StageReport BY <1>3 DEF StageReport
<1>4. CASE Select BY <1>4 DEF Select
<1>5. CASE Refuse BY <1>5 DEF Refuse
<1>6. CASE CheckTargets BY <1>6 DEF CheckTargets
<1>7. CASE WriteNext BY <1>7 DEF WriteNext
<1>8. CASE AllWritten BY <1>8 DEF AllWritten
<1>9. CASE CommitFails BY <1>9 DEF CommitFails
<1>10. CASE Commit BY <1>10 DEF Commit
<1>11. CASE FinishCheck BY <1>11 DEF FinishCheck
<1>12. CASE RenameTarget BY <1>12 DEF RenameTarget
<1>13. CASE DropJournal BY <1>13 DEF DropJournal
<1>14. CASE FinishFails BY <1>14 DEF FinishFails
<1>15. CASE CrashCommand BY <1>15 DEF CrashCommand
<1>16. CASE EditFile BY <1>16 DEF EditFile
<1>17. CASE Resolve BY <1>17 DEF Resolve
<1>18. CASE UNCHANGED commitVars BY <1>18 DEF commitVars
<1>19. QED
  BY <1>1, <1>2, <1>3, <1>4, <1>5, <1>6, <1>7, <1>8, <1>9, <1>10, <1>11, <1>12, <1>13, <1>14, <1>15, <1>16, <1>17, <1>18 DEF CommitNext

LEMMA CommitInvKept == Quiet /\ CommitInv /\ [CommitNext]_commitVars => CommitInv'
BY CommitBaseKept, CommitStaged, CommitUnedited, CommitCurrent, CommitRolls DEF CommitInv

-----------------------------------------------------------------------------
(* Types, whenever edits fall.                                             *)
THEOREM CommitTypes == CommitSpec => []CommitTypeOK
<1>1. CommitInit => CommitBase
  BY CommitInitial DEF CommitInv
<1>2. CommitBase => CommitTypeOK
  BY DEF CommitBase
<1>3. QED
  BY <1>1, <1>2, CommitBaseKept, PTL DEF CommitSpec

LEMMA CommitInvariant == ASSUME Quiet PROVE CommitSpec => []CommitInv
<1>1. CommitInv /\ [CommitNext]_commitVars => CommitInv'
  BY CommitInvKept
<1>2. QED
  BY <1>1, CommitInitial, PTL DEF CommitSpec

(* A crash after the commit point can always be rolled forward.            *)
THEOREM RollsForward == ASSUME Quiet PROVE CommitSpec => []CanRollForward
<1>1. CommitInv => CanRollForward
  BY DEF CommitInv
<1>2. QED
  BY <1>1, CommitInvariant, PTL

(* Without edits by hand the report always follows the record.             *)
THEOREM ReportFollows == ASSUME Quiet PROVE CommitSpec => []ReportFollowsRecord
<1>1. CommitInv => ReportFollowsRecord
  BY DEF CommitInv, Current, ReportFollowsRecord
<1>2. QED
  BY <1>1, CommitInvariant, PTL

(* A receipt replaces only what it was staged against.                     *)
THEOREM ReceiptsKeepEdits == ASSUME Quiet PROVE CommitSpec => []ReceiptsReplaceStaged
<1>1. CommitInv => ReceiptsReplaceStaged
  BY DEF CommitInv, Staged, Unedited, ReceiptsReplaceStaged
<1>2. QED
  BY <1>1, CommitInvariant, PTL

-----------------------------------------------------------------------------
LEMMA TreeWithoutJournal == ~pending /\ CommitTypeOK => Tree = files
BY DEF Tree, CommitTypeOK

LEMMA TreeInitial == CommitInit => Atomic!Init
<1> SUFFICES ASSUME CommitInit PROVE Atomic!Init
  OBVIOUS
<1>1. CommitTypeOK
  BY CommitInitial DEF CommitInv, CommitBase
<1>2. Tree = files
  BY <1>1, TreeWithoutJournal DEF CommitInit
<1>3. QED
  BY <1>1, <1>2 DEF CommitInit, CommitTypeOK, Atomic!Init

(* Every step is a step of AtomicFiles or changes nothing there.           *)
LEMMA TreeStep ==
    ASSUME Quiet, CommitInv, CommitInv', [CommitNext]_commitVars
    PROVE  [Atomic!Next]_(Atomic!vars)
<1> USE DEF disk, outside, Stop
<1>0. CommitTypeOK /\ CommitTypeOK'
  BY DEF CommitInv, CommitBase
<1>a. Tree \in [Targets -> Versions] /\ Tree' \in [Targets -> Versions]
  BY <1>0 DEF Tree, CommitTypeOK
<1>b. ASSUME UNCHANGED <<files, pending, entries, edits>> PROVE UNCHANGED <<Tree, edits>>
  BY <1>b DEF Tree
<1>c. ASSUME UNCHANGED <<Tree, edits, expected>> PROVE [Atomic!Next]_(Atomic!vars)
  BY <1>c DEF Atomic!vars
<1>d. ASSUME ~pending, UNCHANGED <<files, pending, entries, edits>>,
             NEW F \in SUBSET Targets,
             expected' = [f \in Targets |-> IF f \in F THEN files[f] ELSE expected[f]]
      PROVE  [Atomic!Next]_(Atomic!vars)
  <2>1. Tree = files
    BY <1>0, <1>d, TreeWithoutJournal
  <2>2. UNCHANGED <<Tree, edits>>
    BY <1>b, <1>d
  <2>3. QED
    BY <1>d, <2>1, <2>2 DEF Atomic!Next, Atomic!Stage
<1>e. ASSUME edits' = edits + 1, UNCHANGED expected PROVE [Atomic!Next]_(Atomic!vars)
  BY <1>a, <1>e DEF Atomic!Next, Atomic!Edit
<1>1. CASE StartCommand BY <1>1, <1>b, <1>c DEF StartCommand
<1>2. CASE ReadRecord
  <2>1. ~pending
    BY <1>2 DEF ReadRecord, CommitInv, CommitBase, Phases, Staging
  <2>2. expected' = [f \in Targets |-> IF f \in {"record"} THEN files[f] ELSE expected[f]]
    BY <1>2, <1>0 DEF ReadRecord, CommitTypeOK
  <2>3. QED
    BY <1>2, <2>1, <2>2, <1>d DEF ReadRecord, Targets
<1>3. CASE StageReport
  <2>1. ~pending
    BY <1>3 DEF StageReport, CommitInv, CommitBase, Phases, Staging
  <2>2. QED
    BY <1>3, <2>1, <1>d DEF StageReport, Targets
<1>4. CASE Select
  <2>1. ~pending
    BY <1>4 DEF Select, CommitInv, CommitBase, Phases, Staging
  <2>2. CASE expected' = expected
    BY <1>4, <2>2, <1>b, <1>c DEF Select
  <2>3. CASE expected' = [f \in Targets |-> IF f \in Changed THEN files[f] ELSE expected[f]]
    BY <1>4, <2>1, <2>3, <1>d DEF Select, Changed, Targets
  <2>4. QED
    BY <1>4, <2>2, <2>3 DEF Select
<1>5. CASE Refuse BY <1>5, <1>b, <1>c DEF Refuse
<1>6. CASE CheckTargets BY <1>6, <1>b, <1>c DEF CheckTargets
<1>7. CASE WriteNext BY <1>7, <1>b, <1>c DEF WriteNext
<1>8. CASE AllWritten BY <1>8, <1>b, <1>c DEF AllWritten
<1>9. CASE CommitFails BY <1>9, <1>b, <1>c DEF CommitFails
<1>10. CASE Commit
  <2>1. ~pending /\ Tree = files /\ version \in Versions
    BY <1>10, <1>0, TreeWithoutJournal
    DEF Commit, CommitInv, CommitBase, Phases, Staging, Chosen
  <2>2. \A f \in todo : files[f] = expected[f]
    BY <1>10 DEF Commit, CommitInv, Unedited
  <2>3. Tree' = [f \in Targets |-> IF f \in todo THEN version ELSE files[f]]
    BY <1>10, <1>0, <2>2 DEF Commit, Tree, CommitTypeOK
  <2>4. todo \in SUBSET Targets
    BY <1>0 DEF CommitTypeOK
  <2>5. Atomic!Commit
    BY <1>10, <2>1, <2>2, <2>3, <2>4 DEF Commit, Atomic!Commit
  <2>6. QED
    BY <2>5 DEF Atomic!Next
<1>11. CASE FinishCheck BY <1>11, <1>b, <1>c DEF FinishCheck
<1>12. CASE RenameTarget
  <2>1. PICK f \in todo : files' = [files EXCEPT ![f] = next[f]]
    BY <1>12 DEF RenameTarget
  <2>2. pending /\ f \in entries.set /\ next[f] = entries.to /\ files[f] = entries.from[f]
    BY <1>12, <2>1 DEF RenameTarget, CommitInv, CommitBase, Phases, Finishing, Written, Unedited
  <2>3. Tree' = Tree
    BY <1>12, <1>0, <2>1, <2>2 DEF RenameTarget, Tree, CommitTypeOK
  <2>4. QED
    BY <1>12, <2>3, <1>c DEF RenameTarget
<1>13. CASE DropJournal
  <2>1. \A f \in entries.set : files[f] = entries.to
    BY <1>13 DEF DropJournal, CommitInv, Unedited
  <2>2. Tree' = Tree
    BY <1>13, <2>1 DEF DropJournal, Tree
  <2>3. QED
    BY <1>13, <2>2, <1>c DEF DropJournal
<1>14. CASE FinishFails BY <1>14, <1>b, <1>c DEF FinishFails
<1>15. CASE CrashCommand BY <1>15, <1>b, <1>c DEF CrashCommand
<1>16. CASE EditFile BY <1>16, <1>e DEF EditFile
<1>17. CASE Resolve BY <1>17, <1>e DEF Resolve
<1>18. CASE UNCHANGED commitVars BY <1>18, <1>b, <1>c DEF commitVars
<1>19. QED
  BY <1>1, <1>2, <1>3, <1>4, <1>5, <1>6, <1>7, <1>8, <1>9, <1>10, <1>11, <1>12, <1>13, <1>14, <1>15, <1>16, <1>17, <1>18 DEF CommitNext

(* The journaled commit implements the atomic one.                         *)
THEOREM CommitIsAtomic == ASSUME Quiet PROVE CommitSpec => KeepsAtomic
<1>1. CommitInv /\ CommitInv' /\ [CommitNext]_commitVars => [Atomic!Next]_(Atomic!vars)
  BY TreeStep
<1>2. QED
  BY <1>1, TreeInitial, CommitInvariant, PTL DEF CommitSpec, KeepsAtomic, Atomic!Spec

(* No commit loses what somebody wrote.                                    *)
THEOREM CommitsAreSafe == ASSUME Quiet PROVE CommitSpec => []CommitIsSafe
<1>1. CanRollForward /\ ReportFollowsRecord /\ ReceiptsReplaceStaged => CommitIsSafe
  BY DEF CommitIsSafe
<1> QED
  BY <1>1, RollsForward, ReportFollows, ReceiptsKeepEdits, PTL

-----------------------------------------------------------------------------
(* The safety half of JournalResolved: a pending commit whose targets      *)
(* nobody touched is never in conflict, so that a recovery that gets       *)
(* through its steps rolls it forward.                                     *)
LEMMA ForwardIsFree ==
    ASSUME CanRollForward, pending, entries.set \cap touched = {}
    PROVE  ~Conflict
BY DEF CanRollForward, Conflict, Applied

(* Whatever crashed, a recovery is refused only because a target was       *)
(* edited (scripts/adoption-report-sync.mjs).                              *)
THEOREM RecoveryGoesThrough ==
    ASSUME Quiet PROVE CommitSpec => [](pending /\ entries.set \cap touched = {} => ~Conflict)
BY RollsForward, ForwardIsFree, PTL

-----------------------------------------------------------------------------
(* Edits and `render`.  StagedIsReplaced does not hold as it stands (run   *)
(* report_overwritten).  The one place that lets an edit through is        *)
(* between the rendering and the digests that `render` passes on: an edit  *)
(* at any other place outside the window is refused or rendered.           *)
DigestsUndisturbed == [][EditFile => pc # "select"]_commitVars

(* What `render` is about to replace is what it was rendered against.      *)
Rendered ==
    command = "render" =>
        /\ pc = "select" => \A f \in Reports : files[f] = seen[f]
        /\ pc \in {"check", "write", "journal"} =>
              todo \subseteq Reports /\ \A f \in todo : expected[f] = seen[f]

LEMMA RenderedKept ==
    ASSUME CommitTypeOK, Phases, Rendered, [CommitNext]_commitVars,
           [EditFile => pc # "select"]_commitVars
    PROVE  Rendered'
<1> USE DEF Rendered, disk, outside, Stop
<1>1. CASE StartCommand BY <1>1 DEF StartCommand
<1>2. CASE ReadRecord BY <1>2 DEF ReadRecord
<1>3. CASE StageReport BY <1>3 DEF StageReport, Targets, CommitTypeOK
<1>4. CASE Select
  <2>1. command = "render" => Changed \subseteq Reports
    BY DEF Changed
  <2>2. \A f \in Reports : f \in Targets
    BY DEF Targets
  <2> QED
    BY <1>4, <2>1, <2>2 DEF Select
<1>5. CASE Refuse BY <1>5 DEF Refuse
<1>6. CASE CheckTargets BY <1>6 DEF CheckTargets
<1>7. CASE WriteNext BY <1>7 DEF WriteNext
<1>8. CASE AllWritten BY <1>8 DEF AllWritten
<1>9. CASE CommitFails BY <1>9 DEF CommitFails
<1>10. CASE Commit BY <1>10 DEF Commit
<1>11. CASE FinishCheck BY <1>11 DEF FinishCheck
<1>12. CASE RenameTarget BY <1>12 DEF RenameTarget
<1>13. CASE DropJournal BY <1>13 DEF DropJournal
<1>14. CASE FinishFails BY <1>14 DEF FinishFails
<1>15. CASE CrashCommand BY <1>15 DEF CrashCommand
<1>16. CASE EditFile BY <1>16 DEF EditFile, commitVars
<1>17. CASE Resolve BY <1>17 DEF Resolve
<1>18. CASE UNCHANGED commitVars BY <1>18 DEF commitVars
<1>19. QED
  BY <1>1, <1>2, <1>3, <1>4, <1>5, <1>6, <1>7, <1>8, <1>9, <1>10, <1>11, <1>12, <1>13, <1>14,
     <1>15, <1>16, <1>17, <1>18 DEF CommitNext

(* With no edit at that one place, every commit, of a receipt or of a      *)
(* rendered report, replaces only what its update was staged against.      *)
THEOREM StagedUnlessDisturbed ==
    ASSUME Quiet PROVE CommitSpec /\ DigestsUndisturbed => []StagedIsReplaced
<1>1. CommitInit => Rendered
  BY DEF CommitInit, Rendered
<1>2. CommitInv /\ Rendered /\ [CommitNext]_commitVars
          /\ [EditFile => pc # "select"]_commitVars => Rendered'
  BY RenderedKept DEF CommitInv, CommitBase
<1>3. CommitInv /\ Rendered => StagedIsReplaced
  <2> SUFFICES ASSUME CommitInv, Rendered, pc = "journal", NEW f \in todo
               PROVE  files[f] = seen[f]
    BY DEF StagedIsReplaced
  <2>1. files[f] = expected[f]
    BY DEF CommitInv, Unedited
  <2>2. command \in {"record", "render"}
    BY DEF CommitInv, CommitBase, Phases, Staging, CommitTypeOK, Commands
  <2>3. CASE command = "record"
    BY <2>1, <2>3 DEF CommitInv, Staged
  <2>4. CASE command = "render"
    BY <2>1, <2>4 DEF Rendered
  <2> QED
    BY <2>2, <2>3, <2>4
<1> QED
  BY <1>1, <1>2, <1>3, CommitInvariant, PTL DEF CommitSpec, DigestsUndisturbed

-----------------------------------------------------------------------------
(* The deployment of the site.  The inductive invariant DeployInv follows  *)
(* the job: the listing was verified before anything is copied or moved,   *)
(* the plan spares what was published and what was read as live, and a     *)
(* recent reader holds what is published or what it replaced.              *)

Verified == {"copyPointer", "copyIndex", "movePointer", "moveIndex", "retain", "prune"}
Deploying == {"upload"} \cup Verified
Unmoved == Deploying \ {"moveIndex", "retain", "prune"}

(* Where the markers stand at each place of a job or a rollback.           *)
JobState ==
    /\ job \in Deploying => publishing \in Bundles
    /\ job \in Verified => Whole(publishing) /\ publishing \notin broken
    /\ job \in Unmoved => pointer = replaced
    /\ job = "moveIndex" => pointer = publishing
    /\ job \in {"retain", "prune"} => pointer = publishing /\ index = publishing
    /\ job = "prune" => doomed \cap {publishing, previous.pointer} = {}
    /\ job = "rollback" => rollback.pointer # NoBundle

(* A recent reader holds what is live, published or replaced.              *)
ReaderHolds ==
    /\ (held # NoBundle /\ age = 0) => job = "idle" /\ pointer = held /\ index = held
    /\ (held # NoBundle /\ age = 1 /\ job \in Deploying) => held \in {publishing, replaced}

DeployInv ==
    /\ DeployTypeOK
    /\ JobState
    /\ PublishedIsWhole
    /\ ReaderHolds
    /\ ReaderFindsParts

-----------------------------------------------------------------------------
LEMMA DeployInitial == DeployInit => DeployInv
BY DeployAssumption
DEF DeployInit, DeployInv, DeployTypeOK, JobState, PublishedIsWhole, ReaderHolds, Unmoved,
    ReaderFindsParts, Named, Marks, NoMarks, Jobs, Deploying, Verified

LEMMA DeployTyping ==
    ASSUME DeployTypeOK, JobState, [DeployNext]_deployVars
    PROVE  DeployTypeOK'
<1> USE DeployAssumption DEF DeployTypeOK, markers, deployment, plan, reader, Named, Marks, Jobs, Older, Whole, PutBack,
           NoMarks, AfterListing, JobState, Deploying, Verified, Stored
<1>1. CASE Dispatch BY <1>1 DEF Dispatch, ReadMarkers, ReadFails, LiveMarks, NoMarks
<1>2. CASE UploadPart BY <1>2 DEF UploadPart
<1>3. CASE VerifyListing BY <1>3 DEF VerifyListing
<1>4. CASE CopyPointer BY <1>4 DEF CopyPointer
<1>5. CASE CopyIndex BY <1>5 DEF CopyIndex
<1>6. CASE MovePointer BY <1>6 DEF MovePointer
<1>7. CASE MoveIndex BY <1>7 DEF MoveIndex
<1>8. CASE PlanRetention BY <1>8 DEF PlanRetention
<1>9. CASE PrunePart BY <1>9 DEF PrunePart
<1>10. CASE EndDeployment BY <1>10 DEF EndDeployment
<1>11. CASE JobInterrupted BY <1>11 DEF JobInterrupted
<1>12. CASE RollBackPointer BY <1>12 DEF RollBackPointer
<1>13. CASE RollBackIndex BY <1>13 DEF RollBackIndex
<1>14. CASE ResolvePointer BY <1>14 DEF ResolvePointer
<1>15. CASE UNCHANGED deployVars BY <1>15 DEF deployVars
<1> QED
  BY <1>1, <1>2, <1>3, <1>4, <1>5, <1>6, <1>7, <1>8, <1>9, <1>10, <1>11, <1>12, <1>13, <1>14,
     <1>15 DEF DeployNext, JobStep

LEMMA DeployJobState ==
    ASSUME DeployTypeOK, JobState, [DeployNext]_deployVars
    PROVE  JobState'
<1> USE DeployAssumption DEF DeployTypeOK, markers, deployment, plan, reader, Named, Marks, Jobs, Older, Whole, PutBack,
           JobState, Deploying, Verified, Unmoved, AfterListing
<1>1. CASE Dispatch BY <1>1 DEF Dispatch, ReadMarkers, ReadFails, LiveMarks, NoMarks
<1>2. CASE UploadPart BY <1>2 DEF UploadPart
<1>3. CASE VerifyListing BY <1>3 DEF VerifyListing
<1>4. CASE CopyPointer BY <1>4 DEF CopyPointer
<1>5. CASE CopyIndex BY <1>5 DEF CopyIndex
<1>6. CASE MovePointer BY <1>6 DEF MovePointer
<1>7. CASE MoveIndex BY <1>7 DEF MoveIndex
<1>8. CASE PlanRetention BY <1>8 DEF PlanRetention
<1>9. CASE PrunePart BY <1>9 DEF PrunePart
<1>10. CASE EndDeployment BY <1>10 DEF EndDeployment
<1>11. CASE JobInterrupted BY <1>11 DEF JobInterrupted
<1>12. CASE RollBackPointer BY <1>12 DEF RollBackPointer
<1>13. CASE RollBackIndex BY <1>13 DEF RollBackIndex
<1>14. CASE ResolvePointer BY <1>14 DEF ResolvePointer
<1>15. CASE UNCHANGED deployVars BY <1>15 DEF deployVars
<1> QED
  BY <1>1, <1>2, <1>3, <1>4, <1>5, <1>6, <1>7, <1>8, <1>9, <1>10, <1>11, <1>12, <1>13, <1>14,
     <1>15 DEF DeployNext, JobStep

(* What a marker names stays whole: it is never in the plan.               *)
LEMMA DeployWhole ==
    ASSUME DeployTypeOK, JobState, PublishedIsWhole, [DeployNext]_deployVars
    PROVE  PublishedIsWhole'
<1> USE DeployAssumption DEF DeployTypeOK, markers, deployment, plan, reader, Named, Marks, Jobs, Older, Whole, PutBack,
           JobState, PublishedIsWhole, Deploying, Verified
<1>1. CASE Dispatch BY <1>1 DEF Dispatch, ReadMarkers, ReadFails, LiveMarks, NoMarks
<1>2. CASE UploadPart BY <1>2 DEF UploadPart
<1>3. CASE VerifyListing BY <1>3 DEF VerifyListing
<1>4. CASE CopyPointer BY <1>4 DEF CopyPointer
<1>5. CASE CopyIndex BY <1>5 DEF CopyIndex
<1>6. CASE MovePointer BY <1>6 DEF MovePointer
<1>7. CASE MoveIndex BY <1>7 DEF MoveIndex
<1>8. CASE PlanRetention BY <1>8 DEF PlanRetention
<1>9. CASE PrunePart BY <1>9 DEF PrunePart
<1>10. CASE EndDeployment BY <1>10 DEF EndDeployment
<1>11. CASE JobInterrupted BY <1>11 DEF JobInterrupted
<1>12. CASE RollBackPointer BY <1>12 DEF RollBackPointer
<1>13. CASE RollBackIndex BY <1>13 DEF RollBackIndex
<1>14. CASE ResolvePointer BY <1>14 DEF ResolvePointer
<1>15. CASE UNCHANGED deployVars BY <1>15 DEF deployVars
<1> QED
  BY <1>1, <1>2, <1>3, <1>4, <1>5, <1>6, <1>7, <1>8, <1>9, <1>10, <1>11, <1>12, <1>13, <1>14,
     <1>15 DEF DeployNext, JobStep

LEMMA DeployReader ==
    ASSUME DeployTypeOK, JobState, ReaderHolds, [DeployNext]_deployVars
    PROVE  ReaderHolds'
<1> USE DeployAssumption DEF DeployTypeOK, markers, deployment, plan, reader, Named, Marks, Jobs, Older, Whole, PutBack,
           JobState, ReaderHolds, Deploying, Verified, Unmoved, AfterListing
<1>1. CASE Dispatch BY <1>1 DEF Dispatch, ReadMarkers, ReadFails, LiveMarks, NoMarks
<1>2. CASE UploadPart BY <1>2 DEF UploadPart
<1>3. CASE VerifyListing BY <1>3 DEF VerifyListing
<1>4. CASE CopyPointer BY <1>4 DEF CopyPointer
<1>5. CASE CopyIndex BY <1>5 DEF CopyIndex
<1>6. CASE MovePointer BY <1>6 DEF MovePointer
<1>7. CASE MoveIndex BY <1>7 DEF MoveIndex
<1>8. CASE PlanRetention BY <1>8 DEF PlanRetention
<1>9. CASE PrunePart BY <1>9 DEF PrunePart
<1>10. CASE EndDeployment BY <1>10 DEF EndDeployment
<1>11. CASE JobInterrupted BY <1>11 DEF JobInterrupted
<1>12. CASE RollBackPointer BY <1>12 DEF RollBackPointer
<1>13. CASE RollBackIndex BY <1>13 DEF RollBackIndex
<1>14. CASE ResolvePointer BY <1>14 DEF ResolvePointer
<1>15. CASE UNCHANGED deployVars BY <1>15 DEF deployVars
<1> QED
  BY <1>1, <1>2, <1>3, <1>4, <1>5, <1>6, <1>7, <1>8, <1>9, <1>10, <1>11, <1>12, <1>13, <1>14,
     <1>15 DEF DeployNext, JobStep

(* What a recent reader holds is not in the plan either, unless it was     *)
(* overlooked.                                                             *)
LEMMA DeployFinds ==
    ASSUME DeployTypeOK, JobState, PublishedIsWhole, ReaderHolds, ReaderFindsParts,
           [DeployNext]_deployVars
    PROVE  ReaderFindsParts'
<1> USE DeployAssumption DEF DeployTypeOK, markers, deployment, plan, reader, Named, Marks, Jobs, Older, Whole, PutBack,
           JobState, PublishedIsWhole, ReaderHolds, ReaderFindsParts, Overlooked, Deploying, Verified
<1>1. CASE Dispatch BY <1>1 DEF Dispatch, ReadMarkers, ReadFails, LiveMarks, NoMarks
<1>2. CASE UploadPart BY <1>2 DEF UploadPart
<1>3. CASE VerifyListing BY <1>3 DEF VerifyListing
<1>4. CASE CopyPointer BY <1>4 DEF CopyPointer
<1>5. CASE CopyIndex BY <1>5 DEF CopyIndex
<1>6. CASE MovePointer BY <1>6 DEF MovePointer
<1>7. CASE MoveIndex BY <1>7 DEF MoveIndex
<1>8. CASE PlanRetention BY <1>8 DEF PlanRetention
<1>9. CASE PrunePart BY <1>9 DEF PrunePart
<1>10. CASE EndDeployment BY <1>10 DEF EndDeployment
<1>11. CASE JobInterrupted BY <1>11 DEF JobInterrupted
<1>12. CASE RollBackPointer BY <1>12 DEF RollBackPointer
<1>13. CASE RollBackIndex BY <1>13 DEF RollBackIndex
<1>14. CASE ResolvePointer BY <1>14 DEF ResolvePointer
<1>15. CASE UNCHANGED deployVars BY <1>15 DEF deployVars
<1> QED
  BY <1>1, <1>2, <1>3, <1>4, <1>5, <1>6, <1>7, <1>8, <1>9, <1>10, <1>11, <1>12, <1>13, <1>14,
     <1>15 DEF DeployNext, JobStep

LEMMA DeployInvKept == DeployInv /\ [DeployNext]_deployVars => DeployInv'
BY DeployTyping, DeployJobState, DeployWhole, DeployReader, DeployFinds DEF DeployInv

LEMMA DeployInvariant == DeploySpec => []DeployInv
BY DeployInitial, DeployInvKept, PTL DEF DeploySpec

-----------------------------------------------------------------------------
THEOREM DeployTypes == DeploySpec => []DeployTypeOK
<1>1. DeployInv => DeployTypeOK
  BY DEF DeployInv
<1>2. QED
  BY <1>1, DeployInvariant, PTL

(* A marker never names a bundle with a missing part, but for one that a   *)
(* rollback put back incomplete.                                           *)
THEOREM PublishedStaysWhole == DeploySpec => []PublishedIsWhole
<1>1. DeployInv => PublishedIsWhole
  BY DEF DeployInv
<1>2. QED
  BY <1>1, DeployInvariant, PTL

(* A reader finds every part until a second deployment or rollback begins, *)
(* unless the deployment under way overlooked the bundle that was live.    *)
THEOREM ReadersFindParts == DeploySpec => []ReaderFindsParts
<1>1. DeployInv => ReaderFindsParts
  BY DEF DeployInv
<1>2. QED
  BY <1>1, DeployInvariant, PTL

(* Nobody follows a name to a part that is not there, but for a bundle a   *)
(* rollback put back incomplete and one that a deployment overlooked.      *)
THEOREM NothingGoesMissing == DeploySpec => []NothingIsMissing
<1>1. PublishedIsWhole /\ ReaderFindsParts => NothingIsMissing
  BY DEF NothingIsMissing
<1> QED
  BY <1>1, PublishedStaysWhole, ReadersFindParts, PTL

-----------------------------------------------------------------------------
(* The reads of the live markers.  As long as every one succeeds, what was *)
(* live when a deployment started is what it calls previous.               *)
LiveIsRead == [][Dispatch => previous' = LiveMarks]_deployVars

LiveIsPrevious ==
    (job \in Unmoved /\ pointer # NoBundle /\ index # NoBundle) => previous.pointer = pointer

ReaderKnown ==
    (held # NoBundle /\ age = 1 /\ job \in Deploying) => held \in {publishing, previous.pointer}

LiveInv == LiveIsPrevious /\ ReaderKnown /\ LiveStaysReachable

LEMMA LiveInitial == DeployInit => LiveInv
BY DeployAssumption
DEF DeployInit, LiveInv, LiveIsPrevious, ReaderKnown, LiveStaysReachable, Deploying, Verified,
    Unmoved

LEMMA LiveKept ==
    ASSUME DeployInv, LiveInv, [DeployNext]_deployVars,
           [Dispatch => previous' = LiveMarks]_deployVars
    PROVE  LiveInv'
<1> USE DeployAssumption DEF DeployTypeOK, markers, deployment, plan, reader, Named, Marks, Jobs, Older, Whole, PutBack,
        JobState, PublishedIsWhole, ReaderHolds, Deploying, Verified, Unmoved, AfterListing,
        DeployInv, LiveInv, LiveIsPrevious, ReaderKnown, LiveStaysReachable
<1>1. CASE Dispatch
  <2>1. previous' = LiveMarks
    BY <1>1 DEF Dispatch, deployVars
  <2> QED
    BY <1>1, <2>1 DEF Dispatch, LiveMarks, NoMarks
<1>2. CASE UploadPart BY <1>2 DEF UploadPart
<1>3. CASE VerifyListing BY <1>3 DEF VerifyListing
<1>4. CASE CopyPointer BY <1>4 DEF CopyPointer
<1>5. CASE CopyIndex BY <1>5 DEF CopyIndex
<1>6. CASE MovePointer BY <1>6 DEF MovePointer
<1>7. CASE MoveIndex BY <1>7 DEF MoveIndex
<1>8. CASE PlanRetention BY <1>8 DEF PlanRetention
<1>9. CASE PrunePart BY <1>9 DEF PrunePart
<1>10. CASE EndDeployment BY <1>10 DEF EndDeployment
<1>11. CASE JobInterrupted BY <1>11 DEF JobInterrupted
<1>12. CASE RollBackPointer BY <1>12 DEF RollBackPointer
<1>13. CASE RollBackIndex BY <1>13 DEF RollBackIndex
<1>14. CASE ResolvePointer BY <1>14 DEF ResolvePointer
<1>15. CASE UNCHANGED deployVars BY <1>15 DEF deployVars
<1> QED
  BY <1>1, <1>2, <1>3, <1>4, <1>5, <1>6, <1>7, <1>8, <1>9, <1>10, <1>11, <1>12, <1>13, <1>14,
     <1>15 DEF DeployNext, JobStep

(* A failed read is the only way in which the bundle a reader holds loses  *)
(* its parts: where every read succeeds, what was live stays reachable     *)
(* until a second deployment or rollback begins.                           *)
THEOREM LiveStaysUnlessUnread == DeploySpec /\ LiveIsRead => []LiveStaysReachable
<1>1. LiveInv => LiveStaysReachable
  BY DEF LiveInv
<1>2. DeployInv /\ LiveInv /\ [DeployNext]_deployVars
          /\ [Dispatch => previous' = LiveMarks]_deployVars => LiveInv'
  BY LiveKept
<1> QED
  BY <1>1, <1>2, LiveInitial, DeployInvariant, PTL DEF DeploySpec, LiveIsRead

-----------------------------------------------------------------------------
(* The rollback target.  RollbackRetained does not hold as it stands (run  *)
(* deployment_rollback); it does as long as no deployment publishes the    *)
(* bundle that is already live and every read of the live markers          *)
(* succeeds: in the two other cases the workflow leaves the rollback       *)
(* copies alone and its plan forgets what they name.                       *)
LiveNotRedeployed == [][Dispatch => publishing' # pointer]_deployVars

Copied == {"copyIndex", "movePointer", "moveIndex", "retain", "prune"}

(* What the copies name is whole and, once they were taken, the previous   *)
(* bundle, which the plan spares; so a rollback puts back nothing that is  *)
(* incomplete.  Before two markers ever went live there is nothing to go   *)
(* back to.                                                                *)
RollbackInv ==
    /\ rollback.pointer # NoBundle => Whole(rollback.pointer)
    /\ pointer # NoBundle => Whole(pointer)
    /\ (pointer = NoBundle \/ index = NoBundle) => rollback.pointer = NoBundle
    /\ job \in Deploying =>
          /\ previous.pointer # publishing
          /\ previous.pointer = NoBundle => rollback.pointer = NoBundle
          /\ previous.pointer # NoBundle => pointer # NoBundle /\ index # NoBundle
    /\ job \in Copied => rollback.pointer = previous.pointer

LEMMA RollbackInitial == DeployInit => RollbackInv
BY DEF DeployInit, RollbackInv, NoMarks, Deploying, Verified, Copied

LEMMA RollbackKept ==
    ASSUME DeployInv, LiveInv, RollbackInv, [DeployNext]_deployVars,
           [Dispatch => publishing' # pointer]_deployVars,
           [Dispatch => previous' = LiveMarks]_deployVars
    PROVE  RollbackInv'
<1> USE DeployAssumption DEF DeployTypeOK, markers, deployment, plan, reader, Named, Marks, Jobs, Older, Whole, PutBack,
        JobState, Deploying, Verified, Unmoved, Copied, RollbackInv, DeployInv, LiveInv, LiveIsPrevious
<1>1. CASE Dispatch
  <2>1. previous' = LiveMarks /\ publishing' # pointer
    BY <1>1 DEF Dispatch, deployVars
  <2> QED
    BY <1>1, <2>1 DEF Dispatch, LiveMarks, NoMarks
<1>2. CASE UploadPart BY <1>2 DEF UploadPart
<1>3. CASE VerifyListing BY <1>3 DEF VerifyListing, AfterListing
<1>4. CASE CopyPointer BY <1>4 DEF CopyPointer
<1>5. CASE CopyIndex BY <1>5 DEF CopyIndex
<1>6. CASE MovePointer BY <1>6 DEF MovePointer
<1>7. CASE MoveIndex BY <1>7 DEF MoveIndex
<1>8. CASE PlanRetention BY <1>8 DEF PlanRetention
<1>9. CASE PrunePart BY <1>9 DEF PrunePart
<1>10. CASE EndDeployment BY <1>10 DEF EndDeployment
<1>11. CASE JobInterrupted BY <1>11 DEF JobInterrupted
<1>12. CASE RollBackPointer BY <1>12 DEF RollBackPointer
<1>13. CASE RollBackIndex BY <1>13 DEF RollBackIndex
<1>14. CASE ResolvePointer BY <1>14 DEF ResolvePointer
<1>15. CASE UNCHANGED deployVars BY <1>15 DEF deployVars
<1> QED
  BY <1>1, <1>2, <1>3, <1>4, <1>5, <1>6, <1>7, <1>8, <1>9, <1>10, <1>11, <1>12, <1>13, <1>14,
     <1>15 DEF DeployNext, JobStep

(* The rollback target is whole at any time, also while a deployment runs, *)
(* as long as none publishes the live bundle again and none fails to read  *)
(* the live markers.                                                       *)
THEOREM RollbackStaysWhole ==
    DeploySpec /\ LiveNotRedeployed /\ LiveIsRead => []RollbackRetained
<1>1. RollbackInv => RollbackRetained
  BY DEF RollbackInv, RollbackRetained
<1>2. DeployInv /\ LiveInv /\ [DeployNext]_deployVars
          /\ [Dispatch => previous' = LiveMarks]_deployVars => LiveInv'
  BY LiveKept
<1>3. DeployInv /\ LiveInv /\ RollbackInv /\ [DeployNext]_deployVars
          /\ [Dispatch => publishing' # pointer]_deployVars
          /\ [Dispatch => previous' = LiveMarks]_deployVars => RollbackInv'
  BY RollbackKept
<1> QED
  BY <1>1, <1>2, <1>3, LiveInitial, RollbackInitial, DeployInvariant, PTL
  DEF DeploySpec, LiveNotRedeployed, LiveIsRead

-----------------------------------------------------------------------------
(* The safety half of MarkersAgree: pointer and index disagree only        *)
(* between the two requests that move them, or after an interruption or a  *)
(* failed read.                                                            *)
MarkersApart ==
    pointer # index => job \in {"moveIndex", "rollback"} \/ failures > 0

RollbackUnderWay == job = "rollback" => pointer = rollback.pointer

(* Without an interruption the two copies are taken together.              *)
CopiesAgree ==
    failures = 0 =>
        /\ job = "copyIndex" => rollback.pointer = previous.pointer
        /\ job # "copyIndex" => rollback.index = rollback.pointer
        /\ job \in Deploying => previous.index = previous.pointer

LEMMA MarkersKept ==
    ASSUME DeployTypeOK, JobState, RollbackUnderWay, MarkersApart, CopiesAgree,
           [DeployNext]_deployVars
    PROVE  RollbackUnderWay' /\ MarkersApart' /\ CopiesAgree'
<1> USE DeployAssumption DEF DeployTypeOK, Marks, markers, deployment, plan, reader, Older, JobState, Deploying, Verified,
        RollbackUnderWay, MarkersApart, CopiesAgree
<1>1. CASE Dispatch
  <2>1. CASE ReadMarkers
    BY <1>1, <2>1 DEF Dispatch, ReadMarkers, LiveMarks, NoMarks
  <2>2. CASE ReadFails
    <3>1. failures' > 0
      BY <2>2 DEF ReadFails
    <3> QED
      BY <1>1, <3>1 DEF Dispatch
  <2> QED
    BY <1>1, <2>1, <2>2 DEF Dispatch
<1>2. CASE UploadPart BY <1>2 DEF UploadPart
<1>3. CASE VerifyListing BY <1>3 DEF VerifyListing, AfterListing
<1>4. CASE CopyPointer BY <1>4 DEF CopyPointer
<1>5. CASE CopyIndex BY <1>5 DEF CopyIndex
<1>6. CASE MovePointer BY <1>6 DEF MovePointer
<1>7. CASE MoveIndex BY <1>7 DEF MoveIndex
<1>8. CASE PlanRetention BY <1>8 DEF PlanRetention
<1>9. CASE PrunePart BY <1>9 DEF PrunePart
<1>10. CASE EndDeployment BY <1>10 DEF EndDeployment
<1>11. CASE JobInterrupted
  <2>1. failures' > 0
    BY <1>11 DEF JobInterrupted
  <2> QED
    BY <1>11, <2>1 DEF JobInterrupted
<1>12. CASE RollBackPointer BY <1>12 DEF RollBackPointer
<1>13. CASE RollBackIndex BY <1>13 DEF RollBackIndex
<1>14. CASE ResolvePointer BY <1>14 DEF ResolvePointer
<1>15. CASE UNCHANGED deployVars BY <1>15 DEF deployVars
<1> QED
  BY <1>1, <1>2, <1>3, <1>4, <1>5, <1>6, <1>7, <1>8, <1>9, <1>10, <1>11, <1>12, <1>13, <1>14,
     <1>15 DEF DeployNext, JobStep

(* The markers differ, so that readers are refused, only between the two   *)
(* requests that move them, as long as no job was interrupted and no read  *)
(* of the live markers failed.                                             *)
THEOREM MarkersMoveTogether == DeploySpec => []MarkersApart
<1>1. DeployInit => RollbackUnderWay /\ MarkersApart /\ CopiesAgree
  BY DEF DeployInit, RollbackUnderWay, MarkersApart, CopiesAgree, NoMarks, Deploying, Verified
<1>2. DeployInv /\ RollbackUnderWay /\ MarkersApart /\ CopiesAgree /\ [DeployNext]_deployVars
          => RollbackUnderWay' /\ MarkersApart' /\ CopiesAgree'
  BY MarkersKept DEF DeployInv
<1> QED
  BY <1>1, <1>2, DeployInvariant, PTL DEF DeploySpec

===============================================================================
