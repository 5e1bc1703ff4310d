------------------------ MODULE GeneratedPublication ------------------------
(***************************************************************************)
(* The publication of generated reports together with the record that      *)
(* names them (scripts/lib/generated-output.mjs): the targets are replaced *)
(* one by one, the record last, and restored in the opposite order when    *)
(* one of them fails.  A restoration may fail as well; the error then      *)
(* carries the bytes to restore by hand.  One publication runs at a time,  *)
(* each may crash between two file operations, and a crash may leave the   *)
(* temporary file of the target it was at.                                 *)
(*                                                                         *)
(* The contents of a target are the number of the publication that wrote   *)
(* it, 0 for none; the targets are 1..LastTarget in the order they are     *)
(* replaced, the record is the last.  An operator commented "Slip" is a    *)
(* plausible mistake in the operator after it, used by no specification.   *)
(***************************************************************************)
EXTENDS Naturals

CONSTANTS
    LastTarget,       \* the record; the reports are before it
    MaxPublications   \* bound: publications ever begun

ASSUME GeneratedAssumption == LastTarget \in Nat \ {0, 1} /\ MaxPublications \in Nat

VARIABLES
    output,      \* per target, its contents
    leftover,    \* the targets whose temporary file exists
    phase,       \* where the publication is
    count,       \* publications begun: the number of the one under way
    before,      \* per target, the contents it found
    applied,     \* how many targets it has pushed on its list
    recovery,    \* the targets its error names, to be restored by hand
    unreported   \* those of a rollback that died before it threw its error

generatedVars == <<output, leftover, phase, count, before, applied, recovery, unreported>>

OutputTarget == 1..LastTarget
Publication == 0..MaxPublications

GeneratedTypeOK ==
    /\ output \in [OutputTarget -> Publication]
    /\ leftover \subseteq OutputTarget
    /\ phase \in {"idle", "apply", "restore", "failed"}
    /\ count \in Publication
    /\ before \in [OutputTarget -> Publication]
    /\ applied \in 0..LastTarget
    /\ recovery \subseteq OutputTarget
    /\ unreported \subseteq OutputTarget

GeneratedInit ==
    /\ output = [t \in OutputTarget |-> 0]
    /\ leftover = {}
    /\ phase = "idle"
    /\ count = 0
    /\ before = output
    /\ applied = 0
    /\ recovery = {}
    /\ unreported = {}

-----------------------------------------------------------------------------
(* Every staged file is read before the first target is replaced, and so   *)
(* are the contents of the targets.                                        *)
BeginPublication ==
    /\ phase = "idle"
    /\ count < MaxPublications
    /\ count' = count + 1
    /\ before' = output
    /\ applied' = 0
    /\ phase' = "apply"
    /\ UNCHANGED <<output, leftover, recovery, unreported>>

(* atomicWrite of the next target.  A temporary file that a crash left     *)
(* refuses it, and is removed; the target is on the list before it is      *)
(* written.                                                                *)
ApplyTarget ==
    /\ phase = "apply"
    /\ applied < LastTarget
    /\ applied + 1 \notin leftover
    /\ applied' = applied + 1
    /\ output' = [output EXCEPT ![applied + 1] = count]
    /\ UNCHANGED <<leftover, phase, count, before, recovery, unreported>>

(* Slip: a target is on the list after it was written. *)
ApplyFailsUnlisted ==
    /\ phase = "apply"
    /\ applied < LastTarget
    /\ leftover' = leftover \ {applied + 1}
    /\ \/ UNCHANGED output
       \/ applied + 1 \notin leftover /\ output' = [output EXCEPT ![applied + 1] = count]
    /\ phase' = "restore"
    /\ UNCHANGED <<count, before, applied, recovery, unreported>>

(* The write throws, before the rename or, reported late, after it.        *)
ApplyFails ==
    /\ phase = "apply"
    /\ applied < LastTarget
    /\ applied' = applied + 1
    /\ leftover' = leftover \ {applied + 1}
    /\ \/ UNCHANGED output
       \/ applied + 1 \notin leftover /\ output' = [output EXCEPT ![applied + 1] = count]
    /\ phase' = "restore"
    /\ UNCHANGED <<count, before, recovery, unreported>>

(* A target that already has its former contents is left alone.            *)
RestoreTarget ==
    /\ phase = "restore"
    /\ applied > 0
    /\ applied' = applied - 1
    /\ output' = [output EXCEPT ![applied] = before[applied]]
    /\ UNCHANGED <<leftover, phase, count, before, recovery, unreported>>

RestoreFails ==
    /\ phase = "restore"
    /\ applied > 0
    /\ output[applied] # before[applied]
    /\ output' \in {output, [output EXCEPT ![applied] = before[applied]]}
    /\ recovery' = recovery \cup {applied}
    /\ applied' = applied - 1
    /\ UNCHANGED <<leftover, phase, count, before, unreported>>

Publish ==
    /\ phase = "apply"
    /\ applied = LastTarget
    /\ phase' = "idle"
    /\ unreported' = {}
    /\ UNCHANGED <<output, leftover, count, before, applied, recovery>>

ThrowError ==
    /\ phase = "restore"
    /\ applied = 0
    /\ phase' = "failed"
    /\ UNCHANGED <<output, leftover, count, before, applied, recovery, unreported>>

(* "Restore these targets before retrying": by hand, in any order.         *)
RestoreByHand ==
    /\ phase = "failed"
    /\ \E t \in recovery :
          /\ output' = [output EXCEPT ![t] = before[t]]
          /\ recovery' = recovery \ {t}
    /\ UNCHANGED <<leftover, phase, count, before, applied, unreported>>

Retry ==
    /\ phase = "failed"
    /\ recovery = {}
    /\ phase' = "idle"
    /\ UNCHANGED <<output, leftover, count, before, applied, recovery, unreported>>

(* Slip: the crash is taken to be at the next target, whichever it is. *)
GeneratedCrashPastEnd ==
    /\ phase \in {"apply", "restore"}
    /\ phase' = "idle"
    /\ leftover' = leftover \cup {applied + 1}
    /\ unreported' = unreported \cup recovery
    /\ recovery' = {}
    /\ UNCHANGED <<output, count, before, applied>>

(* The process dies, perhaps between a temporary file and its rename.      *)
GeneratedCrash ==
    /\ phase \in {"apply", "restore"}
    /\ phase' = "idle"
    /\ LET at == IF phase = "apply" THEN applied + 1 ELSE applied
       IN  leftover' \in {leftover, leftover \cup ({at} \cap OutputTarget)}
    /\ unreported' = unreported \cup recovery
    /\ recovery' = {}
    /\ UNCHANGED <<output, count, before, applied>>

GeneratedNext ==
    \/ BeginPublication \/ ApplyTarget \/ ApplyFails \/ RestoreTarget \/ RestoreFails
    \/ Publish \/ ThrowError \/ RestoreByHand \/ Retry \/ GeneratedCrash

GeneratedSpec == GeneratedInit /\ [][GeneratedNext]_generatedVars

-----------------------------------------------------------------------------
(* "No receipt points at partial data": whatever fails or crashes, the     *)
(* record is never newer than a report, unless its own restoration failed. *)
RecordNeverAhead ==
    \A t \in OutputTarget :
        output[LastTarget] > output[t] => LastTarget \in recovery \cup unreported

(* "A late filesystem failure restores both existing reports and the       *)
(* registry": a publication that failed left every target as it found it,  *)
(* or named the ones it did not in its error.                              *)
FailureRestores ==
    phase = "failed" => \A t \in OutputTarget \ recovery : output[t] = before[t]

(* Whatever fails, the reports and the record agree or the error says what *)
(* to restore.                                                             *)
ReportsMatchRecord == RecordNeverAhead /\ FailureRestores
=============================================================================
