-------------------------- MODULE StagedMeasurement --------------------------
(***************************************************************************)
(* Measurement outputs (scripts/lib/measurement-output.mjs and             *)
(* staged-async-measurement.mjs): a bundle of files is staged under a lock *)
(* directory and renamed into place, a single file is staged and linked    *)
(* into place, and neither may replace a measurement that is already       *)
(* there.  The two kinds do not exclude each other: only the bundle takes  *)
(* the lock.  Any of them may fail or crash between two file operations;   *)
(* an operator removes the lock a crash left behind.                       *)
(*                                                                         *)
(* An operator commented "Slip" is a plausible mistake in the operator     *)
(* after it, used by no specification.                                     *)
(***************************************************************************)
EXTENDS FiniteSets

CONSTANTS
    Bundlers,    \* commands that write a directory
    Linkers,     \* commands that write one file
    Outputs,     \* the files of a bundle
    Nobody       \* no command

ASSUME MeasurementAssumption ==
    /\ Bundlers \cap Linkers = {}
    /\ Nobody \notin Bundlers \cup Linkers
    /\ Outputs # {}

VARIABLES
    target,     \* who wrote what is at the path, and which files it has
    locked,     \* the command that created the lock directory
    stage,      \* per command, the files in its own staging path
    step        \* per command, where it is

measurementVars == <<target, locked, stage, step>>

Writers == Bundlers \cup Linkers
Single == "file"
Empty == [by |-> Nobody, files |-> {}]
Free == target = Empty

MeasurementTypeOK ==
    /\ target \in [by : Writers \cup {Nobody}, files : SUBSET (Outputs \cup {Single})]
    /\ locked \in Bundlers \cup {Nobody}
    /\ stage \in [Writers -> SUBSET (Outputs \cup {Single})]
    /\ step \in [Writers -> {"new", "lock", "look", "write", "place", "clean",
                             "unlock", "over", "dead"}]

MeasurementInit ==
    /\ target = Empty
    /\ locked = Nobody
    /\ stage = [w \in Writers |-> {}]
    /\ step = [w \in Writers |-> "new"]

In(w, s) == step[w] = s
To(w, s) == step' = [step EXCEPT ![w] = s]

-----------------------------------------------------------------------------
(* Every command asks first, and measures for minutes or hours before it   *)
(* writes: measurementOutput refuses a path that exists.                   *)
AskOutput(w) ==
    /\ In(w, "new")
    /\ Free
    /\ To(w, IF w \in Bundlers THEN "lock" ELSE "write")
    /\ UNCHANGED <<target, locked, stage>>

(* Slip: the lock directory is created unless it exists. *)
LockAnyway(w) ==
    /\ In(w, "lock")
    /\ locked' = w
    /\ To(w, "look")
    /\ UNCHANGED <<target, stage>>

LockOutput(w) ==
    /\ In(w, "lock")
    /\ IF locked = Nobody
         THEN locked' = w /\ To(w, "look")
         ELSE To(w, "over") /\ UNCHANGED locked
    /\ UNCHANGED <<target, stage>>

LookAgain(w) ==
    /\ In(w, "look")
    /\ To(w, IF Free THEN "write" ELSE "clean")
    /\ UNCHANGED <<target, locked, stage>>

Wanted(w) == IF w \in Bundlers THEN Outputs ELSE {Single}

StageOutput(w) ==
    /\ In(w, "write")
    /\ \E f \in Wanted(w) \ stage[w] : stage' = [stage EXCEPT ![w] = @ \cup {f}]
    /\ UNCHANGED <<target, locked, step>>

StageDone(w) ==
    /\ In(w, "write")
    /\ stage[w] = Wanted(w)
    /\ To(w, "place")
    /\ UNCHANGED <<target, locked, stage>>

(* Slip: the single file is renamed into place, which replaces. *)
PlaceByRename(w) ==
    /\ In(w, "place")
    /\ IF Free \/ w \in Linkers
         THEN target' = [by |-> w, files |-> stage[w]]
         ELSE UNCHANGED target
    /\ To(w, "clean")
    /\ UNCHANGED <<locked, stage>>

(* A link is refused when the name exists, and so is the rename of a       *)
(* directory over a file or over a directory that has files.               *)
Place(w) ==
    /\ In(w, "place")
    /\ IF Free
         THEN target' = [by |-> w, files |-> stage[w]]
         ELSE UNCHANGED target
    /\ To(w, "clean")
    /\ UNCHANGED <<locked, stage>>

MeasurementFails(w) ==
    /\ step[w] \in {"look", "write", "place"}
    /\ To(w, "clean")
    /\ UNCHANGED <<target, locked, stage>>

CleanStage(w) ==
    /\ In(w, "clean")
    /\ stage' = [stage EXCEPT ![w] = {}]
    /\ To(w, IF w \in Bundlers THEN "unlock" ELSE "over")
    /\ UNCHANGED <<target, locked>>

Unlock(w) ==
    /\ In(w, "unlock")
    /\ locked' = Nobody
    /\ To(w, "over")
    /\ UNCHANGED <<target, stage>>

MeasurementCrash(w) ==
    /\ step[w] \notin {"new", "over", "dead"}
    /\ To(w, "dead")
    /\ UNCHANGED <<target, locked, stage>>

(* Slip: the staging path of the dead command is kept with its lock. *)
RemoveNoLock ==
    /\ locked # Nobody
    /\ In(locked, "dead")
    /\ stage' = [stage EXCEPT ![locked] = {}]
    /\ UNCHANGED <<target, locked, step>>

(* Nothing in the code removes the lock of a command that died: somebody   *)
(* does, who knows that it died.                                           *)
RemoveDeadLock ==
    /\ locked # Nobody
    /\ In(locked, "dead")
    /\ locked' = Nobody
    /\ UNCHANGED <<target, stage, step>>

MeasurementStep(w) ==
    \/ LookAgain(w) \/ StageOutput(w) \/ StageDone(w) \/ Place(w)
    \/ CleanStage(w) \/ Unlock(w)

MeasurementNext ==
    \/ \E w \in Writers : \/ AskOutput(w) \/ MeasurementStep(w)
                          \/ MeasurementFails(w) \/ MeasurementCrash(w)
    \/ \E w \in Bundlers : LockOutput(w)
    \/ RemoveDeadLock

MeasurementSpec == MeasurementInit /\ [][MeasurementNext]_measurementVars

(* A command that has begun goes on until it ends or dies.                 *)
MeasurementFairness ==
    /\ \A w \in Writers : WF_measurementVars(MeasurementStep(w))
    /\ WF_measurementVars(RemoveDeadLock)

-----------------------------------------------------------------------------
(* "Choose a fresh run path": what is once at the path stays as it is,     *)
(* whichever of the commands that found it free comes later.               *)
MeasurementStays == [][~Free => target' = target]_measurementVars

(* "Publish a complete measurement bundle only after every producer        *)
(* succeeds": nothing partial is ever at the path.                         *)
MeasurementIsWhole == ~Free => target.files = Wanted(target.by)

(* Two commands inside the lock's try block would remove each other's      *)
(* lock: a live one is in it alone.                                        *)
Inside == {"look", "write", "place", "clean", "unlock"}
OneBundler == \A w \in Bundlers : step[w] \in Inside => locked = w

(* Every way out of a bundle's writing passes the removal of its lock, or  *)
(* leaves it to be found without an owner.                                 *)
LockFreed == locked # Nobody ~> locked = Nobody
(* A measurement is whole, and no command removes the lock of another.     *)
MeasurementsAreSafe == MeasurementIsWhole /\ OneBundler
=============================================================================
