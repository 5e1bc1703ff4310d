--------------------------- MODULE EvidenceAdoption ---------------------------
(***************************************************************************)
(* Applying a reviewed adoption package to the active PII evidence         *)
(* (scripts/lib/pii-evidence-adoption-apply.mjs): a fixed set of files is  *)
(* replaced under an exclusive lock, from a staging directory that also    *)
(* holds backups, and restored when a replacement fails.                   *)
(*                                                                         *)
(* Around it: the commands that check the active files without the lock,   *)
(* crashes between any two file operations, and the operator who recovers  *)
(* from the backups.                                                       *)
(*                                                                         *)
(* A bundle is its whole chain of releases, the initial anchor first and   *)
(* its own release last, and every bundle writes every file.  The bytes a  *)
(* bundle writes are modelled by the bundle, and a hash by what it hashes. *)
(* Files are numbered in the sorted order of their names, in which they    *)
(* are replaced: the comparison files come before adoption.json, and the   *)
(* pins after it.                                                          *)
(*                                                                         *)
(* An operator commented "Slip" is a plausible mistake in the operator     *)
(* after it.                                                               *)
(***************************************************************************)
EXTENDS Integers, FiniteSets, Sequences, SequencesExt

CONSTANTS
    Appliers,  \* processes that apply packages
    Readers,   \* processes that check the active files
    N,         \* how many files an adoption replaces
    Adoption,  \* the number of adoption.json
    Pins,      \* the numbers of the pins and the preflight report
    Releases,  \* evidence releases
    Anchor,    \* the initial release
    MaxChain,  \* bound: releases in a chain
    Start,     \* the bundle the repository has adopted, or Absent
    Careful,   \* is a package only prepared for the active predecessor?
    Absent,    \* no such file
    Nobody     \* no lock directory

Files == 1..N

(* validateAdoptionChain: the anchor first, and no release twice. *)
Bundles ==
    {b \in UNION {[1..n -> Releases] : n \in 1..MaxChain} :
        b[1] = Anchor /\ \A i, j \in DOMAIN b : b[i] = b[j] => i = j}

Trees == [Files -> Bundles \cup {Absent}]

ASSUME FileAssumption == N \in Nat /\ Adoption \in Files /\ Pins \subseteq Files \ {Adoption}
ASSUME ReleaseAssumption == Anchor \in Releases /\ MaxChain \in Nat \ {0} /\ Absent \notin Bundles
ASSUME StartAssumption == Start \in Bundles \cup {Absent}
ASSUME ProcAssumption == Nobody \notin Appliers /\ Appliers \cap Readers = {}
ASSUME CarefulAssumption == Careful \in BOOLEAN

VARIABLES
    tree,      \* the active files
    lock,      \* the applier whose .adoption-lock exists, or Nobody
    pc,        \* where each applier is
    bundle,    \* the bundle of each applier's package
    prior,     \* the files its package was prepared from
    previous,  \* the files it found under the lock
    done,      \* how many files it has replaced and not restored
    completed, \* appliers whose final check passed
    staged,    \* appliers whose transaction directory exists
    reader     \* what each reader has read

applying == <<pc, bundle, prior, previous, done, completed, staged>>
vars == <<tree, lock, applying, reader>>

Nothing == [n \in Files |-> Absent]
Original == [n \in Files |-> IF n \in Pins THEN <<Anchor>> ELSE Absent]

(* A tree nobody stopped in the middle of. *)
Whole(t) == t = Original \/ \E b \in Bundles : t = [n \in Files |-> b]

-----------------------------------------------------------------------------
(* Checks *)

(* checkActiveEvidenceFiles: every file as adoption.json says, or the      *)
(* initial pins as long as there is none.                                  *)
ActiveAccepts(t) ==
    IF t[Adoption] # Absent
    THEN \A n \in Files : t[n] = t[Adoption]
    ELSE \A n \in Pins : t[n] = <<Anchor>>

(* The release a bundle replaces: the last of its history, or the one it   *)
(* adopts itself when it has none.                                         *)
Predecessor(b) == IF Len(b) = 1 THEN b[1] ELSE b[Len(b) - 1]

(* The active pins are the predecessor's, and the history of the bundle    *)
(* is the active history and the active entry.                             *)
Follows(b, t) ==
    /\ \A n \in Pins : t[n] # Absent /\ Last(t[n]) = Predecessor(b)
    /\ t[Adoption] # Absent => Len(b) > 1 /\ Front(b) = t[Adoption]

-----------------------------------------------------------------------------
Init ==
    /\ tree = IF Start = Absent THEN Original ELSE [n \in Files |-> Start]
    /\ lock = Nobody
    /\ pc = [p \in Appliers |-> "idle"]
    /\ bundle = [p \in Appliers |-> Absent]
    /\ prior = [p \in Appliers |-> Nothing]
    /\ previous = [p \in Appliers |-> Nothing]
    /\ done = [p \in Appliers |-> 0]
    /\ completed = {}
    /\ staged = {}
    /\ reader = [r \in Readers |-> [at |-> "idle", pins |-> Nothing, adoption |-> Absent, next |-> 1]]

Goto(p, place) == pc' = [pc EXCEPT ![p] = place]

(* An applier's process ends, with nothing of it left. *)
End(p) ==
    /\ Goto(p, "idle")
    /\ bundle' = [bundle EXCEPT ![p] = Absent]
    /\ prior' = [prior EXCEPT ![p] = Nothing]
    /\ previous' = [previous EXCEPT ![p] = Nothing]
    /\ done' = [done EXCEPT ![p] = 0]
    /\ completed' = completed \ {p}
    /\ staged' = staged \ {p}

(* prepareEvidenceAdoptionReview: the package of a bundle names the bytes  *)
(* of every file.  A careful maintainer drafts the bundle for the active   *)
(* predecessor; the preparation does not compare them.                     *)
Prepare(p) ==
    /\ pc[p] = "idle"
    /\ ActiveAccepts(tree)
    /\ \E b \in Bundles :
          /\ Careful => Follows(b, tree)
          /\ bundle' = [bundle EXCEPT ![p] = b]
    /\ prior' = [prior EXCEPT ![p] = tree]
    /\ Goto(p, "prepared")
    /\ UNCHANGED <<tree, lock, previous, done, completed, staged, reader>>

(* Before the lock: the active files are checked, and the bundle follows   *)
(* them.                                                                   *)
CheckActive(p) ==
    /\ pc[p] = "prepared"
    /\ ActiveAccepts(tree) /\ Follows(bundle[p], tree)
    /\ Goto(p, "checked")
    /\ UNCHANGED <<tree, lock, bundle, prior, previous, done, completed, staged, reader>>

(* The first inspection, before the lock. *)
Inspect(p) ==
    /\ pc[p] = "checked"
    /\ tree = prior[p]
    /\ Goto(p, "inspected")
    /\ UNCHANGED <<tree, lock, bundle, prior, previous, done, completed, staged, reader>>

(* Slip: mkdir of an existing directory succeeds. *)
TakeLockShared(p) ==
    /\ pc[p] = "inspected"
    /\ lock' = p
    /\ Goto(p, "locked")
    /\ UNCHANGED <<tree, bundle, prior, previous, done, completed, staged, reader>>

(* mkdir of an existing directory fails. *)
TakeLock(p) ==
    /\ pc[p] = "inspected"
    /\ lock = Nobody
    /\ lock' = p
    /\ Goto(p, "locked")
    /\ UNCHANGED <<tree, bundle, prior, previous, done, completed, staged, reader>>

(* A refusal before the lock: a check, an inspection or the mkdir throws. *)
Refuse(p) ==
    /\ \/ pc[p] = "prepared" /\ ~(ActiveAccepts(tree) /\ Follows(bundle[p], tree))
       \/ pc[p] = "checked" /\ tree # prior[p]
       \/ pc[p] = "inspected" /\ lock # Nobody
    /\ End(p)
    /\ UNCHANGED <<tree, lock, reader>>

(* Slip: what was inspected before the lock is taken for granted. *)
InspectOnce(p) ==
    /\ pc[p] = "locked"
    /\ previous' = [previous EXCEPT ![p] = tree]
    /\ Goto(p, "staging")
    /\ UNCHANGED <<tree, lock, bundle, prior, done, completed, staged, reader>>

(* The second inspection, under the lock, keeps the bytes it found. *)
InspectAgain(p) ==
    /\ pc[p] = "locked"
    /\ IF tree = prior[p]
       THEN previous' = [previous EXCEPT ![p] = tree] /\ Goto(p, "staging")
       ELSE Goto(p, "cleanup") /\ UNCHANGED previous
    /\ UNCHANGED <<tree, lock, bundle, prior, done, completed, staged, reader>>

(* The new files and the backups are written to the transaction directory. *)
Stage(p) ==
    /\ pc[p] = "staging"
    /\ staged' = staged \cup {p}
    /\ Goto(p, "replacing")
    /\ UNCHANGED <<tree, lock, bundle, prior, previous, done, completed, reader>>

(* Slip: one rename too many. *)
ReplaceOneMore(p) ==
    /\ pc[p] = "replacing"
    /\ done[p] <= N
    /\ tree' = [tree EXCEPT ![done[p] + 1] = bundle[p]]
    /\ done' = [done EXCEPT ![p] = @ + 1]
    /\ UNCHANGED <<lock, pc, bundle, prior, previous, completed, staged, reader>>

(* One rename, of the next file in order. *)
Replace(p) ==
    /\ pc[p] = "replacing"
    /\ done[p] < N
    /\ tree' = [tree EXCEPT ![done[p] + 1] = bundle[p]]
    /\ done' = [done EXCEPT ![p] = @ + 1]
    /\ UNCHANGED <<lock, pc, bundle, prior, previous, completed, staged, reader>>

(* The final check of the active files. *)
FinalCheck(p) ==
    /\ pc[p] = "replacing"
    /\ done[p] = N
    /\ IF ActiveAccepts(tree)
       THEN completed' = completed \cup {p} /\ Goto(p, "cleanup")
       ELSE Goto(p, "restoring") /\ UNCHANGED completed
    /\ UNCHANGED <<tree, lock, bundle, prior, previous, done, staged, reader>>

(* A file operation under the lock fails: staging, a rename or a read of   *)
(* the final check.                                                        *)
Fail(p) ==
    /\ pc[p] \in {"staging", "replacing"}
    /\ Goto(p, "restoring")
    /\ UNCHANGED <<tree, lock, bundle, prior, previous, done, completed, staged, reader>>

(* The replaced files are restored, the last one first. *)
Restore(p) ==
    /\ pc[p] = "restoring"
    /\ IF done[p] = 0
       THEN Goto(p, "cleanup") /\ UNCHANGED <<tree, done>>
       ELSE /\ tree' = [tree EXCEPT ![done[p]] = previous[p][done[p]]]
            /\ done' = [done EXCEPT ![p] = @ - 1]
            /\ UNCHANGED pc
    /\ UNCHANGED <<lock, bundle, prior, previous, completed, staged, reader>>

RestoreFails(p) ==
    /\ pc[p] = "restoring"
    /\ done[p] > 0
    /\ Goto(p, "cleanup")
    /\ UNCHANGED <<tree, lock, bundle, prior, previous, done, completed, staged, reader>>

(* Slip: the transaction directory always goes. *)
CleanUpAlways(p) ==
    /\ pc[p] = "cleanup"
    /\ staged' = staged \ {p}
    /\ Goto(p, "unlocking")
    /\ UNCHANGED <<tree, lock, bundle, prior, previous, done, completed, reader>>

(* finally: the transaction directory goes unless a replaced file was not  *)
(* restored.                                                               *)
CleanUp(p) ==
    /\ pc[p] = "cleanup"
    /\ LET restored == \A n \in 1..done[p] : tree[n] = previous[p][n]
       IN  staged' = IF p \in completed \/ restored THEN staged \ {p} ELSE staged
    /\ Goto(p, "unlocking")
    /\ UNCHANGED <<tree, lock, bundle, prior, previous, done, completed, reader>>

(* Slip: a failed transaction keeps the lock. *)
UnlockUnlessFailed(p) ==
    /\ pc[p] = "unlocking"
    /\ IF p \in staged
       THEN Goto(p, "failed") /\ UNCHANGED <<lock, bundle, prior, previous, done, completed, staged>>
       ELSE End(p) /\ lock' = Nobody
    /\ UNCHANGED <<tree, reader>>

(* finally: the lock goes in any case. *)
Unlock(p) ==
    /\ pc[p] = "unlocking"
    /\ lock' = Nobody
    /\ IF p \in staged
       THEN Goto(p, "failed") /\ UNCHANGED <<bundle, prior, previous, done, completed, staged>>
       ELSE End(p)
    /\ UNCHANGED <<tree, reader>>

-----------------------------------------------------------------------------
(* The surroundings *)

Locked == {"locked", "staging", "replacing", "restoring", "cleanup", "unlocking"}

(* The process ends, or the removal of the transaction directory throws:   *)
(* the lock and the directory stay.                                        *)
Crash(p) ==
    /\ pc[p] \in Locked
    /\ Goto(p, "crashed")
    /\ UNCHANGED <<tree, lock, bundle, prior, previous, done, completed, staged, reader>>

(* The operator reviews an interrupted or failed transaction: its backups  *)
(* are restored, or the active files are whole and it is closed as it is.  *)
Mixed(p) == \A n \in Files : tree[n] \in {bundle[p], previous[p][n]}

Recover(p) ==
    /\ \/ pc[p] = "crashed" /\ lock' = Nobody
       \/ pc[p] = "failed" /\ lock = Nobody /\ UNCHANGED lock
    /\ \/ Whole(tree) /\ UNCHANGED tree
       \/ p \in staged /\ Mixed(p) /\ tree' = previous[p]
       \/ p \notin staged /\ UNCHANGED tree
    /\ End(p)
    /\ UNCHANGED reader

(* A reader runs checkActiveEvidenceFiles: the pins first, ... *)
ReadPins(r) ==
    /\ reader[r].at = "idle"
    /\ reader' = [reader EXCEPT ![r] =
          [at |-> "adoption", adoption |-> Absent, next |-> 1,
           pins |-> [n \in Files |-> IF n \in Pins THEN tree[n] ELSE Absent]]]
    /\ UNCHANGED <<tree, lock, applying>>

(* ... then adoption.json, ... *)
ReadAdoption(r) ==
    /\ reader[r].at = "adoption"
    /\ \/ /\ tree[Adoption] # Absent
          /\ reader' = [reader EXCEPT ![r].at = "comparing", ![r].adoption = tree[Adoption]]
       \/ /\ tree[Adoption] = Absent
          /\ \A n \in Pins : reader[r].pins[n] = <<Anchor>>
          /\ reader' = [reader EXCEPT ![r].at = "returned"]
    /\ UNCHANGED <<tree, lock, applying>>

(* ... then every file against it. *)
CompareFile(r) ==
    /\ reader[r].at = "comparing"
    /\ tree[reader[r].next] = reader[r].adoption
    /\ reader' = [reader EXCEPT
          ![r].at = IF reader[r].next = N THEN "returned" ELSE "comparing",
          ![r].next = IF @ = N THEN @ ELSE @ + 1]
    /\ UNCHANGED <<tree, lock, applying>>

(* The reader refuses, or is done with what it read. *)
EndRead(r) ==
    /\ \/ reader[r].at = "returned"
       \/ /\ reader[r].at = "adoption" /\ tree[Adoption] = Absent
          /\ \E n \in Pins : reader[r].pins[n] # <<Anchor>>
       \/ reader[r].at = "comparing" /\ tree[reader[r].next] # reader[r].adoption
    /\ reader' = [reader EXCEPT ![r] =
          [at |-> "idle", pins |-> Nothing, adoption |-> Absent, next |-> 1]]
    /\ UNCHANGED <<tree, lock, applying>>

-----------------------------------------------------------------------------
Step(p) ==
    \/ CheckActive(p) \/ Inspect(p) \/ TakeLock(p) \/ Refuse(p)
    \/ InspectAgain(p) \/ Stage(p) \/ Replace(p) \/ FinalCheck(p)
    \/ Fail(p) \/ Restore(p) \/ RestoreFails(p) \/ CleanUp(p) \/ Unlock(p)

Read(r) == ReadPins(r) \/ ReadAdoption(r) \/ CompareFile(r) \/ EndRead(r)

Next ==
    \/ \E p \in Appliers : Prepare(p) \/ Step(p) \/ Crash(p) \/ Recover(p)
    \/ \E r \in Readers : Read(r)

Spec == Init /\ [][Next]_vars

(* An applier keeps going unless it crashes, and an operator recovers.     *)
FairSpec == Spec /\ \A p \in Appliers : WF_vars(Step(p)) /\ WF_vars(Recover(p))

-----------------------------------------------------------------------------
Places == Locked \cup {"idle", "prepared", "checked", "inspected", "crashed", "failed"}

TypeOK ==
    /\ tree \in Trees
    /\ lock \in Appliers \cup {Nobody}
    /\ pc \in [Appliers -> Places]
    /\ bundle \in [Appliers -> Bundles \cup {Absent}]
    /\ prior \in [Appliers -> Trees]
    /\ previous \in [Appliers -> Trees]
    /\ done \in [Appliers -> 0..N]
    /\ completed \subseteq Appliers
    /\ staged \subseteq Appliers
    /\ reader \in [Readers -> [at : {"idle", "adoption", "comparing", "returned"},
                               pins : Trees, adoption : Bundles \cup {Absent}, next : Files]]

(* "An exclusive lock prevents two cooperating apply commands": whoever is *)
(* between the lock and its release owns it.                               *)
LockExcludes == \A p \in Appliers : pc[p] \in Locked \cup {"crashed"} => lock = p

(* Active files that are not whole always have their backups: a staged     *)
(* transaction whose previous files are whole, and which made the mix.     *)
PartialHasBackups ==
    Whole(tree) \/ \E p \in staged : Whole(previous[p]) /\ Mixed(p)

(* An apply that ends without its adoption, and drops its backups, leaves  *)
(* every file as it found it under the lock.                               *)
RefusalLeavesFiles ==
    \A p \in Appliers :
        pc[p] = "unlocking" /\ previous[p] # Nothing
            => p \in completed \/ p \in staged \/ tree = previous[p]

(* However an apply ends, the files it found can be had again, and no      *)
(* other apply is at work on them.                                         *)
FilesAreRecoverable == LockExcludes /\ PartialHasBackups /\ RefusalLeavesFiles

(* Every adoption continues the accepted history: what an apply replaces   *)
(* is the predecessor its bundle was validated for.                        *)
AdoptionsChain == \A p \in completed : Follows(bundle[p], previous[p])

(* A lock left behind is eventually released.                              *)
LockReleased == (lock # Nobody) ~> (lock = Nobody)

(* The gate "checks every active target byte against that record"          *)
(* (docs/specs/pii-evidence-adoption-workflow.md:201-202): the pins it     *)
(* returns are those of the record it validated.                           *)
ReturnedIsChecked ==
    \A r \in Readers :
        reader[r].at = "returned" /\ reader[r].adoption # Absent
            => \A n \in Pins : reader[r].pins[n] = reader[r].adoption

=============================================================================
