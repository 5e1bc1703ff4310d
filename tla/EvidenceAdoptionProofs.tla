------------------------ MODULE EvidenceAdoptionProofs ------------------------
(***************************************************************************)
(* Proofs about EvidenceAdoption, for any number of appliers, readers,     *)
(* files and releases.                                                     *)
(*                                                                         *)
(* The argument has three layers.  Whoever is under the lock owns it.      *)
(* What an applier found under the lock is what its package names.  And    *)
(* while it is under the lock the files are its bundle up to where it got, *)
(* and what it found from there on.                                        *)
(* The gate that reads the files without the lock is sound when no apply   *)
(* overlaps it.                                                            *)
(***************************************************************************)
EXTENDS EvidenceAdoption, TLAPS

(* From the second inspection on. *)
Transaction == {"staging", "replacing", "restoring", "cleanup", "unlocking", "crashed"}

(* Before the second inspection an applier has touched nothing.            *)
Fresh ==
    \A p \in Appliers :
        pc[p] \in {"idle", "prepared", "checked", "inspected", "locked"}
            => p \notin staged /\ p \notin completed /\ done[p] = 0 /\ previous[p] = Nothing

(* A package was prepared from accepted files, by a careful maintainer for *)
(* a bundle that follows them.                                             *)
Packaged ==
    \A p \in Appliers :
        pc[p] # "idle" =>
            /\ bundle[p] \in Bundles
            /\ ActiveAccepts(prior[p])
            /\ Careful => Follows(bundle[p], prior[p])

(* What an applier found under the lock is what its package names.         *)
FoundAsNamed ==
    \A p \in Appliers :
        /\ pc[p] \in {"staging", "replacing", "restoring"} => previous[p] = prior[p]
        /\ p \in completed => pc[p] \in Transaction /\ previous[p] = prior[p]
        /\ previous[p] \in {Nothing, prior[p]}

(* A completed adoption keeps no backups beyond its clean-up.              *)
CompletedIsClean ==
    \A p \in Appliers : pc[p] = "unlocking" /\ p \in completed => p \notin staged

PackageInv == TypeOK /\ Fresh /\ Packaged /\ FoundAsNamed /\ CompletedIsClean

-----------------------------------------------------------------------------
(* Types *)

(* A file of a well-formed tree is a bundle or absent.                     *)
LEMMA TreeWith ==
    ASSUME NEW t \in Trees, NEW n \in Files, NEW b \in Bundles \cup {Absent}
    PROVE  [t EXCEPT ![n] = b] \in Trees
BY DEF Trees

(* The anchor alone is a bundle.                                           *)
LEMMA AnchorIsBundle == <<Anchor>> \in Bundles
<1>1. 1 \in 1..MaxChain /\ <<Anchor>> \in [1..1 -> Releases]
  BY ReleaseAssumption
<1> QED
  BY <1>1 DEF Bundles

(* The trees of an initial state.                                          *)
LEMMA InitialTrees == Nothing \in Trees /\ Original \in Trees
BY AnchorIsBundle DEF Nothing, Original, Trees

(* Every process returns to a well-formed state.                           *)
LEMMA EndKeepsTypes ==
    ASSUME TypeOK, NEW p \in Appliers, End(p)
    PROVE  /\ pc' \in [Appliers -> Places]
           /\ bundle' \in [Appliers -> Bundles \cup {Absent}]
           /\ prior' \in [Appliers -> Trees]
           /\ previous' \in [Appliers -> Trees]
           /\ done' \in [Appliers -> 0..N]
           /\ completed' \subseteq Appliers
           /\ staged' \subseteq Appliers
<1>1. Nothing \in Trees /\ 0 \in 0..N
  BY InitialTrees, FileAssumption
<1> QED
  BY <1>1 DEF TypeOK, End, Goto, Places

(* Every variable starts with its type.                                    *)
LEMMA InitialTypes == Init => TypeOK
<1> SUFFICES ASSUME Init PROVE TypeOK
  OBVIOUS
<1>1. tree \in Trees
  BY InitialTrees, StartAssumption DEF Init, Trees
<1>2. reader \in [Readers -> [at : {"idle", "adoption", "comparing", "returned"},
                             pins : Trees, adoption : Bundles \cup {Absent}, next : Files]]
  <2>1. 1 \in Files
    BY FileAssumption DEF Files
  <2> QED
    BY <2>1, InitialTrees DEF Init
<1>3. /\ prior \in [Appliers -> Trees] /\ previous \in [Appliers -> Trees]
      /\ done \in [Appliers -> 0..N]
  BY InitialTrees, FileAssumption DEF Init
<1> QED
  BY <1>1, <1>2, <1>3 DEF Init, TypeOK, Places, Locked

(* Counting down. *)
LEMMA OneBelow == \A i, j \in Int : i <= j - 1 <=> i <= j /\ i # j
  OBVIOUS

(* Every variable keeps its type.                                          *)
THEOREM TypeCorrect == Spec => []TypeOK
<1>1. Init => TypeOK
  BY InitialTypes
<1>2. TypeOK /\ [Next]_vars => TypeOK'
  <2> SUFFICES ASSUME TypeOK, [Next]_vars PROVE TypeOK'
    OBVIOUS
  <2>1. ASSUME NEW p \in Appliers, Prepare(p) PROVE TypeOK'
    BY <2>1 DEF Prepare, Goto, TypeOK, Places
  <2>2. ASSUME NEW p \in Appliers, CheckActive(p) PROVE TypeOK'
    BY <2>2 DEF CheckActive, Goto, TypeOK, Places
  <2>3. ASSUME NEW p \in Appliers, Inspect(p) PROVE TypeOK'
    BY <2>3 DEF Inspect, Goto, TypeOK, Places
  <2>4. ASSUME NEW p \in Appliers, TakeLock(p) PROVE TypeOK'
    BY <2>4 DEF TakeLock, Goto, TypeOK, Places, Locked
  <2>5. ASSUME NEW p \in Appliers, Refuse(p) PROVE TypeOK'
    BY <2>5, EndKeepsTypes DEF Refuse, TypeOK
  <2>6. ASSUME NEW p \in Appliers, InspectAgain(p) PROVE TypeOK'
    BY <2>6 DEF InspectAgain, Goto, TypeOK, Places, Locked
  <2>7. ASSUME NEW p \in Appliers, Stage(p) PROVE TypeOK'
    BY <2>7 DEF Stage, Goto, TypeOK, Places, Locked
  <2>8. ASSUME NEW p \in Appliers, Replace(p) PROVE TypeOK'
    <3>1. done[p] + 1 \in Files /\ done[p] + 1 \in 0..N
      BY <2>8, FileAssumption DEF Replace, TypeOK, Files
    <3>2. tree' \in Trees
      BY <2>8, <3>1, TreeWith DEF Replace, TypeOK
    <3>3. done' \in [Appliers -> 0..N]
      BY <2>8, <3>1 DEF Replace, TypeOK
    <3> QED
      BY <2>8, <3>2, <3>3 DEF Replace, TypeOK
  <2>9. ASSUME NEW p \in Appliers, FinalCheck(p) PROVE TypeOK'
    BY <2>9 DEF FinalCheck, Goto, TypeOK, Places, Locked
  <2>10. ASSUME NEW p \in Appliers, Fail(p) PROVE TypeOK'
    BY <2>10 DEF Fail, Goto, TypeOK, Places, Locked
  <2>11. ASSUME NEW p \in Appliers, Restore(p) PROVE TypeOK'
    <3>1. CASE done[p] = 0
      BY <2>11, <3>1 DEF Restore, Goto, TypeOK, Places, Locked
    <3>2. CASE done[p] # 0
      <4>1. done[p] \in Files /\ done[p] - 1 \in 0..N
        BY <3>2, FileAssumption DEF TypeOK, Files
      <4>2. previous[p][done[p]] \in Bundles \cup {Absent}
        BY <4>1 DEF TypeOK, Trees
      <4>3. tree' \in Trees
        BY <2>11, <3>2, <4>1, <4>2, TreeWith DEF Restore, TypeOK
      <4>4. done' \in [Appliers -> 0..N]
        BY <2>11, <3>2, <4>1 DEF Restore, TypeOK
      <4> QED
        BY <2>11, <3>2, <4>3, <4>4 DEF Restore, TypeOK
    <3> QED
      BY <3>1, <3>2
  <2>12. ASSUME NEW p \in Appliers, RestoreFails(p) PROVE TypeOK'
    BY <2>12 DEF RestoreFails, Goto, TypeOK, Places, Locked
  <2>13. ASSUME NEW p \in Appliers, CleanUp(p) PROVE TypeOK'
    BY <2>13 DEF CleanUp, Goto, TypeOK, Places, Locked
  <2>14. ASSUME NEW p \in Appliers, Unlock(p) PROVE TypeOK'
    <3>1. CASE p \in staged
      BY <2>14, <3>1 DEF Unlock, Goto, TypeOK, Places, Locked
    <3>2. CASE p \notin staged
      BY <2>14, <3>2, EndKeepsTypes DEF Unlock, TypeOK
    <3> QED
      BY <3>1, <3>2
  <2>15. ASSUME NEW p \in Appliers, Crash(p) PROVE TypeOK'
    BY <2>15 DEF Crash, Goto, TypeOK, Places
  <2>16. ASSUME NEW p \in Appliers, Recover(p) PROVE TypeOK'
    BY <2>16, EndKeepsTypes DEF Recover, TypeOK
  <2>17. ASSUME NEW r \in Readers, Read(r) PROVE TypeOK'
    <3>1. 1 \in Files /\ N \in Nat /\ Files = 1..N
      BY FileAssumption DEF Files
    <3>2. [n \in Files |-> IF n \in Pins THEN tree[n] ELSE Absent] \in Trees
      BY DEF TypeOK, Trees
    <3>3. tree[Adoption] \in Bundles \cup {Absent}
      BY FileAssumption DEF TypeOK, Trees
    <3>4. UNCHANGED <<tree, lock, applying>>
      BY <2>17 DEF Read, ReadPins, ReadAdoption, CompareFile, EndRead
    <3>5. reader' \in [Readers -> [at : {"idle", "adoption", "comparing", "returned"},
                                  pins : Trees, adoption : Bundles \cup {Absent}, next : Files]]
      <4>1. CASE ReadPins(r)
        BY <3>1, <3>2, <4>1 DEF ReadPins, TypeOK
      <4>2. CASE ReadAdoption(r)
        BY <3>3, <4>2 DEF ReadAdoption, TypeOK
      <4>3. CASE CompareFile(r)
        <5> DEFINE at == IF reader[r].next = N THEN "returned" ELSE "comparing"
                   next == IF reader[r].next = N THEN reader[r].next ELSE reader[r].next + 1
        <5>1. next \in Files /\ at \in {"idle", "adoption", "comparing", "returned"}
          BY <3>1 DEF TypeOK
        <5>2. reader' = [reader EXCEPT ![r].at = at, ![r].next = next]
          BY <4>3 DEF CompareFile
        <5> HIDE DEF at, next
        <5> QED
          BY <5>1, <5>2 DEF TypeOK
      <4>4. CASE EndRead(r)
        BY <3>1, <4>4, InitialTrees DEF EndRead, TypeOK
      <4> QED
        BY <2>17, <4>1, <4>2, <4>3, <4>4 DEF Read
    <3> QED
      BY <3>4, <3>5 DEF TypeOK, applying
  <2>18. CASE UNCHANGED vars
    BY <2>18 DEF vars, applying, TypeOK
  <2> QED
    BY <2>1, <2>2, <2>3, <2>4, <2>5, <2>6, <2>7, <2>8, <2>9, <2>10, <2>11, <2>12, <2>13,
       <2>14, <2>15, <2>16, <2>17, <2>18 DEF Next, Step
<1> QED
  BY <1>1, <1>2, PTL DEF Spec
-----------------------------------------------------------------------------
(* Exclusion *)

(* Whoever is under the lock owns it: two appliers never both replace.     *)
THEOREM MutualExclusion == Spec => []LockExcludes
<1>1. Init => LockExcludes
  BY DEF Init, LockExcludes, Locked
<1>2. TypeOK /\ LockExcludes /\ [Next]_vars => LockExcludes'
  <2> SUFFICES ASSUME TypeOK, LockExcludes, [Next]_vars PROVE LockExcludes'
    OBVIOUS
  <2> USE DEF TypeOK, LockExcludes, Locked, Goto
  <2>1. ASSUME NEW p \in Appliers, Prepare(p) PROVE LockExcludes'
    BY <2>1 DEF Prepare
  <2>2. ASSUME NEW p \in Appliers, CheckActive(p) PROVE LockExcludes'
    BY <2>2 DEF CheckActive
  <2>3. ASSUME NEW p \in Appliers, Inspect(p) PROVE LockExcludes'
    BY <2>3 DEF Inspect
  <2>4. ASSUME NEW p \in Appliers, TakeLock(p) PROVE LockExcludes'
    BY <2>4, ProcAssumption DEF TakeLock
  <2>5. ASSUME NEW p \in Appliers, Refuse(p) PROVE LockExcludes'
    BY <2>5 DEF Refuse, End
  <2>6. ASSUME NEW p \in Appliers, InspectAgain(p) PROVE LockExcludes'
    BY <2>6 DEF InspectAgain
  <2>7. ASSUME NEW p \in Appliers, Stage(p) PROVE LockExcludes'
    BY <2>7 DEF Stage
  <2>8. ASSUME NEW p \in Appliers, Replace(p) PROVE LockExcludes'
    BY <2>8 DEF Replace
  <2>9. ASSUME NEW p \in Appliers, FinalCheck(p) PROVE LockExcludes'
    BY <2>9 DEF FinalCheck
  <2>10. ASSUME NEW p \in Appliers, Fail(p) PROVE LockExcludes'
    BY <2>10 DEF Fail
  <2>11. ASSUME NEW p \in Appliers, Restore(p) PROVE LockExcludes'
    BY <2>11 DEF Restore
  <2>12. ASSUME NEW p \in Appliers, RestoreFails(p) PROVE LockExcludes'
    BY <2>12 DEF RestoreFails
  <2>13. ASSUME NEW p \in Appliers, CleanUp(p) PROVE LockExcludes'
    BY <2>13 DEF CleanUp
  <2>14. ASSUME NEW p \in Appliers, Unlock(p) PROVE LockExcludes'
    BY <2>14 DEF Unlock, End
  <2>15. ASSUME NEW p \in Appliers, Crash(p) PROVE LockExcludes'
    BY <2>15 DEF Crash
  <2>16. ASSUME NEW p \in Appliers, Recover(p) PROVE LockExcludes'
    BY <2>16 DEF Recover, End
  <2>17. ASSUME NEW r \in Readers, Read(r) PROVE LockExcludes'
    BY <2>17 DEF Read, ReadPins, ReadAdoption, CompareFile, EndRead, applying
  <2>18. CASE UNCHANGED vars
    BY <2>18 DEF vars, applying
  <2> QED
    BY <2>1, <2>2, <2>3, <2>4, <2>5, <2>6, <2>7, <2>8, <2>9, <2>10, <2>11, <2>12, <2>13, <2>14, <2>15, <2>16, <2>17, <2>18 DEF Next, Step
<1> QED
  BY <1>1, <1>2, TypeCorrect, PTL DEF Spec

-----------------------------------------------------------------------------
(* Packages *)

(* What an applier found under the lock is what its package names.         *)
LEMMA PackageCorrect == Spec => []PackageInv
<1>1. Init => Fresh /\ Packaged /\ FoundAsNamed /\ CompletedIsClean
  BY DEF Init, Fresh, Packaged, FoundAsNamed, CompletedIsClean
<1>2. PackageInv /\ TypeOK' /\ [Next]_vars => PackageInv'
  <2> SUFFICES ASSUME PackageInv, TypeOK', [Next]_vars PROVE PackageInv'
    OBVIOUS
  <2> USE DEF PackageInv, TypeOK, Fresh, Packaged, FoundAsNamed, Transaction, Goto,
              CompletedIsClean
  <2>1. ASSUME NEW p \in Appliers, Prepare(p) PROVE PackageInv'
    BY <2>1 DEF Prepare
  <2>2. ASSUME NEW p \in Appliers, CheckActive(p) PROVE PackageInv'
    BY <2>2 DEF CheckActive
  <2>3. ASSUME NEW p \in Appliers, Inspect(p) PROVE PackageInv'
    BY <2>3 DEF Inspect
  <2>4. ASSUME NEW p \in Appliers, TakeLock(p) PROVE PackageInv'
    BY <2>4 DEF TakeLock
  <2>5. ASSUME NEW p \in Appliers, Refuse(p) PROVE PackageInv'
    BY <2>5 DEF Refuse, End
  <2>6. ASSUME NEW p \in Appliers, InspectAgain(p) PROVE PackageInv'
    BY <2>6 DEF InspectAgain
  <2>7. ASSUME NEW p \in Appliers, Stage(p) PROVE PackageInv'
    BY <2>7 DEF Stage
  <2>8. ASSUME NEW p \in Appliers, Replace(p) PROVE PackageInv'
    BY <2>8 DEF Replace
  <2>9. ASSUME NEW p \in Appliers, FinalCheck(p) PROVE PackageInv'
    BY <2>9 DEF FinalCheck
  <2>10. ASSUME NEW p \in Appliers, Fail(p) PROVE PackageInv'
    BY <2>10 DEF Fail
  <2>11. ASSUME NEW p \in Appliers, Restore(p) PROVE PackageInv'
    BY <2>11 DEF Restore
  <2>12. ASSUME NEW p \in Appliers, RestoreFails(p) PROVE PackageInv'
    BY <2>12 DEF RestoreFails
  <2>13. ASSUME NEW p \in Appliers, CleanUp(p) PROVE PackageInv'
    BY <2>13 DEF CleanUp
  <2>14. ASSUME NEW p \in Appliers, Unlock(p) PROVE PackageInv'
    BY <2>14 DEF Unlock, End
  <2>15. ASSUME NEW p \in Appliers, Crash(p) PROVE PackageInv'
    BY <2>15 DEF Crash, Locked
  <2>16. ASSUME NEW p \in Appliers, Recover(p) PROVE PackageInv'
    BY <2>16 DEF Recover, End
  <2>17. ASSUME NEW r \in Readers, Read(r) PROVE PackageInv'
    BY <2>17 DEF Read, ReadPins, ReadAdoption, CompareFile, EndRead, applying
  <2>18. CASE UNCHANGED vars
    BY <2>18 DEF vars, applying
  <2> QED
    BY <2>1, <2>2, <2>3, <2>4, <2>5, <2>6, <2>7, <2>8, <2>9, <2>10, <2>11, <2>12, <2>13, <2>14, <2>15, <2>16, <2>17, <2>18 DEF Next, Step
<1> QED
  BY <1>1, <1>2, TypeCorrect, PTL DEF Spec, PackageInv

(* When packages are prepared for the active predecessor, every adoption   *)
(* continues the accepted history it replaces.                             *)
THEOREM NoAdoptionLost == ASSUME Careful PROVE Spec => []AdoptionsChain
<1>1. PackageInv => AdoptionsChain
  BY DEF PackageInv, Packaged, FoundAsNamed, Transaction, AdoptionsChain, TypeOK
<1> QED
  BY <1>1, PackageCorrect, PTL

-----------------------------------------------------------------------------
(* Files: once the repository has adopted a bundle                         *)

(* The files while p is under the lock: its bundle up to where it got, and *)
(* what it found from there on.                                            *)
Mix(p) == [n \in Files |-> IF n <= done[p] THEN bundle[p] ELSE previous[p][n]]

(* The active record and every named record exist.                         *)
AlwaysAdopted ==
    /\ tree[Adoption] # Absent
    /\ \A p \in Appliers : pc[p] # "idle" => prior[p][Adoption] # Absent

MixedInOrder ==
    \A p \in Appliers : pc[p] \in Transaction /\ previous[p] # Nothing => tree = Mix(p)

(* Backups are on disk from the first rename on, until the files are       *)
(* restored or the adoption has completed.                                 *)
StagedWhileMixed ==
    \A p \in Appliers :
        /\ pc[p] = "replacing" \/ (pc[p] \in {"restoring", "cleanup"} /\ done[p] > 0) => p \in staged
        /\ pc[p] \in {"staging", "replacing", "restoring"} => p \notin completed
        /\ pc[p] = "staging" => done[p] = 0
        /\ p \in completed => done[p] = N
        /\ p \in staged => pc[p] # "idle" /\ previous[p] = prior[p]

FilesInv ==
    /\ PackageInv
    /\ LockExcludes
    /\ AlwaysAdopted
    /\ MixedInOrder
    /\ StagedWhileMixed
    /\ RefusalLeavesFiles
    /\ PartialHasBackups

(* What the active check accepts, with a record, is whole.                 *)
LEMMA AcceptedIsWhole ==
    ASSUME NEW t \in Trees, ActiveAccepts(t), t[Adoption] # Absent
    PROVE  Whole(t)
<1>1. t[Adoption] \in Bundles
  BY FileAssumption DEF Trees
<1>2. t = [n \in Files |-> t[Adoption]]
  BY DEF ActiveAccepts, Trees
<1> QED
  BY <1>1, <1>2 DEF Whole

(* An applier with backups found whole files.                              *)
LEMMA BackupsAreWhole ==
    ASSUME FilesInv, NEW p \in Appliers, pc[p] # "idle", previous[p] = prior[p]
    PROVE  Whole(previous[p]) /\ previous[p] # Nothing
<1>1. prior[p] \in Trees /\ ActiveAccepts(prior[p]) /\ prior[p][Adoption] # Absent
  BY DEF FilesInv, PackageInv, TypeOK, Packaged, AlwaysAdopted
<1> QED
  BY <1>1, AcceptedIsWhole, FileAssumption DEF Nothing

(* Only one applier is in a transaction, and it holds the lock.            *)
LEMMA OneTransaction ==
    ASSUME FilesInv, NEW p \in Appliers, NEW q \in Appliers,
           pc[p] \in Transaction, pc[q] \in Transaction
    PROVE  p = q
BY DEF FilesInv, LockExcludes, Transaction, Locked

(* The mix is made of the bundle and the backups, and is whole once one of *)
(* them is all there is.                                                   *)
LEMMA MixIsMixed ==
    ASSUME TypeOK, NEW p \in Appliers, bundle[p] \in Bundles, tree = Mix(p)
    PROVE  /\ Mixed(p)
           /\ done[p] = N => Whole(tree)
           /\ (\A n \in 1..done[p] : tree[n] = previous[p][n]) => tree = previous[p]
<1>1. Mixed(p)
  BY DEF Mix, Mixed
<1>2. ASSUME done[p] = N PROVE Whole(tree)
  <2>1. tree = [n \in Files |-> bundle[p]]
    BY <1>2, FileAssumption DEF Mix, Files
  <2> QED
    BY <2>1 DEF Whole
<1>3. ASSUME \A n \in 1..done[p] : tree[n] = previous[p][n] PROVE tree = previous[p]
  <2>1. ASSUME NEW n \in Files PROVE tree[n] = previous[p][n]
    <3>1. done[p] \in 0..N /\ N \in Nat /\ n \in 1..N
      BY FileAssumption DEF TypeOK, Files
    <3>2. CASE n <= done[p]
      BY <1>3, <3>1, <3>2
    <3>3. CASE ~(n <= done[p])
      BY <3>3 DEF Mix
    <3> QED
      BY <3>2, <3>3
  <2> QED
    BY <2>1 DEF TypeOK, Trees
<1> QED
  BY <1>1, <1>2, <1>3

(* Backups and files that stay keep the promise.                           *)
LEMMA BackupsKept ==
    ASSUME PartialHasBackups, tree' = tree, staged \subseteq staged',
           \A q \in staged : bundle'[q] = bundle[q] /\ previous'[q] = previous[q]
    PROVE  PartialHasBackups'
BY DEF PartialHasBackups, Mixed, Whole, Original

(* A transaction with backups keeps it, whatever the files are.            *)
LEMMA BackupsInPlace ==
    ASSUME TypeOK', FilesInv, NEW p \in Appliers, p \in staged', (tree = Mix(p))',
           bundle'[p] \in Bundles, Whole(previous[p]), previous'[p] = previous[p]
    PROVE  PartialHasBackups'
<1>1. Mixed(p)'
  BY DEF Mix, Mixed
<1>2. Whole(previous[p])'
  BY DEF Whole, Original
<1> QED
  BY <1>1, <1>2 DEF PartialHasBackups

-----------------------------------------------------------------------------
(* Initially nobody is under the lock.                                     *)
LEMMA InitialPackages == Init => PackageInv /\ LockExcludes
<1> SUFFICES ASSUME Init PROVE PackageInv /\ LockExcludes
  OBVIOUS
<1>1. TypeOK
  BY InitialTypes
<1>2. Fresh /\ Packaged /\ FoundAsNamed /\ CompletedIsClean /\ LockExcludes
  BY DEF Init, Fresh, Packaged, FoundAsNamed, CompletedIsClean, LockExcludes, Locked
<1> QED
  BY <1>1, <1>2 DEF PackageInv

(* The initial files.                                                      *)
LEMMA FilesInit == ASSUME Start # Absent PROVE Init => FilesInv
<1> SUFFICES ASSUME Init PROVE FilesInv
  OBVIOUS
<1>1. PackageInv /\ LockExcludes
  BY InitialPackages
<1>2. AlwaysAdopted /\ Whole(tree)
  BY StartAssumption, FileAssumption DEF Init, AlwaysAdopted, Whole
<1>3. MixedInOrder /\ StagedWhileMixed /\ RefusalLeavesFiles
  BY DEF Init, MixedInOrder, Transaction, StagedWhileMixed, RefusalLeavesFiles
<1> QED
  BY <1>1, <1>2, <1>3 DEF FilesInv, PartialHasBackups

(* A preparation reads accepted files, which have a record.                *)
LEMMA PrepareKeepsFiles ==
    ASSUME FilesInv, PackageInv', LockExcludes', NEW p \in Appliers, Prepare(p)
    PROVE  FilesInv'
<1> USE DEF FilesInv, PackageInv, TypeOK, Goto
<1>1. AlwaysAdopted' /\ StagedWhileMixed'
  BY DEF Prepare, AlwaysAdopted, StagedWhileMixed
<1>2. MixedInOrder'
  BY DEF Prepare, MixedInOrder, Mix, Transaction
<1>3. RefusalLeavesFiles'
  BY DEF Prepare, RefusalLeavesFiles
<1>4. PartialHasBackups'
  BY BackupsKept DEF Prepare, Fresh
<1> QED
  BY <1>1, <1>2, <1>3, <1>4

(* The checks before the lock change no file.                              *)
LEMMA CheckActiveKeepsFiles ==
    ASSUME FilesInv, PackageInv', LockExcludes', NEW p \in Appliers, CheckActive(p)
    PROVE  FilesInv'
<1> USE DEF FilesInv, PackageInv, TypeOK, Goto
<1>1. AlwaysAdopted' /\ StagedWhileMixed'
  BY DEF CheckActive, AlwaysAdopted, StagedWhileMixed
<1>2. MixedInOrder'
  BY DEF CheckActive, MixedInOrder, Mix, Transaction
<1>3. RefusalLeavesFiles'
  BY DEF CheckActive, RefusalLeavesFiles
<1>4. PartialHasBackups'
  BY BackupsKept DEF CheckActive
<1> QED
  BY <1>1, <1>2, <1>3, <1>4

(* The first inspection changes no file.                                   *)
LEMMA InspectKeepsFiles ==
    ASSUME FilesInv, PackageInv', LockExcludes', NEW p \in Appliers, Inspect(p)
    PROVE  FilesInv'
<1> USE DEF FilesInv, PackageInv, TypeOK, Goto
<1>1. AlwaysAdopted' /\ StagedWhileMixed'
  BY DEF Inspect, AlwaysAdopted, StagedWhileMixed
<1>2. MixedInOrder'
  BY DEF Inspect, MixedInOrder, Mix, Transaction
<1>3. RefusalLeavesFiles'
  BY DEF Inspect, RefusalLeavesFiles
<1>4. PartialHasBackups'
  BY BackupsKept DEF Inspect
<1> QED
  BY <1>1, <1>2, <1>3, <1>4

(* The lock is not one of the files.                                       *)
LEMMA TakeLockKeepsFiles ==
    ASSUME FilesInv, PackageInv', LockExcludes', NEW p \in Appliers, TakeLock(p)
    PROVE  FilesInv'
<1> USE DEF FilesInv, PackageInv, TypeOK, Goto
<1>1. AlwaysAdopted' /\ StagedWhileMixed'
  BY DEF TakeLock, AlwaysAdopted, StagedWhileMixed
<1>2. MixedInOrder'
  BY DEF TakeLock, MixedInOrder, Mix, Transaction
<1>3. RefusalLeavesFiles'
  BY DEF TakeLock, RefusalLeavesFiles
<1>4. PartialHasBackups'
  BY BackupsKept DEF TakeLock
<1> QED
  BY <1>1, <1>2, <1>3, <1>4

(* A refusal before the lock leaves nothing behind.                        *)
LEMMA RefuseKeepsFiles ==
    ASSUME FilesInv, PackageInv', LockExcludes', NEW p \in Appliers, Refuse(p)
    PROVE  FilesInv'
<1> USE DEF FilesInv, PackageInv, TypeOK, Goto
<1>1. AlwaysAdopted' /\ StagedWhileMixed'
  BY DEF Refuse, End, AlwaysAdopted, StagedWhileMixed, Fresh
<1>2. MixedInOrder'
  BY DEF Refuse, End, MixedInOrder, Mix, Transaction, Fresh
<1>3. RefusalLeavesFiles'
  BY DEF Refuse, End, RefusalLeavesFiles
<1>4. PartialHasBackups'
  BY BackupsKept DEF Refuse, End, Fresh
<1> QED
  BY <1>1, <1>2, <1>3, <1>4

(* A failure starts the restoration where the renames got.                 *)
LEMMA FailKeepsFiles ==
    ASSUME FilesInv, PackageInv', LockExcludes', NEW p \in Appliers, Fail(p)
    PROVE  FilesInv'
<1> USE DEF FilesInv, PackageInv, TypeOK, Goto
<1>1. AlwaysAdopted' /\ StagedWhileMixed'
  BY DEF Fail, AlwaysAdopted, StagedWhileMixed
<1>2. MixedInOrder'
  BY DEF Fail, MixedInOrder, Mix, Transaction
<1>3. RefusalLeavesFiles'
  BY DEF Fail, RefusalLeavesFiles
<1>4. PartialHasBackups'
  BY BackupsKept DEF Fail
<1> QED
  BY <1>1, <1>2, <1>3, <1>4

(* The final check reads the files.                                        *)
LEMMA FinalCheckKeepsFiles ==
    ASSUME FilesInv, PackageInv', LockExcludes', NEW p \in Appliers, FinalCheck(p)
    PROVE  FilesInv'
<1> USE DEF FilesInv, PackageInv, TypeOK, Goto
<1>1. AlwaysAdopted' /\ StagedWhileMixed'
  BY DEF FinalCheck, AlwaysAdopted, StagedWhileMixed
<1>2. MixedInOrder'
  BY DEF FinalCheck, MixedInOrder, Mix, Transaction
<1>3. RefusalLeavesFiles'
  BY DEF FinalCheck, RefusalLeavesFiles
<1>4. PartialHasBackups'
  BY BackupsKept DEF FinalCheck
<1> QED
  BY <1>1, <1>2, <1>3, <1>4

(* A failed restoration keeps its backups.                                 *)
LEMMA RestoreFailsKeepsFiles ==
    ASSUME FilesInv, PackageInv', LockExcludes', NEW p \in Appliers, RestoreFails(p)
    PROVE  FilesInv'
<1> USE DEF FilesInv, PackageInv, TypeOK, Goto
<1>1. AlwaysAdopted' /\ StagedWhileMixed'
  BY DEF RestoreFails, AlwaysAdopted, StagedWhileMixed
<1>2. MixedInOrder'
  BY DEF RestoreFails, MixedInOrder, Mix, Transaction
<1>3. RefusalLeavesFiles'
  BY DEF RestoreFails, RefusalLeavesFiles
<1>4. PartialHasBackups'
  BY BackupsKept DEF RestoreFails
<1> QED
  BY <1>1, <1>2, <1>3, <1>4

(* A crash leaves the lock, the files and the backups.                     *)
LEMMA CrashKeepsFiles ==
    ASSUME FilesInv, PackageInv', LockExcludes', NEW p \in Appliers, Crash(p)
    PROVE  FilesInv'
<1> USE DEF FilesInv, PackageInv, TypeOK, Goto
<1>1. AlwaysAdopted' /\ StagedWhileMixed'
  BY DEF Crash, AlwaysAdopted, StagedWhileMixed, Locked
<1>2. MixedInOrder'
  BY DEF Crash, MixedInOrder, Mix, Transaction, Locked, Fresh
<1>3. RefusalLeavesFiles'
  BY DEF Crash, RefusalLeavesFiles
<1>4. PartialHasBackups'
  BY BackupsKept DEF Crash
<1> QED
  BY <1>1, <1>2, <1>3, <1>4

(* The backups are staged before the first rename.                         *)
LEMMA StageKeepsFiles ==
    ASSUME FilesInv, PackageInv', LockExcludes', NEW p \in Appliers, Stage(p)
    PROVE  FilesInv'
<1> USE DEF FilesInv, PackageInv, TypeOK, Goto
<1>1. AlwaysAdopted' /\ StagedWhileMixed'
  BY DEF Stage, AlwaysAdopted, StagedWhileMixed, FoundAsNamed
<1>2. MixedInOrder'
  BY DEF Stage, MixedInOrder, Mix, Transaction
<1>3. RefusalLeavesFiles'
  BY DEF Stage, RefusalLeavesFiles
<1>4. PartialHasBackups'
  BY BackupsKept DEF Stage
<1> QED
  BY <1>1, <1>2, <1>3, <1>4

(* The files found under the lock are the backups to be made.              *)
LEMMA InspectAgainKeepsFiles ==
    ASSUME FilesInv, PackageInv', LockExcludes', NEW p \in Appliers, InspectAgain(p)
    PROVE  FilesInv'
<1> USE DEF FilesInv, PackageInv, TypeOK, Goto
<1>1. AlwaysAdopted' /\ StagedWhileMixed'
  BY DEF InspectAgain, AlwaysAdopted, StagedWhileMixed, Fresh
<1>2. MixedInOrder'
  <2> SUFFICES ASSUME NEW q \in Appliers, pc'[q] \in Transaction, previous'[q] # Nothing
               PROVE  tree' = Mix(q)'
    BY DEF MixedInOrder
  <2>1. CASE q = p
    <3>1. previous'[p] = tree /\ done'[p] = 0 /\ tree' = tree
      BY <2>1 DEF InspectAgain, Fresh
    <3>2. tree = [n \in Files |-> tree[n]] /\ \A n \in Files : ~(n <= 0)
      BY FileAssumption DEF Trees, Files
    <3> QED
      BY <2>1, <3>1, <3>2 DEF Mix
  <2>2. CASE q # p
    BY <2>2 DEF InspectAgain, MixedInOrder, Mix
  <2> QED
    BY <2>1, <2>2
<1>3. RefusalLeavesFiles'
  BY DEF InspectAgain, RefusalLeavesFiles
<1>4. PartialHasBackups'
  BY BackupsKept DEF InspectAgain, Fresh
<1> QED
  BY <1>1, <1>2, <1>3, <1>4

(* A rename extends the mix by one file of the bundle.                     *)
LEMMA ReplaceKeepsFiles ==
    ASSUME FilesInv, PackageInv', LockExcludes', NEW p \in Appliers, Replace(p)
    PROVE  FilesInv'
<1> USE DEF FilesInv, PackageInv, TypeOK
<1>1. /\ p \in staged /\ staged' = staged
      /\ bundle[p] \in Bundles /\ bundle' = bundle
      /\ previous[p] = prior[p] /\ previous' = previous
      /\ pc[p] = "replacing" /\ pc' = pc
  BY DEF Replace, StagedWhileMixed, Packaged, FoundAsNamed
<1>2. Whole(previous[p]) /\ previous[p] # Nothing
  BY <1>1, BackupsAreWhole
<1>3. tree' = Mix(p)'
  <2>1. tree = Mix(p)
    BY <1>1, <1>2 DEF MixedInOrder, Transaction
  <2>2. done[p] \in Nat /\ done'[p] = done[p] + 1 /\ tree' = [tree EXCEPT ![done[p] + 1] = bundle[p]]
    BY DEF Replace
  <2>3. ASSUME NEW n \in Files
        PROVE  tree'[n] = IF n <= done'[p] THEN bundle[p] ELSE previous[p][n]
    <3>1. n \in Int
      BY FileAssumption DEF Files
    <3>2. tree'[n] = IF n = done[p] + 1 THEN bundle[p] ELSE tree[n]
      BY <2>2 DEF Trees
    <3>3. tree[n] = IF n <= done[p] THEN bundle[p] ELSE previous[p][n]
      BY <2>1 DEF Mix
    <3> QED
      BY <2>2, <3>1, <3>2, <3>3
  <2>4. tree' \in Trees
    BY DEF TypeOK
  <2> QED
    BY <1>1, <2>3, <2>4 DEF Mix, Trees
<1>4. AlwaysAdopted'
  <2>1. tree'[Adoption] # Absent
    BY <1>1, ReleaseAssumption, FileAssumption DEF Replace, AlwaysAdopted, Trees
  <2> QED
    BY <2>1 DEF Replace, AlwaysAdopted
<1>5. StagedWhileMixed'
  BY <1>1 DEF Replace, StagedWhileMixed
<1>6. MixedInOrder'
  BY <1>1, <1>3, OneTransaction DEF MixedInOrder, Transaction
<1>7. RefusalLeavesFiles'
  BY <1>1, OneTransaction DEF Replace, RefusalLeavesFiles, Transaction
<1>8. PartialHasBackups'
  BY <1>1, <1>2, <1>3, BackupsInPlace
<1> QED
  BY <1>4, <1>5, <1>6, <1>7, <1>8

(* A restored file leaves the mix one file shorter.                        *)
LEMMA RestoreKeepsFiles ==
    ASSUME FilesInv, PackageInv', LockExcludes', NEW p \in Appliers, Restore(p)
    PROVE  FilesInv'
<1> USE DEF FilesInv, PackageInv, TypeOK
<1>1. CASE done[p] = 0
  <2>1. AlwaysAdopted' /\ StagedWhileMixed'
    BY <1>1 DEF Restore, Goto, AlwaysAdopted, StagedWhileMixed
  <2>2. MixedInOrder' /\ RefusalLeavesFiles'
    BY <1>1 DEF Restore, Goto, MixedInOrder, Mix, Transaction, RefusalLeavesFiles
  <2>3. PartialHasBackups'
    BY <1>1, BackupsKept DEF Restore
  <2> QED
    BY <2>1, <2>2, <2>3
<1>2. CASE done[p] # 0
  <2>1. done[p] \in 1..N /\ done[p] \in Files
    BY <1>2, FileAssumption DEF Files
  <2>2. /\ p \in staged /\ staged' = staged
        /\ bundle[p] \in Bundles /\ bundle' = bundle
        /\ previous[p] = prior[p] /\ previous' = previous
        /\ pc[p] = "restoring" /\ pc' = pc
    BY <1>2, <2>1 DEF Restore, StagedWhileMixed, Packaged, FoundAsNamed
  <2>3. Whole(previous[p]) /\ previous[p] # Nothing
    BY <2>2, BackupsAreWhole
  <2>4. tree' = Mix(p)'
    <3>1. tree = Mix(p)
      BY <2>2, <2>3 DEF MixedInOrder, Transaction
    <3>2. /\ done'[p] = done[p] - 1
          /\ tree' = [tree EXCEPT ![done[p]] = previous[p][done[p]]]
      BY <1>2 DEF Restore
    <3>3. ASSUME NEW n \in Files
          PROVE  tree'[n] = IF n <= done'[p] THEN bundle[p] ELSE previous[p][n]
      <4>1. n \in Int
        BY FileAssumption DEF Files
      <4>2. tree'[n] = IF n = done[p] THEN previous[p][n] ELSE tree[n]
        BY <3>2 DEF Trees
      <4>3. tree[n] = IF n <= done[p] THEN bundle[p] ELSE previous[p][n]
        BY <3>1 DEF Mix
      <4>4. done[p] \in Int
        BY <2>1
      <4>5. n <= done[p] - 1 <=> n <= done[p] /\ n # done[p]
        BY <4>1, <4>4, OneBelow
      <4>6. CASE n = done[p]
        BY <3>2, <4>2, <4>5, <4>6
      <4>7. CASE n # done[p]
        BY <3>2, <4>2, <4>3, <4>5, <4>7
      <4> QED
        BY <4>6, <4>7
    <3>4. tree' \in Trees
      BY DEF TypeOK
    <3> QED
      BY <2>2, <3>3, <3>4 DEF Mix, Trees
  <2>5. AlwaysAdopted'
    <3>1. previous[p][Adoption] # Absent
      BY <2>2 DEF AlwaysAdopted
    <3>2. tree'[Adoption] # Absent
      BY <1>2, <3>1, FileAssumption DEF Restore, AlwaysAdopted, Trees
    <3> QED
      BY <1>2, <3>2 DEF Restore, AlwaysAdopted
  <2>6. StagedWhileMixed'
    BY <1>2, <2>2 DEF Restore, StagedWhileMixed
  <2>7. MixedInOrder'
    BY <2>2, <2>4, OneTransaction DEF MixedInOrder, Transaction
  <2>8. RefusalLeavesFiles'
    BY <1>2, <2>2, OneTransaction DEF Restore, RefusalLeavesFiles, Transaction
  <2>9. PartialHasBackups'
    BY <2>2, <2>3, <2>4, BackupsInPlace
  <2> QED
    BY <2>5, <2>6, <2>7, <2>8, <2>9
<1> QED
  BY <1>1, <1>2

(* Backups only go once the files are whole.                               *)
LEMMA CleanUpKeepsFiles ==
    ASSUME FilesInv, PackageInv', LockExcludes', NEW p \in Appliers, CleanUp(p)
    PROVE  FilesInv'
<1> USE DEF FilesInv, PackageInv, TypeOK, Goto
<1>1. AlwaysAdopted' /\ StagedWhileMixed'
  BY DEF CleanUp, AlwaysAdopted, StagedWhileMixed
<1>2. MixedInOrder'
  BY DEF CleanUp, MixedInOrder, Mix, Transaction
<1>3. ASSUME previous[p] # Nothing
      PROVE  /\ tree = Mix(p) /\ bundle[p] \in Bundles
             /\ p \in completed => Whole(tree)
             /\ (\A n \in 1..done[p] : tree[n] = previous[p][n]) => tree = previous[p]
  <2>1. tree = Mix(p) /\ bundle[p] \in Bundles
    BY <1>3 DEF CleanUp, MixedInOrder, Transaction, Packaged
  <2> QED
    BY <2>1, MixIsMixed DEF StagedWhileMixed
<1>4. RefusalLeavesFiles'
  <2> SUFFICES ASSUME previous[p] # Nothing, p \notin completed, p \notin staged'
               PROVE  tree = previous[p]
    BY DEF CleanUp, RefusalLeavesFiles
  <2>1. \A n \in 1..done[p] : tree[n] = previous[p][n]
    <3>1. CASE p \in staged
      BY <3>1 DEF CleanUp
    <3>2. CASE p \notin staged
      <4>1. done[p] = 0
        BY <3>2 DEF CleanUp, StagedWhileMixed
      <4> QED
        BY <4>1
    <3> QED
      BY <3>1, <3>2
  <2> QED
    BY <1>3, <2>1
<1>5. PartialHasBackups'
  <2>1. CASE staged' = staged
    BY <2>1, BackupsKept DEF CleanUp
  <2>2. CASE staged' # staged
    <3>1. /\ p \in staged /\ pc[p] # "idle" /\ previous[p] = prior[p]
          /\ p \in completed \/ \A n \in 1..done[p] : tree[n] = previous[p][n]
      BY <2>2 DEF CleanUp, StagedWhileMixed
    <3>2. Whole(previous[p]) /\ previous[p] # Nothing
      BY <3>1, BackupsAreWhole
    <3>3. Whole(tree)
      BY <1>3, <3>1, <3>2
    <3> QED
      BY <3>3 DEF CleanUp, PartialHasBackups, Whole, Original
  <2> QED
    BY <2>1, <2>2
<1> QED
  BY <1>1, <1>2, <1>4, <1>5

(* Removing the lock changes no file.                                      *)
LEMMA UnlockKeepsFiles ==
    ASSUME FilesInv, PackageInv', LockExcludes', NEW p \in Appliers, Unlock(p)
    PROVE  FilesInv'
<1> USE DEF FilesInv, PackageInv, TypeOK, Goto
<1>1. AlwaysAdopted' /\ StagedWhileMixed'
  BY DEF Unlock, End, AlwaysAdopted, StagedWhileMixed
<1>2. MixedInOrder'
  BY DEF Unlock, End, MixedInOrder, Mix, Transaction
<1>3. RefusalLeavesFiles'
  BY DEF Unlock, End, RefusalLeavesFiles
<1>4. PartialHasBackups'
  BY BackupsKept DEF Unlock, End
<1> QED
  BY <1>1, <1>2, <1>3, <1>4

(* A recovery closes whole files, or restores whole backups.               *)
LEMMA RecoverKeepsFiles ==
    ASSUME FilesInv, PackageInv', LockExcludes', NEW p \in Appliers, Recover(p)
    PROVE  FilesInv'
<1> USE DEF FilesInv, PackageInv, TypeOK, Goto
<1>1. CASE tree' = tree
  <2>1. AlwaysAdopted' /\ StagedWhileMixed'
    BY <1>1 DEF Recover, End, AlwaysAdopted, StagedWhileMixed
  <2>2. MixedInOrder' /\ RefusalLeavesFiles'
    BY <1>1 DEF Recover, End, MixedInOrder, Mix, Transaction, RefusalLeavesFiles
  <2>3. PartialHasBackups'
    <3>1. CASE Whole(tree)
      BY <1>1, <3>1 DEF PartialHasBackups, Whole, Original
    <3>2. CASE p \notin staged
      BY <1>1, <3>2, BackupsKept DEF Recover, End
    <3>3. CASE p \in staged /\ tree' = previous[p]
      BY <1>1, <3>3, BackupsAreWhole DEF PartialHasBackups, Whole, Original, StagedWhileMixed
    <3> QED
      BY <3>1, <3>2, <3>3 DEF Recover
  <2> QED
    BY <2>1, <2>2, <2>3
<1>2. CASE p \in staged /\ tree' = previous[p]
  <2>1. pc[p] # "idle" /\ previous[p] = prior[p]
    BY <1>2 DEF StagedWhileMixed
  <2>2. Whole(previous[p]) /\ previous[p][Adoption] # Absent
    BY <2>1, BackupsAreWhole DEF AlwaysAdopted
  <2>3. AlwaysAdopted' /\ StagedWhileMixed'
    BY <1>2, <2>2 DEF Recover, End, AlwaysAdopted, StagedWhileMixed
  <2>4. \A q \in Appliers \ {p} : pc[q] \notin Transaction
    BY ProcAssumption DEF Recover, LockExcludes, Transaction, Locked
  <2>5. MixedInOrder' /\ RefusalLeavesFiles'
    BY <2>4 DEF Recover, End, MixedInOrder, Transaction, RefusalLeavesFiles
  <2>6. PartialHasBackups'
    BY <1>2, <2>2 DEF PartialHasBackups, Whole, Original
  <2> QED
    BY <2>3, <2>5, <2>6
<1> QED
  BY <1>1, <1>2 DEF Recover

(* Readers and stuttering leave it alone.                                  *)
LEMMA QuietKeepsFiles ==
    ASSUME FilesInv, PackageInv', LockExcludes', UNCHANGED <<tree, lock, applying>>
    PROVE  FilesInv'
<1> USE DEF applying
<1>1. AlwaysAdopted' /\ StagedWhileMixed' /\ RefusalLeavesFiles'
  BY DEF FilesInv, AlwaysAdopted, StagedWhileMixed, RefusalLeavesFiles
<1>2. MixedInOrder'
  BY DEF FilesInv, MixedInOrder, Mix
<1>3. PartialHasBackups'
  BY BackupsKept DEF FilesInv
<1> QED
  BY <1>1, <1>2, <1>3 DEF FilesInv

(* Once the repository has adopted a bundle, its files are always the mix  *)
(* of one transaction at most, in order, with backups.                     *)
LEMMA FilesCorrect == ASSUME Start # Absent PROVE Spec => []FilesInv
<1>1. Init => FilesInv
  BY FilesInit
<1>2. FilesInv /\ PackageInv' /\ LockExcludes' /\ [Next]_vars => FilesInv'
  <2> SUFFICES ASSUME FilesInv, PackageInv', LockExcludes', [Next]_vars PROVE FilesInv'
    OBVIOUS
  <2>1. ASSUME NEW p \in Appliers, Prepare(p) \/ Step(p) \/ Crash(p) \/ Recover(p)
        PROVE  FilesInv'
    BY <2>1, PrepareKeepsFiles, CheckActiveKeepsFiles, InspectKeepsFiles, TakeLockKeepsFiles,
       RefuseKeepsFiles, InspectAgainKeepsFiles, StageKeepsFiles, ReplaceKeepsFiles,
       FinalCheckKeepsFiles, FailKeepsFiles, RestoreKeepsFiles, RestoreFailsKeepsFiles,
       CleanUpKeepsFiles, UnlockKeepsFiles, CrashKeepsFiles, RecoverKeepsFiles DEF Step
  <2>2. ASSUME NEW r \in Readers, Read(r) PROVE FilesInv'
    BY <2>2, QuietKeepsFiles DEF Read, ReadPins, ReadAdoption, CompareFile, EndRead
  <2>3. CASE UNCHANGED vars
    BY <2>3, QuietKeepsFiles DEF vars
  <2> QED
    BY <2>1, <2>2, <2>3 DEF Next
<1> QED
  BY <1>1, <1>2, PackageCorrect, MutualExclusion, PTL DEF Spec

(* Partial files always have whole backups.                                *)
THEOREM PartialsHaveBackups == ASSUME Start # Absent PROVE Spec => []PartialHasBackups
<1>1. FilesInv => PartialHasBackups
  BY DEF FilesInv
<1> QED
  BY <1>1, FilesCorrect, PTL

(* An apply that ends without its adoption leaves the files as they were.  *)
THEOREM RefusalsLeaveFiles == ASSUME Start # Absent PROVE Spec => []RefusalLeavesFiles
<1>1. FilesInv => RefusalLeavesFiles
  BY DEF FilesInv
<1> QED
  BY <1>1, FilesCorrect, PTL

(* After the first adoption, the files of an apply can be had again, and   *)
(* no other apply is at work on them.                                      *)
THEOREM FilesStayRecoverable == ASSUME Start # Absent PROVE Spec => []FilesAreRecoverable
<1>1. LockExcludes /\ PartialHasBackups /\ RefusalLeavesFiles => FilesAreRecoverable
  BY DEF FilesAreRecoverable
<1> QED
  BY <1>1, MutualExclusion, PartialsHaveBackups, RefusalsLeaveFiles, PTL

-----------------------------------------------------------------------------
(* The safety half of LockReleased: a lock that is taken belongs to an     *)
(* apply that is under it, whose finally removes it, or to one that        *)
(* crashed there, which the operator recovers; no apply that refused,      *)
(* failed or ended leaves one behind.                                      *)
LockIsOwned == lock # Nobody => pc[lock] \in Locked \cup {"crashed"}

LEMMA OwnedKept ==
    ASSUME TypeOK, LockIsOwned, LockExcludes, [Next]_vars
    PROVE  LockIsOwned'
<1> USE ProcAssumption DEF TypeOK, LockIsOwned, LockExcludes, Locked, Goto, End
<1>1. ASSUME NEW p \in Appliers, Prepare(p) \/ Step(p) PROVE LockIsOwned'
  BY <1>1 DEF Prepare, Step, CheckActive, Inspect, TakeLock, Refuse, InspectAgain, Stage,
     Replace, FinalCheck, Fail, Restore, RestoreFails, CleanUp, Unlock
<1>2. ASSUME NEW p \in Appliers, Crash(p) \/ Recover(p) PROVE LockIsOwned'
  BY <1>2 DEF Crash, Recover
<1>3. ASSUME NEW r \in Readers, Read(r) PROVE LockIsOwned'
  BY <1>3 DEF Read, ReadPins, ReadAdoption, CompareFile, EndRead, applying
<1>4. CASE UNCHANGED vars
  BY <1>4 DEF vars, applying
<1> QED
  BY <1>1, <1>2, <1>3, <1>4 DEF Next

(* No lock is left behind, but by a crash.                                 *)
THEOREM LockHasOwner == Spec => []LockIsOwned
<1>1. Init => LockIsOwned
  BY DEF Init, LockIsOwned
<1>2. TypeOK /\ LockIsOwned /\ LockExcludes /\ [Next]_vars => LockIsOwned'
  BY OwnedKept
<1> QED
  BY <1>1, <1>2, TypeCorrect, MutualExclusion, PTL DEF Spec

-----------------------------------------------------------------------------
(* The gate.  ReturnedIsChecked does not hold as it stands (run            *)
(* adoption_reader): a check takes no lock.  It holds of the checks that   *)
(* no apply overlaps, since the files then stay as the pins were read.     *)
Checking == \E r \in Readers : reader[r].at \in {"adoption", "comparing"}
ChecksUndisturbed == [][Checking => UNCHANGED tree]_vars

(* What a check has read is still what the files hold.                     *)
ReadIsCurrent(r) ==
    /\ reader[r].at \in {"adoption", "comparing"} =>
          \A n \in Pins : reader[r].pins[n] = tree[n]
    /\ reader[r].at = "adoption" => reader[r].next = 1 /\ reader[r].adoption = Absent
    /\ reader[r].at = "comparing" =>
          \A n \in Files : n < reader[r].next => tree[n] = reader[r].adoption
    /\ reader[r].at = "returned" /\ reader[r].adoption # Absent =>
          \A n \in Pins : reader[r].pins[n] = reader[r].adoption

ReadsAreCurrent == \A r \in Readers : ReadIsCurrent(r)

(* A place of a file in the order is a file, and only one has it.          *)
LEMMA NextFile ==
    ASSUME NEW i \in Files, NEW n \in Files, i # N, n < i + 1, ~(n < i)
    PROVE  n = i
  BY FileAssumption DEF Files

LEMMA LastFile ==
    ASSUME NEW n \in Files
    PROVE  n < N \/ n = N
  BY FileAssumption DEF Files

LEMMA ReadsKept ==
    ASSUME TypeOK, ReadsAreCurrent, [Next]_vars, [Checking => UNCHANGED tree]_vars
    PROVE  ReadsAreCurrent'
<1> SUFFICES ASSUME NEW r \in Readers PROVE ReadIsCurrent(r)'
  BY DEF ReadsAreCurrent
<1> USE DEF ReadIsCurrent
<1>0. ReadIsCurrent(r)
  BY DEF ReadsAreCurrent
<1>1. CASE reader'[r] = reader[r]
  <2>1. reader[r].at \in {"adoption", "comparing"} => tree' = tree
    BY DEF Checking, vars
  <2> QED
    BY <1>0, <1>1, <2>1
<1>2. CASE reader'[r] # reader[r]
  <2>1. PICK q \in Readers : Read(q)
    BY <1>2 DEF Next, vars, Step, Prepare, CheckActive, Inspect, TakeLock, Refuse, InspectAgain,
       Stage, Replace, FinalCheck, Fail, Restore, RestoreFails, CleanUp, Unlock, Crash, Recover
  <2>2. tree' = tree /\ Pins \subseteq Files
    BY <2>1, FileAssumption DEF Read, ReadPins, ReadAdoption, CompareFile, EndRead
  <2>3. r = q
    BY <1>2, <2>1 DEF Read, ReadPins, ReadAdoption, CompareFile, EndRead, TypeOK
  <2>4. CASE ReadPins(r)
    BY <2>2, <2>4 DEF ReadPins, TypeOK
  <2>5. CASE ReadAdoption(r)
    <3>1. /\ reader[r].at = "adoption" /\ \A n \in Pins : reader[r].pins[n] = tree[n]
          /\ reader[r].next = 1 /\ reader[r].adoption = Absent
      BY <1>0, <2>5 DEF ReadAdoption
    <3>2. CASE tree[Adoption] # Absent
      <4>1. /\ reader'[r].at = "comparing" /\ reader'[r].adoption = tree[Adoption]
            /\ reader'[r].pins = reader[r].pins /\ reader'[r].next = reader[r].next
        BY <2>5, <3>2 DEF ReadAdoption, TypeOK
      <4>2. \A n \in Files : ~(n < 1)
        BY FileAssumption DEF Files
      <4> QED
        BY <2>2, <3>1, <4>1, <4>2
    <3>3. CASE tree[Adoption] = Absent
      <4>1. reader'[r].at = "returned" /\ reader'[r].adoption = reader[r].adoption
        BY <2>5, <3>3 DEF ReadAdoption, TypeOK
      <4> QED
        BY <3>1, <4>1
    <3> QED
      BY <3>2, <3>3
  <2>6. CASE CompareFile(r)
    <3>1. /\ reader[r].at = "comparing" /\ tree[reader[r].next] = reader[r].adoption
          /\ reader[r].next \in Files
      BY <2>6 DEF CompareFile, TypeOK
    <3>2. /\ reader'[r].adoption = reader[r].adoption /\ reader'[r].pins = reader[r].pins
          /\ reader'[r].at = IF reader[r].next = N THEN "returned" ELSE "comparing"
          /\ reader'[r].next = IF reader[r].next = N THEN N ELSE reader[r].next + 1
      BY <2>6 DEF CompareFile, TypeOK
    <3>3. \A n \in Files : n < reader[r].next => tree[n] = reader[r].adoption
      BY <1>0, <3>1
    <3>4. \A n \in Pins : reader[r].pins[n] = tree[n]
      BY <1>0, <3>1
    <3>5. CASE reader[r].next = N
      <4>1. \A n \in Files : tree[n] = reader[r].adoption
        BY <3>1, <3>3, <3>5, LastFile
      <4> QED
        BY <2>2, <3>2, <3>4, <3>5, <4>1
    <3>6. CASE reader[r].next # N
      <4>1. \A n \in Files : n < reader[r].next + 1 => tree[n] = reader[r].adoption
        BY <3>1, <3>3, <3>6, NextFile
      <4> QED
        BY <2>2, <3>2, <3>4, <3>6, <4>1
    <3> QED
      BY <3>5, <3>6
  <2>7. CASE EndRead(r)
    BY <2>2, <2>7 DEF EndRead, TypeOK
  <2> QED
    BY <2>1, <2>3, <2>4, <2>5, <2>6, <2>7 DEF Read
<1> QED
  BY <1>1, <1>2

(* A check that no apply overlaps returns the pins of the record that it   *)
(* compared every file with, whatever applies do in between.               *)
THEOREM UndisturbedChecks == Spec /\ ChecksUndisturbed => []ReturnedIsChecked
<1>1. Init => ReadsAreCurrent
  BY DEF Init, ReadsAreCurrent, ReadIsCurrent
<1>2. TypeOK /\ ReadsAreCurrent /\ [Next]_vars /\ [Checking => UNCHANGED tree]_vars
          => ReadsAreCurrent'
  BY ReadsKept
<1>3. ReadsAreCurrent => ReturnedIsChecked
  BY DEF ReadsAreCurrent, ReadIsCurrent, ReturnedIsChecked
<1> QED
  BY <1>1, <1>2, <1>3, TypeCorrect, PTL DEF Spec, ChecksUndisturbed

=============================================================================
