------------------------- MODULE PublishedFilesProofs -------------------------
(***************************************************************************)
(* Why what this repository puts in place is safe for every number of      *)
(* runs, commands, seals, targets, artifacts and strata, whatever fails or *)
(* crashes: the discovery store, measurement outputs, sealed inputs,       *)
(* generated publications, the artifact index, the intake of packs and the *)
(* released aggregate.  They share no state; each has its inductive        *)
(* invariant, one lemma per step it can disturb, and the theorems it       *)
(* gives.  The last section carries them, and those about the report       *)
(* commit and the deployment, over to the specification that joins them.   *)
(***************************************************************************)
EXTENDS MCPublication, CommitAndDeployProofs, FoldLemmas

-----------------------------------------------------------------------------
(* The discovery store.                                                    *)
StagingIsOwn(r) ==
    /\ writing[r] \in {"parts", "stat", "aside", "in"} => staging[r].run = r
    /\ writing[r] \in {"stat", "aside", "in"} => staging[r].files = StoreFiles

StoresAreWhole ==
    /\ stored = Nothing \/ WholeStore(stored)
    /\ \A r \in StoreRuns : aside[r] = Nothing \/ WholeStore(aside[r])

(* A run drops what it moved aside only while another copy is safe.        *)
CopyIsKept ==
    (\E r \in StoreRuns : writing[r] = "drop") =>
        \/ WholeStore(stored)
        \/ \E r \in StoreRuns : writing[r] # "drop" /\ WholeStore(aside[r])

ReaderIsAtOneRun ==
    manifest # NoRun => /\ taken \subseteq {manifest}
                        /\ consumed # {} => taken = {manifest}

StoreInv ==
    /\ StoreTypeOK
    /\ \A r \in StoreRuns : StagingIsOwn(r)
    /\ StoresAreWhole
    /\ CopyIsKept
    /\ ReaderIsAtOneRun

LEMMA StoreStarts == StoreInit => StoreInv
  BY StoreAssumption DEF StoreInit, StoreInv, StoreTypeOK, Directory, Nothing, StagingIsOwn,
     StoresAreWhole, CopyIsKept, ReaderIsAtOneRun

LEMMA WriterTypes ==
    ASSUME StoreInv, NEW r \in StoreRuns, WriterStep(r) PROVE StoreTypeOK'
<1> USE DEF At, Go, storeReader
<1>0. StoreTypeOK
  BY DEF StoreInv
<1>1. Nothing \in Directory
  BY DEF Nothing, Directory
<1>2. CASE BeginStaging(r)
  <2>1. [run |-> r, files |-> {}] \in Directory
    BY DEF Directory
  <2> QED BY <1>0, <1>2, <2>1 DEF BeginStaging, StoreTypeOK
<1>3. CASE WriteStorePart(r)
  <2>1. PICK p \in StoreParts : staging' = [staging EXCEPT ![r].files = @ \cup {p}]
    BY <1>3 DEF WriteStorePart
  <2>2. staging' \in [StoreRuns -> Directory]
    BY <2>1, <1>0 DEF StoreTypeOK, Directory, StoreFiles
  <2> QED BY <1>0, <1>3, <2>2 DEF WriteStorePart, StoreTypeOK
<1>4. CASE WriteManifest(r)
  <2>1. staging' \in [StoreRuns -> Directory]
    BY <1>4, <1>0 DEF WriteManifest, StoreTypeOK, Directory, StoreFiles
  <2> QED BY <1>0, <1>4, <2>1 DEF WriteManifest, StoreTypeOK
<1>5. CASE StatStore(r)
  BY <1>0, <1>5 DEF StatStore, StoreTypeOK
<1>6. CASE StoreFails(r)
  BY <1>0, <1>1, <1>6 DEF StoreFails, StoreTypeOK
<1>7. CASE MoveAside(r)
  BY <1>0, <1>1, <1>7 DEF MoveAside, StoreTypeOK
<1>8. CASE MoveIn(r)
  BY <1>0, <1>1, <1>8 DEF MoveIn, StoreTypeOK
<1>9. CASE DropAside(r)
  BY <1>0, <1>1, <1>9 DEF DropAside, StoreTypeOK
<1>10. CASE StoreCrash(r)
  BY <1>0, <1>10 DEF StoreCrash, StoreTypeOK
<1> QED BY <1>2, <1>3, <1>4, <1>5, <1>6, <1>7, <1>8, <1>9, <1>10 DEF WriterStep

LEMMA StagingStaysOwn ==
    ASSUME StoreInv, NEW r \in StoreRuns, WriterStep(r) PROVE \A u \in StoreRuns : StagingIsOwn(u)'
<1> SUFFICES ASSUME NEW u \in StoreRuns PROVE StagingIsOwn(u)'
  OBVIOUS
<1> USE DEF At, Go, storeReader
<1>0. StoreTypeOK /\ StagingIsOwn(u)
  BY DEF StoreInv
<1>1. CASE BeginStaging(r)
  BY <1>0, <1>1 DEF BeginStaging, StoreTypeOK, StagingIsOwn
<1>2. CASE WriteStorePart(r)
  <2>1. PICK p \in StoreParts : staging' = [staging EXCEPT ![r].files = @ \cup {p}]
    BY <1>2 DEF WriteStorePart
  <2> QED BY <1>0, <1>2, <2>1 DEF WriteStorePart, StoreTypeOK, Directory, StagingIsOwn
<1>3. CASE WriteManifest(r)
  <2>1. staging[r].files \subseteq StoreFiles
    BY <1>0 DEF StoreTypeOK, Directory
  <2>2. staging'[r].files = StoreFiles /\ staging'[r].run = staging[r].run
    BY <1>0, <1>3, <2>1 DEF WriteManifest, StoreTypeOK, Directory, StoreFiles
  <2>3. u # r => staging'[u] = staging[u] /\ writing'[u] = writing[u]
    BY <1>0, <1>3 DEF WriteManifest, StoreTypeOK
  <2> QED BY <1>0, <1>3, <2>2, <2>3 DEF WriteManifest, StoreTypeOK, StagingIsOwn
<1>4. CASE StatStore(r)
  BY <1>0, <1>4 DEF StatStore, StoreTypeOK, StagingIsOwn
<1>5. CASE StoreFails(r)
  BY <1>0, <1>5 DEF StoreFails, StoreTypeOK, StagingIsOwn
<1>6. CASE MoveAside(r)
  BY <1>0, <1>6 DEF MoveAside, StoreTypeOK, StagingIsOwn
<1>7. CASE MoveIn(r)
  BY <1>0, <1>7 DEF MoveIn, StoreTypeOK, StagingIsOwn
<1>8. CASE DropAside(r)
  BY <1>0, <1>8 DEF DropAside, StoreTypeOK, StagingIsOwn
<1>9. CASE StoreCrash(r)
  BY <1>0, <1>9 DEF StoreCrash, StoreTypeOK, StagingIsOwn
<1> QED BY <1>1, <1>2, <1>3, <1>4, <1>5, <1>6, <1>7, <1>8, <1>9 DEF WriterStep

(* What a writer moves is whole, and it drops nothing that is the last.    *)
LEMMA CopiesStay ==
    ASSUME StoreInv, NEW r \in StoreRuns, WriterStep(r)
    PROVE  /\ StoresAreWhole' /\ CopyIsKept'
           /\ (\E d \in Copies : WholeStore(d)) => (\E d \in Copies' : WholeStore(d))
<1> USE DEF At, Go, storeReader
<1>0. StoreTypeOK /\ StagingIsOwn(r) /\ StoresAreWhole /\ CopyIsKept
  BY DEF StoreInv
<1>1. ~WholeStore(Nothing)
  BY DEF WholeStore, Nothing
<1>2. CASE BeginStaging(r) \/ WriteStorePart(r) \/ WriteManifest(r) \/ StatStore(r)
  <2>1. stored' = stored /\ aside' = aside
    BY <1>2 DEF BeginStaging, WriteStorePart, WriteManifest, StatStore
  <2>2. \A u \in StoreRuns : (writing'[u] = "drop") = (writing[u] = "drop")
    BY <1>0, <1>2 DEF BeginStaging, WriteStorePart, WriteManifest, StatStore, StoreTypeOK
  <2> QED BY <1>0, <2>1, <2>2 DEF StoresAreWhole, CopyIsKept, Copies
<1>3. CASE StoreFails(r) \/ StoreCrash(r)
  <2>1. stored' = stored /\ aside' = aside
    BY <1>3 DEF StoreFails, StoreCrash
  <2>2. \A u \in StoreRuns : writing'[u] = "drop" => writing[u] = "drop"
    BY <1>0, <1>3 DEF StoreFails, StoreCrash, StoreTypeOK
  <2> QED BY <1>0, <2>1, <2>2 DEF StoresAreWhole, CopyIsKept, Copies
<1>4. CASE MoveAside(r)
  <2>1. WholeStore(stored)
    BY <1>0, <1>4 DEF MoveAside, StoresAreWhole, Nothing
  <2>2. stored' = Nothing /\ aside' = [aside EXCEPT ![r] = stored] /\ aside'[r] = stored
    BY <1>0, <1>4 DEF MoveAside, StoreTypeOK
  <2>3. writing'[r] # "drop"
    BY <1>0, <1>4 DEF MoveAside, StoreTypeOK
  <2>4. StoresAreWhole'
    BY <1>0, <2>1, <2>2 DEF StoresAreWhole, StoreTypeOK, WholeStore
  <2>5. WholeStore(aside'[r])
    BY <2>1, <2>2
  <2>6. CopyIsKept'
    BY <2>3, <2>5 DEF CopyIsKept, WholeStore
  <2> QED BY <2>4, <2>5, <2>6 DEF Copies
<1>5. CASE MoveIn(r)
  <2>1. stored' = staging[r] /\ aside' = aside
    BY <1>5 DEF MoveIn
  <2>2. WholeStore(staging[r])
    BY <1>0, <1>5, StoreAssumption DEF MoveIn, StagingIsOwn, WholeStore
  <2>3. WholeStore(stored)'
    BY <2>1, <2>2 DEF WholeStore
  <2> QED BY <1>0, <2>1, <2>2, <2>3 DEF StoresAreWhole, CopyIsKept, Copies, WholeStore
<1>6. CASE DropAside(r)
  <2>1. stored' = stored /\ writing[r] = "drop" /\ writing' = [writing EXCEPT ![r] = "over"]
    BY <1>6 DEF DropAside
  <2>2. \A u \in StoreRuns \ {r} : aside'[u] = aside[u] /\ writing'[u] = writing[u]
    BY <1>0, <1>6 DEF DropAside, StoreTypeOK
  <2>3. aside'[r] = Nothing
    BY <1>0, <1>6 DEF DropAside, StoreTypeOK
  <2>4. StoresAreWhole'
    BY <1>0, <2>1, <2>2, <2>3 DEF StoresAreWhole, WholeStore
  <2>5. \/ WholeStore(stored')
        \/ \E u \in StoreRuns : writing'[u] # "drop" /\ WholeStore(aside'[u])
    <3>1. CASE WholeStore(stored)
      BY <3>1, <2>1
    <3>2. CASE ~WholeStore(stored)
      <4>1. PICK u \in StoreRuns : writing[u] # "drop" /\ WholeStore(aside[u])
        BY <1>0, <2>1, <3>2 DEF CopyIsKept
      <4>2. u # r
        BY <4>1, <2>1
      <4> QED BY <4>1, <4>2, <2>2
    <3> QED BY <3>1, <3>2
  <2> QED BY <2>4, <2>5 DEF CopyIsKept, Copies, WholeStore
<1> QED BY <1>2, <1>3, <1>4, <1>5, <1>6 DEF WriterStep

LEMMA WriterKeeps ==
    ASSUME StoreInv, NEW r \in StoreRuns, WriterStep(r) PROVE StoreInv'
<1>1. UNCHANGED storeReader
  BY DEF WriterStep, BeginStaging, WriteStorePart, WriteManifest, StatStore, StoreFails,
         MoveAside, MoveIn, DropAside, StoreCrash
<1>2. ReaderIsAtOneRun'
  BY <1>1 DEF StoreInv, ReaderIsAtOneRun, storeReader
<1> QED BY <1>2, WriterTypes, StagingStaysOwn, CopiesStay DEF StoreInv

LEMMA ReaderKeeps == StoreInv /\ (OpenStore \/ ReadPart) => StoreInv'
<1> SUFFICES ASSUME StoreInv, OpenStore \/ ReadPart PROVE StoreInv'
  OBVIOUS
<1>0. StoreTypeOK /\ StoresAreWhole /\ ReaderIsAtOneRun
  BY DEF StoreInv
<1>1. UNCHANGED <<stored, storeWriter>>
  BY DEF OpenStore, ReadPart
<1>2. (\A r \in StoreRuns : StagingIsOwn(r)') /\ StoresAreWhole' /\ CopyIsKept'
  BY <1>1 DEF StoreInv, storeWriter, StagingIsOwn, StoresAreWhole, CopyIsKept, WholeStore
<1>3. CASE OpenStore
  <2>1. stored.run \in StoreRuns \cup {NoRun}
    BY <1>0 DEF StoreTypeOK, Directory
  <2> QED BY <1>0, <1>1, <1>2, <1>3, <2>1
          DEF OpenStore, StoreInv, StoreTypeOK, ReaderIsAtOneRun, storeWriter
<1>4. CASE ReadPart
  <2>1. PICK p \in StoreParts \ consumed :
           /\ p \in stored.files
           /\ taken' = taken \cup {stored.run}
           /\ IF stored.run = manifest
                THEN consumed' = consumed \cup {p} /\ UNCHANGED manifest
                ELSE consumed' = {} /\ manifest' = NoRun
    BY <1>4 DEF ReadPart
  <2>2. stored.run \in StoreRuns
    BY <1>0, <2>1 DEF StoresAreWhole, Nothing, WholeStore, StoreTypeOK, Directory
  <2>3. StoreTypeOK'
    BY <1>0, <1>1, <2>1, <2>2 DEF StoreTypeOK, storeWriter
  <2>4. ReaderIsAtOneRun'
    BY <1>0, <1>4, <2>1 DEF ReadPart, ReaderIsAtOneRun
  <2> QED BY <1>2, <2>3, <2>4 DEF StoreInv
<1> QED BY <1>3, <1>4

LEMMA StoreInvariant == StoreSpec => []StoreInv
<1>1. StoreInv /\ [StoreNext]_storeVars => StoreInv'
  <2>1. StoreInv /\ UNCHANGED storeVars => StoreInv'
    BY DEF storeVars, storeWriter, storeReader, StoreInv, StoreTypeOK, StagingIsOwn,
           StoresAreWhole, CopyIsKept, ReaderIsAtOneRun, WholeStore
  <2> QED BY <2>1, WriterKeeps, ReaderKeeps DEF StoreNext
<1> QED BY <1>1, StoreStarts, PTL DEF StoreSpec

(* The store, the staging directories and the reader keep their types.     *)
THEOREM StoreTypes == StoreSpec => []StoreTypeOK
<1>1. StoreInv => StoreTypeOK
  BY DEF StoreInv
<1> QED BY <1>1, StoreInvariant, PTL

(* Whatever runs overlap, fail and crash, the path holds nothing or the    *)
(* whole store of one run, and a reader that read it to the end has the    *)
(* records of that run only.                                               *)
THEOREM ReadersGetOneStore == StoreSpec => []StoreReads
<1>1. StoreInv => StoreReads
  BY StoreAssumption DEF StoreInv, StoreReads, StoreIsWhole, StoresAreWhole, Nothing,
     ReaderTakesOneRun, ReaderIsAtOneRun
<1> QED BY <1>1, StoreInvariant, PTL

(* Once a store was in place, a whole one is there or aside, through every *)
(* crash.                                                                  *)
THEOREM StoreIsNeverLost == StoreSpec => StoreSurvives
<1>1. StoreInv /\ [StoreNext]_storeVars =>
        [(\E d \in Copies : WholeStore(d)) => (\E d \in Copies' : WholeStore(d))]_storeVars
  <2> SUFFICES ASSUME StoreInv, StoreNext
               PROVE  (\E d \in Copies : WholeStore(d)) => (\E d \in Copies' : WholeStore(d))
    OBVIOUS
  <2>1. CASE OpenStore \/ ReadPart
    BY <2>1 DEF OpenStore, ReadPart, storeWriter, Copies
  <2> QED BY <2>1, CopiesStay DEF StoreNext
<1> QED BY <1>1, StoreInvariant, PTL DEF StoreSpec, StoreSurvives

-----------------------------------------------------------------------------
(* Measurements.  Only bundles come to the lock, what is placed is staged  *)
(* whole, and whoever is inside the lock created it.                       *)
BundlersLock == \A w \in Writers : step[w] \in {"lock", "look", "unlock"} => w \in Bundlers
PlacedWhole == \A w \in Writers : step[w] = "place" => stage[w] = Wanted(w)

MeasurementInv ==
    /\ MeasurementTypeOK
    /\ BundlersLock
    /\ PlacedWhole
    /\ MeasurementsAreSafe

LEMMA MeasurementStarts == MeasurementInit => MeasurementInv
  BY MeasurementAssumption
     DEF MeasurementInit, MeasurementInv, MeasurementTypeOK, BundlersLock, PlacedWhole,
         MeasurementsAreSafe, MeasurementIsWhole, OneBundler, Inside, Free, Empty, Writers

(* A step of command w leaves the others where they are.                   *)
LEMMA OthersWait ==
    ASSUME MeasurementInv, NEW w \in Writers,
           \A v \in Writers \ {w} : step'[v] = step[v] /\ stage'[v] = stage[v],
           \/ locked' = locked
           \/ locked = Nobody
           \/ locked = w
    PROVE  \A v \in Writers \ {w} :
              /\ step'[v] \in {"lock", "look", "unlock"} => v \in Bundlers
              /\ step'[v] = "place" => stage'[v] = Wanted(v)
              /\ v \in Bundlers /\ step'[v] \in Inside => locked' = v
  BY MeasurementAssumption
     DEF MeasurementInv, BundlersLock, PlacedWhole, MeasurementsAreSafe, OneBundler, Writers

(* One command's own step keeps the invariant, if it keeps it for itself.  *)
LEMMA OwnStepSuffices ==
    ASSUME MeasurementInv, NEW w \in Writers, MeasurementTypeOK',
           \A v \in Writers \ {w} : step'[v] = step[v] /\ stage'[v] = stage[v],
           \/ locked' = locked
           \/ locked = Nobody
           \/ locked = w,
           step'[w] \in {"lock", "look", "unlock"} => w \in Bundlers,
           step'[w] = "place" => stage'[w] = Wanted(w),
           w \in Bundlers /\ step'[w] \in Inside => locked' = w,
           MeasurementIsWhole'
    PROVE  MeasurementInv'
<1>1. BundlersLock' /\ PlacedWhole'
  BY OthersWait DEF BundlersLock, PlacedWhole, Wanted
<1>2. OneBundler'
  BY OthersWait DEF OneBundler, Writers, Inside
<1> QED BY <1>1, <1>2 DEF MeasurementInv, MeasurementsAreSafe

LEMMA MeasurementKept ==
    ASSUME MeasurementInv, NEW w \in Writers,
           \/ AskOutput(w) \/ MeasurementStep(w) \/ MeasurementFails(w) \/ MeasurementCrash(w)
           \/ w \in Bundlers /\ LockOutput(w)
    PROVE  MeasurementInv'
<1> USE MeasurementAssumption DEF In, To
<1>0. /\ MeasurementTypeOK /\ MeasurementIsWhole
      /\ step[w] \in {"lock", "look", "unlock"} => w \in Bundlers
      /\ step[w] = "place" => stage[w] = Wanted(w)
      /\ w \in Bundlers /\ step[w] \in Inside => locked = w
  BY DEF MeasurementInv, MeasurementsAreSafe, BundlersLock, PlacedWhole, OneBundler
<1> USE <1>0
<1>1. CASE AskOutput(w)
  <2>1. MeasurementTypeOK' /\ MeasurementIsWhole'
    BY <1>1 DEF AskOutput, MeasurementTypeOK, MeasurementIsWhole, Free, Wanted
  <2> QED BY <1>1, <2>1, OwnStepSuffices DEF AskOutput, MeasurementTypeOK, Inside, Writers
<1>2. CASE LockOutput(w) /\ w \in Bundlers
  <2>1. MeasurementTypeOK' /\ MeasurementIsWhole'
    BY <1>2 DEF LockOutput, MeasurementTypeOK, MeasurementIsWhole, Free, Wanted
  <2> QED BY <1>2, <2>1, OwnStepSuffices DEF LockOutput, MeasurementTypeOK, Inside, Writers
<1>3. CASE LookAgain(w)
  <2>1. MeasurementTypeOK' /\ MeasurementIsWhole'
    BY <1>3 DEF LookAgain, MeasurementTypeOK, MeasurementIsWhole, Free, Wanted
  <2> QED BY <1>3, <2>1, OwnStepSuffices DEF LookAgain, MeasurementTypeOK, Inside, Writers
<1>4. CASE StageOutput(w)
  <2>1. PICK f \in Wanted(w) \ stage[w] : stage' = [stage EXCEPT ![w] = @ \cup {f}]
    BY <1>4 DEF StageOutput
  <2>2. MeasurementTypeOK' /\ MeasurementIsWhole'
    BY <1>4, <2>1 DEF StageOutput, MeasurementTypeOK, MeasurementIsWhole, Free, Wanted
  <2> QED BY <1>4, <2>1, <2>2, OwnStepSuffices
          DEF StageOutput, MeasurementTypeOK, Inside, Writers
<1>5. CASE StageDone(w)
  <2>1. MeasurementTypeOK' /\ MeasurementIsWhole'
    BY <1>5 DEF StageDone, MeasurementTypeOK, MeasurementIsWhole, Free, Wanted
  <2> QED BY <1>5, <2>1, OwnStepSuffices DEF StageDone, MeasurementTypeOK, Inside, Writers
<1>6. CASE Place(w)
  <2>1. MeasurementTypeOK'
    BY <1>6 DEF Place, MeasurementTypeOK
  <2>2. MeasurementIsWhole'
    BY <1>6 DEF Place, MeasurementIsWhole, Free, Wanted
  <2> QED BY <1>6, <2>1, <2>2, OwnStepSuffices DEF Place, MeasurementTypeOK, Inside, Writers
<1>7. CASE CleanStage(w)
  <2>1. MeasurementTypeOK' /\ MeasurementIsWhole'
    BY <1>7 DEF CleanStage, MeasurementTypeOK, MeasurementIsWhole, Free, Wanted
  <2> QED BY <1>7, <2>1, OwnStepSuffices DEF CleanStage, MeasurementTypeOK, Inside, Writers
<1>8. CASE Unlock(w)
  <2>1. MeasurementTypeOK' /\ MeasurementIsWhole'
    BY <1>8 DEF Unlock, MeasurementTypeOK, MeasurementIsWhole, Free, Wanted
  <2> QED BY <1>8, <2>1, OwnStepSuffices DEF Unlock, MeasurementTypeOK, Inside, Writers
<1>9. CASE MeasurementFails(w)
  <2>1. MeasurementTypeOK' /\ MeasurementIsWhole'
    BY <1>9 DEF MeasurementFails, MeasurementTypeOK, MeasurementIsWhole, Free, Wanted
  <2> QED BY <1>9, <2>1, OwnStepSuffices
          DEF MeasurementFails, MeasurementTypeOK, Inside, Writers
<1>10. CASE MeasurementCrash(w)
  <2>1. MeasurementTypeOK' /\ MeasurementIsWhole'
    BY <1>10 DEF MeasurementCrash, MeasurementTypeOK, MeasurementIsWhole, Free, Wanted
  <2> QED BY <1>10, <2>1, OwnStepSuffices
          DEF MeasurementCrash, MeasurementTypeOK, Inside, Writers
<1> QED BY <1>1, <1>2, <1>3, <1>4, <1>5, <1>6, <1>7, <1>8, <1>9, <1>10 DEF MeasurementStep

LEMMA DeadLockRemoved == MeasurementInv /\ RemoveDeadLock => MeasurementInv'
  BY MeasurementAssumption
     DEF MeasurementInv, RemoveDeadLock, In, MeasurementTypeOK, BundlersLock, PlacedWhole,
         MeasurementsAreSafe, MeasurementIsWhole, OneBundler, Inside, Free, Wanted, Writers

LEMMA MeasurementInvariant == MeasurementSpec => []MeasurementInv
<1>1. MeasurementInv /\ [MeasurementNext]_measurementVars => MeasurementInv'
  <2>1. MeasurementInv /\ UNCHANGED measurementVars => MeasurementInv'
    BY DEF measurementVars, MeasurementInv, MeasurementTypeOK, BundlersLock, PlacedWhole,
           MeasurementsAreSafe, MeasurementIsWhole, OneBundler, Inside, Free, Wanted
  <2> QED BY <2>1, MeasurementKept, DeadLockRemoved DEF MeasurementNext, Writers
<1> QED BY <1>1, MeasurementStarts, PTL DEF MeasurementSpec

(* Path, lock, staging and the places of the commands keep their types.    *)
THEOREM MeasurementTypes == MeasurementSpec => []MeasurementTypeOK
<1>1. MeasurementInv => MeasurementTypeOK
  BY DEF MeasurementInv
<1> QED BY <1>1, MeasurementInvariant, PTL

(* Whatever commands overlap, fail and crash, a measurement in place has   *)
(* every file of the command that wrote it, and no command removes the     *)
(* lock of another.                                                        *)
THEOREM MeasurementsStaySafe == MeasurementSpec => []MeasurementsAreSafe
<1>1. MeasurementInv => MeasurementsAreSafe
  BY DEF MeasurementInv
<1> QED BY <1>1, MeasurementInvariant, PTL

(* What is once in place is never replaced.                                *)
THEOREM MeasurementIsKept == MeasurementSpec => MeasurementStays
<1>1. MeasurementNext => (~Free => target' = target)
  BY DEF MeasurementNext, AskOutput, LockOutput, MeasurementStep, LookAgain, StageOutput,
         StageDone, Place, CleanStage, Unlock, MeasurementFails, MeasurementCrash,
         RemoveDeadLock
<1>2. [MeasurementNext]_measurementVars => [~Free => target' = target]_measurementVars
  BY <1>1
<1> QED BY <1>2, PTL DEF MeasurementSpec, MeasurementStays

(* The safety half of LockFreed: a lock that is taken belongs to a command *)
(* that is inside, every way out of which removes it, or to one that died  *)
(* there; no command that found the output taken or failed leaves one.     *)
LockIsOwned == locked # Nobody => step[locked] \in Inside \cup {"dead"}

LEMMA OwnedKept ==
    ASSUME MeasurementTypeOK, LockIsOwned, [MeasurementNext]_measurementVars
    PROVE  LockIsOwned'
<1> USE MeasurementAssumption DEF MeasurementTypeOK, LockIsOwned, Inside, Writers, In, To
<1>1. ASSUME NEW w \in Writers, AskOutput(w) \/ MeasurementStep(w) PROVE LockIsOwned'
  BY <1>1 DEF AskOutput, MeasurementStep, LookAgain, StageOutput, StageDone, Place, CleanStage,
     Unlock
<1>2. ASSUME NEW w \in Writers, MeasurementFails(w) \/ MeasurementCrash(w) PROVE LockIsOwned'
  BY <1>2 DEF MeasurementFails, MeasurementCrash
<1>3. ASSUME NEW w \in Bundlers, LockOutput(w) PROVE LockIsOwned'
  BY <1>3 DEF LockOutput
<1>4. CASE RemoveDeadLock
  BY <1>4 DEF RemoveDeadLock
<1>5. CASE UNCHANGED measurementVars
  BY <1>5 DEF measurementVars
<1> QED
  BY <1>1, <1>2, <1>3, <1>4, <1>5 DEF MeasurementNext

(* No lock of an output is left behind, but by a command that died.        *)
THEOREM OutputLockHasOwner == MeasurementSpec => []LockIsOwned
<1>1. MeasurementInit => LockIsOwned
  BY DEF MeasurementInit, LockIsOwned
<1>2. MeasurementTypeOK /\ LockIsOwned /\ [MeasurementNext]_measurementVars => LockIsOwned'
  BY OwnedKept
<1> QED
  BY <1>1, <1>2, MeasurementTypes, PTL DEF MeasurementSpec

-----------------------------------------------------------------------------
(* Sealed inputs.  A seal takes the families in order, and writes a        *)
(* manifest only into a store directory that it created itself: the one    *)
(* that created the store of the first family is the only one that writes  *)
(* any.  Where it is between two manifests, it owns the store it is at.    *)
Position(s) ==
    /\ sealing[s] \in {"new", "mkdir", "corpus", "state", "manifest"} => family[s] \in Family
    /\ sealing[s] = "record" => family[s] = Families + 1
    /\ sealing[s] \in {"corpus", "state", "manifest"} => owner[family[s]] = s
    /\ sealing[s] \in {"state", "manifest"} => "corpus" \in contents[family[s]]
    /\ sealing[s] = "manifest" => "state" \in contents[family[s]]

(* It has written the manifests of the families before that.               *)
Sealed(s) == manifests[s] = 1..(family[s] - 1)

SealInv ==
    /\ SealTypeOK
    /\ \A s \in Seals : Position(s)
    /\ \A s \in Seals : Sealed(s)
    /\ ManifestHasStore
    /\ RecordCoversInput

-----------------------------------------------------------------------------
LEMMA SealStarts == SealInit => SealInv
<1> SUFFICES ASSUME SealInit PROVE SealInv
  OBVIOUS
<1>1. SealTypeOK
  BY SealAssumption DEF SealInit, SealTypeOK, Family
<1>2. \A s \in Seals : Position(s) /\ Sealed(s)
  BY SealAssumption DEF SealInit, Position, Sealed, Family
<1>3. ManifestHasStore /\ RecordCoversInput
  BY DEF SealInit, ManifestHasStore, RecordCoversInput
<1> QED BY <1>1, <1>2, <1>3 DEF SealInv

(* What is to be shown of a step of seal s: the others keep their places,  *)
(* since their stores are theirs.                                          *)
LEMMA OthersStay ==
    ASSUME SealInv, SealTypeOK', NEW s \in Seals,
           \A f \in Family : owner[f] # NoSeal => owner'[f] = owner[f],
           \A f \in Family : contents[f] \subseteq contents'[f],
           \A t \in Seals \ {s} : /\ sealing'[t] = sealing[t]
                                  /\ family'[t] = family[t]
                                  /\ manifests'[t] = manifests[t]
    PROVE  \A t \in Seals \ {s} : Position(t)' /\ Sealed(t)'
<1> SUFFICES ASSUME NEW t \in Seals \ {s} PROVE Position(t)' /\ Sealed(t)'
  OBVIOUS
<1>1. Position(t) /\ Sealed(t)
  BY DEF SealInv
<1>2. t # NoSeal
  BY SealAssumption
<1> QED BY <1>1, <1>2 DEF Position, Sealed

LEMMA SealKept ==
    ASSUME SealInv, NEW s \in Seals, SealStep(s) PROVE SealInv'
<1> USE DEF SealAt, SealTo, sealStore
<1>0. SealTypeOK /\ Position(s) /\ Sealed(s) /\ s # NoSeal /\ Families \in Nat \ {0}
  BY SealAssumption DEF SealInv
<1>1. SealTypeOK'
  <2>1. CASE BeginSeal(s)
    BY <2>1, <1>0 DEF BeginSeal, SealTypeOK
  <2>2. CASE CreateStore(s)
    BY <2>2, <1>0 DEF CreateStore, SealTypeOK
  <2>3. CASE WriteCorpus(s)
    BY <2>3, <1>0 DEF WriteCorpus, SealTypeOK
  <2>4. CASE WriteState(s)
    BY <2>4, <1>0 DEF WriteState, SealTypeOK
  <2>5. CASE PutManifest(s)
    <3>1. family[s] \in Family
      BY <2>5, <1>0 DEF PutManifest, Position
    <3>2. family[s] + 1 \in 1..Families + 1
      BY <3>1, <1>0 DEF Family
    <3>3. manifests[s] \cup {family[s]} \in SUBSET Family
      BY <3>1, <1>0 DEF SealTypeOK
    <3> QED BY <2>5, <3>2, <3>3, <1>0 DEF PutManifest, SealTypeOK
  <2>6. CASE PutRecord(s)
    BY <2>6, <1>0 DEF PutRecord, SealTypeOK
  <2>7. CASE SealStops(s)
    BY <2>7, <1>0 DEF SealStops, SealTypeOK
  <2>8. CASE SpendFamily(s)
    BY <2>8, <1>0 DEF SpendFamily, SealTypeOK
  <2> QED BY <2>1, <2>2, <2>3, <2>4, <2>5, <2>6, <2>7, <2>8 DEF SealStep
<1>2. \A f \in Family : owner[f] # NoSeal => owner'[f] = owner[f]
  <2>1. CASE CreateStore(s)
    BY <2>1, <1>0 DEF CreateStore, SealTypeOK
  <2>2. CASE UNCHANGED owner
    BY <2>2
  <2> QED BY <2>1, <2>2 DEF SealStep, BeginSeal, WriteCorpus, WriteState, PutManifest,
                             PutRecord, SealStops, SpendFamily
<1>3. \A f \in Family : contents[f] \subseteq contents'[f]
  <2>1. CASE WriteCorpus(s)
    BY <2>1, <1>0 DEF WriteCorpus, SealTypeOK
  <2>2. CASE WriteState(s)
    BY <2>2, <1>0 DEF WriteState, SealTypeOK
  <2>3. CASE UNCHANGED contents
    BY <2>3
  <2> QED BY <2>1, <2>2, <2>3 DEF SealStep, BeginSeal, CreateStore, PutManifest,
                                  PutRecord, SealStops, SpendFamily
<1>4. \A t \in Seals \ {s} : /\ sealing'[t] = sealing[t]
                             /\ family'[t] = family[t]
                             /\ manifests'[t] = manifests[t]
  BY <1>0 DEF SealStep, BeginSeal, CreateStore, WriteCorpus, WriteState, PutManifest,
              PutRecord, SealStops, SpendFamily, SealTypeOK
<1>5. \A t \in Seals \ {s} : Position(t)' /\ Sealed(t)'
  BY <1>1, <1>2, <1>3, <1>4, OthersStay
<1>6. Position(s)' /\ Sealed(s)'
  <2>1. CASE BeginSeal(s)
    BY <2>1, <1>0 DEF BeginSeal, SealTypeOK, Position, Sealed
  <2>2. CASE CreateStore(s)
    <3>1. family[s] \in Family /\ family' = family /\ manifests' = manifests /\ contents' = contents
      BY <2>2, <1>0 DEF CreateStore, Position
    <3>2. \/ sealing'[s] = "over"
          \/ sealing'[s] = "corpus" /\ owner'[family[s]] = s
      BY <2>2, <3>1, <1>0 DEF CreateStore, SealTypeOK
    <3> QED BY <3>1, <3>2, <1>0 DEF Position, Sealed
  <2>3. CASE WriteCorpus(s)
    BY <2>3, <1>0 DEF WriteCorpus, SealTypeOK, Position, Sealed
  <2>4. CASE WriteState(s)
    BY <2>4, <1>0 DEF WriteState, SealTypeOK, Position, Sealed
  <2>5. CASE PutManifest(s)
    <3>1. family[s] \in Family /\ owner' = owner /\ contents' = contents
      BY <2>5, <1>0 DEF PutManifest, Position
    <3>2. family'[s] = family[s] + 1 /\ manifests'[s] = manifests[s] \cup {family[s]}
      BY <2>5, <1>0 DEF PutManifest, SealTypeOK
    <3>3. sealing'[s] = IF family[s] = Families THEN "record" ELSE "mkdir"
      BY <2>5, <1>0 DEF PutManifest, SealTypeOK
    <3>4. Sealed(s)'
      BY <3>1, <3>2, <1>0 DEF Sealed, Family
    <3>5. CASE family[s] = Families
      BY <3>5, <3>2, <3>3, <3>4 DEF Position
    <3>6. CASE family[s] # Families
      <4>1. family'[s] \in Family
        BY <3>1, <3>2, <3>6, <1>0 DEF Family
      <4> QED BY <4>1, <3>3, <3>4, <3>6 DEF Position
    <3> QED BY <3>5, <3>6
  <2>6. CASE PutRecord(s)
    BY <2>6, <1>0 DEF PutRecord, SealTypeOK, Position, Sealed
  <2>7. CASE SealStops(s)
    BY <2>7, <1>0 DEF SealStops, SealTypeOK, Position, Sealed
  <2>8. CASE SpendFamily(s)
    BY <2>8, <1>0 DEF SpendFamily, Position, Sealed
  <2> QED BY <2>1, <2>2, <2>3, <2>4, <2>5, <2>6, <2>7, <2>8 DEF SealStep
<1>7. ManifestHasStore'
  <2> SUFFICES ASSUME NEW t \in Seals, NEW f \in manifests'[t]
               PROVE  owner'[f] = t /\ contents'[f] = {"corpus", "state"}
    BY DEF ManifestHasStore
  <2>1. f \in Family
    BY <1>1 DEF SealTypeOK
  <2>2. contents'[f] \subseteq {"corpus", "state"}
    BY <1>1, <2>1 DEF SealTypeOK
  <2>3. CASE f \in manifests[t]
    <3>1. owner[f] = t /\ contents[f] = {"corpus", "state"}
      BY <2>3 DEF SealInv, ManifestHasStore
    <3>2. owner'[f] = t
      BY <3>1, <2>1, <1>2, SealAssumption
    <3> QED BY <3>1, <3>2, <2>1, <2>2, <1>3
  <2>4. CASE f \notin manifests[t]
    <3>1. t = s /\ PutManifest(s)
      BY <2>4, <1>4 DEF SealStep, BeginSeal, CreateStore, WriteCorpus, WriteState,
                        PutRecord, SealStops, SpendFamily
    <3>2. f = family[s]
      BY <3>1, <2>4, <1>0 DEF PutManifest, SealTypeOK
    <3>3. owner[f] = s /\ {"corpus", "state"} \subseteq contents[f]
      BY <3>1, <3>2, <1>0 DEF PutManifest, Position
    <3>4. owner' = owner /\ contents' = contents
      BY <3>1 DEF PutManifest
    <3> QED BY <3>1, <3>3, <3>4, <2>2
  <2> QED BY <2>3, <2>4
<1>8. RecordCoversInput'
  <2> SUFFICES ASSUME NEW t \in records' PROVE manifests'[t] = Family
    BY DEF RecordCoversInput
  <2>1. CASE t \in records
    <3>1. t \in Seals /\ manifests[t] = Family
      BY <2>1, <1>0 DEF SealInv, RecordCoversInput, SealTypeOK
    <3>2. manifests[t] \subseteq manifests'[t]
      BY <3>1, <1>0 DEF SealStep, BeginSeal, CreateStore, WriteCorpus, WriteState, PutManifest,
                        PutRecord, SealStops, SpendFamily, SealTypeOK
    <3> QED BY <3>1, <3>2, <1>1 DEF SealTypeOK
  <2>2. CASE t \notin records
    <3>1. t = s /\ PutRecord(s)
      BY <2>2, <1>0 DEF SealStep, BeginSeal, CreateStore, WriteCorpus, WriteState, PutManifest,
                        PutRecord, SealStops, SpendFamily
    <3>2. manifests' = manifests /\ family[s] = Families + 1
      BY <3>1, <1>0 DEF PutRecord, Position
    <3>3. manifests[s] = 1..Families
      BY <3>2, <1>0 DEF Sealed
    <3> QED BY <3>1, <3>2, <3>3 DEF Family
  <2> QED BY <2>1, <2>2
<1> QED BY <1>1, <1>5, <1>6, <1>7, <1>8 DEF SealInv

LEMMA SealStutters == SealInv /\ UNCHANGED sealVars => SealInv'
  BY DEF sealVars, sealStore, SealInv, SealTypeOK, Position, Sealed, ManifestHasStore,
         RecordCoversInput

LEMMA SealInvariant == SealSpec => []SealInv
<1>1. SealInv /\ [SealNext]_sealVars => SealInv'
  BY SealKept, SealStutters DEF SealNext
<1> QED BY <1>1, SealStarts, PTL DEF SealSpec

-----------------------------------------------------------------------------
(* Whoever has a manifest has that of the first family, and owns its store. *)
LEMMA FirstFamilyDecides == SealInv => OneSealer
<1> SUFFICES ASSUME SealInv, NEW s \in Seals, NEW t \in Seals,
                    manifests[s] # {}, manifests[t] # {}
             PROVE  s = t
  BY DEF OneSealer
<1>1. \A u \in Seals : manifests[u] # {} => 1 \in manifests[u]
  <2> SUFFICES ASSUME NEW u \in Seals, manifests[u] # {} PROVE 1 \in manifests[u]
    OBVIOUS
  <2>1. family[u] \in Nat /\ manifests[u] = 1..(family[u] - 1)
    BY SealAssumption DEF SealInv, Sealed, SealTypeOK
  <2>2. PICK f : f \in 1..(family[u] - 1)
    BY <2>1
  <2> QED BY <2>1, <2>2
<1>2. owner[1] = s /\ owner[1] = t
  BY <1>1 DEF SealInv, ManifestHasStore
<1> QED BY <1>2

(* The store, manifest and record of every seal are typed.                 *)
THEOREM SealTypes == SealSpec => []SealTypeOK
<1>1. SealInv => SealTypeOK
  BY DEF SealInv
<1> QED BY <1>1, SealInvariant, PTL

(* However many seals of an input overlap, stop and crash, one of them at  *)
(* most writes manifests, each of them for a complete store, and a seal    *)
(* record covers the whole input.                                          *)
THEOREM SealsStayWhole == SealSpec => []SealsAreWhole
<1>1. SealInv => SealsAreWhole
  BY FirstFamilyDecides DEF SealInv, SealsAreWhole
<1> QED BY <1>1, SealInvariant, PTL

-----------------------------------------------------------------------------
(* Generated publications.  The number of a publication only grows, and    *)
(* until it is over every target has the contents it found or its own.     *)
FoundOrOwn ==
    phase # "idle" =>
        \A t \in OutputTarget : before[t] <= count /\ output[t] \in {before[t], count}

(* The record it found was not ahead of the reports it found, unless an    *)
(* earlier rollback died with the record to be restored.                   *)
FoundInOrder ==
    phase # "idle" =>
        \/ LastTarget \in unreported
        \/ \A t \in OutputTarget : before[LastTarget] <= before[t]

(* It goes up the list, and down again.                                    *)
Upward ==
    phase = "apply" =>
        \A t \in OutputTarget : output[t] = IF t <= applied THEN count ELSE before[t]
Downward ==
    phase = "restore" =>
        \A t \in OutputTarget : /\ t < applied => output[t] = count
                                /\ t > applied => output[t] = before[t] \/ t \in recovery

GeneratedInv ==
    /\ GeneratedTypeOK
    /\ \A t \in OutputTarget : output[t] <= count
    /\ phase \in {"idle", "apply"} => recovery = {}
    /\ FoundOrOwn
    /\ FoundInOrder
    /\ Upward
    /\ Downward
    /\ ReportsMatchRecord

LEMMA GeneratedStarts == GeneratedInit => GeneratedInv
  BY GeneratedAssumption
     DEF GeneratedInit, GeneratedInv, GeneratedTypeOK, OutputTarget, Publication, FoundOrOwn,
         FoundInOrder, Upward, Downward, ReportsMatchRecord, RecordNeverAhead, FailureRestores

LEMMA GeneratedTypesKept ==
    ASSUME GeneratedInv, GeneratedNext PROVE GeneratedTypeOK'
<1> USE GeneratedAssumption DEF OutputTarget, Publication
<1>0. GeneratedTypeOK
  BY DEF GeneratedInv
<1>1. CASE BeginPublication
  BY <1>0, <1>1 DEF BeginPublication, GeneratedTypeOK
<1>2. CASE ApplyTarget
  <2>1. applied + 1 \in 0..LastTarget
    BY <1>0, <1>2 DEF ApplyTarget, GeneratedTypeOK
  <2> QED BY <1>0, <1>2, <2>1 DEF ApplyTarget, GeneratedTypeOK
<1>3. CASE ApplyFails
  <2>1. applied + 1 \in 0..LastTarget
    BY <1>0, <1>3 DEF ApplyFails, GeneratedTypeOK
  <2> QED BY <1>0, <1>3, <2>1 DEF ApplyFails, GeneratedTypeOK
<1>4. CASE RestoreTarget
  <2>1. applied - 1 \in 0..LastTarget /\ applied \in 1..LastTarget
    BY <1>0, <1>4 DEF RestoreTarget, GeneratedTypeOK
  <2> QED BY <1>0, <1>4, <2>1 DEF RestoreTarget, GeneratedTypeOK
<1>5. CASE RestoreFails
  <2>1. applied - 1 \in 0..LastTarget /\ applied \in 1..LastTarget
    BY <1>0, <1>5 DEF RestoreFails, GeneratedTypeOK
  <2>2. output' \in [1..LastTarget -> 0..MaxPublications]
    BY <1>0, <1>5, <2>1 DEF RestoreFails, GeneratedTypeOK
  <2> QED BY <1>0, <1>5, <2>1, <2>2 DEF RestoreFails, GeneratedTypeOK
<1>6. CASE Publish
  BY <1>0, <1>6 DEF Publish, GeneratedTypeOK
<1>7. CASE ThrowError
  BY <1>0, <1>7 DEF ThrowError, GeneratedTypeOK
<1>8. CASE RestoreByHand
  BY <1>0, <1>8 DEF RestoreByHand, GeneratedTypeOK
<1>9. CASE Retry
  BY <1>0, <1>9 DEF Retry, GeneratedTypeOK
<1>10. CASE GeneratedCrash
  <2>1. leftover' \subseteq 1..LastTarget
    BY <1>0, <1>10 DEF GeneratedCrash, GeneratedTypeOK
  <2> QED BY <1>0, <1>10, <2>1 DEF GeneratedCrash, GeneratedTypeOK
<1> QED BY <1>1, <1>2, <1>3, <1>4, <1>5, <1>6, <1>7, <1>8, <1>9, <1>10 DEF GeneratedNext

(* With the contents in order when it began, they are in order wherever it *)
(* comes, as long as the record is not the one that is left.               *)
LEMMA RestoredInOrder ==
    ASSUME GeneratedTypeOK', FoundOrOwn', FoundInOrder', phase' # "idle",
           output'[LastTarget] = before'[LastTarget] \/ LastTarget \in recovery'
    PROVE  RecordNeverAhead'
<1> USE GeneratedAssumption DEF OutputTarget, Publication
<1> SUFFICES ASSUME NEW t \in OutputTarget, LastTarget \notin recovery' \cup unreported'
             PROVE  output'[LastTarget] <= output'[t]
  BY DEF RecordNeverAhead, GeneratedTypeOK
<1>1. before'[LastTarget] <= before'[t] /\ output'[LastTarget] = before'[LastTarget]
  BY DEF FoundInOrder
<1>2. before'[t] <= output'[t]
  <2>1. before'[t] <= count' /\ output'[t] \in {before'[t], count'}
    BY DEF FoundOrOwn
  <2>2. before'[t] \in Nat
    BY DEF GeneratedTypeOK
  <2> QED BY <2>1, <2>2
<1> QED BY <1>1, <1>2 DEF GeneratedTypeOK

LEMMA GeneratedKept == ASSUME GeneratedInv, GeneratedNext PROVE GeneratedInv'
<1> USE GeneratedAssumption DEF OutputTarget, Publication
<1>0. GeneratedTypeOK /\ GeneratedTypeOK'
  BY GeneratedTypesKept DEF GeneratedInv
<1> USE <1>0
<1> DEFINE Bounded == \A t \in OutputTarget : output[t] <= count
<1>1. CASE BeginPublication
  <2>1. Bounded /\ RecordNeverAhead /\ recovery = {}
    BY <1>1 DEF BeginPublication, GeneratedInv, ReportsMatchRecord
  <2>2. FoundOrOwn' /\ Upward' /\ Downward' /\ Bounded'
    BY <1>1, <2>1 DEF BeginPublication, FoundOrOwn, Upward, Downward, GeneratedTypeOK
  <2>3. FoundInOrder'
    BY <1>1, <2>1 DEF BeginPublication, FoundInOrder, RecordNeverAhead, GeneratedTypeOK
  <2>4. RecordNeverAhead' /\ FailureRestores' /\ recovery' = {}
    BY <1>1, <2>1 DEF BeginPublication, RecordNeverAhead, FailureRestores
  <2> QED BY <2>2, <2>3, <2>4 DEF GeneratedInv, ReportsMatchRecord
<1>2. CASE ApplyTarget
  <2>1. /\ output'[applied + 1] = count
        /\ \A t \in OutputTarget \ {applied + 1} : output'[t] = output[t]
    BY <1>2 DEF ApplyTarget, GeneratedTypeOK
  <2>2. Upward' /\ FoundOrOwn' /\ Bounded'
    BY <1>2, <2>1 DEF ApplyTarget, GeneratedInv, Upward, FoundOrOwn, GeneratedTypeOK
  <2>3. FoundInOrder' /\ Downward' /\ FailureRestores' /\ recovery' = {} /\ phase' = "apply"
    BY <1>2 DEF ApplyTarget, GeneratedInv, FoundInOrder, Downward, FailureRestores
  <2>4. RecordNeverAhead'
    <3>1. CASE applied + 1 = LastTarget
      <4>1. \A t \in OutputTarget : output'[t] = count
        BY <3>1, <1>2, <2>2, <2>3 DEF ApplyTarget, Upward, GeneratedTypeOK
      <4> QED BY <4>1 DEF RecordNeverAhead, GeneratedTypeOK
    <3>2. CASE applied + 1 # LastTarget
      <4>1. output'[LastTarget] = before'[LastTarget]
        BY <3>2, <1>2, <2>2, <2>3 DEF ApplyTarget, Upward, GeneratedTypeOK
      <4> QED BY <4>1, <2>2, <2>3, RestoredInOrder
    <3> QED BY <3>1, <3>2
  <2> QED BY <2>2, <2>3, <2>4 DEF GeneratedInv, ReportsMatchRecord
<1>3. CASE ApplyFails
  <2>1. /\ output'[applied + 1] \in {output[applied + 1], count}
        /\ \A t \in OutputTarget \ {applied + 1} : output'[t] = output[t]
    BY <1>3 DEF ApplyFails, GeneratedTypeOK
  <2>2. Upward /\ FoundOrOwn /\ Bounded /\ recovery = {} /\ FoundInOrder
    BY <1>3 DEF ApplyFails, GeneratedInv
  <2>3. Downward' /\ FoundOrOwn' /\ Bounded'
    <3> SUFFICES ASSUME NEW t \in OutputTarget
                 PROVE  /\ t < applied' => output'[t] = count
                        /\ t > applied' => output'[t] = before[t]
                        /\ before[t] <= count /\ output'[t] \in {before[t], count}
                        /\ output'[t] <= count
      BY <1>3 DEF ApplyFails, Downward, FoundOrOwn
    <3>1. output[t] = IF t <= applied THEN count ELSE before[t]
      BY <1>3, <2>2 DEF ApplyFails, Upward
    <3>2. before[t] <= count /\ applied' = applied + 1
      BY <1>3, <2>2 DEF ApplyFails, FoundOrOwn
    <3>3. applied \in Nat /\ count \in Nat /\ before[t] \in Nat
      BY DEF GeneratedTypeOK
    <3>4. CASE t = applied + 1
      BY <2>1, <3>1, <3>2, <3>3, <3>4
    <3>5. CASE t # applied + 1
      BY <2>1, <3>1, <3>2, <3>3, <3>5
    <3> QED BY <3>4, <3>5
  <2>4. FoundInOrder' /\ Upward' /\ FailureRestores' /\ phase' = "restore"
    BY <1>3, <2>2 DEF ApplyFails, FoundInOrder, Upward, FailureRestores
  <2>5. RecordNeverAhead'
    <3>1. CASE applied + 1 = LastTarget /\ output'[LastTarget] = count
      <4>1. \A t \in OutputTarget : output'[t] = count
        BY <3>1, <1>3, <2>3 DEF ApplyFails, Downward, GeneratedTypeOK
      <4> QED BY <4>1 DEF RecordNeverAhead, GeneratedTypeOK
    <3>2. CASE applied + 1 # LastTarget \/ output'[LastTarget] # count
      <4>1. output'[LastTarget] = before'[LastTarget]
        BY <3>2, <1>3, <2>1, <2>2 DEF ApplyFails, Upward, GeneratedTypeOK
      <4> QED BY <4>1, <2>3, <2>4, RestoredInOrder
    <3> QED BY <3>1, <3>2
  <2> QED BY <2>3, <2>4, <2>5 DEF GeneratedInv, ReportsMatchRecord
<1>4. CASE RestoreTarget \/ RestoreFails
  <2>1. /\ phase = "restore" /\ phase' = "restore" /\ applied \in OutputTarget
        /\ applied' = applied - 1 /\ UNCHANGED <<count, before, unreported>>
        /\ recovery \subseteq recovery'
    BY <1>4 DEF RestoreTarget, RestoreFails, GeneratedTypeOK
  <2>2. /\ output'[applied] \in {before[applied], output[applied]}
        /\ output'[applied] = before[applied] \/ applied \in recovery'
        /\ \A t \in OutputTarget \ {applied} : output'[t] = output[t]
    <3>1. CASE RestoreTarget
      BY <3>1, <2>1 DEF RestoreTarget, GeneratedTypeOK
    <3>2. CASE RestoreFails
      <4>1. output \in [OutputTarget -> Publication] /\ applied \in recovery'
        BY <3>2 DEF RestoreFails, GeneratedTypeOK
      <4>2. CASE output' = output
        BY <4>1, <4>2
      <4>3. CASE output' = [output EXCEPT ![applied] = before[applied]]
        BY <4>1, <4>3, <2>1
      <4> QED BY <3>2, <4>2, <4>3 DEF RestoreFails
    <3> QED BY <1>4, <3>1, <3>2
  <2>3. Downward /\ FoundOrOwn /\ Bounded /\ FoundInOrder
    BY DEF GeneratedInv
  <2>4. Downward' /\ FoundOrOwn' /\ Bounded'
    <3> SUFFICES ASSUME NEW t \in OutputTarget
                 PROVE  /\ t < applied - 1 => output'[t] = count
                        /\ t > applied - 1 => output'[t] = before[t] \/ t \in recovery'
                        /\ before[t] <= count /\ output'[t] \in {before[t], count}
                        /\ output'[t] <= count
      BY <2>1 DEF Downward, FoundOrOwn
    <3>1. /\ t < applied => output[t] = count
          /\ t > applied => output[t] = before[t] \/ t \in recovery
      BY <2>1, <2>3 DEF Downward
    <3>2. before[t] <= count /\ output[t] \in {before[t], count}
      BY <2>1, <2>3 DEF FoundOrOwn
    <3>3. applied \in Nat /\ count \in Nat /\ before[t] \in Nat
      BY DEF GeneratedTypeOK
    <3>4. CASE t = applied
      BY <2>1, <2>2, <3>2, <3>3, <3>4
    <3>5. CASE t # applied
      BY <2>1, <2>2, <3>1, <3>2, <3>3, <3>5
    <3> QED BY <3>4, <3>5
  <2>5. FoundInOrder' /\ Upward' /\ FailureRestores'
    BY <2>1, <2>3 DEF FoundInOrder, Upward, FailureRestores
  <2>6. output'[LastTarget] = before'[LastTarget] \/ LastTarget \in recovery'
    BY <2>1, <2>4 DEF Downward, GeneratedTypeOK
  <2>7. RecordNeverAhead'
    BY <2>1, <2>4, <2>5, <2>6, RestoredInOrder
  <2> QED BY <2>1, <2>4, <2>5, <2>7 DEF GeneratedInv, ReportsMatchRecord
<1>5. CASE Publish
  <2>1. \A t \in OutputTarget : output'[t] = count /\ output[t] = count
    BY <1>5 DEF Publish, GeneratedInv, Upward, GeneratedTypeOK
  <2>2. RecordNeverAhead' /\ Bounded'
    BY <1>5, <2>1 DEF Publish, RecordNeverAhead, GeneratedTypeOK
  <2> QED BY <1>5, <2>2 DEF Publish, GeneratedInv, FoundOrOwn, FoundInOrder, Upward, Downward,
                            ReportsMatchRecord, FailureRestores
<1>6. CASE ThrowError
  <2>1. \A t \in OutputTarget : output[t] = before[t] \/ t \in recovery
    BY <1>6 DEF ThrowError, GeneratedInv, Downward, GeneratedTypeOK
  <2>2. FailureRestores'
    BY <1>6, <2>1 DEF ThrowError, FailureRestores
  <2> QED BY <1>6, <2>2 DEF ThrowError, GeneratedInv, FoundOrOwn, FoundInOrder, Upward, Downward,
                            ReportsMatchRecord, RecordNeverAhead
<1>7. CASE RestoreByHand
  <2>1. PICK u \in recovery : /\ output' = [output EXCEPT ![u] = before[u]]
                              /\ recovery' = recovery \ {u}
    BY <1>7 DEF RestoreByHand
  <2>2. FailureRestores /\ FoundOrOwn /\ Bounded /\ FoundInOrder /\ phase = "failed"
    BY <1>7 DEF RestoreByHand, GeneratedInv, ReportsMatchRecord
  <2>3. u \in OutputTarget /\ output'[u] = before[u]
        /\ \A t \in OutputTarget \ {u} : output'[t] = output[t]
    BY <2>1 DEF GeneratedTypeOK
  <2>4. FailureRestores' /\ FoundOrOwn' /\ Bounded'
    BY <1>7, <2>1, <2>2, <2>3 DEF RestoreByHand, FailureRestores, FoundOrOwn, GeneratedTypeOK
  <2>5. FoundInOrder' /\ Upward' /\ Downward' /\ phase' = "failed"
    BY <1>7, <2>2 DEF RestoreByHand, FoundInOrder, Upward, Downward
  <2>6. output'[LastTarget] = before'[LastTarget] \/ LastTarget \in recovery'
    BY <2>4, <2>5 DEF FailureRestores
  <2>7. RecordNeverAhead'
    BY <2>4, <2>5, <2>6, RestoredInOrder
  <2> QED BY <2>4, <2>5, <2>7 DEF GeneratedInv, ReportsMatchRecord
<1>8. CASE Retry
  BY <1>8 DEF Retry, GeneratedInv, FoundOrOwn, FoundInOrder, Upward, Downward,
              ReportsMatchRecord, RecordNeverAhead, FailureRestores
<1>9. CASE GeneratedCrash
  BY <1>9 DEF GeneratedCrash, GeneratedInv, FoundOrOwn, FoundInOrder, Upward, Downward,
              ReportsMatchRecord, RecordNeverAhead, FailureRestores
<1> QED BY <1>1, <1>2, <1>3, <1>4, <1>5, <1>6, <1>7, <1>8, <1>9 DEF GeneratedNext

LEMMA GeneratedStutters == GeneratedInv /\ UNCHANGED generatedVars => GeneratedInv'
  BY DEF generatedVars, GeneratedInv, GeneratedTypeOK, FoundOrOwn, FoundInOrder, Upward,
         Downward, ReportsMatchRecord, RecordNeverAhead, FailureRestores

LEMMA GeneratedInvariant == GeneratedSpec => []GeneratedInv
<1>1. GeneratedInv /\ [GeneratedNext]_generatedVars => GeneratedInv'
  BY GeneratedKept, GeneratedStutters
<1> QED BY <1>1, GeneratedStarts, PTL DEF GeneratedSpec

(* Targets and the list of a publication keep their types.                 *)
THEOREM GeneratedTypes == GeneratedSpec => []GeneratedTypeOK
<1>1. GeneratedInv => GeneratedTypeOK
  BY DEF GeneratedInv
<1> QED BY <1>1, GeneratedInvariant, PTL

(* Whatever fails or crashes at any target, the record is not ahead of a   *)
(* report unless it was itself left to be restored, and a publication that *)
(* failed left what it found, or named it.                                 *)
THEOREM RecordIsBehindReports == GeneratedSpec => []ReportsMatchRecord
<1>1. GeneratedInv => ReportsMatchRecord
  BY DEF GeneratedInv
<1> QED BY <1>1, GeneratedInvariant, PTL

-----------------------------------------------------------------------------
(* The artifact index.  From its rename on, the artifact that is to be     *)
(* named is in place and whole, and what is about to be renamed commits to *)
(* the evidence that is there.                                             *)
DraftIsReady ==
    /\ publishStep # "idle" => draft \in Entry
    /\ publishStep \in {"index", "checkIndex", "commit"} => inPlace[draft.artifact] = "whole"
    /\ publishStep = "commit" => indexTmp = draft /\ draft.evidence = credential

NamedIsWhole == domainsIndex # NoEntry => inPlace[domainsIndex.artifact] = "whole"

IndexInv == IndexTypeOK /\ DraftIsReady /\ NamedIsWhole

LEMMA IndexStarts == IndexInit => IndexInv
  BY DEF IndexInit, IndexInv, IndexTypeOK, DraftIsReady, NamedIsWhole

LEMMA IndexKept == ASSUME IndexInv, IndexNext PROVE IndexInv'
<1> USE DEF Advance, temporaries
<1>0. IndexTypeOK /\ DraftIsReady /\ NamedIsWhole
  BY DEF IndexInv
<1> USE <1>0
<1>1. CASE BuildPublication
  <2>1. PICK a \in Artifacts : draft' = [artifact |-> a, evidence |-> credential]
    BY <1>1 DEF BuildPublication
  <2>2. draft' \in Entry
    BY <2>1 DEF Entry, IndexTypeOK
  <2> QED BY <1>1, <2>2
          DEF BuildPublication, IndexInv, IndexTypeOK, DraftIsReady, NamedIsWhole
<1>2. CASE WriteArtifact
  BY <1>2 DEF WriteArtifact, IndexInv, IndexTypeOK, DraftIsReady, NamedIsWhole, Torn
<1>3. CASE RenameArtifact
  <2>1. draft \in Entry /\ draft.artifact \in Artifacts
    BY <1>3 DEF RenameArtifact, DraftIsReady, Entry
  <2>2. inPlace' \in [Artifacts -> {"absent", "whole", Torn}]
    BY <1>3, <2>1 DEF RenameArtifact, IndexTypeOK
  <2>3. inPlace'[draft.artifact] = "whole"
    BY <1>3, <2>1 DEF RenameArtifact, IndexTypeOK
  <2>4. \A a \in Artifacts : inPlace[a] = "whole" => inPlace'[a] = "whole"
    BY <1>3, <2>1 DEF RenameArtifact, IndexTypeOK
  <2>5. domainsIndex # NoEntry => domainsIndex.artifact \in Artifacts
    BY DEF IndexTypeOK, Entry
  <2>6. NamedIsWhole'
    BY <1>3, <2>4, <2>5 DEF RenameArtifact, NamedIsWhole
  <2> QED BY <1>3, <2>1, <2>2, <2>3, <2>6
          DEF RenameArtifact, IndexInv, IndexTypeOK, DraftIsReady
<1>4. CASE WriteIndex
  BY <1>4 DEF WriteIndex, IndexInv, IndexTypeOK, DraftIsReady, NamedIsWhole
<1>5. CASE CheckIndex
  BY <1>5 DEF CheckIndex, IndexInv, IndexTypeOK, DraftIsReady, NamedIsWhole
<1>6. CASE RenameIndex
  BY <1>6 DEF RenameIndex, IndexInv, IndexTypeOK, DraftIsReady, NamedIsWhole
<1>7. CASE PublicationFails
  BY <1>7 DEF PublicationFails, IndexInv, IndexTypeOK, DraftIsReady, NamedIsWhole
<1>8. CASE PublicationDies
  BY <1>8 DEF PublicationDies, IndexInv, IndexTypeOK, DraftIsReady, NamedIsWhole
<1>9. CASE ReplaceEvidence
  BY <1>9 DEF ReplaceEvidence, IndexInv, IndexTypeOK, DraftIsReady, NamedIsWhole
<1> QED BY <1>1, <1>2, <1>3, <1>4, <1>5, <1>6, <1>7, <1>8, <1>9 DEF IndexNext

LEMMA IndexInvariant == IndexSpec => []IndexInv
<1>1. IndexInv /\ UNCHANGED indexVars => IndexInv'
  BY DEF indexVars, temporaries, IndexInv, IndexTypeOK, DraftIsReady, NamedIsWhole
<1>2. IndexInv /\ [IndexNext]_indexVars => IndexInv'
  BY <1>1, IndexKept
<1> QED BY <1>2, IndexStarts, PTL DEF IndexSpec

(* Artifacts, index and temporary files keep their types.                  *)
THEOREM IndexTypes == IndexSpec => []IndexTypeOK
<1>1. IndexInv => IndexTypeOK
  BY DEF IndexInv
<1> QED BY <1>1, IndexInvariant, PTL

(* Whatever publication fails or dies, and wherever, the index names an    *)
(* artifact that is whole, and was published over the evidence it commits  *)
(* to, as long as publications do not overlap and nobody replaces the      *)
(* evidence between the last check and the rename.                         *)
THEOREM IndexStaysSound == IndexSpec => IndexIsSound
<1>1. ASSUME IndexInv, IndexNext
      PROVE  domainsIndex' # domainsIndex => domainsIndex'.evidence = credential
  <2>1. CASE RenameIndex
    BY <1>1, <2>1 DEF RenameIndex, Advance, IndexInv, DraftIsReady
  <2>2. CASE UNCHANGED domainsIndex
    BY <2>2
  <2> QED BY <1>1, <2>1, <2>2
          DEF IndexNext, BuildPublication, WriteArtifact, RenameArtifact, WriteIndex,
              CheckIndex, PublicationFails, PublicationDies, ReplaceEvidence
<1>2. IndexInv /\ IndexInv' /\ [IndexNext]_indexVars =>
        [/\ domainsIndex' # NoEntry => inPlace'[domainsIndex'.artifact] = "whole"
         /\ domainsIndex' # domainsIndex => domainsIndex'.evidence = credential]_indexVars
  BY <1>1 DEF IndexInv, NamedIsWhole
<1> QED BY <1>2, IndexInvariant, PTL DEF IndexSpec, IndexIsSound

-----------------------------------------------------------------------------
(* The intake gate, over any number of revisions and for every set of      *)
(* fixtures.  A first run, in the working tree or committed, is the scan   *)
(* of the version whose digest it copies: this is what makes the           *)
(* comparison of digests in firstRunProblems say that an accepted pack has *)
(* the fixtures that were scanned.                                         *)

(* A first run copies the digest of what its scanners read.                *)
ScanFits(run) == run # NoFirstRun => run \in FirstRuns /\ run.measured = run.digest

(* An accepted pack has the fixtures of its committed first run.           *)
AcceptedFits(r, run) ==
    r.status = "accepted" => run # NoFirstRun /\ run.measured = r.fixtures

IntakeInv ==
    /\ record \in IntakeRecord
    /\ ScanFits(firstRun)
    /\ ScanFits(treeRun)
    /\ AcceptedFits(record, firstRun)

(* validateIntake lets a pack be accepted only with the fixtures that the  *)
(* first run beside it was recorded for.                                   *)
LEMMA ValidFits ==
    ASSUME NEW r \in IntakeRecord, NEW run, ValidIntake(r, run), ScanFits(run)
    PROVE  AcceptedFits(r, run)
<1>1. SUFFICES ASSUME r.status = "accepted"
               PROVE  run # NoFirstRun /\ run.measured = r.fixtures
  BY DEF AcceptedFits
<1>2. r.pin # NoFirstRun
  BY <1>1 DEF ValidIntake, StatusFits, AfterFirstRun
<1>3. run = r.pin /\ run.digest = r.digest
  BY <1>2 DEF ValidIntake, FirstRunFits
<1>4. r.digest = r.fixtures
  <2>1. r.materialEdit => r.status \in {"converted-to-maintainer-regression", "rejected"}
    BY DEF ValidIntake, EditsFit
  <2>2. ~r.materialEdit
    BY <1>1, <2>1
  <2> QED BY <2>2 DEF ValidIntake, EditsFit
<1> QED BY <1>2, <1>3, <1>4 DEF ScanFits

LEMMA IntakeStarts == IntakeInit => IntakeInv
  BY DEF IntakeInit, IntakeInv, ScanFits, AcceptedFits, Submitted

LEMMA IntakeKept == IntakeInv /\ [IntakeNext]_intakeVars => IntakeInv'
<1> SUFFICES ASSUME IntakeInv, [IntakeNext]_intakeVars PROVE IntakeInv'
  OBVIOUS
<1>1. CASE Revise
  <2>1. PICK r \in IntakeRecord : ValidIntake(r, treeRun) /\ record' = r
    BY <1>1 DEF Revise
  <2>2. AcceptedFits(r, treeRun)
    BY <2>1, ValidFits DEF IntakeInv
  <2>3. firstRun' = treeRun /\ treeRun' = treeRun
    BY <1>1 DEF Revise
  <2> QED BY <2>1, <2>2, <2>3 DEF IntakeInv, AcceptedFits, ScanFits
<1>2. CASE FreezeFirstRun
  <2>1. PICK r \in IntakeRecord, n \in 1..MaxScans :
           CanFreeze(r) /\ treeRun' = [measured |-> r.fixtures, digest |-> r.digest, scan |-> n]
    BY <1>2 DEF FreezeFirstRun
  <2>2. r.fixtures \in PackVersions /\ r.digest = r.fixtures
    BY <2>1 DEF CanFreeze, IntakeRecord
  <2>3. ScanFits(treeRun')
    BY <2>1, <2>2 DEF ScanFits, FirstRuns
  <2> QED BY <1>2, <2>3 DEF FreezeFirstRun, IntakeInv, AcceptedFits, ScanFits
<1>3. CASE CheckOutFirstRun
  BY <1>3 DEF CheckOutFirstRun, IntakeInv, AcceptedFits, ScanFits
<1>4. CASE UNCHANGED intakeVars
  BY <1>4 DEF intakeVars, IntakeInv, AcceptedFits, ScanFits
<1> QED BY <1>1, <1>2, <1>3, <1>4 DEF IntakeNext

LEMMA FirstRunStays ==
    ASSUME [IntakeNext]_intakeVars PROVE firstRun # NoFirstRun => firstRun' = firstRun
  BY DEF IntakeNext, Revise, FreezeFirstRun, CheckOutFirstRun, Immutable, intakeVars

(* First runs and the record, edited or not, keep that relation.           *)
LEMMA IntakeInvariant == IntakeSpec => []IntakeInv
  BY IntakeStarts, IntakeKept, PTL DEF IntakeSpec

(* The record and its first runs keep their types.                         *)
THEOREM IntakeTypes == IntakeSpec => []IntakeTypeOK
<1>1. IntakeInv => IntakeTypeOK
  BY DEF IntakeInv, IntakeTypeOK, ScanFits
<1> QED BY <1>1, IntakeInvariant, PTL

(* A committed first run is never rewritten, and whatever later revisions  *)
(* make of the record, an accepted pack has the fixtures that run scanned. *)
THEOREM AcceptedAsScanned == IntakeSpec => AcceptedIsFirstRun
<1>1. IntakeInv /\ [IntakeNext]_intakeVars
         => [/\ firstRun # NoFirstRun => firstRun' = firstRun
             /\ record'.status = "accepted" =>
                   firstRun' # NoFirstRun /\ firstRun'.measured = record'.fixtures]_intakeVars
  <2> SUFFICES ASSUME IntakeInv, [IntakeNext]_intakeVars
               PROVE  /\ firstRun # NoFirstRun => firstRun' = firstRun
                      /\ record'.status = "accepted" =>
                            firstRun' # NoFirstRun /\ firstRun'.measured = record'.fixtures
    OBVIOUS
  <2>1. IntakeInv'
    BY IntakeKept
  <2> QED BY <2>1, FirstRunStays DEF IntakeInv, AcceptedFits
<1> QED BY <1>1, IntakeStarts, IntakeKept, PTL DEF IntakeSpec, AcceptedIsFirstRun

(* ConvertedForGood does not hold as it stands (run intake_converted): the *)
(* gate does not compare a record with the one before it.  What it checks  *)
(* of each record alone is enough as long as the edit stays on record.     *)
Edited == record.materialEdit
EditsStay == [][Edited => Edited']_intakeVars

(* Every record that the gate accepts has its edit in its status.          *)
LEMMA EditsFitKept == IntakeSpec => []EditsFit(record)
<1>1. IntakeInit => EditsFit(record)
  BY DEF IntakeInit, Submitted, ValidIntake
<1>2. EditsFit(record) /\ [IntakeNext]_intakeVars => EditsFit(record)'
  BY DEF IntakeNext, Revise, FreezeFirstRun, CheckOutFirstRun, ValidIntake, EditsFit, intakeVars
<1> QED BY <1>1, <1>2, PTL DEF IntakeSpec

(* As long as no revision drops an edit it has recorded, a pack that was   *)
(* converted is not its author's evidence in any later revision, and so    *)
(* is not in the next.                                                     *)
THEOREM ConvertedStaysConverted ==
    IntakeSpec /\ EditsStay => ConvertedForGood /\ [](Converted => []~PublicAdversarial)
<1>1. EditsFit(record) /\ Converted => Edited
  BY DEF EditsFit, Converted, Edited
<1>2. Edited => ~PublicAdversarial
  BY DEF PublicAdversarial, Qualification, Edited
<1>3. Edited /\ [Edited => Edited']_intakeVars => Edited'
  BY DEF intakeVars, Edited
<1>4. IntakeSpec /\ EditsStay => [](Converted => []~PublicAdversarial)
  BY <1>1, <1>2, <1>3, EditsFitKept, PTL DEF EditsStay
<1>5. IntakeSpec /\ EditsStay => ConvertedForGood
  BY <1>1, <1>2, <1>3, EditsFitKept, PTL DEF EditsStay, ConvertedForGood
<1> QED BY <1>4, <1>5

-----------------------------------------------------------------------------
(* The released aggregate, for any strata, any minimum and any corpus.     *)
(* That no set of strata has more fixtures than the total is what makes    *)
(* the subtraction in summarize safe: each fixture is counted in one       *)
(* stratum, and in the total at the same step.                             *)

(* The five outcomes of the lattice, added one by one.                     *)
LEMMA OutcomeSum ==
    ASSUME NEW o \in [LatticeOutcomes -> Nat]
    PROVE  SumFunction(o) = o["EXACT"] + o["COVERED"] + o["OVERBROAD"] + o["PARTIAL"] + o["MISS"]
<1> DEFINE One == {"MISS"}
           Two == One \cup {"PARTIAL"}
           Three == Two \cup {"OVERBROAD"}
           Four == Three \cup {"COVERED"}
           Five == Four \cup {"EXACT"}
<1>1. Five = LatticeOutcomes /\ SumFunction(o) = SumFunctionOnSet(o, Five)
  <2>1. DOMAIN o = Five /\ Five = LatticeOutcomes
    BY DEF LatticeOutcomes
  <2> HIDE DEF Five
  <2> QED
    BY <2>1 DEF SumFunction
<1>2. /\ "PARTIAL" \notin One /\ "OVERBROAD" \notin Two
      /\ "COVERED" \notin Three /\ "EXACT" \notin Four
  OBVIOUS
<1>3. \A l \in Five : o[l] \in Nat /\ o[l] \in Int
  BY <1>1
<1>4. IsFiniteSet(One) /\ SumFunctionOnSet(o, One) = o["MISS"]
  <2>1. One = {} \cup {"MISS"} /\ "MISS" \notin {} /\ IsFiniteSet({}) /\ o["MISS"] \in Int
    BY <1>3, FS_EmptySet
  <2>2. IsFiniteSet({} \cup {"MISS"}) /\ SumFunctionOnSet(o, {} \cup {"MISS"}) = o["MISS"] + SumFunctionOnSet(o, {})
    BY <2>1, SumAdd
  <2> QED
    BY <2>1, <2>2, SumEmpty
<1>5. o["PARTIAL"] \in Int /\ \A l \in One : o[l] \in Int
  BY <1>3
<1>6. o["OVERBROAD"] \in Int /\ \A l \in Two : o[l] \in Int
  BY <1>3
<1>7. o["COVERED"] \in Int /\ \A l \in Three : o[l] \in Int
  BY <1>3
<1>8. o["EXACT"] \in Int /\ \A l \in Four : o[l] \in Int
  BY <1>3
<1> HIDE DEF One, Two, Three, Four, Five
<1>9. IsFiniteSet(Two) /\ SumFunctionOnSet(o, Two) = o["PARTIAL"] + SumFunctionOnSet(o, One)
  BY <1>2, <1>4, <1>5, SumAdd DEF Two
<1>10. IsFiniteSet(Three) /\ SumFunctionOnSet(o, Three) = o["OVERBROAD"] + SumFunctionOnSet(o, Two)
  BY <1>2, <1>6, <1>9, SumAdd DEF Three
<1>11. IsFiniteSet(Four) /\ SumFunctionOnSet(o, Four) = o["COVERED"] + SumFunctionOnSet(o, Three)
  BY <1>2, <1>7, <1>10, SumAdd DEF Four
<1>12. SumFunctionOnSet(o, Five) = o["EXACT"] + SumFunctionOnSet(o, Four)
  BY <1>2, <1>8, <1>11, SumAdd DEF Five
<1>13. o["MISS"] \in Nat
  BY DEF LatticeOutcomes
<1> QED
  BY <1>1, <1>4, <1>5, <1>6, <1>7, <1>8, <1>9, <1>10, <1>11, <1>12, <1>13

(* Every span has one of the five outcomes, and is leaked when it is       *)
(* partial or missed.                                                      *)
LEMMA SpansSplit ==
    ASSUME NEW spans \in Seq(LatticeOutcomes)
    PROVE  /\ \A some : SpansIn(spans, some) \in Nat
           /\ SpansIn(spans, LeakedOutcomes)
                 = SpansIn(spans, {"PARTIAL"}) + SpansIn(spans, {"MISS"})
           /\ Len(spans) = SpansIn(spans, {"EXACT"}) + SpansIn(spans, {"COVERED"})
                             + SpansIn(spans, {"OVERBROAD"}) + SpansIn(spans, {"PARTIAL"})
                             + SpansIn(spans, {"MISS"})
<1> DEFINE Where(some) == {i \in DOMAIN spans : spans[i] \in some}
<1>1. Len(spans) \in Nat /\ DOMAIN spans = 1..Len(spans)
  OBVIOUS
<1>2. IsFiniteSet(DOMAIN spans) /\ Cardinality(DOMAIN spans) = Len(spans)
  BY <1>1, FS_Interval
<1>3. \A some : IsFiniteSet(Where(some)) /\ Cardinality(Where(some)) \in Nat
  <2> SUFFICES ASSUME NEW some PROVE IsFiniteSet(Where(some)) /\ Cardinality(Where(some)) \in Nat
    OBVIOUS
  <2>1. Where(some) \in SUBSET DOMAIN spans
    OBVIOUS
  <2> HIDE DEF Where
  <2> QED
    BY <1>2, <2>1, FS_Subset, FS_CardinalityType
<1>4. \A a, b : a \cap b = {} =>
         Cardinality(Where(a \cup b)) = Cardinality(Where(a)) + Cardinality(Where(b))
  <2> SUFFICES ASSUME NEW a, NEW b, a \cap b = {}
               PROVE  Cardinality(Where(a \cup b)) = Cardinality(Where(a)) + Cardinality(Where(b))
    OBVIOUS
  <2>1. Where(a \cup b) = Where(a) \cup Where(b) /\ Where(a) \cap Where(b) = {}
    OBVIOUS
  <2>2. IsFiniteSet(Where(a)) /\ IsFiniteSet(Where(b))
          /\ Cardinality(Where(a)) \in Nat /\ Cardinality(Where(b)) \in Nat
    BY <1>3
  <2> HIDE DEF Where
  <2>3. Cardinality(Where(a) \cup Where(b))
          = Cardinality(Where(a)) + Cardinality(Where(b)) - Cardinality(Where(a) \cap Where(b))
    BY <2>2, FS_Union
  <2>4. Cardinality(Where(a) \cap Where(b)) = 0
    BY <2>1, FS_EmptySet
  <2>5. Cardinality(Where(a \cup b)) = Cardinality(Where(a) \cup Where(b))
    BY <2>1
  <2> QED
    BY <2>2, <2>3, <2>4, <2>5
<1> DEFINE n(some) == Cardinality(Where(some))
           Two == {"PARTIAL", "MISS"}
           Three == {"OVERBROAD"} \cup Two
           Four == {"COVERED"} \cup Three
           Five == {"EXACT"} \cup Four
<1>5. Where(Five) = DOMAIN spans
  <2>1. Five = LatticeOutcomes
    BY DEF LatticeOutcomes
  <2>2. \A i \in DOMAIN spans : spans[i] \in Five
    BY <2>1
  <2> HIDE DEF Five
  <2> QED
    BY <2>2
<1>6. n(Two) = n({"PARTIAL"}) + n({"MISS"})
  <2>1. Two = {"PARTIAL"} \cup {"MISS"} /\ {"PARTIAL"} \cap {"MISS"} = {}
    OBVIOUS
  <2> HIDE DEF Where, Two
  <2> QED
    BY <1>4, <2>1
<1>7. n(Three) = n({"OVERBROAD"}) + n(Two)
  <2>1. {"OVERBROAD"} \cap Two = {}
    OBVIOUS
  <2> HIDE DEF Where, Two
  <2> QED
    BY <1>4, <2>1
<1>8. n(Four) = n({"COVERED"}) + n(Three)
  <2>1. {"COVERED"} \cap Three = {}
    OBVIOUS
  <2> HIDE DEF Where, Three
  <2> QED
    BY <1>4, <2>1
<1>9. n(Five) = n({"EXACT"}) + n(Four)
  <2>1. {"EXACT"} \cap Four = {}
    OBVIOUS
  <2> HIDE DEF Where, Four
  <2> QED
    BY <1>4, <2>1
<1>10. \A some : SpansIn(spans, some) = n(some) /\ n(some) \in Nat
  BY <1>3 DEF SpansIn
<1>11. LeakedOutcomes = Two
  BY DEF LeakedOutcomes
<1>12. Len(spans) = n(Five)
  BY <1>2, <1>5
<1>13. SpansIn(spans, LeakedOutcomes) = n(Two)
  BY <1>10, <1>11
<1> HIDE DEF n, Two, Three, Four, Five
<1>14. /\ SpansIn(spans, {"EXACT"}) = n({"EXACT"})
       /\ SpansIn(spans, {"COVERED"}) = n({"COVERED"})
       /\ SpansIn(spans, {"OVERBROAD"}) = n({"OVERBROAD"})
       /\ SpansIn(spans, {"PARTIAL"}) = n({"PARTIAL"})
       /\ SpansIn(spans, {"MISS"}) = n({"MISS"})
  BY <1>10
<1>15. /\ n({"EXACT"}) \in Nat /\ n({"COVERED"}) \in Nat /\ n({"OVERBROAD"}) \in Nat
       /\ n({"PARTIAL"}) \in Nat /\ n({"MISS"}) \in Nat
  BY <1>10
<1>16. \A some : SpansIn(spans, some) \in Nat
  BY <1>10
<1> QED
  BY <1>6, <1>7, <1>8, <1>9, <1>12, <1>13, <1>14, <1>15, <1>16

(* The measured fixtures of a stratum.                                     *)
FixturesOf == [l \in Strata |-> strata[l].fixtures]

(* The counts of one run: every outcome and kind of fixture is in the      *)
(* total, and no set of strata has more fixtures than the total has.       *)
AggregateInv ==
    /\ AggregateTypeOK
    /\ outcomes["EXACT"] + outcomes["COVERED"] + outcomes["OVERBROAD"]
         + outcomes["PARTIAL"] + outcomes["MISS"] = total.spans
    /\ outcomes["PARTIAL"] + outcomes["MISS"] = total.leakedSpans
    /\ positives + total.controls = total.fixtures
    /\ \A some \in SUBSET Strata : SumFunctionOnSet(FixturesOf, some) <= total.fixtures

(* Counting a fixture keeps the sums of all sets of strata within the      *)
(* total: one stratum at most has it.                                      *)
LEMMA AddKept ==
    ASSUME total \in Tally, strata \in [Strata -> Tally],
           \A some \in SUBSET Strata : SumFunctionOnSet(FixturesOf, some) <= total.fixtures,
           NEW label \in Strata \cup {Unlabelled}, NEW delta \in Tally, delta.fixtures = 1,
           Add(label, delta)
    PROVE  /\ total' \in Tally /\ strata' \in [Strata -> Tally]
           /\ \A k \in DOMAIN delta : total'[k] = total[k] + delta[k]
           /\ \A some \in SUBSET Strata : SumFunctionOnSet(FixturesOf', some) <= total'.fixtures
<1>1. /\ total'.fixtures = total.fixtures + delta.fixtures
      /\ total'.spans = total.spans + delta.spans
      /\ total'.leakedSpans = total.leakedSpans + delta.leakedSpans
      /\ total'.controls = total.controls + delta.controls
      /\ total'.flaggedControls = total.flaggedControls + delta.flaggedControls
  BY DEF Add, Plus, Tally
<1>2. ASSUME NEW t \in Tally PROVE Plus(t, delta) \in Tally /\ Plus(t, delta).fixtures = t.fixtures + 1
  BY DEF Plus, Tally
<1>3. total' \in Tally
  BY <1>2 DEF Add
<1>4. strata' \in [Strata -> Tally]
  BY <1>2 DEF Add
<1>5. \A k \in DOMAIN delta : total'[k] = total[k] + delta[k]
  BY DEF Add, Plus, Tally
<1>6. \A l \in Strata : strata'[l].fixtures = IF l = label THEN strata[l].fixtures + 1
                                                             ELSE strata[l].fixtures
  BY <1>2, AggregateAssumption DEF Add
<1>7. ASSUME NEW some \in SUBSET Strata
      PROVE  SumFunctionOnSet(FixturesOf', some) <= total'.fixtures
  <2>1. IsFiniteSet(some)
    BY FS_Subset, AggregateAssumption
  <2>2. \A l \in some : FixturesOf[l] \in Int /\ FixturesOf[l] = strata[l].fixtures
                          /\ FixturesOf'[l] = strata'[l].fixtures
    BY DEF FixturesOf, Tally
  <2>3. SumFunctionOnSet(FixturesOf, some) \in Int /\ SumFunctionOnSet(FixturesOf, some) <= total.fixtures
    BY <2>1, <2>2, SumType
  <2>4. total.fixtures \in Nat /\ total'.fixtures = total.fixtures + 1
    BY <1>1 DEF Tally
  <2>5. CASE label \in some
    <3>1. SumFunctionOnSet(FixturesOf', some) = SumFunctionOnSet(FixturesOf, some) + 1
      <4>1. 1 \in Int /\ \A l \in some : /\ FixturesOf[l] \in Int
                       /\ FixturesOf'[l] = IF l = label THEN FixturesOf[l] + 1 ELSE FixturesOf[l]
        BY <1>6, <2>2
      <4> QED
        BY <2>1, <2>5, <4>1, SumRaised
    <3> QED
      BY <2>3, <2>4, <3>1
  <2>6. CASE label \notin some
    <3>1. SumFunctionOnSet(FixturesOf, some) = SumFunctionOnSet(FixturesOf', some)
      BY <1>6, <2>1, <2>2, <2>6, SumSame
    <3> QED
      BY <2>3, <2>4, <3>1
  <2> QED
    BY <2>5, <2>6
<1> QED
  BY <1>3, <1>4, <1>5, <1>7

(* Nothing is counted at first.                                            *)
LEMMA AggregateStarts == AggregateInit => AggregateInv
<1> SUFFICES ASSUME AggregateInit PROVE AggregateInv
  OBVIOUS
<1>1. AggregateTypeOK
  BY DEF AggregateInit, AggregateTypeOK, NoTally, Tally
<1>2. ASSUME NEW some \in SUBSET Strata PROVE SumFunctionOnSet(FixturesOf, some) = 0
  <2>1. IsFiniteSet(some)
    BY FS_Subset, AggregateAssumption
  <2>2. \A l \in some : FixturesOf[l] = 0
    BY DEF FixturesOf, AggregateInit, NoTally
  <2> QED
    BY <2>1, <2>2, SumZero
<1> QED
  BY <1>1, <1>2 DEF AggregateInit, AggregateInv, NoTally, LatticeOutcomes

(* Five sums raised at once.                                               *)
LEMMA FiveRaised ==
    ASSUME NEW a1 \in Int, NEW a2 \in Int, NEW a3 \in Int, NEW a4 \in Int, NEW a5 \in Int,
           NEW b1 \in Int, NEW b2 \in Int, NEW b3 \in Int, NEW b4 \in Int, NEW b5 \in Int
    PROVE  (a1 + b1) + (a2 + b2) + (a3 + b3) + (a4 + b4) + (a5 + b5)
              = (a1 + a2 + a3 + a4 + a5) + (b1 + b2 + b3 + b4 + b5)
  OBVIOUS

(* Every observation is counted in the total, in its outcomes and in its   *)
(* stratum alike.                                                          *)
LEMMA AggregateKept == AggregateInv /\ [AggregateNext]_aggregateVars => AggregateInv'
<1> SUFFICES ASSUME AggregateInv, [AggregateNext]_aggregateVars PROVE AggregateInv'
  OBVIOUS
<1>0. /\ outcomes["EXACT"] \in Nat /\ outcomes["COVERED"] \in Nat
      /\ outcomes["OVERBROAD"] \in Nat /\ outcomes["PARTIAL"] \in Nat
      /\ outcomes["MISS"] \in Nat
      /\ total.spans \in Nat /\ total.leakedSpans \in Nat
      /\ total.fixtures \in Nat /\ total.controls \in Nat /\ positives \in Nat
      /\ outcomes["EXACT"] + outcomes["COVERED"] + outcomes["OVERBROAD"]
           + outcomes["PARTIAL"] + outcomes["MISS"] = total.spans
      /\ outcomes["PARTIAL"] + outcomes["MISS"] = total.leakedSpans
      /\ positives + total.controls = total.fixtures
  BY DEF AggregateInv, AggregateTypeOK, LatticeOutcomes, Tally
<1> USE DEF AggregateInv, AggregateTypeOK
<1>1. CASE Withhold
  <2>1. withheld' \in [WithheldReason -> Nat]
    BY <1>1 DEF Withhold
  <2>2. FixturesOf' = FixturesOf
    BY <1>1 DEF Withhold, FixturesOf
  <2> QED
    BY <1>1, <2>1, <2>2 DEF Withhold
<1>2. CASE MeasureControl
  <2>1. PICK label \in Strata \cup {Unlabelled}, flagged \in {0, 1} :
               Add(label, [NoTally EXCEPT !.fixtures = 1, !.controls = 1, !.flaggedControls = flagged])
    BY <1>2 DEF MeasureControl
  <2> DEFINE delta == [NoTally EXCEPT !.fixtures = 1, !.controls = 1, !.flaggedControls = flagged]
  <2>2. /\ delta \in Tally /\ delta.fixtures = 1 /\ delta.spans = 0 /\ delta.leakedSpans = 0
        /\ delta.controls = 1
        /\ DOMAIN delta = {"fixtures", "spans", "leakedSpans", "controls", "flaggedControls"}
    <3>1. flagged \in Nat
      OBVIOUS
    <3> HIDE DEF AggregateInv, AggregateTypeOK
    <3> QED
      BY <3>1 DEF NoTally, Tally
  <2> HIDE DEF delta
  <2>3. /\ total' \in Tally /\ strata' \in [Strata -> Tally]
        /\ \A k \in DOMAIN delta : total'[k] = total[k] + delta[k]
        /\ \A some \in SUBSET Strata : SumFunctionOnSet(FixturesOf', some) <= total'.fixtures
    BY <2>1, <2>2, AddKept DEF delta
  <2>4. total'.fixtures = total.fixtures + 1 /\ total'.spans = total.spans
          /\ total'.leakedSpans = total.leakedSpans /\ total'.controls = total.controls + 1
    BY <1>0, <2>2, <2>3
  <2>5. outcomes' = outcomes /\ positives' = positives /\ withheld' = withheld
    BY <1>2 DEF MeasureControl
  <2>6. (positives + total.controls = total.fixtures)'
    <3>1. positives + (total.controls + 1) = total.fixtures + 1
      BY <1>0
    <3> QED
      BY <2>4, <2>5, <3>1
  <2> QED
    BY <1>0, <2>3, <2>4, <2>5, <2>6
<1>3. CASE MeasurePositive
  <2>1. PICK label \in Strata \cup {Unlabelled}, spans \in SpanOutcomes :
          /\ Add(label, [NoTally EXCEPT !.fixtures = 1, !.spans = Len(spans),
                                        !.leakedSpans = SpansIn(spans, LeakedOutcomes)])
          /\ outcomes' = [o \in LatticeOutcomes |-> outcomes[o] + SpansIn(spans, {o})]
    BY <1>3 DEF MeasurePositive
  <2> DEFINE delta == [NoTally EXCEPT !.fixtures = 1, !.spans = Len(spans),
                                      !.leakedSpans = SpansIn(spans, LeakedOutcomes)]
  <2>2. spans \in Seq(LatticeOutcomes) /\ Len(spans) \in Nat
    BY AggregateAssumption
  <2>3. \A some : SpansIn(spans, some) \in Nat
    BY <2>2, SpansSplit
  <2>4. /\ delta \in Tally /\ delta.fixtures = 1 /\ delta.spans = Len(spans)
        /\ delta.leakedSpans = SpansIn(spans, LeakedOutcomes) /\ delta.controls = 0
        /\ DOMAIN delta = {"fixtures", "spans", "leakedSpans", "controls", "flaggedControls"}
    BY <2>2, <2>3 DEF NoTally, Tally
  <2> HIDE DEF delta
  <2>5. /\ total' \in Tally /\ strata' \in [Strata -> Tally]
        /\ \A k \in DOMAIN delta : total'[k] = total[k] + delta[k]
        /\ \A some \in SUBSET Strata : SumFunctionOnSet(FixturesOf', some) <= total'.fixtures
    BY <2>1, <2>4, AddKept DEF delta
  <2>6. /\ total'.fixtures = total.fixtures + 1
        /\ total'.spans = total.spans + Len(spans)
        /\ total'.leakedSpans = total.leakedSpans + SpansIn(spans, LeakedOutcomes)
        /\ total'.controls = total.controls
    BY <1>0, <2>4, <2>5
  <2>7. outcomes' \in [LatticeOutcomes -> Nat]
    BY <2>1, <2>3
  <2>8. /\ outcomes'["EXACT"] = outcomes["EXACT"] + SpansIn(spans, {"EXACT"})
        /\ outcomes'["COVERED"] = outcomes["COVERED"] + SpansIn(spans, {"COVERED"})
        /\ outcomes'["OVERBROAD"] = outcomes["OVERBROAD"] + SpansIn(spans, {"OVERBROAD"})
        /\ outcomes'["PARTIAL"] = outcomes["PARTIAL"] + SpansIn(spans, {"PARTIAL"})
        /\ outcomes'["MISS"] = outcomes["MISS"] + SpansIn(spans, {"MISS"})
    BY <2>1 DEF LatticeOutcomes
  <2>9. /\ SpansIn(spans, LeakedOutcomes) = SpansIn(spans, {"PARTIAL"}) + SpansIn(spans, {"MISS"})
        /\ Len(spans) = SpansIn(spans, {"EXACT"}) + SpansIn(spans, {"COVERED"})
                          + SpansIn(spans, {"OVERBROAD"}) + SpansIn(spans, {"PARTIAL"})
                          + SpansIn(spans, {"MISS"})
    BY <2>2, SpansSplit
  <2>10. /\ SpansIn(spans, {"EXACT"}) \in Nat /\ SpansIn(spans, {"COVERED"}) \in Nat
         /\ SpansIn(spans, {"OVERBROAD"}) \in Nat /\ SpansIn(spans, {"PARTIAL"}) \in Nat
         /\ SpansIn(spans, {"MISS"}) \in Nat
    BY <2>3
  <2>14. positives' = positives + 1 /\ withheld' = withheld
    BY <1>3 DEF MeasurePositive
  <2> HIDE DEF AggregateInv, AggregateTypeOK
  <2>11. outcomes'["EXACT"] + outcomes'["COVERED"] + outcomes'["OVERBROAD"]
            + outcomes'["PARTIAL"] + outcomes'["MISS"] = total'.spans
    <3>1. (outcomes["EXACT"] + SpansIn(spans, {"EXACT"}))
              + (outcomes["COVERED"] + SpansIn(spans, {"COVERED"}))
              + (outcomes["OVERBROAD"] + SpansIn(spans, {"OVERBROAD"}))
              + (outcomes["PARTIAL"] + SpansIn(spans, {"PARTIAL"}))
              + (outcomes["MISS"] + SpansIn(spans, {"MISS"}))
              = (outcomes["EXACT"] + outcomes["COVERED"] + outcomes["OVERBROAD"]
                   + outcomes["PARTIAL"] + outcomes["MISS"])
                + (SpansIn(spans, {"EXACT"}) + SpansIn(spans, {"COVERED"})
                     + SpansIn(spans, {"OVERBROAD"}) + SpansIn(spans, {"PARTIAL"})
                     + SpansIn(spans, {"MISS"}))
      BY <1>0, <2>10, FiveRaised
    <3> QED
      BY <1>0, <2>6, <2>8, <2>9, <3>1
  <2>12. outcomes'["PARTIAL"] + outcomes'["MISS"] = total'.leakedSpans
    BY <1>0, <2>6, <2>8, <2>9, <2>10
  <2>13. positives' \in Nat /\ positives' + total'.controls = total'.fixtures
    <3>1. (positives + 1) + total.controls = total.fixtures + 1 /\ positives + 1 \in Nat
      BY <1>0
    <3> QED
      BY <2>6, <2>14, <3>1
  <2> USE DEF AggregateInv, AggregateTypeOK
  <2> QED
    BY <2>5, <2>7, <2>11, <2>12, <2>13, <2>14
<1>4. CASE UNCHANGED aggregateVars
  BY <1>4 DEF aggregateVars, FixturesOf
<1> QED
  BY <1>1, <1>2, <1>3, <1>4 DEF AggregateNext

(* What is counted this way passes validateAggregate, and hides the small  *)
(* strata: a stratum that is not released is at most the remainder, and a  *)
(* remainder between 1 and the minimum releases none.                      *)
LEMMA AggregateReleasable == AggregateInv => AggregateReleases
<1> SUFFICES ASSUME AggregateInv PROVE AggregateReleases
  OBVIOUS
<1> USE DEF AggregateInv, AggregateTypeOK
<1>1. total.fixtures \in Nat /\ \A l \in Strata : strata[l].fixtures \in Nat
  BY DEF Tally
<1>2. IsFiniteSet(Strata) /\ MinimumFixtures \in Nat \ {0}
  BY AggregateAssumption
<1>3. SumFunction(outcomes) = total.spans
  BY OutcomeSum
<1>4. ASSUME NEW some \in SUBSET Strata
      PROVE  /\ SumFunction([l \in some |-> strata[l].fixtures]) = SumFunctionOnSet(FixturesOf, some)
             /\ SumFunctionOnSet(FixturesOf, some) \in Int
             /\ SumFunctionOnSet(FixturesOf, some) <= total.fixtures
  <2> DEFINE f == [l \in some |-> strata[l].fixtures]
  <2>1. IsFiniteSet(some)
    BY <1>2, FS_Subset
  <2>2. \A l \in some : f[l] \in Int /\ f[l] = FixturesOf[l]
    BY <1>1 DEF FixturesOf
  <2>3. DOMAIN f = some
    OBVIOUS
  <2> HIDE DEF f
  <2>4. SumFunction(f) = SumFunctionOnSet(f, some)
    BY <2>3 DEF SumFunction
  <2>5. SumFunctionOnSet(f, some) = SumFunctionOnSet(FixturesOf, some) /\ SumFunctionOnSet(f, some) \in Int
    BY <2>1, <2>2, SumSame, SumType
  <2> QED
    BY <2>4, <2>5 DEF f
<1>5. large \in SUBSET Strata
  BY DEF large
<1>6. suppressedFixtures = total.fixtures - SumFunctionOnSet(FixturesOf, large)
        /\ suppressedFixtures \in Nat
  BY <1>1, <1>4, <1>5 DEF suppressedFixtures, measurable
<1>7. ASSUME NEW l \in Strata \ large PROVE strata[l].fixtures <= suppressedFixtures
  <2>1. IsFiniteSet(large) /\ l \notin large /\ FixturesOf[l] = strata[l].fixtures
          /\ FixturesOf[l] \in Int /\ \A m \in large : FixturesOf[m] \in Int
    BY <1>1, <1>2, <1>5, FS_Subset DEF FixturesOf
  <2>2. SumFunctionOnSet(FixturesOf, large \cup {l}) = strata[l].fixtures + SumFunctionOnSet(FixturesOf, large)
    BY <2>1, SumAdd
  <2>3. large \cup {l} \in SUBSET Strata
    BY <1>5
  <2>4. SumFunctionOnSet(FixturesOf, large \cup {l}) <= total.fixtures
    BY <2>3
  <2> QED
    <3>1. SumFunctionOnSet(FixturesOf, large) \in Int
      BY <1>4, <1>5
    <3>2. strata[l].fixtures \in Int
      BY <1>1
    <3> QED
      BY <1>1, <1>6, <2>2, <2>4, <3>1, <3>2
<1>8. AggregateConsistent
  BY <1>3 DEF AggregateConsistent, measurable, rows, large
<1>9. SmallStrataHidden
  <2> SUFFICES ASSUME strataStatus = "released" PROVE SmallStrataHidden
    BY DEF SmallStrataHidden
  <2>1. rows = large /\ suppressedFixtures \notin 1..(MinimumFixtures - 1)
    BY DEF rows, strataStatus
  <2>2. RecoveredTally("fixtures") = suppressedFixtures
    BY <2>1, <1>4, <1>5, <1>6 DEF RecoveredTally
  <2>3. suppressedFixtures = 0 \/ suppressedFixtures >= MinimumFixtures
    BY <1>2, <1>6, <2>1
  <2>4. ASSUME NEW l \in labelled \ rows PROVE strata[l].fixtures < suppressedFixtures
    <3>1. l \in Strata \ large /\ strata[l].fixtures > 0 /\ strata[l].fixtures < MinimumFixtures
      BY <1>1, <1>2, <2>1 DEF labelled, large
    <3>2. strata[l].fixtures <= suppressedFixtures
      BY <1>7, <3>1
    <3> QED
      BY <1>1, <1>2, <1>6, <2>3, <3>1, <3>2
  <2> QED
    BY <2>2, <2>3, <2>4 DEF SmallStrataHidden
<1> QED
  BY <1>8, <1>9 DEF AggregateReleases

(* The invariant holds of every run.                                       *)
LEMMA AggregateInvariant == AggregateSpec => []AggregateInv
  BY AggregateStarts, AggregateKept, PTL DEF AggregateSpec

(* Tallies, outcomes and withheld counts keep their types.                 *)
THEOREM AggregateTypes == AggregateSpec => []AggregateTypeOK
<1>1. AggregateInv => AggregateTypeOK
  BY DEF AggregateInv
<1> QED
  BY <1>1, AggregateInvariant, PTL

(* For every set of strata and every minimum, a measured run releases an   *)
(* aggregate that validateAggregate accepts and whose totals give no small *)
(* stratum away (benchmarks/blind/aggregate.ts).                           *)
THEOREM ReleasesHideSmallStrata == AggregateSpec => []AggregateReleases
  BY AggregateReleasable, AggregateInvariant, PTL

-----------------------------------------------------------------------------
(* The whole: an initial state chooses the part that acts.                *)

(* A step of the whole is a step of one part that leaves the others alone. *)
LEMMA PartsStep ==
    ASSUME [PublicationNext]_allVars
    PROVE  /\ [CommitNext]_commitVars /\ [DeployNext]_deployVars /\ [StoreNext]_storeVars
           /\ [MeasurementNext]_measurementVars /\ [SealNext]_sealVars
           /\ [GeneratedNext]_generatedVars /\ [IndexNext]_indexVars
           /\ [IntakeNext]_intakeVars /\ [AggregateNext]_aggregateVars
<1>1. CASE UNCHANGED allVars
  BY <1>1 DEF allVars
<1>2. CASE PublicationNext
  BY <1>2 DEF PublicationNext, Only
<1> QED
  BY <1>1, <1>2

(* In the whole, every part behaves as it does alone, so that what is      *)
(* proved of the parts holds where the run checks it.                      *)
THEOREM PartsBehave ==
    PublicationSpec =>
        /\ CommitSpec /\ DeploySpec /\ StoreSpec /\ MeasurementSpec /\ SealSpec
        /\ GeneratedSpec /\ IndexSpec /\ IntakeSpec /\ AggregateSpec
<1>1. PublicationInit =>
          /\ CommitInit /\ DeployInit /\ StoreInit /\ MeasurementInit /\ SealInit
          /\ GeneratedInit /\ IndexInit /\ IntakeInit /\ AggregateInit
  BY DEF PublicationInit
<1>2. [PublicationNext]_allVars =>
           /\ [CommitNext]_commitVars /\ [DeployNext]_deployVars /\ [StoreNext]_storeVars
           /\ [MeasurementNext]_measurementVars /\ [SealNext]_sealVars
           /\ [GeneratedNext]_generatedVars /\ [IndexNext]_indexVars
           /\ [IntakeNext]_intakeVars /\ [AggregateNext]_aggregateVars
  BY PartsStep
<1> QED
  BY <1>1, <1>2, PTL
     DEF PublicationSpec, CommitSpec, DeploySpec, StoreSpec, MeasurementSpec, SealSpec,
         GeneratedSpec, IndexSpec, IntakeSpec, AggregateSpec

(* The variables of every part keep their types in the whole.             *)
THEOREM PublicationTypes == PublicationSpec => []PublicationTypeOK
<1>1. /\ CommitTypeOK /\ DeployTypeOK /\ StoreTypeOK /\ MeasurementTypeOK /\ SealTypeOK
      /\ GeneratedTypeOK /\ IndexTypeOK /\ IntakeTypeOK /\ AggregateTypeOK
      => PublicationTypeOK
  BY DEF PublicationTypeOK
<1> QED
  BY <1>1, PartsBehave, CommitTypes, DeployTypes, StoreTypes, MeasurementTypes, SealTypes,
     GeneratedTypes, IndexTypes, IntakeTypes, AggregateTypes, PTL

(* In the whole, every part keeps its promises: what the run publication   *)
(* checks on small instances, but for what must eventually happen, holds   *)
(* for every value of the constants, with edits outside the window.        *)
THEOREM PublicationIsSafe ==
    ASSUME Quiet
    PROVE  PublicationSpec =>
              /\ [](CommitIsSafe /\ NothingIsMissing /\ StoreReads /\ MeasurementsAreSafe)
              /\ [](SealsAreWhole /\ ReportsMatchRecord /\ AggregateReleases)
              /\ KeepsAtomic /\ StoreSurvives /\ MeasurementStays
              /\ IndexIsSound /\ AcceptedIsFirstRun
<1>1. PublicationSpec => [](CommitIsSafe /\ NothingIsMissing /\ StoreReads /\ MeasurementsAreSafe)
  BY PartsBehave, CommitsAreSafe, NothingGoesMissing, ReadersGetOneStore, MeasurementsStaySafe,
     PTL
<1>2. PublicationSpec => [](SealsAreWhole /\ ReportsMatchRecord /\ AggregateReleases)
  BY PartsBehave, SealsStayWhole, RecordIsBehindReports, ReleasesHideSmallStrata, PTL
<1>3. PublicationSpec =>
         /\ KeepsAtomic /\ StoreSurvives /\ MeasurementStays
         /\ IndexIsSound /\ AcceptedIsFirstRun
  BY PartsBehave, CommitIsAtomic, StoreIsNeverLost, MeasurementIsKept, IndexStaysSound,
     AcceptedAsScanned, PTL
<1> QED
  BY <1>1, <1>2, <1>3

===============================================================================
