----------------------------- MODULE BlindProofs -----------------------------
(***************************************************************************)
(* Proofs about Blind, for any number of freezes and runs, any corpora and *)
(* any number of rebuilds.                                                 *)
(*                                                                         *)
(* IInv holds however commands overlap: what a run checked under its       *)
(* freeze stays checked to its released status, and no ledger copy in any  *)
(* process claims more than was released.  SerialInv needs that commands   *)
(* do not overlap: then the ledger copy read before the lock is still the  *)
(* ledger, so the attempt it found free is free when it is written.        *)
(***************************************************************************)
EXTENDS Blind, FiniteSetTheorems, TLAPS

(* A run past its first read has the freeze in hand.                       *)
HoldsFreeze == \A r \in Runs : pc[r] \in BeforeLock \cup Critical => frz[r] # NoFile

(* The types, with what they need of the freeze.                           *)
Typed == TypeOK /\ HoldsFreeze

(* Entering an epoch leaves a ledger. *)
LEMMA WithEpochTyped == ASSUME NEW l \in Ledger, NEW c \in Corpora PROVE WithEpoch(l, c) \in Ledger
  BY DEF WithEpoch, Ledger

(* The ledger a run writes is a ledger: the run has its freeze in hand. *)
LEMMA ListingTyped ==
  ASSUME Typed, NEW r \in Runs, pc[r] \in BeforeLock \cup Critical,
         NEW status \in {"reserved", "complete", "incomplete"}
  PROVE  /\ EntryOf(r, status) \in Entry
         /\ Listing(r, status) \in Ledger
<1>1. frz[r] \in Freeze /\ corp[r] \in Corpora /\ mem[r] \in Ledger
  BY DEF Typed, TypeOK, HoldsFreeze, Proc
<1>2. EntryOf(r, status) \in Entry
  BY <1>1 DEF EntryOf, Entry, Freeze, Epochs
<1>3. WithEpoch(mem[r], corp[r]) \in Ledger
  BY <1>1, WithEpochTyped
<1> QED
  BY <1>2, <1>3 DEF Listing, Ledger

(* The initial state is typed. *)
LEMMA InitTyped == Init => Typed
  BY ProcAssumption, BoundAssumption DEF Init, Typed, TypeOK, HoldsFreeze, EmptyLedger,
     Ledger, Builds, Proc, Steps,
     Alive, Freezing, BeforeLock, Critical

(* Every step keeps the types, one action at a time. *)
LEMMA StepTyped == Typed /\ [Next]_vars => Typed'
<1> SUFFICES ASSUME Typed, [Next]_vars PROVE Typed'
  OBVIOUS
<1> USE DEF Typed, TypeOK, HoldsFreeze, Proc, Steps, Alive, Freezing, BeforeLock, Critical, Goto, world, files, locals
<1>1. ASSUME NEW f \in Freezers, FreezeStep(f) PROVE Typed'
  BY <1>1, ProcAssumption, AbsentAssumption DEF FreezeStep, FreezeReadCorpus,
     FreezeReadLedger, FreezeResolve, FreezeWrite, FrozenBy, Freeze
<1>2. ASSUME NEW r \in Runs, ReadFreeze(r) PROVE Typed'
  BY <1>2 DEF ReadFreeze
<1>3. ASSUME NEW r \in Runs, RecheckCorpus(r) \/ RecheckCandidate(r) \/ ReadLedger(r) \/ TakeLock(r)
      PROVE Typed'
  BY <1>3 DEF RecheckCorpus, RecheckCandidate, ReadLedger, TakeLock
<1>4. ASSUME NEW r \in Runs, Reserve(r) \/ RecordStatus(r) \/ Abort(r) PROVE Typed'
  <2>1. \A status \in {"reserved", "complete", "incomplete"} : Listing(r, status) \in Ledger
    BY <1>4, ListingTyped DEF Reserve, RecordStatus, Abort
  <2> QED
    BY <1>4, <2>1 DEF Reserve, RecordStatus, Abort
<1>5. ASSUME NEW r \in Runs, ConsumeFreeze(r) \/ StageFixtures(r) \/ Scan(r) \/ RecheckAfterScan(r)
      PROVE Typed'
  BY <1>5, AbsentAssumption DEF ConsumeFreeze, StageFixtures, Scan, RecheckAfterScan, Freeze
<1>6. ASSUME NEW r \in Runs, KeepAggregate(r) \/ Release(r) \/ Fail(r) \/ Leave(r) PROVE Typed'
  BY <1>6 DEF KeepAggregate, Release, Fail, Leave
<1>7. ASSUME NEW p \in Proc, Crash(p) PROVE Typed'
  BY <1>7 DEF Crash
<1>8. CASE RemoveStaleLock
  BY <1>8 DEF RemoveStaleLock
<1>9. CASE EditCorpus
  BY <1>9 DEF EditCorpus
<1>10. CASE Rebuild
  BY <1>10, BoundAssumption DEF Rebuild, Builds
<1>11. CASE UNCHANGED vars
  BY <1>11 DEF vars
<1> QED
  BY <1>1, <1>2, <1>3, <1>4, <1>5, <1>6, <1>7, <1>8, <1>9, <1>10, <1>11 DEF Next, RunStep

-----------------------------------------------------------------------------
(* Whether or not commands overlap *)

(* Where a run can be once it has begun its scan, and once it released.    *)
PastScan == {"scanned", "rechecked", "kept", "released", "aborting", "leaving",
             "done", "crashed"}
PastRelease == {"released", "aborting", "leaving", "done", "crashed"}

(* A run past a check still has what the check established, and builds     *)
(* only go up.                                                             *)
RunsOnFreeze ==
    \A r \in Runs :
        /\ pc[r] \in (BeforeLock \cup Critical) \ {"freezeRead"} => corp[r] = frz[r].corpus
        /\ pc[r] \in {"candidateSame", "ledgerChecked"} \cup Critical => frz[r].candidate <= candidate
        /\ pc[r] = "scanned" => frz[r].candidate <= built[r] /\ built[r] <= candidate
        /\ pc[r] \in {"rechecked", "kept", "released"} /\ verdict[r] = "complete"
              => built[r] = frz[r].candidate
        /\ release[r] # "none" => pc[r] \in PastRelease

(* A run in its critical section that got past the reservation is listed.  *)
ScanInLedger ==
    \A r \in Runs :
        /\ (\E e \in evaluated : e.run = r) => pc[r] \in PastScan
        /\ pc[r] \in {"reserved", "consumed", "staged", "scanned", "rechecked", "kept", "released"}
              => ledger.runs[r] # NoEntry

(* No copy of the ledger calls a run complete that did not release so.     *)
CompleteIn(l) ==
    \A r \in Runs : l.runs[r] # NoEntry /\ l.runs[r].status = "complete" => release[r] = "complete"

(* Neither does the verdict a run is about to record.                      *)
HonestCopies ==
    /\ \A p \in Proc : CompleteIn(mem[p])
    /\ \A r \in Runs : pc[r] = "released" => release[r] = verdict[r]

(* Every freeze is in one place: pending, or in one run's directory, and   *)
(* its author is done.                                                     *)
FreezesApart ==
    /\ freezeFile # NoFile => pc[freezeFile.id] = "done"
    /\ \A r \in Runs : consumed[r] # NoFile =>
          /\ pc[consumed[r].id] = "done"
          /\ freezeFile # NoFile => freezeFile.id # consumed[r].id
          /\ \A s \in Runs \ {r} : consumed[s] # NoFile => consumed[s].id # consumed[r].id

(* The inductive invariant, whether or not commands overlap.               *)
IInv ==
    /\ Typed
    /\ LockExcludes
    /\ RunsOnFreeze
    /\ CompleteIsFrozen
    /\ ScanInLedger
    /\ ScanIsReserved
    /\ HonestCopies
    /\ LedgerIsHonest
    /\ FreezesApart

(* The inductive invariant holds initially. *)
LEMMA InitInv == Init => IInv
<1> SUFFICES ASSUME Init PROVE IInv
  OBVIOUS
<1>1. Typed
  BY InitTyped
<1> QED
  BY <1>1 DEF Init, IInv, LockExcludes, RunsOnFreeze, CompleteIsFrozen, ScanInLedger,
     ScanIsReserved,
     HonestCopies, CompleteIn, LedgerIsHonest, FreezesApart, EmptyLedger, BeforeLock,
     Critical, Proc

(* A run in its critical section owns the lock, so no other run takes it,  *)
(* and it is removed only by its owner or when nothing is alive.           *)
LEMMA StepLocked == IInv /\ [Next]_vars => LockExcludes'
<1> SUFFICES ASSUME IInv, [Next]_vars PROVE LockExcludes'
  OBVIOUS
<1> USE DEF IInv, Typed, TypeOK, LockExcludes, Proc, Alive, Freezing, BeforeLock, Critical, Goto, files
<1>1. ASSUME NEW f \in Freezers, FreezeStep(f) PROVE LockExcludes'
  BY <1>1, ProcAssumption DEF FreezeStep, FreezeReadCorpus, FreezeReadLedger,
     FreezeResolve, FreezeWrite
<1>2. ASSUME NEW r \in Runs, ReadFreeze(r) \/ RunStep(r) PROVE LockExcludes'
  BY <1>2, ProcAssumption DEF ReadFreeze, RunStep, RecheckCorpus, RecheckCandidate,
     ReadLedger, TakeLock, Reserve, ConsumeFreeze,
     StageFixtures, Scan, RecheckAfterScan, KeepAggregate, Release, RecordStatus, Fail,
     Abort, Leave
<1>3. CASE \/ \E p \in Proc : Crash(p)
           \/ RemoveStaleLock \/ EditCorpus \/ Rebuild \/ UNCHANGED vars
  BY <1>3 DEF Crash, RemoveStaleLock, EditCorpus, Rebuild, vars
<1> QED
  BY <1>1, <1>2, <1>3 DEF Next

(* Two corpora with one commitment under one epoch label are the same.     *)
LEMMA CommitmentFixes ==
  ASSUME NEW c \in Corpora, NEW d \in Corpora, Commitment(c) = Commitment(d), c.epoch = d.epoch
  PROVE  c = d
  BY CorporaAssumption DEF Commitment

(* A run keeps the corpus and the build of its freeze to its released      *)
(* status.                                                                 *)
LEMMA StepFrozen == IInv /\ [Next]_vars => (RunsOnFreeze /\ CompleteIsFrozen)'
<1> SUFFICES ASSUME IInv, [Next]_vars PROVE (RunsOnFreeze /\ CompleteIsFrozen)'
  OBVIOUS
<1> USE DEF IInv, Typed, TypeOK, HoldsFreeze, RunsOnFreeze, CompleteIsFrozen, Proc, Alive, Freezing, BeforeLock, Critical,
            PastRelease, Goto, files, world, locals
<1>1. ASSUME NEW f \in Freezers, FreezeStep(f) PROVE (RunsOnFreeze /\ CompleteIsFrozen)'
  BY <1>1, ProcAssumption DEF FreezeStep, FreezeReadCorpus, FreezeReadLedger,
     FreezeResolve, FreezeWrite
<1>2. ASSUME NEW r \in Runs, ReadFreeze(r) PROVE (RunsOnFreeze /\ CompleteIsFrozen)'
  BY <1>2 DEF ReadFreeze
<1>3. ASSUME NEW r \in Runs, RecheckCorpus(r) PROVE (RunsOnFreeze /\ CompleteIsFrozen)'
  <2>1. frz[r] \in Freeze
    BY <1>3 DEF RecheckCorpus
  <2>2. Commitment(corpus) = Commitment(frz[r].corpus) /\ corpus.epoch = frz[r].corpus.epoch => corpus = frz[r].corpus
    BY <2>1, CommitmentFixes DEF Freeze
  <2> QED
    BY <1>3, <2>2 DEF RecheckCorpus
<1>4. ASSUME NEW r \in Runs, RecheckCandidate(r) \/ ReadLedger(r) \/ TakeLock(r)
      PROVE (RunsOnFreeze /\ CompleteIsFrozen)'
  <2>1. frz[r] \in Freeze
    BY <1>4 DEF RecheckCandidate, ReadLedger, TakeLock
  <2> QED
    BY <1>4, <2>1, BoundAssumption DEF RecheckCandidate, ReadLedger, TakeLock, Freeze, Builds
<1>5. ASSUME NEW r \in Runs, Reserve(r) \/ ConsumeFreeze(r) \/ StageFixtures(r) \/ KeepAggregate(r) \/ Release(r)
             \/ RecordStatus(r) \/ Fail(r) \/ Abort(r) \/ Leave(r)
      PROVE (RunsOnFreeze /\ CompleteIsFrozen)'
  BY <1>5 DEF Reserve, ConsumeFreeze, StageFixtures, KeepAggregate, Release, RecordStatus,
     Fail, Abort, Leave
<1>6. ASSUME NEW r \in Runs, Scan(r) \/ RecheckAfterScan(r)
      PROVE (RunsOnFreeze /\ CompleteIsFrozen)'
  <2>1. frz[r] \in Freeze /\ frz[r].candidate \in Int /\ candidate \in Int /\ built[r] \in Int
    BY <1>6, BoundAssumption DEF Scan, RecheckAfterScan, Freeze, Builds
  <2> QED
    BY <1>6, <2>1 DEF Scan, RecheckAfterScan
<1>7. ASSUME NEW p \in Proc, Crash(p) PROVE (RunsOnFreeze /\ CompleteIsFrozen)'
  BY <1>7 DEF Crash
<1>8. CASE RemoveStaleLock \/ EditCorpus \/ UNCHANGED vars
  BY <1>8 DEF RemoveStaleLock, EditCorpus, vars
<1>9. CASE Rebuild
  <2>1. candidate \in Int /\ \A r \in Runs : pc[r] \in BeforeLock \cup Critical => frz[r].candidate \in Int
    BY BoundAssumption DEF Freeze, Builds
  <2>2. \A r \in Runs : built[r] \in Int
    BY BoundAssumption DEF Builds
  <2> QED
    BY <1>9, <2>1, <2>2 DEF Rebuild
<1> QED
  BY <1>1, <1>2, <1>3, <1>4, <1>5, <1>6, <1>7, <1>8, <1>9 DEF Next, RunStep

(* The ledger's entries of other runs are safe while a run works on its    *)
(* own: nobody else is past the lock.                                      *)
LEMMA ListingKeeps ==
  ASSUME Typed, NEW r \in Runs, pc[r] \in BeforeLock \cup Critical,
         NEW status \in {"reserved", "complete", "incomplete"}
  PROVE  /\ Listing(r, status).runs[r] = EntryOf(r, status)
         /\ \A q \in Runs \ {r} : Listing(r, status).runs[q] = mem[r].runs[q]
         /\ Listing(r, status).runs[r] # NoEntry
         /\ Listing(r, status).runs[r].status = status
<1>1. mem[r] \in Ledger /\ corp[r] \in Corpora
  BY DEF Typed, TypeOK, Proc
<1>2. WithEpoch(mem[r], corp[r]) \in Ledger
  BY <1>1, WithEpochTyped
<1>3. WithEpoch(mem[r], corp[r]).runs = mem[r].runs
  BY <1>1 DEF WithEpoch, Ledger
<1>4. EntryOf(r, status) \in Entry
  BY ListingTyped
<1> QED
  BY <1>1, <1>2, <1>3, <1>4, AbsentAssumption DEF Listing, Ledger, EntryOf

(* A scan stays covered by the entry its run wrote first. *)
LEMMA StepScanned == IInv /\ [Next]_vars => (ScanInLedger /\ ScanIsReserved)'
<1> SUFFICES ASSUME IInv, [Next]_vars PROVE (ScanInLedger /\ ScanIsReserved)'
  OBVIOUS
<1>T. Typed
  BY DEF IInv
<1> USE DEF IInv, Typed, TypeOK, LockExcludes, ScanInLedger, ScanIsReserved, Proc, Alive, Freezing, BeforeLock, Critical,
            PastScan, Goto, files, world, locals
<1>1. ASSUME NEW f \in Freezers, FreezeStep(f) PROVE (ScanInLedger /\ ScanIsReserved)'
  BY <1>1, ProcAssumption DEF FreezeStep, FreezeReadCorpus, FreezeReadLedger,
     FreezeResolve, FreezeWrite
<1>2. ASSUME NEW r \in Runs, ReadFreeze(r) \/ RecheckCorpus(r) \/ RecheckCandidate(r) \/ ReadLedger(r) \/ TakeLock(r)
      PROVE (ScanInLedger /\ ScanIsReserved)'
  BY <1>2 DEF ReadFreeze, RecheckCorpus, RecheckCandidate, ReadLedger, TakeLock
<1>3. ASSUME NEW r \in Runs, Reserve(r) PROVE (ScanInLedger /\ ScanIsReserved)'
  <2>1. Listing(r, "reserved").runs[r] # NoEntry
    BY <1>T, <1>3, ListingKeeps DEF Reserve
  <2>2. ledger' = Listing(r, "reserved")
    BY <1>3 DEF Reserve
  <2> QED
    BY <1>3, <2>1, <2>2 DEF Reserve
<1>4. ASSUME NEW r \in Runs, RecordStatus(r) PROVE (ScanInLedger /\ ScanIsReserved)'
  <2>1. Listing(r, verdict[r]).runs[r] # NoEntry
    BY <1>T, <1>4, ListingKeeps DEF RecordStatus
  <2>2. ledger' = Listing(r, verdict[r])
    BY <1>4 DEF RecordStatus
  <2> QED
    BY <1>4, <2>1, <2>2 DEF RecordStatus
<1>5. ASSUME NEW r \in Runs, Abort(r) PROVE (ScanInLedger /\ ScanIsReserved)'
  <2>1. Listing(r, "incomplete").runs[r] # NoEntry
    BY <1>T, <1>5, ListingKeeps DEF Abort
  <2>2. ledger' = Listing(r, "incomplete") \/ ledger' = ledger
    BY <1>5 DEF Abort
  <2> QED
    BY <1>5, <2>1, <2>2 DEF Abort
<1>6. ASSUME NEW r \in Runs, ConsumeFreeze(r) \/ StageFixtures(r) \/ Scan(r) \/ RecheckAfterScan(r)
      PROVE (ScanInLedger /\ ScanIsReserved)'
  BY <1>6 DEF ConsumeFreeze, StageFixtures, Scan, RecheckAfterScan
<1>7. ASSUME NEW r \in Runs, KeepAggregate(r) \/ Release(r) \/ Fail(r) \/ Leave(r)
      PROVE (ScanInLedger /\ ScanIsReserved)'
  BY <1>7 DEF KeepAggregate, Release, Fail, Leave
<1>8. CASE \/ \E p \in Proc : Crash(p)
           \/ RemoveStaleLock \/ EditCorpus \/ Rebuild \/ UNCHANGED vars
  BY <1>8 DEF Crash, RemoveStaleLock, EditCorpus, Rebuild, vars
<1> QED
  BY <1>1, <1>2, <1>3, <1>4, <1>5, <1>6, <1>7, <1>8 DEF Next, RunStep

(* Listing its own attempt, a run adds no dishonest entry.                 *)
LEMMA ListingHonest ==
  ASSUME Typed, HonestCopies, NEW r \in Runs, pc[r] \in BeforeLock \cup Critical,
         NEW status \in {"reserved", "complete", "incomplete"},
         status = "complete" => release[r] = "complete"
  PROVE  CompleteIn(Listing(r, status))
<1>1. CompleteIn(mem[r])
  BY DEF HonestCopies, Proc
<1> SUFFICES ASSUME NEW q \in Runs, Listing(r, status).runs[q] # NoEntry, Listing(r, status).runs[q].status = "complete"
             PROVE  release[q] = "complete"
  BY DEF CompleteIn
<1>2. CASE q = r
  <2>1. Listing(r, status).runs[r].status = status
    BY ListingKeeps
  <2> QED
    BY <1>2, <2>1
<1>3. CASE q # r
  <2>1. Listing(r, status).runs[q] = mem[r].runs[q]
    BY <1>3, ListingKeeps
  <2> QED
    BY <1>1, <2>1 DEF CompleteIn
<1> QED
  BY <1>2, <1>3

(* No copy of the ledger, and so no write of one, claims a completion that *)
(* was not released.                                                       *)
LEMMA StepHonest == IInv /\ [Next]_vars => (HonestCopies /\ LedgerIsHonest)'
<1> SUFFICES ASSUME IInv, [Next]_vars PROVE (HonestCopies /\ LedgerIsHonest)'
  OBVIOUS
<1>T. Typed
  BY DEF IInv
<1> USE DEF IInv, Typed, TypeOK, RunsOnFreeze, HonestCopies, CompleteIn, LedgerIsHonest, Proc, Alive, Freezing,
            BeforeLock, Critical, PastRelease, Goto, files, world, locals
<1>1. ASSUME NEW f \in Freezers, FreezeStep(f) PROVE (HonestCopies /\ LedgerIsHonest)'
  BY <1>1, ProcAssumption DEF FreezeStep, FreezeReadCorpus, FreezeReadLedger,
     FreezeResolve, FreezeWrite
<1>2. ASSUME NEW r \in Runs, ReadFreeze(r) \/ RecheckCorpus(r) \/ RecheckCandidate(r) \/ ReadLedger(r) \/ TakeLock(r)
      PROVE (HonestCopies /\ LedgerIsHonest)'
  BY <1>2 DEF ReadFreeze, RecheckCorpus, RecheckCandidate, ReadLedger, TakeLock
<1>3. ASSUME NEW r \in Runs, Reserve(r) PROVE (HonestCopies /\ LedgerIsHonest)'
  <2>1. CompleteIn(Listing(r, "reserved"))
    BY <1>T, <1>3, ListingHonest DEF Reserve
  <2>2. ledger' = Listing(r, "reserved") /\ mem' = [mem EXCEPT ![r] = Listing(r, "reserved")]
    BY <1>3 DEF Reserve
  <2> QED
    BY <1>3, <2>1, <2>2 DEF Reserve
<1>4. ASSUME NEW r \in Runs, RecordStatus(r) PROVE (HonestCopies /\ LedgerIsHonest)'
  <2>1. CompleteIn(Listing(r, verdict[r]))
    BY <1>T, <1>4, ListingHonest DEF RecordStatus
  <2>2. ledger' = Listing(r, verdict[r])
    BY <1>4 DEF RecordStatus
  <2> QED
    BY <1>4, <2>1, <2>2 DEF RecordStatus
<1>5. ASSUME NEW r \in Runs, Abort(r) PROVE (HonestCopies /\ LedgerIsHonest)'
  <2>1. CompleteIn(Listing(r, "incomplete"))
    BY <1>T, <1>5, ListingHonest DEF Abort
  <2>2. ledger' = Listing(r, "incomplete") \/ ledger' = ledger
    BY <1>5 DEF Abort
  <2> QED
    BY <1>5, <2>1, <2>2 DEF Abort
<1>6. ASSUME NEW r \in Runs, ConsumeFreeze(r) \/ StageFixtures(r) \/ Scan(r) \/ RecheckAfterScan(r)
      PROVE (HonestCopies /\ LedgerIsHonest)'
  BY <1>6 DEF ConsumeFreeze, StageFixtures, Scan, RecheckAfterScan
<1>7. ASSUME NEW r \in Runs, KeepAggregate(r) \/ Release(r) \/ Fail(r) \/ Leave(r)
      PROVE (HonestCopies /\ LedgerIsHonest)'
  BY <1>7 DEF KeepAggregate, Release, Fail, Leave
<1>8. CASE \/ \E p \in Proc : Crash(p)
           \/ RemoveStaleLock \/ EditCorpus \/ Rebuild \/ UNCHANGED vars
  BY <1>8 DEF Crash, RemoveStaleLock, EditCorpus, Rebuild, vars
<1> QED
  BY <1>1, <1>2, <1>3, <1>4, <1>5, <1>6, <1>7, <1>8 DEF Next, RunStep

(* Moving freeze.json away leaves each freeze in one place only. *)
LEMMA StepApart == IInv /\ [Next]_vars => FreezesApart'
<1> SUFFICES ASSUME IInv, [Next]_vars PROVE FreezesApart'
  OBVIOUS
<1> USE DEF IInv, Typed, TypeOK, FreezesApart, Freeze, Proc, Alive, Freezing, BeforeLock, Critical, Goto, files, world, locals
<1>1. ASSUME NEW f \in Freezers, FreezeStep(f) PROVE FreezesApart'
  BY <1>1, ProcAssumption, AbsentAssumption DEF FreezeStep, FreezeReadCorpus,
     FreezeReadLedger, FreezeResolve, FreezeWrite, FrozenBy
<1>2. ASSUME NEW r \in Runs, ReadFreeze(r) \/ RunStep(r), ~ConsumeFreeze(r) PROVE FreezesApart'
  BY <1>2, ProcAssumption DEF ReadFreeze, RunStep, RecheckCorpus, RecheckCandidate,
     ReadLedger, TakeLock, Reserve,
     StageFixtures, Scan, RecheckAfterScan, KeepAggregate, Release, RecordStatus, Fail,
     Abort, Leave
<1>3. ASSUME NEW r \in Runs, ConsumeFreeze(r) PROVE FreezesApart'
  BY <1>3, ProcAssumption, AbsentAssumption DEF ConsumeFreeze
<1>4. CASE \/ \E p \in Proc : Crash(p)
           \/ RemoveStaleLock \/ EditCorpus \/ Rebuild \/ UNCHANGED vars
  BY <1>4 DEF Crash, RemoveStaleLock, EditCorpus, Rebuild, vars
<1> QED
  BY <1>1, <1>2, <1>3, <1>4 DEF Next

(* The inductive invariant is preserved by every step. *)
LEMMA StepInv == IInv /\ [Next]_vars => IInv'
<1> SUFFICES ASSUME IInv, [Next]_vars PROVE IInv'
  OBVIOUS
<1>1. Typed'
  BY StepTyped DEF IInv
<1> QED
  BY <1>1, StepLocked, StepFrozen, StepScanned, StepHonest, StepApart DEF IInv

(* Everything the invariant says holds in every reachable state, however   *)
(* commands overlap.                                                       *)
THEOREM Invariance == Spec => []IInv
  BY InitInv, StepInv, PTL DEF Spec

(* Every variable keeps its type: ledger, freeze and locals stay well      *)
(* formed through any interleaving and crash.                              *)
THEOREM TypeCorrect == Spec => []TypeOK
<1>1. IInv => TypeOK
  BY DEF IInv, Typed
<1> QED
  BY <1>1, Invariance, PTL

(* `.lock` excludes for any number of runs, with crashes and with an       *)
(* operator who removes a stale lock once nothing runs.                    *)
THEOREM MutualExclusion == Spec => []LockExcludes
<1>1. IInv => LockExcludes
  BY DEF IInv
<1> QED
  BY <1>1, Invariance, PTL

(* No run observes a fixture before its attempt is in the ledger file, and *)
(* a crash cannot take the entry back while the run holds the lock.        *)
THEOREM ScansOnRecord == Spec => []ScanIsReserved
<1>1. IInv => ScanIsReserved
  BY DEF IInv
<1> QED
  BY <1>1, Invariance, PTL

(* A released aggregate that says complete was measured on the corpus the  *)
(* freeze committed to with the build it froze, whatever was edited or     *)
(* rebuilt during the run.                                                 *)
THEOREM CompleteMeasuresTheFreeze == Spec => []CompleteIsFrozen
<1>1. IInv => CompleteIsFrozen
  BY DEF IInv
<1> QED
  BY <1>1, Invariance, PTL

(* The ledger calls a run complete only when its complete aggregate was    *)
(* released before: runBlind releases first and records second.            *)
THEOREM HonestLedger == Spec => []LedgerIsHonest
<1>1. IInv => LedgerIsHonest
  BY DEF IInv
<1> QED
  BY <1>1, Invariance, PTL

(* Of any number of runs that read the same freeze.json, at most one takes *)
(* it into its directory.                                                  *)
THEOREM FreezesSpentOnce == Spec => []FreezeSpentOnce
<1>1. IInv => FreezeSpentOnce
  BY DEF IInv, FreezesApart, FreezeSpentOnce
<1> QED
  BY <1>1, Invariance, PTL

(* Lock, reservation and rename keep any number of runs apart.             *)
THEOREM RunsStayExclusive == Spec => []RunsAreExclusive
<1>1. LockExcludes /\ ScanIsReserved /\ FreezeSpentOnce => RunsAreExclusive
  BY DEF RunsAreExclusive
<1> QED
  BY <1>1, MutualExclusion, ScansOnRecord, FreezesSpentOnce, PTL

(* What is released, and what the ledger says of it, are true.             *)
THEOREM HonestReleases == Spec => []ReleasesAreHonest
<1>1. CompleteIsFrozen /\ LedgerIsHonest => ReleasesAreHonest
  BY DEF ReleasesAreHonest
<1> QED
  BY <1>1, CompleteMeasuresTheFreeze, HonestLedger, PTL

(* `freeze` never replaces a pending freeze: freeze.json is consumed by a  *)
(* run or stays what it is.                                                *)
THEOREM FreezesStay == Spec => FreezeStays
<1>1. [Next]_vars => (freezeFile # NoFile => freezeFile' \in {freezeFile, NoFile})
  BY DEF Next, FreezeStep, FreezeReadCorpus, FreezeReadLedger, FreezeResolve, FreezeWrite,
     RunStep, ReadFreeze,
     RecheckCorpus, RecheckCandidate, ReadLedger, TakeLock, Reserve, ConsumeFreeze,
     StageFixtures, Scan, RecheckAfterScan,
     KeepAggregate, Release, RecordStatus, Fail, Abort, Leave, Crash, RemoveStaleLock,
     EditCorpus, Rebuild, vars, files
<1> QED
  BY <1>1, PTL DEF Spec, FreezeStays

-----------------------------------------------------------------------------
(* While commands do not overlap *)

(* The attempt a run checked is still free in a copy of the ledger: its    *)
(* corpus fits the epochs, and no other run has its candidate and epoch.   *)
AttemptFree(l, r) ==
    /\ EpochFree(l, corp[r])
    /\ \A q \in Runs \ {r} :
          l.runs[q] # NoEntry =>
              ~(l.runs[q].epoch = corp[r].epoch /\ l.runs[q].candidate = frz[r].candidate)

(* One corpus for each epoch label and one label for each set of fixtures; *)
(* one attempt for each candidate and epoch.                               *)
Consistent(l) ==
    /\ \A c, d \in l.epochs :
          /\ c.epoch = d.epoch => Commitment(c) = Commitment(d)
          /\ Digest(c) = Digest(d) => c.epoch = d.epoch
    /\ \A q, s \in Runs :
          /\ l.runs[q] # NoEntry /\ l.runs[s] # NoEntry
          /\ l.runs[q].epoch = l.runs[s].epoch /\ l.runs[q].candidate = l.runs[s].candidate
          => q = s

(* One command runs at a time.                                             *)
OneAlive == \A p, q \in Proc : pc[p] \in Alive /\ pc[q] \in Alive => p = q

(* Where a run holds a copy it may yet write back, where it is not listed  *)
(* yet, and where it is listed as reserved.                                *)
Writing == {"ledgerChecked"} \cup (Critical \ {"leaving"})
Unlisted == {"idle", "locked"} \cup BeforeLock
Listed == {"reserved", "consumed", "staged", "scanned", "rechecked", "kept", "released"}

(* The copy a run may write back is the ledger, and its attempt is free.   *)
CopyIsLedger(r) == pc[r] \in Writing => mem[r] = ledger /\ AttemptFree(mem[r], r)

(* A run is listed from its reservation on, first as reserved.             *)
OwnEntry(r) ==
    /\ pc[r] \in Unlisted => ledger.runs[r] = NoEntry
    /\ pc[r] \in Writing => ledger.runs[r] \in {NoEntry, EntryOf(r, "reserved")}
    /\ pc[r] \in Listed => ledger.runs[r] = EntryOf(r, "reserved") /\ corp[r] \in ledger.epochs

(* Every scan ever begun is listed, under its epoch and its candidate.     *)
EvaluatedListed ==
    \A e \in evaluated :
        /\ e.corpus \in ledger.epochs
        /\ ledger.runs[e.run] # NoEntry
        /\ ledger.runs[e.run].epoch = e.corpus.epoch
        /\ ledger.runs[e.run].candidate = e.candidate

(* The inductive invariant of serial use, on top of IInv.                  *)
SerialInv ==
    /\ OneAlive
    /\ Consistent(ledger)
    /\ EvaluatedListed
    /\ \A r \in Runs : CopyIsLedger(r) /\ OwnEntry(r)

(* The invariant of serial use holds initially. *)
LEMMA InitSerial == Init => SerialInv
  BY DEF Init, SerialInv, OneAlive, CopyIsLedger, Consistent, OwnEntry, EvaluatedListed,
     EmptyLedger, Proc, Alive, Freezing,
     BeforeLock, Critical, Writing, Listed

(* A run that passed checkEpoch and checkNotYetEvaluated adds an attempt   *)
(* and an epoch that contradict nothing in its copy.                       *)
LEMMA ListingConsistent ==
  ASSUME Typed, NEW r \in Runs, pc[r] \in BeforeLock \cup Critical,
         NEW status \in {"reserved", "complete", "incomplete"},
         Consistent(mem[r]), AttemptFree(mem[r], r)
  PROVE  /\ Consistent(Listing(r, status))
         /\ AttemptFree(Listing(r, status), r)
         /\ corp[r] \in Listing(r, status).epochs
         /\ mem[r].epochs \subseteq Listing(r, status).epochs
<1> DEFINE L == Listing(r, status)
<1>1. mem[r] \in Ledger /\ corp[r] \in Corpora /\ mem[r].epochs \subseteq Corpora
  BY DEF Typed, TypeOK, Proc, Ledger
<1>2. L.epochs = WithEpoch(mem[r], corp[r]).epochs
  BY <1>1, WithEpochTyped DEF Listing, Ledger
<1>3. \A e \in mem[r].epochs : e.epoch = corp[r].epoch => e = corp[r]
  BY <1>1, CommitmentFixes DEF AttemptFree, EpochFree
<1>4. L.epochs = mem[r].epochs \cup {corp[r]}
  BY <1>1, <1>2, <1>3 DEF WithEpoch, Ledger
<1>5. \A c, d \in L.epochs :
          /\ c.epoch = d.epoch => Commitment(c) = Commitment(d)
          /\ Digest(c) = Digest(d) => c.epoch = d.epoch
  BY <1>4 DEF Consistent, AttemptFree, EpochFree
<1>6. /\ L.runs[r] = EntryOf(r, status)
      /\ \A q \in Runs \ {r} : L.runs[q] = mem[r].runs[q]
  BY ListingKeeps
<1>7. EntryOf(r, status).epoch = corp[r].epoch /\ EntryOf(r, status).candidate = frz[r].candidate
  BY DEF EntryOf
<1>8. AttemptFree(L, r)
  BY <1>4, <1>6 DEF AttemptFree, EpochFree
<1>9. \A q, s \in Runs :
          /\ L.runs[q] # NoEntry /\ L.runs[s] # NoEntry
          /\ L.runs[q].epoch = L.runs[s].epoch /\ L.runs[q].candidate = L.runs[s].candidate
          => q = s
  BY <1>6, <1>7 DEF Consistent, AttemptFree
<1> QED
  BY <1>4, <1>5, <1>8, <1>9 DEF Consistent

(* A process that takes a step of its own was alive or the first to start, *)
(* so nobody else is alive.                                                *)
LEMMA StepAlive == ~Overlap /\ IInv /\ OneAlive /\ [Next]_vars => OneAlive'
<1> SUFFICES ASSUME ~Overlap, IInv, OneAlive, [Next]_vars PROVE OneAlive'
  OBVIOUS
<1> USE DEF IInv, Typed, TypeOK, OneAlive, Proc, Alive, Freezing, BeforeLock, Critical, Goto, MayStart, files
<1>1. ASSUME NEW f \in Freezers, FreezeStep(f) PROVE OneAlive'
  BY <1>1 DEF FreezeStep, FreezeReadCorpus, FreezeReadLedger, FreezeResolve, FreezeWrite
<1>2. ASSUME NEW r \in Runs, ReadFreeze(r) PROVE OneAlive'
  BY <1>2 DEF ReadFreeze
<1>3. ASSUME NEW r \in Runs, RunStep(r) PROVE OneAlive'
  BY <1>3 DEF RunStep, RecheckCorpus, RecheckCandidate, ReadLedger, TakeLock, Reserve,
     ConsumeFreeze,
     StageFixtures, Scan, RecheckAfterScan, KeepAggregate, Release, RecordStatus, Fail,
     Abort, Leave
<1>4. CASE \/ \E p \in Proc : Crash(p)
           \/ RemoveStaleLock \/ EditCorpus \/ Rebuild \/ UNCHANGED vars
  BY <1>4 DEF Crash, RemoveStaleLock, EditCorpus, Rebuild, vars
<1> QED
  BY <1>1, <1>2, <1>3, <1>4 DEF Next

(* What a run writes to the ledger, and what stays true of it.             *)
LEMMA WriteSerial ==
  ASSUME Typed, SerialInv, NEW r \in Runs, pc[r] \in Critical \ {"leaving"},
         NEW status \in {"reserved", "complete", "incomplete"}
  PROVE  /\ Consistent(Listing(r, status))
         /\ AttemptFree(Listing(r, status), r)
         /\ corp[r] \in Listing(r, status).epochs
         /\ ledger.epochs \subseteq Listing(r, status).epochs
         /\ Listing(r, status).runs[r] = EntryOf(r, status)
         /\ \A q \in Runs \ {r} : Listing(r, status).runs[q] = ledger.runs[q]
<1>1. mem[r] = ledger /\ AttemptFree(mem[r], r) /\ Consistent(mem[r])
  BY DEF SerialInv, CopyIsLedger, Writing
<1>2. pc[r] \in BeforeLock \cup Critical
  OBVIOUS
<1> QED
  BY <1>1, <1>2, ListingConsistent, ListingKeeps

(* Writing an own entry leaves every evaluation listed. *)
LEMMA WriteEvaluated ==
  ASSUME Typed, SerialInv, NEW r \in Runs, pc[r] \in Critical \ {"leaving"},
         NEW status \in {"reserved", "complete", "incomplete"},
         ledger' = Listing(r, status), evaluated' = evaluated
  PROVE  EvaluatedListed'
<1> SUFFICES ASSUME NEW e \in evaluated
             PROVE  /\ e.corpus \in ledger'.epochs
                    /\ ledger'.runs[e.run] # NoEntry
                    /\ ledger'.runs[e.run].epoch = e.corpus.epoch
                    /\ ledger'.runs[e.run].candidate = e.candidate
  BY DEF EvaluatedListed
<1>1. e.run \in Runs
  BY DEF Typed, TypeOK
<1>2. /\ e.corpus \in ledger.epochs /\ ledger.runs[e.run] # NoEntry
      /\ ledger.runs[e.run].epoch = e.corpus.epoch /\ ledger.runs[e.run].candidate = e.candidate
  BY DEF SerialInv, EvaluatedListed
<1>3. CASE e.run # r
  BY <1>1, <1>2, <1>3, WriteSerial
<1>4. CASE e.run = r
  <2>1. ledger.runs[r] = EntryOf(r, "reserved")
    BY <1>2, <1>4 DEF SerialInv, OwnEntry, Writing
  <2>2. ledger'.runs[r] = EntryOf(r, status) /\ EntryOf(r, status) # NoEntry
    BY WriteSerial, ListingKeeps
  <2>3. /\ EntryOf(r, status).epoch = EntryOf(r, "reserved").epoch
        /\ EntryOf(r, status).candidate = EntryOf(r, "reserved").candidate
    BY DEF EntryOf
  <2> QED
    BY <1>2, <1>4, <2>1, <2>2, <2>3, WriteSerial
<1> QED
  BY <1>3, <1>4

(* A run that keeps what it knows, while the ledger stays as it is.        *)
LEMMA RunFrame ==
  ASSUME NEW q \in Runs, CopyIsLedger(q), OwnEntry(q), ledger' = ledger,
         pc'[q] \in Writing => pc[q] \in Writing /\ mem'[q] = mem[q] /\ corp'[q] = corp[q] /\ frz'[q] = frz[q],
         pc'[q] \in Unlisted => pc[q] \in Unlisted,
         pc'[q] \in Listed => pc[q] \in Listed
  PROVE  CopyIsLedger(q)' /\ OwnEntry(q)'
<1>1. Listed \subseteq Writing
  BY DEF Listed, Writing, Critical
<1> QED
  BY <1>1 DEF CopyIsLedger, OwnEntry, AttemptFree, EntryOf

(* The steps that leave ledger and scans alone.                            *)
LEMMA QuietFrame ==
  ASSUME SerialInv, ledger' = ledger, evaluated' = evaluated, OneAlive',
         \A q \in Runs :
             /\ pc'[q] \in Writing => pc[q] \in Writing /\ mem'[q] = mem[q] /\ corp'[q] = corp[q] /\ frz'[q] = frz[q]
             /\ pc'[q] \in Unlisted => pc[q] \in Unlisted
             /\ pc'[q] \in Listed => pc[q] \in Listed
  PROVE  SerialInv'
<1>1. \A q \in Runs : CopyIsLedger(q)' /\ OwnEntry(q)'
  BY RunFrame DEF SerialInv
<1>2. EvaluatedListed' /\ Consistent(ledger)'
  BY DEF SerialInv, EvaluatedListed, Consistent
<1> QED
  BY <1>1, <1>2 DEF SerialInv

(* The steps of a run that write its entry to the ledger.                  *)
LEMMA WriteFrame ==
  ASSUME ~Overlap, Typed, SerialInv, OneAlive', NEW r \in Runs, pc[r] \in Critical \ {"leaving"},
         NEW status \in {"reserved", "complete", "incomplete"},
         ledger' = Listing(r, status), UNCHANGED <<corp, frz, evaluated>>,
         \/ Goto(r, "leaving")
         \/ Goto(r, "reserved") /\ status = "reserved" /\ mem' = [mem EXCEPT ![r] = ledger']
  PROVE  SerialInv'
<1>1. EvaluatedListed'
  BY WriteEvaluated
<1>2. Consistent(ledger)'
  BY WriteSerial DEF Consistent
<1>3. ASSUME NEW q \in Runs, q # r PROVE CopyIsLedger(q)' /\ OwnEntry(q)'
  <2>1. pc'[q] = pc[q] /\ pc[q] \notin Alive
    BY <1>3 DEF Goto, Typed, TypeOK, Proc, SerialInv, OneAlive, Alive
  <2>2. ledger'.runs[q] = ledger.runs[q]
    BY <1>3, WriteSerial
  <2>3. pc[q] \notin Writing /\ pc[q] \notin Listed
    BY <2>1 DEF Writing, Listed, Alive, Critical, BeforeLock
  <2> QED
    BY <2>1, <2>2, <2>3 DEF CopyIsLedger, OwnEntry, SerialInv
<1>4. CopyIsLedger(r)' /\ OwnEntry(r)'
  <2>1. CASE Goto(r, "leaving")
    <3>1. pc'[r] = "leaving"
      BY <2>1 DEF Goto, Typed, TypeOK, Proc
    <3> QED
      BY <3>1 DEF CopyIsLedger, OwnEntry, Writing, Unlisted, Listed, BeforeLock
  <2>2. CASE Goto(r, "reserved") /\ status = "reserved" /\ mem' = [mem EXCEPT ![r] = ledger']
    <3>1. pc'[r] = "reserved" /\ mem'[r] = ledger'
      BY <2>2 DEF Goto, Typed, TypeOK, Proc
    <3>2. /\ AttemptFree(ledger', r) /\ corp[r] \in ledger'.epochs
          /\ ledger'.runs[r] = EntryOf(r, "reserved")
      BY <2>2, WriteSerial
    <3>3. AttemptFree(mem[r], r)' /\ EntryOf(r, "reserved")' = EntryOf(r, "reserved") /\ corp'[r] = corp[r]
      BY <3>1, <3>2 DEF AttemptFree, EntryOf
    <3> QED
      BY <3>1, <3>2, <3>3 DEF CopyIsLedger, OwnEntry, Unlisted, BeforeLock
  <2> QED
    BY <2>1, <2>2
<1> QED
  BY <1>1, <1>2, <1>3, <1>4 DEF SerialInv

(* The invariant of serial use is preserved by every step. *)
LEMMA StepSerial == ~Overlap /\ IInv /\ SerialInv /\ [Next]_vars => SerialInv'
<1> SUFFICES ASSUME ~Overlap, IInv, SerialInv, [Next]_vars PROVE SerialInv'
  OBVIOUS
<1>A. OneAlive'
  BY StepAlive DEF SerialInv
<1>T. Typed
  BY DEF IInv
<1> DEFINE Quiet ==
      /\ ledger' = ledger /\ evaluated' = evaluated
      /\ \A q \in Runs :
             /\ pc'[q] \in Writing => pc[q] \in Writing /\ mem'[q] = mem[q] /\ corp'[q] = corp[q] /\ frz'[q] = frz[q]
             /\ pc'[q] \in Unlisted => pc[q] \in Unlisted
             /\ pc'[q] \in Listed => pc[q] \in Listed
<1>0. Quiet => SerialInv'
  BY <1>A, QuietFrame
<1>1. ASSUME NEW f \in Freezers, FreezeStep(f) PROVE Quiet
  BY <1>1, <1>T, ProcAssumption DEF FreezeStep, FreezeReadCorpus, FreezeReadLedger,
     FreezeResolve, FreezeWrite,
     Typed, TypeOK, Proc, Goto, files, world, locals
<1>2. ASSUME NEW r \in Runs, ReadFreeze(r) \/ RecheckCorpus(r) \/ RecheckCandidate(r) \/ TakeLock(r)
      PROVE Quiet
  BY <1>2, <1>T DEF ReadFreeze, RecheckCorpus, RecheckCandidate, TakeLock, Typed, TypeOK,
     Proc, Goto, files, world, locals,
     Writing, Unlisted, Listed, BeforeLock, Critical
<1>3. ASSUME NEW r \in Runs, ConsumeFreeze(r) \/ StageFixtures(r) \/ RecheckAfterScan(r) \/ KeepAggregate(r)
             \/ Release(r) \/ Fail(r) \/ Leave(r)
      PROVE Quiet
  BY <1>3, <1>T DEF ConsumeFreeze, StageFixtures, RecheckAfterScan, KeepAggregate, Release,
     Fail, Leave, Typed, TypeOK,
     Proc, Goto, files, world, locals, Writing, Unlisted, Listed, BeforeLock, Critical
<1>4. CASE \/ \E p \in Proc : Crash(p)
           \/ RemoveStaleLock \/ EditCorpus \/ Rebuild \/ UNCHANGED vars
  <2>1. Quiet
    BY <1>4, <1>T DEF Crash, RemoveStaleLock, EditCorpus, Rebuild, vars, Typed, TypeOK,
       Proc, Goto, files, world, locals,
       Writing, Unlisted, Listed, BeforeLock, Critical
  <2> QED
    BY <1>0, <2>1
<1>5. ASSUME NEW r \in Runs, ReadLedger(r) PROVE SerialInv'
  <2>1. /\ ledger' = ledger /\ evaluated' = evaluated /\ corp' = corp /\ frz' = frz
        /\ mem' = [mem EXCEPT ![r] = ledger] /\ pc[r] = "candidateSame"
        /\ \/ Goto(r, "rejected")
           \/ Goto(r, "ledgerChecked") /\ EpochFree(ledger, corp[r]) /\ NotYetEvaluated(ledger, corp[r].epoch, frz[r].candidate)
    BY <1>5 DEF ReadLedger, files
  <2>2. ASSUME NEW q \in Runs, q # r PROVE CopyIsLedger(q)' /\ OwnEntry(q)'
    <3>1. pc'[q] = pc[q] /\ mem'[q] = mem[q] /\ corp'[q] = corp[q] /\ frz'[q] = frz[q] /\ ledger' = ledger
      BY <2>1, <2>2, <1>T DEF Typed, TypeOK, Proc, Goto
    <3> QED
      BY <3>1, RunFrame DEF SerialInv
  <2>3. mem'[r] = ledger /\ pc'[r] \in {"rejected", "ledgerChecked"} /\ ledger.runs[r] = NoEntry
    BY <2>1, <1>T DEF Typed, TypeOK, Proc, Goto, SerialInv, OwnEntry, Unlisted, BeforeLock
  <2>4. pc'[r] = "ledgerChecked" => AttemptFree(mem[r], r)'
    <3>1. pc'[r] = "ledgerChecked" => EpochFree(ledger, corp[r]) /\ NotYetEvaluated(ledger, corp[r].epoch, frz[r].candidate)
      BY <2>1, <1>T DEF Typed, TypeOK, Proc, Goto
    <3> QED
      BY <2>1, <2>3, <3>1 DEF AttemptFree, NotYetEvaluated
  <2>5. CopyIsLedger(r)' /\ OwnEntry(r)'
    BY <2>1, <2>3, <2>4 DEF CopyIsLedger, OwnEntry, Writing, Unlisted, Listed, BeforeLock,
       Critical
  <2>6. EvaluatedListed' /\ Consistent(ledger)'
    BY <2>1 DEF SerialInv, EvaluatedListed, Consistent
  <2> QED
    BY <1>A, <2>2, <2>5, <2>6 DEF SerialInv
<1>6. ASSUME NEW r \in Runs, Reserve(r) PROVE SerialInv'
  <2>1. ledger' = Listing(r, "reserved") /\ mem' = [mem EXCEPT ![r] = ledger'] /\ UNCHANGED <<corp, frz, evaluated>>
    BY <1>6, <1>T DEF Reserve, Typed, TypeOK, Proc
  <2> QED
    BY <1>6, <2>1, <1>A, <1>T, WriteFrame DEF Reserve, Critical
<1>7. ASSUME NEW r \in Runs, RecordStatus(r) PROVE SerialInv'
  BY <1>7, <1>A, <1>T, WriteFrame DEF RecordStatus, Critical, Typed, TypeOK, locals
<1>8. ASSUME NEW r \in Runs, Abort(r) PROVE SerialInv'
  <2>1. CASE ledger' = Listing(r, "incomplete")
    BY <1>8, <2>1, <1>A, <1>T, WriteFrame DEF Abort, Critical, locals
  <2>2. CASE ledger' = ledger
    <3>1. Quiet
      BY <1>8, <2>2, <1>T DEF Abort, Typed, TypeOK, Proc, Goto, world, locals, Writing,
         Unlisted, Listed, BeforeLock, Critical
    <3> QED
      BY <1>0, <3>1
  <2> QED
    BY <1>8, <2>1, <2>2 DEF Abort
<1>9. ASSUME NEW r \in Runs, Scan(r) PROVE SerialInv'
  <2>1. /\ ledger' = ledger /\ corp' = corp /\ frz' = frz /\ mem' = mem /\ pc[r] = "staged" /\ Goto(r, "scanned")
        /\ evaluated' = evaluated \cup {[run |-> r, corpus |-> corp[r], candidate |-> frz[r].candidate]}
    BY <1>9 DEF Scan, files
  <2>2. \A q \in Runs : CopyIsLedger(q)' /\ OwnEntry(q)'
    <3>1. \A q \in Runs : pc'[q] = IF q = r THEN "scanned" ELSE pc[q]
      BY <2>1, <1>T DEF Typed, TypeOK, Proc, Goto
    <3> QED
      BY <2>1, <3>1, RunFrame DEF SerialInv, Writing, Unlisted, Listed, BeforeLock, Critical
  <2>3. /\ corp[r] \in ledger.epochs /\ ledger.runs[r] = EntryOf(r, "reserved") /\ EntryOf(r, "reserved") # NoEntry
        /\ EntryOf(r, "reserved").epoch = corp[r].epoch /\ EntryOf(r, "reserved").candidate = frz[r].candidate
    BY <2>1, <1>T, ListingKeeps DEF SerialInv, OwnEntry, Listed, EntryOf, Critical
  <2>4. EvaluatedListed'
    BY <2>1, <2>3 DEF SerialInv, EvaluatedListed
  <2>5. Consistent(ledger)'
    BY <2>1 DEF SerialInv, Consistent
  <2> QED
    BY <1>A, <2>2, <2>4, <2>5 DEF SerialInv
<1> HIDE DEF Quiet
<1> QED
  BY <1>0, <1>1, <1>2, <1>3, <1>4, <1>5, <1>6, <1>7, <1>8, <1>9 DEF Next, RunStep

(* While commands do not overlap, the copy of the ledger read before the   *)
(* lock is still the ledger when it is written back.                       *)
THEOREM SerialInvariance == ASSUME ~Overlap PROVE Spec => []SerialInv
<1>1. IInv /\ SerialInv /\ [Next]_vars => SerialInv'
  BY StepSerial
<1> QED
  BY <1>1, InitSerial, Invariance, PTL DEF Spec

(* While commands do not overlap, a frozen candidate is evaluated at most  *)
(* once on an epoch, crashed attempts included. (Overlapping commands      *)
(* break this: see MCBlindAttempts.)                                       *)
THEOREM AttemptsOnce == ASSUME ~Overlap PROVE Spec => []OneAttempt
<1>1. IInv /\ SerialInv => OneAttempt
  <2> SUFFICES ASSUME IInv, SerialInv, NEW a \in evaluated, NEW b \in evaluated,
                      a.corpus.epoch = b.corpus.epoch, a.candidate = b.candidate
               PROVE  a.run = b.run
    BY DEF OneAttempt
  <2>1. a.run \in Runs /\ b.run \in Runs
    BY DEF IInv, Typed, TypeOK
  <2> QED
    BY <2>1 DEF SerialInv, EvaluatedListed, Consistent
<1> QED
  BY <1>1, Invariance, SerialInvariance, PTL

(* While commands do not overlap, an epoch label is evaluated with one     *)
(* corpus, and a set of fixtures under one label.                          *)
THEOREM EpochsAreOneCorpus == ASSUME ~Overlap PROVE Spec => []EpochIsOneCorpus
<1>1. SerialInv => EpochIsOneCorpus
  BY DEF SerialInv, EvaluatedListed, Consistent, EpochIsOneCorpus
<1> QED
  BY <1>1, SerialInvariance, PTL

(* One command at a time, an epoch gives each candidate one attempt on one *)
(* corpus.                                                                 *)
THEOREM EpochsAreSpentOnce == ASSUME ~Overlap PROVE Spec => []OneAttemptPerEpoch
<1>1. OneAttempt /\ EpochIsOneCorpus => OneAttemptPerEpoch
  BY DEF OneAttemptPerEpoch
<1> QED
  BY <1>1, AttemptsOnce, EpochsAreOneCorpus, PTL

(* While commands do not overlap, no write of the ledger forgets an epoch, *)
(* an attempt or a final status.                                           *)
THEOREM LedgerNeverShrinks == ASSUME ~Overlap PROVE Spec => LedgerGrows
<1> DEFINE Grows ==
      /\ ledger.epochs \subseteq ledger'.epochs
      /\ \A r \in Runs : ledger.runs[r] # NoEntry =>
             /\ ledger'.runs[r] # NoEntry
             /\ ledger'.runs[r].epoch = ledger.runs[r].epoch
             /\ ledger'.runs[r].candidate = ledger.runs[r].candidate
             /\ ledger.runs[r].status = "reserved" \/ ledger'.runs[r] = ledger.runs[r]
<1>1. IInv /\ SerialInv /\ [Next]_vars => Grows
  <2> SUFFICES ASSUME IInv, SerialInv, [Next]_vars PROVE Grows
    OBVIOUS
  <2>T. Typed
    BY DEF IInv
  <2>1. ledger' = ledger => Grows
    OBVIOUS
  <2>2. \/ ledger' = ledger
        \/ \E r \in Runs : \E status \in {"reserved", "complete", "incomplete"} :
              pc[r] \in Critical \ {"leaving"} /\ ledger' = Listing(r, status)
    BY <2>T DEF Next, FreezeStep, FreezeReadCorpus, FreezeReadLedger, FreezeResolve,
       FreezeWrite, RunStep, ReadFreeze,
       RecheckCorpus, RecheckCandidate, ReadLedger, TakeLock, Reserve, ConsumeFreeze,
       StageFixtures, Scan, RecheckAfterScan,
       KeepAggregate, Release, RecordStatus, Fail, Abort, Leave, Crash, RemoveStaleLock,
       EditCorpus, Rebuild, vars, files,
       Typed, TypeOK, Proc, Critical
  <2>3. ASSUME NEW r \in Runs, NEW status \in {"reserved", "complete", "incomplete"},
               pc[r] \in Critical \ {"leaving"}, ledger' = Listing(r, status)
        PROVE  Grows
    <3>1. ledger.runs[r] \in {NoEntry, EntryOf(r, "reserved")}
      BY <2>3 DEF SerialInv, OwnEntry, Writing
    <3>2. EntryOf(r, status) # NoEntry
      BY <2>T, <2>3, ListingKeeps
    <3>4. /\ EntryOf(r, status).epoch = EntryOf(r, "reserved").epoch
          /\ EntryOf(r, status).candidate = EntryOf(r, "reserved").candidate
          /\ EntryOf(r, "reserved").status = "reserved"
      BY DEF EntryOf
    <3>3. /\ ledger.epochs \subseteq ledger'.epochs
          /\ ledger'.runs[r] = EntryOf(r, status)
          /\ \A q \in Runs \ {r} : ledger'.runs[q] = ledger.runs[q]
      BY <2>T, <2>3, WriteSerial
    <3> QED
      BY <3>1, <3>2, <3>3, <3>4
  <2> HIDE DEF Grows
  <2> QED
    BY <2>1, <2>2, <2>3
<1> QED
  BY <1>1, Invariance, SerialInvariance, PTL DEF Spec, LedgerGrows

(* One command at a time, neither a pending freeze nor an attempt is lost. *)
THEOREM NothingForgotten == ASSUME ~Overlap PROVE Spec => NothingIsForgotten
<1>1. Spec => FreezeStays
  BY FreezesStay
<1>2. Spec => LedgerGrows
  BY LedgerNeverShrinks
<1> QED
  BY <1>1, <1>2 DEF NothingIsForgotten

-----------------------------------------------------------------------------
(* The refinement of EvaluationBudget, while commands do not overlap *)

(* No attempts are listed as the empty sequence. *)
LEMMA SetToSeqEmpty == SetToSeq({}) = << >>
<1>1. Cardinality({}) = 0
  BY FS_EmptySet
<1>2. << >> \in [1..0 -> {}] /\ IsInjective(<< >>)
  BY DEF IsInjective
<1>3. \A f \in [1..0 -> {}] : f = << >>
  OBVIOUS
<1> QED
  BY <1>1, <1>2, <1>3 DEF SetToSeq

(* One attempt is listed as a sequence of one. *)
LEMMA SetToSeqSingle == ASSUME NEW r PROVE SetToSeq({r}) = <<r>>
<1>1. Cardinality({r}) = 1
  BY FS_Singleton
<1>2. <<r>> \in [1..1 -> {r}] /\ IsInjective(<<r>>)
  BY DEF IsInjective
<1>3. \A f \in [1..1 -> {r}] : f = <<r>>
  OBVIOUS
<1> QED
  BY <1>1, <1>2, <1>3 DEF SetToSeq

(* The initial state maps to an initial state of the abstract budget. *)
LEMMA PromiseInit == Init => Promise!Init
<1> SUFFICES ASSUME Init PROVE Promise!Init
  OBVIOUS
<1>1. \A s \in Subjects : AttemptsOn(s) = {}
  BY DEF Init, EmptyLedger, AttemptsOn
<1>2. [s \in Subjects |-> SetToSeq(AttemptsOn(s))] = [s \in Subjects |-> << >>]
  BY <1>1, SetToSeqEmpty
<1> QED
  BY <1>2 DEF Init, Promise!Init

(* A run's write either lists an attempt nobody else spent, or changes its *)
(* own entry in place.                                                     *)
LEMMA WriteAttempts ==
  ASSUME Typed, SerialInv, NEW r \in Runs, pc[r] \in Critical \ {"leaving"},
         NEW status \in {"reserved", "complete", "incomplete"}, ledger' = Listing(r, status)
  PROVE  \/ \A s \in Subjects : AttemptsOn(s)' = AttemptsOn(s)
         \/ \E s \in Subjects :
               /\ AttemptsOn(s) = {} /\ AttemptsOn(s)' = {r}
               /\ \A t \in Subjects \ {s} : AttemptsOn(t)' = AttemptsOn(t)
<1> DEFINE mine == <<corp[r].epoch, frz[r].candidate>>
<1>1. mine \in Subjects
  <2>1. corp[r] \in Corpora /\ frz[r] \in Freeze
    BY DEF Typed, TypeOK, HoldsFreeze, Proc
  <2> QED
    BY <2>1 DEF Subjects, Epochs, Freeze
<1>2. /\ \A q \in Runs \ {r} : ledger'.runs[q] = ledger.runs[q]
      /\ ledger'.runs[r] = EntryOf(r, status)
  BY WriteSerial
<1>3. EntryOf(r, status) # NoEntry
  BY ListingKeeps
<1>4. PICK s \in Subjects : s = mine
  BY <1>1
<1>5. /\ EntryOf(r, status).epoch = s[1] /\ EntryOf(r, status).candidate = s[2]
      /\ EntryOf(r, "reserved").epoch = s[1] /\ EntryOf(r, "reserved").candidate = s[2]
  BY <1>4 DEF EntryOf
<1>6. ledger.runs[r] \in {NoEntry, EntryOf(r, "reserved")}
  BY DEF SerialInv, OwnEntry, Writing
<1>7. ASSUME ledger.runs[r] # NoEntry PROVE \A t \in Subjects : AttemptsOn(t)' = AttemptsOn(t)
  BY <1>2, <1>3, <1>5, <1>6, <1>7 DEF AttemptsOn
<1>8. ASSUME ledger.runs[r] = NoEntry
      PROVE  /\ AttemptsOn(s) = {} /\ AttemptsOn(s)' = {r}
             /\ \A t \in Subjects \ {s} : AttemptsOn(t)' = AttemptsOn(t)
  <2>1. AttemptFree(ledger, r)
    BY <1>8 DEF SerialInv, CopyIsLedger, Writing
  <2>2. AttemptsOn(s) = {}
    BY <1>4, <1>8, <2>1 DEF AttemptsOn, AttemptFree
  <2>3. AttemptsOn(s)' = {r}
    BY <1>2, <1>3, <1>5, <2>2 DEF AttemptsOn
  <2>4. \A t \in Subjects : t = <<t[1], t[2]>>
    BY DEF Subjects
  <2>5. ASSUME NEW t \in Subjects \ {s} PROVE AttemptsOn(t)' = AttemptsOn(t)
    <3>1. ~(s[1] = t[1] /\ s[2] = t[2])
      BY <2>4, <2>5
    <3> QED
      BY <1>2, <1>5, <1>8, <3>1 DEF AttemptsOn
  <2> QED
    BY <2>2, <2>3, <2>5
<1> QED
  BY <1>7, <1>8

(* The only attempt in a list of one.                                      *)
LEMMA RangeSingle == ASSUME NEW r PROVE r \in Promise!Range(<<r>>)
<1>1. 1 \in DOMAIN <<r>> /\ <<r>>[1] = r
  OBVIOUS
<1> QED
  BY <1>1 DEF Promise!Range

(* A step of Blind is a step of the promise or changes nothing it sees.    *)
LEMMA PromiseStep == ~Overlap /\ IInv /\ SerialInv /\ [Next]_vars => [Promise!Next]_(Promise!vars)
<1> SUFFICES ASSUME ~Overlap, IInv, SerialInv, [Next]_vars PROVE [Promise!Next]_(Promise!vars)
  OBVIOUS
<1> DEFINE res == [s \in Subjects |-> SetToSeq(AttemptsOn(s))]
           opn == {<<e.run, <<e.corpus.epoch, e.candidate>> >> : e \in evaluated}
<1>T. Typed
  BY DEF IInv
<1>1. ASSUME UNCHANGED <<ledger, evaluated>> PROVE UNCHANGED Promise!vars
  <2>1. res' = res
    BY <1>1 DEF AttemptsOn
  <2>2. opn' = opn
    BY <1>1
  <2> QED
    BY <2>1, <2>2 DEF Promise!vars
<1>2. ASSUME NEW r \in Runs, NEW status \in {"reserved", "complete", "incomplete"},
             pc[r] \in Critical \ {"leaving"}, ledger' = Listing(r, status), evaluated' = evaluated
      PROVE  [Promise!Next]_(Promise!vars)
  <2>1. CASE \A s \in Subjects : AttemptsOn(s)' = AttemptsOn(s)
    <3>1. res' = res /\ opn' = opn
      BY <1>2, <2>1
    <3> QED
      BY <3>1 DEF Promise!vars
  <2>2. ASSUME NEW s \in Subjects, AttemptsOn(s) = {}, AttemptsOn(s)' = {r},
               \A t \in Subjects \ {s} : AttemptsOn(t)' = AttemptsOn(t)
        PROVE  Promise!Reserve(s, r)
    <3>1. res[s] = << >> /\ res'[s] = <<r>>
      BY <2>2, SetToSeqEmpty, SetToSeqSingle
    <3>2. \A t \in Subjects \ {s} : res'[t] = res[t]
      BY <2>2
    <3>3. res' = [res EXCEPT ![s] = Append(@, r)]
      <4>1. res = [t \in Subjects |-> res[t]] /\ res' = [t \in Subjects |-> res'[t]]
        OBVIOUS
      <4>2. Append(res[s], r) = <<r>>
        BY <3>1
      <4> HIDE DEF res
      <4> QED
        BY <3>1, <3>2, <4>1, <4>2
    <3>4. opn' = opn
      BY <1>2
    <3>5. Len(res[s]) < 1
      BY <3>1
    <3> HIDE DEF res, opn
    <3> QED
      BY <3>3, <3>4, <3>5 DEF Promise!Reserve, res, opn
  <2> QED
    BY <1>2, <1>T, <2>1, <2>2, WriteAttempts DEF Promise!Next
<1>3. ASSUME NEW r \in Runs, Scan(r) PROVE [Promise!Next]_(Promise!vars)
  <2> DEFINE mine == <<corp[r].epoch, frz[r].candidate>>
  <2>1. /\ ledger' = ledger
        /\ evaluated' = evaluated \cup {[run |-> r, corpus |-> corp[r], candidate |-> frz[r].candidate]}
    BY <1>3 DEF Scan, files
  <2>2. mine \in Subjects
    <3>1. corp[r] \in Corpora /\ frz[r] \in Freeze
      BY <1>3, <1>T DEF Scan, Typed, TypeOK, HoldsFreeze, Proc, Critical
    <3> QED
      BY <3>1 DEF Subjects, Epochs, Freeze
  <2>3. r \in AttemptsOn(mine)
    <3>1. ledger.runs[r] = EntryOf(r, "reserved") /\ EntryOf(r, "reserved") # NoEntry
      BY <1>3, <1>T, ListingKeeps DEF Scan, SerialInv, OwnEntry, Listed, Critical
    <3> QED
      BY <3>1 DEF AttemptsOn, EntryOf
  <2>4. AttemptsOn(mine) = {r}
    BY <2>3 DEF AttemptsOn, SerialInv, Consistent
  <2>5. res' = res
    BY <2>1 DEF AttemptsOn
  <2>6. opn' = opn \cup {<<r, mine>>}
    <3> DEFINE seen(e) == <<e.run, <<e.corpus.epoch, e.candidate>> >>
               new == [run |-> r, corpus |-> corp[r], candidate |-> frz[r].candidate]
    <3>1. seen(new) = <<r, mine>> /\ evaluated' = evaluated \cup {new}
      BY <2>1
    <3> HIDE DEF seen, new, mine
    <3>2. {seen(e) : e \in evaluated'} = {seen(e) : e \in evaluated} \cup {<<r, mine>>}
      BY <3>1
    <3> QED
      BY <3>2 DEF seen
  <2>7. res[mine] = <<r>>
    BY <2>2, <2>4, SetToSeqSingle
  <2>8. r \in Promise!Range(res[mine])
    <3> HIDE DEF res, mine
    <3> QED
      BY <2>7, RangeSingle
  <2>9. Promise!Open(mine, r)
    <3> HIDE DEF res, opn, mine
    <3> QED
      BY <2>5, <2>6, <2>8 DEF Promise!Open, res, opn
  <2> QED
    BY <2>2, <2>9 DEF Promise!Next
<1>4. \/ UNCHANGED <<ledger, evaluated>>
      \/ \E r \in Runs : Scan(r)
      \/ \E r \in Runs : \E status \in {"reserved", "complete", "incomplete"} :
            pc[r] \in Critical \ {"leaving"} /\ ledger' = Listing(r, status) /\ evaluated' = evaluated
  BY <1>T DEF Next, FreezeStep, FreezeReadCorpus, FreezeReadLedger, FreezeResolve,
     FreezeWrite, RunStep, ReadFreeze,
     RecheckCorpus, RecheckCandidate, ReadLedger, TakeLock, Reserve, ConsumeFreeze,
     StageFixtures, RecheckAfterScan,
     KeepAggregate, Release, RecordStatus, Fail, Abort, Leave, Crash, RemoveStaleLock,
     EditCorpus, Rebuild, vars, files,
     Typed, TypeOK, Proc, Critical
<1> QED
  BY <1>1, <1>2, <1>3, <1>4

(* While commands do not overlap, every behaviour of the blind commands is *)
(* one of the abstract budget of one attempt for each candidate on each    *)
(* epoch.                                                                  *)
THEOREM Refinement == ASSUME ~Overlap PROVE Spec => KeepsPromise
<1>1. IInv /\ SerialInv /\ [Next]_vars => [Promise!Next]_(Promise!vars)
  BY PromiseStep
<1> QED
  BY <1>1, PromiseInit, Invariance, SerialInvariance, PTL DEF Spec, KeepsPromise, Promise!Spec

-----------------------------------------------------------------------------
(* The safety half of LockReleased: a lock that is taken belongs to a run  *)
(* that is past it, whose finally removes it, or to one that crashed       *)
(* there; no run that refused, failed or ended leaves one behind, however  *)
(* commands overlap.                                                       *)
LockIsOwned == lock # Nobody => pc[lock] \in Critical \cup {"crashed"}

LEMMA StepOwned == TypeOK /\ LockIsOwned /\ [Next]_vars => LockIsOwned'
<1> SUFFICES ASSUME TypeOK, LockIsOwned, [Next]_vars PROVE LockIsOwned'
  OBVIOUS
<1> USE ProcAssumption
    DEF TypeOK, LockIsOwned, Proc, Alive, Freezing, BeforeLock, Critical, Goto, files
<1>1. ASSUME NEW f \in Freezers, FreezeStep(f) PROVE LockIsOwned'
  BY <1>1 DEF FreezeStep, FreezeReadCorpus, FreezeReadLedger, FreezeResolve, FreezeWrite
<1>2. ASSUME NEW r \in Runs, ReadFreeze(r) \/ RunStep(r) PROVE LockIsOwned'
  BY <1>2 DEF ReadFreeze, RunStep, RecheckCorpus, RecheckCandidate, ReadLedger, TakeLock,
     Reserve, ConsumeFreeze, StageFixtures, Scan, RecheckAfterScan, KeepAggregate, Release,
     RecordStatus, Fail, Abort, Leave
<1>3. CASE \/ \E p \in Proc : Crash(p)
           \/ RemoveStaleLock \/ EditCorpus \/ Rebuild \/ UNCHANGED vars
  BY <1>3 DEF Crash, RemoveStaleLock, EditCorpus, Rebuild, vars
<1> QED
  BY <1>1, <1>2, <1>3 DEF Next

(* No lock is left behind, but by a crash.                                 *)
THEOREM LockHasOwner == Spec => []LockIsOwned
<1>1. Init => LockIsOwned
  BY DEF Init, LockIsOwned
<1> QED
  BY <1>1, StepOwned, TypeCorrect, PTL DEF Spec

=============================================================================
