---------------------------- MODULE HoldoutProofs ----------------------------
(***************************************************************************)
(* Proofs about Holdout, for any number of runs and contaminations, any    *)
(* budget the manifest allows and any number of upgrades.                  *)
(*                                                                         *)
(* The inductive invariant says what each program point knows: a process   *)
(* past the lock owns it, so the copy of state.json it will write back is  *)
(* still what the file holds; the custodian's verdict on a stale lock      *)
(* stays true until the lock is removed; and a run is on record from the   *)
(* moment it is past its reservation.                                      *)
(***************************************************************************)
EXTENDS Holdout, FiniteSetTheorems, TLAPS

(* Runs past their reservation, and past their plan. *)
PastReserve == {"reserved", "planned", "opened", "scanned", "evaluated"}
PastPlan == {"planned", "opened", "scanned", "evaluated"}

(* A verified lock is still the stale one: its owner is dead for good.     *)
StaleStaysStale == verified # Nobody => lock = verified /\ pc[verified] = "crashed"

(* The copy a process is about to write back is not stale, and for a run   *)
(* it has passed the two checks.                                           *)
CopyIsCurrent ==
    /\ \A p \in Proc : pc[p] = "admitted" => mem[p] = state
    /\ \A r \in Runners : pc[r] = "admitted" => Admissible(state)

(* A run not yet past its reservation is not on record.                    *)
NotYetReserved ==
    \A r \in Runners :
        pc[r] \in {"idle", "preflight", "ready", "locked", "admitted"} => r \notin Reserved

(* A run past its reservation is on record, in a corpus still sealed.      *)
ReservedOnRecord ==
    \A r \in Runners : pc[r] \in PastReserve => r \in Reserved /\ state.status = "sealed"

(* A run past its plan has written it.                                     *)
PlanOnDisk == \A r \in Runners : pc[r] \in PastPlan => r \in plans

(* Builds only go up, so a run that still finds its frozen build installed *)
(* after the scan has scanned with it.                                     *)
BuildsInOrder ==
    \A r \in Runners :
        /\ frozen[r] <= installed
        /\ pc[r] = "scanned" => frozen[r] <= measured[r] /\ measured[r] <= installed
        /\ pc[r] = "evaluated" /\ verdict[r] = "complete" => measured[r] = frozen[r]

(* A written report belongs to a run that has left the scan behind.        *)
ReportIsLast == \A r \in Runners : report[r] # "none" => pc[r] \in {"unlocking", "done", "crashed"}

(* What is on record, and for whom.                                        *)
RecordInv ==
    /\ NotYetReserved
    /\ ReservedOnRecord
    /\ PlanOnDisk
    /\ BudgetNeverExceeded
    /\ OpenedAreReserved
    /\ ReservedOnce

(* What a report was measured with.                                        *)
MeasuredInv == BuildsInOrder /\ ReportIsLast /\ CompleteMeasuredFrozen

(* The inductive invariant.                                                *)
IInv ==
    /\ TypeOK
    /\ LockExcludes
    /\ StaleStaysStale
    /\ CopyIsCurrent
    /\ RecordInv
    /\ MeasuredInv

-----------------------------------------------------------------------------
(* Type correctness *)

(* The initial state is typed. *)
LEMMA InitTyped == Init => TypeOK
  BY ProcAssumption, MaxBuildAssumption DEF Init, Sealed, TypeOK, StateFile, Statuses,
     Proc, Steps, Alive, Ended, Critical, Goto, store, locals

(* Every step keeps the types, one action at a time. *)
LEMMA StepTyped == TypeOK /\ [Next]_vars => TypeOK'
<1> SUFFICES ASSUME TypeOK, [Next]_vars PROVE TypeOK'
  OBVIOUS
<1> USE DEF TypeOK, StateFile, Statuses, Proc, Steps, Alive, Ended, Critical, Goto, store, locals
<1>1. ASSUME NEW r \in Runners, Snapshot(r) PROVE TypeOK'
  BY <1>1 DEF Snapshot
<1>2. ASSUME NEW r \in Runners, Preflight(r) PROVE TypeOK'
  BY <1>2 DEF Preflight
<1>3. ASSUME NEW r \in Runners, ReadState(r) PROVE TypeOK'
  BY <1>3 DEF ReadState
<1>4. ASSUME NEW r \in Runners, Reserve(r) PROVE TypeOK'
  <2>1. mem[r].runs \in Seq(Runners) /\ mem[r].status \in Statuses
    BY <1>4
  <2>2. Append(mem[r].runs, r) \in Seq(Runners)
    BY <2>1
  <2>3. mem[r] = [status |-> mem[r].status, runs |-> mem[r].runs]
    BY <1>4
  <2>4. state' = [status |-> mem[r].status, runs |-> Append(mem[r].runs, r)]
    BY <1>4, <2>3 DEF Reserve
  <2>5. state' \in StateFile
    BY <2>1, <2>2, <2>4
  <2> QED
    BY <1>4, <2>5 DEF Reserve
<1>5. ASSUME NEW r \in Runners, WritePlan(r) PROVE TypeOK'
  BY <1>5 DEF WritePlan
<1>6. ASSUME NEW r \in Runners, OpenCorpus(r) PROVE TypeOK'
  BY <1>6 DEF OpenCorpus
<1>7. ASSUME NEW r \in Runners, Scan(r) PROVE TypeOK'
  BY <1>7 DEF Scan
<1>8. ASSUME NEW r \in Runners, VerifyCandidate(r) PROVE TypeOK'
  BY <1>8 DEF VerifyCandidate
<1>9. ASSUME NEW r \in Runners, WriteAggregate(r) PROVE TypeOK'
  BY <1>9 DEF WriteAggregate
<1>10. ASSUME NEW c \in Contaminators, BeginContamination(c) PROVE TypeOK'
  BY <1>10 DEF BeginContamination
<1>11. ASSUME NEW c \in Contaminators, ReadStateToContaminate(c) PROVE TypeOK'
  BY <1>11 DEF ReadStateToContaminate
<1>12. ASSUME NEW c \in Contaminators, Contaminate(c) PROVE TypeOK'
  BY <1>12 DEF Contaminate
<1>13. ASSUME NEW p \in Proc, TakeLock(p) PROVE TypeOK'
  BY <1>13 DEF TakeLock
<1>14. ASSUME NEW p \in Proc, Fail(p) PROVE TypeOK'
  BY <1>14 DEF Fail
<1>15. ASSUME NEW p \in Proc, Unlock(p) PROVE TypeOK'
  BY <1>15 DEF Unlock
<1>16. ASSUME NEW p \in Proc, Crash(p) PROVE TypeOK'
  BY <1>16 DEF Crash
<1>17. CASE VerifyStale
  BY <1>17 DEF VerifyStale
<1>18. CASE RemoveStaleLock
  BY <1>18 DEF RemoveStaleLock
<1>19. CASE Upgrade
  BY <1>19, MaxBuildAssumption DEF Upgrade
<1>20. CASE UNCHANGED vars
  BY <1>20 DEF vars
<1> QED
  BY <1>1, <1>2, <1>3, <1>4, <1>5, <1>6, <1>7, <1>8, <1>9, <1>10, <1>11, <1>12, <1>13,
     <1>14, <1>15, <1>16, <1>17, <1>18, <1>19, <1>20 DEF Next, RunStep, ContaminateStep,
     Ending, Custodian

-----------------------------------------------------------------------------
(* Mutual exclusion *)

(* No step breaks the lock, nor the verdict of a custodian about to remove *)
(* it.                                                                     *)
LEMMA StepLocked ==
    TypeOK /\ LockExcludes /\ StaleStaysStale /\ [Next]_vars
        => LockExcludes' /\ StaleStaysStale'
<1> SUFFICES ASSUME TypeOK, LockExcludes, StaleStaysStale, [Next]_vars
             PROVE  LockExcludes' /\ StaleStaysStale'
  OBVIOUS
<1> USE ProcAssumption DEF TypeOK, Proc, Critical, Goto, store, locals, LockExcludes, StaleStaysStale
<1>1. ASSUME NEW r \in Runners, Snapshot(r) PROVE LockExcludes' /\ StaleStaysStale'
  BY <1>1 DEF Snapshot
<1>2. ASSUME NEW r \in Runners, Preflight(r) PROVE LockExcludes' /\ StaleStaysStale'
  BY <1>2 DEF Preflight
<1>3. ASSUME NEW r \in Runners, ReadState(r) PROVE LockExcludes' /\ StaleStaysStale'
  BY <1>3 DEF ReadState
<1>4. ASSUME NEW r \in Runners, Reserve(r) PROVE LockExcludes' /\ StaleStaysStale'
  BY <1>4 DEF Reserve
<1>5. ASSUME NEW r \in Runners, WritePlan(r) PROVE LockExcludes' /\ StaleStaysStale'
  BY <1>5 DEF WritePlan
<1>6. ASSUME NEW r \in Runners, OpenCorpus(r) PROVE LockExcludes' /\ StaleStaysStale'
  BY <1>6 DEF OpenCorpus
<1>7. ASSUME NEW r \in Runners, Scan(r) PROVE LockExcludes' /\ StaleStaysStale'
  BY <1>7 DEF Scan
<1>8. ASSUME NEW r \in Runners, VerifyCandidate(r) PROVE LockExcludes' /\ StaleStaysStale'
  BY <1>8 DEF VerifyCandidate
<1>9. ASSUME NEW r \in Runners, WriteAggregate(r) PROVE LockExcludes' /\ StaleStaysStale'
  BY <1>9 DEF WriteAggregate
<1>10. ASSUME NEW c \in Contaminators, BeginContamination(c)
       PROVE LockExcludes' /\ StaleStaysStale'
  BY <1>10 DEF BeginContamination
<1>11. ASSUME NEW c \in Contaminators, ReadStateToContaminate(c)
       PROVE LockExcludes' /\ StaleStaysStale'
  BY <1>11 DEF ReadStateToContaminate
<1>12. ASSUME NEW c \in Contaminators, Contaminate(c) PROVE LockExcludes' /\ StaleStaysStale'
  BY <1>12 DEF Contaminate
<1>13. ASSUME NEW p \in Proc, TakeLock(p) PROVE LockExcludes' /\ StaleStaysStale'
  BY <1>13 DEF TakeLock
<1>14. ASSUME NEW p \in Proc, Fail(p) PROVE LockExcludes' /\ StaleStaysStale'
  BY <1>14 DEF Fail
<1>15. ASSUME NEW p \in Proc, Unlock(p) PROVE LockExcludes' /\ StaleStaysStale'
  BY <1>15 DEF Unlock
<1>16. ASSUME NEW p \in Proc, Crash(p) PROVE LockExcludes' /\ StaleStaysStale'
  BY <1>16 DEF Crash
<1>17. CASE VerifyStale
  BY <1>17 DEF VerifyStale
<1>18. CASE RemoveStaleLock
  BY <1>18 DEF RemoveStaleLock
<1>19. CASE Upgrade
  BY <1>19 DEF Upgrade
<1>20. CASE UNCHANGED vars
  BY <1>20 DEF vars
<1> QED
  BY <1>1, <1>2, <1>3, <1>4, <1>5, <1>6, <1>7, <1>8, <1>9, <1>10, <1>11, <1>12, <1>13,
     <1>14, <1>15, <1>16, <1>17, <1>18, <1>19, <1>20 DEF Next, RunStep, ContaminateStep,
     Ending, Custodian

-----------------------------------------------------------------------------
(* Sequences of reservations *)

(* What appending one element does to a sequence: its length, its elements *)
(* and its range.                                                          *)
LEMMA AppendFacts ==
    ASSUME NEW S, NEW q \in Seq(S), NEW e \in S
    PROVE  /\ Len(Append(q, e)) = Len(q) + 1
           /\ Range(Append(q, e)) = Range(q) \cup {e}
           /\ KeepsPrefix(q, Append(q, e))
           /\ IsInjective(q) /\ e \notin Range(q) => IsInjective(Append(q, e))
<1>1. /\ Len(Append(q, e)) = Len(q) + 1
      /\ DOMAIN Append(q, e) = 1..(Len(q) + 1)
      /\ DOMAIN q = 1..Len(q)
      /\ Len(q) \in Nat
  OBVIOUS
<1>2. /\ \A i \in 1..Len(q) : Append(q, e)[i] = q[i]
      /\ Append(q, e)[Len(q) + 1] = e
  OBVIOUS
<1>3. 1..(Len(q) + 1) = (1..Len(q)) \cup {Len(q) + 1}
  BY <1>1
<1>4. Range(Append(q, e)) = Range(q) \cup {e}
  BY <1>1, <1>2, <1>3 DEF Range
<1>5. KeepsPrefix(q, Append(q, e))
  BY <1>1, <1>2 DEF KeepsPrefix
<1>6. IsInjective(q) /\ e \notin Range(q) => IsInjective(Append(q, e))
  BY <1>1, <1>2, <1>3 DEF IsInjective, Range
<1> QED
  BY <1>1, <1>4, <1>5, <1>6

-----------------------------------------------------------------------------
(* The copy written back is the current one *)

(* The copy of state.json a process will write back stays current, because *)
(* only the holder of the lock writes the file.                            *)
LEMMA StepCopied ==
    TypeOK /\ LockExcludes /\ CopyIsCurrent /\ [Next]_vars => CopyIsCurrent'
<1> SUFFICES ASSUME TypeOK, LockExcludes, CopyIsCurrent, [Next]_vars
             PROVE  CopyIsCurrent'
  OBVIOUS
<1> USE ProcAssumption DEF TypeOK, Proc, Critical, Goto, store, locals, LockExcludes, CopyIsCurrent
<1>1. ASSUME NEW r \in Runners, Snapshot(r) PROVE CopyIsCurrent'
  BY <1>1 DEF Snapshot
<1>2. ASSUME NEW r \in Runners, Preflight(r) PROVE CopyIsCurrent'
  BY <1>2 DEF Preflight
<1>3. ASSUME NEW r \in Runners, ReadState(r) PROVE CopyIsCurrent'
  BY <1>3 DEF ReadState
<1>4. ASSUME NEW r \in Runners, Reserve(r) PROVE CopyIsCurrent'
  BY <1>4 DEF Reserve, Contaminate
<1>5. ASSUME NEW r \in Runners, WritePlan(r) PROVE CopyIsCurrent'
  BY <1>5 DEF WritePlan
<1>6. ASSUME NEW r \in Runners, OpenCorpus(r) PROVE CopyIsCurrent'
  BY <1>6 DEF OpenCorpus
<1>7. ASSUME NEW r \in Runners, Scan(r) PROVE CopyIsCurrent'
  BY <1>7 DEF Scan
<1>8. ASSUME NEW r \in Runners, VerifyCandidate(r) PROVE CopyIsCurrent'
  BY <1>8 DEF VerifyCandidate
<1>9. ASSUME NEW r \in Runners, WriteAggregate(r) PROVE CopyIsCurrent'
  BY <1>9 DEF WriteAggregate
<1>10. ASSUME NEW c \in Contaminators, BeginContamination(c) PROVE CopyIsCurrent'
  BY <1>10 DEF BeginContamination
<1>11. ASSUME NEW c \in Contaminators, ReadStateToContaminate(c) PROVE CopyIsCurrent'
  BY <1>11 DEF ReadStateToContaminate
<1>12. ASSUME NEW c \in Contaminators, Contaminate(c) PROVE CopyIsCurrent'
  BY <1>12 DEF Contaminate
<1>13. ASSUME NEW p \in Proc, TakeLock(p) PROVE CopyIsCurrent'
  BY <1>13 DEF TakeLock
<1>14. ASSUME NEW p \in Proc, Fail(p) PROVE CopyIsCurrent'
  BY <1>14 DEF Fail
<1>15. ASSUME NEW p \in Proc, Unlock(p) PROVE CopyIsCurrent'
  BY <1>15 DEF Unlock
<1>16. ASSUME NEW p \in Proc, Crash(p) PROVE CopyIsCurrent'
  BY <1>16 DEF Crash
<1>17. CASE VerifyStale
  BY <1>17 DEF VerifyStale
<1>18. CASE RemoveStaleLock
  BY <1>18 DEF RemoveStaleLock
<1>19. CASE Upgrade
  BY <1>19 DEF Upgrade
<1>20. CASE UNCHANGED vars
  BY <1>20 DEF vars
<1> QED
  BY <1>1, <1>2, <1>3, <1>4, <1>5, <1>6, <1>7, <1>8, <1>9, <1>10, <1>11, <1>12, <1>13,
     <1>14, <1>15, <1>16, <1>17, <1>18, <1>19, <1>20 DEF Next, RunStep, ContaminateStep,
     Ending, Custodian

(* What the two writers of state.json do to it, given that.                *)
LEMMA ReserveEffect ==
    ASSUME TypeOK, CopyIsCurrent, NEW r \in Runners, Reserve(r)
    PROVE  /\ state'.runs = Append(state.runs, r)
           /\ state'.status = "sealed"
           /\ state.status = "sealed"
           /\ state.runs \in Seq(Runners)
           /\ Len(state.runs) < MaxRuns
  BY DEF TypeOK, StateFile, CopyIsCurrent, Reserve, Admissible, Proc

(* What writing a contaminated state changes. *)
LEMMA ContaminateEffect ==
    ASSUME TypeOK, CopyIsCurrent, NEW c \in Contaminators, Contaminate(c)
    PROVE  /\ state'.runs = state.runs
           /\ state'.status = "contaminated"
           /\ state.runs \in Seq(Runners)
  BY DEF TypeOK, StateFile, CopyIsCurrent, Contaminate, Proc

-----------------------------------------------------------------------------
(* The record of reservations *)

(* Reservations stay within the budget and cover every run past them. *)
LEMMA StepRecorded ==
    TypeOK /\ LockExcludes /\ CopyIsCurrent /\ RecordInv /\ [Next]_vars => RecordInv'
<1> SUFFICES ASSUME TypeOK, LockExcludes, CopyIsCurrent, RecordInv, [Next]_vars
             PROVE  RecordInv'
  OBVIOUS
<1> USE DEF TypeOK, Proc, Critical, Goto, store, locals, PastReserve, PastPlan, RecordInv
<1>1. ASSUME NEW r \in Runners, Snapshot(r) PROVE RecordInv'
  BY <1>1 DEF Snapshot, NotYetReserved, ReservedOnRecord, PlanOnDisk, BudgetNeverExceeded,
     OpenedAreReserved, ReservedOnce, Reserved
<1>2. ASSUME NEW r \in Runners, Preflight(r) PROVE RecordInv'
  BY <1>2 DEF Preflight, NotYetReserved, ReservedOnRecord, PlanOnDisk, BudgetNeverExceeded,
     OpenedAreReserved, ReservedOnce, Reserved
<1>3. ASSUME NEW r \in Runners, ReadState(r) PROVE RecordInv'
  BY <1>3 DEF ReadState, NotYetReserved, ReservedOnRecord, PlanOnDisk, BudgetNeverExceeded,
     OpenedAreReserved, ReservedOnce, Reserved
<1>4. ASSUME NEW r \in Runners, Reserve(r) PROVE RecordInv'
  <2>1. /\ state'.runs = Append(state.runs, r)
        /\ state'.status = "sealed"
        /\ state.runs \in Seq(Runners)
        /\ Len(state.runs) < MaxRuns
    BY <1>4, ReserveEffect
  <2>2. r \notin Reserved /\ r \in Proc
    BY <1>4 DEF Reserve, NotYetReserved, Proc
  <2>3. /\ Len(state'.runs) = Len(state.runs) + 1
        /\ Reserved' = Reserved \cup {r}
        /\ IsInjective(state'.runs)
    BY <2>1, <2>2, AppendFacts DEF Reserved, ReservedOnce
  <2>4. BudgetNeverExceeded'
    BY <2>1, <2>3, MaxRunsAssumption DEF ManifestBudgets, BudgetNeverExceeded
  <2>5. NotYetReserved'
    BY <1>4, <2>2, <2>3 DEF NotYetReserved, Reserve
  <2>6. ReservedOnRecord'
    BY <1>4, <2>1, <2>2, <2>3 DEF ReservedOnRecord, Reserve
  <2>7. PlanOnDisk' /\ OpenedAreReserved' /\ ReservedOnce'
    BY <1>4, <2>2, <2>3 DEF PlanOnDisk, OpenedAreReserved, ReservedOnce, Reserve
  <2> QED
    BY <2>4, <2>5, <2>6, <2>7
<1>5. ASSUME NEW r \in Runners, WritePlan(r) PROVE RecordInv'
  BY <1>5 DEF WritePlan, NotYetReserved, ReservedOnRecord, PlanOnDisk, BudgetNeverExceeded,
     OpenedAreReserved, ReservedOnce, Reserved
<1>6. ASSUME NEW r \in Runners, OpenCorpus(r) PROVE RecordInv'
  BY <1>6 DEF OpenCorpus, NotYetReserved, ReservedOnRecord, PlanOnDisk,
     BudgetNeverExceeded, OpenedAreReserved, ReservedOnce, Reserved
<1>7. ASSUME NEW r \in Runners, Scan(r) PROVE RecordInv'
  BY <1>7 DEF Scan, NotYetReserved, ReservedOnRecord, PlanOnDisk, BudgetNeverExceeded,
     OpenedAreReserved, ReservedOnce, Reserved
<1>8. ASSUME NEW r \in Runners, VerifyCandidate(r) PROVE RecordInv'
  BY <1>8 DEF VerifyCandidate, NotYetReserved, ReservedOnRecord, PlanOnDisk,
     BudgetNeverExceeded, OpenedAreReserved, ReservedOnce, Reserved
<1>9. ASSUME NEW r \in Runners, WriteAggregate(r) PROVE RecordInv'
  BY <1>9 DEF WriteAggregate, NotYetReserved, ReservedOnRecord, PlanOnDisk,
     BudgetNeverExceeded, OpenedAreReserved, ReservedOnce, Reserved
<1>10. ASSUME NEW c \in Contaminators, BeginContamination(c) PROVE RecordInv'
  BY <1>10 DEF BeginContamination, NotYetReserved, ReservedOnRecord, PlanOnDisk,
     BudgetNeverExceeded, OpenedAreReserved, ReservedOnce, Reserved
<1>11. ASSUME NEW c \in Contaminators, ReadStateToContaminate(c) PROVE RecordInv'
  BY <1>11 DEF ReadStateToContaminate, NotYetReserved, ReservedOnRecord, PlanOnDisk,
     BudgetNeverExceeded, OpenedAreReserved, ReservedOnce, Reserved
<1>12. ASSUME NEW c \in Contaminators, Contaminate(c) PROVE RecordInv'
  <2>1. state'.runs = state.runs /\ Reserved' = Reserved
    BY <1>12, ContaminateEffect DEF Reserved
  <2>2. pc[c] \in Critical /\ c \notin Runners /\ lock = c
    BY <1>12, ProcAssumption DEF Contaminate, LockExcludes
  <2>3. \A r \in Runners : pc[r] \notin PastReserve
    BY <2>2 DEF LockExcludes
  <2>4. ReservedOnRecord'
    BY <1>12, <2>2, <2>3 DEF ReservedOnRecord, Contaminate
  <2> QED
    BY <1>12, <2>1, <2>2, <2>4 DEF NotYetReserved, PlanOnDisk, BudgetNeverExceeded,
       OpenedAreReserved, ReservedOnce, Contaminate
<1>13. ASSUME NEW p \in Proc, TakeLock(p) PROVE RecordInv'
  BY <1>13 DEF TakeLock, NotYetReserved, ReservedOnRecord, PlanOnDisk, BudgetNeverExceeded,
     OpenedAreReserved, ReservedOnce, Reserved
<1>14. ASSUME NEW p \in Proc, Fail(p) PROVE RecordInv'
  BY <1>14 DEF Fail, NotYetReserved, ReservedOnRecord, PlanOnDisk, BudgetNeverExceeded,
     OpenedAreReserved, ReservedOnce, Reserved
<1>15. ASSUME NEW p \in Proc, Unlock(p) PROVE RecordInv'
  BY <1>15 DEF Unlock, NotYetReserved, ReservedOnRecord, PlanOnDisk, BudgetNeverExceeded,
     OpenedAreReserved, ReservedOnce, Reserved
<1>16. ASSUME NEW p \in Proc, Crash(p) PROVE RecordInv'
  BY <1>16 DEF Crash, NotYetReserved, ReservedOnRecord, PlanOnDisk, BudgetNeverExceeded,
     OpenedAreReserved, ReservedOnce, Reserved
<1>17. CASE VerifyStale
  BY <1>17 DEF VerifyStale, NotYetReserved, ReservedOnRecord, PlanOnDisk,
     BudgetNeverExceeded, OpenedAreReserved, ReservedOnce, Reserved
<1>18. CASE RemoveStaleLock
  BY <1>18 DEF RemoveStaleLock, NotYetReserved, ReservedOnRecord, PlanOnDisk,
     BudgetNeverExceeded, OpenedAreReserved, ReservedOnce, Reserved
<1>19. CASE Upgrade
  BY <1>19 DEF Upgrade, NotYetReserved, ReservedOnRecord, PlanOnDisk, BudgetNeverExceeded,
     OpenedAreReserved, ReservedOnce, Reserved
<1>20. CASE UNCHANGED vars
  BY <1>20 DEF vars, NotYetReserved, ReservedOnRecord, PlanOnDisk, BudgetNeverExceeded,
     OpenedAreReserved, ReservedOnce, Reserved
<1> QED
  BY <1>1, <1>2, <1>3, <1>4, <1>5, <1>6, <1>7, <1>8, <1>9, <1>10, <1>11, <1>12, <1>13,
     <1>14, <1>15, <1>16, <1>17, <1>18, <1>19, <1>20 DEF Next, RunStep, ContaminateStep,
     Ending, Custodian

-----------------------------------------------------------------------------
(* What a complete report was measured with *)

(* A report that says complete stays a report on the frozen candidate. *)
LEMMA StepMeasured == TypeOK /\ MeasuredInv /\ [Next]_vars => MeasuredInv'
<1> SUFFICES ASSUME TypeOK, MeasuredInv, [Next]_vars PROVE MeasuredInv'
  OBVIOUS
<1> USE MaxBuildAssumption DEF TypeOK, Proc, Critical, Alive, Goto, store, locals, MeasuredInv, BuildsInOrder,
        ReportIsLast, CompleteMeasuredFrozen
<1>1. ASSUME NEW r \in Runners, Snapshot(r) PROVE MeasuredInv'
  BY <1>1 DEF Snapshot
<1>2. ASSUME NEW r \in Runners, Preflight(r) PROVE MeasuredInv'
  BY <1>2 DEF Preflight
<1>3. ASSUME NEW r \in Runners, ReadState(r) PROVE MeasuredInv'
  BY <1>3 DEF ReadState
<1>4. ASSUME NEW r \in Runners, Reserve(r) PROVE MeasuredInv'
  BY <1>4 DEF Reserve
<1>5. ASSUME NEW r \in Runners, WritePlan(r) PROVE MeasuredInv'
  BY <1>5 DEF WritePlan
<1>6. ASSUME NEW r \in Runners, OpenCorpus(r) PROVE MeasuredInv'
  BY <1>6 DEF OpenCorpus
<1>7. ASSUME NEW r \in Runners, Scan(r) PROVE MeasuredInv'
  BY <1>7 DEF Scan
<1>8. ASSUME NEW r \in Runners, VerifyCandidate(r) PROVE MeasuredInv'
  BY <1>8 DEF VerifyCandidate
<1>9. ASSUME NEW r \in Runners, WriteAggregate(r) PROVE MeasuredInv'
  BY <1>9 DEF WriteAggregate
<1>10. ASSUME NEW c \in Contaminators, BeginContamination(c) PROVE MeasuredInv'
  BY <1>10 DEF BeginContamination
<1>11. ASSUME NEW c \in Contaminators, ReadStateToContaminate(c) PROVE MeasuredInv'
  BY <1>11 DEF ReadStateToContaminate
<1>12. ASSUME NEW c \in Contaminators, Contaminate(c) PROVE MeasuredInv'
  BY <1>12 DEF Contaminate
<1>13. ASSUME NEW p \in Proc, TakeLock(p) PROVE MeasuredInv'
  BY <1>13 DEF TakeLock
<1>14. ASSUME NEW p \in Proc, Fail(p) PROVE MeasuredInv'
  BY <1>14 DEF Fail
<1>15. ASSUME NEW p \in Proc, Unlock(p) PROVE MeasuredInv'
  BY <1>15 DEF Unlock
<1>16. ASSUME NEW p \in Proc, Crash(p) PROVE MeasuredInv'
  BY <1>16 DEF Crash
<1>17. CASE VerifyStale
  BY <1>17 DEF VerifyStale
<1>18. CASE RemoveStaleLock
  BY <1>18 DEF RemoveStaleLock
<1>19. CASE Upgrade
  BY <1>19 DEF Upgrade
<1>20. CASE UNCHANGED vars
  BY <1>20 DEF vars
<1> QED
  BY <1>1, <1>2, <1>3, <1>4, <1>5, <1>6, <1>7, <1>8, <1>9, <1>10, <1>11, <1>12, <1>13,
     <1>14, <1>15, <1>16, <1>17, <1>18, <1>19, <1>20 DEF Next, RunStep, ContaminateStep,
     Ending, Custodian

-----------------------------------------------------------------------------
(* The theorems *)

(* The inductive invariant holds initially. *)
LEMMA InitInv == Init => IInv
<1> SUFFICES ASSUME Init PROVE IInv
  OBVIOUS
<1>1. TypeOK
  BY InitTyped
<1>2. LockExcludes /\ StaleStaysStale /\ CopyIsCurrent
  BY DEF Init, LockExcludes, StaleStaysStale, CopyIsCurrent, Critical, Proc
<1>3. Reserved = {} /\ Len(state.runs) = 0 /\ DOMAIN state.runs = {}
  BY DEF Init, Sealed, Reserved, Range
<1>4. RecordInv
  BY <1>3, MaxRunsAssumption DEF ManifestBudgets, Init, RecordInv, NotYetReserved,
     ReservedOnRecord,
     PlanOnDisk, BudgetNeverExceeded, OpenedAreReserved, ReservedOnce, IsInjective,
     PastReserve, PastPlan, Proc
<1>5. MeasuredInv
  BY DEF Init, MeasuredInv, BuildsInOrder, ReportIsLast, CompleteMeasuredFrozen, Proc
<1> QED
  BY <1>1, <1>2, <1>4, <1>5 DEF IInv

(* The inductive invariant is preserved by every step. *)
LEMMA StepInv == IInv /\ [Next]_vars => IInv'
  BY StepTyped, StepLocked, StepCopied, StepRecorded, StepMeasured DEF IInv

(* Everything the invariant says holds in every reachable state.           *)
THEOREM Invariance == Spec => []IInv
  BY InitInv, StepInv, PTL DEF Spec

(* Every variable keeps its type: the state file always parses.            *)
THEOREM TypeCorrect == Spec => []TypeOK
<1>1. IInv => TypeOK
  BY DEF IInv
<1> QED
  BY <1>1, Invariance, PTL

(* `.lock` excludes, for any number of commands, with crashes and with a   *)
(* custodian who removes stale locks.                                      *)
THEOREM MutualExclusion == Spec => []LockExcludes
<1>1. IInv => LockExcludes
  BY DEF IInv
<1> QED
  BY <1>1, Invariance, PTL

(* No interleaving of runs, contaminations and crashes reserves more       *)
(* attempts than the manifest allows.                                      *)
THEOREM BudgetKept == Spec => []BudgetNeverExceeded
<1>1. IInv => BudgetNeverExceeded
  BY DEF IInv, RecordInv
<1> QED
  BY <1>1, Invariance, PTL

(* Whoever read the protected corpus is on record, with its plan on disk.  *)
THEOREM ReadersOnRecord == Spec => []OpenedAreReserved
<1>1. IInv => OpenedAreReserved
  BY DEF IInv, RecordInv
<1> QED
  BY <1>1, Invariance, PTL

(* A complete report was measured with the candidate the run froze.        *)
THEOREM CompleteIsFrozen == Spec => []CompleteMeasuredFrozen
<1>1. IInv => CompleteMeasuredFrozen
  BY DEF IInv, MeasuredInv
<1> QED
  BY <1>1, Invariance, PTL

-----------------------------------------------------------------------------
(* How many runs ever read the protected corpus *)

(* A sequence names at most as many runs as it has entries. *)
LEMMA RangeCardinality ==
    ASSUME NEW S, NEW q \in Seq(S)
    PROVE  IsFiniteSet(Range(q)) /\ Cardinality(Range(q)) <= Len(q)
<1>1. Len(q) \in Nat /\ DOMAIN q = 1..Len(q) /\ q \in [1..Len(q) -> S]
  OBVIOUS
<1>2. q \in Surjection(1..Len(q), Range(q))
  BY <1>1 DEF Surjection, Range
<1>3. ExistsSurjection(1..Len(q), Range(q))
  BY <1>2 DEF ExistsSurjection
<1> QED
  BY <1>1, <1>3, FS_NatSurjection, FS_SurjCardinalityBound

(* At most MaxRuns runs ever read the protected corpus.                    *)
THEOREM ReadersBounded == Spec => []ReadersWithinBudget
<1>1. IInv => ReadersWithinBudget
  <2> SUFFICES ASSUME IInv PROVE ReadersWithinBudget
    OBVIOUS
  <2>1. state.runs \in Seq(Runners) /\ Len(state.runs) \in Nat
    BY DEF IInv, TypeOK, StateFile
  <2>2. opened \subseteq Range(state.runs) /\ Len(state.runs) <= MaxRuns
    BY DEF IInv, RecordInv, OpenedAreReserved, BudgetNeverExceeded, Reserved
  <2>3. IsFiniteSet(Range(state.runs)) /\ Cardinality(Range(state.runs)) <= Len(state.runs)
    BY <2>1, RangeCardinality
  <2>4. /\ IsFiniteSet(opened)
        /\ Cardinality(opened) <= Cardinality(Range(state.runs))
    BY <2>2, <2>3, FS_Subset
  <2>5. Cardinality(opened) \in Nat /\ Cardinality(Range(state.runs)) \in Nat
    BY <2>3, <2>4, FS_CardinalityType
  <2> QED
    BY <2>1, <2>2, <2>3, <2>4, <2>5, MaxRunsAssumption DEF ManifestBudgets, ReadersWithinBudget
<1> QED
  BY <1>1, Invariance, PTL

(* The budget of a protected corpus holds: on record, for its readers, and *)
(* with every reader on record once.                                       *)
THEOREM BudgetIsKept == Spec => []BudgetHolds
<1>1. IInv => ReservedOnce
  BY DEF IInv, RecordInv
<1>2. BudgetNeverExceeded /\ ReadersWithinBudget /\ OpenedAreReserved /\ ReservedOnce
      => BudgetHolds
  BY DEF BudgetHolds
<1> QED
  BY <1>1, <1>2, Invariance, BudgetKept, ReadersBounded, ReadersOnRecord, PTL

-----------------------------------------------------------------------------
(* What a step may do to the state file *)

(* Only a reservation and a contamination write state.json, and only a run *)
(* that has reserved opens the corpus.                                     *)
LEMMA StepEffect ==
    ASSUME TypeOK, [Next]_vars
    PROVE  \/ \E r \in Runners : Reserve(r)
           \/ \E c \in Contaminators : Contaminate(c)
           \/ \E r \in Runners : OpenCorpus(r)
           \/ UNCHANGED <<state, opened>>
  BY DEF Next, RunStep, ContaminateStep, Ending, Custodian, vars, store, locals,
     Snapshot, Preflight, ReadState, WritePlan, Scan, VerifyCandidate,
     WriteAggregate, BeginContamination, ReadStateToContaminate, TakeLock, Fail,
     Unlock, Crash, VerifyStale, RemoveStaleLock, Upgrade

(* No reservation is ever lost, reordered or overwritten.                  *)
THEOREM ReservationsNeverLost == Spec => ReservationsKept
<1>1. IInv /\ [Next]_vars => KeepsPrefix(state.runs, state'.runs)
  <2> SUFFICES ASSUME IInv, [Next]_vars PROVE KeepsPrefix(state.runs, state'.runs)
    OBVIOUS
  <2>1. TypeOK /\ CopyIsCurrent /\ state.runs \in Seq(Runners)
    BY DEF IInv, TypeOK, StateFile
  <2>2. KeepsPrefix(state.runs, state.runs)
    BY <2>1 DEF KeepsPrefix
  <2>3. ASSUME NEW r \in Runners, Reserve(r)
        PROVE  KeepsPrefix(state.runs, state'.runs)
    <3>1. state'.runs = Append(state.runs, r)
      BY <2>1, <2>3, ReserveEffect
    <3>2. KeepsPrefix(state.runs, Append(state.runs, r))
      BY <2>1, AppendFacts
    <3> QED
      BY <3>1, <3>2
  <2>4. CASE \E c \in Contaminators : Contaminate(c)
    BY <2>1, <2>2, <2>4, ContaminateEffect
  <2>5. CASE \E r \in Runners : OpenCorpus(r)
    BY <2>2, <2>5 DEF OpenCorpus, store
  <2>6. CASE UNCHANGED <<state, opened>>
    BY <2>2, <2>6
  <2> QED
    BY <2>1, <2>3, <2>4, <2>5, <2>6, StepEffect
<1> QED
  BY <1>1, Invariance, PTL DEF Spec, ReservationsKept

(* Contamination is final: the corpus is never sealed, reserved or opened  *)
(* again.                                                                  *)
THEOREM ContaminationIsFinal == Spec => ContaminationFinal
<1> DEFINE Final == state.status = "contaminated" =>
                       state'.status = "contaminated" /\ state'.runs = state.runs /\ opened' = opened
<1>1. IInv /\ [Next]_vars => Final
  <2> SUFFICES ASSUME IInv, [Next]_vars, state.status = "contaminated" PROVE Final
    OBVIOUS
  <2>1. TypeOK /\ CopyIsCurrent /\ ReservedOnRecord /\ PlanOnDisk
    BY DEF IInv, RecordInv
  <2>2. \A r \in Runners : ~Reserve(r)
    BY <2>1, ReserveEffect
  <2>3. CASE \E c \in Contaminators : Contaminate(c)
    BY <2>1, <2>3, ContaminateEffect DEF Contaminate
  <2>4. \A r \in Runners : ~OpenCorpus(r)
    BY <2>1 DEF OpenCorpus, ReservedOnRecord, PastReserve
  <2>5. CASE UNCHANGED <<state, opened>>
    BY <2>5
  <2> QED
    BY <2>1, <2>2, <2>3, <2>4, <2>5, StepEffect
<1> QED
  BY <1>1, Invariance, PTL DEF Spec, ContaminationFinal

-----------------------------------------------------------------------------
(* The holdout lifecycle keeps the promise of EvaluationBudget *)

(* The initial state maps to an initial state of the abstract budget. *)
LEMMA PromiseInit == Init => Promise!Init
  BY DEF Init, Sealed, Promise!Init

(* Every step maps to a step of the abstract budget or changes nothing of  *)
(* it.                                                                     *)
LEMMA PromiseStep == IInv /\ [Next]_vars => [Promise!Next]_(Promise!vars)
<1> SUFFICES ASSUME IInv, [Next]_vars PROVE [Promise!Next]_(Promise!vars)
  OBVIOUS
<1> DEFINE res == [s \in {"corpus"} |-> state.runs]
           cls == IF state.status = "contaminated" THEN {"corpus"} ELSE {}
<1>1. /\ TypeOK /\ CopyIsCurrent /\ ReservedOnRecord
      /\ \A r \in Runners : pc[r] = "planned" => r \in Reserved /\ state.status = "sealed"
  BY DEF IInv, RecordInv, ReservedOnRecord, PastReserve
<1>2. ASSUME NEW r \in Runners, Reserve(r) PROVE Promise!Reserve("corpus", r)
  <2>1. /\ state'.runs = Append(state.runs, r)
        /\ state'.status = "sealed"
        /\ state.status = "sealed"
        /\ Len(state.runs) < MaxRuns
    BY <1>1, <1>2, ReserveEffect
  <2>2. opened' = opened
    BY <1>2 DEF Reserve
  <2>3. res' = [res EXCEPT !["corpus"] = Append(@, r)]
    BY <2>1
  <2>4. cls = {} /\ cls' = {}
    BY <2>1
  <2> QED
    BY <2>1, <2>2, <2>3, <2>4 DEF Promise!Reserve
<1>3. ASSUME NEW c \in Contaminators, Contaminate(c) PROVE Promise!Close("corpus")
  <2>1. state'.runs = state.runs /\ state'.status = "contaminated"
    BY <1>1, <1>3, ContaminateEffect
  <2>2. opened' = opened
    BY <1>3 DEF Contaminate
  <2>3. cls' = cls \cup {"corpus"}
    BY <2>1
  <2> QED
    BY <2>1, <2>2, <2>3 DEF Promise!Close
<1>4. ASSUME NEW r \in Runners, OpenCorpus(r) PROVE Promise!Open("corpus", r)
  <2>1. state' = state /\ opened' = opened \cup {r}
    BY <1>4 DEF OpenCorpus, store
  <2>2. r \in Range(state.runs) /\ state.status = "sealed"
    BY <1>1, <1>4 DEF OpenCorpus, Reserved
  <2>3. opened' \X {"corpus"} = (opened \X {"corpus"}) \cup {<<r, "corpus">>}
    BY <2>1
  <2>4. r \in Promise!Range(state.runs)
    BY <2>2 DEF Range, Promise!Range
  <2>5. res["corpus"] = state.runs /\ cls = {}
    BY <2>2
  <2> QED
    BY <2>1, <2>3, <2>4, <2>5 DEF Promise!Open
<1>5. CASE UNCHANGED <<state, opened>>
  BY <1>5 DEF Promise!vars
<1> QED
  BY <1>1, <1>2, <1>3, <1>4, <1>5, StepEffect DEF Promise!Next

(* Every behaviour of the holdout commands is one of the abstract budget:  *)
(* reserve within the budget, open only what is reserved and not closed.   *)
THEOREM Refinement == Spec => KeepsPromise
  BY PromiseInit, PromiseStep, Invariance, PTL DEF Spec, KeepsPromise, Promise!Spec

-----------------------------------------------------------------------------
(* The safety half of LockReleased: a lock that is taken belongs to a      *)
(* command that is in its try block, whose finally removes it, or to one   *)
(* that crashed there, whose lock the custodian can verify to be stale; no *)
(* command that refused, failed or ended ever leaves one behind.           *)
LockIsOwned == lock # Nobody => pc[lock] \in Critical \cup {"crashed"}

LEMMA StepOwned == TypeOK /\ LockIsOwned /\ [Next]_vars => LockIsOwned'
<1> SUFFICES ASSUME TypeOK, LockIsOwned, [Next]_vars PROVE LockIsOwned'
  OBVIOUS
<1> USE ProcAssumption DEF TypeOK, LockIsOwned, Proc, Critical, Goto, store, locals
<1>1. ASSUME NEW r \in Runners, RunStep(r) PROVE LockIsOwned'
  BY <1>1 DEF RunStep, Snapshot, Preflight, ReadState, Reserve, WritePlan, OpenCorpus, Scan,
     VerifyCandidate, WriteAggregate
<1>2. ASSUME NEW c \in Contaminators, ContaminateStep(c) PROVE LockIsOwned'
  BY <1>2 DEF ContaminateStep, BeginContamination, ReadStateToContaminate, Contaminate
<1>3. ASSUME NEW p \in Proc, Ending(p) \/ Crash(p) PROVE LockIsOwned'
  BY <1>3 DEF Ending, TakeLock, Fail, Unlock, Crash
<1>4. CASE Custodian \/ Upgrade
  BY <1>4 DEF Custodian, VerifyStale, RemoveStaleLock, Upgrade
<1>5. CASE UNCHANGED vars
  BY <1>5 DEF vars
<1> QED
  BY <1>1, <1>2, <1>3, <1>4, <1>5 DEF Next

(* No lock is left behind, but by a crash.                                 *)
THEOREM LockHasOwner == Spec => []LockIsOwned
<1>1. Init => LockIsOwned
  BY DEF Init, LockIsOwned
<1> QED
  BY <1>1, StepOwned, TypeCorrect, PTL DEF Spec

=============================================================================
