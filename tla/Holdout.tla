------------------------------- MODULE Holdout -------------------------------
(***************************************************************************)
(* The holdout lifecycle on one protected, sealed corpus: any number of    *)
(* `run` and `contaminate` commands working on the same store directory    *)
(* (holdout/lifecycle.ts), a crash of any of them between any two file     *)
(* operations, and the custodian who removes a stale `.lock`               *)
(* (holdout/README.md, "Contamination, crashes and rotation").             *)
(*                                                                         *)
(* A process is one invocation of the command; it is also its own run id,  *)
(* since runHoldout draws a fresh UUID per call.  One action is one file   *)
(* operation of the command, or one that nobody else can observe together  *)
(* with the checks that follow it.  atomicPrivateWrite is one action:      *)
(* its temporary file has a fresh name and only the rename is visible.     *)
(*                                                                         *)
(* An operator commented "Slip" is a plausible mistake in the operator     *)
(* after it.  No specification uses one: PROJECT.json pairs each with the  *)
(* property that catches it.                                               *)
(***************************************************************************)
EXTENDS Integers, Sequences, FiniteSets, Functions

CONSTANTS
    Runners,        \* invocations of `eval:holdout -- run`
    Contaminators,  \* invocations of `eval:holdout -- contaminate`
    MaxRuns,        \* manifest.maxRuns of the sealed manifest
    MaxBuild,       \* bound: how many candidate builds are ever installed
    Nobody          \* no lock file / nothing verified

Proc == Runners \cup Contaminators

ASSUME ProcAssumption ==
    /\ Runners \cap Contaminators = {}
    /\ Nobody \notin Proc

(* validateManifest: an integer from 1 to 10.  Sealing writes 1. *)
ManifestBudgets == 1..10

ASSUME MaxRunsAssumption == MaxRuns \in ManifestBudgets

ASSUME MaxBuildAssumption == MaxBuild \in Nat

VARIABLES
    state,      \* state.json: its status and its list of reserved run ids
    lock,       \* owner written in .lock, or Nobody when there is no file
    plans,      \* runs whose plan-<id>.json exists
    report,     \* per run, the status in aggregate-<id>.json, "none" without it
    installed,  \* number of the candidate build now installed
    pc,         \* where each process is
    mem,        \* the copy of state.json each process holds in memory
    frozen,     \* the build each run froze
    measured,   \* the build each run scanned with
    verdict,    \* the status each run computed for its report
    opened,     \* runs that read the protected corpus
    verified    \* lock owner the custodian has verified to be gone

store == <<state, lock, plans, report>>
locals == <<mem, frozen, measured, verdict>>
vars == <<state, lock, plans, report, installed, pc, mem, frozen, measured,
          verdict, opened, verified>>

-----------------------------------------------------------------------------
Statuses == {"sealed", "contaminated"}
StateFile == [status : Statuses, runs : Seq(Runners)]

(* Inside the try block whose finally removes the lock.                    *)
Critical == {"locked", "admitted", "reserved", "planned", "opened", "scanned",
             "evaluated", "unlocking"}

Alive == {"preflight", "ready"} \cup Critical
Ended == {"done", "rejected"}
Steps == {"idle", "crashed"} \cup Alive \cup Ended

Reserved == Range(state.runs)

Goto(p, there) == pc' = [pc EXCEPT ![p] = there]

TypeOK ==
    /\ state \in StateFile
    /\ lock \in Proc \cup {Nobody}
    /\ plans \subseteq Runners
    /\ report \in [Runners -> {"none", "complete", "incomplete"}]
    /\ installed \in 0..MaxBuild
    /\ pc \in [Proc -> Steps]
    /\ mem \in [Proc -> StateFile]
    /\ frozen \in [Runners -> 0..MaxBuild]
    /\ measured \in [Runners -> 0..MaxBuild]
    /\ verdict \in [Runners -> {"complete", "incomplete"}]
    /\ opened \subseteq Runners
    /\ verified \in Proc \cup {Nobody}

Sealed == [status |-> "sealed", runs |-> << >>]

(* What sealProtectedCorpusValue leaves behind, before any command ran. *)
Init ==
    /\ state = Sealed
    /\ lock = Nobody
    /\ plans = {}
    /\ report = [r \in Runners |-> "none"]
    /\ installed = 0
    /\ pc = [p \in Proc |-> "idle"]
    /\ mem = [p \in Proc |-> Sealed]
    /\ frozen = [r \in Runners |-> 0]
    /\ measured = [r \in Runners |-> 0]
    /\ verdict = [r \in Runners |-> "incomplete"]
    /\ opened = {}
    /\ verified = Nobody

-----------------------------------------------------------------------------
(* Before the lock                                                         *)

(* The command line takes the candidate snapshot it passes to runHoldout. *)
Snapshot(r) ==
    /\ pc[r] = "idle"
    /\ frozen' = [frozen EXCEPT ![r] = installed]
    /\ Goto(r, "preflight")
    /\ UNCHANGED <<store, installed, mem, measured, verdict, opened, verified>>

(* Tool plan, candidate and identities are frozen; nothing is stored yet,  *)
(* and any of the checks may refuse the run.                               *)
Preflight(r) ==
    /\ pc[r] = "preflight"
    /\ \/ /\ installed = frozen[r]
          /\ Goto(r, "ready")
       \/ Goto(r, "rejected")
    /\ UNCHANGED <<store, installed, locals, opened, verified>>

(* contaminateHoldout: reason and manifest purpose are checked first.      *)
BeginContamination(c) ==
    /\ pc[c] = "idle"
    /\ \/ Goto(c, "ready")
       \/ Goto(c, "rejected")
    /\ UNCHANGED <<store, installed, locals, opened, verified>>

(* Slip: the file is created without 'wx', so a held lock is overwritten. *)
TakeLockOverwriting(p) ==
    /\ pc[p] = "ready"
    /\ lock' = p
    /\ Goto(p, "locked")
    /\ UNCHANGED <<state, plans, report, installed, locals, opened, verified>>

(* Slip: the finally does not ask whether this process took the lock. *)
TakeLockAlwaysCleaningUp(p) ==
    /\ pc[p] = "ready"
    /\ \/ lock = Nobody /\ lock' = p /\ Goto(p, "locked")
       \/ lock # Nobody /\ Goto(p, "unlocking") /\ UNCHANGED lock
    /\ UNCHANGED <<state, plans, report, installed, locals, opened, verified>>

(* writeFile(.lock, runId, { flag: 'wx' }): EEXIST ends the command, and   *)
(* since `locked` is still false its finally leaves the lock alone.        *)
TakeLock(p) ==
    /\ pc[p] = "ready"
    /\ \/ /\ lock = Nobody
          /\ lock' = p
          /\ Goto(p, "locked")
       \/ /\ lock # Nobody
          /\ Goto(p, "rejected")
          /\ UNCHANGED lock
    /\ UNCHANGED <<state, plans, report, installed, locals, opened, verified>>

-----------------------------------------------------------------------------
(* A run under the lock                                                    *)

(* stateOf, and the two refusals that follow it.                           *)
Admissible(s) == s.status = "sealed" /\ Len(s.runs) < MaxRuns

ReadState(r) ==
    /\ pc[r] = "locked"
    /\ mem' = [mem EXCEPT ![r] = state]
    /\ \/ Admissible(state) /\ Goto(r, "admitted")
       \/ ~Admissible(state) /\ Goto(r, "unlocking")
    /\ UNCHANGED <<store, installed, frozen, measured, verdict, opened, verified>>

(* Slip: the reservation is pushed in memory and not saved. *)
ReserveInMemory(r) ==
    /\ pc[r] = "admitted"
    /\ mem' = [mem EXCEPT ![r].runs = Append(@, r)]
    /\ Goto(r, "reserved")
    /\ UNCHANGED <<store, installed, frozen, measured, verdict, opened, verified>>

(* state.runs.push(runId) on the copy read above, then the whole file is   *)
(* replaced by that copy.                                                  *)
Reserve(r) ==
    /\ pc[r] = "admitted"
    /\ state' = [mem[r] EXCEPT !.runs = Append(@, r)]
    /\ Goto(r, "reserved")
    /\ UNCHANGED <<lock, plans, report, installed, locals, opened, verified>>

WritePlan(r) ==
    /\ pc[r] = "reserved"
    /\ plans' = plans \cup {r}
    /\ Goto(r, "planned")
    /\ UNCHANGED <<state, lock, report, installed, locals, opened, verified>>

(* The protected bytes are read here; an integrity mismatch throws after   *)
(* the read, which is the step Fail from "opened".                         *)
OpenCorpus(r) ==
    /\ pc[r] = "planned"
    /\ opened' = opened \cup {r}
    /\ Goto(r, "opened")
    /\ UNCHANGED <<store, installed, locals, verified>>

(* domain.evaluate, first half: the scanners run with what is installed.   *)
Scan(r) ==
    /\ pc[r] = "opened"
    /\ measured' = [measured EXCEPT ![r] = installed]
    /\ Goto(r, "scanned")
    /\ UNCHANGED <<store, installed, mem, frozen, verdict, opened, verified>>

(* Slip: the candidate is not measured again after the scan. *)
VerifyCandidateNever(r) ==
    /\ pc[r] = "scanned"
    /\ \E status \in {"complete", "incomplete"} : verdict' = [verdict EXCEPT ![r] = status]
    /\ Goto(r, "evaluated")
    /\ UNCHANGED <<store, installed, mem, frozen, measured, opened, verified>>

(* domain.evaluate, second half: the candidate is measured again, and a    *)
(* change or a scanner failure makes the report incomplete.                *)
VerifyCandidate(r) ==
    /\ pc[r] = "scanned"
    /\ \E complete \in {TRUE, FALSE} :
          verdict' = [verdict EXCEPT ![r] =
              IF complete /\ installed = frozen[r] THEN "complete" ELSE "incomplete"]
    /\ Goto(r, "evaluated")
    /\ UNCHANGED <<store, installed, mem, frozen, measured, opened, verified>>

WriteAggregate(r) ==
    /\ pc[r] = "evaluated"
    /\ report' = [report EXCEPT ![r] = verdict[r]]
    /\ Goto(r, "unlocking")
    /\ UNCHANGED <<state, lock, plans, installed, locals, opened, verified>>

-----------------------------------------------------------------------------
(* A contamination under the lock                                          *)

ReadStateToContaminate(c) ==
    /\ pc[c] = "locked"
    /\ mem' = [mem EXCEPT ![c] = state]
    /\ Goto(c, "admitted")
    /\ UNCHANGED <<store, installed, frozen, measured, verdict, opened, verified>>

(* Slip: the new state is built without spreading the old one. *)
ContaminateWithoutRuns(c) ==
    /\ pc[c] = "admitted"
    /\ state' = [status |-> "contaminated"]
    /\ Goto(c, "unlocking")
    /\ UNCHANGED <<lock, plans, report, installed, locals, opened, verified>>

(* { ...state, status: 'contaminated', reason }: the runs are kept.        *)
Contaminate(c) ==
    /\ pc[c] = "admitted"
    /\ state' = [mem[c] EXCEPT !.status = "contaminated"]
    /\ Goto(c, "unlocking")
    /\ UNCHANGED <<lock, plans, report, installed, locals, opened, verified>>

-----------------------------------------------------------------------------
(* How either command ends                                                 *)

(* Slip: the error path returns without passing through the finally. *)
FailWithoutFinally(p) ==
    /\ pc[p] \in Critical \ {"unlocking"}
    /\ Goto(p, "rejected")
    /\ UNCHANGED <<store, installed, locals, opened, verified>>

(* A read, write, check or scanner call throws: straight to the finally.   *)
Fail(p) ==
    /\ pc[p] \in Critical \ {"unlocking"}
    /\ Goto(p, "unlocking")
    /\ UNCHANGED <<store, installed, locals, opened, verified>>

(* rm(.lock, { force: true }) in the finally, whoever the file names.      *)
Unlock(p) ==
    /\ pc[p] = "unlocking"
    /\ lock' = Nobody
    /\ Goto(p, "done")
    /\ UNCHANGED <<state, plans, report, installed, locals, opened, verified>>

(* The process dies: nothing in its finally runs.                          *)
Crash(p) ==
    /\ pc[p] \in Alive
    /\ Goto(p, "crashed")
    /\ UNCHANGED <<store, installed, locals, opened, verified>>

-----------------------------------------------------------------------------
(* The world around the commands                                           *)

(* "After a crash, verify no process still owns .lock ..."                 *)
VerifyStale ==
    /\ verified = Nobody
    /\ lock # Nobody
    /\ pc[lock] = "crashed"
    /\ verified' = lock
    /\ UNCHANGED <<store, installed, pc, locals, opened>>

(* "... before a custodian removes the stale lock."                        *)
RemoveStaleLock ==
    /\ verified # Nobody
    /\ lock' = Nobody
    /\ verified' = Nobody
    /\ UNCHANGED <<state, plans, report, installed, pc, locals, opened>>

(* Somebody installs another candidate; a build is never reinstalled.      *)
Upgrade ==
    /\ installed < MaxBuild
    /\ installed' = installed + 1
    /\ UNCHANGED <<store, pc, locals, opened, verified>>

-----------------------------------------------------------------------------
RunStep(r) ==
    \/ Snapshot(r) \/ Preflight(r) \/ ReadState(r) \/ Reserve(r)
    \/ WritePlan(r) \/ OpenCorpus(r) \/ Scan(r) \/ VerifyCandidate(r)
    \/ WriteAggregate(r)

ContaminateStep(c) ==
    \/ BeginContamination(c) \/ ReadStateToContaminate(c) \/ Contaminate(c)

Ending(p) == TakeLock(p) \/ Fail(p) \/ Unlock(p)

Custodian == VerifyStale \/ RemoveStaleLock

Next ==
    \/ \E r \in Runners : RunStep(r)
    \/ \E c \in Contaminators : ContaminateStep(c)
    \/ \E p \in Proc : Ending(p) \/ Crash(p)
    \/ Custodian
    \/ Upgrade

Spec == Init /\ [][Next]_vars

(* A started command keeps running unless it crashes, and the custodian    *)
(* gets round to a stale lock.  Nobody is obliged to start a command, to   *)
(* crash or to upgrade.                                                    *)
Started(p) == pc[p] # "idle"
Fairness ==
    /\ \A r \in Runners : WF_vars((Started(r) /\ RunStep(r)) \/ Ending(r))
    /\ \A c \in Contaminators : WF_vars((Started(c) /\ ContaminateStep(c)) \/ Ending(c))
    /\ WF_vars(Custodian)

FairSpec == Spec /\ Fairness

-----------------------------------------------------------------------------
(* Safety                                                                  *)

(* The lock excludes: a live process inside the try block is the one named *)
(* in .lock, so two never are, and neither a finally nor the custodian     *)
(* ever removes the lock from under a live run.                            *)
LockExcludes == \A p \in Proc : pc[p] \in Critical => lock = p

(* "An exclusive lock and persisted reservation prevent concurrent runs    *)
(* from exceeding the budget" (holdout/README.md), crashes included.       *)
BudgetNeverExceeded == Len(state.runs) <= MaxRuns

(* What the budget is for: at most MaxRuns runs ever read the protected    *)
(* corpus, whichever of them crash, fail or are refused.                   *)
ReadersWithinBudget == Cardinality(opened) <= MaxRuns

(* The protected bytes are opened only by runs whose reservation is on     *)
(* record and whose frozen plan is on disk; no reservation is ever lost.   *)
OpenedAreReserved == opened \subseteq Reserved \cap plans

(* No attempt is counted twice: a run id is reserved at most once.         *)
ReservedOnce == IsInjective(state.runs)

(* The budget holds, for what is on record and for who read the corpus,    *)
(* and the record is enough to audit both.                                 *)
BudgetHolds ==
    /\ BudgetNeverExceeded
    /\ ReadersWithinBudget
    /\ OpenedAreReserved
    /\ ReservedOnce

(* A report that says complete was measured with the frozen candidate.     *)
CompleteMeasuredFrozen ==
    \A r \in Runners : report[r] = "complete" => measured[r] = frozen[r]

(* Step by step: reservations are only ever appended, by runs and by a     *)
(* contamination that rewrites the file from its own copy.                 *)
KeepsPrefix(old, new) ==
    /\ Len(old) <= Len(new)
    /\ \A i \in 1..Len(old) : new[i] = old[i]
ReservationsKept == [][KeepsPrefix(state.runs, state'.runs)]_vars

(* Contamination is final, and from then on nothing is reserved or opened: *)
(* a run already past its check cannot write its older copy over it.       *)
ContaminationFinal ==
    [][state.status = "contaminated" =>
          state'.status = "contaminated" /\ state'.runs = state.runs /\ opened' = opened]_vars

(* The promise both lifecycles share, for the one corpus of this store.    *)
Promise == INSTANCE EvaluationBudget WITH
    Subjects <- {"corpus"},
    Attempts <- Runners,
    Budget <- MaxRuns,
    reserved <- [s \in {"corpus"} |-> state.runs],
    opened <- opened \X {"corpus"},
    closed <- IF state.status = "contaminated" THEN {"corpus"} ELSE {}

KeepsPromise == Promise!Spec

(* Liveness: a crashed run does not block the corpus for ever, because the *)
(* custodian can tell its lock is stale.                                   *)
LockReleased == (lock # Nobody) ~> (lock = Nobody)

=============================================================================
