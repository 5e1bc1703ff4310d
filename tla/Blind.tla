-------------------------------- MODULE Blind --------------------------------
(***************************************************************************)
(* Custodian-held blind evaluation (benchmarks/blind/lifecycle.ts): the    *)
(* commands `freeze` and `run` on one private root, a crash of either      *)
(* between any two file operations, and the people around them, who edit   *)
(* fixtures.json and rebuild the candidate directory at any time.          *)
(*                                                                         *)
(* A process is one invocation; a run is its own run id and a freeze its   *)
(* own freeze id, both fresh UUIDs in the code.  One action is one file    *)
(* operation together with the checks that use what it read.  A hash is    *)
(* modelled by what it identifies: the corpus commitment by the nonce and  *)
(* the fixtures, the fixtures digest by the fixtures, an artifact set by   *)
(* the number of the build.                                                *)
(*                                                                         *)
(* The ledger is read before the lock is taken, and written back from that *)
(* copy.  Overlap says whether commands may run at the same time.          *)
(*                                                                         *)
(* An operator commented "Slip" is a plausible mistake in the operator     *)
(* after it.  No specification uses one: PROJECT.json pairs each with the  *)
(* property that catches it.                                               *)
(***************************************************************************)
EXTENDS Integers, FiniteSets, Sequences, SequencesExt

CONSTANTS
    Freezers,   \* invocations of `blind:run -- freeze`
    Runs,       \* invocations of `blind:run -- run`
    Corpora,    \* contents of fixtures.json: [epoch, nonce, fixtures]
    MaxBuild,   \* bound: how often the candidate directory is rebuilt
    Overlap,    \* may two commands be running at once?
    Nobody,     \* no lock file
    NoFile,     \* no freeze file
    NoEntry     \* a run the ledger does not list

Proc == Freezers \cup Runs
Builds == 0..MaxBuild

ASSUME ProcAssumption ==
    /\ Freezers \cap Runs = {}
    /\ Nobody \notin Proc

ASSUME CorporaAssumption ==
    /\ Corpora # {}
    /\ \A c \in Corpora : c = [epoch |-> c.epoch, nonce |-> c.nonce, fixtures |-> c.fixtures]

ASSUME BoundAssumption == MaxBuild \in Nat /\ Overlap \in BOOLEAN

VARIABLES
    corpus,     \* fixtures.json
    candidate,  \* build the candidate directory holds
    freezeFile, \* freeze.json, or NoFile
    ledger,     \* ledger.json
    lock,       \* the run whose .lock exists, or Nobody
    consumed,   \* per run, the freeze moved to runs/<id>/freeze.json
    release,    \* per run, the status in the released aggregate
    scratch,    \* runs whose scratch directory holds fixture bytes
    pc,         \* where each process is
    corp,       \* the corpus each process read
    frz,        \* the freeze each run read
    mem,        \* the ledger copy each process read, and a run updates
    built,      \* the build a freeze resolved, or a run scanned with
    verdict,    \* the status each run computed
    evaluated   \* history: [run, corpus, candidate] of every scan begun

files == <<freezeFile, ledger, lock, consumed, release, scratch>>
world == <<corpus, candidate>>
locals == <<corp, frz, mem, built, verdict>>
vars == <<corpus, candidate, freezeFile, ledger, lock, consumed, release,
          scratch, pc, corp, frz, mem, built, verdict, evaluated>>

-----------------------------------------------------------------------------
(* corpusIdentity *)
Commitment(c) == <<c.nonce, c.fixtures>>
Digest(c) == c.fixtures

Freeze == [id : Freezers, corpus : Corpora, candidate : Builds]
Epochs == {c.epoch : c \in Corpora}
Entry == [freeze : Freezers, epoch : Epochs, candidate : Builds,
          status : {"reserved", "complete", "incomplete"}]
ASSUME AbsentAssumption == NoFile \notin Freeze /\ NoEntry \notin Entry

Ledger == [epochs : SUBSET Corpora, runs : [Runs -> Entry \cup {NoEntry}]]

EmptyLedger == [epochs |-> {}, runs |-> [r \in Runs |-> NoEntry]]

Freezing == {"corpusRead", "ledgerRead", "resolved"}
BeforeLock == {"freezeRead", "corpusSame", "candidateSame", "ledgerChecked"}
Critical == {"locked", "reserved", "consumed", "staged", "scanned", "rechecked",
             "kept", "released", "aborting", "leaving"}
Alive == Freezing \cup BeforeLock \cup Critical
Steps == {"idle", "done", "rejected", "crashed"} \cup Alive

TypeOK ==
    /\ corpus \in Corpora
    /\ candidate \in Builds
    /\ freezeFile \in Freeze \cup {NoFile}
    /\ ledger \in Ledger
    /\ lock \in Runs \cup {Nobody}
    /\ consumed \in [Runs -> Freeze \cup {NoFile}]
    /\ release \in [Runs -> {"none", "complete", "incomplete"}]
    /\ scratch \subseteq Runs
    /\ pc \in [Proc -> Steps]
    /\ corp \in [Proc -> Corpora]
    /\ frz \in [Runs -> Freeze \cup {NoFile}]
    /\ mem \in [Proc -> Ledger]
    /\ built \in [Proc -> Builds]
    /\ verdict \in [Runs -> {"complete", "incomplete"}]
    /\ evaluated \subseteq [run : Runs, corpus : Corpora, candidate : Builds]

(* The custodian authored a corpus and received a candidate; no command    *)
(* has run, so there is no ledger file and readLedger returns an empty one.*)
Init ==
    /\ corpus \in Corpora
    /\ candidate = 0
    /\ freezeFile = NoFile
    /\ ledger = EmptyLedger
    /\ lock = Nobody
    /\ consumed = [r \in Runs |-> NoFile]
    /\ release = [r \in Runs |-> "none"]
    /\ scratch = {}
    /\ pc = [p \in Proc |-> "idle"]
    /\ corp = [p \in Proc |-> corpus]
    /\ frz = [r \in Runs |-> NoFile]
    /\ mem = [p \in Proc |-> EmptyLedger]
    /\ built = [p \in Proc |-> 0]
    /\ verdict = [r \in Runs |-> "incomplete"]
    /\ evaluated = {}

Goto(p, there) == pc' = [pc EXCEPT ![p] = there]

MayStart(p) == Overlap \/ \A q \in Proc : pc[q] \notin Alive

-----------------------------------------------------------------------------
(* checkEpoch: one label carries one corpus, one set of fixtures one label.*)
EpochFree(l, c) ==
    \A e \in l.epochs :
        /\ e.epoch = c.epoch => Commitment(e) = Commitment(c)
        /\ e.epoch # c.epoch => Digest(e) # Digest(c)

(* Slip: an attempt that crashed or failed does not count. *)
NotYetCompleted(l, epoch, build) ==
    \A r \in Runs :
        l.runs[r] # NoEntry /\ l.runs[r].epoch = epoch /\ l.runs[r].candidate = build
            => l.runs[r].status # "complete"

(* checkNotYetEvaluated: crashed attempts included. *)
NotYetEvaluated(l, epoch, build) ==
    \A r \in Runs :
        l.runs[r] # NoEntry => ~(l.runs[r].epoch = epoch /\ l.runs[r].candidate = build)

-----------------------------------------------------------------------------
(* freezeBlind *)

FreezeReadCorpus(f) ==
    /\ pc[f] = "idle"
    /\ MayStart(f)
    /\ corp' = [corp EXCEPT ![f] = corpus]
    /\ Goto(f, "corpusRead")
    /\ UNCHANGED <<world, files, frz, mem, built, verdict, evaluated>>

FreezeReadLedger(f) ==
    /\ pc[f] = "corpusRead"
    /\ mem' = [mem EXCEPT ![f] = ledger]
    /\ Goto(f, IF EpochFree(ledger, corp[f]) THEN "ledgerRead" ELSE "rejected")
    /\ UNCHANGED <<world, files, corp, frz, built, verdict, evaluated>>

(* The candidate must be new to the epoch; evidence, a dirty checkout or   *)
(* too few replays may refuse it too.                                      *)
FreezeResolve(f) ==
    /\ pc[f] = "ledgerRead"
    /\ built' = [built EXCEPT ![f] = candidate]
    /\ \/ /\ NotYetEvaluated(mem[f], corp[f].epoch, candidate)
          /\ Goto(f, "resolved")
       \/ Goto(f, "rejected")
    /\ UNCHANGED <<world, files, corp, frz, mem, verdict, evaluated>>

FrozenBy(f) == [id |-> f, corpus |-> corp[f], candidate |-> built[f]]

(* Slip: a pending freeze is replaced. *)
FreezeReplace(f) ==
    /\ pc[f] = "resolved"
    /\ freezeFile' = FrozenBy(f)
    /\ Goto(f, "done")
    /\ UNCHANGED <<world, ledger, lock, consumed, release, scratch, locals, evaluated>>

(* privateWrite without replace: EEXIST is freeze-already-pending. *)
FreezeWrite(f) ==
    /\ pc[f] = "resolved"
    /\ \/ /\ freezeFile = NoFile
          /\ freezeFile' = FrozenBy(f)
          /\ Goto(f, "done")
       \/ /\ freezeFile # NoFile
          /\ Goto(f, "rejected")
          /\ UNCHANGED freezeFile
    /\ UNCHANGED <<world, ledger, lock, consumed, release, scratch, locals, evaluated>>

-----------------------------------------------------------------------------
(* runBlind before the lock *)

ReadFreeze(r) ==
    /\ pc[r] = "idle"
    /\ MayStart(r)
    /\ freezeFile # NoFile
    /\ frz' = [frz EXCEPT ![r] = freezeFile]
    /\ Goto(r, "freezeRead")
    /\ UNCHANGED <<world, files, corp, mem, built, verdict, evaluated>>

(* The corpus read here is the one scanned later: it stays in memory. *)
RecheckCorpus(r) ==
    /\ pc[r] = "freezeRead"
    /\ corp' = [corp EXCEPT ![r] = corpus]
    /\ Goto(r, IF /\ Commitment(corpus) = Commitment(frz[r].corpus)
                  /\ corpus.epoch = frz[r].corpus.epoch
               THEN "corpusSame" ELSE "rejected")
    /\ UNCHANGED <<world, files, frz, mem, built, verdict, evaluated>>

(* Environment, benchmark, configuration and output path may refuse too.   *)
RecheckCandidate(r) ==
    /\ pc[r] = "corpusSame"
    /\ \/ candidate = frz[r].candidate /\ Goto(r, "candidateSame")
       \/ Goto(r, "rejected")
    /\ UNCHANGED <<world, files, locals, evaluated>>

ReadLedger(r) ==
    /\ pc[r] = "candidateSame"
    /\ mem' = [mem EXCEPT ![r] = ledger]
    /\ Goto(r, IF /\ EpochFree(ledger, corp[r])
                  /\ NotYetEvaluated(ledger, corp[r].epoch, frz[r].candidate)
               THEN "ledgerChecked" ELSE "rejected")
    /\ UNCHANGED <<world, files, corp, frz, built, verdict, evaluated>>

TakeLock(r) ==
    /\ pc[r] = "ledgerChecked"
    /\ \/ /\ lock = Nobody
          /\ lock' = r
          /\ Goto(r, "locked")
       \/ /\ lock # Nobody
          /\ Goto(r, "rejected")
          /\ UNCHANGED lock
    /\ UNCHANGED <<world, freezeFile, ledger, consumed, release, scratch, locals, evaluated>>

-----------------------------------------------------------------------------
(* runBlind under the lock *)

WithEpoch(l, c) ==
    IF \E e \in l.epochs : e.epoch = c.epoch THEN l
    ELSE [l EXCEPT !.epochs = @ \cup {c}]

EntryOf(r, status) ==
    [freeze |-> frz[r].id, epoch |-> corp[r].epoch, candidate |-> frz[r].candidate,
     status |-> status]

(* The run's ledger copy with its own entry at the given status. *)
Listing(r, status) ==
    [WithEpoch(mem[r], corp[r]) EXCEPT !.runs[r] = EntryOf(r, status)]

(* Slip: the attempt is entered in memory and saved only at the end. *)
ReserveInMemory(r) ==
    /\ pc[r] = "locked"
    /\ mem' = [mem EXCEPT ![r] = Listing(r, "reserved")]
    /\ Goto(r, "reserved")
    /\ UNCHANGED <<world, files, corp, frz, built, verdict, evaluated>>

(* The epoch and the attempt are pushed on the copy read before the lock,  *)
(* and the whole ledger is replaced by it.                                 *)
Reserve(r) ==
    /\ pc[r] = "locked"
    /\ mem' = [mem EXCEPT ![r] = Listing(r, "reserved")]
    /\ ledger' = mem'[r]
    /\ Goto(r, "reserved")
    /\ UNCHANGED <<world, freezeFile, lock, consumed, release, scratch, corp, frz,
                   built, verdict, evaluated>>

(* Slip: the freeze is copied to the run's directory and stays pending. *)
CopyFreeze(r) ==
    /\ pc[r] = "reserved"
    /\ freezeFile # NoFile
    /\ consumed' = [consumed EXCEPT ![r] = freezeFile]
    /\ Goto(r, "consumed")
    /\ UNCHANGED <<world, freezeFile, ledger, lock, release, scratch, locals, evaluated>>

(* mkdir runs/<id>, then rename freeze.json into it, whichever it now is;  *)
(* ENOENT is an unexpected error.                                          *)
ConsumeFreeze(r) ==
    /\ pc[r] = "reserved"
    /\ freezeFile # NoFile
    /\ consumed' = [consumed EXCEPT ![r] = freezeFile]
    /\ freezeFile' = NoFile
    /\ Goto(r, "consumed")
    /\ UNCHANGED <<world, ledger, lock, release, scratch, locals, evaluated>>

StageFixtures(r) ==
    /\ pc[r] = "consumed"
    /\ scratch' = scratch \cup {r}
    /\ Goto(r, "staged")
    /\ UNCHANGED <<world, freezeFile, ledger, lock, consumed, release, locals, evaluated>>

(* context.load installs what the directory holds now, and every fixture   *)
(* is observed; a load failure or a scan error makes the run incomplete.   *)
Scan(r) ==
    /\ pc[r] = "staged"
    /\ built' = [built EXCEPT ![r] = candidate]
    /\ \E status \in {"complete", "incomplete"} : verdict' = [verdict EXCEPT ![r] = status]
    /\ evaluated' = evaluated \cup
           {[run |-> r, corpus |-> corp[r], candidate |-> frz[r].candidate]}
    /\ Goto(r, "scanned")
    /\ UNCHANGED <<world, files, corp, frz, mem>>

(* Slip: the tarballs are not checked again after the scan. *)
RecheckNothing(r) ==
    /\ pc[r] = "scanned"
    /\ Goto(r, "rechecked")
    /\ UNCHANGED <<world, files, locals, evaluated>>

(* "The candidate must still be the frozen one after the scan." *)
RecheckAfterScan(r) ==
    /\ pc[r] = "scanned"
    /\ verdict' = [verdict EXCEPT ![r] = IF candidate = frz[r].candidate THEN @ ELSE "incomplete"]
    /\ Goto(r, "rechecked")
    /\ UNCHANGED <<world, files, corp, frz, mem, built, evaluated>>

(* Summary, schema and private-detail checks, then the private aggregate.  *)
KeepAggregate(r) ==
    /\ pc[r] = "rechecked"
    /\ Goto(r, "kept")
    /\ UNCHANGED <<world, files, locals, evaluated>>

(* Slip: the aggregate takes its status from the ledger entry. *)
ReleaseEntryStatus(r) ==
    /\ pc[r] = "kept"
    /\ release' = [release EXCEPT ![r] = ledger.runs[r].status]
    /\ Goto(r, "released")
    /\ UNCHANGED <<world, freezeFile, ledger, lock, consumed, scratch, locals, evaluated>>

Release(r) ==
    /\ pc[r] = "kept"
    /\ release' = [release EXCEPT ![r] = verdict[r]]
    /\ Goto(r, "released")
    /\ UNCHANGED <<world, freezeFile, ledger, lock, consumed, scratch, locals, evaluated>>

RecordStatus(r) ==
    /\ pc[r] = "released"
    /\ ledger' = Listing(r, verdict[r])
    /\ Goto(r, "leaving")
    /\ UNCHANGED <<world, freezeFile, lock, consumed, release, scratch, locals, evaluated>>

(* Anything thrown under the lock: a failed write, a missing freeze file,  *)
(* a report that does not validate, a release path that exists.            *)
Fail(r) ==
    /\ pc[r] \in Critical \ {"aborting", "leaving"}
    /\ Goto(r, "aborting")
    /\ UNCHANGED <<world, files, locals, evaluated>>

(* Slip: the catch forgets the attempt it could not finish. *)
AbortForgetting(r) ==
    /\ pc[r] = "aborting"
    /\ ledger' = [mem[r] EXCEPT !.runs[r] = NoEntry]
    /\ Goto(r, "leaving")
    /\ UNCHANGED <<world, freezeFile, lock, consumed, release, scratch, locals, evaluated>>

(* The catch: the entry becomes incomplete, if that write succeeds. *)
Abort(r) ==
    /\ pc[r] = "aborting"
    /\ ledger' \in {ledger, Listing(r, "incomplete")}
    /\ Goto(r, "leaving")
    /\ UNCHANGED <<world, freezeFile, lock, consumed, release, scratch, locals, evaluated>>

(* Slip: the lock outlives a run whose scratch directory was made. *)
LeaveLocked(r) ==
    /\ pc[r] = "leaving"
    /\ scratch' = scratch \ {r}
    /\ lock' = IF r \in scratch THEN lock ELSE Nobody
    /\ Goto(r, "done")
    /\ UNCHANGED <<world, freezeFile, ledger, consumed, release, locals, evaluated>>

(* The finally: scratch and lock are removed.  A scratch that cannot be    *)
(* removed leaves the lock behind, as a crash here does.                   *)
Leave(r) ==
    /\ pc[r] = "leaving"
    /\ scratch' = scratch \ {r}
    /\ lock' = Nobody
    /\ Goto(r, "done")
    /\ UNCHANGED <<world, freezeFile, ledger, consumed, release, locals, evaluated>>

-----------------------------------------------------------------------------
(* The world around the commands *)

Crash(p) ==
    /\ pc[p] \in Alive
    /\ Goto(p, "crashed")
    /\ UNCHANGED <<world, files, locals, evaluated>>

(* The lock file is empty, so all the operator can know is that no command *)
(* is running at all.                                                      *)
RemoveStaleLock ==
    /\ lock # Nobody
    /\ \A p \in Proc : pc[p] \notin Alive
    /\ lock' = Nobody
    /\ UNCHANGED <<world, freezeFile, ledger, consumed, release, scratch, pc, locals, evaluated>>

(* The custodian edits or rotates fixtures.json. *)
EditCorpus ==
    /\ corpus' \in Corpora \ {corpus}
    /\ UNCHANGED <<candidate, files, pc, locals, evaluated>>

(* The maintainer rebuilds the candidate directory; an earlier build never *)
(* comes back to it.                                                       *)
Rebuild ==
    /\ candidate < MaxBuild
    /\ candidate' = candidate + 1
    /\ UNCHANGED <<corpus, files, pc, locals, evaluated>>

-----------------------------------------------------------------------------
FreezeStep(f) ==
    FreezeReadCorpus(f) \/ FreezeReadLedger(f) \/ FreezeResolve(f) \/ FreezeWrite(f)

(* What a run does once it has started. *)
RunStep(r) ==
    \/ RecheckCorpus(r) \/ RecheckCandidate(r) \/ ReadLedger(r) \/ TakeLock(r)
    \/ Reserve(r) \/ ConsumeFreeze(r) \/ StageFixtures(r) \/ Scan(r)
    \/ RecheckAfterScan(r) \/ KeepAggregate(r) \/ Release(r) \/ RecordStatus(r)
    \/ Fail(r) \/ Abort(r) \/ Leave(r)

Next ==
    \/ \E f \in Freezers : FreezeStep(f)
    \/ \E r \in Runs : ReadFreeze(r) \/ RunStep(r)
    \/ \E p \in Proc : Crash(p)
    \/ RemoveStaleLock
    \/ EditCorpus
    \/ Rebuild

Spec == Init /\ [][Next]_vars

(* A run that has started keeps going unless it crashes.  Nobody has to    *)
(* start a command, edit anything, or clean up.                            *)
FairSpec == Spec /\ \A r \in Runs : WF_vars(RunStep(r))

-----------------------------------------------------------------------------
(* Whether or not commands overlap                                         *)

(* The lock excludes: a live run past it is the one that holds it.         *)
LockExcludes == \A r \in Runs : pc[r] \in Critical => lock = r

(* A scan never starts before its attempt is in the ledger, and the entry  *)
(* stays there while the run lasts: a crash still spends the attempt.      *)
ScanIsReserved ==
    \A r \in Runs : pc[r] \in Critical /\ (\E e \in evaluated : e.run = r) => ledger.runs[r] # NoEntry

(* A released aggregate that says complete was measured with the frozen    *)
(* build, on the corpus the freeze committed to.                           *)
CompleteIsFrozen ==
    \A r \in Runs : release[r] = "complete" =>
        /\ built[r] = frz[r].candidate
        /\ corp[r] = frz[r].corpus

(* The ledger never calls a run complete that did not release a complete   *)
(* aggregate.                                                              *)
LedgerIsHonest ==
    \A r \in Runs : ledger.runs[r] # NoEntry /\ ledger.runs[r].status = "complete"
        => release[r] = "complete"

(* A freeze is spent by at most one run: two runs that read the same       *)
(* freeze.json never both take it into their directories.                  *)
FreezeSpentOnce ==
    \A r, s \in Runs : consumed[r] # NoFile /\ consumed[r] = consumed[s] => r = s

(* What the lock and the renaming of a freeze keep apart: runs under the   *)
(* lock, scans off the record, and two runs on one freeze.                 *)
RunsAreExclusive == LockExcludes /\ ScanIsReserved /\ FreezeSpentOnce

(* What is released and what is recorded about it are both true.           *)
ReleasesAreHonest == CompleteIsFrozen /\ LedgerIsHonest

(* A pending freeze is never replaced: it is consumed or it stays.         *)
FreezeStays == [][freezeFile # NoFile => freezeFile' \in {freezeFile, NoFile}]_vars

(* A lock is released as long as nothing crashes.                          *)
LockReleased ==
    [](\A r \in Runs : pc[r] # "crashed") => ((lock # Nobody) ~> (lock = Nobody))

-----------------------------------------------------------------------------
(* Only while commands do not overlap                                      *)

(* "A candidate identity gets one attempt per epoch, crashed attempts      *)
(* included" (benchmarks/blind/lifecycle.ts:77): no two runs evaluate the  *)
(* same frozen candidate on the same epoch.                                *)
OneAttempt ==
    \A a, b \in evaluated :
        a.corpus.epoch = b.corpus.epoch /\ a.candidate = b.candidate => a.run = b.run

(* An epoch label is evaluated with one corpus, and a set of fixtures      *)
(* under one label.                                                        *)
EpochIsOneCorpus ==
    \A a, b \in evaluated :
        /\ a.corpus.epoch = b.corpus.epoch => Commitment(a.corpus) = Commitment(b.corpus)
        /\ Digest(a.corpus) = Digest(b.corpus) => a.corpus.epoch = b.corpus.epoch

(* What an epoch is for: one corpus, and one attempt of each candidate.    *)
OneAttemptPerEpoch == OneAttempt /\ EpochIsOneCorpus

(* The ledger only grows: no attempt and no epoch is forgotten, and a      *)
(* final status is never taken back.                                       *)
LedgerGrows ==
    [][/\ ledger.epochs \subseteq ledger'.epochs
       /\ \A r \in Runs : ledger.runs[r] # NoEntry =>
             /\ ledger'.runs[r] # NoEntry
             /\ ledger'.runs[r].epoch = ledger.runs[r].epoch
             /\ ledger'.runs[r].candidate = ledger.runs[r].candidate
             /\ ledger.runs[r].status = "reserved" \/ ledger'.runs[r] = ledger.runs[r]]_vars

(* Neither what is frozen nor what was attempted is ever lost.             *)
NothingIsForgotten == FreezeStays /\ LedgerGrows

(* The promise both lifecycles share: one attempt for each candidate on    *)
(* each epoch, reserved before the scan.                                   *)
Subjects == Epochs \X Builds
AttemptsOn(s) ==
    {r \in Runs : ledger.runs[r] # NoEntry
                  /\ ledger.runs[r].epoch = s[1] /\ ledger.runs[r].candidate = s[2]}

Promise == INSTANCE EvaluationBudget WITH
    Attempts <- Runs,
    Budget <- 1,
    reserved <- [s \in Subjects |-> SetToSeq(AttemptsOn(s))],
    opened <- {<<e.run, <<e.corpus.epoch, e.candidate>> >> : e \in evaluated},
    closed <- {}

KeepsPromise == Promise!Spec

=============================================================================
