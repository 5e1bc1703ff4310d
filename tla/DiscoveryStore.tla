--------------------------- MODULE DiscoveryStore ---------------------------
(***************************************************************************)
(* The discovery results store                                             *)
(* (benchmarks/evaluation/storage/discovery-store.ts): a directory of      *)
(* parts with a manifest that is written last, staged next to its place    *)
(* and moved there whole.  Each evaluation run writes once, under its own  *)
(* run id, runs may overlap, and each may fail or crash between two file   *)
(* operations.  A reader opens the manifest and reads the parts later, by  *)
(* path, while stores are replaced under it.                               *)
(*                                                                         *)
(* A store is the run that wrote it and the files written so far; two runs *)
(* never write equal bytes.  An operator commented "Slip" is a plausible   *)
(* mistake in the operator after it, used by no specification.             *)
(***************************************************************************)
EXTENDS FiniteSets

CONSTANTS
    StoreRuns,    \* run ids
    StoreParts,   \* the part files of a store, the header among them
    NoRun         \* no store

ASSUME StoreAssumption == NoRun \notin StoreRuns /\ StoreParts # {}

VARIABLES
    stored,     \* the store at its path
    staging,    \* per run, its staging directory
    aside,      \* per run, the store it moved aside
    writing,    \* per run, the step its write is at
    existing,   \* per run, did it find a store at the path?
    manifest,   \* the run whose manifest the reader has opened
    consumed,   \* the parts it has read, digests checked
    taken       \* the runs whose records it was given

storeWriter == <<staging, aside, writing, existing>>
storeReader == <<manifest, consumed, taken>>
storeVars == <<stored, storeWriter, storeReader>>

Manifest == "manifest.json"
StoreFiles == StoreParts \cup {Manifest}
Directory == [run : StoreRuns \cup {NoRun}, files : SUBSET StoreFiles]
Nothing == [run |-> NoRun, files |-> {}]
WholeStore(d) == d.run # NoRun /\ d.files = StoreFiles

StoreTypeOK ==
    /\ stored \in Directory
    /\ staging \in [StoreRuns -> Directory]
    /\ aside \in [StoreRuns -> Directory]
    /\ writing \in [StoreRuns -> {"new", "parts", "stat", "aside", "in", "drop", "over"}]
    /\ existing \in [StoreRuns -> BOOLEAN]
    /\ manifest \in StoreRuns \cup {NoRun}
    /\ consumed \subseteq StoreParts
    /\ taken \subseteq StoreRuns

StoreInit ==
    /\ stored = Nothing
    /\ staging = [r \in StoreRuns |-> Nothing]
    /\ aside = [r \in StoreRuns |-> Nothing]
    /\ writing = [r \in StoreRuns |-> "new"]
    /\ existing = [r \in StoreRuns |-> FALSE]
    /\ manifest = NoRun
    /\ consumed = {}
    /\ taken = {}

At(r, step) == writing[r] = step
Go(r, step) == writing' = [writing EXCEPT ![r] = step]

-----------------------------------------------------------------------------
BeginStaging(r) ==
    /\ At(r, "new")
    /\ staging' = [staging EXCEPT ![r] = [run |-> r, files |-> {}]]
    /\ Go(r, "parts")
    /\ UNCHANGED <<stored, aside, existing, storeReader>>

WriteStorePart(r) ==
    /\ At(r, "parts")
    /\ \E p \in StoreParts \ staging[r].files :
          staging' = [staging EXCEPT ![r].files = @ \cup {p}]
    /\ UNCHANGED <<stored, aside, writing, existing, storeReader>>

(* The completion marker, last.                                            *)
WriteManifest(r) ==
    /\ At(r, "parts")
    /\ StoreParts \subseteq staging[r].files
    /\ staging' = [staging EXCEPT ![r].files = @ \cup {Manifest}]
    /\ Go(r, "stat")
    /\ UNCHANGED <<stored, aside, existing, storeReader>>

StatStore(r) ==
    /\ At(r, "stat")
    /\ existing' = [existing EXCEPT ![r] = stored.run # NoRun]
    /\ Go(r, IF stored.run # NoRun THEN "aside" ELSE "in")
    /\ UNCHANGED <<stored, staging, aside, storeReader>>

(* The error path removes the staging directory and nothing else.          *)
StoreFails(r) ==
    /\ writing[r] \in {"parts", "stat", "aside", "in", "drop"}
    /\ staging' = [staging EXCEPT ![r] = Nothing]
    /\ Go(r, "over")
    /\ UNCHANGED <<stored, aside, existing, storeReader>>

(* Slip: the old store is removed to make room. *)
RemoveOld(r) ==
    /\ At(r, "aside")
    /\ stored' = Nothing
    /\ Go(r, "in")
    /\ UNCHANGED <<staging, aside, existing, storeReader>>

(* A rename of what is gone fails: see StoreFails.                         *)
MoveAside(r) ==
    /\ At(r, "aside")
    /\ stored.run # NoRun
    /\ aside' = [aside EXCEPT ![r] = stored]
    /\ stored' = Nothing
    /\ Go(r, "in")
    /\ UNCHANGED <<staging, existing, storeReader>>

(* A directory is not renamed over one that has files.                     *)
MoveIn(r) ==
    /\ At(r, "in")
    /\ stored.run = NoRun
    /\ stored' = staging[r]
    /\ staging' = [staging EXCEPT ![r] = Nothing]
    /\ Go(r, IF existing[r] THEN "drop" ELSE "over")
    /\ UNCHANGED <<aside, existing, storeReader>>

DropAside(r) ==
    /\ At(r, "drop")
    /\ aside' = [aside EXCEPT ![r] = Nothing]
    /\ Go(r, "over")
    /\ UNCHANGED <<stored, staging, existing, storeReader>>

StoreCrash(r) ==
    /\ writing[r] \notin {"new", "over"}
    /\ Go(r, "over")
    /\ UNCHANGED <<stored, staging, aside, existing, storeReader>>

-----------------------------------------------------------------------------
(* openDiscovery refuses a directory without a manifest.                   *)
OpenStore ==
    /\ Manifest \in stored.files
    /\ manifest' = stored.run
    /\ consumed' = {}
    /\ taken' = {}
    /\ UNCHANGED <<stored, storeWriter>>

(* Slip: a part's digest is not compared. *)
ReadAnyPart ==
    /\ manifest # NoRun
    /\ \E p \in StoreParts \ consumed :
          /\ p \in stored.files
          /\ taken' = taken \cup {stored.run}
          /\ consumed' = consumed \cup {p}
    /\ UNCHANGED <<stored, storeWriter, manifest>>

(* Records are handed over while a part is read; the digest is compared at *)
(* the end of the part, and a difference ends the reading.                 *)
ReadPart ==
    /\ manifest # NoRun
    /\ \E p \in StoreParts \ consumed :
          /\ p \in stored.files
          /\ taken' = taken \cup {stored.run}
          /\ IF stored.run = manifest
               THEN consumed' = consumed \cup {p} /\ UNCHANGED manifest
               ELSE consumed' = {} /\ manifest' = NoRun
    /\ UNCHANGED <<stored, storeWriter>>

WriterStep(r) ==
    \/ BeginStaging(r) \/ WriteStorePart(r) \/ WriteManifest(r) \/ StatStore(r)
    \/ StoreFails(r) \/ MoveAside(r) \/ MoveIn(r) \/ DropAside(r) \/ StoreCrash(r)

StoreNext == (\E r \in StoreRuns : WriterStep(r)) \/ OpenStore \/ ReadPart

StoreSpec == StoreInit /\ [][StoreNext]_storeVars

-----------------------------------------------------------------------------
(* "A reader that finds manifest.json has a complete store and an          *)
(* interrupted write leaves no store": whatever is at the path was written *)
(* whole, by one run, however writers overlap and stop.                    *)
StoreIsWhole == stored.run # NoRun => WholeStore(stored)

(* "Leave either the old or the new one complete": once a store has been   *)
(* in place, a whole one is at the path or aside, through every crash and  *)
(* failure.                                                                *)
Copies == {stored} \cup {aside[r] : r \in StoreRuns}
StoreSurvives ==
    [][(\E d \in Copies : WholeStore(d)) => (\E d \in Copies' : WholeStore(d))]_storeVars

(* A reader that consumed every part has the records of the run whose      *)
(* manifest it opened, and of no other.                                    *)
ReaderTakesOneRun ==
    (manifest # NoRun /\ consumed = StoreParts) => taken = {manifest}
(* Readers get a whole store of one run, or nothing.                       *)
StoreReads == StoreIsWhole /\ ReaderTakesOneRun
=============================================================================
