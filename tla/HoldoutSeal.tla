----------------------------- MODULE HoldoutSeal -----------------------------
(***************************************************************************)
(* Sealing a protected input: sealB11ProtectedInput                        *)
(* (benchmarks/evaluation/domains/pii/beta11-protected.ts) splits one      *)
(* custodian's input into one corpus per family and seals each of them     *)
(* with sealProtectedCorpusValue (holdout/storage.ts): a store directory   *)
(* named for the corpus, the corpus, the state with its unused budget,     *)
(* and the manifest, then one seal record over all of them.                *)
(*                                                                         *)
(* Any number of seals of the one input overlap, and each may fail or      *)
(* crash between two file operations.  A sealed family is run later, which *)
(* spends its budget (module Holdout); here that is one step.              *)
(*                                                                         *)
(* The families of an input are sealed in one fixed order, 1..Families.    *)
(* An operator commented "Slip" is a plausible mistake in the operator     *)
(* after it, used by no specification.                                     *)
(***************************************************************************)
EXTENDS Naturals, FiniteSets

CONSTANTS
    Families,   \* how many families the input has
    Seals,      \* seal ids: attempts to seal it
    NoSeal      \* the store directory does not exist

ASSUME SealAssumption == Families \in Nat \ {0} /\ NoSeal \notin Seals

VARIABLES
    owner,       \* per family, the seal that created its store directory
    contents,    \* per family, the files in its store directory
    state,       \* per family, what state.json says
    manifests,   \* per seal, the families whose manifest it wrote
    records,     \* the seals whose seal record exists
    sealing,     \* per seal, where it is
    family       \* per seal, the family it works on

sealStore == <<owner, contents, state>>
sealVars == <<sealStore, manifests, records, sealing, family>>

Family == 1..Families

SealTypeOK ==
    /\ owner \in [Family -> Seals \cup {NoSeal}]
    /\ contents \in [Family -> SUBSET {"corpus", "state"}]
    /\ state \in [Family -> {"none", "sealed", "spent"}]
    /\ manifests \in [Seals -> SUBSET Family]
    /\ records \subseteq Seals
    /\ sealing \in [Seals -> {"new", "mkdir", "corpus", "state", "manifest", "record", "over"}]
    /\ family \in [Seals -> 1..Families + 1]

SealInit ==
    /\ owner = [f \in Family |-> NoSeal]
    /\ contents = [f \in Family |-> {}]
    /\ state = [f \in Family |-> "none"]
    /\ manifests = [s \in Seals |-> {}]
    /\ records = {}
    /\ sealing = [s \in Seals |-> "new"]
    /\ family = [s \in Seals |-> 1]

SealAt(s, step) == sealing[s] = step
SealTo(s, step) == sealing' = [sealing EXCEPT ![s] = step]

-----------------------------------------------------------------------------
BeginSeal(s) ==
    /\ SealAt(s, "new")
    /\ SealTo(s, "mkdir")
    /\ UNCHANGED <<sealStore, manifests, records, family>>

(* The store directory is named for the corpus: it exists when the corpus  *)
(* was sealed, or was begun to be ('corpus-already-sealed').               *)
CreateStore(s) ==
    /\ SealAt(s, "mkdir")
    /\ IF owner[family[s]] = NoSeal
         THEN owner' = [owner EXCEPT ![family[s]] = s] /\ SealTo(s, "corpus")
         ELSE SealTo(s, "over") /\ UNCHANGED owner
    /\ UNCHANGED <<contents, state, manifests, records, family>>

WriteCorpus(s) ==
    /\ SealAt(s, "corpus")
    /\ contents' = [contents EXCEPT ![family[s]] = @ \cup {"corpus"}]
    /\ SealTo(s, "state")
    /\ UNCHANGED <<owner, state, manifests, records, family>>

WriteState(s) ==
    /\ SealAt(s, "state")
    /\ contents' = [contents EXCEPT ![family[s]] = @ \cup {"state"}]
    /\ state' = [state EXCEPT ![family[s]] = "sealed"]
    /\ SealTo(s, "manifest")
    /\ UNCHANGED <<owner, manifests, records, family>>

(* Then the next family, and after the last one the record.                *)
PutManifest(s) ==
    /\ SealAt(s, "manifest")
    /\ manifests' = [manifests EXCEPT ![s] = @ \cup {family[s]}]
    /\ family' = [family EXCEPT ![s] = @ + 1]
    /\ SealTo(s, IF family[s] = Families THEN "record" ELSE "mkdir")
    /\ UNCHANGED <<sealStore, records>>

(* Slip: the record lists what was sealed when a family failed. *)
PutRecordAnyway(s) ==
    /\ sealing[s] \in {"record", "mkdir"}
    /\ records' = records \cup {s}
    /\ SealTo(s, "over")
    /\ UNCHANGED <<sealStore, manifests, family>>

PutRecord(s) ==
    /\ SealAt(s, "record")
    /\ records' = records \cup {s}
    /\ SealTo(s, "over")
    /\ UNCHANGED <<sealStore, manifests, family>>

(* An error or a crash ends the seal; nothing it has done is undone.       *)
SealStops(s) ==
    /\ sealing[s] \notin {"new", "over"}
    /\ SealTo(s, "over")
    /\ UNCHANGED <<sealStore, manifests, records, family>>

(* A run of a family that a seal record lists spends its only attempt.     *)
SpendFamily(s) ==
    /\ s \in records
    /\ \E f \in manifests[s] :
          /\ state[f] = "sealed"
          /\ state' = [state EXCEPT ![f] = "spent"]
    /\ UNCHANGED <<owner, contents, manifests, records, sealing, family>>

SealStep(s) ==
    \/ BeginSeal(s) \/ CreateStore(s) \/ WriteCorpus(s) \/ WriteState(s)
    \/ PutManifest(s) \/ PutRecord(s) \/ SealStops(s) \/ SpendFamily(s)

SealNext == \E s \in Seals : SealStep(s)

SealSpec == SealInit /\ [][SealNext]_sealVars

-----------------------------------------------------------------------------
(* "One attempt per family per epoch" (docs/specs/pii-populations.md): no  *)
(* two seals ever write a manifest for one input, so no corpus is under    *)
(* two budgets and the families of an input are not divided between seals  *)
(* that overlap, stop and are repeated.                                    *)
OneSealer ==
    \A s, t \in Seals : manifests[s] # {} /\ manifests[t] # {} => s = t

(* A manifest is never ahead of the store it names.                        *)
ManifestHasStore ==
    \A s \in Seals : \A f \in manifests[s] :
        owner[f] = s /\ contents[f] = {"corpus", "state"}

(* A seal record covers every family of its input.                         *)
RecordCoversInput == \A s \in records : manifests[s] = Family

(* Manifests and records are true of the stores they speak of.             *)
SealsAreWhole == OneSealer /\ ManifestHasStore /\ RecordCoversInput
=============================================================================
