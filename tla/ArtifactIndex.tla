---------------------------- MODULE ArtifactIndex ----------------------------
(***************************************************************************)
(* The publication of the PII support matrix with the index that names it  *)
(* (scripts/atomic-publication.ts, called by publish-pii-support.ts): an   *)
(* immutable artifact named for its contents first, then the index, which  *)
(* also commits to the credential evidence that was read.  Each file is    *)
(* written under a temporary name, read back, validated and renamed.  One  *)
(* publication runs at a time and may fail or crash anywhere, in the       *)
(* middle of a write too.  The credential evidence is somebody else's: it  *)
(* may be replaced, but not while a publication is between its last check  *)
(* and its last rename, which no lock excludes.                            *)
(*                                                                         *)
(* An operator commented "Slip" is a plausible mistake in the operator     *)
(* after it, used by no specification.                                     *)
(***************************************************************************)
EXTENDS FiniteSets

CONSTANTS
    Artifacts,     \* contents of a support matrix, and the names they give
    Evidence,      \* states of the credential evidence
    NoArtifact     \* no artifact, nothing

ASSUME IndexAssumption == NoArtifact \notin Artifacts /\ Evidence # {}

VARIABLES
    inPlace,       \* the artifacts that are in place
    domainsIndex,  \* the index: the artifact and the evidence it names
    credential,    \* the credential evidence as it is
    artifactTmp,   \* the artifact whose temporary file is there, or a torn one
    indexTmp,      \* the same for the index
    publishStep,   \* where the publication is
    draft          \* what its index is to name

temporaries == <<artifactTmp, indexTmp>>
indexVars == <<inPlace, domainsIndex, credential, temporaries, publishStep, draft>>

Torn == "torn"
Entry == [artifact : Artifacts, evidence : Evidence]
NoEntry == [artifact |-> NoArtifact, evidence |-> Torn]

IndexTypeOK ==
    /\ inPlace \in [Artifacts -> {"absent", "whole", Torn}]
    /\ domainsIndex \in Entry \cup {NoEntry}
    /\ credential \in Evidence
    /\ artifactTmp \in {"absent", "whole", Torn}
    /\ indexTmp \in Entry \cup {NoEntry}
    /\ publishStep \in {"idle", "write", "check", "index",
                       "checkIndex", "commit"}
    /\ draft \in Entry \cup {NoEntry}

IndexInit ==
    /\ inPlace = [a \in Artifacts |-> "absent"]
    /\ domainsIndex = NoEntry
    /\ credential \in Evidence
    /\ artifactTmp = "absent"
    /\ indexTmp = NoEntry
    /\ publishStep = "idle"
    /\ draft = NoEntry

Advance(from, to) == publishStep = from /\ publishStep' = to

-----------------------------------------------------------------------------
(* The evidence is read, the matrix and the index are built in memory.     *)
BuildPublication ==
    /\ Advance("idle", "write")
    /\ \E a \in Artifacts : draft' = [artifact |-> a, evidence |-> credential]
    /\ UNCHANGED <<inPlace, domainsIndex, credential, temporaries>>

WriteArtifact ==
    /\ Advance("write", "check")
    /\ artifactTmp' \in {"whole", Torn}
    /\ UNCHANGED <<inPlace, domainsIndex, credential, indexTmp, draft>>

(* Read back, validated, renamed and read back again.                      *)
RenameArtifact ==
    /\ Advance("check", "index")
    /\ artifactTmp = "whole"
    /\ inPlace' = [inPlace EXCEPT ![draft.artifact] = artifactTmp]
    /\ artifactTmp' = "absent"
    /\ UNCHANGED <<domainsIndex, credential, indexTmp, draft>>

WriteIndex ==
    /\ Advance("index", "checkIndex")
    /\ indexTmp' \in {draft, NoEntry}
    /\ UNCHANGED <<inPlace, domainsIndex, credential, artifactTmp, draft>>

(* The index is read back, and beforeCommit compares the evidence.         *)
CheckIndex ==
    /\ Advance("checkIndex", "commit")
    /\ indexTmp = draft
    /\ draft.evidence = credential
    /\ UNCHANGED <<inPlace, domainsIndex, credential, temporaries, draft>>

RenameIndex ==
    /\ Advance("commit", "idle")
    /\ domainsIndex' = indexTmp
    /\ indexTmp' = NoEntry
    /\ UNCHANGED <<inPlace, credential, artifactTmp, draft>>

(* Slip: the artifact of a publication that failed is removed again. *)
FailAndRollBack ==
    /\ publishStep # "idle"
    /\ publishStep' = "idle"
    /\ artifactTmp' = "absent"
    /\ indexTmp' = NoEntry
    /\ inPlace' = [inPlace EXCEPT ![draft.artifact] = "absent"]
    /\ UNCHANGED <<domainsIndex, credential, draft>>

(* Any step may fail; the temporary files go and what is in place stays.   *)
PublicationFails ==
    /\ publishStep # "idle"
    /\ publishStep' = "idle"
    /\ artifactTmp' = "absent"
    /\ indexTmp' = NoEntry
    /\ UNCHANGED <<inPlace, domainsIndex, credential, draft>>

PublicationDies ==
    /\ publishStep # "idle"
    /\ publishStep' = "idle"
    /\ UNCHANGED <<inPlace, domainsIndex, credential, temporaries, draft>>

ReplaceEvidence ==
    /\ publishStep # "commit"
    /\ credential' \in Evidence \ {credential}
    /\ UNCHANGED <<inPlace, domainsIndex, temporaries, publishStep, draft>>

IndexNext ==
    \/ BuildPublication \/ WriteArtifact \/ RenameArtifact \/ WriteIndex
    \/ CheckIndex \/ RenameIndex \/ PublicationFails \/ PublicationDies
    \/ ReplaceEvidence

IndexSpec == IndexInit /\ [][IndexNext]_indexVars

-----------------------------------------------------------------------------
(* "Publish an immutable content-addressed artifact, then move the sole    *)
(* mutable commit marker": what the index names is in place and whole,     *)
(* also when that artifact is published again and the second publication   *)
(* fails or dies; and an index commits to the credential evidence that is  *)
(* there when it is published.  Both rest on one publication at a time,    *)
(* and the second on evidence that nobody replaces between the check       *)
(* (atomic-publication.ts:19) and the rename (:20): no lock excludes       *)
(* either, and ReplaceEvidence leaves that window out.                     *)
IndexIsSound ==
    [][/\ domainsIndex' # NoEntry => inPlace'[domainsIndex'.artifact] = "whole"
       /\ domainsIndex' # domainsIndex => domainsIndex'.evidence = credential]_indexVars
=============================================================================
