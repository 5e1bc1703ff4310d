-------------------------- MODULE MCEvidenceAdoption --------------------------
(***************************************************************************)
(* Instances of EvidenceAdoption for TLC.  Of the nineteen files there is  *)
(* one of each kind, in their order: a comparison file, adoption.json,   *)
(* the history and a pin.                                                 *)
(***************************************************************************)
EXTENDS EvidenceAdoption

MCPins == {4}

(* The repository has adopted the anchor. *)
MCStart == <<Anchor>>

MCSymmetry == Permutations(Appliers) \cup Permutations(Releases \ {Anchor})
=============================================================================
