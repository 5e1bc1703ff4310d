------------------------------ MODULE MCBlind ------------------------------
(***************************************************************************)
(* Instances of Blind for TLC.  Between two of the three corpora lies each *)
(* edit the epoch rules tell apart: the first and the second have one      *)
(* label, the first and the third one set of fixtures, and from the second *)
(* to the third is a proper rotation.                                      *)
(***************************************************************************)
EXTENDS Blind

MCCorpora ==
    {[epoch |-> "e1", nonce |-> "n1", fixtures |-> "x1"],
     [epoch |-> "e1", nonce |-> "n2", fixtures |-> "x2"],
     [epoch |-> "e2", nonce |-> "n3", fixtures |-> "x1"]}

(* The two corpora of one rotation: an epoch and the one that replaces it. *)
MCRotation ==
    {[epoch |-> "e1", nonce |-> "n1", fixtures |-> "x1"],
     [epoch |-> "e2", nonce |-> "n2", fixtures |-> "x2"]}

MCSymmetry == Permutations(Freezers) \cup Permutations(Runs)
=============================================================================
