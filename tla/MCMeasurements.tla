---------------------------- MODULE MCMeasurements ----------------------------
(***************************************************************************)
(* What a measurement says and how it comes on record: the scoring of one  *)
(* row, the evaluation that collects the findings of the scanners, and the *)
(* official runs.  They share no state, so an initial state chooses the    *)
(* one that acts.                                                          *)
(*                                                                         *)
(* One row of a four-byte fixture with up to two expected spans has room   *)
(* for an envelope wider than its span, for two findings that straddle a   *)
(* span, for adjacent, nested and overlapping findings, and for a twin     *)
(* with a finding of its own family, of another and of none.               *)
(***************************************************************************)
EXTENDS ScoringLattice, EvaluationRuntime, OfficialRuns

VARIABLE part

partVars == <<part, vars, runtimeVars, officialVars>>

(* One observation is reused, of a peer that is not executed.              *)
MCPeers == <<9>>

MeasurementsInit ==
    /\ part \in {"row", "runtime", "official"}
    /\ Init /\ RuntimeInit /\ OfficialInit
    /\ part # "row" => expected = << >> /\ scope = Unknown

MeasurementsNext ==
    \/ part = "row" /\ Next /\ UNCHANGED <<part, runtimeVars, officialVars>>
    \/ part = "runtime" /\ RuntimeNext /\ UNCHANGED <<part, vars, officialVars>>
    \/ part = "official" /\ OfficialNext /\ UNCHANGED <<part, vars, runtimeVars>>

MeasurementsSpec == MeasurementsInit /\ [][MeasurementsNext]_partVars

-----------------------------------------------------------------------------
(* The variables of all keep their types.                                  *)
MeasurementsTypeOK == TypeOK /\ RuntimeTypeOK /\ OfficialTypeOK
===============================================================================
