---------------------------- MODULE BlindAggregate ----------------------------
(***************************************************************************)
(* What a blind run publishes (benchmarks/blind/aggregate.ts): summarize   *)
(* reduces the observations of the private fixtures to counts, releases    *)
(* the strata that are large enough, and validateAggregate checks the      *)
(* report before it is released.  When it refuses, the attempt is spent    *)
(* and nothing is published.                                               *)
(*                                                                         *)
(* An observation is what is counted of it: withheld, or the stratum and   *)
(* kind of its fixture with the flag or the outcomes of its spans, which   *)
(* module ScoringLattice defines.  Rates and intervals are functions of    *)
(* the counts and left out.                                                *)
(*                                                                         *)
(* An operator commented "Slip" is a plausible mistake in the operator     *)
(* after it, used by no specification.                                     *)
(***************************************************************************)
EXTENDS Integers, Sequences, FiniteSetsExt

CONSTANTS
    Strata,            \* stratum labels
    Unlabelled,        \* the stratum of a fixture without a label
    SpanOutcomes,      \* the outcomes the spans of one fixture may have
    MinimumFixtures,   \* smaller strata are never released on their own
    MaxObservations    \* bound: fixtures of the corpus

LatticeOutcomes == {"EXACT", "COVERED", "OVERBROAD", "PARTIAL", "MISS"}
LeakedOutcomes == {"PARTIAL", "MISS"}

ASSUME AggregateAssumption ==
    /\ IsFiniteSet(Strata) /\ Unlabelled \notin Strata
    /\ \A spans \in SpanOutcomes : spans \in Seq(LatticeOutcomes)
    /\ MinimumFixtures \in Nat \ {0} /\ MaxObservations \in Nat

VARIABLES
    total,       \* the tally over everything that was measured
    strata,      \* per label, the tally of its fixtures
    outcomes,    \* per outcome, the spans that have it
    positives,   \* measured fixtures that must be redacted
    withheld     \* per reason, the observations that are not measured

aggregateVars == <<total, strata, outcomes, positives, withheld>>

WithheldReason == {"unstable-across-replays", "scan-error"}
Tally == [fixtures : Nat, spans : Nat, leakedSpans : Nat, controls : Nat, flaggedControls : Nat]
NoTally == [fixtures |-> 0, spans |-> 0, leakedSpans |-> 0, controls |-> 0, flaggedControls |-> 0]

AggregateTypeOK ==
    /\ total \in Tally
    /\ strata \in [Strata -> Tally]
    /\ outcomes \in [LatticeOutcomes -> Nat]
    /\ positives \in Nat
    /\ withheld \in [WithheldReason -> Nat]

AggregateInit ==
    /\ total = NoTally
    /\ strata = [l \in Strata |-> NoTally]
    /\ outcomes = [o \in LatticeOutcomes |-> 0]
    /\ positives = 0
    /\ withheld = [w \in WithheldReason |-> 0]

measurable == total.fixtures
observed == measurable + SumFunction(withheld)

-----------------------------------------------------------------------------
Plus(t, d) == [k \in DOMAIN t |-> t[k] + d[k]]

(* Every count goes to the total and to the stratum of the fixture.        *)
Add(label, delta) ==
    /\ total' = Plus(total, delta)
    /\ strata' = IF label = Unlabelled THEN strata
                 ELSE [strata EXCEPT ![label] = Plus(@, delta)]

Withhold ==
    /\ observed < MaxObservations
    /\ \E w \in WithheldReason : withheld' = [withheld EXCEPT ![w] = @ + 1]
    /\ UNCHANGED <<total, strata, outcomes, positives>>

MeasureControl ==
    /\ observed < MaxObservations
    /\ \E label \in Strata \cup {Unlabelled}, flagged \in {0, 1} :
          Add(label, [NoTally EXCEPT !.fixtures = 1, !.controls = 1, !.flaggedControls = flagged])
    /\ UNCHANGED <<outcomes, positives, withheld>>

SpansIn(spans, some) == Cardinality({i \in DOMAIN spans : spans[i] \in some})

MeasurePositive ==
    /\ observed < MaxObservations
    /\ \E label \in Strata \cup {Unlabelled}, spans \in SpanOutcomes :
          /\ Add(label, [NoTally EXCEPT !.fixtures = 1, !.spans = Len(spans),
                                        !.leakedSpans = SpansIn(spans, LeakedOutcomes)])
          /\ outcomes' = [o \in LatticeOutcomes |-> outcomes[o] + SpansIn(spans, {o})]
    /\ positives' = positives + 1
    /\ UNCHANGED withheld

AggregateNext == Withhold \/ MeasureControl \/ MeasurePositive

AggregateSpec == AggregateInit /\ [][AggregateNext]_aggregateVars

-----------------------------------------------------------------------------
(* What summarize makes of the counts *)

large == {l \in Strata : strata[l].fixtures >= MinimumFixtures}
labelled == {l \in Strata : strata[l].fixtures > 0}
suppressedFixtures == measurable - SumFunction([l \in large |-> strata[l].fixtures])

(* Slip: the small strata are left out, however small their remainder. *)
strataStatusAlways == IF labelled = {} THEN "none" ELSE "released"

strataStatus ==
    IF labelled = {} THEN "none"
    ELSE IF suppressedFixtures \in 1..(MinimumFixtures - 1) THEN "suppressed" ELSE "released"

rows == IF strataStatus = "released" THEN large ELSE {}

(* The arithmetic of validateAggregate, on the report of summarize.        *)
AggregateConsistent ==
    /\ SumFunction(outcomes) = total.spans
    /\ outcomes["PARTIAL"] + outcomes["MISS"] = total.leakedSpans
    /\ positives + total.controls = measurable
    /\ \A l \in rows : strata[l].fixtures >= MinimumFixtures
    /\ strataStatus # "released" => rows = {}

-----------------------------------------------------------------------------
(* "No small stratum can be recovered by subtracting the released ones     *)
(* from the totals": what the released rows leave of the totals is never   *)
(* the tally of one small stratum, nor that of fewer fixtures than a       *)
(* stratum may be released with.                                           *)
RecoveredTally(k) == total[k] - SumFunction([l \in rows |-> strata[l][k]])
SmallStrataHidden ==
    strataStatus = "released" =>
        /\ \A l \in labelled \ rows : strata[l].fixtures < RecoveredTally("fixtures")
        /\ RecoveredTally("fixtures") = 0 \/ RecoveredTally("fixtures") >= MinimumFixtures

(* A run that was measured releases its aggregate: validateAggregate finds *)
(* nothing to refuse in what summarize reports, and what it releases gives *)
(* no small stratum away.                                                  *)
AggregateReleases == AggregateConsistent /\ SmallStrataHidden
=============================================================================
