---------------------------- MODULE ScoringLattice ----------------------------
(***************************************************************************)
(* Scoring one fixture row (benchmarks/scoring/lattice.ts, scoring.ts):    *)
(* the outcome of every secret span against the findings on its file, the  *)
(* leaked and collateral bytes, and the flag of a control or a twin.       *)
(*                                                                         *)
(* Scoring is a pure function of the authored spans and of the findings a  *)
(* scanner reported.  A behaviour fixes the row and lets the scanner       *)
(* report one finding after another, in any order and with repetitions, so *)
(* that a step compares the score of a row with its score once one more    *)
(* finding is reported.                                                    *)
(*                                                                         *)
(* Offsets are UTF-8 byte offsets and a range is [start, end).  The file   *)
(* has Bytes bytes, and every offset is a boundary of a character.         *)
(*                                                                         *)
(* An operator commented "Slip" is a plausible mistake in the operator     *)
(* after it.                                                               *)
(***************************************************************************)
EXTENDS Integers, FiniteSets, Sequences, SequencesExt

CONSTANTS
    Bytes,       \* length of the fixture file
    Families,    \* finding families a scanner can attribute
    Unknown,     \* the family of a finding nobody attributed
    MaxSpans,    \* bound: expected spans of a row
    MaxReported  \* bound: findings reported

ASSUME SizeAssumption ==
    Bytes \in Nat /\ MaxSpans \in Nat /\ MaxReported \in Nat
ASSUME FamilyAssumption == Unknown \notin Families

Offsets == 0..Bytes

(* validRange: a range is never empty. *)
ByteRange == {r \in [start : Offsets, end : Offsets] : r.start < r.end}

Finding ==
    {f \in [start : Offsets, end : Offsets, family : Families \cup {Unknown}] : f.start < f.end}

ExpectedRange ==
    {e \in [start : Offsets, end : Offsets, role : {"secret", "companion"}, envelope : ByteRange] :
        e.start < e.end}

Overlaps(a, b) == a.start < b.end /\ b.start < a.end
Covers(outer, inner) == outer.start <= inner.start /\ outer.end >= inner.end
Same(a, b) == a.start = b.start /\ a.end = b.end

(* validateCorpus: spans in order and apart, and each envelope around its  *)
(* own span only.  An unauthored envelope is the span itself.              *)
ValidExpected(spans) ==
    \A i \in DOMAIN spans :
        /\ Covers(spans[i].envelope, spans[i])
        /\ \A j \in DOMAIN spans : j < i => spans[j].end <= spans[i].start
        /\ \A j \in DOMAIN spans \ {i} : ~Overlaps(spans[j], spans[i].envelope)

VARIABLES
    expected,  \* the authored spans of the row
    scope,     \* the contract family of a twin, or Unknown
    reported   \* the findings of the scanner, as it reported them

vars == <<expected, scope, reported>>

-----------------------------------------------------------------------------
(* Bytes *)

(* One step of union: extend the last interval or start another. *)
Merge(merged, r) ==
    IF merged # << >> /\ r.start <= Last(merged).end
    THEN [merged EXCEPT ![Len(merged)].end = IF @ >= r.end THEN @ ELSE r.end]
    ELSE Append(merged, r)

Span(r) == [start |-> r.start, end |-> r.end]
InOrder(a, b) == a.start < b.start \/ (a.start = b.start /\ a.end < b.end)

Sorted(ranges) ==
    [i \in 1..Cardinality(ranges) |->
        CHOOSE r \in ranges : Cardinality({q \in ranges : InOrder(q, r)}) = i - 1]

(* Merge ranges into a sorted list of disjoint intervals. *)
Union(ranges) == FoldLeft(Merge, << >>, Sorted({Span(r) : r \in ranges}))

(* The bytes of r outside the disjoint intervals of kept, by a cursor that *)
(* moves over r from one interval to the next.                             *)
BytesOutsideOne(r, kept) ==
    LET Step(at, c) ==
            IF c.end <= at.cursor \/ c.start >= r.end THEN at
            ELSE [cursor |-> c.end,
                  total  |-> at.total + IF c.start > at.cursor THEN c.start - at.cursor ELSE 0]
        last == FoldLeft(Step, [cursor |-> r.start, total |-> 0], kept)
    IN  last.total + IF last.cursor < r.end THEN r.end - last.cursor ELSE 0

(* Slip: every range counts for itself, so shared bytes count twice. *)
BytesOutsideEach(ranges, cover) ==
    LET kept == Union(cover)
        Add(n, r) == n + BytesOutsideOne(r, kept)
    IN  FoldLeft(Add, 0, Sorted({Span(r) : r \in ranges}))

BytesOutside(ranges, cover) ==
    LET kept == Union(cover)
        Add(n, r) == n + BytesOutsideOne(r, kept)
    IN  FoldLeft(Add, 0, Union(ranges))

-----------------------------------------------------------------------------
(* Outcomes *)

(* Slip: one finding that sticks out of the envelope spoils the others. *)
SpanOutcomeStrict(span, findings) ==
    IF \E f \in findings : Same(f, span) THEN "EXACT"
    ELSE LET covering == {f \in findings : Covers(f, span)}
         IN  IF covering # {}
             THEN IF \A f \in covering : Covers(span.envelope, f) THEN "COVERED" ELSE "OVERBROAD"
             ELSE IF \E f \in findings : Overlaps(f, span) THEN "PARTIAL" ELSE "MISS"

(* Slip: a finding that reaches to the end of the span covers it. *)
SpanOutcomeSuffix(span, findings) ==
    IF \E f \in findings : Same(f, span) THEN "EXACT"
    ELSE LET covering == {f \in findings : Overlaps(f, span) /\ f.end >= span.end}
         IN  IF covering # {}
             THEN IF \E f \in covering : Covers(span.envelope, f) THEN "COVERED" ELSE "OVERBROAD"
             ELSE IF \E f \in findings : Overlaps(f, span) THEN "PARTIAL" ELSE "MISS"

(* Coverage is evaluated for each finding, never for their union. *)
SpanOutcome(span, findings) ==
    IF \E f \in findings : Same(f, span) THEN "EXACT"
    ELSE LET covering == {f \in findings : Covers(f, span)}
         IN  IF covering # {}
             THEN IF \E f \in covering : Covers(span.envelope, f) THEN "COVERED" ELSE "OVERBROAD"
             ELSE IF \E f \in findings : Overlaps(f, span) THEN "PARTIAL" ELSE "MISS"

IsLeaked(outcome) == outcome \in {"PARTIAL", "MISS"}

(* score: findings with the same range are one finding, with the           *)
(* attribution reported last.                                              *)
Deduplicated(findings) ==
    {findings[i] : i \in {j \in DOMAIN findings :
                             \A k \in DOMAIN findings : k > j => ~Same(findings[j], findings[k])}}

actual == Deduplicated(reported)

-----------------------------------------------------------------------------
(* The row *)

(* The places of the secrets in the authored list. *)
secrets == {i \in DOMAIN expected : expected[i].role = "secret"}
isControl == secrets = {}

spanOutcomes == [i \in secrets |-> SpanOutcome(expected[i], actual)]
leaked == {i \in secrets : IsLeaked(spanOutcomes[i])}

leakedBytes == SumFunction([i \in leaked |-> BytesOutside({expected[i]}, actual)])

(* Companions are acceptable too: their bytes are never collateral. *)
acceptable == {expected[i].envelope : i \in DOMAIN expected}
collateralBytes == BytesOutside(actual, acceptable)

(* Slip: a finding nobody attributed is another detector's. *)
otherFindingsOpen == {f \in actual : f.family # scope}

(* A twin is scoped to its contract: a finding of a different, known       *)
(* family does not flag it.                                                *)
otherFindings == {f \in actual : f.family # Unknown /\ f.family # scope}

isTwin == scope # Unknown

flagged ==
    IF isTwin THEN Cardinality(otherFindings) < Cardinality(actual)
    ELSE Cardinality(actual) > 0

coDetected == isTwin /\ Cardinality(otherFindings) > 0

-----------------------------------------------------------------------------
(* A twin carries no secret span. *)
Init ==
    /\ expected \in UNION {[1..n -> ExpectedRange] : n \in 0..MaxSpans}
    /\ ValidExpected(expected)
    /\ scope \in IF isControl THEN Families \cup {Unknown} ELSE {Unknown}
    /\ reported = << >>

(* Slip: an empty range passes validRange. *)
ReportUnchecked ==
    /\ Len(reported) < MaxReported
    /\ \E r \in [start : Offsets, end : Offsets] :
          reported' = Append(reported, [start |-> r.start, end |-> r.end, family |-> Unknown])
    /\ UNCHANGED <<expected, scope>>

(* The attribution of a finding matters on a twin only. *)
Report ==
    /\ Len(reported) < MaxReported
    /\ \E f \in Finding :
          /\ ~isTwin => f.family = Unknown
          /\ reported' = Append(reported, f)
    /\ UNCHANGED <<expected, scope>>

Next == Report

Spec == Init /\ [][Next]_vars

-----------------------------------------------------------------------------
TypeOK ==
    /\ expected \in Seq(ExpectedRange)
    /\ ValidExpected(expected)
    /\ scope \in Families \cup {Unknown}
    /\ reported \in Seq(Finding)

BytesOf(ranges) == UNION {r.start .. (r.end - 1) : r \in ranges}

(* The sweeps count bytes: leaked bytes are the bytes of leaked spans that *)
(* no finding covers, and collateral bytes the found bytes outside every   *)
(* acceptable range, each byte counted once.                               *)
BytesAreCounted ==
    ~isControl =>
        /\ collateralBytes = Cardinality(BytesOf(actual) \ BytesOf(acceptable))
        /\ leakedBytes = Cardinality(BytesOf({expected[i] : i \in leaked}) \ BytesOf(actual))

(* A span that does not count as leaked has no byte left exposed.          *)
NotLeakedIsRedacted ==
    \A i \in secrets \ leaked : BytesOf({expected[i]}) \subseteq BytesOf(actual)

(* The counts fail closed, and no finding is discarded: whatever was found *)
(* on a control flags it, unless it is known to be another family's, and   *)
(* then it is on record as co-detection.                                   *)
NothingDiscarded ==
    isControl =>
        \A f \in actual : flagged \/ (f.family \notin {scope, Unknown} /\ coDetected)

(* No exposed byte and no finding escapes the counts.                      *)
NothingIsHidden == NotLeakedIsRedacted /\ NothingDiscarded

Rank == [MISS |-> 0, PARTIAL |-> 1, OVERBROAD |-> 2, COVERED |-> 3, EXACT |-> 4]

(* "The lattice is ordered and monotone: nothing can improve by reporting  *)
(* less, and nothing can improve by reporting more"                        *)
(* (docs/specs/measurement-v4.md:144): one more finding never makes the    *)
(* outcome of any span worse or leaks another byte, and the collateral     *)
(* bytes it costs are never taken back by a later one.                     *)
OutcomesImprove ==
    [][/\ \A i \in secrets : Rank[spanOutcomes[i]] <= Rank[spanOutcomes'[i]]
       /\ ~isControl => leakedBytes' <= leakedBytes /\ collateralBytes <= collateralBytes'
      ]_vars

(* "A finding attributed to that family is a twin failure"                 *)
(* (docs/specs/evaluation-methods/02-negative-twin.md:33).                 *)
OwnFamilyFails ==
    isTwin => ((\E i \in DOMAIN reported : reported[i].family = scope) => flagged)

=============================================================================
