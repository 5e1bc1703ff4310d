------------------------- MODULE ScoringLatticeProofs -------------------------
(***************************************************************************)
(* Proofs about ScoringLattice for files of any size, any number of        *)
(* expected spans and any number of findings: the lattice is monotone, a   *)
(* span that is not leaked is redacted, a control fails closed, the sweeps *)
(* over sorted ranges count every byte once, and a twin is flagged by the  *)
(* last finding on a range.                                                *)
(***************************************************************************)
EXTENDS ScoringLattice, FoldLemmas

(* A row keeps its authored spans, and findings are well-formed ranges.    *)
LEMMA TypeCorrect == Spec => []TypeOK
<1>1. Init => TypeOK
  <2> SUFFICES ASSUME Init PROVE TypeOK
    OBVIOUS
  <2>1. expected \in Seq(ExpectedRange)
    BY DEF Init
  <2>2. reported \in Seq(Finding)
    BY DEF Init
  <2> QED
    BY <2>1, <2>2 DEF Init, TypeOK
<1>2. TypeOK /\ [Next]_vars => TypeOK'
  <2> SUFFICES ASSUME TypeOK, [Next]_vars PROVE TypeOK'
    OBVIOUS
  <2>1. CASE Report
    BY <2>1 DEF TypeOK, Report
  <2>2. CASE UNCHANGED vars
    BY <2>2 DEF TypeOK, vars
  <2> QED
    BY <2>1, <2>2 DEF Next
<1> QED
  BY <1>1, <1>2, PTL DEF Spec

-----------------------------------------------------------------------------
(* Deduplication *)

(* score keeps only findings that were reported.                           *)
LEMMA ActualIsReported ==
    ASSUME NEW findings \in Seq(Finding)
    PROVE  Deduplicated(findings) \subseteq Finding /\ IsFiniteSet(Deduplicated(findings))
<1> DEFINE Kept == {i \in DOMAIN findings :
                       \A k \in DOMAIN findings : k > i => ~Same(findings[i], findings[k])}
<1>1. Deduplicated(findings) = {findings[i] : i \in Kept}
  BY DEF Deduplicated
<1>2. Kept \subseteq 1..Len(findings)
  OBVIOUS
<1>3. IsFiniteSet(Kept)
  BY <1>2, FS_Interval, FS_Subset
<1>4. IsFiniteSet(Deduplicated(findings))
  <2> DEFINE at == [i \in Kept |-> findings[i]]
  <2>1. at \in Surjection(Kept, Deduplicated(findings))
    BY <1>1 DEF Surjection
  <2> HIDE DEF Kept, at
  <2> QED
    BY <1>3, <2>1, FS_Surjection
<1> QED
  BY <1>1, <1>2, <1>4

(* One more finding replaces at most the finding with its own range.       *)
LEMMA RangesStay ==
    ASSUME NEW findings \in Seq(Finding), NEW g \in Finding,
           NEW f \in Deduplicated(findings)
    PROVE  \E h \in Deduplicated(Append(findings, g)) : Same(h, f)
<1> DEFINE more == Append(findings, g)
<1>1. PICK i \in DOMAIN findings :
          /\ f = findings[i]
          /\ \A k \in DOMAIN findings : k > i => ~Same(findings[i], findings[k])
  BY DEF Deduplicated
<1>2. /\ DOMAIN more = 1 .. Len(findings) + 1
      /\ more[Len(findings) + 1] = g
      /\ \A k \in DOMAIN findings : more[k] = findings[k]
      /\ DOMAIN findings = 1 .. Len(findings)
      /\ Len(findings) \in Nat
  OBVIOUS
<1>3. CASE Same(f, g)
  <2>1. g \in Deduplicated(more)
    BY <1>2 DEF Deduplicated
  <2> QED
    BY <1>3, <2>1 DEF Same
<1>4. CASE ~Same(f, g)
  <2>1. f \in Deduplicated(more)
    <3>1. \A k \in DOMAIN more : k > i => ~Same(more[i], more[k])
      BY <1>1, <1>2, <1>4
    <3>2. i \in DOMAIN more /\ more[i] = f
      BY <1>1, <1>2
    <3> QED
      BY <3>1, <3>2 DEF Deduplicated
  <2> QED
    BY <2>1 DEF Same
<1> QED
  BY <1>3, <1>4

-----------------------------------------------------------------------------
(* Monotonicity *)

(* The outcome of a span depends on the ranges found only, and improves    *)
(* with them.                                                              *)
LEMMA OutcomeMonotone ==
    ASSUME NEW span, NEW F, NEW G,
           \A f \in F : \E h \in G : Same(h, f)
    PROVE  Rank[SpanOutcome(span, F)] <= Rank[SpanOutcome(span, G)]
<1>1. \A f, h : Same(h, f) =>
          /\ Same(f, span) => Same(h, span)
          /\ Covers(f, span) => Covers(h, span)
          /\ Covers(span.envelope, f) => Covers(span.envelope, h)
          /\ Overlaps(f, span) => Overlaps(h, span)
  BY DEF Same, Covers, Overlaps
<1>2. /\ (\E f \in F : Same(f, span)) => \E f \in G : Same(f, span)
      /\ (\E f \in F : Covers(f, span)) => \E f \in G : Covers(f, span)
      /\ (\E f \in F : Covers(f, span) /\ Covers(span.envelope, f))
            => \E f \in G : Covers(f, span) /\ Covers(span.envelope, f)
      /\ (\E f \in F : Overlaps(f, span)) => \E f \in G : Overlaps(f, span)
  BY <1>1
<1>3. \A S : Rank[SpanOutcome(span, S)] =
          IF \E f \in S : Same(f, span) THEN 4
          ELSE IF \E f \in S : Covers(f, span)
               THEN IF \E f \in S : Covers(f, span) /\ Covers(span.envelope, f) THEN 3 ELSE 2
               ELSE IF \E f \in S : Overlaps(f, span) THEN 1 ELSE 0
  <2> SUFFICES ASSUME NEW S
               PROVE  Rank[SpanOutcome(span, S)] =
                          IF \E f \in S : Same(f, span) THEN 4
                          ELSE IF \E f \in S : Covers(f, span)
                               THEN IF \E f \in S : Covers(f, span) /\ Covers(span.envelope, f)
                                    THEN 3 ELSE 2
                               ELSE IF \E f \in S : Overlaps(f, span) THEN 1 ELSE 0
    OBVIOUS
  <2> DEFINE covering == {f \in S : Covers(f, span)}
  <2>1. SpanOutcome(span, S) =
          IF \E f \in S : Same(f, span) THEN "EXACT"
          ELSE IF covering # {}
               THEN IF \E f \in covering : Covers(span.envelope, f) THEN "COVERED" ELSE "OVERBROAD"
               ELSE IF \E f \in S : Overlaps(f, span) THEN "PARTIAL" ELSE "MISS"
    BY DEF SpanOutcome
  <2>2. covering # {} <=> \E f \in S : Covers(f, span)
    OBVIOUS
  <2>3. (\E f \in covering : Covers(span.envelope, f))
           <=> \E f \in S : Covers(f, span) /\ Covers(span.envelope, f)
    OBVIOUS
  <2> HIDE DEF covering
  <2> QED
    BY <2>1, <2>2, <2>3 DEF Rank
<1>4. \A S : (\E f \in S : Covers(f, span) /\ Covers(span.envelope, f)) => \E f \in S : Covers(f, span)
  OBVIOUS
<1> QED
  BY <1>2, <1>3, <1>4

-----------------------------------------------------------------------------
(* What an outcome promises *)

(* A finding that contains a span leaves no byte of it exposed.            *)
LEMMA CoveringRedacts ==
    ASSUME NEW span \in ExpectedRange, NEW F, F \subseteq Finding,
           NEW f \in F, Covers(f, span)
    PROVE  BytesOf({span}) \subseteq BytesOf(F)
<1>1. /\ span.start \in Int /\ span.end \in Int
      /\ f.start \in Int /\ f.end \in Int
      /\ f.start <= span.start /\ f.end >= span.end
  BY SizeAssumption DEF ExpectedRange, Finding, Offsets, Covers
<1>2. span.start .. (span.end - 1) \subseteq f.start .. (f.end - 1)
  BY <1>1
<1> QED
  BY <1>2 DEF BytesOf

(* A span that does not count as leaked was found whole by one finding.    *)
LEMMA NotLeakedIsCovered ==
    ASSUME NEW span \in ExpectedRange, NEW F, F \subseteq Finding,
           ~IsLeaked(SpanOutcome(span, F))
    PROVE  \E f \in F : Covers(f, span)
<1>1. CASE \E f \in F : Same(f, span)
  <2>1. PICK f \in F : Same(f, span)
    BY <1>1
  <2>2. span.start \in Int /\ span.end \in Int
    BY SizeAssumption DEF ExpectedRange, Offsets
  <2>3. Covers(f, span)
    BY <2>1, <2>2 DEF Same, Covers
  <2> QED
    BY <2>3
<1>2. CASE ~\E f \in F : Same(f, span)
  BY <1>2 DEF SpanOutcome, IsLeaked
<1> QED
  BY <1>1, <1>2

(* Every byte of a span that is not leaked is inside a finding.            *)
THEOREM Redacted == Spec => []NotLeakedIsRedacted
<1>1. TypeOK => NotLeakedIsRedacted
  <2> SUFFICES ASSUME TypeOK, NEW i \in secrets \ leaked
               PROVE  BytesOf({expected[i]}) \subseteq BytesOf(actual)
    BY DEF NotLeakedIsRedacted
  <2>1. expected[i] \in ExpectedRange
    BY DEF TypeOK, secrets
  <2>2. actual \subseteq Finding
    BY ActualIsReported DEF TypeOK, actual
  <2>3. ~IsLeaked(SpanOutcome(expected[i], actual))
    BY DEF leaked, spanOutcomes
  <2>4. PICK f \in actual : Covers(f, expected[i])
    BY <2>1, <2>2, <2>3, NotLeakedIsCovered
  <2> QED
    BY <2>1, <2>2, <2>4, CoveringRedacts
<1> QED
  BY <1>1, TypeCorrect, PTL

(* A control fails closed: what was found flags it, unless it is known to  *)
(* be another family's, and then it is recorded as co-detection.           *)
THEOREM FailsClosed == Spec => []NothingDiscarded
<1>1. TypeOK => NothingDiscarded
  <2> SUFFICES ASSUME TypeOK, NEW f \in actual, ~flagged
               PROVE  f.family \notin {scope, Unknown} /\ coDetected
    BY DEF NothingDiscarded
  <2>1. IsFiniteSet(actual)
    BY ActualIsReported DEF TypeOK, actual
  <2>2. otherFindings \in SUBSET actual
    BY DEF otherFindings
  <2>3. /\ IsFiniteSet(otherFindings)
        /\ Cardinality(otherFindings) <= Cardinality(actual)
        /\ Cardinality(actual) = Cardinality(otherFindings) => actual = otherFindings
    BY <2>1, <2>2, FS_Subset
  <2>4. Cardinality(actual) \in Nat /\ Cardinality(otherFindings) \in Nat
    BY <2>1, <2>3, FS_CardinalityType
  <2>5. Cardinality(actual) # 0
    BY <2>1, FS_EmptySet
  <2>6. isTwin /\ ~(Cardinality(otherFindings) < Cardinality(actual))
    BY <2>4, <2>5 DEF flagged
  <2>7. actual = otherFindings
    BY <2>3, <2>4, <2>6
  <2>8. f.family \notin {scope, Unknown}
    BY <2>7 DEF otherFindings
  <2>9. coDetected
    BY <2>4, <2>5, <2>6, <2>7 DEF coDetected
  <2> QED
    BY <2>8, <2>9
<1> QED
  BY <1>1, TypeCorrect, PTL

(* No exposed byte and no finding escapes the counts.                      *)
THEOREM NothingHidden == Spec => []NothingIsHidden
<1>1. NotLeakedIsRedacted /\ NothingDiscarded => NothingIsHidden
  BY DEF NothingIsHidden
<1> QED
  BY <1>1, Redacted, FailsClosed, PTL

-----------------------------------------------------------------------------
(* Attribution.  OwnFamilyFails does not hold as it stands (run            *)
(* scoring_attribution), since of the findings on one range only the last  *)
(* one counts.  What the code guarantees is said exactly here.             *)

(* A finding that is the last one on its range.                            *)
LastOnRange(i) == \A k \in DOMAIN reported : k > i => ~Same(reported[i], reported[k])

(* The families that fail the twin.                                        *)
Failing == {scope, Unknown}

(* A finding is its own range's last, or is followed by it.                *)
LEMMA SomeLast ==
    ASSUME reported \in Seq(Finding), NEW i \in DOMAIN reported
    PROVE  \E k \in DOMAIN reported :
              k >= i /\ Same(reported[i], reported[k]) /\ LastOnRange(k)
<1> DEFINE n == Len(reported)
           K == {k \in 1..n : k >= i /\ Same(reported[i], reported[k])}
           T == {n - k : k \in K}
<1>1. n \in Nat /\ DOMAIN reported = 1..n /\ i \in 1..n
  OBVIOUS
<1>2. i \in K
  BY <1>1 DEF Same
<1>3. T \in SUBSET Nat /\ T # {}
  BY <1>1, <1>2
<1>4. PICK t \in T : \A m \in T : t <= m
  <2> HIDE DEF T
  <2> QED
    BY <1>3, LeastNatural
<1>5. PICK k \in K : t = n - k
  OBVIOUS
<1>6. \A m \in K : m <= k
  <2> SUFFICES ASSUME NEW m \in K PROVE m <= k
    OBVIOUS
  <2>1. n - m \in T
    OBVIOUS
  <2>2. n - k <= n - m
    BY <1>4, <1>5, <2>1
  <2> QED
    BY <1>1, <2>2
<1>7. LastOnRange(k)
  <2> SUFFICES ASSUME NEW m \in DOMAIN reported, m > k, Same(reported[k], reported[m])
               PROVE  FALSE
    BY DEF LastOnRange
  <2>1. m \in K
    BY <1>1 DEF Same
  <2> QED
    BY <1>1, <1>6, <2>1
<1> QED
  BY <1>1, <1>7

(* A twin is flagged by what deduplication keeps, if it is of its own      *)
(* family or of none.                                                      *)
LEMMA FlaggedByKept ==
    ASSUME TypeOK, isTwin
    PROVE  flagged <=> \E f \in actual : f.family \in Failing
<1>1. IsFiniteSet(actual)
  BY ActualIsReported DEF TypeOK, actual
<1>2. otherFindings \in SUBSET actual
  BY DEF otherFindings
<1>3. /\ IsFiniteSet(otherFindings)
      /\ Cardinality(otherFindings) <= Cardinality(actual)
      /\ Cardinality(actual) = Cardinality(otherFindings) => actual = otherFindings
  BY <1>1, <1>2, FS_Subset
<1>4. Cardinality(actual) \in Nat /\ Cardinality(otherFindings) \in Nat
  BY <1>1, <1>3, FS_CardinalityType
<1>5. flagged <=> otherFindings # actual
  BY <1>3, <1>4 DEF flagged
<1>6. otherFindings # actual <=> \E f \in actual : f.family \in Failing
  BY DEF otherFindings, Failing
<1> QED
  BY <1>5, <1>6

(* A twin fails exactly when the last finding on some range is of its own  *)
(* family or of none; so a finding of its own family fails it unless a     *)
(* later one on the same range is known to be another's.                   *)
TwinFails ==
    isTwin =>
        /\ flagged <=> \E i \in DOMAIN reported :
                          LastOnRange(i) /\ reported[i].family \in Failing
        /\ \A i \in DOMAIN reported :
              /\ reported[i].family = scope
              /\ \A k \in DOMAIN reported :
                    k > i /\ Same(reported[i], reported[k]) => reported[k].family \in Failing
              => flagged

(* Whatever is reported in whatever order, that is how a twin is flagged.  *)
THEOREM LastFindingDecides == Spec => []TwinFails
<1>1. TypeOK => TwinFails
  <2> SUFFICES ASSUME TypeOK, isTwin
               PROVE  /\ flagged <=> \E i \in DOMAIN reported :
                                        LastOnRange(i) /\ reported[i].family \in Failing
                      /\ \A i \in DOMAIN reported :
                            /\ reported[i].family = scope
                            /\ \A k \in DOMAIN reported :
                                  k > i /\ Same(reported[i], reported[k])
                                      => reported[k].family \in Failing
                            => flagged
    BY DEF TwinFails
  <2>1. actual = {reported[i] : i \in {j \in DOMAIN reported : LastOnRange(j)}}
    BY DEF actual, Deduplicated, LastOnRange
  <2>2. flagged <=> \E i \in DOMAIN reported :
                       LastOnRange(i) /\ reported[i].family \in Failing
    BY <2>1, FlaggedByKept
  <2>3. ASSUME NEW i \in DOMAIN reported, reported[i].family = scope,
               \A k \in DOMAIN reported :
                   k > i /\ Same(reported[i], reported[k]) => reported[k].family \in Failing
        PROVE  flagged
    <3>1. reported \in Seq(Finding)
      BY DEF TypeOK
    <3>2. PICK k \in DOMAIN reported :
              k >= i /\ Same(reported[i], reported[k]) /\ LastOnRange(k)
      BY <3>1, SomeLast
    <3>3. k = i \/ k > i
      BY <3>1, <3>2
    <3>4. reported[k].family \in Failing
      BY <2>3, <3>2, <3>3 DEF Failing
    <3> QED
      BY <2>2, <3>2, <3>4
  <2> QED
    BY <2>2, <2>3
<1> QED
  BY <1>1, TypeCorrect, PTL

-----------------------------------------------------------------------------
(* Sorting *)

(* What union lists.                                                       *)
Interval == {r \in [start : Nat, end : Nat] : r.start < r.end}

(* Starts never decrease.                                                  *)
InOrderUpTo(sq) == \A i, j \in DOMAIN sq : i < j => sq[i].start <= sq[j].start

(* The order that union sorts by is total, so ranks are distinct.          *)
LEMMA OrderIsTotal ==
    /\ \A p, q \in Interval : p # q => InOrder(p, q) \/ InOrder(q, p)
    /\ \A p \in Interval : ~InOrder(p, p)
    /\ \A p, q, r \in Interval : InOrder(p, q) /\ InOrder(q, r) => InOrder(p, r)
<1>1. \A p \in Interval : p.start \in Nat /\ p.end \in Nat
                            /\ p = [start |-> p.start, end |-> p.end]
  BY DEF Interval
<1>2. ASSUME NEW p \in Interval, NEW q \in Interval, p # q
      PROVE  InOrder(p, q) \/ InOrder(q, p)
  <2>1. p.start # q.start \/ p.end # q.end
    BY <1>1, <1>2
  <2> QED
    BY <1>1, <2>1 DEF InOrder
<1>3. ASSUME NEW p \in Interval PROVE ~InOrder(p, p)
  BY <1>1 DEF InOrder
<1>4. ASSUME NEW p \in Interval, NEW q \in Interval, NEW r \in Interval,
             InOrder(p, q), InOrder(q, r)
      PROVE  InOrder(p, r)
  BY <1>1, <1>4 DEF InOrder
<1> QED
  BY <1>2, <1>3, <1>4

(* Sorted lists each range of a finite set once, by its start.             *)
LEMMA SortedSorts ==
    ASSUME NEW S \in SUBSET Interval, IsFiniteSet(S)
    PROVE  /\ Sorted(S) \in Seq(Interval)
           /\ Len(Sorted(S)) = Cardinality(S)
           /\ \A i \in DOMAIN Sorted(S) : Sorted(S)[i] \in S
           /\ \A r \in S : \E i \in DOMAIN Sorted(S) : Sorted(S)[i] = r
           /\ InOrderUpTo(Sorted(S))
<1> DEFINE n == Cardinality(S)
           Before(r) == {q \in S : InOrder(q, r)}
           rank == [r \in S |-> Cardinality(Before(r))]
<1>1. n \in Nat
  BY FS_CardinalityType
<1>2. \A r \in S : Before(r) \in SUBSET S /\ r \notin Before(r) /\ IsFiniteSet(Before(r))
  <2>1. \A r \in S : Before(r) \in SUBSET S /\ r \notin Before(r)
    BY OrderIsTotal
  <2> QED
    BY <2>1, FS_Subset
<1>3. ASSUME NEW p \in S, NEW r \in S, InOrder(p, r) PROVE rank[p] < rank[r]
  <2>1. Before(p) \in SUBSET Before(r) /\ p \in Before(r) /\ p \notin Before(p)
    BY <1>2, <1>3, OrderIsTotal
  <2>2. IsFiniteSet(Before(r)) /\ IsFiniteSet(Before(p))
    BY <1>2
  <2> HIDE DEF Before
  <2>3. Cardinality(Before(p)) <= Cardinality(Before(r))
          /\ Cardinality(Before(p)) # Cardinality(Before(r))
    BY <2>1, <2>2, FS_Subset
  <2>4. Cardinality(Before(p)) \in Nat /\ Cardinality(Before(r)) \in Nat
    BY <2>2, FS_CardinalityType
  <2> QED
    BY <2>3, <2>4
<1>4. \A r \in S : rank[r] \in 0..(n - 1)
  <2> SUFFICES ASSUME NEW r \in S PROVE Cardinality(Before(r)) \in 0..(n - 1)
    OBVIOUS
  <2>1. Before(r) \in SUBSET S /\ r \in S /\ r \notin Before(r) /\ IsFiniteSet(Before(r))
    BY <1>2
  <2> HIDE DEF Before
  <2>2. Cardinality(Before(r)) <= n /\ Cardinality(Before(r)) # n /\ Cardinality(Before(r)) \in Nat
    BY <2>1, FS_Subset, FS_CardinalityType
  <2> QED
    BY <1>1, <2>2
<1>5. rank \in Injection(S, 0..(n - 1))
  <2>1. ASSUME NEW p \in S, NEW r \in S, p # r PROVE rank[p] # rank[r]
    <3>1. rank[p] \in Int /\ rank[r] \in Int
      BY <1>4
    <3>2. InOrder(p, r) \/ InOrder(r, p)
      BY <2>1, OrderIsTotal
    <3> QED
      BY <1>3, <3>1, <3>2
  <2> HIDE DEF n
  <2> QED
    BY <1>4, <2>1 DEF Injection, IsInjective
<1>6. rank \in Surjection(S, 0..(n - 1))
  <2>1. IsFiniteSet(0..(n - 1)) /\ Cardinality(0..(n - 1)) = n
    BY <1>1, FS_Interval
  <2> HIDE DEF rank
  <2> QED
    BY <1>5, <2>1, FS_Injection
<1>7. \A i \in 1..n : Sorted(S)[i] \in S /\ rank[Sorted(S)[i]] = i - 1
  <2> SUFFICES ASSUME NEW i \in 1..n
               PROVE  Sorted(S)[i] \in S /\ rank[Sorted(S)[i]] = i - 1
    OBVIOUS
  <2>1. \E r \in S : rank[r] = i - 1
    <3>1. i - 1 \in 0..(n - 1)
      BY <1>1
    <3> HIDE DEF n, rank
    <3> QED
      BY <1>6, <3>1 DEF Surjection
  <2>2. Sorted(S)[i] = CHOOSE r \in S : Cardinality(Before(r)) = i - 1
    BY DEF Sorted
  <2> QED
    BY <2>1, <2>2
<1>8. Sorted(S) \in [1..n -> Interval] /\ DOMAIN Sorted(S) = 1..n
  <2> DEFINE pick(i) == CHOOSE r \in S : Cardinality(Before(r)) = i - 1
  <2>1. Sorted(S) = [i \in 1..n |-> pick(i)]
    BY DEF Sorted
  <2> HIDE DEF n, rank, pick
  <2>2. \A i \in 1..n : Sorted(S)[i] = pick(i)
    BY <2>1
  <2> QED
    BY <1>7, <2>1, <2>2
<1>9. Sorted(S) \in Seq(Interval) /\ Len(Sorted(S)) = n
  <2> HIDE DEF n, rank
  <2> QED
    BY <1>1, <1>8
<1>10. \A r \in S : \E i \in DOMAIN Sorted(S) : Sorted(S)[i] = r
  <2> SUFFICES ASSUME NEW r \in S PROVE \E i \in 1..n : Sorted(S)[i] = r
    BY <1>8
  <2>1. rank[r] + 1 \in 1..n
    BY <1>1, <1>4
  <2>2. Sorted(S)[rank[r] + 1] \in S /\ rank[Sorted(S)[rank[r] + 1]] = rank[r]
    BY <1>1, <1>4, <1>7, <2>1
  <2>3. Sorted(S)[rank[r] + 1] = r
    <3> HIDE DEF n, rank
    <3> QED
      BY <1>5, <2>2 DEF Injection, IsInjective
  <2> QED
    BY <2>1, <2>3
<1>11. InOrderUpTo(Sorted(S))
  <2> SUFFICES ASSUME NEW i \in 1..n, NEW j \in 1..n, i < j
               PROVE  Sorted(S)[i].start <= Sorted(S)[j].start
    BY <1>8 DEF InOrderUpTo
  <2> DEFINE p == Sorted(S)[i]
             r == Sorted(S)[j]
  <2>1. p \in S /\ r \in S /\ rank[p] = i - 1 /\ rank[r] = j - 1
    BY <1>7
  <2> HIDE DEF p, r, rank
  <2>2. ~InOrder(r, p)
    BY <1>3, <2>1
  <2>3. p \in Interval /\ r \in Interval
    BY <2>1
  <2>4. p.start <= r.start
    BY <2>2, <2>3 DEF InOrder, Interval
  <2> QED
    BY <2>4 DEF p, r
<1> QED
  BY <1>7, <1>8, <1>9, <1>10, <1>11

-----------------------------------------------------------------------------
(* union *)

(* Byte x is in the range r.                                               *)
In(x, r) == r.start <= x /\ x < r.end

(* The bytes of a list of intervals.                                       *)
BytesIn(sq) == {x \in Nat : \E i \in DOMAIN sq : In(x, sq[i])}

(* No two intervals of a list share a byte, and earlier ones come first.   *)
Apart(sq) == \A i, j \in DOMAIN sq : i < j => sq[i].end <= sq[j].start

(* One step of union: the intervals stay apart, and they gain the bytes of *)
(* the range, as long as ranges come by their start.                       *)
LEMMA MergeOne ==
    ASSUME NEW m \in Seq(Interval), NEW r \in Interval, Apart(m),
           m # << >> => m[Len(m)].start <= r.start
    PROVE  /\ Merge(m, r) \in Seq(Interval)
           /\ Apart(Merge(m, r))
           /\ BytesIn(Merge(m, r)) = BytesIn(m) \cup {x \in Nat : In(x, r)}
           /\ Merge(m, r) # << >>
           /\ Merge(m, r)[Len(Merge(m, r))].start <= r.start
<1> DEFINE k == Len(m)
<1>1. k \in Nat /\ DOMAIN m = 1..k /\ (m # << >> <=> k > 0)
  OBVIOUS
<1>2. \A i \in 1..k : m[i] \in Interval /\ m[i].start \in Nat /\ m[i].end \in Nat
                        /\ m[i].start < m[i].end
  BY <1>1 DEF Interval
<1>3. r.start \in Nat /\ r.end \in Nat /\ r.start < r.end
  BY DEF Interval
<1>4. CASE m # << >> /\ r.start <= Last(m).end
  <2> DEFINE e == IF m[k].end >= r.end THEN m[k].end ELSE r.end
             w == [m EXCEPT ![k].end = e]
  <2>1. Merge(m, r) = w
    BY <1>1, <1>4 DEF Merge, Last
  <2>2. k \in 1..k /\ e \in Nat /\ e >= m[k].end /\ e >= r.end /\ (e = m[k].end \/ e = r.end)
    BY <1>1, <1>2, <1>3, <1>4
  <2>3. m[k].start <= r.start /\ r.start <= m[k].end
    BY <1>1, <1>4 DEF Last
  <2> HIDE DEF e
  <2>4. [m[k] EXCEPT !.end = e] \in Interval
    BY <1>2, <2>2 DEF Interval
  <2>5. w \in Seq(Interval) /\ Len(w) = k /\ DOMAIN w = 1..k
    BY <1>1, <2>2, <2>4
  <2>6. \A i \in 1..k : w[i].start = m[i].start /\ w[i].end = IF i = k THEN e ELSE m[i].end
    BY <1>1, <1>2, <2>2 DEF Interval
  <2> HIDE DEF w, k
  <2>7. Apart(w)
    BY <1>1, <1>2, <2>2, <2>5, <2>6 DEF Apart
  <2>8. ASSUME NEW x \in Nat
        PROVE  (\E i \in 1..k : In(x, w[i])) <=> (\E i \in 1..k : In(x, m[i])) \/ In(x, r)
    <3>1. \A i \in 1..k : i # k => (In(x, w[i]) <=> In(x, m[i]))
      BY <2>6 DEF In
    <3>2. In(x, w[k]) <=> In(x, m[k]) \/ In(x, r)
      BY <1>2, <1>3, <2>2, <2>3, <2>6 DEF In
    <3> QED
      BY <2>2, <3>1, <3>2
  <2>9. BytesIn(w) = BytesIn(m) \cup {x \in Nat : In(x, r)}
    BY <1>1, <2>5, <2>8 DEF BytesIn
  <2>10. w # << >> /\ w[k].start <= r.start
    BY <2>2, <2>3, <2>5, <2>6
  <2> QED
    BY <2>1, <2>5, <2>7, <2>9, <2>10
<1>5. CASE ~(m # << >> /\ r.start <= Last(m).end)
  <2> DEFINE w == Append(m, r)
  <2>1. Merge(m, r) = w
    BY <1>5 DEF Merge
  <2>2. w \in Seq(Interval) /\ Len(w) = k + 1 /\ DOMAIN w = 1..(k + 1)
          /\ w[k + 1] = r /\ \A i \in 1..k : w[i] = m[i]
    BY <1>1
  <2>3. k > 0 => m[k].end < r.start
    BY <1>1, <1>2, <1>3, <1>5 DEF Last
  <2> HIDE DEF w, k
  <2>4. \A i \in 1..k : m[i].end <= r.start
    <3> SUFFICES ASSUME NEW i \in 1..k PROVE m[i].end <= r.start
      OBVIOUS
    <3>1. k \in 1..k /\ k > 0
      BY <1>1
    <3>2. i < k => m[i].end <= m[k].start
      BY <1>1, <3>1 DEF Apart
    <3> QED
      BY <1>1, <1>2, <1>3, <2>3, <3>1, <3>2
  <2>5. Apart(w)
    <3> SUFFICES ASSUME NEW i \in 1..(k + 1), NEW j \in 1..(k + 1), i < j
                 PROVE  w[i].end <= w[j].start
      BY <2>2 DEF Apart
    <3>1. i \in 1..k
      BY <1>1
    <3>2. CASE j = k + 1
      BY <2>2, <2>4, <3>1, <3>2
    <3>3. CASE j \in 1..k
      BY <1>1, <2>2, <3>1, <3>3 DEF Apart
    <3> QED
      BY <1>1, <3>2, <3>3
  <2>6. ASSUME NEW x \in Nat
        PROVE  (\E i \in 1..(k + 1) : In(x, w[i])) <=> (\E i \in 1..k : In(x, m[i])) \/ In(x, r)
    BY <1>1, <2>2
  <2>7. BytesIn(w) = BytesIn(m) \cup {x \in Nat : In(x, r)}
    BY <1>1, <2>2, <2>6 DEF BytesIn
  <2>8. w # << >> /\ w[k + 1].start <= r.start
    BY <1>1, <1>3, <2>2
  <2> QED
    BY <2>1, <2>2, <2>5, <2>7, <2>8
<1> QED
  BY <1>4, <1>5

(* A step of union keeps a list of intervals, wherever the range starts.   *)
LEMMA MergeTypes ==
    ASSUME NEW m \in Seq(Interval), NEW r \in Interval
    PROVE  Merge(m, r) \in Seq(Interval)
<1>1. CASE m # << >> /\ r.start <= Last(m).end
  <2> DEFINE k == Len(m)
             e == IF m[k].end >= r.end THEN m[k].end ELSE r.end
  <2>1. k \in DOMAIN m /\ m[k] \in Interval /\ Last(m) = m[k]
    BY <1>1 DEF Last
  <2>2. /\ m[k].start \in Nat /\ m[k].end \in Nat /\ m[k].start < m[k].end
        /\ e \in Nat /\ e >= m[k].end
    BY <2>1 DEF Interval
  <2>3. Merge(m, r) = [m EXCEPT ![k] = [m[k] EXCEPT !.end = e]]
    BY <1>1, <2>1 DEF Merge
  <2> HIDE DEF e, k
  <2>4. [m[k] EXCEPT !.end = e] \in Interval
    <3>1. m[k] \in [start : Nat, end : Nat]
      BY <2>1 DEF Interval
    <3>2. [m[k] EXCEPT !.end = e] = [start |-> m[k].start, end |-> e]
      BY <3>1
    <3> QED
      BY <2>2, <3>2 DEF Interval
  <2> QED
    BY <2>1, <2>3, <2>4
<1>2. CASE ~(m # << >> /\ r.start <= Last(m).end)
  BY <1>2 DEF Merge
<1> QED
  BY <1>1, <1>2

(* union as a chain of its steps.                                          *)
LEMMA MergeFold ==
    ASSUME NEW sq \in Seq(Interval)
    PROVE  \E h \in [0..Len(sq) -> Seq(Interval)] :
              /\ h[0] = << >>
              /\ FoldLeft(Merge, << >>, sq) = h[Len(sq)]
              /\ \A i \in 1..Len(sq) : h[i] = Merge(h[i - 1], sq[i])
<1> DEFINE n == Len(sq)
           V == Seq(Interval)
           F == [i \in 1..n |-> [v \in V |-> Merge(v, sq[i])]]
           Sweep(g) == g = [s \in SUBSET (1..n) |->
                              IF s = {} THEN << >> ELSE Merge(g[s \ {Max(s)}], sq[Max(s)])]
<1>1. n \in Nat /\ DOMAIN sq = 1..n /\ << >> \in V
  OBVIOUS
<1>2. F \in [1..n -> [V -> V]]
  BY <1>1, MergeTypes
<1>3. PICK g : Chain(g, n, V, << >>, F)
  <2> HIDE DEF n, V, F
  <2> QED
    BY <1>1, <1>2, ChainExists
<1>4. g \in [SUBSET (1..n) -> V] /\ g[{}] = << >>
        /\ \A s \in SUBSET (1..n) : s # {} => Max(s) \in s /\ g[s] = Merge(g[s \ {Max(s)}], sq[Max(s)])
  BY <1>3 DEF Chain
<1>5. PICK c : c = (CHOOSE k : Sweep(k)) /\ Sweep(c)
  <2> HIDE DEF V, F, n
  <2>1. Sweep(g)
    BY <1>4
  <2> QED
    BY <2>1
<1>6. FoldLeft(Merge, << >>, sq) = c[1..n]
  BY <1>1, <1>5 DEF FoldLeft, MapThenFoldSet
<1>7. c[1..n] = g[1..n]
  <2> HIDE DEF V, F, n
  <2>1. c[{}] = g[{}] /\ \A s \in SUBSET (1..n) :
              s # {} /\ c[s \ {Max(s)}] = g[s \ {Max(s)}] => c[s] = g[s]
    BY <1>4, <1>5
  <2> QED
    BY <1>1, <2>1, ChainAgrees
<1>8. PICK h \in [0..n -> V] :
        h[0] = << >> /\ h[n] = g[1..n] /\ \A i \in 1..n : h[i] = F[i][h[i - 1]]
  <2> HIDE DEF V, F, n
  <2> QED
    BY <1>1, <1>3, ChainSteps
<1>9. ASSUME NEW i \in 1..n PROVE h[i] = Merge(h[i - 1], sq[i])
  <2>1. h[i - 1] \in V /\ h[i] = F[i][h[i - 1]]
    <3> HIDE DEF n, V, F
    <3>1. i - 1 \in 0..n
      BY <1>1
    <3> QED
      BY <1>8, <3>1
  <2> QED
    BY <2>1
<1> QED
  BY <1>6, <1>7, <1>8, <1>9

(* Ranges with a byte in them.                                             *)
RangesOf(R) == \A r \in R : r.start \in Nat /\ r.end \in Nat /\ r.start < r.end

(* The bytes of a set of ranges are those some range contains.             *)
LEMMA BytesAreIn ==
    ASSUME NEW R, RangesOf(R)
    PROVE  BytesOf(R) = {x \in Nat : \E r \in R : In(x, r)}
<1>1. \A r \in R : \A x : x \in r.start .. (r.end - 1) <=> x \in Nat /\ In(x, r)
  BY DEF RangesOf, In
<1> QED
  BY <1>1 DEF BytesOf

(* Ranges that differ in their other fields only are one interval.         *)
LEMMA SpansOf ==
    ASSUME NEW R, IsFiniteSet(R), RangesOf(R)
    PROVE  /\ {Span(r) : r \in R} \in SUBSET Interval
           /\ IsFiniteSet({Span(r) : r \in R})
           /\ \A x : (\E s \in {Span(r) : r \in R} : In(x, s)) <=> \E r \in R : In(x, r)
<1>1. \A r \in R : Span(r) \in Interval /\ \A x : In(x, Span(r)) <=> In(x, r)
  BY DEF RangesOf, Span, Interval, In
<1>2. IsFiniteSet({Span(r) : r \in R})
  <2> DEFINE T == {Span(r) : r \in R}
             f == [r \in R |-> Span(r)]
  <2>1. f \in Surjection(R, T)
    BY DEF Surjection
  <2> HIDE DEF f, T
  <2>2. IsFiniteSet(T)
    BY <2>1, FS_Surjection
  <2> QED
    BY <2>2 DEF T
<1> QED
  BY <1>1, <1>2

(* union: intervals apart, with exactly the bytes of the ranges.           *)
LEMMA UnionCovers ==
    ASSUME NEW R, IsFiniteSet(R), RangesOf(R)
    PROVE  /\ Union(R) \in Seq(Interval)
           /\ Apart(Union(R))
           /\ BytesIn(Union(R)) = BytesOf(R)
<1> DEFINE S == {Span(r) : r \in R}
           sq == Sorted(S)
           n == Len(sq)
<1>1. S \in SUBSET Interval /\ IsFiniteSet(S)
  BY SpansOf
<1>2. /\ sq \in Seq(Interval) /\ InOrderUpTo(sq)
      /\ \A i \in DOMAIN sq : sq[i] \in S
      /\ \A r \in S : \E i \in DOMAIN sq : sq[i] = r
  <2> HIDE DEF S
  <2> QED
    BY <1>1, SortedSorts
<1>3. n \in Nat /\ DOMAIN sq = 1..n
  <2> HIDE DEF sq
  <2> QED
    BY <1>2
<1>4. PICK h \in [0..n -> Seq(Interval)] :
              /\ h[0] = << >>
              /\ FoldLeft(Merge, << >>, sq) = h[n]
              /\ \A i \in 1..n : h[i] = Merge(h[i - 1], sq[i])
  <2> HIDE DEF sq
  <2> QED
    BY <1>2, MergeFold
<1>5. Union(R) = h[n]
  BY <1>4 DEF Union
<1> HIDE DEF sq, n, S
<1> DEFINE Good(i) == /\ Apart(h[i])
                      /\ BytesIn(h[i]) = {x \in Nat : \E k \in 1..i : In(x, sq[k])}
                      /\ IF i = 0 THEN h[i] = << >>
                         ELSE h[i] # << >> /\ h[i][Len(h[i])].start <= sq[i].start
           T == {i \in 0..n : Good(i)}
<1>6. Good(0)
  BY <1>4 DEF Apart, BytesIn
<1>7. ASSUME NEW i \in 1..n, Good(i - 1) PROVE Good(i)
  <2>1. sq[i] \in Interval /\ i - 1 \in 0..n /\ h[i - 1] \in Seq(Interval)
    BY <1>2, <1>3, <1>4
  <2>2. h[i - 1] # << >> => h[i - 1][Len(h[i - 1])].start <= sq[i].start
    <3> SUFFICES ASSUME h[i - 1] # << >>
                 PROVE  h[i - 1][Len(h[i - 1])].start <= sq[i].start
      OBVIOUS
    <3>1. i - 1 # 0 /\ i - 1 \in 1..n
      BY <1>3, <1>7
    <3>2. h[i - 1][Len(h[i - 1])].start <= sq[i - 1].start
      BY <1>7, <3>1
    <3>3. sq[i - 1].start <= sq[i].start
      <4>1. i - 1 \in DOMAIN sq /\ i \in DOMAIN sq /\ i - 1 < i
        BY <1>3, <3>1
      <4>2. \A a, b \in DOMAIN sq : a < b => sq[a].start <= sq[b].start
        BY <1>2 DEF InOrderUpTo
      <4> HIDE DEF Good
      <4> QED
        BY <4>1, <4>2
    <3>4. h[i - 1][Len(h[i - 1])] \in Interval /\ sq[i - 1] \in Interval
      BY <1>2, <1>3, <2>1, <3>1
    <3>5. h[i - 1][Len(h[i - 1])].start \in Nat /\ sq[i - 1].start \in Nat /\ sq[i].start \in Nat
      BY <2>1, <3>4 DEF Interval
    <3> QED
      BY <3>2, <3>3, <3>5
  <2>3. h[i] = Merge(h[i - 1], sq[i])
    BY <1>4
  <2>4. /\ Apart(h[i])
        /\ BytesIn(h[i]) = BytesIn(h[i - 1]) \cup {x \in Nat : In(x, sq[i])}
        /\ h[i] # << >>
        /\ h[i][Len(h[i])].start <= sq[i].start
    BY <1>7, <2>1, <2>2, <2>3, MergeOne
  <2>5. BytesIn(h[i - 1]) = {x \in Nat : \E k \in 1..(i - 1) : In(x, sq[k])}
    BY <1>7
  <2>6. 1..i = (1..(i - 1)) \cup {i}
    BY <1>3
  <2>7. BytesIn(h[i]) = {x \in Nat : \E k \in 1..i : In(x, sq[k])}
    BY <2>4, <2>5, <2>6
  <2>8. i # 0
    BY <1>3
  <2> QED
    BY <2>4, <2>7, <2>8
<1>8. n \in T
  <2>1. 0 \in T /\ \A i \in 1..n : i - 1 \in T => i \in T
    <3> HIDE DEF Good
    <3> QED
      BY <1>3, <1>6, <1>7
  <2>2. \A i \in 0..n : i \in T
    <3> HIDE DEF T
    <3> QED
      BY <1>3, <2>1, StepByStep
  <2> QED
    BY <1>3, <2>2
<1>9. \A x : (\E k \in 1..n : In(x, sq[k])) <=> (\E r \in R : In(x, r))
  <2>1. \A x : (\E k \in 1..n : In(x, sq[k])) <=> (\E s \in S : In(x, s))
    BY <1>2, <1>3
  <2>2. \A x : (\E s \in S : In(x, s)) <=> \E r \in R : In(x, r)
    BY SpansOf DEF S
  <2> QED
    BY <2>1, <2>2
<1> QED
  BY <1>3, <1>4, <1>5, <1>8, <1>9, BytesAreIn

-----------------------------------------------------------------------------
(* bytesOutside *)

(* The cursor of bytesOutsideOne as a chain of its steps.                  *)
LEMMA CursorFold ==
    ASSUME NEW r \in Interval, NEW kept \in Seq(Interval)
    PROVE  \E h \in [0..Len(kept) -> [cursor : Nat, total : Nat]] :
              /\ h[0] = [cursor |-> r.start, total |-> 0]
              /\ \A i \in 1..Len(kept) :
                    h[i] = IF kept[i].end <= h[i - 1].cursor \/ kept[i].start >= r.end THEN h[i - 1]
                           ELSE [cursor |-> kept[i].end,
                                 total  |-> h[i - 1].total
                                    + IF kept[i].start > h[i - 1].cursor
                                      THEN kept[i].start - h[i - 1].cursor ELSE 0]
              /\ BytesOutsideOne(r, kept) =
                    h[Len(kept)].total
                    + IF h[Len(kept)].cursor < r.end THEN r.end - h[Len(kept)].cursor ELSE 0
<1> DEFINE n == Len(kept)
           V == [cursor : Nat, total : Nat]
           Step(at, c) ==
               IF c.end <= at.cursor \/ c.start >= r.end THEN at
               ELSE [cursor |-> c.end,
                     total  |-> at.total + IF c.start > at.cursor THEN c.start - at.cursor ELSE 0]
           b == [cursor |-> r.start, total |-> 0]
           F == [i \in 1..n |-> [v \in V |-> Step(v, kept[i])]]
           Sweep(g) == g = [s \in SUBSET (1..n) |->
                              IF s = {} THEN b ELSE Step(g[s \ {Max(s)}], kept[Max(s)])]
<1>1. n \in Nat /\ DOMAIN kept = 1..n /\ b \in V /\ \A i \in 1..n : kept[i] \in Interval
  BY DEF Interval
<1>0. ASSUME NEW v \in V, NEW c \in Interval PROVE Step(v, c) \in V
  <2>1. c.start \in Nat /\ c.end \in Nat /\ v.cursor \in Nat /\ v.total \in Nat
    BY DEF Interval
  <2>2. v.total + (IF c.start > v.cursor THEN c.start - v.cursor ELSE 0) \in Nat
    BY <2>1
  <2> QED
    BY <2>1, <2>2
<1>2. F \in [1..n -> [V -> V]]
  <2> HIDE DEF Step, V, n
  <2> QED
    BY <1>0, <1>1
<1>3. PICK g : Chain(g, n, V, b, F)
  <2> HIDE DEF n, V, F, b
  <2> QED
    BY <1>1, <1>2, ChainExists
<1>4. g \in [SUBSET (1..n) -> V] /\ g[{}] = b
        /\ \A s \in SUBSET (1..n) : s # {} => Max(s) \in s /\ g[s] = Step(g[s \ {Max(s)}], kept[Max(s)])
  <2> HIDE DEF Step, V, n, b
  <2> QED
    BY <1>3 DEF Chain
<1>5. PICK c : c = (CHOOSE k : Sweep(k)) /\ Sweep(c)
  <2> HIDE DEF V, F, n, Step, b
  <2>1. Sweep(g)
    BY <1>4
  <2> QED
    BY <2>1
<1>7. c[1..n] = g[1..n]
  <2> HIDE DEF V, F, n, Step, b
  <2>1. c[{}] = g[{}] /\ \A s \in SUBSET (1..n) :
              s # {} /\ c[s \ {Max(s)}] = g[s \ {Max(s)}] => c[s] = g[s]
    <3>1. c[{}] = b /\ g[{}] = b
      BY <1>4, <1>5
    <3>2. ASSUME NEW s \in SUBSET (1..n), s # {}, c[s \ {Max(s)}] = g[s \ {Max(s)}]
          PROVE  c[s] = g[s]
      <4>1. c[s] = Step(c[s \ {Max(s)}], kept[Max(s)])
        <5> HIDE <1>4
        <5> QED BY <1>5, <3>2
      <4>2. g[s] = Step(g[s \ {Max(s)}], kept[Max(s)])
        BY <1>4, <3>2
      <4> QED
        BY <3>2, <4>1, <4>2
    <3> QED
      BY <3>1, <3>2
  <2> QED
    BY <1>1, <2>1, ChainAgrees
<1>6. BytesOutsideOne(r, kept) =
        c[1..n].total + IF c[1..n].cursor < r.end THEN r.end - c[1..n].cursor ELSE 0
  BY <1>1, <1>5 DEF BytesOutsideOne, FoldLeft, MapThenFoldSet
<1>8. PICK h \in [0..n -> V] :
        h[0] = b /\ h[n] = g[1..n] /\ \A i \in 1..n : h[i] = F[i][h[i - 1]]
  <2> HIDE DEF V, F, n, b
  <2> QED
    BY <1>1, <1>3, ChainSteps
<1>9. ASSUME NEW i \in 1..n PROVE h[i] = Step(h[i - 1], kept[i])
  <2>1. h[i - 1] \in V /\ h[i] = F[i][h[i - 1]]
    <3> HIDE DEF n, V, F
    <3>1. i - 1 \in 0..n
      BY <1>1
    <3> QED
      BY <1>8, <3>1
  <2> HIDE DEF Step, V
  <2> QED
    BY <2>1
<1> QED
  BY <1>6, <1>7, <1>8, <1>9

(* A stretch of bytes beside others adds its length.                       *)
LEMMA StretchAdded ==
    ASSUME NEW A, IsFiniteSet(A), NEW a \in Nat, NEW b \in Nat, a <= b,
           A \cap (a..(b - 1)) = {}
    PROVE  /\ IsFiniteSet(A \cup (a..(b - 1)))
           /\ Cardinality(A \cup (a..(b - 1))) = Cardinality(A) + (b - a)
<1> DEFINE B == a..(b - 1)
<1>1. IsFiniteSet(B) /\ Cardinality(B) = b - a
  <2>1. PICK c \in Int : c = b - 1
    OBVIOUS
  <2>2. IsFiniteSet(a..c) /\ Cardinality(a..c) = IF a > c THEN 0 ELSE c - a + 1
    BY FS_Interval
  <2> QED
    BY <2>1, <2>2
<1>2. A \cap B = {}
  OBVIOUS
<1> HIDE DEF B
<1>3. IsFiniteSet(A \cup B) /\ Cardinality(A \cup B) = Cardinality(A) + Cardinality(B) - Cardinality(A \cap B)
  BY <1>1, FS_Union
<1>4. Cardinality(A \cap B) = 0 /\ Cardinality(A) \in Nat /\ Cardinality(B) \in Nat
  BY <1>1, <1>2, FS_EmptySet, FS_CardinalityType
<1>5. Cardinality(A \cup B) = Cardinality(A) + Cardinality(B)
  BY <1>3, <1>4
<1> QED
  BY <1>1, <1>3, <1>5 DEF B

(* bytesOutsideOne counts the bytes of one range that no kept interval     *)
(* contains: what the cursor has passed is counted, and no interval it     *)
(* passed reaches beyond it.                                               *)
LEMMA CursorCounts ==
    ASSUME NEW r \in Interval, NEW kept \in Seq(Interval), Apart(kept)
    PROVE  /\ IsFiniteSet({x \in Nat : In(x, r)} \ BytesIn(kept))
           /\ BytesOutsideOne(r, kept) = Cardinality({x \in Nat : In(x, r)} \ BytesIn(kept))
<1> DEFINE n == Len(kept)
           V == [cursor : Nat, total : Nat]
           Below(y) == {x \in Nat : r.start <= x /\ x < y /\ x < r.end /\ x \notin BytesIn(kept)}
<1>1. /\ n \in Nat /\ DOMAIN kept = 1..n
      /\ r.start \in Nat /\ r.end \in Nat /\ r.start < r.end
      /\ \A i \in 1..n : kept[i].start \in Nat /\ kept[i].end \in Nat /\ kept[i].start < kept[i].end
  <2>1. n \in Nat /\ DOMAIN kept = 1..n /\ \A i \in 1..n : kept[i] \in Interval
    OBVIOUS
  <2> QED
    BY <2>1 DEF Interval
<1>2. PICK h \in [0..n -> V] :
              /\ h[0] = [cursor |-> r.start, total |-> 0]
              /\ \A i \in 1..n :
                    h[i] = IF kept[i].end <= h[i - 1].cursor \/ kept[i].start >= r.end THEN h[i - 1]
                           ELSE [cursor |-> kept[i].end,
                                 total  |-> h[i - 1].total
                                    + IF kept[i].start > h[i - 1].cursor
                                      THEN kept[i].start - h[i - 1].cursor ELSE 0]
              /\ BytesOutsideOne(r, kept) =
                    h[n].total + IF h[n].cursor < r.end THEN r.end - h[n].cursor ELSE 0
  BY CursorFold
<1>3. \A i, j \in 1..n : i < j => kept[i].end <= kept[j].start
  BY <1>1 DEF Apart
<1>4. \A x \in Nat : x \in BytesIn(kept) <=> \E i \in 1..n : kept[i].start <= x /\ x < kept[i].end
  BY <1>1 DEF BytesIn, In
<1>5. \A i \in 0..n : h[i].cursor \in Nat /\ h[i].total \in Nat
  BY <1>2
<1> HIDE DEF n, V
<1> DEFINE Passed(i) == \A k \in 1..i : kept[k].start < r.end => kept[k].end <= h[i].cursor
           Good(i) == /\ r.start <= h[i].cursor
                      /\ IsFiniteSet(Below(h[i].cursor))
                      /\ h[i].total = Cardinality(Below(h[i].cursor))
                      /\ Passed(i)
           T == {i \in 0..n : Good(i)}
<1>6. Good(0)
  <2>1. h[0].cursor = r.start /\ h[0].total = 0
    BY <1>2
  <2>2. Below(r.start) = {}
    BY <1>1
  <2>3. IsFiniteSet({}) /\ Cardinality({}) = 0
    BY FS_EmptySet
  <2> HIDE DEF Below
  <2> QED
    BY <1>1, <2>1, <2>2, <2>3
<1>7. ASSUME NEW i \in 1..n, Good(i - 1) PROVE Good(i)
  <2> DEFINE at == h[i - 1].cursor
             s == kept[i].start
             e == kept[i].end
  <2>1. /\ at \in Nat /\ s \in Nat /\ e \in Nat /\ s < e /\ r.start <= at
        /\ h[i - 1].total \in Nat /\ i - 1 \in 0..n
    BY <1>1, <1>5, <1>7
  <2>2. CASE e <= at \/ s >= r.end
    <3>1. h[i] = h[i - 1]
      BY <1>2, <2>2
    <3>2. Passed(i)
      <4> SUFFICES ASSUME NEW k \in 1..i, kept[k].start < r.end
                   PROVE  kept[k].end <= at
        BY <3>1
      <4>1. CASE k = i
        BY <2>1, <2>2, <4>1, <1>1
      <4>2. CASE k \in 1..(i - 1)
        BY <1>7, <4>2
      <4> QED
        BY <1>1, <4>1, <4>2
    <3> HIDE DEF Below, Passed
    <3> QED
      BY <1>7, <3>1, <3>2
  <2>3. CASE ~(e <= at \/ s >= r.end)
    <3>1. /\ h[i].cursor = e
          /\ h[i].total = h[i - 1].total + IF s > at THEN s - at ELSE 0
      <4>1. h[i] = [cursor |-> e,
                    total |-> h[i - 1].total + IF s > at THEN s - at ELSE 0]
        <5> HIDE DEF Good, T
        <5> QED
          BY <1>2, <2>3
      <4> QED
        BY <4>1
    <3>2. at < e /\ s < r.end
      BY <1>1, <2>1, <2>3
    <3>3. Passed(i)
      <4> SUFFICES ASSUME NEW k \in 1..i, kept[k].start < r.end
                   PROVE  kept[k].end <= e
        BY <3>1
      <4>1. CASE k = i
        BY <2>1, <4>1
      <4>2. CASE k \in 1..(i - 1)
        <5>1. kept[k].end <= at /\ kept[k].end \in Nat
          BY <1>1, <1>7, <4>2
        <5> QED
          BY <2>1, <3>2, <5>1
      <4> QED
        BY <1>1, <4>1, <4>2
    <3>4. \A x \in Nat : s <= x /\ x < e => x \in BytesIn(kept)
      BY <1>4
    <3>5. ASSUME NEW x \in Nat, at <= x, x < s, x < r.end PROVE x \notin BytesIn(kept)
      <4> SUFFICES ASSUME NEW k \in 1..n, kept[k].start <= x, x < kept[k].end
                   PROVE  FALSE
        BY <1>4
      <4>0. kept[k].start \in Nat /\ kept[k].end \in Nat /\ kept[k].start < kept[k].end
        BY <1>1
      <4>1. CASE k \in 1..(i - 1)
        <5>1. kept[k].start < r.end
          BY <1>1, <3>5, <4>0
        <5>2. kept[k].end <= at
          BY <1>7, <4>1, <5>1
        <5> QED
          BY <2>1, <3>5, <4>0, <5>2
      <4>2. CASE k = i
        BY <2>1, <3>5, <4>2
      <4>3. CASE k > i
        <5>1. e <= kept[k].start
          BY <1>3, <4>3
        <5> QED
          BY <2>1, <3>5, <4>0, <5>1
      <4> QED
        BY <1>1, <4>1, <4>2, <4>3
    <3>6. CASE s > at
      <4>1. Below(e) = Below(at) \cup (at..(s - 1))
        <5>1. ASSUME NEW x \in Below(e) PROVE x \in Below(at) \cup (at..(s - 1))
          BY <2>1, <3>4, <3>6, <5>1
        <5>2. ASSUME NEW x \in Below(at) PROVE x \in Below(e)
          BY <2>1, <3>2
        <5>3. ASSUME NEW x \in at..(s - 1) PROVE x \in Below(e)
          <6>1. x \in Nat /\ at <= x /\ x < s /\ x < r.end /\ r.start <= x /\ x < e
            BY <1>1, <2>1, <3>2
          <6> QED
            BY <3>5, <6>1
        <5> HIDE DEF Below
        <5> QED
          BY <5>1, <5>2, <5>3
      <4>2. Below(at) \cap (at..(s - 1)) = {}
        BY <2>1
      <4>4. IsFiniteSet(Below(at)) /\ at <= s
        BY <1>7, <2>1, <3>6
      <4> HIDE DEF Below
      <4>5. IsFiniteSet(Below(e)) /\ Cardinality(Below(e)) = Cardinality(Below(at)) + (s - at)
        <5> DEFINE A == Below(at)
                   C == Below(e)
        <5>1. /\ IsFiniteSet(A) /\ A \cap (at..(s - 1)) = {} /\ C = A \cup (at..(s - 1))
              /\ at \in Nat /\ s \in Nat /\ at <= s
          BY <2>1, <4>1, <4>2, <4>4
        <5> HIDE DEF at, s, e, A, C
        <5>2. IsFiniteSet(C) /\ Cardinality(C) = Cardinality(A) + (s - at)
          BY <5>1, StretchAdded
        <5> QED
          BY <5>2 DEF A, C
      <4>6. h[i].total = Cardinality(Below(e))
        BY <1>7, <3>1, <3>6, <4>5
      <4> QED
        BY <1>1, <2>1, <3>1, <3>2, <3>3, <4>5, <4>6
    <3>7. CASE s <= at
      <4>1. Below(e) = Below(at)
        <5>1. ASSUME NEW x \in Below(e) PROVE x \in Below(at)
          BY <2>1, <3>4, <3>7, <5>1
        <5>2. ASSUME NEW x \in Below(at) PROVE x \in Below(e)
          BY <2>1, <3>2
        <5> HIDE DEF Below
        <5> QED
          BY <5>1, <5>2
      <4> HIDE DEF Below
      <4>2. h[i].total = h[i - 1].total
        BY <2>1, <3>1, <3>7
      <4>3. r.start <= e
        BY <1>1, <2>1, <3>2
      <4> QED
        BY <1>7, <3>1, <3>3, <4>1, <4>2, <4>3
    <3> QED
      BY <2>1, <3>6, <3>7
  <2> QED
    BY <2>2, <2>3
<1>8. Good(n)
  <2>1. 0 \in T /\ \A i \in 1..n : i - 1 \in T => i \in T
    <3> HIDE DEF Good
    <3> QED
      BY <1>1, <1>6, <1>7
  <2>2. \A i \in 0..n : i \in T
    <3> HIDE DEF T
    <3> QED
      BY <1>1, <2>1, StepByStep
  <2> HIDE DEF Good
  <2> QED
    BY <1>1, <2>2
<1> DEFINE at == h[n].cursor
           All == {x \in Nat : In(x, r)} \ BytesIn(kept)
<1>9. at \in Nat /\ h[n].total \in Nat /\ n \in 0..n
  BY <1>1, <1>5
<1>10. CASE at < r.end
  <2>1. All = Below(at) \cup (at..(r.end - 1))
    <3>1. ASSUME NEW x \in All PROVE x \in Below(at) \cup (at..(r.end - 1))
      BY <1>1, <1>9 DEF In
    <3>2. ASSUME NEW x \in Below(at) PROVE x \in All
      BY DEF In
    <3>3. ASSUME NEW x \in at..(r.end - 1) PROVE x \in All
      <4>1. x \in Nat /\ at <= x /\ x < r.end /\ r.start <= x
        BY <1>1, <1>8, <1>9
      <4>2. x \notin BytesIn(kept)
        <5> SUFFICES ASSUME NEW k \in 1..n, kept[k].start <= x, x < kept[k].end
                     PROVE  FALSE
          BY <1>4, <4>1
        <5>1. kept[k].start \in Nat /\ kept[k].end \in Nat
          BY <1>1
        <5>2. kept[k].start < r.end
          BY <1>1, <4>1, <5>1
        <5>3. kept[k].end <= at
          BY <1>8, <5>2
        <5> QED
          BY <1>9, <4>1, <5>1, <5>3
      <4> QED
        BY <4>1, <4>2 DEF In
    <3> HIDE DEF Below, All
    <3> QED
      BY <3>1, <3>2, <3>3
  <2>2. Below(at) \cap (at..(r.end - 1)) = {}
    BY <1>9
  <2>4. IsFiniteSet(Below(at)) /\ at <= r.end /\ r.end \in Nat
    BY <1>1, <1>8, <1>9, <1>10
  <2> HIDE DEF Below, All
  <2>5. IsFiniteSet(All) /\ Cardinality(All) = Cardinality(Below(at)) + (r.end - at)
    <3> HIDE DEF at
    <3> QED
      BY <1>9, <2>1, <2>2, <2>4, StretchAdded
  <2>6. BytesOutsideOne(r, kept) = Cardinality(All)
    BY <1>2, <1>8, <1>10, <2>5
  <2> QED
    BY <2>5, <2>6 DEF All
<1>11. CASE ~(at < r.end)
  <2>1. All = Below(at)
    BY <1>1, <1>9, <1>11 DEF In
  <2> HIDE DEF Below, All
  <2>2. BytesOutsideOne(r, kept) = h[n].total
    BY <1>2, <1>9, <1>11
  <2> QED
    BY <1>8, <2>1, <2>2 DEF All
<1> QED
  BY <1>10, <1>11

(* bytesOutside as a chain of additions.                                   *)
LEMMA OutsideFold ==
    ASSUME NEW R, NEW C, Union(R) \in Seq(Interval), Union(C) \in Seq(Interval), Apart(Union(C))
    PROVE  \E h \in [0..Len(Union(R)) -> Nat] :
              /\ h[0] = 0
              /\ \A i \in 1..Len(Union(R)) : h[i] = h[i - 1] + BytesOutsideOne(Union(R)[i], Union(C))
              /\ BytesOutside(R, C) = h[Len(Union(R))]
<1> DEFINE sq == Union(R)
           n == Len(sq)
           V == Nat
           b == 0
           Add(v, r) == v + BytesOutsideOne(r, Union(C))
           F == [i \in 1..n |-> [v \in V |-> Add(v, sq[i])]]
           Sweep(g) == g = [s \in SUBSET (1..n) |->
                              IF s = {} THEN 0 ELSE Add(g[s \ {Max(s)}], sq[Max(s)])]
<1>1. n \in Nat /\ DOMAIN sq = 1..n /\ b \in V /\ \A i \in 1..n : sq[i] \in Interval
  OBVIOUS
<1>0. ASSUME NEW v \in V, NEW r \in Interval PROVE Add(v, r) \in V
  <2>1. BytesOutsideOne(r, Union(C)) \in Nat
    BY CursorCounts, FS_CardinalityType
  <2> QED
    BY <2>1
<1>2. F \in [1..n -> [V -> V]]
  <2> HIDE DEF Add, V, n
  <2> QED
    BY <1>0, <1>1
<1>3. PICK g : Chain(g, n, V, b, F)
  <2> HIDE DEF n, V, F, b
  <2> QED
    BY <1>1, <1>2, ChainExists
<1>4. g \in [SUBSET (1..n) -> V] /\ g[{}] = 0
        /\ \A s \in SUBSET (1..n) : s # {} => Max(s) \in s /\ g[s] = Add(g[s \ {Max(s)}], sq[Max(s)])
  <2> HIDE DEF Add, V, n
  <2> QED
    BY <1>3 DEF Chain
<1>5. PICK c : c = (CHOOSE k : Sweep(k)) /\ Sweep(c)
  <2> HIDE DEF V, F, n, Add, b, sq
  <2>1. Sweep(g)
    BY <1>4
  <2> QED
    BY <2>1
<1>6. BytesOutside(R, C) = c[1..n]
  BY <1>1, <1>5 DEF BytesOutside, FoldLeft, MapThenFoldSet
<1>7. c[1..n] = g[1..n]
  <2> HIDE DEF V, F, n, Add, b, sq
  <2>1. c[{}] = g[{}]
    BY <1>4, <1>5
  <2>2. ASSUME NEW s \in SUBSET (1..n), s # {}, c[s \ {Max(s)}] = g[s \ {Max(s)}]
        PROVE  c[s] = g[s]
    <3>1. c[s] = Add(c[s \ {Max(s)}], sq[Max(s)])
      <4> HIDE <1>4
      <4> QED BY <1>5, <2>2
    <3>2. g[s] = Add(g[s \ {Max(s)}], sq[Max(s)])
      BY <1>4, <2>2
    <3> QED
      BY <2>2, <3>1, <3>2
  <2> QED
    BY <1>1, <2>1, <2>2, ChainAgrees
<1>8. PICK h \in [0..n -> V] :
        h[0] = b /\ h[n] = g[1..n] /\ \A i \in 1..n : h[i] = F[i][h[i - 1]]
  <2> HIDE DEF V, F, n, b, sq
  <2> QED
    BY <1>1, <1>3, ChainSteps
<1>9. ASSUME NEW i \in 1..n PROVE h[i] = Add(h[i - 1], sq[i])
  <2>1. h[i - 1] \in V /\ h[i] = F[i][h[i - 1]]
    <3> HIDE DEF n, V, F
    <3>1. i - 1 \in 0..n
      BY <1>1
    <3> QED
      BY <1>8, <3>1
  <2> HIDE DEF Add, V
  <2> QED
    BY <2>1
<1> QED
  BY <1>6, <1>7, <1>8, <1>9

(* Sets apart have the sum of their sizes.                                 *)
LEMMA DisjointSum ==
    ASSUME NEW A, NEW B, IsFiniteSet(A), IsFiniteSet(B), A \cap B = {}
    PROVE  IsFiniteSet(A \cup B) /\ Cardinality(A \cup B) = Cardinality(A) + Cardinality(B)
<1>1. Cardinality(A \cup B) = Cardinality(A) + Cardinality(B) - Cardinality(A \cap B)
      /\ IsFiniteSet(A \cup B)
  BY FS_Union
<1>2. Cardinality(A \cap B) = 0 /\ Cardinality(A) \in Nat /\ Cardinality(B) \in Nat
  BY FS_EmptySet, FS_CardinalityType
<1> QED
  BY <1>1, <1>2

(* bytesOutside counts, once each, the bytes of the ranges that no range   *)
(* of the cover contains.                                                  *)
LEMMA OutsideCounts ==
    ASSUME NEW R, IsFiniteSet(R), RangesOf(R), NEW C, IsFiniteSet(C), RangesOf(C)
    PROVE  /\ IsFiniteSet(BytesOf(R) \ BytesOf(C))
           /\ BytesOutside(R, C) = Cardinality(BytesOf(R) \ BytesOf(C))
<1> DEFINE sq == Union(R)
           kept == Union(C)
           n == Len(sq)
           Bytes1(i) == {x \in Nat : In(x, sq[i])} \ BytesIn(kept)
           Upto(i) == {x \in Nat : \E k \in 1..i : In(x, sq[k])} \ BytesIn(kept)
<1>1. /\ sq \in Seq(Interval) /\ Apart(sq) /\ BytesIn(sq) = BytesOf(R)
      /\ kept \in Seq(Interval) /\ Apart(kept) /\ BytesIn(kept) = BytesOf(C)
  BY UnionCovers
<1>2. PICK h \in [0..n -> Nat] :
              /\ h[0] = 0
              /\ \A i \in 1..n : h[i] = h[i - 1] + BytesOutsideOne(sq[i], kept)
              /\ BytesOutside(R, C) = h[n]
  BY <1>1, OutsideFold
<1> HIDE DEF sq, kept
<1>3. n \in Nat /\ DOMAIN sq = 1..n /\ \A i \in 1..n : sq[i] \in Interval
  BY <1>1
<1> HIDE DEF n
<1> DEFINE Good(i) == IsFiniteSet(Upto(i)) /\ h[i] = Cardinality(Upto(i))
           T == {i \in 0..n : Good(i)}
<1>4. Good(0)
  <2>1. Upto(0) = {}
    OBVIOUS
  <2> HIDE DEF Upto
  <2> QED
    BY <1>2, <2>1, FS_EmptySet
<1>5. ASSUME NEW i \in 1..n, Good(i - 1) PROVE Good(i)
  <2>1. IsFiniteSet(Bytes1(i)) /\ BytesOutsideOne(sq[i], kept) = Cardinality(Bytes1(i))
    <3>1. sq[i] \in Interval
      BY <1>3
    <3> QED
      BY <1>1, <3>1, CursorCounts
  <2>2. Upto(i) = Upto(i - 1) \cup Bytes1(i)
    <3>1. 1..i = (1..(i - 1)) \cup {i}
      BY <1>3
    <3> QED
      BY <3>1
  <2>3. Upto(i - 1) \cap Bytes1(i) = {}
    <3> SUFFICES ASSUME NEW x \in Nat, NEW k \in 1..(i - 1), In(x, sq[k]), In(x, sq[i])
                 PROVE  FALSE
      OBVIOUS
    <3>1. k \in 1..n /\ k < i
      BY <1>3
    <3>2. sq[k].end <= sq[i].start
      BY <1>1, <1>3, <3>1 DEF Apart
    <3>3. sq[k] \in Interval /\ sq[i] \in Interval
      BY <1>3, <3>1
    <3>4. sq[k].end \in Nat /\ sq[i].start \in Nat
      BY <3>3 DEF Interval
    <3> QED
      BY <3>2, <3>4 DEF In
  <2>4. h[i] = h[i - 1] + BytesOutsideOne(sq[i], kept)
    BY <1>2
  <2> HIDE DEF Upto, Bytes1
  <2>5. IsFiniteSet(Upto(i)) /\ Cardinality(Upto(i)) = Cardinality(Upto(i - 1)) + Cardinality(Bytes1(i))
    <3> DEFINE A == Upto(i - 1)
               B == Bytes1(i)
    <3>1. IsFiniteSet(A) /\ IsFiniteSet(B) /\ A \cap B = {} /\ Upto(i) = A \cup B
      BY <1>5, <2>1, <2>2, <2>3
    <3> HIDE DEF A, B
    <3>2. IsFiniteSet(A \cup B) /\ Cardinality(A \cup B) = Cardinality(A) + Cardinality(B)
      BY <3>1, DisjointSum
    <3> QED
      BY <3>1, <3>2 DEF A, B
  <2> QED
    BY <1>5, <2>1, <2>4, <2>5
<1>6. Good(n)
  <2>1. 0 \in T /\ \A i \in 1..n : i - 1 \in T => i \in T
    <3> HIDE DEF Good
    <3> QED
      BY <1>3, <1>4, <1>5
  <2>2. \A i \in 0..n : i \in T
    <3> HIDE DEF T
    <3> QED
      BY <1>3, <2>1, StepByStep
  <2> HIDE DEF Good
  <2> QED
    BY <1>3, <2>2
<1>7. Upto(n) = BytesOf(R) \ BytesOf(C)
  BY <1>1, <1>3 DEF BytesIn
<1> HIDE DEF Upto
<1> QED
  BY <1>2, <1>6, <1>7

(* f counts the sets A.                                                    *)
CountsOf(f, A, S) == \A x \in S : IsFiniteSet(A[x]) /\ f[x] = Cardinality(A[x])

(* The sets A are apart.                                                   *)
Disjoint(A, S) == \A x, y \in S : x # y => A[x] \cap A[y] = {}

(* The sizes of sets apart add up to the size of all of them.              *)
LEMMA DisjointCount ==
    ASSUME NEW S, IsFiniteSet(S), NEW A, NEW f, CountsOf(f, A, S), Disjoint(A, S)
    PROVE  SumFunctionOnSet(f, S) = Cardinality(UNION {A[x] : x \in S})
<1> DEFINE All(s) == UNION {A[x] : x \in s}
           Counted(s) == IsFiniteSet(All(s)) /\ SumFunctionOnSet(f, s) = Cardinality(All(s))
           Odd == {s \in SUBSET S : ~Counted(s)}
<1>1. SUFFICES ASSUME Odd # {} PROVE FALSE
  <2> S \in SUBSET S
    OBVIOUS
  <2> QED
    OBVIOUS
<1>2. PICK s \in Odd : \A t \in Odd : t \subseteq s => t = s
  <2>1. Odd \in SUBSET (SUBSET S)
    OBVIOUS
  <2> HIDE DEF Odd
  <2> QED
    BY <1>1, <2>1, FewestFirst
<1>3. s # {}
  <2>1. All({}) = {}
    OBVIOUS
  <2> HIDE DEF All
  <2>2. Counted({})
    BY <2>1, SumEmpty, FS_EmptySet
  <2> QED
    BY <2>2
<1>4. PICK y \in s : TRUE
  BY <1>3
<1>5. Counted(s \ {y})
  <2>1. s \ {y} \in SUBSET S /\ s \ {y} \subseteq s /\ s \ {y} # s
    OBVIOUS
  <2> HIDE DEF Counted
  <2> QED
    BY <1>2, <2>1
<1>6. SumFunctionOnSet(f, s) = f[y] + SumFunctionOnSet(f, s \ {y})
  <2>1. IsFiniteSet(s) /\ \A x \in s : f[x] \in Int
    BY FS_Subset, FS_CardinalityType DEF CountsOf
  <2> HIDE DEF Odd
  <2> QED
    BY <2>1, SumRemove
<1>7. All(s) = All(s \ {y}) \cup A[y]
  OBVIOUS
<1>8. All(s \ {y}) \cap A[y] = {}
  BY DEF Disjoint
<1>9. IsFiniteSet(A[y]) /\ f[y] = Cardinality(A[y])
  BY DEF CountsOf
<1> HIDE DEF All
<1>10. IsFiniteSet(All(s)) /\ Cardinality(All(s)) = Cardinality(All(s \ {y})) + Cardinality(A[y])
  <2> DEFINE B == All(s \ {y})
             D == A[y]
  <2>1. IsFiniteSet(B) /\ IsFiniteSet(D) /\ B \cap D = {} /\ All(s) = B \cup D
    BY <1>5, <1>7, <1>8, <1>9
  <2> HIDE DEF B, D
  <2>2. IsFiniteSet(B \cup D) /\ Cardinality(B \cup D) = Cardinality(B) + Cardinality(D)
    BY <2>1, DisjointSum
  <2> QED
    BY <2>1, <2>2 DEF B, D
<1>11. Cardinality(A[y]) \in Nat /\ Cardinality(All(s \ {y})) \in Nat
  BY <1>5, <1>9, FS_CardinalityType
<1>12. Counted(s)
  BY <1>5, <1>6, <1>9, <1>10, <1>11
<1> QED
  BY <1>12

-----------------------------------------------------------------------------
(* The counts of a row *)

(* Authored spans share no byte (validateCorpus).                          *)
LEMMA AuthoredApart ==
    ASSUME TypeOK, NEW i \in DOMAIN expected, NEW j \in DOMAIN expected, i # j
    PROVE  BytesOf({expected[i]}) \cap BytesOf({expected[j]}) = {}
<1>1. /\ expected[i].start \in Nat /\ expected[i].end \in Nat
      /\ expected[j].start \in Nat /\ expected[j].end \in Nat
  <2>1. expected[i] \in ExpectedRange /\ expected[j] \in ExpectedRange
    BY DEF TypeOK
  <2> QED
    BY <2>1 DEF ExpectedRange, Offsets
<1>2. i \in Nat /\ j \in Nat
  BY DEF TypeOK
<1>3. i < j \/ j < i
  BY <1>2
<1>4. expected[i].end <= expected[j].start \/ expected[j].end <= expected[i].start
  BY <1>3 DEF TypeOK, ValidExpected
<1>5. /\ BytesOf({expected[i]}) = expected[i].start .. (expected[i].end - 1)
      /\ BytesOf({expected[j]}) = expected[j].start .. (expected[j].end - 1)
  BY DEF BytesOf
<1> QED
  BY <1>1, <1>4, <1>5

(* What a row hands to the sweeps are finite sets of ranges.               *)
LEMMA RowRanges ==
    ASSUME TypeOK
    PROVE  /\ IsFiniteSet(actual) /\ RangesOf(actual)
           /\ IsFiniteSet(acceptable) /\ RangesOf(acceptable)
           /\ IsFiniteSet(leaked) /\ leaked \in SUBSET (DOMAIN expected)
           /\ \A i \in leaked : RangesOf({expected[i]}) /\ IsFiniteSet({expected[i]})
<1>1. actual \subseteq Finding /\ IsFiniteSet(actual)
  BY ActualIsReported DEF TypeOK, actual
<1>2. RangesOf(actual)
  BY <1>1 DEF RangesOf, Finding, Offsets
<1>3. \A i \in DOMAIN expected : expected[i] \in ExpectedRange
  BY DEF TypeOK
<1>4. IsFiniteSet(DOMAIN expected)
  <2>1. DOMAIN expected = 1..Len(expected) /\ Len(expected) \in Nat
    BY DEF TypeOK
  <2> QED
    BY <2>1, FS_Interval
<1>5. IsFiniteSet(acceptable)
  <2> DEFINE at == [i \in DOMAIN expected |-> expected[i].envelope]
             D == DOMAIN expected
  <2>1. at \in Surjection(D, acceptable) /\ IsFiniteSet(D)
    BY <1>4 DEF Surjection, acceptable
  <2> HIDE DEF at, D
  <2> QED
    BY <2>1, FS_Surjection
<1>6. RangesOf(acceptable)
  BY <1>3 DEF RangesOf, acceptable, ExpectedRange, ByteRange, Offsets
<1>7. leaked \in SUBSET (DOMAIN expected) /\ IsFiniteSet(leaked)
  <2>1. leaked \in SUBSET (DOMAIN expected)
    BY DEF leaked, secrets
  <2> QED
    BY <1>4, <2>1, FS_Subset
<1>8. \A i \in leaked : RangesOf({expected[i]}) /\ IsFiniteSet({expected[i]})
  <2> SUFFICES ASSUME NEW i \in leaked PROVE RangesOf({expected[i]}) /\ IsFiniteSet({expected[i]})
    OBVIOUS
  <2>1. expected[i] \in ExpectedRange
    BY <1>3, <1>7
  <2>2. RangesOf({expected[i]})
    BY <2>1 DEF RangesOf, ExpectedRange, Offsets
  <2>3. IsFiniteSet({expected[i]})
    BY FS_Singleton
  <2> QED
    BY <2>2, <2>3
<1> QED
  BY <1>1, <1>2, <1>5, <1>6, <1>7, <1>8

(* A row counts what its finite sets of bytes have.                        *)
RowCounted ==
    /\ collateralBytes = Cardinality(BytesOf(actual) \ BytesOf(acceptable))
    /\ leakedBytes = Cardinality(BytesOf({expected[i] : i \in leaked}) \ BytesOf(actual))
    /\ IsFiniteSet(BytesOf(actual) \ BytesOf(acceptable))
    /\ IsFiniteSet(BytesOf({expected[i] : i \in leaked}) \ BytesOf(actual))

LEMMA RowCounts == ASSUME TypeOK PROVE RowCounted
<1>1. collateralBytes = Cardinality(BytesOf(actual) \ BytesOf(acceptable))
  BY RowRanges, OutsideCounts DEF collateralBytes
<1> DEFINE S == leaked
           f == [i \in leaked |-> BytesOutside({expected[i]}, actual)]
           A == [i \in leaked |-> BytesOf({expected[i]}) \ BytesOf(actual)]
<1>2. CountsOf(f, A, S)
  <2> SUFFICES ASSUME NEW i \in leaked
               PROVE  /\ IsFiniteSet(BytesOf({expected[i]}) \ BytesOf(actual))
                      /\ BytesOutside({expected[i]}, actual)
                            = Cardinality(BytesOf({expected[i]}) \ BytesOf(actual))
    BY DEF CountsOf
  <2> DEFINE R == {expected[i]}
  <2>1. IsFiniteSet(R) /\ RangesOf(R) /\ IsFiniteSet(actual) /\ RangesOf(actual)
    BY RowRanges
  <2> HIDE DEF R
  <2>2. IsFiniteSet(BytesOf(R) \ BytesOf(actual))
        /\ BytesOutside(R, actual) = Cardinality(BytesOf(R) \ BytesOf(actual))
    BY <2>1, OutsideCounts
  <2> QED
    BY <2>2 DEF R
<1>3. Disjoint(A, S)
  BY RowRanges, AuthoredApart DEF Disjoint
<1>4. UNION {A[i] : i \in S} = BytesOf({expected[i] : i \in leaked}) \ BytesOf(actual)
  BY DEF BytesOf
<1>5. leakedBytes = SumFunctionOnSet(f, S)
  BY DEF leakedBytes, SumFunction
<1>6. IsFiniteSet(S)
  BY RowRanges
<1>7. SumFunctionOnSet(f, S) = Cardinality(UNION {A[i] : i \in S})
  <2> HIDE DEF S, f, A
  <2> QED
    BY <1>2, <1>3, <1>6, DisjointCount
<1>8. IsFiniteSet(BytesOf(actual) \ BytesOf(acceptable))
  BY RowRanges, OutsideCounts
<1>9. IsFiniteSet(BytesOf({expected[i] : i \in leaked}) \ BytesOf(actual))
  <2> DEFINE R == {expected[i] : i \in leaked}
             at == [i \in leaked |-> expected[i]]
             D == leaked
  <2>1. at \in Surjection(D, R) /\ IsFiniteSet(D)
    BY <1>6 DEF Surjection
  <2>2. IsFiniteSet(R)
    <3> HIDE DEF at, R, D
    <3> QED
      BY <2>1, FS_Surjection
  <2>3. RangesOf(R)
    BY RowRanges DEF RangesOf
  <2> HIDE DEF R
  <2>4. IsFiniteSet(BytesOf(R) \ BytesOf(actual))
    BY <2>2, <2>3, RowRanges, OutsideCounts
  <2> QED
    BY <2>4 DEF R
<1> QED
  BY <1>1, <1>4, <1>5, <1>7, <1>8, <1>9 DEF RowCounted

(* The counts are what they say, for every row and every report:           *)
(* collateral bytes are the found bytes outside all envelopes, leaked      *)
(* bytes those of leaked spans outside all findings, and no byte counts    *)
(* twice (benchmarks/scoring/lattice.ts).                                  *)
THEOREM CountsBytes == Spec => []BytesAreCounted
<1>1. TypeOK => BytesAreCounted
  BY RowCounts DEF RowCounted, BytesAreCounted
<1> QED
  BY <1>1, TypeCorrect, PTL

-----------------------------------------------------------------------------
(* One more finding *)

(* The outcomes get no worse, the exposed bytes no more and the collateral *)
(* bytes no fewer, because every range that was found is still found.      *)
LEMMA StepImproves ==
    ASSUME TypeOK, RowCounted, RowCounted', Next
    PROVE  /\ \A i \in secrets : Rank[spanOutcomes[i]] <= Rank[spanOutcomes'[i]]
           /\ leakedBytes' <= leakedBytes
           /\ collateralBytes <= collateralBytes'
<1>1. PICK g \in Finding : reported' = Append(reported, g)
  BY DEF Next, Report
<1>2. expected' = expected /\ secrets' = secrets /\ acceptable' = acceptable
  BY DEF Next, Report, secrets, acceptable
<1>3. actual = Deduplicated(reported) /\ actual' = Deduplicated(Append(reported, g))
  BY <1>1 DEF actual
<1>4. \A f \in actual : \E h \in actual' : Same(h, f)
  BY <1>3, RangesStay DEF TypeOK
<1>5. ASSUME NEW i \in secrets
      PROVE  /\ Rank[spanOutcomes[i]] <= Rank[spanOutcomes'[i]]
             /\ spanOutcomes[i] \in DOMAIN Rank /\ spanOutcomes'[i] \in DOMAIN Rank
  <2>1. Rank[SpanOutcome(expected[i], actual)] <= Rank[SpanOutcome(expected[i], actual')]
    BY <1>4, OutcomeMonotone
  <2>2. spanOutcomes[i] = SpanOutcome(expected[i], actual)
    BY <1>5 DEF spanOutcomes
  <2>3. spanOutcomes'[i] = SpanOutcome(expected[i], actual')
    BY <1>2, <1>5 DEF spanOutcomes
  <2>4. \A F : SpanOutcome(expected[i], F) \in DOMAIN Rank
    BY DEF SpanOutcome, Rank
  <2> QED
    BY <2>1, <2>2, <2>3, <2>4
<1>6. BytesOf(actual) \subseteq BytesOf(actual')
  BY <1>4 DEF BytesOf, Same
<1>7. leaked' \subseteq leaked
  <2> SUFFICES ASSUME NEW i \in leaked' PROVE i \in leaked
    OBVIOUS
  <2>1. i \in secrets /\ spanOutcomes'[i] \in {"PARTIAL", "MISS"}
    BY <1>2 DEF leaked, IsLeaked
  <2>2. spanOutcomes[i] \in {"PARTIAL", "MISS"}
    BY <1>5, <2>1 DEF Rank
  <2> QED
    BY <2>1, <2>2 DEF leaked, IsLeaked
<1>8. collateralBytes <= collateralBytes'
  <2> DEFINE C == BytesOf(actual) \ BytesOf(acceptable)
             D == BytesOf(actual') \ BytesOf(acceptable)
  <2>1. C \subseteq D /\ IsFiniteSet(D)
    BY <1>2, <1>6 DEF RowCounted
  <2>2. collateralBytes = Cardinality(C) /\ collateralBytes' = Cardinality(D)
    BY <1>2 DEF RowCounted
  <2>3. Cardinality(C) <= Cardinality(D)
    <3> HIDE DEF C, D
    <3> QED
      BY <2>1, FS_Subset
  <2> QED
    BY <2>2, <2>3
<1>9. leakedBytes' <= leakedBytes
  <2> DEFINE C == BytesOf({expected[i] : i \in leaked}) \ BytesOf(actual)
             D == BytesOf({expected[i] : i \in leaked'}) \ BytesOf(actual')
  <2>1. D \subseteq C /\ IsFiniteSet(C)
    BY <1>6, <1>7 DEF RowCounted, BytesOf
  <2>2. leakedBytes = Cardinality(C) /\ leakedBytes' = Cardinality(D)
    BY <1>2 DEF RowCounted
  <2>3. Cardinality(D) <= Cardinality(C)
    <3> HIDE DEF C, D
    <3> QED
      BY <2>1, FS_Subset
  <2> QED
    BY <2>2, <2>3
<1> QED
  BY <1>5, <1>8, <1>9

(* "Nothing can improve by reporting less, and nothing can improve by      *)
(* reporting more" (docs/specs/measurement-v4.md:144).                     *)
THEOREM Monotone == Spec => OutcomesImprove
<1>1. TypeOK => RowCounted
  BY RowCounts
<1>2. TypeOK /\ RowCounted /\ RowCounted' /\ [Next]_vars =>
          [/\ \A i \in secrets : Rank[spanOutcomes[i]] <= Rank[spanOutcomes'[i]]
           /\ ~isControl => leakedBytes' <= leakedBytes /\ collateralBytes <= collateralBytes'
          ]_vars
  BY StepImproves
<1> QED
  BY <1>1, <1>2, TypeCorrect, PTL DEF Spec, OutcomesImprove

================================================================================
