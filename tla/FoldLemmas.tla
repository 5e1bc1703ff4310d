------------------------------ MODULE FoldLemmas ------------------------------
(***************************************************************************)
(* Facts about the folds of the community modules: SumFunctionOnSet, which *)
(* adds the values of a function in an order nobody states, and FoldLeft,  *)
(* which takes the elements of a sequence from left to right.              *)
(*                                                                         *)
(* Both are CHOOSE of a function on sets that satisfies a recursive        *)
(* equation, so what they compute is known once such a function exists and *)
(* once every two agree.  Each induction here is by a smallest             *)
(* counterexample: a set of finite sets has a member with no other inside  *)
(* (FewestFirst), a set of naturals a least one (LeastNatural).  The       *)
(* lemmas therefore take sets where an induction rule takes an operator.   *)
(***************************************************************************)
EXTENDS Integers, FiniteSetsExt, SequencesExt, FiniteSetTheorems,
        WellFoundedInduction, TLAPS

(* A set of subsets of a finite set has one that contains no other.        *)
LEMMA FewestFirst ==
    ASSUME NEW S, IsFiniteSet(S), NEW F \in SUBSET (SUBSET S), F # {}
    PROVE  \E s \in F : \A t \in F : t \subseteq s => t = s
<1> DEFINE R == StrictSubsetOrdering(S)
<1>1. IsWellFoundedOn(R, SUBSET S)
  BY FS_StrictSubsetOrderingWellFounded, FS_FiniteSubsetsOfFinite
<1>2. PICK s \in F : \A t \in F : ~(<<t, s>> \in R)
  <2> HIDE DEF R
  <2> QED BY <1>1, WFMin
<1>3. \A t \in F : t \subseteq s => t = s
  BY <1>2 DEF StrictSubsetOrdering
<1> QED
  BY <1>3

(* A set of naturals has a least one.                                      *)
LEMMA LeastNatural ==
    ASSUME NEW T \in SUBSET Nat, T # {}
    PROVE  \E n \in T : \A m \in T : n <= m
<1>1. PICK b \in T : TRUE
  OBVIOUS
<1> DEFINE Low == {n \in T : n <= b}
           F == {0..n : n \in Low}
<1>2. F \in SUBSET (SUBSET (0..b)) /\ F # {}
  <2>1. b \in Low
    BY <1>1
  <2>2. \A n \in Low : (0..n) \in SUBSET (0..b)
    BY <1>1
  <2>3. F \in SUBSET (SUBSET (0..b))
    <3> SUFFICES ASSUME NEW s \in F PROVE s \in SUBSET (0..b)
      OBVIOUS
    <3>1. PICK n \in Low : s = 0..n
      OBVIOUS
    <3> QED
      BY <2>2, <3>1
  <2>4. 0..b \in F
    BY <2>1
  <2> QED
    BY <2>3, <2>4
<1>3. PICK s \in F : \A t \in F : t \subseteq s => t = s
  <2> DEFINE B == 0..b
  <2>1. IsFiniteSet(B) /\ F \in SUBSET (SUBSET B) /\ F # {}
    BY <1>1, <1>2, FS_Interval
  <2> HIDE DEF F, B
  <2> QED BY <2>1, FewestFirst
<1>4. PICK n \in Low : s = 0..n
  BY <1>3
<1>5. \A m \in T : n <= m
  <2> SUFFICES ASSUME NEW m \in T, m < n PROVE FALSE
    BY <1>4
  <2>1. m \in Low /\ 0..m \in F
    BY <1>1, <1>4
  <2>2. 0..m \subseteq 0..n /\ n \in 0..n /\ n \notin 0..m
    BY <1>4
  <2> QED
    BY <1>3, <1>4, <2>1, <2>2
<1> QED
  BY <1>4, <1>5

(* What holds at 0 and is kept by each of n steps holds after all of them. *)
LEMMA StepByStep ==
    ASSUME NEW n \in Nat, NEW T, 0 \in T, \A i \in 1..n : i - 1 \in T => i \in T
    PROVE  \A i \in 0..n : i \in T
<1> DEFINE Missed == {i \in 0..n : i \notin T}
<1>1. SUFFICES ASSUME Missed # {} PROVE FALSE
  OBVIOUS
<1>2. PICK i \in Missed : \A j \in Missed : i <= j
  <2>1. Missed \in SUBSET Nat
    OBVIOUS
  <2> HIDE DEF Missed
  <2> QED
    BY <1>1, <2>1, LeastNatural
<1>3. i \in 1..n /\ i - 1 \in 0..n /\ ~(i <= i - 1)
  OBVIOUS
<1>4. i - 1 \in T
  BY <1>2, <1>3
<1> QED
  BY <1>3, <1>4

(* c takes an element of every non-empty set.                              *)
Chooses(c, S) == \A s \in SUBSET S : s # {} => c[s] \in s

(* g[s] is what F makes of the element of s that c takes and of g without  *)
(* it.                                                                     *)
Recurs(g, S, b, c, F) ==
    /\ g[{}] = b
    /\ \A s \in SUBSET S : s # {} => g[s] = F[s][g[s \ {c[s]}]]

(* A recursion that takes one element after another off a finite set has a *)
(* solution.                                                               *)
LEMMA SubsetRecursion ==
    ASSUME NEW S, IsFiniteSet(S), NEW V, NEW b \in V, NEW c, Chooses(c, S),
           NEW F \in [SUBSET S -> [V -> V]]
    PROVE  \E g \in [SUBSET S -> V] : Recurs(g, S, b, c, F)
<1>0. \A s \in SUBSET S : s # {} => c[s] \in s
  BY DEF Chooses
<1> DEFINE Level(k) == {s \in SUBSET S : Cardinality(s) <= k}
           Solves(g, k) == /\ g \in [Level(k) -> V]
                           /\ g[{}] = b
                           /\ \A s \in Level(k) : s # {} => g[s] = F[s][g[s \ {c[s]}]]
           T == {k \in Nat : ~ \E g : Solves(g, k)}
<1>1. \A s \in SUBSET S : /\ IsFiniteSet(s) /\ Cardinality(s) \in Nat
                          /\ Cardinality(s) <= Cardinality(S)
                          /\ Cardinality(s) = 0 <=> s = {}
                          /\ s # {} => Cardinality(s \ {c[s]}) = Cardinality(s) - 1
  <2> SUFFICES ASSUME NEW s \in SUBSET S
               PROVE  /\ IsFiniteSet(s) /\ Cardinality(s) \in Nat
                      /\ Cardinality(s) <= Cardinality(S)
                      /\ Cardinality(s) = 0 <=> s = {}
                      /\ s # {} => Cardinality(s \ {c[s]}) = Cardinality(s) - 1
    OBVIOUS
  <2> HIDE DEF Level, Solves, T
  <2>1. IsFiniteSet(s) /\ Cardinality(s) <= Cardinality(S)
    BY FS_Subset
  <2>2. Cardinality(s) \in Nat /\ (Cardinality(s) = 0 <=> s = {})
    BY <2>1, FS_CardinalityType, FS_EmptySet
  <2>3. ASSUME s # {} PROVE Cardinality(s \ {c[s]}) = Cardinality(s) - 1
    <3>1. c[s] \in s
      BY <1>0, <2>3
    <3> QED
      BY <2>1, <3>1, FS_RemoveElement
  <2> QED
    BY <2>1, <2>2, <2>3
<1>2. ASSUME T # {} PROVE FALSE
  <2>0. \A k \in T : k \in Nat /\ ~ \E g : Solves(g, k)
    OBVIOUS
  <2>9. \A k \in Nat \ T : \E g : Solves(g, k)
    OBVIOUS
  <2>1. PICK n \in T : \A m \in T : n <= m
    <3> HIDE DEF T
    <3>1. T \in SUBSET Nat
      BY DEF T
    <3> QED BY <1>2, <3>1, LeastNatural
  <2>2. CASE n = 0
    <3> DEFINE g == [s \in Level(0) |-> b]
    <3>1. \A s \in Level(0) : s = {}
      <4> SUFFICES ASSUME NEW s \in Level(0) PROVE s = {}
        OBVIOUS
      <4>1. s \in SUBSET S /\ Cardinality(s) <= 0
        OBVIOUS
      <4>2. Cardinality(s) \in Nat /\ (Cardinality(s) = 0 <=> s = {})
        BY <4>1, <1>1
      <4> QED
        BY <4>1, <4>2
    <3>2. {} \in Level(0)
      BY FS_EmptySet
    <3>3. Solves(g, 0)
      BY <3>1, <3>2
    <3> HIDE DEF Solves, T
    <3> QED
      BY <2>0, <2>1, <2>2, <3>3
  <2>3. CASE n > 0
    <3>1. PICK g : Solves(g, n - 1)
      <4> HIDE DEF Solves, T
      <4>1. n - 1 \in Nat \ T
        BY <2>0, <2>1, <2>3
      <4> QED
        BY <2>9, <4>1
    <3> DEFINE h == [s \in Level(n) |-> IF s = {} THEN b ELSE F[s][g[s \ {c[s]}]]]
    <3>2. {} \in Level(n) /\ {} \in Level(n - 1)
      BY FS_EmptySet, <2>3
    <3>3. \A s \in Level(n) : s # {} => s \ {c[s]} \in Level(n - 1)
      <4> SUFFICES ASSUME NEW s \in Level(n), s # {} PROVE s \ {c[s]} \in Level(n - 1)
        OBVIOUS
      <4>1. s \in SUBSET S /\ Cardinality(s) <= n
        OBVIOUS
      <4>2. Cardinality(s) \in Nat /\ Cardinality(s \ {c[s]}) = Cardinality(s) - 1
        BY <4>1, <1>1
      <4>3. Cardinality(s \ {c[s]}) <= n - 1
        BY <4>1, <4>2, <2>0
      <4> QED
        BY <4>1, <4>3
    <3>4. \A s \in Level(n - 1) : s \in Level(n) /\ h[s] = g[s]
      <4> SUFFICES ASSUME NEW s \in Level(n - 1) PROVE s \in Level(n) /\ h[s] = g[s]
        OBVIOUS
      <4>1. s \in SUBSET S /\ Cardinality(s) <= n - 1
        OBVIOUS
      <4>2. Cardinality(s) \in Nat
        BY <4>1, <1>1
      <4>3. s \in Level(n)
        BY <4>1, <4>2, <2>0
      <4>4. g[s] = IF s = {} THEN b ELSE F[s][g[s \ {c[s]}]]
        BY <3>1
      <4> QED
        BY <4>3, <4>4
    <3>5. h \in [Level(n) -> V]
      <4> SUFFICES ASSUME NEW s \in Level(n), s # {} PROVE F[s][g[s \ {c[s]}]] \in V
        OBVIOUS
      <4>1. g[s \ {c[s]}] \in V
        BY <3>1, <3>3
      <4>2. F[s] \in [V -> V]
        OBVIOUS
      <4> QED
        BY <4>1, <4>2
    <3>6. Solves(h, n)
      <4>1. h[{}] = b
        BY <3>2
      <4>2. ASSUME NEW s \in Level(n), s # {} PROVE h[s] = F[s][h[s \ {c[s]}]]
        <5>1. h[s] = F[s][g[s \ {c[s]}]]
          BY <4>2
        <5>2. h[s \ {c[s]}] = g[s \ {c[s]}]
          BY <4>2, <3>3, <3>4
        <5> QED
          BY <5>1, <5>2
      <4> HIDE DEF h
      <4> QED
        BY <3>5, <4>1, <4>2
    <3> HIDE DEF Solves, T, h
    <3> QED
      BY <2>0, <2>1, <3>6
  <2> QED
    BY <2>2, <2>3
<1>3. PICK g : Solves(g, Cardinality(S))
  BY <1>2, FS_CardinalityType
<1>4. Level(Cardinality(S)) = SUBSET S
  BY <1>1
<1>5. g \in [SUBSET S -> V]
  BY <1>3, <1>4
<1>6. Recurs(g, S, b, c, F)
  BY <1>3, <1>4 DEF Recurs
<1> QED
  BY <1>5, <1>6

-----------------------------------------------------------------------------
(* Sums *)

(* The recursion of SumFunctionOnSet.                                      *)
Sums(g, f, S) ==
    g = [s \in SUBSET S |->
            IF s = {} THEN 0
            ELSE f[CHOOSE x \in s : TRUE] + g[s \ {CHOOSE x \in s : TRUE}]]

(* A sum over a finite set is the last value of a function that satisfies  *)
(* its recursion.                                                          *)
LEMMA SumsExist ==
    ASSUME NEW S, IsFiniteSet(S), NEW f, \A x \in S : f[x] \in Int
    PROVE  \E g \in [SUBSET S -> Int] : Sums(g, f, S) /\ SumFunctionOnSet(f, S) = g[S]
<1> DEFINE c == [s \in SUBSET S |-> CHOOSE x \in s : TRUE]
           F == [s \in SUBSET S |-> [v \in Int |-> IF s = {} THEN v ELSE f[c[s]] + v]]
<1>1. Chooses(c, S)
  BY DEF Chooses
<1>2. F \in [SUBSET S -> [Int -> Int]]
  BY <1>1 DEF Chooses
<1>3. PICK g \in [SUBSET S -> Int] : Recurs(g, S, 0, c, F)
  <2> DEFINE V == Int
             zero == 0
  <2>1. F \in [SUBSET S -> [V -> V]] /\ zero \in V
    BY <1>2
  <2>2. \E g \in [SUBSET S -> V] : Recurs(g, S, zero, c, F)
    <3> HIDE DEF c, F, V, zero
    <3> QED
      BY <1>1, <2>1, SubsetRecursion
  <2> QED
    BY <2>2
<1>4. Sums(g, f, S)
  <2>1. \A s \in SUBSET S : s # {} => g[s] = f[c[s]] + g[s \ {c[s]}]
    BY <1>1, <1>3 DEF Chooses, Recurs
  <2>2. \A s \in SUBSET S : c[s] = CHOOSE x \in s : TRUE
    OBVIOUS
  <2> HIDE DEF c, F
  <2> QED
    BY <1>3, <2>1, <2>2 DEF Sums, Recurs
<1>5. PICK h : h = (CHOOSE k : Sums(k, f, S)) /\ Sums(h, f, S)
  BY <1>4
<1>6. SumFunctionOnSet(f, S) = h[S]
  BY <1>5 DEF SumFunctionOnSet, FoldFunctionOnSet, MapThenFoldSet, Sums
<1>7. \A s \in SUBSET S : h[s] = g[s]
  <2> DEFINE Odd == {s \in SUBSET S : h[s] # g[s]}
  <2>1. SUFFICES ASSUME Odd # {} PROVE FALSE
    OBVIOUS
  <2>2. PICK s \in Odd : \A t \in Odd : t \subseteq s => t = s
    <3>1. Odd \in SUBSET (SUBSET S)
      OBVIOUS
    <3> HIDE DEF Odd
    <3> QED
      BY <2>1, <3>1, FewestFirst
  <2>3. s # {}
    <3>1. h[{}] = 0
      BY <1>5 DEF Sums
    <3> QED
      BY <1>3, <3>1 DEF Recurs
  <2>4. PICK x \in s : x = CHOOSE y \in s : TRUE
    BY <2>3
  <2>5. s \ {x} \in SUBSET S /\ s \ {x} \subseteq s /\ s \ {x} # s
    OBVIOUS
  <2>6. h[s \ {x}] = g[s \ {x}]
    BY <2>2, <2>5
  <2>7. h[s] = f[x] + h[s \ {x}]
    BY <1>5, <2>3, <2>4 DEF Sums
  <2>8. g[s] = f[x] + g[s \ {x}]
    BY <1>4, <2>3, <2>4 DEF Sums
  <2> QED
    BY <2>6, <2>7, <2>8
<1>8. h[S] = g[S]
  BY <1>7
<1> QED
  BY <1>4, <1>6, <1>8

(* Two such functions agree where what they add does.                      *)
LEMMA SumsAgree ==
    ASSUME NEW S, IsFiniteSet(S), NEW f, NEW k, NEW g, NEW h, NEW T \in SUBSET S,
           Sums(g, f, S), Sums(h, k, T), \A x \in T : f[x] = k[x]
    PROVE  h[T] = g[T]
<1> DEFINE Odd == {s \in SUBSET T : h[s] # g[s]}
<1>1. SUFFICES ASSUME Odd # {} PROVE FALSE
  OBVIOUS
<1>2. PICK s \in Odd : \A t \in Odd : t \subseteq s => t = s
  <2>1. Odd \in SUBSET (SUBSET S)
    OBVIOUS
  <2> HIDE DEF Odd
  <2> QED
    BY <1>1, <2>1, FewestFirst
<1>3. s # {}
  <2>1. h[{}] = 0 /\ g[{}] = 0
    BY DEF Sums
  <2> QED
    BY <2>1
<1>4. PICK x \in s : x = CHOOSE y \in s : TRUE
  BY <1>3
<1>5. s \ {x} \in SUBSET T /\ s \ {x} \subseteq s /\ s \ {x} # s
  OBVIOUS
<1>6. h[s \ {x}] = g[s \ {x}]
  BY <1>2, <1>5
<1>7. h[s] = k[x] + h[s \ {x}]
  BY <1>3, <1>4 DEF Sums
<1>8. g[s] = f[x] + g[s \ {x}]
  BY <1>3, <1>4 DEF Sums
<1> QED
  BY <1>6, <1>7, <1>8

(* A sum depends on the values over its set only.                          *)
LEMMA SumSame ==
    ASSUME NEW S, IsFiniteSet(S), NEW f, NEW k, \A x \in S : f[x] \in Int /\ f[x] = k[x]
    PROVE  SumFunctionOnSet(f, S) = SumFunctionOnSet(k, S)
<1>1. PICK g : Sums(g, f, S) /\ SumFunctionOnSet(f, S) = g[S]
  BY SumsExist
<1>2. PICK h : Sums(h, k, S) /\ SumFunctionOnSet(k, S) = h[S]
  BY SumsExist
<1>3. S \in SUBSET S
  OBVIOUS
<1> QED
  BY <1>1, <1>2, <1>3, SumsAgree

(* Nothing adds up to 0.                                                   *)
LEMMA SumEmpty ==
    ASSUME NEW f
    PROVE  SumFunctionOnSet(f, {}) = 0
<1>1. PICK g : Sums(g, f, {}) /\ SumFunctionOnSet(f, {}) = g[{}]
  <2>1. IsFiniteSet({}) /\ \A x \in {} : f[x] \in Int
    BY FS_EmptySet
  <2> QED
    BY <2>1, SumsExist
<1> QED
  BY <1>1 DEF Sums

(* Integers add up to an integer.                                          *)
LEMMA SumType ==
    ASSUME NEW S, IsFiniteSet(S), NEW f, \A x \in S : f[x] \in Int
    PROVE  SumFunctionOnSet(f, S) \in Int
<1>1. PICK g \in [SUBSET S -> Int] : SumFunctionOnSet(f, S) = g[S]
  BY SumsExist
<1> QED
  BY <1>1

(* Some element can be taken out of a sum.                                 *)
LEMMA SumChosen ==
    ASSUME NEW S, IsFiniteSet(S), S # {}, NEW f, \A x \in S : f[x] \in Int
    PROVE  \E x \in S : SumFunctionOnSet(f, S) = f[x] + SumFunctionOnSet(f, S \ {x})
<1>1. PICK g : Sums(g, f, S) /\ SumFunctionOnSet(f, S) = g[S]
  BY SumsExist
<1>2. PICK x \in S : x = CHOOSE y \in S : TRUE
  OBVIOUS
<1>3. g[S] = f[x] + g[S \ {x}]
  BY <1>1, <1>2 DEF Sums
<1>4. PICK h : Sums(h, f, S \ {x}) /\ SumFunctionOnSet(f, S \ {x}) = h[S \ {x}]
  BY SumsExist, FS_RemoveElement
<1>5. h[S \ {x}] = g[S \ {x}]
  BY <1>1, <1>4, SumsAgree
<1> QED
  BY <1>1, <1>3, <1>4, <1>5

(* Any element can: the order of a sum does not matter.                    *)
LEMMA SumRemove ==
    ASSUME NEW S, IsFiniteSet(S), NEW f, \A x \in S : f[x] \in Int, NEW x \in S
    PROVE  SumFunctionOnSet(f, S) = f[x] + SumFunctionOnSet(f, S \ {x})
<1> DEFINE Odd == {s \in SUBSET S : \E y \in s : SumFunctionOnSet(f, s) # f[y] + SumFunctionOnSet(f, s \ {y})}
<1>1. SUFFICES ASSUME Odd # {} PROVE FALSE
  OBVIOUS
<1>2. PICK s \in Odd : \A t \in Odd : t \subseteq s => t = s
  <2>1. Odd \in SUBSET (SUBSET S)
    OBVIOUS
  <2> HIDE DEF Odd
  <2> QED
    BY <1>1, <2>1, FewestFirst
<1>3. PICK y \in s : SumFunctionOnSet(f, s) # f[y] + SumFunctionOnSet(f, s \ {y})
  OBVIOUS
<1>4. \A t \in SUBSET S : IsFiniteSet(t) /\ SumFunctionOnSet(f, t) \in Int
  BY FS_Subset, SumType
<1>5. PICK z \in s : SumFunctionOnSet(f, s) = f[z] + SumFunctionOnSet(f, s \ {z})
  BY <1>3, <1>4, SumChosen
<1>6. z # y
  BY <1>3, <1>5
<1>7. SumFunctionOnSet(f, s \ {z}) = f[y] + SumFunctionOnSet(f, (s \ {z}) \ {y})
  <2>1. s \ {z} \notin Odd
    BY <1>2
  <2> QED
    BY <1>6, <2>1
<1>8. SumFunctionOnSet(f, s \ {y}) = f[z] + SumFunctionOnSet(f, (s \ {y}) \ {z})
  <2>1. s \ {y} \notin Odd
    BY <1>2
  <2> QED
    BY <1>6, <2>1
<1>9. (s \ {y}) \ {z} = (s \ {z}) \ {y}
  OBVIOUS
<1>10. PICK rest \in Int : rest = SumFunctionOnSet(f, (s \ {z}) \ {y})
  BY <1>4
<1>11. f[y] \in Int /\ f[z] \in Int
  OBVIOUS
<1>12. SumFunctionOnSet(f, s) = f[z] + (f[y] + rest)
  BY <1>5, <1>7, <1>10
<1>13. SumFunctionOnSet(f, s) # f[y] + (f[z] + rest)
  BY <1>3, <1>8, <1>9, <1>10
<1> QED
  BY <1>10, <1>11, <1>12, <1>13

(* One more element adds its value.                                        *)
LEMMA SumAdd ==
    ASSUME NEW U, IsFiniteSet(U), NEW x, x \notin U,
           NEW f, f[x] \in Int, \A y \in U : f[y] \in Int
    PROVE  IsFiniteSet(U \cup {x}) /\ SumFunctionOnSet(f, U \cup {x}) = f[x] + SumFunctionOnSet(f, U)
<1> DEFINE S == U \cup {x}
<1>1. IsFiniteSet(S)
  BY FS_AddElement
<1>2. S \ {x} = U /\ x \in S /\ \A y \in S : f[y] \in Int
  OBVIOUS
<1> HIDE DEF S
<1>3. SumFunctionOnSet(f, S) = f[x] + SumFunctionOnSet(f, S \ {x})
  BY <1>1, <1>2, SumRemove
<1> QED
  BY <1>1, <1>2, <1>3 DEF S

(* Raising one value raises the sum by as much.                            *)
LEMMA SumRaised ==
    ASSUME NEW S, IsFiniteSet(S), NEW f, NEW k, NEW x \in S, NEW d \in Int,
           \A y \in S : f[y] \in Int /\ k[y] = IF y = x THEN f[y] + d ELSE f[y]
    PROVE  SumFunctionOnSet(k, S) = SumFunctionOnSet(f, S) + d
<1>1. SumFunctionOnSet(f, S) = f[x] + SumFunctionOnSet(f, S \ {x})
  BY SumRemove
<1>2. \A y \in S : k[y] \in Int
  OBVIOUS
<1>3. SumFunctionOnSet(k, S) = k[x] + SumFunctionOnSet(k, S \ {x})
  BY <1>2, SumRemove
<1>4. IsFiniteSet(S \ {x}) /\ \A y \in S \ {x} : f[y] \in Int /\ f[y] = k[y]
  BY FS_RemoveElement
<1>5. SumFunctionOnSet(f, S \ {x}) = SumFunctionOnSet(k, S \ {x}) /\ SumFunctionOnSet(f, S \ {x}) \in Int
  BY <1>4, SumSame, SumType
<1>6. k[x] = f[x] + d /\ f[x] \in Int
  OBVIOUS
<1> QED
  BY <1>1, <1>3, <1>5, <1>6

(* Zeros add up to 0.                                                      *)
LEMMA SumZero ==
    ASSUME NEW S, IsFiniteSet(S), NEW f, \A x \in S : f[x] = 0
    PROVE  SumFunctionOnSet(f, S) = 0
<1> DEFINE Odd == {s \in SUBSET S : SumFunctionOnSet(f, s) # 0}
<1>1. SUFFICES ASSUME Odd # {} PROVE FALSE
  OBVIOUS
<1>2. PICK s \in Odd : \A t \in Odd : t \subseteq s => t = s
  <2>1. Odd \in SUBSET (SUBSET S)
    OBVIOUS
  <2> HIDE DEF Odd
  <2> QED
    BY <1>1, <2>1, FewestFirst
<1>3. s # {}
  BY SumEmpty
<1>4. PICK y \in s : SumFunctionOnSet(f, s) = f[y] + SumFunctionOnSet(f, s \ {y})
  <2>1. IsFiniteSet(s) /\ \A x \in s : f[x] \in Int
    BY FS_Subset
  <2> HIDE DEF Odd
  <2> QED
    BY <1>3, <2>1, SumChosen
<1>5. s \ {y} \notin Odd
  BY <1>2
<1> QED
  BY <1>4, <1>5

-----------------------------------------------------------------------------
(* Chains: what FoldLeft computes, step by step *)

(* The last index of a prefix of 1..n, and the prefix before it.           *)
LEMMA UpTo ==
    ASSUME NEW n \in Nat, NEW i \in 1..n
    PROVE  1..i \in SUBSET (1..n) /\ 1..i # {} /\ Max(1..i) = i /\ (1..i) \ {i} = 1..(i - 1)
<1>1. 1..i \in SUBSET (1..n) /\ 1..i # {} /\ (1..i) \ {i} = 1..(i - 1)
  OBVIOUS
<1>2. i \in 1..i /\ \A j \in 1..i : i >= j
  OBVIOUS
<1>3. \A k \in 1..i : (\A j \in 1..i : k >= j) => k = i
  OBVIOUS
<1>4. Max(1..i) = i
  BY <1>2, <1>3 DEF Max
<1> QED
  BY <1>1, <1>4

(* The element FoldLeft takes of a set of indices.                         *)
Latest(n) == [s \in SUBSET (1..n) |-> Max(s)]

(* Every non-empty set of indices has a latest one.                        *)
LEMMA LatestChooses ==
    ASSUME NEW n \in Nat
    PROVE  Chooses(Latest(n), 1..n)
<1> SUFFICES ASSUME NEW s \in SUBSET (1..n), s # {} PROVE Max(s) \in s
  BY DEF Chooses, Latest
<1> DEFINE T == {n - k : k \in s}
<1>1. T \in SUBSET Nat /\ T # {}
  <2>1. \A k \in s : k \in 1..n /\ n - k \in Nat
    OBVIOUS
  <2> QED
    BY <2>1
<1>2. PICK t \in T : \A u \in T : t <= u
  <2> HIDE DEF T
  <2> QED
    BY <1>1, LeastNatural
<1>3. PICK k \in s : t = n - k
  OBVIOUS
<1>4. \A j \in s : k >= j
  <2> SUFFICES ASSUME NEW j \in s PROVE k >= j
    OBVIOUS
  <2>1. n - j \in T
    OBVIOUS
  <2>2. n - k <= n - j
    BY <1>2, <1>3, <2>1
  <2> QED
    BY <2>2
<1> QED
  BY <1>4 DEF Max

(* g folds F over sets of indices, taking the latest index last.           *)
Chain(g, n, V, b, F) ==
    /\ g \in [SUBSET (1..n) -> V]
    /\ g[{}] = b
    /\ \A s \in SUBSET (1..n) : s # {} => Max(s) \in s /\ g[s] = F[Max(s)][g[s \ {Max(s)}]]

(* A fold over n steps has a chain of values, whatever the steps are.      *)
LEMMA ChainExists ==
    ASSUME NEW n \in Nat, NEW V, NEW b \in V, NEW F \in [1..n -> [V -> V]]
    PROVE  \E g : Chain(g, n, V, b, F)
<1> DEFINE S == 1..n
           G == [s \in SUBSET S |-> IF s = {} THEN [v \in V |-> v] ELSE F[Max(s)]]
<1>1. IsFiniteSet(S)
  BY FS_Interval
<1>2. Chooses(Latest(n), S)
  BY LatestChooses
<1>3. G \in [SUBSET S -> [V -> V]]
  <2>1. \A s \in SUBSET S : s # {} => Max(s) \in S
    BY <1>2 DEF Chooses, Latest
  <2> QED
    BY <2>1
<1>4. PICK g \in [SUBSET S -> V] : Recurs(g, S, b, Latest(n), G)
  <2> HIDE DEF S, G
  <2> QED
    BY <1>1, <1>2, <1>3, SubsetRecursion
<1>5. \A s \in SUBSET S : s # {} => Max(s) \in s /\ g[s] = F[Max(s)][g[s \ {Max(s)}]]
  BY <1>2, <1>4 DEF Recurs, Latest, Chooses
<1>6. Chain(g, n, V, b, F)
  BY <1>4, <1>5 DEF Chain, Recurs
<1> QED
  BY <1>6

(* The values of a chain on the prefixes of 1..n follow one another.       *)
LEMMA ChainSteps ==
    ASSUME NEW n \in Nat, NEW V, NEW b, NEW F, NEW g, Chain(g, n, V, b, F)
    PROVE  \E h \in [0..n -> V] :
              h[0] = b /\ h[n] = g[1..n] /\ \A i \in 1..n : h[i] = F[i][h[i - 1]]
<1> DEFINE h == [i \in 0..n |-> g[1..i]]
<1>1. h \in [0..n -> V]
  <2>1. \A i \in 0..n : 1..i \in SUBSET (1..n)
    OBVIOUS
  <2> QED
    BY <2>1 DEF Chain
<1>2. h[0] = b
  <2>1. 1..0 = {} /\ 0 \in 0..n
    OBVIOUS
  <2> QED
    BY <2>1 DEF Chain
<1>3. ASSUME NEW i \in 1..n PROVE h[i] = F[i][h[i - 1]]
  <2>1. 1..i \in SUBSET (1..n) /\ 1..i # {} /\ Max(1..i) = i /\ (1..i) \ {i} = 1..(i - 1)
    BY UpTo
  <2>2. g[1..i] = F[i][g[1..(i - 1)]]
    BY <2>1 DEF Chain
  <2> QED
    BY <2>2
<1>4. h[n] = g[1..n]
  OBVIOUS
<1> QED
  BY <1>1, <1>2, <1>3, <1>4

(* Two chains with the same start and the same steps end alike.            *)
LEMMA ChainAgrees ==
    ASSUME NEW n \in Nat, NEW c, NEW g, c[{}] = g[{}],
           \A s \in SUBSET (1..n) :
              s # {} /\ c[s \ {Max(s)}] = g[s \ {Max(s)}] => c[s] = g[s]
    PROVE  c[1..n] = g[1..n]
<1> DEFINE S == 1..n
           Odd == {s \in SUBSET S : c[s] # g[s]}
<1>1. SUFFICES ASSUME Odd # {} PROVE FALSE
  OBVIOUS
<1>2. PICK s \in Odd : \A t \in Odd : t \subseteq s => t = s
  <2>1. Odd \in SUBSET (SUBSET S) /\ IsFiniteSet(S)
    BY FS_Interval
  <2> HIDE DEF Odd, S
  <2> QED
    BY <1>1, <2>1, FewestFirst
<1>3. s # {} /\ Max(s) \in s
  BY LatestChooses DEF Chooses, Latest
<1>4. s \ {Max(s)} \in SUBSET S /\ s \ {Max(s)} # s /\ s \ {Max(s)} \subseteq s
  BY <1>3
<1>5. c[s \ {Max(s)}] = g[s \ {Max(s)}]
  BY <1>2, <1>4
<1> QED
  BY <1>3, <1>5
===============================================================================
