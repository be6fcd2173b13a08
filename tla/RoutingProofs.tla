---------------------------- MODULE RoutingProofs ---------------------------
(***************************************************************************)
(* What is proved of Routing, for every set of tables, whatever they say   *)
(* about the model, and any number of requests: the ETag names the         *)
(* snapshot, a request never meets a router without one, routing is never  *)
(* blanked, the tiers requests share are never altered, the draw visits    *)
(* every candidate of one table once, in the order of the priorities, and  *)
(* every candidate's share of rand.IntN's values is its weight.  Converges *)
(* stays with TLC.                                                         *)
(*                                                                         *)
(* The first sections are about the operators: sums of weights, the        *)
(* enumeration of a set, tiers, and what drawing does to two sequences.    *)
(* Their inductions run over a set of counterexamples and its least        *)
(* element.                                                                *)
(***************************************************************************)
EXTENDS Routing, FiniteSetTheorems, SequenceTheorems, WellFoundedInduction, TLAPS

-----------------------------------------------------------------------------
(***************************************************************************)
(* What a draw falls on: the sums of the weights.                          *)
(***************************************************************************)
(* What induction over the naturals comes to: a set of them has a least.   *)
LEMMA Least ==
    ASSUME NEW T \in SUBSET Nat, T # {}
    PROVE  \E n \in T : \A m \in T : n <= m
<1>1. IsWellFoundedOn(OpToRel(<, Nat), Nat)
  BY NatLessThanWellFounded
<1>2. PICK n \in T : \A m \in Nat : <<m, n>> \in OpToRel(<, Nat) => m \notin T
  BY <1>1, WFMin
<1>3. \A m \in Nat : m < n => m \notin T
  BY <1>2 DEF OpToRel
<1>. QED
  BY <1>3

LEMMA MinOfSet ==
    ASSUME NEW T \in SUBSET Nat, T # {}
    PROVE  Min(T) \in T /\ \A m \in T : Min(T) <= m
BY Least DEF Min

(* Sums is what its definition says: there is such a function ...          *)
LEMMA SumsExist ==
    ASSUME NEW c \in Seq(RouteCandidate)
    PROVE  \A n \in 0..Len(c) : \E g :
               g = [k \in 0..n |-> IF k = 0 THEN 0 ELSE g[k - 1] + c[k].weight]
<1> DEFINE Upto(n, g) == g = [k \in 0..n |-> IF k = 0 THEN 0 ELSE g[k - 1] + c[k].weight]
           T == {n \in 0..Len(c) : ~ \E g : Upto(n, g)}
<1> SUFFICES ASSUME T # {} PROVE FALSE
  OBVIOUS
<1>1. PICK n \in T : \A m \in T : n <= m
  <2>1. T \in SUBSET Nat
    OBVIOUS
  <2> HIDE DEF T
  <2>. QED
    BY <2>1, Least
<1>2. n # 0
  <2>1. Upto(0, [k \in 0..0 |-> 0])
    OBVIOUS
  <2>2. \E g : Upto(0, g)
    BY <2>1
  <2>3. ~\E g : Upto(n, g)
    BY <1>1
  <2> HIDE DEF Upto, T
  <2>. QED
    BY <2>2, <2>3
<1>3. PICK g : Upto(n - 1, g)
  <2>1. n - 1 \in 0..Len(c) /\ n - 1 \notin T
    BY <1>1, <1>2, LenProperties
  <2> HIDE DEF Upto
  <2>. QED
    BY <2>1
<1> DEFINE h == [k \in 0..n |-> IF k = n THEN g[n - 1] + c[n].weight ELSE g[k]]
<1>4. Upto(n, h)
  BY <1>1, <1>2, <1>3
<1>. QED
  BY <1>1, <1>4

LEMMA SumsDef ==
    ASSUME NEW c \in Seq(RouteCandidate)
    PROVE  Sums(c) = [k \in 0..Len(c) |-> IF k = 0 THEN 0 ELSE Sums(c)[k - 1] + c[k].weight]
<1>1. \E g : g = [k \in 0..Len(c) |-> IF k = 0 THEN 0 ELSE g[k - 1] + c[k].weight]
  BY SumsExist, LenProperties
<1>. QED
  BY <1>1 DEF Sums

(* ... it starts at 0, and every candidate adds a weight that is positive. *)
LEMMA SumsProperties ==
    ASSUME NEW c \in Seq(RouteCandidate)
    PROVE  /\ Sums(c)[0] = 0
           /\ \A k \in 0..Len(c) : Sums(c)[k] \in Nat
           /\ \A k \in 1..Len(c) : Sums(c)[k] = Sums(c)[k - 1] + c[k].weight
           /\ \A k, n \in 0..Len(c) : k < n => Sums(c)[k] < Sums(c)[n]
<1> DEFINE s == Sums(c)
           T == {n \in 0..Len(c) : ~(s[n] \in Nat /\ \A k \in 0..n - 1 : s[k] < s[n])}
<1>1. /\ Len(c) \in Nat
      /\ \A k \in 1..Len(c) : c[k].weight \in Nat \ {0}
  <2>1. Len(c) \in Nat /\ \A k \in 1..Len(c) : c[k] \in RouteCandidate
    BY LenProperties, ElementOfSeq
  <2>. QED
    BY <2>1 DEF RouteCandidate
<1>2. s[0] = 0 /\ \A k \in 1..Len(c) : s[k] = s[k - 1] + c[k].weight
  BY <1>1, SumsDef
<1> HIDE DEF s
<1>3. T = {}
  <2> SUFFICES ASSUME T # {} PROVE FALSE
    OBVIOUS
  <2>1. PICK n \in T : \A m \in T : n <= m
    <3>1. T \in SUBSET Nat
      OBVIOUS
    <3> HIDE DEF T
    <3>. QED
      BY <3>1, Least
  <2>2. n # 0
    BY <1>2, <2>1
  <2>3. n - 1 \notin T /\ n - 1 \in 0..Len(c)
    BY <2>1, <2>2
  <2>4. s[n - 1] \in Nat /\ \A k \in 0..n - 2 : s[k] < s[n - 1]
    BY <2>3
  <2>5. s[n] \in Nat /\ s[n - 1] < s[n] /\ s[n] = s[n - 1] + c[n].weight
    BY <1>1, <1>2, <2>1, <2>2, <2>4
  <2>6. ASSUME NEW k \in 0..n - 1 PROVE s[k] < s[n]
    <3>1. k = n - 1 \/ (k \in 0..n - 2 /\ s[k] \in Nat)
      <4>1. k # n - 1 => k \notin T
        BY <2>1
      <4>. QED
        BY <2>1, <2>2, <4>1
    <3>. QED
      BY <2>4, <2>5, <3>1
  <2>. QED
    BY <2>1, <2>5, <2>6
<1>4. \A k \in 0..Len(c) : s[k] \in Nat
  BY <1>3
<1>5. ASSUME NEW k \in 0..Len(c), NEW n \in 0..Len(c), k < n PROVE s[k] < s[n]
  <2>1. k \in 0..n - 1 /\ n \notin T
    BY <1>1, <1>3, <1>5
  <2>. QED
    BY <2>1
<1>. QED
  BY <1>2, <1>4, <1>5 DEF s

(* rand.IntN's value lies in exactly one candidate's share.                *)
LEMMA PickedIs ==
    ASSUME NEW c \in Seq(RouteCandidate), NEW pick \in 0..TotalWeight(c) - 1
    PROVE  /\ Picked(c, pick) \in 1..Len(c)
           /\ \A k \in 1..Len(c) :
                  Picked(c, pick) = k <=> Sums(c)[k - 1] <= pick /\ pick < Sums(c)[k]
<1> DEFINE s == Sums(c)
           T == {k \in 1..Len(c) : pick < s[k]}
<1>1. Len(c) \in Nat /\ DOMAIN c = 1..Len(c)
  BY LenProperties
<1>2. /\ s[0] = 0 /\ \A k \in 0..Len(c) : s[k] \in Nat
      /\ \A k, n \in 0..Len(c) : k < n => s[k] < s[n]
  BY SumsProperties
<1>3. pick \in Nat /\ pick < s[Len(c)] /\ Picked(c, pick) = Min(T)
  BY <1>1, <1>2 DEF TotalWeight, Picked
<1> HIDE DEF s
<1>4. Len(c) \in T
  <2>1. Len(c) # 0
    BY <1>2, <1>3
  <2>. QED
    BY <1>1, <1>3, <2>1
<1>5. Min(T) \in T /\ \A m \in T : Min(T) <= m
  <2>1. T \in SUBSET Nat
    OBVIOUS
  <2> HIDE DEF T
  <2>. QED
    BY <1>4, <2>1, MinOfSet
<1>6. ASSUME NEW k \in 1..Len(c), Min(T) = k
      PROVE  s[k - 1] <= pick /\ pick < s[k]
  <2>1. pick < s[k]
    BY <1>5, <1>6
  <2>2. s[k - 1] <= pick
    <3>1. CASE k = 1
      BY <1>2, <1>3, <3>1
    <3>2. CASE k # 1
      <4>1. k - 1 \notin T
        BY <1>5, <1>6
      <4>2. k - 1 \in 1..Len(c) /\ s[k - 1] \in Nat
        BY <1>1, <1>2, <3>2
      <4>. QED
        BY <1>3, <4>1, <4>2
    <3>. QED
      BY <3>1, <3>2
  <2>. QED
    BY <2>1, <2>2
<1>7. ASSUME NEW k \in 1..Len(c), s[k - 1] <= pick, pick < s[k]
      PROVE  Min(T) = k
  <2>1. k \in T /\ Min(T) \in 1..Len(c) /\ Min(T) <= k
    BY <1>5, <1>7
  <2>2. ASSUME Min(T) < k PROVE FALSE
    <3> DEFINE m == Min(T)
    <3>1. pick < s[m] /\ m \in 1..Len(c)
      BY <1>5
    <3> HIDE DEF m
    <3>2. m \in 0..Len(c) /\ k - 1 \in 0..Len(c) /\ m <= k - 1
      BY <1>1, <2>2, <3>1 DEF m
    <3>3. s[m] <= s[k - 1]
      BY <1>2, <3>2
    <3>. QED
      BY <1>2, <1>3, <1>7, <3>1, <3>2, <3>3
  <2>. QED
    BY <2>1, <2>2
<1>. QED
  BY <1>3, <1>5, <1>6, <1>7 DEF s

(* Everyone's share of the values is its weight.                           *)
LEMMA Shares ==
    ASSUME NEW c \in Seq(RouteCandidate), NEW k \in DOMAIN c
    PROVE  /\ c[k].weight > 0 /\ TotalWeight(c) > 0
           /\ Cardinality({pick \in 0..TotalWeight(c) - 1 : Picked(c, pick) = k}) = c[k].weight
<1> DEFINE s == Sums(c)
<1>1. Len(c) \in Nat /\ k \in 1..Len(c)
  BY LenProperties
<1>2. /\ \A n \in 0..Len(c) : s[n] \in Nat
      /\ s[k] = s[k - 1] + c[k].weight /\ s[k - 1] < s[k] /\ s[k] <= s[Len(c)]
  <2>1. s[k] = s[k - 1] + c[k].weight /\ \A n \in 0..Len(c) : s[n] \in Nat
    BY <1>1, SumsProperties
  <2>2. \A i, n \in 0..Len(c) : i < n => s[i] < s[n]
    BY SumsProperties
  <2> HIDE DEF s
  <2>. QED
    BY <1>1, <2>1, <2>2
<1>3. c[k].weight \in Nat /\ c[k].weight > 0
  <2>1. c[k] \in RouteCandidate
    BY <1>1, ElementOfSeq
  <2>. QED
    BY <2>1 DEF RouteCandidate
<1>4. \A pick \in 0..TotalWeight(c) - 1 :
          Picked(c, pick) = k <=> s[k - 1] <= pick /\ pick < s[k]
  BY <1>1, PickedIs
<1>5. TotalWeight(c) = s[Len(c)]
  BY DEF TotalWeight
<1> HIDE DEF s
<1>6. s[k - 1] \in Nat /\ s[k] \in Nat /\ s[Len(c)] \in Nat
  BY <1>1, <1>2
<1>7. {pick \in 0..TotalWeight(c) - 1 : Picked(c, pick) = k} = s[k - 1]..(s[k] - 1)
  <2>1. \A pick : pick \in 0..TotalWeight(c) - 1 /\ Picked(c, pick) = k
                    <=> pick \in 0..TotalWeight(c) - 1 /\ s[k - 1] <= pick /\ pick < s[k]
    BY <1>4
  <2>2. \A pick : pick \in 0..TotalWeight(c) - 1 /\ s[k - 1] <= pick /\ pick < s[k]
                    <=> pick \in s[k - 1]..(s[k] - 1)
    BY <1>2, <1>5, <1>6
  <2>. QED
    BY <2>1, <2>2
<1>8. Cardinality(s[k - 1]..(s[k] - 1)) = c[k].weight
  <2> DEFINE lo == s[k - 1]
             hi == s[k] - 1
  <2>1. lo \in Int /\ hi \in Int /\ ~(lo > hi) /\ hi - lo + 1 = c[k].weight
    BY <1>2, <1>3, <1>6
  <2> HIDE DEF lo, hi
  <2>2. Cardinality(lo..hi) = hi - lo + 1
    BY <2>1, FS_Interval
  <2>. QED
    BY <2>1, <2>2 DEF lo, hi
<1>9. TotalWeight(c) > 0
  BY <1>2, <1>5, <1>6
<1>. QED
  BY <1>3, <1>7, <1>8, <1>9

-----------------------------------------------------------------------------
(***************************************************************************)
(* Tiers: the enumeration of a set, and what Load makes of a table.        *)
(***************************************************************************)
(* A finite set of integers that is not empty has a greatest.              *)
LEMMA Greatest ==
    ASSUME NEW S \in SUBSET Int, IsFiniteSet(S), S # {}
    PROVE  \E m \in S : \A n \in S : n <= m
<1> DEFINE Bad(U) == /\ U \in SUBSET Int /\ IsFiniteSet(U) /\ U # {}
                     /\ \A m \in U : \E n \in U : ~(n <= m)
           T == {n \in Nat : \E U : Bad(U) /\ Cardinality(U) = n}
<1> SUFFICES ASSUME Bad(S) PROVE FALSE
  OBVIOUS
<1>1. Cardinality(S) \in T
  BY FS_CardinalityType
<1>2. PICK n \in T : \A m \in T : n <= m
  <2>1. T \in SUBSET Nat /\ T # {}
    BY <1>1
  <2> HIDE DEF T
  <2>. QED
    BY <2>1, Least
<1>3. PICK U : Bad(U) /\ Cardinality(U) = n
  BY <1>2
<1>4. PICK x \in U : TRUE
  BY <1>3
<1> DEFINE V == U \ {x}
<1>5. IsFiniteSet(V) /\ Cardinality(V) = n - 1 /\ n \in Nat /\ n - 1 \in Nat
  <2>1. IsFiniteSet(V) /\ Cardinality(V) = Cardinality(U) - 1
    BY <1>3, <1>4, FS_RemoveElement
  <2>2. Cardinality(V) \in Nat
    BY <2>1, FS_CardinalityType
  <2>. QED
    BY <1>2, <1>3, <2>1, <2>2
<1>6. n - 1 \notin T
  BY <1>2, <1>5
<1>7. ~Bad(V)
  BY <1>5, <1>6
<1>8. CASE V = {}
  BY <1>3, <1>4, <1>8
<1>9. CASE V # {}
  <2>1. PICK m \in V : \A y \in V : y <= m
    BY <1>3, <1>5, <1>7, <1>9
  <2>2. (IF m <= x THEN x ELSE m) \in U /\ \A y \in U : y <= (IF m <= x THEN x ELSE m)
    BY <1>3, <1>4, <2>1
  <2>. QED
    BY <1>3, <2>2
<1>. QED
  BY <1>8, <1>9

Enumerates(S, s) ==
    /\ s \in [1..Cardinality(S) -> S]
    /\ \A i, j \in DOMAIN s : i < j => s[i] < s[j]

LEMMA EnumerationExists ==
    ASSUME NEW S \in SUBSET Int, IsFiniteSet(S)
    PROVE  \E s : Enumerates(S, s)
<1> DEFINE Bad(U) == U \in SUBSET Int /\ IsFiniteSet(U) /\ ~\E s : Enumerates(U, s)
           T == {n \in Nat : \E U : Bad(U) /\ Cardinality(U) = n}
<1> SUFFICES ASSUME Bad(S) PROVE FALSE
  OBVIOUS
<1>1. Cardinality(S) \in T
  BY FS_CardinalityType
<1>2. PICK n \in T : \A m \in T : n <= m
  <2>1. T \in SUBSET Nat /\ T # {}
    BY <1>1
  <2> HIDE DEF T
  <2>. QED
    BY <2>1, Least
<1>3. PICK U : Bad(U) /\ Cardinality(U) = n
  BY <1>2
<1>4. CASE U = {}
  <2>1. Enumerates(U, [i \in 1..0 |-> 0])
    BY <1>4, FS_EmptySet DEF Enumerates
  <2>. QED
    BY <1>3, <2>1
<1>5. CASE U # {}
  <2>1. PICK x \in U : \A y \in U : y <= x
    BY <1>3, <1>5, Greatest
  <2> DEFINE V == U \ {x}
  <2>2. IsFiniteSet(V) /\ Cardinality(V) = n - 1 /\ n \in Nat /\ n - 1 \in Nat
    <3>1. IsFiniteSet(V) /\ Cardinality(V) = Cardinality(U) - 1
      BY <1>3, <2>1, FS_RemoveElement
    <3>2. Cardinality(V) \in Nat
      BY <3>1, FS_CardinalityType
    <3>. QED
      BY <1>2, <1>3, <3>1, <3>2
  <2>3. ~Bad(V)
    BY <1>2, <2>2
  <2>4. PICK s : Enumerates(V, s)
    BY <1>3, <2>2, <2>3
  <2> DEFINE t == [i \in 1..n |-> IF i = n THEN x ELSE s[i]]
  <2>5. s \in [1..n - 1 -> V] /\ \A i, j \in 1..n - 1 : i < j => s[i] < s[j]
    BY <2>2, <2>4 DEF Enumerates
  <2>6. t \in [1..n -> U]
    BY <2>1, <2>2, <2>5
  <2>7. ASSUME NEW i \in 1..n, NEW j \in 1..n, i < j PROVE t[i] < t[j]
    <3>1. t[i] = s[i] /\ i \in 1..n - 1
      BY <2>2, <2>7
    <3>4. s[i] \in V
      BY <2>5, <3>1
    <3>5. s[i] \in Int /\ x \in Int
      BY <1>3, <2>1, <3>4
    <3>2. CASE j = n
      BY <2>1, <3>1, <3>2, <3>4, <3>5
    <3>3. CASE j # n
      BY <2>5, <2>7, <3>1, <3>3
    <3>. QED
      BY <3>2, <3>3
  <2>8. Enumerates(U, t)
    BY <1>3, <2>6, <2>7 DEF Enumerates
  <2>. QED
    BY <1>3, <2>8
<1>. QED
  BY <1>4, <1>5

(* Ascending enumerates: nothing twice and nothing left out.               *)
LEMMA AscendingProperties ==
    ASSUME NEW S \in SUBSET Int, IsFiniteSet(S)
    PROVE  /\ Cardinality(S) \in Nat
           /\ Ascending(S) \in [1..Cardinality(S) -> S]
           /\ \A i, j \in 1..Cardinality(S) : i < j => Ascending(S)[i] < Ascending(S)[j]
           /\ \A x \in S : \E i \in 1..Cardinality(S) : Ascending(S)[i] = x
<1> DEFINE a == Ascending(S)
           n == Cardinality(S)
<1>1. n \in Nat
  BY FS_CardinalityType
<1>2. a \in [1..n -> S] /\ \A i, j \in 1..n : i < j => a[i] < a[j]
  BY EnumerationExists DEF Ascending, Enumerates
<1> HIDE DEF a
<1>3. a \in Injection(1..n, S)
  <2>1. \A i, j \in 1..n : a[i] = a[j] => i = j
    <3>1. \A i \in 1..n : a[i] \in S /\ i \in Int
      BY <1>1, <1>2
    <3>2. \A i \in 1..n : a[i] \in Int
      BY <3>1
    <3>. QED
      BY <1>2, <3>1, <3>2
  <2>. QED
    BY <1>2, <2>1 DEF Injection, IsInjective
<1>4. a \in Surjection(1..n, S)
  <2>1. Cardinality(1..n) = n
    BY <1>1, FS_Interval
  <2>. QED
    BY <1>3, <2>1, FS_Injection
<1>5. \A x \in S : \E i \in 1..n : a[i] = x
  BY <1>4 DEF Surjection
<1>. QED
  BY <1>1, <1>2, <1>5 DEF a

LEMMA AsCandidateType ==
    ASSUME NEW p \in Provider
    PROVE  /\ AsCandidate(p) \in RouteCandidate
           /\ AsCandidate(p).code = p.code /\ AsCandidate(p).priority = p.priority
BY DEF AsCandidate, Provider, RouteCandidate

LEMMA ProvidersType ==
    ASSUME NEW t \in Table
    PROVE  ProvidersOf(t) \in Seq(Provider)
BY RoutingAssumption, EmptySeq DEF ProvidersOf

LEMMA PrioritiesProperties ==
    ASSUME NEW ps \in Seq(Provider)
    PROVE  LET prios == Priorities(ps) IN
           /\ prios \in Seq(Int)
           /\ \A n \in 1..Len(prios) : prios[n] \in Int
           /\ \A n \in 1..Len(prios) : \E k \in DOMAIN ps : ps[k].priority = prios[n]
           /\ \A m, n \in 1..Len(prios) : m < n => prios[m] < prios[n]
           /\ \A k \in DOMAIN ps : \E n \in 1..Len(prios) : prios[n] = ps[k].priority
<1> DEFINE S == {ps[k].priority : k \in DOMAIN ps}
           f == [k \in DOMAIN ps |-> ps[k].priority]
<1>1. Len(ps) \in Nat /\ DOMAIN ps = 1..Len(ps) /\ IsFiniteSet(DOMAIN ps)
  BY LenProperties, FS_Interval
<1>2. IsFiniteSet(S)
  <2>1. f \in Surjection(DOMAIN ps, S)
    BY DEF Surjection
  <2> HIDE DEF f, S
  <2>. QED
    BY <1>1, <2>1, FS_Surjection
<1>3. S \in SUBSET Int
  <2>1. \A k \in DOMAIN ps : ps[k] \in Provider
    BY <1>1, ElementOfSeq
  <2>. QED
    BY <2>1 DEF Provider
<1> DEFINE prios == Ascending(S)
           n == Cardinality(S)
<1>4. /\ n \in Nat /\ prios \in [1..n -> S]
      /\ \A i, j \in 1..n : i < j => prios[i] < prios[j]
      /\ \A x \in S : \E i \in 1..n : prios[i] = x
  <2> HIDE DEF S
  <2>. QED
    BY <1>2, <1>3, AscendingProperties
<1>5. Priorities(ps) = prios
  BY DEF Priorities
<1> HIDE DEF prios, n
<1>6. prios \in Seq(Int) /\ Len(prios) = n
  BY <1>3, <1>4
<1>7. \A i \in 1..n : prios[i] \in S
  BY <1>4
<1>8. \A i \in 1..n : \E k \in DOMAIN ps : ps[k].priority = prios[i]
  BY <1>7
<1>9. \A k \in DOMAIN ps : \E i \in 1..n : prios[i] = ps[k].priority
  BY <1>4
<1> HIDE DEF S
<1>10. \A i \in 1..n : prios[i] \in Int
  BY <1>3, <1>7
<1>. QED
  BY <1>4, <1>5, <1>6, <1>8, <1>9, <1>10

LEMMA TierAtProperties ==
    ASSUME NEW ps \in Seq(Provider), NEW prio
    PROVE  LET at == TierAt(ps, prio) IN
           /\ at \in Seq(DOMAIN ps)
           /\ \A i \in 1..Len(at) : at[i] \in DOMAIN ps /\ ps[at[i]].priority = prio
           /\ \A i, j \in 1..Len(at) : at[i] = at[j] => i = j
           /\ \A k \in DOMAIN ps : ps[k].priority = prio => \E i \in 1..Len(at) : at[i] = k
<1> DEFINE S == {k \in DOMAIN ps : ps[k].priority = prio}
           at == Ascending(S)
           n == Cardinality(S)
<1>1. Len(ps) \in Nat /\ DOMAIN ps = 1..Len(ps) /\ IsFiniteSet(DOMAIN ps)
  BY LenProperties, FS_Interval
<1>2. IsFiniteSet(S) /\ S \in SUBSET Int /\ S \in SUBSET DOMAIN ps
  BY <1>1, FS_Subset
<1>3. /\ n \in Nat /\ at \in [1..n -> S]
      /\ \A i, j \in 1..n : i < j => at[i] < at[j]
      /\ \A x \in S : \E i \in 1..n : at[i] = x
  <2> HIDE DEF S
  <2>. QED
    BY <1>2, AscendingProperties
<1>4. TierAt(ps, prio) = at
  BY DEF TierAt
<1> HIDE DEF at, n
<1>5. at \in Seq(DOMAIN ps) /\ Len(at) = n
  BY <1>2, <1>3
<1>6. \A i \in 1..n : at[i] \in S /\ at[i] \in Int
  BY <1>2, <1>3
<1>7. \A i, j \in 1..n : at[i] = at[j] => i = j
  BY <1>3, <1>6
<1>. QED
  BY <1>3, <1>4, <1>5, <1>6, <1>7

(* Tiers: as many as there are priorities, each its priority's candidates. *)
LEMMA TiersProperties ==
    ASSUME NEW t \in Table
    PROVE  LET ps == ProvidersOf(t) IN
           /\ Tiers(t) \in Seq(Seq(RouteCandidate))
           /\ Len(Tiers(t)) = Len(Priorities(ps))
           /\ \A n \in 1..Len(Tiers(t)) :
                LET at == TierAt(ps, Priorities(ps)[n]) IN
                Tiers(t)[n] = [i \in 1..Len(at) |-> AsCandidate(ps[at[i]])]
<1> DEFINE ps == ProvidersOf(t)
           prios == Priorities(ps)
           Tier(n) == LET at == TierAt(ps, prios[n])
                      IN  [i \in 1..Len(at) |-> AsCandidate(ps[at[i]])]
<1>1. ps \in Seq(Provider)
  BY ProvidersType
<1> HIDE DEF ps
<1>2. prios \in Seq(Int) /\ Len(prios) \in Nat /\ DOMAIN prios = 1..Len(prios)
  BY <1>1, PrioritiesProperties, LenProperties
<1> HIDE DEF prios
<1>3. ASSUME NEW n \in 1..Len(prios)
      PROVE  /\ Tier(n) \in Seq(RouteCandidate)
             /\ Tier(n) = [i \in DOMAIN TierAt(ps, prios[n]) |->
                                AsCandidate(ps[TierAt(ps, prios[n])[i]])]
  <2> DEFINE at == TierAt(ps, prios[n])
  <2>1. at \in Seq(DOMAIN ps) /\ \A i \in 1..Len(at) : at[i] \in DOMAIN ps
    BY <1>1, TierAtProperties
  <2> HIDE DEF at
  <2>2. Len(at) \in Nat /\ DOMAIN at = 1..Len(at)
    BY <2>1, LenProperties
  <2>3. \A i \in 1..Len(at) : AsCandidate(ps[at[i]]) \in RouteCandidate
    <3>1. \A k \in DOMAIN ps : ps[k] \in Provider
      BY <1>1, ElementOfSeq, LenProperties
    <3>. QED
      BY <2>1, <3>1, AsCandidateType
  <2>4. [i \in 1..Len(at) |-> AsCandidate(ps[at[i]])] \in Seq(RouteCandidate)
    BY <2>2, <2>3
  <2>. QED
    BY <2>2, <2>4 DEF at
<1>4. Tiers(t) = [n \in 1..Len(prios) |-> Tier(n)]
  <2>1. Tiers(t) = [n \in 1..Len(prios) |-> [i \in DOMAIN TierAt(ps, prios[n]) |->
                                AsCandidate(ps[TierAt(ps, prios[n])[i]])]]
    BY <1>2 DEF Tiers, ps, prios
  <2> HIDE DEF Tier
  <2>. QED
    BY <2>1, <1>3
<1> HIDE DEF Tier
<1>5. [n \in 1..Len(prios) |-> Tier(n)] \in Seq(Seq(RouteCandidate))
  BY <1>2, <1>3
<1>. QED
  BY <1>2, <1>4, <1>5 DEF Tier, ps, prios

-----------------------------------------------------------------------------
(***************************************************************************)
(* The draw: from what is left to what is out.                             *)
(***************************************************************************)
(* The record the request goroutines keep, unwritten in the code: which    *)
(* provider each candidate stands for.                                     *)
Entries(ps, n, o, left, p, q) ==
    /\ \A i \in DOMAIN o : o[i] = AsCandidate(ps[p[i]])
    /\ \A i \in DOMAIN left : left[i] = AsCandidate(ps[q[i]])
    /\ \A i, j \in DOMAIN o : p[i] = p[j] => i = j
    /\ \A i, j \in DOMAIN left : q[i] = q[j] => i = j
    /\ \A i \in DOMAIN o, j \in DOMAIN left : p[i] # q[j]
    /\ \A k \in DOMAIN ps :
          (\E m \in 1..n : ps[k].priority = Priorities(ps)[m])
              <=> (\E i \in DOMAIN o : p[i] = k) \/ (\E i \in DOMAIN left : q[i] = k)
    /\ \A i, j \in DOMAIN o : i < j => o[i].priority <= o[j].priority
    /\ \A i \in DOMAIN o, j \in DOMAIN left : o[i].priority <= left[j].priority
    /\ \A i, j \in DOMAIN left : left[i].priority = left[j].priority

Ledger(ps, n, o, left) ==
    \E p \in [DOMAIN o -> DOMAIN ps], q \in [DOMAIN left -> DOMAIN ps] :
        Entries(ps, n, o, left, p, q)

LEMMA RemoveAtProperties ==
    ASSUME NEW S, NEW s \in Seq(S), NEW x \in 1..Len(s)
    PROVE  /\ RemoveAt(s, x) \in Seq(S)
           /\ Len(RemoveAt(s, x)) = Len(s) - 1
           /\ \A j \in 1..Len(s) - 1 : RemoveAt(s, x)[j] = IF j < x THEN s[j] ELSE s[j + 1]
<1> DEFINE a == SubSeq(s, 1, x - 1)
           b == SubSeq(s, x + 1, Len(s))
<1>1. Len(s) \in Nat /\ \A i \in 1..Len(s) : s[i] \in S
  BY LenProperties, ElementOfSeq
<1>2. /\ a \in Seq(S) /\ Len(a) = x - 1
      /\ \A i \in 1..x - 1 : a[i] = s[i]
  <2>1. /\ a \in Seq(S)
        /\ Len(a) = IF 1 <= x - 1 THEN x - 1 - 1 + 1 ELSE 0
        /\ \A i \in 1..x - 1 - 1 + 1 : a[i] = s[1 + i - 1]
    BY <1>1, SubSeqProperties
  <2> HIDE DEF a
  <2>. QED
    BY <1>1, <2>1
<1>3. /\ b \in Seq(S) /\ Len(b) = Len(s) - x
      /\ \A i \in 1..Len(s) - x : b[i] = s[x + i]
  <2>1. /\ b \in Seq(S)
        /\ Len(b) = IF x + 1 <= Len(s) THEN Len(s) - (x + 1) + 1 ELSE 0
        /\ \A i \in 1..Len(s) - (x + 1) + 1 : b[i] = s[x + 1 + i - 1]
    BY <1>1, SubSeqProperties
  <2> HIDE DEF b
  <2>. QED
    BY <1>1, <2>1
<1>4. RemoveAt(s, x) = a \o b
  BY DEF RemoveAt
<1> HIDE DEF a, b
<1>5. /\ a \o b \in Seq(S) /\ Len(a \o b) = Len(a) + Len(b)
      /\ \A i \in 1..Len(a) + Len(b) : (a \o b)[i] = IF i <= Len(a) THEN a[i] ELSE b[i - Len(a)]
  BY <1>2, <1>3, ConcatProperties
<1>6. Len(a) + Len(b) = Len(s) - 1
  BY <1>1, <1>2, <1>3
<1>7. ASSUME NEW j \in 1..Len(s) - 1
      PROVE  (a \o b)[j] = IF j < x THEN s[j] ELSE s[j + 1]
  <2>1. (a \o b)[j] = IF j <= x - 1 THEN a[j] ELSE b[j - (x - 1)]
    BY <1>2, <1>5, <1>6
  <2>2. CASE j < x
    BY <1>1, <1>2, <2>1, <2>2
  <2>3. CASE ~(j < x)
    <3>1. j - (x - 1) \in 1..Len(s) - x /\ x + (j - (x - 1)) = j + 1
      BY <1>1, <2>3
    <3>. QED
      BY <1>1, <1>3, <2>1, <2>3, <3>1
  <2>. QED
    BY <2>2, <2>3
<1>. QED
  BY <1>4, <1>5, <1>6, <1>7

(* Nothing drawn, nothing copied.                                          *)
LEMMA LedgerOpens ==
    ASSUME NEW ps \in Seq(Provider)
    PROVE  Ledger(ps, 0, <<>>, <<>>)
<1> DEFINE none == [i \in {} |-> 0]
<1>1. DOMAIN <<>> = {} /\ 1..0 = {}
  OBVIOUS
<1>2. none \in [DOMAIN <<>> -> DOMAIN ps]
  BY <1>1
<1> HIDE DEF none
<1>3. Entries(ps, 0, <<>>, <<>>, none, none)
  BY <1>1 DEF Entries
<1>. QED
  BY <1>2, <1>3 DEF Ledger

(* With nothing left, the entries are those of what is out.                *)
LEMMA LedgerEmptied ==
    ASSUME NEW ps, NEW n, NEW o, Ledger(ps, n, o, <<>>)
    PROVE  \E p \in [DOMAIN o -> DOMAIN ps] :
            /\ \A i \in DOMAIN o : o[i] = AsCandidate(ps[p[i]])
            /\ \A i, j \in DOMAIN o : p[i] = p[j] => i = j
            /\ \A k \in DOMAIN ps :
                  (\E m \in 1..n : ps[k].priority = Priorities(ps)[m])
                      <=> (\E i \in DOMAIN o : p[i] = k)
            /\ \A i, j \in DOMAIN o : i < j => o[i].priority <= o[j].priority
<1>1. PICK p \in [DOMAIN o -> DOMAIN ps], q \in [DOMAIN <<>> -> DOMAIN ps] :
        Entries(ps, n, o, <<>>, p, q)
  BY DEF Ledger
<1>2. ~\E i \in DOMAIN <<>> : q[i] # q[i] \/ q[i] = q[i]
  OBVIOUS
<1>. QED
  BY <1>1, <1>2 DEF Entries

(* The next tier: its candidates come after everything drawn so far.       *)
LEMMA LedgerCopies ==
    ASSUME NEW ps \in Seq(Provider), NEW n \in Nat, n < Len(Priorities(ps)),
           NEW o \in Seq(RouteCandidate), Ledger(ps, n, o, <<>>),
           NEW left,
           left = LET at == TierAt(ps, Priorities(ps)[n + 1])
                  IN  [i \in 1..Len(at) |-> AsCandidate(ps[at[i]])]
    PROVE  Ledger(ps, n + 1, o, left)
<1> DEFINE prios == Priorities(ps)
           q == TierAt(ps, prios[n + 1])
<1>1. PICK p \in [DOMAIN o -> DOMAIN ps] :
        /\ \A i \in DOMAIN o : o[i] = AsCandidate(ps[p[i]])
        /\ \A i, j \in DOMAIN o : p[i] = p[j] => i = j
        /\ \A k \in DOMAIN ps :
              (\E m \in 1..n : ps[k].priority = prios[m]) <=> (\E i \in DOMAIN o : p[i] = k)
        /\ \A i, j \in DOMAIN o : i < j => o[i].priority <= o[j].priority
  BY LedgerEmptied
<1>2. /\ Len(prios) \in Nat
      /\ \A m \in 1..Len(prios) : prios[m] \in Int
      /\ \A l, m \in 1..Len(prios) : l < m => prios[l] < prios[m]
  BY PrioritiesProperties, LenProperties
<1>3. /\ q \in Seq(DOMAIN ps)
      /\ \A i \in 1..Len(q) : q[i] \in DOMAIN ps /\ ps[q[i]].priority = prios[n + 1]
      /\ \A i, j \in 1..Len(q) : q[i] = q[j] => i = j
      /\ \A k \in DOMAIN ps : ps[k].priority = prios[n + 1] => \E i \in 1..Len(q) : q[i] = k
  BY TierAtProperties
<1>4. /\ Len(q) \in Nat /\ q \in [1..Len(q) -> DOMAIN ps]
      /\ left = [i \in 1..Len(q) |-> AsCandidate(ps[q[i]])] /\ DOMAIN left = 1..Len(q)
  BY <1>3, LenProperties
<1> HIDE DEF prios, q
<1>5. \A k \in DOMAIN ps : AsCandidate(ps[k]).priority = ps[k].priority
  BY AsCandidateType, ElementOfSeq, LenProperties
<1>6. ASSUME NEW i \in DOMAIN o
      PROVE  \E m \in 1..n : o[i].priority = prios[m] /\ ps[p[i]].priority = prios[m]
  <2>1. p[i] \in DOMAIN ps /\ o[i].priority = ps[p[i]].priority
    BY <1>1, <1>5
  <2>2. \E m \in 1..n : ps[p[i]].priority = prios[m]
    BY <1>1, <2>1
  <2>. QED
    BY <2>1, <2>2
<1>7. \A i \in DOMAIN o, j \in DOMAIN left : p[i] # q[j] /\ o[i].priority <= left[j].priority
  <2> SUFFICES ASSUME NEW i \in DOMAIN o, NEW j \in DOMAIN left
               PROVE  p[i] # q[j] /\ o[i].priority <= left[j].priority
    OBVIOUS
  <2>1. PICK m \in 1..n : o[i].priority = prios[m] /\ ps[p[i]].priority = prios[m]
    BY <1>6
  <2>2. left[j].priority = prios[n + 1] /\ ps[q[j]].priority = prios[n + 1]
    BY <1>3, <1>4, <1>5
  <2>3. m \in 1..Len(prios) /\ n + 1 \in 1..Len(prios) /\ m < n + 1
    BY <1>2 DEF prios
  <2>4. prios[m] < prios[n + 1] /\ prios[m] \in Int /\ prios[n + 1] \in Int
    BY <1>2, <2>3
  <2>5. p[i] # q[j]
    BY <2>1, <2>2, <2>4
  <2>6. o[i].priority <= left[j].priority
    BY <2>1, <2>2, <2>4
  <2>. QED
    BY <2>5, <2>6
<1>8. ASSUME NEW k \in DOMAIN ps
      PROVE  (\E m \in 1..n + 1 : ps[k].priority = prios[m])
                <=> (\E i \in DOMAIN o : p[i] = k) \/ (\E i \in DOMAIN left : q[i] = k)
  <2>1. (\E m \in 1..n + 1 : ps[k].priority = prios[m])
          <=> (\E m \in 1..n : ps[k].priority = prios[m]) \/ ps[k].priority = prios[n + 1]
    OBVIOUS
  <2>2. ps[k].priority = prios[n + 1] <=> \E i \in DOMAIN left : q[i] = k
    BY <1>3, <1>4
  <2>. QED
    BY <1>1, <2>1, <2>2
<1>9. \A i, j \in DOMAIN left : left[i].priority = left[j].priority
  <2>1. ASSUME NEW i \in DOMAIN left PROVE left[i].priority = prios[n + 1]
    <3>1. q[i] \in DOMAIN ps /\ left[i] = AsCandidate(ps[q[i]]) /\ ps[q[i]].priority = prios[n + 1]
      BY <1>3, <1>4
    <3>. QED
      BY <1>5, <3>1
  <2>. QED
    BY <2>1
<1>10. \A i \in DOMAIN left : left[i] = AsCandidate(ps[q[i]])
  BY <1>4
<1>11. \A i, j \in DOMAIN left : q[i] = q[j] => i = j
  BY <1>3, <1>4
<1>12. Entries(ps, n + 1, o, left, p, q)
  BY <1>1, <1>7, <1>8, <1>9, <1>10, <1>11 DEF Entries, prios
<1>. QED
  BY <1>4, <1>12 DEF Ledger

(* A draw moves one entry from what is left to what is out.                *)
LEMMA LedgerDraws ==
    ASSUME NEW ps \in Seq(Provider), NEW n \in Nat,
           NEW o \in Seq(RouteCandidate), NEW left \in Seq(RouteCandidate),
           Ledger(ps, n, o, left), NEW x \in 1..Len(left)
    PROVE  Ledger(ps, n, Append(o, left[x]), RemoveAt(left, x))
<1>1. PICK p \in [DOMAIN o -> DOMAIN ps], q \in [DOMAIN left -> DOMAIN ps] :
        Entries(ps, n, o, left, p, q)
  BY DEF Ledger
<1> DEFINE N == Len(o) + 1
           L == Len(left) - 1
           o2 == Append(o, left[x])
           left2 == RemoveAt(left, x)
           old(j) == IF j < x THEN j ELSE j + 1
           p2 == [i \in 1..N |-> IF i = N THEN q[x] ELSE p[i]]
           q2 == [j \in 1..L |-> q[old(j)]]
<1>2. Len(o) \in Nat /\ Len(left) \in Nat /\ DOMAIN o = 1..Len(o) /\ DOMAIN left = 1..Len(left)
  BY LenProperties
<1>3. /\ DOMAIN o2 = 1..N /\ o2[N] = left[x]
      /\ \A i \in 1..N : i # N => i \in DOMAIN o /\ o2[i] = o[i]
  <2>1. left[x] \in RouteCandidate
    BY ElementOfSeq
  <2>2. /\ o2 \in Seq(RouteCandidate) /\ Len(o2) = N /\ o2[N] = left[x]
        /\ \A i \in 1..Len(o) : o2[i] = o[i]
    BY <2>1, AppendProperties
  <2>. QED
    BY <1>2, <2>2, LenProperties
<1>4. /\ DOMAIN left2 = 1..L
      /\ \A j \in 1..L : left2[j] = left[old(j)] /\ old(j) \in DOMAIN left /\ old(j) # x
  <2>1. /\ left2 \in Seq(RouteCandidate) /\ Len(left2) = L
        /\ \A j \in 1..L : left2[j] = IF j < x THEN left[j] ELSE left[j + 1]
    BY RemoveAtProperties
  <2> HIDE DEF left2
  <2>2. DOMAIN left2 = 1..L
    BY <2>1, LenProperties
  <2>. QED
    BY <1>2, <2>1, <2>2
<1>5. \A i, j \in 1..L : old(i) = old(j) => i = j
  BY <1>2
<1>6. \A y \in DOMAIN left : y # x => \E j \in 1..L : old(j) = y
  <2> SUFFICES ASSUME NEW y \in DOMAIN left, y # x PROVE \E j \in 1..L : old(j) = y
    OBVIOUS
  <2>1. CASE y < x
    BY <1>2, <2>1
  <2>2. CASE ~(y < x)
    <3>1. y - 1 \in 1..L /\ old(y - 1) = y
      BY <1>2, <2>2
    <3>. QED
      BY <3>1
  <2>. QED
    BY <2>1, <2>2
<1>7. x \in DOMAIN left /\ N \in 1..N /\ N \in Nat
  BY <1>2
<1> HIDE DEF o2, left2, old, N, L
<1>8. p2 \in [1..N -> DOMAIN ps] /\ q2 \in [1..L -> DOMAIN ps]
  BY <1>1, <1>3, <1>4, <1>7
<1>9. /\ p2[N] = q[x] /\ \A i \in 1..N : i # N => p2[i] = p[i]
      /\ \A j \in 1..L : q2[j] = q[old(j)]
  BY <1>7
<1> HIDE DEF p2, q2
<1>10. \A i \in 1..N : o2[i] = AsCandidate(ps[p2[i]])
  BY <1>1, <1>3, <1>7, <1>9 DEF Entries
<1>11. \A j \in 1..L : left2[j] = AsCandidate(ps[q2[j]])
  BY <1>1, <1>4, <1>9 DEF Entries
<1>12. \A i, j \in 1..N : p2[i] = p2[j] => i = j
  BY <1>1, <1>3, <1>7, <1>9 DEF Entries
<1>13. \A i, j \in 1..L : q2[i] = q2[j] => i = j
  BY <1>1, <1>4, <1>5, <1>9 DEF Entries
<1>14. \A i \in 1..N, j \in 1..L : p2[i] # q2[j]
  BY <1>1, <1>3, <1>4, <1>7, <1>9 DEF Entries
<1>15. ASSUME NEW k \in DOMAIN ps
       PROVE  (\E m \in 1..n : ps[k].priority = Priorities(ps)[m])
                <=> (\E i \in 1..N : p2[i] = k) \/ (\E j \in 1..L : q2[j] = k)
  <2>1. (\E i \in 1..N : p2[i] = k) <=> (\E i \in DOMAIN o : p[i] = k) \/ q[x] = k
    <3>1. \A i \in DOMAIN o : i \in 1..N /\ i # N
      BY <1>2 DEF N
    <3>. QED
      BY <1>3, <1>7, <1>9, <3>1
  <2>2. (\E i \in DOMAIN left : q[i] = k) <=> (\E j \in 1..L : q2[j] = k) \/ q[x] = k
    <3>1. ASSUME NEW i \in DOMAIN left, q[i] = k, i # x PROVE \E j \in 1..L : q2[j] = k
      BY <1>6, <1>9, <3>1
    <3>2. ASSUME NEW j \in 1..L, q2[j] = k PROVE \E i \in DOMAIN left : q[i] = k
      BY <1>4, <1>9, <3>2
    <3>. QED
      BY <1>7, <3>1, <3>2
  <2>. QED
    BY <1>1, <2>1, <2>2 DEF Entries
<1>16. \A i, j \in 1..N : i < j => o2[i].priority <= o2[j].priority
  <2> SUFFICES ASSUME NEW i \in 1..N, NEW j \in 1..N, i < j
               PROVE  o2[i].priority <= o2[j].priority
    OBVIOUS
  <2>1. i # N /\ i \in DOMAIN o /\ o2[i] = o[i]
    BY <1>3, <1>7
  <2>. QED
    BY <1>1, <1>3, <1>7, <2>1 DEF Entries
<1>17. \A i \in 1..N, j \in 1..L : o2[i].priority <= left2[j].priority
  <2> SUFFICES ASSUME NEW i \in 1..N, NEW j \in 1..L
               PROVE  o2[i].priority <= left2[j].priority
    OBVIOUS
  <2>1. left2[j] = left[old(j)] /\ old(j) \in DOMAIN left
    BY <1>4
  <2>2. left[old(j)].priority \in Int
    <3>1. left[old(j)] \in RouteCandidate
      BY <1>2, <2>1, ElementOfSeq
    <3>. QED
      BY <3>1 DEF RouteCandidate
  <2>3. CASE i = N
    BY <1>1, <1>3, <1>7, <2>1, <2>2, <2>3 DEF Entries
  <2>4. CASE i # N
    BY <1>1, <1>3, <2>1, <2>4 DEF Entries
  <2>. QED
    BY <2>3, <2>4
<1>18. \A i, j \in 1..L : left2[i].priority = left2[j].priority
  BY <1>1, <1>4 DEF Entries
<1>19. DOMAIN o2 = 1..N /\ DOMAIN left2 = 1..L
  BY <1>3, <1>4
<1>20. Entries(ps, n, o2, left2, p2, q2)
  <2>1. \A k \in DOMAIN ps :
            (\E m \in 1..n : ps[k].priority = Priorities(ps)[m])
                <=> (\E i \in DOMAIN o2 : p2[i] = k) \/ (\E i \in DOMAIN left2 : q2[i] = k)
    BY <1>15, <1>19
  <2>. QED
    BY <1>10, <1>11, <1>12, <1>13, <1>14, <1>16, <1>17, <1>18, <1>19, <2>1 DEF Entries
<1>21. Ledger(ps, n, o2, left2)
  BY <1>8, <1>19, <1>20 DEF Ledger
<1>. QED
  BY <1>21 DEF o2, left2

(* With all tiers drawn, every provider is out, once.                      *)
LEMMA LedgerCloses ==
    ASSUME NEW ps \in Seq(Provider), NEW o \in Seq(RouteCandidate),
           Ledger(ps, Len(Priorities(ps)), o, <<>>)
    PROVE  /\ \E p \in [DOMAIN o -> DOMAIN ps] :
               /\ {p[k] : k \in DOMAIN p} = DOMAIN ps /\ Len(o) = Len(ps)
               /\ \A k \in DOMAIN p : o[k].code = ps[p[k]].code
           /\ \A k, n \in DOMAIN o : k < n => o[k].priority <= o[n].priority
<1>1. PICK p \in [DOMAIN o -> DOMAIN ps] :
        /\ \A i \in DOMAIN o : o[i] = AsCandidate(ps[p[i]])
        /\ \A i, j \in DOMAIN o : p[i] = p[j] => i = j
        /\ \A k \in DOMAIN ps :
              (\E m \in 1..Len(Priorities(ps)) : ps[k].priority = Priorities(ps)[m])
                  <=> (\E i \in DOMAIN o : p[i] = k)
        /\ \A i, j \in DOMAIN o : i < j => o[i].priority <= o[j].priority
  BY LedgerEmptied
<1>2. /\ Len(o) \in Nat /\ Len(ps) \in Nat
      /\ DOMAIN o = 1..Len(o) /\ DOMAIN ps = 1..Len(ps)
  BY LenProperties
<1>3. \A k \in DOMAIN ps : \E i \in DOMAIN o : p[i] = k
  <2>1. \A k \in DOMAIN ps : \E m \in 1..Len(Priorities(ps)) : Priorities(ps)[m] = ps[k].priority
    BY PrioritiesProperties
  <2>. QED
    BY <1>1, <2>1
<1>4. ExistsBijection(DOMAIN o, DOMAIN ps)
  BY <1>1, <1>3 DEF ExistsBijection, Bijection, Injection, Surjection, IsInjective
<1>5. Len(o) = Len(ps)
  <2>1. \A n \in Nat : IsFiniteSet(1..n) /\ Cardinality(1..n) = n
    BY FS_Interval
  <2>. QED
    <3>1. IsFiniteSet(DOMAIN o)
      BY <1>2, <2>1
    <3>2. Cardinality(DOMAIN ps) = Cardinality(DOMAIN o)
      BY <1>4, <3>1, FS_Bijection
    <3>. QED
      BY <1>2, <2>1, <3>2
<1>6. {p[k] : k \in DOMAIN p} = DOMAIN ps
  BY <1>3
<1>7. \A k \in DOMAIN p : o[k].code = ps[p[k]].code
  <2>1. \A k \in DOMAIN ps : ps[k] \in Provider
    BY <1>2, ElementOfSeq
  <2>. QED
    BY <1>1, <2>1, AsCandidateType
<1>. QED
  BY <1>1, <1>5, <1>6, <1>7

-----------------------------------------------------------------------------
(***************************************************************************)
(* The invariants.                                                         *)
(***************************************************************************)
Tables ==
    /\ snap \in Table \union {None} /\ etag \in Table \union {None}
    /\ tiersOf = [t \in Table |-> tiersOf[t]]
    /\ held = [r \in Request |-> held[r]]
    /\ \A r \in Request : held[r] \in Table \union {None}

(* Only the poller's first success opens the gateway for requests.         *)
Serving == phase = "serving" => snap # None

(* Tables that are served, or held by a request, have the tiers Load built.*)
Intact ==
    /\ snap # None => tiersOf[snap] = Tiers(snap)
    /\ \A r \in Request : held[r] # None => tiersOf[held[r]] = Tiers(held[r])

IInv == Tables /\ EtagNamesSnapshot /\ Serving /\ Intact

(* A request sees one snapshot from its first to its last tier, and that   *)
(* snapshot as it was loaded, although all requests share it, weightedOrder*)
(* removes what it has drawn, and the poller loads other tables.           *)
HeldTiersAreIntact ==
    \A r \in Request : held[r] # None => tiersOf[held[r]] = Tiers(held[r])

(* ErrEmptyRoutes: a table without models does not replace one with models.*)
KeepsModels  == snap \in Table \ {NoModels} => snap' \in Table \ {NoModels}
NeverBlanked == [][KeepsModels]_vars

------------------------------------------------------------------------

(* Where a request's draw has come to: nothing before it has a snapshot,   *)
(* then every provider of the tiers so far is out or left.                 *)
Drawn ==
    \A r \in Request :
        LET ps == ProvidersOf(held[r]) IN
        IF held[r] = None THEN tier[r] = 0 /\ rem[r] = <<>> /\ out[r] = <<>>
        ELSE tier[r] \in 0..Len(Priorities(ps)) /\ Ledger(ps, tier[r], out[r], rem[r])

LEMMA InitIInv ==
    Init => IInv
<1>. QED
  BY DEF Init, IInv, Tables, EtagNamesSnapshot, Serving, Intact

(* Sync's last step: the table is taken over with its ETag, or nothing is. *)
LEMMA Synced ==
    ASSUME IInv, ApplySync
    PROVE  /\ UNCHANGED held
           /\ \/ UNCHANGED <<snap, tiersOf, etag>>
              \/ \E t \in Table : /\ snap' = t /\ etag' = t
                                  /\ tiersOf' = [tiersOf EXCEPT ![t] = Tiers(t)]
                                  /\ snap \in Table \ {NoModels} => t # NoModels
           /\ phase' = "serving" => phase = "serving" \/ snap' # None
<1>1. UNCHANGED held
  BY DEF ApplySync, reqVars
<1>2. \/ UNCHANGED <<snap, tiersOf, etag>>
      \/ \E t \in Table : /\ snap' = t /\ etag' = t
                          /\ tiersOf' = [tiersOf EXCEPT ![t] = Tiers(t)]
                          /\ snap \in Table \ {NoModels} => t # NoModels
  <2>1. CASE answer \in Table /\ ~EmptyRejected
    <3>1. /\ snap' = answer /\ etag' = answer
          /\ tiersOf' = [tiersOf EXCEPT ![answer] = Tiers(answer)]
      BY <2>1 DEF ApplySync, Load
    <3>2. snap \in Table \ {NoModels} => answer # NoModels
      BY <2>1, RoutingAssumption DEF EmptyRejected
    <3>. QED
      BY <2>1, <3>1, <3>2
  <2>2. CASE ~(answer \in Table /\ ~EmptyRejected)
    BY <2>2 DEF ApplySync
  <2>. QED
    BY <2>1, <2>2
<1>3. phase' = "serving" => phase = "serving" \/ snap' # None
  BY DEF ApplySync, AfterSync
<1>. QED
  BY <1>1, <1>2, <1>3

LEMMA ApplySyncStep ==
    ASSUME IInv, ApplySync
    PROVE  IInv'
<1>1. CASE UNCHANGED <<snap, tiersOf, etag>>
  BY <1>1, Synced DEF IInv, Tables, EtagNamesSnapshot, Serving, Intact
<1>2. ASSUME NEW t \in Table, snap' = t, etag' = t,
             tiersOf' = [tiersOf EXCEPT ![t] = Tiers(t)]
      PROVE  IInv'
  <2>1. held' = held /\ t # None
    BY Synced, RoutingAssumption
  <2>2. \A s \in Table : tiersOf'[s] = IF s = t THEN Tiers(t) ELSE tiersOf[s]
    BY <1>2 DEF IInv, Tables
  <2>3. Tables'
    BY <1>2, <2>1 DEF IInv, Tables
  <2>4. EtagNamesSnapshot' /\ Serving'
    BY <1>2, <2>1 DEF EtagNamesSnapshot, Serving
  <2>5. Intact'
    BY <1>2, <2>1, <2>2 DEF IInv, Tables, Intact
  <2>. QED
    BY <2>3, <2>4, <2>5 DEF IInv
<1>. QED
  BY <1>1, <1>2, Synced

(* A request takes what is served, and from then on only its own variables *)
(* change.                                                                 *)
LEMMA RequestKeeps ==
    ASSUME IInv, RequestStep
    PROVE  IInv' /\ UNCHANGED snap
<1>1. PICK r \in Request : TakeSnapshot(r) \/ CopyTier(r) \/ Draw(r)
  BY DEF RequestStep
<1>2. UNCHANGED <<snap, tiersOf, etag, phase>>
  BY <1>1 DEF TakeSnapshot, CopyTier, Draw, pollVars, routerVars
<1>3. CASE TakeSnapshot(r)
  <2>1. held' = [held EXCEPT ![r] = snap] /\ snap # None
    BY <1>3 DEF IInv, Serving, TakeSnapshot
  <2>2. \A q \in Request : held'[q] = IF q = r THEN snap ELSE held[q]
    BY <2>1 DEF IInv, Tables
  <2>3. Tables'
    BY <1>2, <2>1, <2>2 DEF IInv, Tables
  <2>4. Intact'
    BY <1>2, <2>1, <2>2 DEF IInv, Intact
  <2>. QED
    BY <1>2, <2>3, <2>4 DEF IInv, EtagNamesSnapshot, Serving
<1>4. CASE CopyTier(r) \/ Draw(r)
  <2>1. held' = held
    BY <1>4 DEF CopyTier, Draw
  <2>. QED
    BY <1>2, <2>1 DEF IInv, Tables, EtagNamesSnapshot, Serving, Intact
<1>. QED
  BY <1>1, <1>2, <1>3, <1>4

(* Every step keeps the invariant and, loading a table or not, does not    *)
(* blank out routing.                                                      *)
LEMMA Step ==
    ASSUME IInv, [Next]_vars
    PROVE  /\ IInv'
           /\ KeepsModels
<1> USE DEF KeepsModels
<1>1. CASE ApplySync
  <2>1. IInv'
    BY <1>1, ApplySyncStep
  <2>2. KeepsModels
    BY <1>1, Synced
  <2>. QED
    BY <2>1, <2>2
<1>2. CASE RequestStep
  BY <1>2, RequestKeeps
<1>3. CASE StartPoll \/ StopPolling \/ ControlPlane \/ UNCHANGED vars
  <2>1. UNCHANGED <<snap, tiersOf, etag, phase, held>>
    BY <1>3 DEF StartPoll, StopPolling, ControlPlane, AnswerPoll, FailPoll, ChangeTable,
                vars, cpVars, pollVars, routerVars, reqVars
  <2>. QED
    BY <2>1 DEF IInv, Tables, EtagNamesSnapshot, Serving, Intact
<1>. QED
  BY <1>1, <1>2, <1>3 DEF Next, SyncStep

LEMMA Invariant ==
    Spec => []IInv
<1>1. IInv /\ [Next]_vars => IInv'
  BY Step
<1>. QED
  BY InitIInv, <1>1, PTL DEF Spec

(* The candidate drawn is one that is left.                                *)
LEMMA DrawTakes ==
    ASSUME TypeOK, NEW r \in Request, Draw(r)
    PROVE  \E k \in 1..Len(rem[r]) :
              /\ out' = [out EXCEPT ![r] = Append(@, rem[r][k])]
              /\ rem' = [rem EXCEPT ![r] = RemoveAt(@, k)]
<1>1. rem[r] \in Seq(RouteCandidate)
  BY DEF TypeOK
<1>2. PICK pick \in 0..TotalWeight(rem[r]) - 1 :
          /\ out' = [out EXCEPT ![r] = Append(@, rem[r][Picked(rem[r], pick)])]
          /\ rem' = [rem EXCEPT ![r] = RemoveAt(@, Picked(rem[r], pick))]
  BY DEF Draw
<1>3. Picked(rem[r], pick) \in 1..Len(rem[r])
  BY <1>1, PickedIs
<1>. QED
  BY <1>2, <1>3

(* The tiers a request finds are those of the table it holds.              *)
LEMMA HeldTiers ==
    ASSUME IInv, NEW r \in Request, held[r] # None
    PROVE  /\ held[r] \in Table /\ ProvidersOf(held[r]) \in Seq(Provider)
           /\ tiersOf[held[r]] = Tiers(held[r])
BY ProvidersType DEF IInv, Tables, Intact

LEMMA InitDrawn ==
    Init => TypeOK /\ Drawn
BY EmptySeq, RoutingAssumption DEF Init, TypeOK, Drawn

LEMMA TypeStep ==
    ASSUME TypeOK, IInv, [Next]_vars
    PROVE  TypeOK'
<1> USE RoutingAssumption DEF cpVars, pollVars, routerVars, reqVars
<1>1. CASE ApplySync
  <2>1. /\ phase' \in {"loading", "serving", "exited"} /\ poller' = "idle"
        /\ UNCHANGED <<table, changes, answer, held, tier, rem, out>>
    BY <1>1 DEF ApplySync, AfterSync, TypeOK
  <2>2. CASE UNCHANGED <<snap, tiersOf, etag>>
    BY <2>1, <2>2 DEF TypeOK
  <2>3. ASSUME NEW t \in Table, snap' = t, etag' = t,
               tiersOf' = [tiersOf EXCEPT ![t] = Tiers(t)]
        PROVE  TypeOK'
    <3>1. Tiers(t) \in Seq(Seq(RouteCandidate))
      BY TiersProperties
    <3>2. tiersOf' \in [Table -> Seq(Seq(RouteCandidate))]
      BY <2>3, <3>1 DEF TypeOK
    <3>. QED
      BY <2>1, <2>3, <3>2 DEF TypeOK
  <2>. QED
    BY <1>1, <2>2, <2>3, Synced
<1>2. ASSUME NEW r \in Request, CopyTier(r) PROVE TypeOK'
  <2>1. held[r] \in Table /\ tiersOf[held[r]] \in Seq(Seq(RouteCandidate)) /\ tier[r] \in Nat
    BY <1>2 DEF CopyTier, TypeOK
  <2>2. tier[r] + 1 \in 1..Len(tiersOf[held[r]])
    BY <1>2, <2>1 DEF CopyTier, HasTier
  <2>3. tiersOf[held[r]][tier[r] + 1] \in Seq(RouteCandidate)
    <3> DEFINE tiers == tiersOf[held[r]]
               n == tier[r] + 1
    <3>1. tiers \in Seq(Seq(RouteCandidate)) /\ n \in 1..Len(tiers)
      BY <2>1, <2>2
    <3> HIDE DEF tiers, n
    <3>2. tiers[n] \in Seq(RouteCandidate)
      BY <3>1, ElementOfSeq
    <3>. QED
      BY <3>2 DEF tiers, n
  <2>. QED
    BY <1>2, <2>1, <2>3 DEF CopyTier, TypeOK
<1>3. ASSUME NEW r \in Request, Draw(r) PROVE TypeOK'
  <2>1. rem[r] \in Seq(RouteCandidate) /\ out[r] \in Seq(RouteCandidate)
    BY DEF TypeOK
  <2>2. PICK k \in 1..Len(rem[r]) :
              /\ out' = [out EXCEPT ![r] = Append(@, rem[r][k])]
              /\ rem' = [rem EXCEPT ![r] = RemoveAt(@, k)]
    BY <1>3, DrawTakes
  <2>3. Append(out[r], rem[r][k]) \in Seq(RouteCandidate)
    BY <2>1, ElementOfSeq, AppendProperties
  <2>4. RemoveAt(rem[r], k) \in Seq(RouteCandidate)
    BY <2>1, RemoveAtProperties
  <2>. QED
    BY <1>3, <2>2, <2>3, <2>4 DEF Draw, TypeOK
<1>4. ASSUME NEW r \in Request, TakeSnapshot(r) PROVE TypeOK'
  BY <1>4 DEF TakeSnapshot, TypeOK
<1>5. CASE AnswerPoll \/ FailPoll \/ StartPoll \/ StopPolling \/ UNCHANGED vars
  BY <1>5 DEF AnswerPoll, FailPoll, StartPoll, StopPolling, vars, TypeOK
<1>6. ASSUME NEW t \in Table, ChangeTable(t) PROVE TypeOK'
  BY <1>6 DEF ChangeTable, TypeOK
<1>. QED
  BY <1>1, <1>2, <1>3, <1>4, <1>5, <1>6 DEF Next, SyncStep, RequestStep, ControlPlane

LEMMA DrawnStep ==
    ASSUME TypeOK, IInv, Drawn, [Next]_vars
    PROVE  Drawn'
<1>1. CASE UNCHANGED reqVars
  BY <1>1 DEF reqVars, Drawn
<1>2. ASSUME NEW r \in Request, TakeSnapshot(r) PROVE Drawn'
  <2>1. held' = [held EXCEPT ![r] = snap] /\ UNCHANGED <<tier, rem, out>> /\ held[r] = None
    BY <1>2 DEF TakeSnapshot
  <2>2. snap \in Table /\ snap # None
    BY <1>2 DEF IInv, Tables, Serving, TakeSnapshot
  <2>3. \A q \in Request : held'[q] = IF q = r THEN snap ELSE held[q]
    BY <2>1 DEF TypeOK
  <2>4. tier[r] = 0 /\ rem[r] = <<>> /\ out[r] = <<>>
    BY <2>1 DEF Drawn
  <2>5. ProvidersOf(snap) \in Seq(Provider)
    BY <2>2, ProvidersType
  <2>6. 0 \in 0..Len(Priorities(ProvidersOf(snap))) /\ Ledger(ProvidersOf(snap), 0, <<>>, <<>>)
    BY <2>5, LedgerOpens, PrioritiesProperties, LenProperties
  <2>. QED
    BY <2>1, <2>2, <2>3, <2>4, <2>6 DEF Drawn
<1>3. ASSUME NEW r \in Request, CopyTier(r) PROVE Drawn'
  <2> DEFINE ps == ProvidersOf(held[r])
             n == tier[r]
             at == TierAt(ps, Priorities(ps)[n + 1])
  <2>1. /\ held[r] # None /\ rem[r] = <<>> /\ n < Len(tiersOf[held[r]])
        /\ tier' = [tier EXCEPT ![r] = n + 1]
        /\ rem' = [rem EXCEPT ![r] = tiersOf[held[r]][n + 1]]
        /\ UNCHANGED <<held, out>>
    BY <1>3 DEF CopyTier, HasTier
  <2>2. held[r] \in Table /\ ps \in Seq(Provider) /\ tiersOf[held[r]] = Tiers(held[r])
    BY <2>1, HeldTiers
  <2>3. n \in 0..Len(Priorities(ps)) /\ Ledger(ps, n, out[r], <<>>)
    BY <2>1 DEF Drawn
  <2>4. n \in Nat /\ n < Len(Priorities(ps)) /\ n + 1 \in 1..Len(Tiers(held[r]))
    BY <2>1, <2>2, <2>3, TiersProperties
  <2>5. tiersOf[held[r]][n + 1] = [i \in 1..Len(at) |-> AsCandidate(ps[at[i]])]
    BY <2>2, <2>4, TiersProperties
  <2>6. out[r] \in Seq(RouteCandidate)
    BY DEF TypeOK
  <2> HIDE DEF ps
  <2>7. Ledger(ps, n + 1, out[r], tiersOf[held[r]][n + 1])
    BY <2>2, <2>3, <2>4, <2>5, <2>6, LedgerCopies
  <2>8. \A q \in Request : /\ tier'[q] = IF q = r THEN n + 1 ELSE tier[q]
                           /\ rem'[q] = IF q = r THEN tiersOf[held[r]][n + 1] ELSE rem[q]
    BY <2>1 DEF TypeOK
  <2>9. n + 1 \in 0..Len(Priorities(ps))
    BY <2>3, <2>4
  <2>. QED
    BY <2>1, <2>7, <2>8, <2>9 DEF Drawn, ps
<1>4. ASSUME NEW r \in Request, Draw(r) PROVE Drawn'
  <2> DEFINE ps == ProvidersOf(held[r])
  <2>1. rem[r] \in Seq(RouteCandidate) /\ out[r] \in Seq(RouteCandidate)
    BY DEF TypeOK
  <2>2. PICK k \in 1..Len(rem[r]) :
              /\ out' = [out EXCEPT ![r] = Append(@, rem[r][k])]
              /\ rem' = [rem EXCEPT ![r] = RemoveAt(@, k)]
    BY <1>4, DrawTakes
  <2>3. UNCHANGED <<held, tier>> /\ rem[r] # <<>>
    BY <1>4 DEF Draw
  <2>4. held[r] # None /\ tier[r] \in 0..Len(Priorities(ps)) /\ Ledger(ps, tier[r], out[r], rem[r])
    BY <2>3 DEF Drawn
  <2>5. ps \in Seq(Provider) /\ tier[r] \in Nat
    BY <2>4, HeldTiers DEF TypeOK
  <2> HIDE DEF ps
  <2>6. Ledger(ps, tier[r], Append(out[r], rem[r][k]), RemoveAt(rem[r], k))
    BY <2>1, <2>4, <2>5, LedgerDraws
  <2>7. \A q \in Request :
            /\ out'[q] = IF q = r THEN Append(out[r], rem[r][k]) ELSE out[q]
            /\ rem'[q] = IF q = r THEN RemoveAt(rem[r], k) ELSE rem[q]
    BY <2>2 DEF TypeOK
  <2>. QED
    BY <2>3, <2>4, <2>6, <2>7 DEF Drawn, ps
<1>5. CASE SyncStep \/ StopPolling \/ ControlPlane \/ UNCHANGED vars
  <2>1. UNCHANGED reqVars
    BY <1>5 DEF SyncStep, StartPoll, ApplySync, StopPolling, ControlPlane, AnswerPoll,
                FailPoll, ChangeTable, vars
  <2>. QED
    BY <1>1, <2>1
<1>. QED
  BY <1>2, <1>3, <1>4, <1>5 DEF Next, RequestStep

LEMMA DrawnInvariant ==
    Spec => [](IInv /\ TypeOK /\ Drawn)
<1>1. Init => IInv /\ TypeOK /\ Drawn
  BY InitIInv, InitDrawn
<1>2. IInv /\ TypeOK /\ Drawn /\ [Next]_vars => (IInv /\ TypeOK /\ Drawn)'
  BY Step, TypeStep, DrawnStep
<1>. QED
  BY <1>1, <1>2, PTL DEF Spec

-----------------------------------------------------------------------------
(***************************************************************************)
(* The theorems.                                                           *)
(***************************************************************************)

(* The next poll's ETag is that of the table being served: a 304 never     *)
(* leaves the gateway with an older one (Poller.Sync).                     *)
THEOREM EtagIsHonest == Spec => []EtagNamesSnapshot
<1>1. IInv => EtagNamesSnapshot
  BY DEF IInv
<1>. QED
  BY <1>1, Invariant, PTL

(* Load and Attempts share tiers without a lock: no request alters them.   *)
THEOREM SharedTiersStay == Spec => []HeldTiersAreIntact
<1>1. IInv => HeldTiersAreIntact
  BY DEF IInv, Intact, HeldTiersAreIntact
<1>. QED
  BY <1>1, Invariant, PTL

(* Attempts never finds a router that has not been loaded: main listens    *)
(* only after the first Sync that left a snapshot.                         *)
THEOREM NeverUnloaded == Spec => [](phase = "serving" => snap # None)
<1>1. IInv => (phase = "serving" => snap # None)
  BY DEF IInv, Serving
<1>. QED
  BY <1>1, Invariant, PTL

(* However often the control plane answers with no models at all.          *)
THEOREM RoutingIsNotBlanked == Spec => NeverBlanked
<1>1. IInv /\ [Next]_vars => [KeepsModels]_vars
  BY Step
<1>. QED
  BY <1>1, Invariant, PTL DEF Spec, NeverBlanked

(* Load makes whole tiers of route candidates, weights positive, and the   *)
(* draw never leaves them: an index it computes is one of the slice.       *)
THEOREM TypeCorrect == Spec => []TypeOK
BY DrawnInvariant, PTL

(* Attempts: every provider of one table, once, lower priorities first,    *)
(* however the candidates are drawn and whatever is loaded meanwhile.      *)
THEOREM EveryCandidateOnce == Spec => []AttemptsAreThePlan
<1>1. IInv /\ TypeOK /\ Drawn => AttemptsAreThePlan
  <2> SUFFICES ASSUME IInv, TypeOK, Drawn, NEW r \in Request, AttemptsReady(r)
               PROVE  LET ps == ProvidersOf(held[r]) IN
                      /\ \E p \in [DOMAIN out[r] -> DOMAIN ps] :
                          /\ {p[k] : k \in DOMAIN p} = DOMAIN ps /\ Len(out[r]) = Len(ps)
                          /\ \A k \in DOMAIN p : out[r][k].code = ps[p[k]].code
                      /\ \A k, n \in DOMAIN out[r] :
                            k < n => out[r][k].priority <= out[r][n].priority
    BY DEF AttemptsAreThePlan
  <2> DEFINE ps == ProvidersOf(held[r])
  <2>1. held[r] # None /\ rem[r] = <<>> /\ ~(tier[r] < Len(tiersOf[held[r]]))
    BY DEF AttemptsReady, HasTier
  <2>2. held[r] \in Table /\ ps \in Seq(Provider) /\ tiersOf[held[r]] = Tiers(held[r])
    BY <2>1, HeldTiers
  <2>3. tier[r] \in 0..Len(Priorities(ps)) /\ Ledger(ps, tier[r], out[r], <<>>)
    BY <2>1 DEF Drawn
  <2>4. Len(Tiers(held[r])) = Len(Priorities(ps)) /\ Len(Priorities(ps)) \in Nat
    BY <2>2, TiersProperties, PrioritiesProperties, LenProperties
  <2>5. tier[r] = Len(Priorities(ps))
    BY <2>1, <2>2, <2>3, <2>4
  <2>6. out[r] \in Seq(RouteCandidate)
    BY DEF TypeOK
  <2> HIDE DEF ps
  <2>7. Ledger(ps, Len(Priorities(ps)), out[r], <<>>)
    BY <2>3, <2>5
  <2>8. /\ \E p \in [DOMAIN out[r] -> DOMAIN ps] :
            /\ {p[k] : k \in DOMAIN p} = DOMAIN ps /\ Len(out[r]) = Len(ps)
            /\ \A k \in DOMAIN p : out[r][k].code = ps[p[k]].code
        /\ \A k, n \in DOMAIN out[r] : k < n => out[r][k].priority <= out[r][n].priority
    BY <2>2, <2>6, <2>7, LedgerCloses
  <2>. QED
    BY <2>8 DEF ps
<1>. QED
  BY <1>1, DrawnInvariant, PTL

(* weightedOrder: a candidate's part of rand.IntN's values is its weight,  *)
(* at every draw of every request.                                         *)
THEOREM WeightsAreHonoured == Spec => []SharesFollowWeights
<1>1. TypeOK => SharesFollowWeights
  <2> SUFFICES ASSUME TypeOK, NEW r \in Request, NEW k \in DOMAIN rem[r]
               PROVE  /\ rem[r][k].weight > 0 /\ TotalWeight(rem[r]) > 0
                      /\ Cardinality({pick \in 0..TotalWeight(rem[r]) - 1 : Picked(rem[r], pick) = k})
                             = rem[r][k].weight
    BY DEF SharesFollowWeights
  <2>1. rem[r] \in Seq(RouteCandidate)
    BY DEF TypeOK
  <2>. QED
    BY <2>1, Shares
<1>. QED
  BY <1>1, DrawnInvariant, PTL
=============================================================================
