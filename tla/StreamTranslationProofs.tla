----------------------- MODULE StreamTranslationProofs ------------------------
(***************************************************************************)
(* What is proved of StreamTranslation, for messages of any number of      *)
(* blocks and fragments, in any of the six directions: the client gets a   *)
(* legal stream, and from an upstream that works on one block at a time    *)
(* every text, thought and tool call whole and in order, and the usage     *)
(* with them.                                                              *)
(*                                                                         *)
(* The argument follows the code.  An encoder and the client's view of its *)
(* frames fit each other (Sound), whatever IR event comes (Fed); a decoder *)
(* makes of each upstream event IR events that say the same; and Inv says  *)
(* of the three together that nothing the upstream said is on its way: the *)
(* client has it all after every Feed, and the block the upstream is at is *)
(* the one the encoder has open (Current).                                 *)
(*                                                                         *)
(* With Interleaving only the first of these is true: the encoders close   *)
(* the block they have open for another, and start one of the same tool    *)
(* call again when it goes on (StreamInterleaved).  That the stream is     *)
(* legal all the same has an invariant of its own (Unbroken), which needs  *)
(* no Interleaving = FALSE: nothing is said there of what the message says.*)
(***************************************************************************)
EXTENDS StreamTranslation, FiniteSetTheorems, SequenceTheorems, WellFoundedInduction, TLAPS

-----------------------------------------------------------------------------
(***************************************************************************)
(* Sets and sequences.                                                     *)
(***************************************************************************)
(* What induction over the naturals comes to: a set of them has a least.   *)
LEMMA Least ==
    ASSUME NEW T \in SUBSET Nat, T # {}
    PROVE  \E n \in T : \A m \in T : n <= m
<1>1. IsWellFoundedOn(OpToRel(<, Nat), Nat)
  BY NatLessThanWellFounded
<1>2. PICK n \in T : \A m \in Nat : <<m, n>> \in OpToRel(<, Nat) => m \notin T
  BY <1>1, WFMin
<1>3. \A m \in Nat : m < n => m \notin T
  BY <1>2 DEF OpToRel
<1>. QED
  BY <1>3

(* The greatest of a set of positions.                                     *)
LEMMA MaxOfSet ==
    ASSUME NEW n \in Nat, NEW S \in SUBSET (1..n), S # {}
    PROVE  Max(S) \in S /\ \A x \in S : x <= Max(S)
<1> DEFINE T == {n - x : x \in S}
<1>1. T \in SUBSET Nat /\ T # {}
  <2>1. \A x \in S : n - x \in Nat
    OBVIOUS
  <2>2. PICK x \in S : TRUE
    OBVIOUS
  <2>3. n - x \in T
    OBVIOUS
  <2>. QED
    BY <2>1, <2>3
<1>2. PICK m \in T : \A l \in T : m <= l
  <2> HIDE DEF T
  <2>. QED
    BY <1>1, Least
<1>3. PICK x \in S : m = n - x
  BY <1>2
<1>4. ASSUME NEW y \in S PROVE y <= x
  <2>1. n - y \in T /\ y \in Int /\ x \in Int
    OBVIOUS
  <2>2. n - x <= n - y
    BY <1>2, <1>3, <2>1
  <2>. QED
    BY <2>1, <2>2
<1>. QED
  BY <1>3, <1>4 DEF Max

(* Sequences, of whatever.                                                 *)
Listed(s) == \E S : s \in Seq(S)

(* Sequences put together.                                                 *)
LEMMA Together ==
    ASSUME NEW s, NEW t, Listed(s), Listed(t)
    PROVE  \E S : s \in Seq(S) /\ t \in Seq(S)
<1>1. PICK S : s \in Seq(S)
  BY DEF Listed
<1>2. PICK T : t \in Seq(T)
  BY DEF Listed
<1>3. s \in Seq(S \union T) /\ t \in Seq(S \union T)
  BY <1>1, <1>2, SeqMonotonic
<1>. QED
  BY <1>3

(* Events and frames are listed.                                           *)
LEMMA Lists ==
    /\ Listed(<<>>)
    /\ \A x : Listed(<<x>>)
    /\ \A s, t : Listed(s) /\ Listed(t) => Listed(s \o t) /\ <<>> \o s = s /\ s \o <<>> = s
<1>1. Listed(<<>>)
  BY EmptySeq DEF Listed
<1>2. ASSUME NEW x PROVE Listed(<<x>>)
  <2>1. <<x>> \in Seq({x})
    OBVIOUS
  <2>. QED
    BY <2>1 DEF Listed
<1>3. ASSUME NEW s, NEW t, Listed(s), Listed(t)
      PROVE  Listed(s \o t) /\ <<>> \o s = s /\ s \o <<>> = s
  <2>1. PICK S : s \in Seq(S) /\ t \in Seq(S)
    BY <1>3, Together
  <2>. QED
    BY <2>1, ConcatProperties, ConcatEmptySeq DEF Listed
<1>. QED
  BY <1>1, <1>2, <1>3

TakeRun(w, b, s) == w[0] = b /\ \A k \in 1..Len(s) : w[k] = Take(w[k - 1], s[k])

TakeTable(it, b, s, n) ==
    it = [S \in SUBSET (1..n) |-> IF S = {} THEN b ELSE Take(it[S \ {Max(S)}], s[Max(S)])]

(* TakeAll is a fold: a run of the client over any frames exists, and      *)
(* there is one.                                                           *)
LEMMA TakeSetFold ==
    ASSUME NEW b, NEW s, NEW n \in Nat
    PROVE  \E it : TakeTable(it, b, s, n)
<1> DEFINE Upto(m, it) == TakeTable(it, b, s, m)
           T == {m \in Nat : ~ \E it : Upto(m, it)}
<1> SUFFICES ASSUME T # {} PROVE FALSE
  OBVIOUS
<1>1. PICK m \in T : \A l \in T : m <= l
  <2>1. T \in SUBSET Nat
    OBVIOUS
  <2> HIDE DEF T
  <2>. QED
    BY <2>1, Least
<1>2. m # 0
  <2> DEFINE it == [S \in SUBSET (1..0) |-> b]
  <2>1. \A S \in SUBSET (1..0) : S = {}
    OBVIOUS
  <2>2. Upto(0, it)
    BY <2>1 DEF TakeTable
  <2> HIDE DEF Upto, it
  <2>. QED
    BY <1>1, <2>2
<1>3. PICK g : Upto(m - 1, g)
  <2>1. m - 1 \in Nat /\ m - 1 \notin T
    <3>1. m \in Nat
      BY <1>1
    <3> HIDE DEF T
    <3>. QED
      BY <1>1, <1>2, <3>1
  <2> HIDE DEF Upto
  <2>. QED
    BY <2>1
<1> DEFINE h == [S \in SUBSET (1..m) |-> IF S \in SUBSET (1..m - 1) THEN g[S] ELSE Take(g[S \ {m}], s[m])]
<1>4. ASSUME NEW S \in SUBSET (1..m)
      PROVE  h[S] = IF S = {} THEN b ELSE Take(h[S \ {Max(S)}], s[Max(S)])
  <2>1. CASE S = {}
    <3>1. g[{}] = b /\ h[{}] = g[{}]
      BY <1>3 DEF TakeTable
    <3>. QED
      BY <2>1, <3>1
  <2>2. CASE S # {} /\ S \in SUBSET (1..m - 1)
    <3>1. Max(S) \in S
      BY <1>1, <2>2, MaxOfSet
    <3>2. S \ {Max(S)} \in SUBSET (1..m - 1) /\ S \ {Max(S)} \in SUBSET (1..m)
      BY <2>2
    <3>3. h[S] = g[S] /\ h[S \ {Max(S)}] = g[S \ {Max(S)}]
      BY <2>2, <3>2
    <3>4. g[S] = Take(g[S \ {Max(S)}], s[Max(S)])
      BY <1>3, <2>2 DEF TakeTable
    <3>. QED
      BY <2>2, <3>3, <3>4
  <2>3. CASE S \notin SUBSET (1..m - 1)
    <3>1. Max(S) \in S /\ \A x \in S : x <= Max(S)
      BY <1>1, <2>3, MaxOfSet
    <3>2. m \in S /\ m \in Nat
      BY <1>1, <2>3
    <3>3. Max(S) = m
      <4>1. Max(S) \in 1..m /\ m <= Max(S)
        BY <3>1, <3>2
      <4>. QED
        BY <3>2, <4>1
    <3>4. S \ {m} \in SUBSET (1..m - 1) /\ S \ {m} \in SUBSET (1..m)
      BY <3>2
    <3>. QED
      BY <2>3, <3>2, <3>3, <3>4
  <2>. QED
    BY <2>1, <2>2, <2>3
<1>5. Upto(m, h)
  BY <1>4 DEF TakeTable
<1> HIDE DEF Upto, h
<1>. QED
  BY <1>1, <1>5

(* A run of the client.                                                    *)
LEMMA TakeRunExists ==
    ASSUME NEW b, NEW S, NEW s \in Seq(S)
    PROVE  \E w : TakeRun(w, b, s) /\ TakeAll(b, s) = w[Len(s)]
<1> DEFINE n == Len(s)
           it == CHOOSE it : TakeTable(it, b, s, n)
           w == [k \in 0..n |-> it[1..k]]
<1>1. n \in Nat /\ DOMAIN s = 1..n
  BY LenProperties
<1>2. TakeAll(b, s) = it[1..n]
  BY <1>1 DEF TakeAll, FoldLeft, MapThenFoldSet, TakeTable
<1>3. TakeTable(it, b, s, n)
  BY <1>1, TakeSetFold
<1> HIDE DEF it
<1>4. /\ it[{}] = b
      /\ \A P \in SUBSET (1..n) : P # {} => it[P] = Take(it[P \ {Max(P)}], s[Max(P)])
  BY <1>3 DEF TakeTable
<1> HIDE DEF n
<1>5. w[0] = b /\ w[n] = it[1..n]
  <2>1. 0 \in 0..n /\ n \in 0..n /\ 1..0 = {}
    BY <1>1
  <2>. QED
    BY <1>4, <2>1
<1>6. ASSUME NEW k \in 1..n PROVE w[k] = Take(w[k - 1], s[k])
  <2>1. 1..k \in SUBSET (1..n) /\ k \in 1..k /\ k \in Nat
    BY <1>1
  <2>2. (1..k) \ {k} = 1..k - 1
    BY <2>1
  <2>3. Max(1..k) = k
    <3>1. Max(1..k) \in 1..k /\ \A x \in 1..k : x <= Max(1..k)
      BY <2>1, MaxOfSet
    <3>. QED
      BY <2>1, <3>1
  <2>4. it[1..k] = Take(it[1..k - 1], s[k])
    BY <1>4, <2>1, <2>2, <2>3
  <2>5. w[k] = it[1..k] /\ w[k - 1] = it[1..k - 1]
    BY <1>1
  <2>. QED
    BY <2>4, <2>5
<1>. QED
  BY <1>2, <1>5, <1>6 DEF TakeRun, n

(* There is one.                                                           *)
LEMMA TakeRunUnique ==
    ASSUME NEW b, NEW S, NEW s \in Seq(S), NEW w, TakeRun(w, b, s)
    PROVE  TakeAll(b, s) = w[Len(s)]
<1>1. PICK v : TakeRun(v, b, s) /\ TakeAll(b, s) = v[Len(s)]
  BY TakeRunExists
<1>2. Len(s) \in Nat
  BY LenProperties
<1> DEFINE T == {k \in 0..Len(s) : v[k] # w[k]}
<1>3. T = {}
  <2> SUFFICES ASSUME T # {} PROVE FALSE
    OBVIOUS
  <2>1. PICK k \in T : \A l \in T : k <= l
    <3>1. T \in SUBSET Nat
      OBVIOUS
    <3> HIDE DEF T
    <3>. QED
      BY <3>1, Least
  <2>2. k # 0
    BY <1>1, <2>1 DEF TakeRun
  <2>3. k - 1 \in 0..Len(s) /\ k - 1 \notin T
    BY <1>2, <2>1, <2>2
  <2>4. v[k - 1] = w[k - 1] /\ k \in 1..Len(s)
    BY <2>1, <2>2, <2>3
  <2>. QED
    BY <1>1, <2>1, <2>4 DEF TakeRun
<1>. QED
  BY <1>1, <1>2, <1>3

(* What a fold does with nothing, with one more, and with two in a row.    *)
LEMMA TakeFold ==
    /\ \A b : TakeAll(b, <<>>) = b
    /\ \A b, x : TakeAll(b, <<x>>) = Take(b, x)
    /\ \A b, s, t : Listed(s) /\ Listed(t) =>
            TakeAll(b, s \o t) = TakeAll(TakeAll(b, s), t)
<1>1. ASSUME NEW b PROVE TakeAll(b, <<>>) = b
  <2>1. <<>> \in Seq({}) /\ Len(<<>>) = 0
    BY EmptySeq
  <2>2. PICK w : TakeRun(w, b, <<>>) /\ TakeAll(b, <<>>) = w[0]
    BY <2>1, TakeRunExists
  <2>. QED
    BY <2>2 DEF TakeRun
<1>2. ASSUME NEW b, NEW x PROVE TakeAll(b, <<x>>) = Take(b, x)
  <2>1. <<x>> \in Seq({x}) /\ Len(<<x>>) = 1 /\ <<x>>[1] = x
    OBVIOUS
  <2>2. PICK w : TakeRun(w, b, <<x>>) /\ TakeAll(b, <<x>>) = w[1]
    BY <2>1, TakeRunExists
  <2>3. w[1] = Take(w[1 - 1], x) /\ w[0] = b
    BY <2>1, <2>2 DEF TakeRun
  <2>4. w[1 - 1] = w[0]
    OBVIOUS
  <2>. QED
    BY <2>2, <2>3, <2>4
<1>3. ASSUME NEW b, NEW s, NEW t, Listed(s), Listed(t)
      PROVE  TakeAll(b, s \o t) = TakeAll(TakeAll(b, s), t)
  <2>1. PICK S : s \in Seq(S) /\ t \in Seq(S)
    BY <1>3, Together
  <2>2. PICK v : TakeRun(v, b, s) /\ TakeAll(b, s) = v[Len(s)]
    BY <2>1, TakeRunExists
  <2>3. PICK u : TakeRun(u, v[Len(s)], t) /\ TakeAll(v[Len(s)], t) = u[Len(t)]
    BY <2>1, TakeRunExists
  <2>4. Len(s) \in Nat /\ Len(t) \in Nat
    BY <2>1, LenProperties
  <2>5. /\ s \o t \in Seq(S) /\ Len(s \o t) = Len(s) + Len(t)
        /\ \A i \in 1..Len(s) + Len(t) : (s \o t)[i] = IF i <= Len(s) THEN s[i] ELSE t[i - Len(s)]
    BY <2>1, ConcatProperties
  <2> DEFINE w == [k \in 0..Len(s) + Len(t) |-> IF k <= Len(s) THEN v[k] ELSE u[k - Len(s)]]
             st == s \o t
  <2>6. w[0] = b /\ w[Len(s) + Len(t)] = u[Len(t)]
    BY <2>2, <2>3, <2>4 DEF TakeRun
  <2> HIDE DEF st
  <2>7. ASSUME NEW k \in 1..Len(s) + Len(t) PROVE w[k] = Take(w[k - 1], st[k])
    <3>1. CASE k <= Len(s)
      BY <2>2, <2>4, <2>5, <3>1 DEF TakeRun, st
    <3>2. CASE ~(k <= Len(s))
      <4> DEFINE m == k - Len(s)
      <4>1. m \in 1..Len(t) /\ w[k] = u[m] /\ st[k] = t[m]
        BY <2>4, <2>5, <3>2 DEF st
      <4>2. u[m] = Take(u[m - 1], t[m])
        BY <2>3, <4>1 DEF TakeRun
      <4>3. w[k - 1] = u[m - 1]
        <5>1. CASE m = 1
          <6>1. k - 1 = Len(s) /\ k - 1 \in 0..Len(s) + Len(t) /\ m - 1 = 0
            BY <2>4, <5>1
          <6>2. w[k - 1] = v[Len(s)]
            BY <2>4, <6>1
          <6>3. u[0] = v[Len(s)]
            BY <2>3 DEF TakeRun
          <6>. QED
            BY <6>1, <6>2, <6>3
        <5>2. CASE m # 1
          BY <2>4, <3>2, <5>2
        <5>. QED
          BY <5>1, <5>2
      <4>. QED
        BY <4>1, <4>2, <4>3
    <3>. QED
      BY <3>1, <3>2
  <2> HIDE DEF w
  <2>8. TakeRun(w, b, st)
    BY <2>5, <2>6, <2>7 DEF TakeRun, st
  <2>9. TakeAll(b, st) = w[Len(st)]
    BY <2>5, <2>8, TakeRunUnique DEF st
  <2>. QED
    BY <2>2, <2>3, <2>5, <2>6, <2>9 DEF st
<1>. QED
  BY <1>1, <1>2, <1>3

FeedRun(w, b, s) == w[0] = b /\ \A k \in 1..Len(s) : w[k] = FeedEvent(w[k - 1], s[k])

FeedTable(it, b, s, n) ==
    it = [S \in SUBSET (1..n) |-> IF S = {} THEN b ELSE FeedEvent(it[S \ {Max(S)}], s[Max(S)])]

(* FeedAll is a fold.                                                      *)
LEMMA FeedSetFold ==
    ASSUME NEW b, NEW s, NEW n \in Nat
    PROVE  \E it : FeedTable(it, b, s, n)
<1> DEFINE Upto(m, it) == FeedTable(it, b, s, m)
           T == {m \in Nat : ~ \E it : Upto(m, it)}
<1> SUFFICES ASSUME T # {} PROVE FALSE
  OBVIOUS
<1>1. PICK m \in T : \A l \in T : m <= l
  <2>1. T \in SUBSET Nat
    OBVIOUS
  <2> HIDE DEF T
  <2>. QED
    BY <2>1, Least
<1>2. m # 0
  <2> DEFINE it == [S \in SUBSET (1..0) |-> b]
  <2>1. \A S \in SUBSET (1..0) : S = {}
    OBVIOUS
  <2>2. Upto(0, it)
    BY <2>1 DEF FeedTable
  <2> HIDE DEF Upto, it
  <2>. QED
    BY <1>1, <2>2
<1>3. PICK g : Upto(m - 1, g)
  <2>1. m - 1 \in Nat /\ m - 1 \notin T
    <3>1. m \in Nat
      BY <1>1
    <3> HIDE DEF T
    <3>. QED
      BY <1>1, <1>2, <3>1
  <2> HIDE DEF Upto
  <2>. QED
    BY <2>1
<1> DEFINE h == [S \in SUBSET (1..m) |-> IF S \in SUBSET (1..m - 1) THEN g[S] ELSE FeedEvent(g[S \ {m}], s[m])]
<1>4. ASSUME NEW S \in SUBSET (1..m)
      PROVE  h[S] = IF S = {} THEN b ELSE FeedEvent(h[S \ {Max(S)}], s[Max(S)])
  <2>1. CASE S = {}
    <3>1. g[{}] = b /\ h[{}] = g[{}]
      BY <1>3 DEF FeedTable
    <3>. QED
      BY <2>1, <3>1
  <2>2. CASE S # {} /\ S \in SUBSET (1..m - 1)
    <3>1. Max(S) \in S
      BY <1>1, <2>2, MaxOfSet
    <3>2. S \ {Max(S)} \in SUBSET (1..m - 1) /\ S \ {Max(S)} \in SUBSET (1..m)
      BY <2>2
    <3>3. h[S] = g[S] /\ h[S \ {Max(S)}] = g[S \ {Max(S)}]
      BY <2>2, <3>2
    <3>4. g[S] = FeedEvent(g[S \ {Max(S)}], s[Max(S)])
      BY <1>3, <2>2 DEF FeedTable
    <3>. QED
      BY <2>2, <3>3, <3>4
  <2>3. CASE S \notin SUBSET (1..m - 1)
    <3>1. Max(S) \in S /\ \A x \in S : x <= Max(S)
      BY <1>1, <2>3, MaxOfSet
    <3>2. m \in S /\ m \in Nat
      BY <1>1, <2>3
    <3>3. Max(S) = m
      <4>1. Max(S) \in 1..m /\ m <= Max(S)
        BY <3>1, <3>2
      <4>. QED
        BY <3>2, <4>1
    <3>4. S \ {m} \in SUBSET (1..m - 1) /\ S \ {m} \in SUBSET (1..m)
      BY <3>2
    <3>. QED
      BY <2>3, <3>2, <3>3, <3>4
  <2>. QED
    BY <2>1, <2>2, <2>3
<1>5. Upto(m, h)
  BY <1>4 DEF FeedTable
<1> HIDE DEF Upto, h
<1>. QED
  BY <1>1, <1>5

(* A run of the handler.                                                   *)
LEMMA FeedRunExists ==
    ASSUME NEW b, NEW S, NEW s \in Seq(S)
    PROVE  \E w : FeedRun(w, b, s) /\ FeedAll(b, s) = w[Len(s)]
<1> DEFINE n == Len(s)
           it == CHOOSE it : FeedTable(it, b, s, n)
           w == [k \in 0..n |-> it[1..k]]
<1>1. n \in Nat /\ DOMAIN s = 1..n
  BY LenProperties
<1>2. FeedAll(b, s) = it[1..n]
  BY <1>1 DEF FeedAll, FoldLeft, MapThenFoldSet, FeedTable
<1>3. FeedTable(it, b, s, n)
  BY <1>1, FeedSetFold
<1> HIDE DEF it
<1>4. /\ it[{}] = b
      /\ \A P \in SUBSET (1..n) : P # {} => it[P] = FeedEvent(it[P \ {Max(P)}], s[Max(P)])
  BY <1>3 DEF FeedTable
<1> HIDE DEF n
<1>5. w[0] = b /\ w[n] = it[1..n]
  <2>1. 0 \in 0..n /\ n \in 0..n /\ 1..0 = {}
    BY <1>1
  <2>. QED
    BY <1>4, <2>1
<1>6. ASSUME NEW k \in 1..n PROVE w[k] = FeedEvent(w[k - 1], s[k])
  <2>1. 1..k \in SUBSET (1..n) /\ k \in 1..k /\ k \in Nat
    BY <1>1
  <2>2. (1..k) \ {k} = 1..k - 1
    BY <2>1
  <2>3. Max(1..k) = k
    <3>1. Max(1..k) \in 1..k /\ \A x \in 1..k : x <= Max(1..k)
      BY <2>1, MaxOfSet
    <3>. QED
      BY <2>1, <3>1
  <2>4. it[1..k] = FeedEvent(it[1..k - 1], s[k])
    BY <1>4, <2>1, <2>2, <2>3
  <2>5. w[k] = it[1..k] /\ w[k - 1] = it[1..k - 1]
    BY <1>1
  <2>. QED
    BY <2>4, <2>5
<1>. QED
  BY <1>2, <1>5, <1>6 DEF FeedRun, n

(* There is one.                                                           *)
LEMMA FeedRunUnique ==
    ASSUME NEW b, NEW S, NEW s \in Seq(S), NEW w, FeedRun(w, b, s)
    PROVE  FeedAll(b, s) = w[Len(s)]
<1>1. PICK v : FeedRun(v, b, s) /\ FeedAll(b, s) = v[Len(s)]
  BY FeedRunExists
<1>2. Len(s) \in Nat
  BY LenProperties
<1> DEFINE T == {k \in 0..Len(s) : v[k] # w[k]}
<1>3. T = {}
  <2> SUFFICES ASSUME T # {} PROVE FALSE
    OBVIOUS
  <2>1. PICK k \in T : \A l \in T : k <= l
    <3>1. T \in SUBSET Nat
      OBVIOUS
    <3> HIDE DEF T
    <3>. QED
      BY <3>1, Least
  <2>2. k # 0
    BY <1>1, <2>1 DEF FeedRun
  <2>3. k - 1 \in 0..Len(s) /\ k - 1 \notin T
    BY <1>2, <2>1, <2>2
  <2>4. v[k - 1] = w[k - 1] /\ k \in 1..Len(s)
    BY <2>1, <2>2, <2>3
  <2>. QED
    BY <1>1, <2>1, <2>4 DEF FeedRun
<1>. QED
  BY <1>1, <1>2, <1>3

(* What a fold does with nothing, with one more, and with two in a row.    *)
LEMMA FeedFold ==
    /\ \A b : FeedAll(b, <<>>) = b
    /\ \A b, x : FeedAll(b, <<x>>) = FeedEvent(b, x)
    /\ \A b, s, t : Listed(s) /\ Listed(t) =>
            FeedAll(b, s \o t) = FeedAll(FeedAll(b, s), t)
<1>1. ASSUME NEW b PROVE FeedAll(b, <<>>) = b
  <2>1. <<>> \in Seq({}) /\ Len(<<>>) = 0
    BY EmptySeq
  <2>2. PICK w : FeedRun(w, b, <<>>) /\ FeedAll(b, <<>>) = w[0]
    BY <2>1, FeedRunExists
  <2>. QED
    BY <2>2 DEF FeedRun
<1>2. ASSUME NEW b, NEW x PROVE FeedAll(b, <<x>>) = FeedEvent(b, x)
  <2>1. <<x>> \in Seq({x}) /\ Len(<<x>>) = 1 /\ <<x>>[1] = x
    OBVIOUS
  <2>2. PICK w : FeedRun(w, b, <<x>>) /\ FeedAll(b, <<x>>) = w[1]
    BY <2>1, FeedRunExists
  <2>3. w[1] = FeedEvent(w[1 - 1], x) /\ w[0] = b
    BY <2>1, <2>2 DEF FeedRun
  <2>4. w[1 - 1] = w[0]
    OBVIOUS
  <2>. QED
    BY <2>2, <2>3, <2>4
<1>3. ASSUME NEW b, NEW s, NEW t, Listed(s), Listed(t)
      PROVE  FeedAll(b, s \o t) = FeedAll(FeedAll(b, s), t)
  <2>1. PICK S : s \in Seq(S) /\ t \in Seq(S)
    BY <1>3, Together
  <2>2. PICK v : FeedRun(v, b, s) /\ FeedAll(b, s) = v[Len(s)]
    BY <2>1, FeedRunExists
  <2>3. PICK u : FeedRun(u, v[Len(s)], t) /\ FeedAll(v[Len(s)], t) = u[Len(t)]
    BY <2>1, FeedRunExists
  <2>4. Len(s) \in Nat /\ Len(t) \in Nat
    BY <2>1, LenProperties
  <2>5. /\ s \o t \in Seq(S) /\ Len(s \o t) = Len(s) + Len(t)
        /\ \A i \in 1..Len(s) + Len(t) : (s \o t)[i] = IF i <= Len(s) THEN s[i] ELSE t[i - Len(s)]
    BY <2>1, ConcatProperties
  <2> DEFINE w == [k \in 0..Len(s) + Len(t) |-> IF k <= Len(s) THEN v[k] ELSE u[k - Len(s)]]
             st == s \o t
  <2>6. w[0] = b /\ w[Len(s) + Len(t)] = u[Len(t)]
    BY <2>2, <2>3, <2>4 DEF FeedRun
  <2> HIDE DEF st
  <2>7. ASSUME NEW k \in 1..Len(s) + Len(t) PROVE w[k] = FeedEvent(w[k - 1], st[k])
    <3>1. CASE k <= Len(s)
      BY <2>2, <2>4, <2>5, <3>1 DEF FeedRun, st
    <3>2. CASE ~(k <= Len(s))
      <4> DEFINE m == k - Len(s)
      <4>1. m \in 1..Len(t) /\ w[k] = u[m] /\ st[k] = t[m]
        BY <2>4, <2>5, <3>2 DEF st
      <4>2. u[m] = FeedEvent(u[m - 1], t[m])
        BY <2>3, <4>1 DEF FeedRun
      <4>3. w[k - 1] = u[m - 1]
        <5>1. CASE m = 1
          <6>1. k - 1 = Len(s) /\ k - 1 \in 0..Len(s) + Len(t) /\ m - 1 = 0
            BY <2>4, <5>1
          <6>2. w[k - 1] = v[Len(s)]
            BY <2>4, <6>1
          <6>3. u[0] = v[Len(s)]
            BY <2>3 DEF FeedRun
          <6>. QED
            BY <6>1, <6>2, <6>3
        <5>2. CASE m # 1
          BY <2>4, <3>2, <5>2
        <5>. QED
          BY <5>1, <5>2
      <4>. QED
        BY <4>1, <4>2, <4>3
    <3>. QED
      BY <3>1, <3>2
  <2> HIDE DEF w
  <2>8. FeedRun(w, b, st)
    BY <2>5, <2>6, <2>7 DEF FeedRun, st
  <2>9. FeedAll(b, st) = w[Len(st)]
    BY <2>5, <2>8, FeedRunUnique DEF st
  <2>. QED
    BY <2>2, <2>3, <2>5, <2>6, <2>9 DEF st
<1>. QED
  BY <1>1, <1>2, <1>3

AddingRun(w, b, s) == w[0] = b /\ \A k \in 1..Len(s) : w[k] = Adding(w[k - 1], s[k])

AddingTable(it, b, s, n) ==
    it = [S \in SUBSET (1..n) |-> IF S = {} THEN b ELSE Adding(it[S \ {Max(S)}], s[Max(S)])]

(* AddingAll is a fold.                                                    *)
LEMMA AddingSetFold ==
    ASSUME NEW b, NEW s, NEW n \in Nat
    PROVE  \E it : AddingTable(it, b, s, n)
<1> DEFINE Upto(m, it) == AddingTable(it, b, s, m)
           T == {m \in Nat : ~ \E it : Upto(m, it)}
<1> SUFFICES ASSUME T # {} PROVE FALSE
  OBVIOUS
<1>1. PICK m \in T : \A l \in T : m <= l
  <2>1. T \in SUBSET Nat
    OBVIOUS
  <2> HIDE DEF T
  <2>. QED
    BY <2>1, Least
<1>2. m # 0
  <2> DEFINE it == [S \in SUBSET (1..0) |-> b]
  <2>1. \A S \in SUBSET (1..0) : S = {}
    OBVIOUS
  <2>2. Upto(0, it)
    BY <2>1 DEF AddingTable
  <2> HIDE DEF Upto, it
  <2>. QED
    BY <1>1, <2>2
<1>3. PICK g : Upto(m - 1, g)
  <2>1. m - 1 \in Nat /\ m - 1 \notin T
    <3>1. m \in Nat
      BY <1>1
    <3> HIDE DEF T
    <3>. QED
      BY <1>1, <1>2, <3>1
  <2> HIDE DEF Upto
  <2>. QED
    BY <2>1
<1> DEFINE h == [S \in SUBSET (1..m) |-> IF S \in SUBSET (1..m - 1) THEN g[S] ELSE Adding(g[S \ {m}], s[m])]
<1>4. ASSUME NEW S \in SUBSET (1..m)
      PROVE  h[S] = IF S = {} THEN b ELSE Adding(h[S \ {Max(S)}], s[Max(S)])
  <2>1. CASE S = {}
    <3>1. g[{}] = b /\ h[{}] = g[{}]
      BY <1>3 DEF AddingTable
    <3>. QED
      BY <2>1, <3>1
  <2>2. CASE S # {} /\ S \in SUBSET (1..m - 1)
    <3>1. Max(S) \in S
      BY <1>1, <2>2, MaxOfSet
    <3>2. S \ {Max(S)} \in SUBSET (1..m - 1) /\ S \ {Max(S)} \in SUBSET (1..m)
      BY <2>2
    <3>3. h[S] = g[S] /\ h[S \ {Max(S)}] = g[S \ {Max(S)}]
      BY <2>2, <3>2
    <3>4. g[S] = Adding(g[S \ {Max(S)}], s[Max(S)])
      BY <1>3, <2>2 DEF AddingTable
    <3>. QED
      BY <2>2, <3>3, <3>4
  <2>3. CASE S \notin SUBSET (1..m - 1)
    <3>1. Max(S) \in S /\ \A x \in S : x <= Max(S)
      BY <1>1, <2>3, MaxOfSet
    <3>2. m \in S /\ m \in Nat
      BY <1>1, <2>3
    <3>3. Max(S) = m
      <4>1. Max(S) \in 1..m /\ m <= Max(S)
        BY <3>1, <3>2
      <4>. QED
        BY <3>2, <4>1
    <3>4. S \ {m} \in SUBSET (1..m - 1) /\ S \ {m} \in SUBSET (1..m)
      BY <3>2
    <3>. QED
      BY <2>3, <3>2, <3>3, <3>4
  <2>. QED
    BY <2>1, <2>2, <2>3
<1>5. Upto(m, h)
  BY <1>4 DEF AddingTable
<1> HIDE DEF Upto, h
<1>. QED
  BY <1>1, <1>5

(* A message said block by block.                                          *)
LEMMA AddingRunExists ==
    ASSUME NEW b, NEW S, NEW s \in Seq(S)
    PROVE  \E w : AddingRun(w, b, s) /\ AddingAll(b, s) = w[Len(s)]
<1> DEFINE n == Len(s)
           it == CHOOSE it : AddingTable(it, b, s, n)
           w == [k \in 0..n |-> it[1..k]]
<1>1. n \in Nat /\ DOMAIN s = 1..n
  BY LenProperties
<1>2. AddingAll(b, s) = it[1..n]
  BY <1>1 DEF AddingAll, FoldLeft, MapThenFoldSet, AddingTable
<1>3. AddingTable(it, b, s, n)
  BY <1>1, AddingSetFold
<1> HIDE DEF it
<1>4. /\ it[{}] = b
      /\ \A P \in SUBSET (1..n) : P # {} => it[P] = Adding(it[P \ {Max(P)}], s[Max(P)])
  BY <1>3 DEF AddingTable
<1> HIDE DEF n
<1>5. w[0] = b /\ w[n] = it[1..n]
  <2>1. 0 \in 0..n /\ n \in 0..n /\ 1..0 = {}
    BY <1>1
  <2>. QED
    BY <1>4, <2>1
<1>6. ASSUME NEW k \in 1..n PROVE w[k] = Adding(w[k - 1], s[k])
  <2>1. 1..k \in SUBSET (1..n) /\ k \in 1..k /\ k \in Nat
    BY <1>1
  <2>2. (1..k) \ {k} = 1..k - 1
    BY <2>1
  <2>3. Max(1..k) = k
    <3>1. Max(1..k) \in 1..k /\ \A x \in 1..k : x <= Max(1..k)
      BY <2>1, MaxOfSet
    <3>. QED
      BY <2>1, <3>1
  <2>4. it[1..k] = Adding(it[1..k - 1], s[k])
    BY <1>4, <2>1, <2>2, <2>3
  <2>5. w[k] = it[1..k] /\ w[k - 1] = it[1..k - 1]
    BY <1>1
  <2>. QED
    BY <2>4, <2>5
<1>. QED
  BY <1>2, <1>5, <1>6 DEF AddingRun, n

(* In one way.                                                             *)
LEMMA AddingRunUnique ==
    ASSUME NEW b, NEW S, NEW s \in Seq(S), NEW w, AddingRun(w, b, s)
    PROVE  AddingAll(b, s) = w[Len(s)]
<1>1. PICK v : AddingRun(v, b, s) /\ AddingAll(b, s) = v[Len(s)]
  BY AddingRunExists
<1>2. Len(s) \in Nat
  BY LenProperties
<1> DEFINE T == {k \in 0..Len(s) : v[k] # w[k]}
<1>3. T = {}
  <2> SUFFICES ASSUME T # {} PROVE FALSE
    OBVIOUS
  <2>1. PICK k \in T : \A l \in T : k <= l
    <3>1. T \in SUBSET Nat
      OBVIOUS
    <3> HIDE DEF T
    <3>. QED
      BY <3>1, Least
  <2>2. k # 0
    BY <1>1, <2>1 DEF AddingRun
  <2>3. k - 1 \in 0..Len(s) /\ k - 1 \notin T
    BY <1>2, <2>1, <2>2
  <2>4. v[k - 1] = w[k - 1] /\ k \in 1..Len(s)
    BY <2>1, <2>2, <2>3
  <2>. QED
    BY <1>1, <2>1, <2>4 DEF AddingRun
<1>. QED
  BY <1>1, <1>2, <1>3

(* What a fold does with nothing, with one more, and with two in a row.    *)
LEMMA AddingFold ==
    /\ \A b : AddingAll(b, <<>>) = b
    /\ \A b, x : AddingAll(b, <<x>>) = Adding(b, x)
    /\ \A b, s, t : Listed(s) /\ Listed(t) =>
            AddingAll(b, s \o t) = AddingAll(AddingAll(b, s), t)
<1>1. ASSUME NEW b PROVE AddingAll(b, <<>>) = b
  <2>1. <<>> \in Seq({}) /\ Len(<<>>) = 0
    BY EmptySeq
  <2>2. PICK w : AddingRun(w, b, <<>>) /\ AddingAll(b, <<>>) = w[0]
    BY <2>1, AddingRunExists
  <2>. QED
    BY <2>2 DEF AddingRun
<1>2. ASSUME NEW b, NEW x PROVE AddingAll(b, <<x>>) = Adding(b, x)
  <2>1. <<x>> \in Seq({x}) /\ Len(<<x>>) = 1 /\ <<x>>[1] = x
    OBVIOUS
  <2>2. PICK w : AddingRun(w, b, <<x>>) /\ AddingAll(b, <<x>>) = w[1]
    BY <2>1, AddingRunExists
  <2>3. w[1] = Adding(w[1 - 1], x) /\ w[0] = b
    BY <2>1, <2>2 DEF AddingRun
  <2>4. w[1 - 1] = w[0]
    OBVIOUS
  <2>. QED
    BY <2>2, <2>3, <2>4
<1>3. ASSUME NEW b, NEW s, NEW t, Listed(s), Listed(t)
      PROVE  AddingAll(b, s \o t) = AddingAll(AddingAll(b, s), t)
  <2>1. PICK S : s \in Seq(S) /\ t \in Seq(S)
    BY <1>3, Together
  <2>2. PICK v : AddingRun(v, b, s) /\ AddingAll(b, s) = v[Len(s)]
    BY <2>1, AddingRunExists
  <2>3. PICK u : AddingRun(u, v[Len(s)], t) /\ AddingAll(v[Len(s)], t) = u[Len(t)]
    BY <2>1, AddingRunExists
  <2>4. Len(s) \in Nat /\ Len(t) \in Nat
    BY <2>1, LenProperties
  <2>5. /\ s \o t \in Seq(S) /\ Len(s \o t) = Len(s) + Len(t)
        /\ \A i \in 1..Len(s) + Len(t) : (s \o t)[i] = IF i <= Len(s) THEN s[i] ELSE t[i - Len(s)]
    BY <2>1, ConcatProperties
  <2> DEFINE w == [k \in 0..Len(s) + Len(t) |-> IF k <= Len(s) THEN v[k] ELSE u[k - Len(s)]]
             st == s \o t
  <2>6. w[0] = b /\ w[Len(s) + Len(t)] = u[Len(t)]
    BY <2>2, <2>3, <2>4 DEF AddingRun
  <2> HIDE DEF st
  <2>7. ASSUME NEW k \in 1..Len(s) + Len(t) PROVE w[k] = Adding(w[k - 1], st[k])
    <3>1. CASE k <= Len(s)
      BY <2>2, <2>4, <2>5, <3>1 DEF AddingRun, st
    <3>2. CASE ~(k <= Len(s))
      <4> DEFINE m == k - Len(s)
      <4>1. m \in 1..Len(t) /\ w[k] = u[m] /\ st[k] = t[m]
        BY <2>4, <2>5, <3>2 DEF st
      <4>2. u[m] = Adding(u[m - 1], t[m])
        BY <2>3, <4>1 DEF AddingRun
      <4>3. w[k - 1] = u[m - 1]
        <5>1. CASE m = 1
          <6>1. k - 1 = Len(s) /\ k - 1 \in 0..Len(s) + Len(t) /\ m - 1 = 0
            BY <2>4, <5>1
          <6>2. w[k - 1] = v[Len(s)]
            BY <2>4, <6>1
          <6>3. u[0] = v[Len(s)]
            BY <2>3 DEF AddingRun
          <6>. QED
            BY <6>1, <6>2, <6>3
        <5>2. CASE m # 1
          BY <2>4, <3>2, <5>2
        <5>. QED
          BY <5>1, <5>2
      <4>. QED
        BY <4>1, <4>2, <4>3
    <3>. QED
      BY <3>1, <3>2
  <2> HIDE DEF w
  <2>8. AddingRun(w, b, st)
    BY <2>5, <2>6, <2>7 DEF AddingRun, st
  <2>9. AddingAll(b, st) = w[Len(st)]
    BY <2>5, <2>8, AddingRunUnique DEF st
  <2>. QED
    BY <2>2, <2>3, <2>5, <2>6, <2>9 DEF st
<1>. QED
  BY <1>1, <1>2, <1>3

-----------------------------------------------------------------------------
(***************************************************************************)
(* What a message says: Content, block by block and fragment by fragment.  *)
(***************************************************************************)
Nothing == [kind \in Kinds |-> <<>>]

(* Content as Adding builds it: text and reasoning are sequences of        *)
(* fragments, tool calls a sequence of those.                              *)
ContentType(c) ==
    /\ c = [kind \in Kinds |-> c[kind]]
    /\ c["text"] \in Seq(Nat) /\ c["thinking"] \in Seq(Nat) /\ c["tool"] \in Seq(Seq(Nat))

(* A fragment more, of the last tool call, or of all the text there is.    *)
LastGrown(calls, f) == [calls EXCEPT ![Len(calls)] = Append(@, f)]

Extended(c, kind, f) ==
    IF kind = "tool" THEN [c EXCEPT !["tool"] = LastGrown(@, f)]
    ELSE [c EXCEPT ![kind] = Append(@, f)]

(* Concatenation and one element more.                                     *)
LEMMA ConcatAppend ==
    ASSUME NEW S, NEW s \in Seq(S), NEW t \in Seq(S), NEW x \in S
    PROVE  s \o Append(t, x) = Append(s \o t, x)
<1>1. s \o t \in Seq(S) /\ Len(s \o t) = Len(s) + Len(t) /\ Len(s) \in Nat /\ Len(t) \in Nat
  BY ConcatProperties, LenProperties
<1>2. /\ Append(t, x) \in Seq(S) /\ Len(Append(t, x)) = Len(t) + 1
      /\ \A i \in 1..Len(t) : Append(t, x)[i] = t[i]
      /\ Append(t, x)[Len(t) + 1] = x
  BY AppendProperties
<1>3. /\ Append(s \o t, x) \in Seq(S) /\ Len(Append(s \o t, x)) = Len(s) + Len(t) + 1
      /\ \A i \in 1..Len(s) + Len(t) : Append(s \o t, x)[i] = (s \o t)[i]
      /\ Append(s \o t, x)[Len(s) + Len(t) + 1] = x
  BY <1>1, AppendProperties
<1> DEFINE a == Append(t, x)
           r == Append(s \o t, x)
<1> HIDE DEF a
<1>4. s \o a \in Seq(S) /\ Len(s \o a) = Len(s) + (Len(t) + 1)
  BY <1>2, ConcatProperties DEF a
<1>5. \A i \in 1..Len(s) + Len(t) + 1 : (s \o a)[i] = IF i <= Len(s) THEN s[i] ELSE a[i - Len(s)]
  BY <1>1, <1>2, <1>4, ConcatProperties DEF a
<1>6. \A i \in 1..Len(s) + Len(t) : (s \o t)[i] = IF i <= Len(s) THEN s[i] ELSE t[i - Len(s)]
  BY <1>1, ConcatProperties
<1> HIDE DEF r
<1>7. \A i \in 1..Len(s) + Len(t) + 1 : (s \o a)[i] = r[i]
  BY <1>1, <1>2, <1>3, <1>5, <1>6 DEF a, r
<1>. QED
  BY <1>1, <1>3, <1>4, <1>7, SeqEqual DEF a, r

(* An empty message says nothing.                                          *)
LEMMA ContentEmpty ==
    Content(<<>>) = Nothing
BY AddingFold DEF Content, Nothing

(* A block more.                                                           *)
LEMMA ContentAppend ==
    ASSUME NEW S, NEW b \in Seq(S), NEW x \in S
    PROVE  Content(Append(b, x)) = Adding(Content(b), x)
<1>1. Listed(b) /\ Listed(<<x>>)
  BY Lists DEF Listed
<1>2. Append(b, x) = b \o <<x>>
  BY AppendIsConcat
<1>. QED
  BY <1>1, <1>2, AddingFold DEF Content

(* Content knows kinds and fragments only.                                 *)
LEMMA ContentSame ==
    ASSUME NEW S, NEW b \in Seq(S), NEW T, NEW d \in Seq(T), Len(d) = Len(b),
           \A k \in 1..Len(b) : d[k].kind = b[k].kind /\ d[k].frags = b[k].frags
    PROVE  Content(d) = Content(b)
<1>1. PICK w : AddingRun(w, Nothing, b) /\ AddingAll(Nothing, b) = w[Len(b)]
  BY AddingRunExists
<1>2. \A c : \A k \in 1..Len(b) : Adding(c, d[k]) = Adding(c, b[k])
  BY DEF Adding
<1>3. AddingRun(w, Nothing, d)
  BY <1>1, <1>2 DEF AddingRun
<1>4. AddingAll(Nothing, d) = w[Len(d)]
  BY <1>3, AddingRunUnique
<1>. QED
  BY <1>1, <1>4 DEF Content, Nothing

(* A block more is still content.                                          *)
LEMMA AddingTyped ==
    ASSUME NEW c, ContentType(c), NEW b, b.frags \in Seq(Nat)
    PROVE  ContentType(Adding(c, b))
<1>1. Append(c["tool"], b.frags) \in Seq(Seq(Nat))
  BY DEF ContentType
<1>2. c["text"] \o b.frags \in Seq(Nat) /\ c["thinking"] \o b.frags \in Seq(Nat)
  BY DEF ContentType
<1>3. "text" # "tool" /\ "thinking" # "tool" /\ "text" # "thinking"
  OBVIOUS
<1>. QED
  BY <1>1, <1>2, <1>3 DEF ContentType, Adding, Kinds

(* Content of well-typed blocks is well typed.                             *)
LEMMA ContentTyped ==
    ASSUME NEW S, NEW b \in Seq(S), \A k \in 1..Len(b) : b[k].frags \in Seq(Nat)
    PROVE  ContentType(Content(b))
<1>1. PICK w : AddingRun(w, Nothing, b) /\ AddingAll(Nothing, b) = w[Len(b)]
  BY AddingRunExists
<1> DEFINE T == {k \in 0..Len(b) : ~ContentType(w[k])}
<1>2. Len(b) \in Nat
  BY LenProperties
<1>3. T = {}
  <2> SUFFICES ASSUME T # {} PROVE FALSE
    OBVIOUS
  <2>1. PICK k \in T : \A l \in T : k <= l
    <3>1. T \in SUBSET Nat
      OBVIOUS
    <3> HIDE DEF T
    <3>. QED
      BY <3>1, Least
  <2>2. k # 0
    <3>1. ContentType(Nothing)
      BY EmptySeq DEF ContentType, Nothing, Kinds
    <3>. QED
      BY <1>1, <2>1, <3>1 DEF AddingRun
  <2>3. k - 1 \in 0..Len(b) /\ k - 1 \notin T /\ k \in 1..Len(b)
    BY <1>2, <2>1, <2>2
  <2>4. ContentType(w[k - 1]) /\ w[k] = Adding(w[k - 1], b[k])
    BY <1>1, <2>3 DEF AddingRun
  <2>5. ContentType(w[k])
    BY <2>3, <2>4, AddingTyped
  <2>. QED
    BY <2>1, <2>5
<1>4. ContentType(w[Len(b)])
  BY <1>2, <1>3
<1>. QED
  BY <1>1, <1>4 DEF Content, Nothing

(* The tool call just added is the last one.                               *)
LEMMA LastAppended ==
    ASSUME NEW S, NEW b \in Seq(S), Len(b) > 0
    PROVE  /\ SubSeq(b, 1, Len(b) - 1) \in Seq(S) /\ Len(SubSeq(b, 1, Len(b) - 1)) = Len(b) - 1
           /\ \A k \in 1..Len(b) - 1 : SubSeq(b, 1, Len(b) - 1)[k] = b[k]
           /\ b[Len(b)] \in S
           /\ b = Append(SubSeq(b, 1, Len(b) - 1), b[Len(b)])
<1> DEFINE n == Len(b)
           front == SubSeq(b, 1, n - 1)
<1>1. n \in Nat /\ n \in 1..n /\ 1 \in 1..n
  BY LenProperties
<1>2. \A k \in 1..n : b[k] \in S
  BY ElementOfSeq
<1>3. /\ front \in Seq(S) /\ Len(front) = IF 1 <= n - 1 THEN n - 1 - 1 + 1 ELSE 0
      /\ \A k \in 1..n - 1 - 1 + 1 : front[k] = b[1 + k - 1]
  BY <1>1, <1>2, SubSeqProperties
<1>4. SubSeq(b, 1, n) = front \o <<b[n]>>
  BY <1>1, SubSeqRecursiveSecond
<1>5. SubSeq(b, 1, n) = b
  BY SubSeqFull
<1>6. n \in Nat \ {0}
  BY <1>1
<1> HIDE DEF front, n
<1>7. Len(front) = n - 1
  BY <1>3, <1>6
<1>8. \A k \in 1..n - 1 : k \in 1..n - 1 - 1 + 1 /\ 1 + k - 1 = k
  BY <1>6
<1>9. \A k \in 1..n - 1 : front[k] = b[k]
  BY <1>3, <1>8
<1>10. Append(front, b[n]) = front \o <<b[n]>>
  BY <1>1, <1>2, <1>3, AppendIsConcat
<1>. QED
  BY <1>1, <1>2, <1>3, <1>4, <1>5, <1>7, <1>9, <1>10 DEF front, n

(* A new block with a fragment more contributes a fragment more.           *)
LEMMA AddingGrown ==
    ASSUME NEW c, ContentType(c), NEW x, NEW y, x.frags \in Seq(Nat), x.kind \in Kinds,
           NEW f \in Nat, y.kind = x.kind, y.frags = Append(x.frags, f)
    PROVE  Adding(c, y) = Extended(Adding(c, x), x.kind, f)
<1>1. CASE x.kind = "tool"
  <2> DEFINE ts == c["tool"]
             old == Append(ts, x.frags)
             new == Append(ts, y.frags)
  <2>1. ts \in Seq(Seq(Nat)) /\ x.frags \in Seq(Nat) /\ y.frags \in Seq(Nat)
    BY DEF ContentType
  <2>2. new = LastGrown(old, f)
    <3> DEFINE grown == [old EXCEPT ![Len(old)] = Append(@, f)]
    <3>1. /\ old \in Seq(Seq(Nat)) /\ Len(old) = Len(ts) + 1 /\ old[Len(ts) + 1] = x.frags
          /\ \A i \in 1..Len(ts) : old[i] = ts[i]
      BY <2>1, AppendProperties
    <3>2. /\ new \in Seq(Seq(Nat)) /\ Len(new) = Len(ts) + 1 /\ new[Len(ts) + 1] = y.frags
          /\ \A i \in 1..Len(ts) : new[i] = ts[i]
      BY <2>1, AppendProperties
    <3>3. Len(ts) \in Nat /\ Len(old) \in 1..Len(old) /\ old[Len(old)] = x.frags
      BY <2>1, <3>1, LenProperties
    <3> HIDE DEF old, new, ts
    <3>4. /\ grown \in Seq(Seq(Nat)) /\ Len(grown) = Len(old)
          /\ \A i \in 1..Len(old) : grown[i] = IF i = Len(old) THEN y.frags ELSE old[i]
      BY <2>1, <3>1, <3>3, ExceptSeq
    <3> HIDE DEF grown
    <3>5. \A i \in 1..Len(new) : new[i] = grown[i]
      <4> SUFFICES ASSUME NEW i \in 1..Len(new) PROVE new[i] = grown[i]
        OBVIOUS
      <4>1. Len(new) = Len(old) /\ Len(old) = Len(ts) + 1
        BY <3>1, <3>2
      <4>2. i = Len(ts) + 1 \/ i \in 1..Len(ts)
        BY <3>3, <4>1
      <4>3. i \in 1..Len(old) /\ (i \in 1..Len(ts) => i # Len(old))
        BY <3>3, <4>1
      <4>4. CASE i = Len(ts) + 1
        BY <3>2, <3>4, <4>1, <4>3, <4>4
      <4>5. CASE i \in 1..Len(ts)
        BY <3>1, <3>2, <3>4, <4>3, <4>5
      <4>. QED
        BY <4>2, <4>4, <4>5
    <3>6. new = grown
      BY <3>1, <3>2, <3>4, <3>5, SeqEqual
    <3>. QED
      BY <3>6 DEF grown, LastGrown
  <2>3. Adding(c, y) = [c EXCEPT !["tool"] = new] /\ Adding(c, x) = [c EXCEPT !["tool"] = old]
    BY <1>1 DEF Adding
  <2> HIDE DEF old, new
  <2>4. "tool" \in DOMAIN c
    BY DEF ContentType, Kinds
  <2> DEFINE with == [c EXCEPT !["tool"] = old]
  <2>5. with["tool"] = old /\ \A z : [with EXCEPT !["tool"] = z] = [c EXCEPT !["tool"] = z]
    BY <2>4
  <2> HIDE DEF with
  <2>6. Extended(with, "tool", f) = [with EXCEPT !["tool"] = LastGrown(old, f)]
    BY <2>5 DEF Extended
  <2>7. Adding(c, x) = with
    BY <2>3 DEF with
  <2>. QED
    BY <1>1, <2>2, <2>3, <2>5, <2>6, <2>7
<1>2. CASE x.kind # "tool"
  <2> DEFINE kind == x.kind
  <2>1. kind \in {"text", "thinking"} /\ kind \in DOMAIN c /\ c[kind] \in Seq(Nat)
    BY <1>2 DEF ContentType, Kinds
  <2>2. c[kind] \o Append(x.frags, f) = Append(c[kind] \o x.frags, f)
    <3> DEFINE head == c[kind]
               tail == x.frags
    <3>1. head \in Seq(Nat) /\ tail \in Seq(Nat) /\ f \in Nat
      BY <2>1
    <3> HIDE DEF head, tail
    <3>2. head \o Append(tail, f) = Append(head \o tail, f)
      BY <3>1, ConcatAppend
    <3>. QED
      BY <3>2 DEF head, tail
  <2>3. /\ Adding(c, y) = [c EXCEPT ![kind] = c[kind] \o Append(x.frags, f)]
        /\ Adding(c, x) = [c EXCEPT ![kind] = c[kind] \o x.frags]
    BY <1>2 DEF Adding
  <2> HIDE DEF kind
  <2>4. kind # "tool"
    BY <1>2 DEF kind
  <2>5. Extended(Adding(c, x), kind, f) = [c EXCEPT ![kind] = Append(c[kind] \o x.frags, f)]
    BY <2>1, <2>3, <2>4 DEF Extended
  <2>. QED
    BY <2>2, <2>3, <2>5 DEF kind
<1>. QED
  BY <1>1, <1>2

(* The last block gets a fragment.                                         *)
LEMMA ContentGrows ==
    ASSUME NEW S, NEW b \in Seq(S), NEW T, NEW d \in Seq(T), Len(d) = Len(b), Len(b) > 0,
           \A k \in 1..Len(b) : b[k].frags \in Seq(Nat),
           NEW f \in Nat, b[Len(b)].kind \in Kinds,
           \A k \in 1..Len(b) : d[k].kind = b[k].kind,
           \A k \in 1..Len(b) : d[k].frags = IF k = Len(b) THEN Append(b[k].frags, f) ELSE b[k].frags
    PROVE  Content(d) = Extended(Content(b), b[Len(b)].kind, f)
<1> DEFINE n == Len(b)
           front == SubSeq(b, 1, n - 1)
           front2 == SubSeq(d, 1, n - 1)
<1>1. /\ front \in Seq(S) /\ Len(front) = n - 1 /\ \A k \in 1..n - 1 : front[k] = b[k]
      /\ b[n] \in S /\ b = Append(front, b[n])
  BY LastAppended
<1>2. /\ front2 \in Seq(T) /\ Len(front2) = n - 1 /\ \A k \in 1..n - 1 : front2[k] = d[k]
      /\ d[n] \in T /\ d = Append(front2, d[n])
  BY LastAppended
<1>3. n \in Nat /\ n \in 1..n /\ \A k \in 1..n - 1 : k \in 1..n /\ k # n
  BY LenProperties
<1> HIDE DEF front, front2
<1>4. Content(front2) = Content(front)
  <2>1. \A k \in 1..n - 1 : front2[k].kind = front[k].kind /\ front2[k].frags = front[k].frags
    BY <1>1, <1>2, <1>3
  <2>2. Len(front2) = Len(front) /\ front2 \in Seq(T) /\ front \in Seq(S)
    BY <1>1, <1>2
  <2>3. \A k \in 1..Len(front) : front2[k].kind = front[k].kind /\ front2[k].frags = front[k].frags
    BY <1>1, <2>1
  <2>. QED
    BY <2>2, <2>3, ContentSame
<1>5. ContentType(Content(front))
  BY <1>1, <1>3, ContentTyped
<1>6. Content(b) = Adding(Content(front), b[n]) /\ Content(d) = Adding(Content(front), d[n])
  BY <1>1, <1>2, <1>4, ContentAppend
<1> DEFINE c == Content(front)
<1> HIDE DEF c
<1>7. /\ ContentType(c) /\ b[n].frags \in Seq(Nat) /\ b[n].kind \in Kinds
      /\ d[n].kind = b[n].kind /\ d[n].frags = Append(b[n].frags, f)
  BY <1>3, <1>5 DEF c
<1>8. Adding(c, d[n]) = Extended(Adding(c, b[n]), b[n].kind, f)
  <2> DEFINE x == b[n]
             y == d[n]
  <2>1. /\ ContentType(c) /\ x.frags \in Seq(Nat) /\ x.kind \in Kinds
        /\ y.kind = x.kind /\ y.frags = Append(x.frags, f)
    BY <1>7
  <2> HIDE DEF x, y
  <2>2. Adding(c, y) = Extended(Adding(c, x), x.kind, f)
    BY <2>1, AddingGrown
  <2>. QED
    BY <2>2 DEF x, y
<1>. QED
  BY <1>6, <1>8 DEF c

(* What a new block contributes.                                           *)
LEMMA AddingNew ==
    ASSUME NEW c, ContentType(c), NEW b, NEW f \in Nat
    PROVE  /\ b.kind \in {"text", "thinking"} /\ b.frags = <<>> => Adding(c, b) = c
           /\ b.kind \notin Kinds => Adding(c, b) = c
<1>1. ASSUME b.kind \in {"text", "thinking"}, b.frags = <<>> PROVE Adding(c, b) = c
  <2>1. c[b.kind] \o <<>> = c[b.kind] /\ b.kind # "tool" /\ b.kind \in Kinds
    BY <1>1 DEF ContentType, Kinds
  <2>2. Adding(c, b) = [c EXCEPT ![b.kind] = c[b.kind]]
    BY <1>1, <2>1 DEF Adding
  <2>. QED
    BY <2>2 DEF ContentType
<1>. QED
  BY <1>1 DEF Adding

-----------------------------------------------------------------------------
(***************************************************************************)
(* The encoders, and the client that takes what they emit.                 *)
(***************************************************************************)
Usages == {"none", "input", "final"}
Blocks == [kind : Kinds, frags : Seq(Nat)]

(* The state of an encoder, and the view of a client.                      *)
EncoderType(e) ==
    /\ DOMAIN e = {"next", "open", "kind", "openSrc", "src", "items", "output", "usage0"}
    /\ e.next \in Nat /\ e.open \in Nat \union {-1} /\ e.kind \in Kinds \union {"none"}
    /\ e.openSrc \in -1..MaxBlocks /\ e.src \in [-1..MaxBlocks -> Nat \union {-1}]
    /\ e.items \in Seq(Blocks) /\ e.output \in Seq(Blocks) /\ e.usage0 \in Usages

ViewType(v) ==
    /\ DOMAIN v = {"legal", "end", "blocks", "open", "usage"}
    /\ v.legal \in BOOLEAN /\ v.end \in {"none", "stop", "error"} /\ v.blocks \in Seq(Blocks)
    /\ v.open \in Nat \union {-1} /\ v.usage \in Usages

(* The Anthropic and the Responses encoder: what the client has is what    *)
(* the encoder believes it has, the finished items are in output, and src  *)
(* knows the open tool block and no other.                                 *)
FramedFit(e, v) ==
    /\ v.blocks = e.items /\ Len(e.items) = e.next /\ v.open = e.open
    /\ \/ e.open = -1 /\ e.kind = "none" /\ e.output = e.items
       \/ /\ e.open = e.next - 1 /\ e.open >= 0
          /\ e.kind \in Kinds /\ e.items[e.next].kind = e.kind
          /\ Len(e.output) = e.open /\ \A k \in 1..e.open : e.output[k] = e.items[k]
    /\ \A i \in -1..MaxBlocks :
          e.src[i] = IF e.kind = "tool" /\ i = e.openSrc THEN e.open ELSE -1

(* The Chat encoder numbers the tool calls.                                *)
ChatFit(e, v) == v.open = -1 /\ e.open = -1 /\ e.next = Cardinality(ToolBlocks(v.blocks))

Fits(e, v) == IF to = "openai_chat" THEN ChatFit(e, v) ELSE FramedFit(e, v)

Typed(e, v) == EncoderType(e) /\ ViewType(v) /\ v.legal /\ v.end = "none"

Sound(e, v) == Typed(e, v) /\ Fits(e, v)

Grown(b, i, f) == [b EXCEPT ![i].frags = Append(@, f)]

(* A block more fragment.                                                  *)
LEMMA GrownBlocks ==
    ASSUME NEW b \in Seq(Blocks), NEW i \in 1..Len(b), NEW f \in Nat
    PROVE  /\ Grown(b, i, f) \in Seq(Blocks) /\ Len(Grown(b, i, f)) = Len(b)
           /\ \A k \in 1..Len(b) : /\ Grown(b, i, f)[k].kind = b[k].kind
                                   /\ Grown(b, i, f)[k].frags = IF k = i THEN Append(b[k].frags, f) ELSE b[k].frags
                                   /\ k # i => Grown(b, i, f)[k] = b[k]
<1> DEFINE new == [b[i] EXCEPT !.frags = Append(b[i].frags, f)]
<1>1. b[i] \in Blocks
  BY ElementOfSeq
<1>2. new \in Blocks /\ new.kind = b[i].kind /\ new.frags = Append(b[i].frags, f)
  <2>1. Append(b[i].frags, f) \in Seq(Nat)
    BY <1>1, AppendProperties DEF Blocks
  <2>. QED
    BY <1>1, <2>1 DEF Blocks
<1>3. Grown(b, i, f) = [b EXCEPT ![i] = new]
  BY DEF Grown
<1> HIDE DEF new
<1>4. /\ [b EXCEPT ![i] = new] \in Seq(Blocks) /\ Len([b EXCEPT ![i] = new]) = Len(b)
      /\ \A k \in 1..Len(b) : [b EXCEPT ![i] = new][k] = IF k = i THEN new ELSE b[k]
  BY <1>2, ExceptSeq
<1>. QED
  BY <1>2, <1>3, <1>4

(* A new block at the end.                                                 *)
LEMMA FreshBlock ==
    ASSUME NEW kind \in Kinds
    PROVE  [kind |-> kind, frags |-> <<>>] \in Blocks
BY EmptySeq DEF Blocks

(* An encoder that closes its open block, as CloseOpen does.               *)
LEMMA CloseOpenFramed ==
    ASSUME NEW e, NEW v, Typed(e, v), FramedFit(e, v), to # "openai_chat"
    PROVE  LET r == CloseOpen(e)
               w == TakeAll(v, r.out)
           IN  /\ Listed(r.out) /\ Typed(r.enc, w) /\ FramedFit(r.enc, w)
               /\ r.enc.open = -1 /\ r.enc.kind = "none"
               /\ r.enc.usage0 = e.usage0 /\ w.blocks = v.blocks
<1> DEFINE r == CloseOpen(e)
           w == TakeAll(v, r.out)
<1>1. CASE e.open = -1
  <2>1. r = Encoded(e, <<>>)
    BY <1>1 DEF CloseOpen
  <2>2. r.enc = e /\ r.out = <<>>
    BY <2>1 DEF Encoded
  <2>3. w = v
    BY <2>2, TakeFold
  <2>4. e.kind = "none"
    BY <1>1 DEF FramedFit, Typed, EncoderType
  <2>. QED
    BY <1>1, <2>2, <2>3, <2>4, Lists
<1>2. CASE e.open # -1
  <2> DEFINE last == e.items[e.open + 1]
             out == Append(e.output, last)
             src == IF e.kind = "tool" THEN [e.src EXCEPT ![e.openSrc] = -1] ELSE e.src
             frame == Out("block_stop", e.open, e.kind, 0)
  <2>1. /\ e.open \in Nat /\ e.open + 1 = e.next /\ e.next \in 1..Len(e.items) /\ Len(e.items) = e.next
        /\ e.kind \in Kinds /\ Len(e.output) = e.open /\ \A k \in 1..e.open : e.output[k] = e.items[k]
    BY <1>2 DEF FramedFit, Typed, EncoderType
  <2>2. r.enc = [e EXCEPT !.open = -1, !.kind = "none", !.openSrc = -1, !.src = src, !.output = out]
    BY <2>1 DEF CloseOpen, Closed, Encoded
  <2>3. r.out = <<frame>>
    BY <2>1 DEF CloseOpen, Encoded
  <2>4. out \in Seq(Blocks) /\ out = e.items
    <3>1. last \in Blocks
      BY <2>1, ElementOfSeq DEF Typed, EncoderType
    <3>2. /\ out \in Seq(Blocks) /\ Len(out) = Len(e.output) + 1 /\ out[Len(e.output) + 1] = last
          /\ \A k \in 1..Len(e.output) : out[k] = e.output[k]
      BY <3>1, AppendProperties DEF Typed, EncoderType
    <3> HIDE DEF out
    <3>3. \A k \in 1..Len(out) : out[k] = e.items[k]
      BY <2>1, <3>2
    <3>. QED
      BY <2>1, <3>2, <3>3, SeqEqual DEF Typed, EncoderType
  <2>5. /\ src \in [-1..MaxBlocks -> Nat \union {-1}]
        /\ \A i \in -1..MaxBlocks : src[i] = -1
    BY DEF FramedFit, Typed, EncoderType
  <2>6. w = [v EXCEPT !.open = -1]
    <3>1. w = Take(v, frame)
      BY <2>3, TakeFold
    <3>2. frame.type = "block_stop" /\ frame.index = e.open
      BY DEF Out
    <3> HIDE DEF frame, w
    <3>3. v.open = e.open /\ v.end = "none"
      BY DEF Typed, FramedFit
    <3>. QED
      BY <3>1, <3>2, <3>3 DEF Take, TakeFramed
  <2>7. Listed(r.out)
    BY <2>3, Lists
  <2> HIDE DEF src, out, frame, r, w
  <2>8. /\ r.enc.next = e.next /\ r.enc.open = -1 /\ r.enc.kind = "none" /\ r.enc.openSrc = -1
        /\ r.enc.src = src /\ r.enc.items = e.items /\ r.enc.output = out /\ r.enc.usage0 = e.usage0
        /\ EncoderType(r.enc)
    <3>1. -1 \in -1..MaxBlocks
      BY CodecsAssumption
    <3>2. /\ DOMAIN r.enc = DOMAIN e
          /\ r.enc.next = e.next /\ r.enc.open = -1 /\ r.enc.kind = "none" /\ r.enc.openSrc = -1
          /\ r.enc.src = src /\ r.enc.items = e.items /\ r.enc.output = out /\ r.enc.usage0 = e.usage0
      BY <2>2 DEF Typed, EncoderType
    <3>. QED
      BY <2>4, <2>5, <3>1, <3>2 DEF Typed, EncoderType
  <2>9. w.blocks = v.blocks /\ w.open = -1 /\ w.legal /\ w.end = "none" /\ ViewType(w)
    BY <2>6 DEF Typed, ViewType
  <2>10. FramedFit(r.enc, w)
    BY <2>4, <2>5, <2>8, <2>9 DEF FramedFit
  <2>. QED
    BY <2>7, <2>8, <2>9, <2>10 DEF Typed, r, w
<1>. QED
  BY <1>1, <1>2

(* A new block for the encoder and the client.                             *)
LEMMA NewBlockFramed ==
    ASSUME NEW e, NEW v, Typed(e, v), FramedFit(e, v), to # "openai_chat", e.open = -1,
           NEW kind \in Kinds, NEW i \in -1..MaxBlocks
    PROVE  LET r == NewBlock(e, kind, i)
               w == TakeAll(v, r.out)
           IN  /\ Listed(r.out) /\ Typed(r.enc, w) /\ FramedFit(r.enc, w)
               /\ r.enc.open = e.next /\ r.enc.kind = kind /\ r.enc.openSrc = i
               /\ r.enc.usage0 = e.usage0
               /\ w.blocks = Append(v.blocks, [kind |-> kind, frags |-> <<>>])
<1> DEFINE r == NewBlock(e, kind, i)
           w == TakeAll(v, r.out)
           new == [kind |-> kind, frags |-> <<>>]
           items == Append(e.items, new)
           src == IF kind = "tool" THEN [e.src EXCEPT ![i] = e.next] ELSE e.src
           frame == Out("block_start", e.next, kind, 0)
<1>1. /\ e.kind = "none" /\ e.output = e.items /\ Len(e.items) = e.next /\ v.open = -1
      /\ v.blocks = e.items /\ e.next \in Nat /\ v.end = "none"
  BY DEF FramedFit, Typed, EncoderType
<1>2. r.enc = [e EXCEPT !.open = e.next, !.kind = kind, !.openSrc = i, !.next = e.next + 1,
                        !.items = items, !.src = src] /\ r.out = <<frame>>
  BY DEF NewBlock, Opened, Encoded
<1>3. /\ items \in Seq(Blocks) /\ Len(items) = e.next + 1 /\ items[e.next + 1] = new
      /\ \A k \in 1..e.next : items[k] = e.items[k]
  BY <1>1, FreshBlock, AppendProperties DEF Typed, EncoderType
<1>4. /\ src \in [-1..MaxBlocks -> Nat \union {-1}]
      /\ \A j \in -1..MaxBlocks : src[j] = IF kind = "tool" /\ j = i THEN e.next ELSE -1
  <2>1. e.src \in [-1..MaxBlocks -> Nat \union {-1}] /\ \A j \in -1..MaxBlocks : e.src[j] = -1
    BY <1>1 DEF FramedFit, Typed, EncoderType
  <2>. QED
    BY <1>1, <2>1
<1>5. w = [v EXCEPT !.blocks = items, !.open = e.next]
  <2>1. w = Take(v, frame)
    BY <1>2, TakeFold
  <2>2. frame.type = "block_start" /\ frame.index = e.next /\ frame.kind = kind
    BY DEF Out
  <2> HIDE DEF frame, w
  <2>3. Take(v, frame) = [[v EXCEPT !.blocks = items] EXCEPT !.open = e.next]
    BY <1>1, <2>2 DEF Take, TakeFramed, AddBlock
  <2>. QED
    BY <2>1, <2>3
<1>6. Listed(r.out)
  BY <1>2, Lists
<1> HIDE DEF src, items, frame, r, w
<1>7. /\ r.enc.next = e.next + 1 /\ r.enc.open = e.next /\ r.enc.kind = kind /\ r.enc.openSrc = i
      /\ r.enc.src = src /\ r.enc.items = items /\ r.enc.output = e.output
      /\ r.enc.usage0 = e.usage0 /\ EncoderType(r.enc)
  <2>1. /\ DOMAIN r.enc = DOMAIN e
        /\ r.enc.next = e.next + 1 /\ r.enc.open = e.next /\ r.enc.kind = kind /\ r.enc.openSrc = i
        /\ r.enc.src = src /\ r.enc.items = items /\ r.enc.output = e.output
        /\ r.enc.usage0 = e.usage0
    BY <1>2 DEF Typed, EncoderType
  <2>. QED
    BY <1>1, <1>3, <1>4, <2>1 DEF Typed, EncoderType
<1>8. w.blocks = items /\ w.open = e.next /\ w.legal /\ w.end = "none" /\ ViewType(w)
  BY <1>1, <1>3, <1>5 DEF Typed, ViewType
<1>9. FramedFit(r.enc, w)
  <2>1. items[e.next + 1].kind = kind
    BY <1>3
  <2> HIDE DEF new
  <2>. QED
    BY <1>1, <1>3, <1>4, <1>7, <1>8, <2>1 DEF FramedFit
<1>10. w.blocks = Append(v.blocks, new)
  BY <1>1, <1>8 DEF items
<1>. QED
  BY <1>6, <1>7, <1>8, <1>9, <1>10 DEF Typed, r, w

(* The client takes two runs of frames one after the other.                *)
LEMMA BothTaken ==
    ASSUME NEW a, NEW b, NEW v, Listed(a.out), Listed(b.out)
    PROVE  /\ Both(a, b).enc = b.enc /\ Listed(Both(a, b).out)
           /\ TakeAll(v, Both(a, b).out) = TakeAll(TakeAll(v, a.out), b.out)
BY TakeFold, Lists DEF Both, Encoded

(* Open: the block before is closed, and a new one is open.                *)
LEMMA OpenFramed ==
    ASSUME NEW e, NEW v, Typed(e, v), FramedFit(e, v), to # "openai_chat",
           NEW kind \in Kinds, NEW i \in -1..MaxBlocks
    PROVE  LET r == Open(e, kind, i)
               w == TakeAll(v, r.out)
           IN  /\ Listed(r.out) /\ Typed(r.enc, w) /\ FramedFit(r.enc, w)
               /\ r.enc.open >= 0 /\ r.enc.kind = kind /\ r.enc.openSrc = i
               /\ r.enc.usage0 = e.usage0
               /\ w.blocks = Append(v.blocks, [kind |-> kind, frags |-> <<>>])
<1> DEFINE a == CloseOpen(e)
           b == NewBlock(a.enc, kind, i)
           v1 == TakeAll(v, a.out)
           v2 == TakeAll(v1, b.out)
<1>1. Open(e, kind, i) = Both(a, b)
  BY DEF Open, Then
<1>2. /\ Listed(a.out) /\ Typed(a.enc, v1) /\ FramedFit(a.enc, v1)
      /\ a.enc.open = -1 /\ a.enc.usage0 = e.usage0 /\ v1.blocks = v.blocks
  BY CloseOpenFramed
<1> HIDE DEF a, v1
<1>3. /\ Listed(b.out) /\ Typed(b.enc, v2) /\ FramedFit(b.enc, v2)
      /\ b.enc.open = a.enc.next /\ b.enc.kind = kind /\ b.enc.openSrc = i
      /\ b.enc.usage0 = a.enc.usage0
      /\ v2.blocks = Append(v1.blocks, [kind |-> kind, frags |-> <<>>])
  BY <1>2, NewBlockFramed, SMTT(60)
<1>4. a.enc.next \in Nat
  BY <1>2 DEF Typed, EncoderType
<1> HIDE DEF b, v2
<1>5. /\ Both(a, b).enc = b.enc /\ Listed(Both(a, b).out)
      /\ TakeAll(v, Both(a, b).out) = v2
  BY <1>2, <1>3, BothTaken DEF v1, v2
<1>. QED
  BY <1>1, <1>2, <1>3, <1>4, <1>5

(* A delta of the open block.                                              *)
LEMMA DeltaFramed ==
    ASSUME NEW e, NEW v, Typed(e, v), FramedFit(e, v), to # "openai_chat",
           e.open >= 0, NEW f \in Nat
    PROVE  LET r == Delta(e, e.open, e.kind, f)
               w == TakeAll(v, r.out)
           IN  /\ Listed(r.out) /\ Typed(r.enc, w) /\ FramedFit(r.enc, w)
               /\ r.enc.open = e.open /\ r.enc.kind = e.kind /\ r.enc.openSrc = e.openSrc
               /\ r.enc.usage0 = e.usage0 /\ e.kind \in Kinds
               /\ Len(v.blocks) > 0 /\ v.blocks[Len(v.blocks)].kind = e.kind
               /\ w.blocks = Grown(v.blocks, Len(v.blocks), f)
<1> DEFINE r == Delta(e, e.open, e.kind, f)
           w == TakeAll(v, r.out)
           n == e.open + 1
           items == Grown(e.items, n, f)
           frame == Out("delta", e.open, e.kind, f)
<1>1. /\ e.open \in Nat /\ n = e.next /\ n \in 1..Len(e.items) /\ Len(e.items) = n
      /\ e.kind \in Kinds /\ Len(e.output) = e.open /\ \A k \in 1..e.open : e.output[k] = e.items[k]
      /\ e.items[n].kind = e.kind
      /\ v.blocks = e.items /\ v.open = e.open /\ v.end = "none"
  BY DEF FramedFit, Typed, EncoderType
<1>2. r.enc = [e EXCEPT !.items = items] /\ r.out = <<frame>>
  BY DEF Delta, Encoded, Grown
<1>3. w = [v EXCEPT !.blocks = items]
  <2>1. w = Take(v, frame)
    BY <1>2, TakeFold
  <2>2. frame.type = "delta" /\ frame.index = e.open /\ frame.kind = e.kind /\ frame.frag = f
    BY DEF Out
  <2> HIDE DEF frame, w
  <2>3. Take(v, frame) = [v EXCEPT !.blocks = Grown(v.blocks, n, f)]
    BY <1>1, <2>2 DEF Take, TakeFramed, Grown
  <2>. QED
    BY <1>1, <2>1, <2>3
<1>4. Listed(r.out)
  BY <1>2, Lists
<1>5. /\ items \in Seq(Blocks) /\ Len(items) = n
      /\ \A k \in 1..n : items[k].kind = e.items[k].kind /\ (k # n => items[k] = e.items[k])
  BY <1>1, GrownBlocks DEF Typed, EncoderType
<1> HIDE DEF items, frame, r, w
<1>6. /\ r.enc.next = e.next /\ r.enc.open = e.open /\ r.enc.kind = e.kind /\ r.enc.openSrc = e.openSrc
      /\ r.enc.src = e.src /\ r.enc.items = items /\ r.enc.output = e.output
      /\ r.enc.usage0 = e.usage0 /\ EncoderType(r.enc)
  BY <1>2, <1>5 DEF Typed, EncoderType
<1>7. w.blocks = items /\ w.open = e.open /\ w.legal /\ w.end = "none" /\ ViewType(w)
  BY <1>1, <1>3, <1>5 DEF Typed, ViewType
<1>8. FramedFit(r.enc, w)
  <2>1. \A k \in 1..e.open : k \in 1..n /\ k # n
    BY <1>1
  <2>2. \A k \in 1..e.open : e.output[k] = items[k]
    BY <1>1, <1>5, <2>1
  <2>3. items[n].kind = e.kind
    BY <1>1, <1>5
  <2>4. \A i \in -1..MaxBlocks : e.src[i] = IF e.kind = "tool" /\ i = e.openSrc THEN e.open ELSE -1
    BY DEF FramedFit
  <2>5. w.blocks = r.enc.items /\ Len(r.enc.items) = r.enc.next /\ w.open = r.enc.open
    BY <1>1, <1>5, <1>6, <1>7
  <2>6. /\ r.enc.open = r.enc.next - 1 /\ r.enc.open >= 0
        /\ r.enc.kind \in Kinds /\ r.enc.items[r.enc.next].kind = r.enc.kind
    BY <1>1, <1>6, <2>3
  <2>7. Len(r.enc.output) = r.enc.open /\ \A k \in 1..r.enc.open : r.enc.output[k] = r.enc.items[k]
    BY <1>1, <1>6, <2>2
  <2>8. \A i \in -1..MaxBlocks :
           r.enc.src[i] = IF r.enc.kind = "tool" /\ i = r.enc.openSrc THEN r.enc.open ELSE -1
    BY <1>6, <2>4
  <2>. QED
    BY <2>5, <2>6, <2>7, <2>8 DEF FramedFit
<1>. QED
  BY <1>1, <1>4, <1>6, <1>7, <1>8 DEF Typed, r, w, items

-----------------------------------------------------------------------------
(***************************************************************************)
(* What an IR event says, and what an encoder whose blocks are framed      *)
(* makes of it (Anthropic, Responses).                                     *)
(***************************************************************************)
Call == [kind |-> "tool", frags |-> <<>>]

(* What an IR event says of the message.                                   *)
Effect(c, ev) ==
    CASE ev.kind = "text_delta"       -> Extended(c, "text", ev.frag)
      [] ev.kind = "thinking_delta"   -> Extended(c, "thinking", ev.frag)
      [] ev.kind = "tool_input_delta" -> Extended(c, "tool", ev.frag)
      [] ev.kind = "tool_use_start"   -> Adding(c, Call)
      [] OTHER                        -> c

(* What the client has is content.                                         *)
LEMMA ContentOfBlocks ==
    ASSUME NEW b \in Seq(Blocks)
    PROVE  ContentType(Content(b))
<1>1. \A k \in 1..Len(b) : b[k] \in Blocks
  BY ElementOfSeq
<1>2. \A k \in 1..Len(b) : b[k].frags \in Seq(Nat)
  BY <1>1 DEF Blocks
<1>. QED
  BY <1>2, ContentTyped

(* What the client has, with a new block.                                  *)
LEMMA ContentNewBlock ==
    ASSUME NEW b \in Seq(Blocks), NEW kind \in Kinds
    PROVE  Content(Append(b, [kind |-> kind, frags |-> <<>>])) =
                IF kind = "tool" THEN Adding(Content(b), Call) ELSE Content(b)
<1> DEFINE new == [kind |-> kind, frags |-> <<>>]
<1>1. new \in Blocks /\ new.kind = kind /\ new.frags = <<>>
  BY FreshBlock
<1>2. kind = "tool" => new = Call
  BY DEF Call
<1> HIDE DEF new
<1>3. Content(Append(b, new)) = Adding(Content(b), new)
  BY <1>1, ContentAppend
<1>4. CASE kind = "tool"
  BY <1>2, <1>3, <1>4 DEF new
<1>5. CASE kind # "tool"
  <2>1. new.kind \in {"text", "thinking"}
    BY <1>1, <1>5 DEF Kinds
  <2>2. Adding(Content(b), new) = Content(b)
    BY <1>1, <2>1, ContentOfBlocks, AddingNew
  <2>. QED
    BY <1>3, <1>5, <2>2 DEF new
<1>. QED
  BY <1>4, <1>5

(* What the client has, with a fragment more.                              *)
LEMMA ContentGrownBlock ==
    ASSUME NEW b \in Seq(Blocks), Len(b) > 0, NEW f \in Nat
    PROVE  /\ Content(Grown(b, Len(b), f)) = Extended(Content(b), b[Len(b)].kind, f)
           /\ Len(Grown(b, Len(b), f)) = Len(b)
<1> DEFINE d == Grown(b, Len(b), f)
<1>1. Len(b) \in 1..Len(b)
  BY LenProperties
<1>2. /\ d \in Seq(Blocks) /\ Len(d) = Len(b)
      /\ \A k \in 1..Len(b) : d[k].kind = b[k].kind
      /\ \A k \in 1..Len(b) : d[k].frags = IF k = Len(b) THEN Append(b[k].frags, f) ELSE b[k].frags
  BY <1>1, GrownBlocks
<1>3. \A k \in 1..Len(b) : b[k].frags \in Seq(Nat) /\ b[k].kind \in Kinds
  <2>1. \A k \in 1..Len(b) : b[k] \in Blocks
    BY ElementOfSeq
  <2>. QED
    BY <2>1 DEF Blocks
<1> HIDE DEF d
<1>4. b[Len(b)].kind \in Kinds
  BY <1>1, <1>3
<1>5. Content(d) = Extended(Content(b), b[Len(b)].kind, f)
  BY <1>2, <1>3, <1>4, ContentGrows
<1>. QED
  BY <1>2, <1>5 DEF d

(* EnsureOpen leaves a block of that kind open.                            *)
LEMMA EnsureOpenFramed ==
    ASSUME NEW e, NEW v, Typed(e, v), FramedFit(e, v), to # "openai_chat",
           NEW kind \in Kinds, kind # "tool"
    PROVE  LET r == EnsureOpen(e, kind)
               w == TakeAll(v, r.out)
           IN  /\ Listed(r.out) /\ Typed(r.enc, w) /\ FramedFit(r.enc, w)
               /\ r.enc.open >= 0 /\ r.enc.kind = kind /\ r.enc.usage0 = e.usage0
               /\ Content(w.blocks) = Content(v.blocks)
               /\ Len(w.blocks) = IF e.kind = kind THEN Len(v.blocks) ELSE Len(v.blocks) + 1
<1> DEFINE r == EnsureOpen(e, kind)
           w == TakeAll(v, r.out)
           s == Open(e, kind, -1)
           u == TakeAll(v, s.out)
<1>1. kind \in Kinds /\ kind # "tool" /\ kind # "none" /\ -1 \in -1..MaxBlocks
  BY CodecsAssumption DEF Kinds
<1>2. CASE e.kind = kind
  <2>1. e.open >= 0
    BY <1>1, <1>2 DEF FramedFit
  <2>2. r.enc = e /\ r.out = <<>>
    BY <1>2, <2>1 DEF EnsureOpen, Encoded
  <2>3. w = v
    BY <2>2, TakeFold
  <2>. QED
    BY <1>2, <2>1, <2>2, <2>3, Lists
<1>3. CASE e.kind # kind
  <2>1. r = s
    BY <1>3 DEF EnsureOpen
  <2>2. /\ Listed(s.out) /\ Typed(s.enc, u) /\ FramedFit(s.enc, u)
        /\ s.enc.open >= 0 /\ s.enc.kind = kind /\ s.enc.usage0 = e.usage0
        /\ u.blocks = Append(v.blocks, [kind |-> kind, frags |-> <<>>])
    BY <1>1, OpenFramed
  <2>3. v.blocks \in Seq(Blocks)
    BY DEF Typed, ViewType
  <2>4. Content(u.blocks) = Content(v.blocks)
    BY <1>1, <2>2, <2>3, ContentNewBlock
  <2>5. Len(u.blocks) = Len(v.blocks) + 1
    BY <1>1, <2>2, <2>3, FreshBlock, AppendProperties
  <2>6. w = u
    BY <2>1
  <2> HIDE DEF s, u, r, w
  <2>. QED
    BY <1>3, <2>1, <2>2, <2>4, <2>5, <2>6 DEF r, w
<1>. QED
  BY <1>2, <1>3

(* What BlockFromIR does with a text or reasoning delta, and with input.   *)
WithText(e, kind, f) == Then(EnsureOpen(e, kind), LAMBDA x : Delta(x, x.open, kind, f))

WithInput(e, i, f) ==
    Then(IF e.src[i] >= 0 THEN Encoded(e, <<>>) ELSE Open(e, "tool", i),
         LAMBDA x : Delta(x, x.src[i], "tool", f))

(* Text or reasoning, at a client whose blocks are framed.                 *)
LEMMA TextFramed ==
    ASSUME NEW e, NEW v, Typed(e, v), FramedFit(e, v), to # "openai_chat",
           NEW kind \in Kinds, kind # "tool", NEW f \in Nat
    PROVE  LET r == WithText(e, kind, f)
               w == TakeAll(v, r.out)
           IN  /\ Typed(r.enc, w) /\ FramedFit(r.enc, w)
               /\ r.enc.kind = kind /\ r.enc.usage0 = e.usage0
               /\ Content(w.blocks) = Extended(Content(v.blocks), kind, f)
               /\ Len(w.blocks) = IF e.kind = kind THEN Len(v.blocks) ELSE Len(v.blocks) + 1
<1> DEFINE a == EnsureOpen(e, kind)
           b == Delta(a.enc, a.enc.open, kind, f)
           v1 == TakeAll(v, a.out)
           v2 == TakeAll(v1, b.out)
<1>1. WithText(e, kind, f) = Both(a, b)
  BY DEF WithText, Then
<1>2. /\ Listed(a.out) /\ Typed(a.enc, v1) /\ FramedFit(a.enc, v1)
      /\ a.enc.open >= 0 /\ a.enc.kind = kind /\ a.enc.usage0 = e.usage0
      /\ Content(v1.blocks) = Content(v.blocks)
      /\ Len(v1.blocks) = IF e.kind = kind THEN Len(v.blocks) ELSE Len(v.blocks) + 1
  BY EnsureOpenFramed
<1> HIDE DEF a, v1
<1>3. /\ Listed(b.out) /\ Typed(b.enc, v2) /\ FramedFit(b.enc, v2)
      /\ b.enc.kind = kind /\ b.enc.usage0 = a.enc.usage0
      /\ Len(v1.blocks) > 0 /\ v1.blocks[Len(v1.blocks)].kind = kind
      /\ v2.blocks = Grown(v1.blocks, Len(v1.blocks), f)
  BY <1>2, DeltaFramed
<1>4. v1.blocks \in Seq(Blocks)
  BY <1>2 DEF Typed, ViewType
<1> HIDE DEF b, v2
<1>5. Both(a, b).enc = b.enc /\ TakeAll(v, Both(a, b).out) = v2
  BY <1>2, <1>3, BothTaken DEF v1, v2
<1>6. Content(v2.blocks) = Extended(Content(v.blocks), kind, f) /\ Len(v2.blocks) = Len(v1.blocks)
  BY <1>2, <1>3, <1>4, ContentGrownBlock
<1>. QED
  BY <1>1, <1>2, <1>3, <1>5, <1>6

(* A tool call starts there.                                               *)
LEMMA ToolStartFramed ==
    ASSUME NEW e, NEW v, Typed(e, v), FramedFit(e, v), to # "openai_chat",
           NEW i \in -1..MaxBlocks
    PROVE  LET r == Open(e, "tool", i)
               w == TakeAll(v, r.out)
           IN  /\ Typed(r.enc, w) /\ FramedFit(r.enc, w)
               /\ r.enc.kind = "tool" /\ r.enc.openSrc = i /\ r.enc.usage0 = e.usage0
               /\ Content(w.blocks) = Adding(Content(v.blocks), Call)
               /\ Len(w.blocks) = Len(v.blocks) + 1
<1>1. "tool" \in Kinds /\ v.blocks \in Seq(Blocks)
  BY DEF Kinds, Typed, ViewType
<1> DEFINE r == Open(e, "tool", i)
           w == TakeAll(v, r.out)
<1>2. /\ Typed(r.enc, w) /\ FramedFit(r.enc, w)
      /\ r.enc.kind = "tool" /\ r.enc.openSrc = i /\ r.enc.usage0 = e.usage0
      /\ w.blocks = Append(v.blocks, [kind |-> "tool", frags |-> <<>>])
  BY <1>1, OpenFramed
<1>3. Content(w.blocks) = Adding(Content(v.blocks), Call)
  BY <1>1, <1>2, ContentNewBlock
<1>4. Len(w.blocks) = Len(v.blocks) + 1
  BY <1>1, <1>2, FreshBlock, AppendProperties
<1> HIDE DEF r, w
<1>. QED
  BY <1>2, <1>3, <1>4 DEF r, w

(* A tool call's arguments go on there.                                    *)
LEMMA ToolInputFramed ==
    ASSUME NEW e, NEW v, Typed(e, v), FramedFit(e, v), to # "openai_chat",
           NEW i \in -1..MaxBlocks, NEW f \in Nat, e.kind = "tool", e.openSrc = i
    PROVE  LET r == WithInput(e, i, f)
               w == TakeAll(v, r.out)
           IN  /\ Typed(r.enc, w) /\ FramedFit(r.enc, w)
               /\ r.enc.kind = "tool" /\ r.enc.openSrc = i /\ r.enc.usage0 = e.usage0
               /\ Content(w.blocks) = Extended(Content(v.blocks), "tool", f)
               /\ Len(w.blocks) = Len(v.blocks)
<1>1. e.open >= 0 /\ e.src[i] = e.open /\ v.blocks \in Seq(Blocks)
  BY DEF FramedFit, Typed, ViewType
<1> DEFINE b == Delta(e, e.open, e.kind, f)
           w == TakeAll(v, b.out)
           a == Encoded(e, <<>>)
<1>2. WithInput(e, i, f) = Both(a, b)
  BY <1>1 DEF WithInput, Then, Encoded
<1>3. /\ Listed(b.out) /\ Typed(b.enc, w) /\ FramedFit(b.enc, w)
      /\ b.enc.kind = e.kind /\ b.enc.openSrc = i /\ b.enc.usage0 = e.usage0
      /\ Len(v.blocks) > 0 /\ v.blocks[Len(v.blocks)].kind = e.kind
      /\ w.blocks = Grown(v.blocks, Len(v.blocks), f)
  BY <1>1, DeltaFramed
<1>4. a.out = <<>> /\ Listed(a.out) /\ TakeAll(v, a.out) = v
  BY Lists, TakeFold DEF Encoded
<1> HIDE DEF a, b, w
<1>5. Both(a, b).enc = b.enc /\ TakeAll(v, Both(a, b).out) = w
  <2>1. Both(a, b).enc = b.enc /\ TakeAll(v, Both(a, b).out) = TakeAll(TakeAll(v, a.out), b.out)
    BY <1>3, <1>4, BothTaken
  <2>. QED
    BY <1>4, <2>1 DEF w
<1>6. Content(w.blocks) = Extended(Content(v.blocks), "tool", f) /\ Len(w.blocks) = Len(v.blocks)
  BY <1>1, <1>3, ContentGrownBlock
<1>. QED
  BY <1>2, <1>3, <1>5, <1>6

(* A tool call stops there.                                                *)
LEMMA ToolStopFramed ==
    ASSUME NEW e, NEW v, Typed(e, v), FramedFit(e, v), to # "openai_chat",
           NEW i \in -1..MaxBlocks, e.src[i] >= 0
    PROVE  StopTool(e, i, e.src[i]) = CloseOpen(e)
<1>1. e.kind = "tool" /\ i = e.openSrc /\ e.src[i] = e.open /\ e.open >= 0
  BY DEF FramedFit
<1>. QED
  BY <1>1 DEF StopTool, CloseOpen, Closed, Encoded, FramedFit, Typed, EncoderType

-----------------------------------------------------------------------------
(***************************************************************************)
(* The Chat encoder, which numbers the tool calls.                         *)
(***************************************************************************)
(* The tool calls of a message can be counted.                             *)
LEMMA ToolBlocksFinite ==
    ASSUME NEW S, NEW b \in Seq(S)
    PROVE  /\ IsFiniteSet(ToolBlocks(b)) /\ ToolBlocks(b) \subseteq 1..Len(b)
           /\ \A k \in 1..Len(b) : k \in ToolBlocks(b) <=> b[k].kind = "tool"
           /\ Cardinality(ToolBlocks(b)) \in Nat /\ Cardinality(ToolBlocks(b)) <= Len(b)
           /\ \A k \in ToolBlocks(b) : Cardinality(ToolBlocks(b)) > 0
<1>1. Len(b) \in Nat /\ DOMAIN b = 1..Len(b)
  BY LenProperties
<1>2. ToolBlocks(b) \subseteq 1..Len(b) /\ \A k \in 1..Len(b) : k \in ToolBlocks(b) <=> b[k].kind = "tool"
  BY <1>1 DEF ToolBlocks
<1>3. IsFiniteSet(1..Len(b)) /\ Cardinality(1..Len(b)) = Len(b)
  <2>1. \A n \in Nat : Cardinality(1..n) = IF 1 > n THEN 0 ELSE n - 1 + 1
    BY FS_Interval
  <2>. QED
    BY <1>1, <2>1, FS_Interval
<1>4. IsFiniteSet(ToolBlocks(b)) /\ Cardinality(ToolBlocks(b)) <= Len(b)
  BY <1>2, <1>3, FS_Subset
<1>5. Cardinality(ToolBlocks(b)) \in Nat
  BY <1>4, FS_CardinalityType
<1>6. Cardinality(ToolBlocks(b)) = 0 <=> ToolBlocks(b) = {}
  BY <1>4, FS_EmptySet
<1>. QED
  BY <1>2, <1>4, <1>5, <1>6

(* A block more is a tool call more, or none.                              *)
LEMMA ToolBlocksAppended ==
    ASSUME NEW S, NEW b \in Seq(S), NEW x \in S
    PROVE  Cardinality(ToolBlocks(Append(b, x))) =
                Cardinality(ToolBlocks(b)) + IF x.kind = "tool" THEN 1 ELSE 0
<1> DEFINE n == Len(b)
           d == Append(b, x)
<1>1. n \in Nat /\ n + 1 \notin ToolBlocks(b) /\ IsFiniteSet(ToolBlocks(b)) /\ Cardinality(ToolBlocks(b)) \in Nat
  BY ToolBlocksFinite, LenProperties
<1>2. d \in Seq(S) /\ Len(d) = n + 1 /\ d[n + 1] = x /\ \A k \in 1..n : d[k] = b[k]
  BY AppendProperties
<1>3. /\ ToolBlocks(b) \subseteq 1..n /\ \A k \in 1..n : k \in ToolBlocks(b) <=> b[k].kind = "tool"
  BY ToolBlocksFinite
<1>4. /\ ToolBlocks(d) \subseteq 1..Len(d) /\ \A k \in 1..Len(d) : k \in ToolBlocks(d) <=> d[k].kind = "tool"
  <2> HIDE DEF d
  <2>. QED
    BY <1>2, ToolBlocksFinite
<1> HIDE DEF d, n
<1>5. \A k \in 1..n + 1 : k = n + 1 \/ k \in 1..n
  BY <1>1
<1>6. ToolBlocks(d) = IF x.kind = "tool" THEN ToolBlocks(b) \union {n + 1} ELSE ToolBlocks(b)
  <2>1. \A k \in 1..n : k \in 1..n + 1 /\ d[k] = b[k]
    BY <1>1, <1>2
  <2>2. \A k \in 1..n : k \in ToolBlocks(d) <=> k \in ToolBlocks(b)
    BY <1>2, <1>3, <1>4, <2>1
  <2>3. n + 1 \in ToolBlocks(d) <=> x.kind = "tool"
    BY <1>1, <1>2, <1>4
  <2>4. \A k \in ToolBlocks(d) : k = n + 1 \/ k \in 1..n
    BY <1>2, <1>4, <1>5
  <2>5. \A k \in ToolBlocks(b) : k \in 1..n
    BY <1>3
  <2> DEFINE t == ToolBlocks(b)
             u == ToolBlocks(d)
  <2>6. /\ \A k \in 1..n : k \in u <=> k \in t
        /\ \A k \in u : k = n + 1 \/ k \in 1..n
        /\ \A k \in t : k \in 1..n
        /\ n + 1 \in u <=> x.kind = "tool"
    BY <2>2, <2>3, <2>4, <2>5
  <2> HIDE DEF t, u
  <2>7. CASE x.kind = "tool"
    <3>1. \A k : k \in u <=> k \in t \union {n + 1}
      BY <2>6, <2>7
    <3>. QED
      BY <2>7, <3>1 DEF t, u
  <2>8. CASE x.kind # "tool"
    <3>1. \A k : k \in u <=> k \in t
      BY <2>6, <2>8
    <3>. QED
      BY <2>8, <3>1 DEF t, u
  <2>. QED
    BY <2>7, <2>8
<1>7. Cardinality(ToolBlocks(b) \union {n + 1}) = Cardinality(ToolBlocks(b)) + 1
  BY <1>1, FS_AddElement
<1>. QED
  BY <1>1, <1>6, <1>7 DEF d

(* A fragment more is no tool call more.                                   *)
LEMMA ToolBlocksSame ==
    ASSUME NEW S, NEW b \in Seq(S), NEW T, NEW d \in Seq(T), Len(d) = Len(b),
           \A k \in 1..Len(b) : d[k].kind = b[k].kind
    PROVE  ToolBlocks(d) = ToolBlocks(b)
<1>1. DOMAIN b = 1..Len(b) /\ DOMAIN d = 1..Len(b)
  BY LenProperties
<1>. QED
  BY <1>1 DEF ToolBlocks

(* The last tool call is the one with the last number.                     *)
LEMMA LastTool ==
    ASSUME NEW S, NEW b \in Seq(S), Len(b) > 0, b[Len(b)].kind = "tool"
    PROVE  {k \in ToolBlocks(b) : Cardinality({m \in ToolBlocks(b) : m < k}) = Cardinality(ToolBlocks(b)) - 1}
             = {Len(b)}
<1> DEFINE n == Len(b)
           t == ToolBlocks(b)
           Before(k) == {m \in t : m < k}
<1>1. n \in Nat /\ n \in 1..n
  BY LenProperties
<1>2. IsFiniteSet(t) /\ t \subseteq 1..n /\ n \in t /\ Cardinality(t) \in Nat
  BY <1>1, ToolBlocksFinite
<1> HIDE DEF n, t
<1>3. Before(n) = t \ {n}
  BY <1>1, <1>2
<1>4. IsFiniteSet(t \ {n}) /\ Cardinality(t \ {n}) = Cardinality(t) - 1
  BY <1>2, FS_RemoveElement
<1>5. ASSUME NEW k \in t, k # n PROVE Cardinality(Before(k)) # Cardinality(t) - 1
  <2>1. Before(k) \subseteq (t \ {n}) \ {k} /\ k \in t \ {n}
    BY <1>1, <1>2, <1>5
  <2>2. /\ IsFiniteSet((t \ {n}) \ {k})
        /\ Cardinality((t \ {n}) \ {k}) = Cardinality(t \ {n}) - 1
    BY <1>4, <2>1, FS_RemoveElement
  <2>3. /\ Cardinality(Before(k)) <= Cardinality((t \ {n}) \ {k})
        /\ IsFiniteSet(Before(k))
    BY <2>1, <2>2, FS_Subset
  <2>4. Cardinality(Before(k)) \in Nat
    BY <2>3, FS_CardinalityType
  <2> HIDE DEF Before
  <2>. QED
    BY <1>2, <1>4, <2>2, <2>3, <2>4
<1>6. Cardinality(Before(n)) = Cardinality(t) - 1
  BY <1>3, <1>4
<1> HIDE DEF Before
<1>7. {k \in t : Cardinality(Before(k)) = Cardinality(t) - 1} = {n}
  BY <1>2, <1>5, <1>6
<1>. QED
  BY <1>7 DEF Before, t, n

(* Text or reasoning, at a Chat client.                                    *)
LEMMA TextChat ==
    ASSUME NEW e, NEW v, Typed(e, v), ChatFit(e, v), to = "openai_chat",
           NEW kind \in Kinds, kind # "tool", NEW f \in Nat
    PROVE  LET w == TakeAll(v, <<Out("delta", 0, kind, f)>>)
           IN  /\ Typed(e, w) /\ ChatFit(e, w)
               /\ Content(w.blocks) = Extended(Content(v.blocks), kind, f)
<1> DEFINE frame == Out("delta", 0, kind, f)
           w == TakeAll(v, <<frame>>)
           new == [kind |-> kind, frags |-> <<>>]
           u == IF Len(v.blocks) > 0 /\ v.blocks[Len(v.blocks)].kind = kind THEN v ELSE AddBlock(v, kind)
           n == Len(u.blocks)
<1>1. v.blocks \in Seq(Blocks) /\ v.end = "none" /\ Len(v.blocks) \in Nat /\ ViewType(v)
  BY LenProperties DEF Typed, ViewType
<1>2. new \in Blocks /\ new.kind = kind
  BY FreshBlock
<1>3. /\ u.blocks \in Seq(Blocks) /\ n > 0 /\ u.blocks[n].kind = kind
      /\ Content(u.blocks) = Content(v.blocks)
      /\ Cardinality(ToolBlocks(u.blocks)) = Cardinality(ToolBlocks(v.blocks))
      /\ u.open = v.open /\ u.legal = v.legal /\ u.end = v.end /\ u.usage = v.usage
      /\ DOMAIN u = DOMAIN v
  <2>1. CASE Len(v.blocks) > 0 /\ v.blocks[Len(v.blocks)].kind = kind
    BY <1>1, <2>1
  <2>2. CASE ~(Len(v.blocks) > 0 /\ v.blocks[Len(v.blocks)].kind = kind)
    <3> DEFINE d == Append(v.blocks, new)
    <3>1. u = [v EXCEPT !.blocks = d]
      BY <2>2 DEF AddBlock
    <3>2. d \in Seq(Blocks) /\ Len(d) = Len(v.blocks) + 1 /\ d[Len(v.blocks) + 1] = new
      BY <1>1, <1>2, AppendProperties
    <3>3. Content(d) = Content(v.blocks)
      BY <1>1, ContentNewBlock
    <3>4. Cardinality(ToolBlocks(d)) = Cardinality(ToolBlocks(v.blocks)) + 0
      <4> HIDE DEF new
      <4>. QED
        BY <1>1, <1>2, ToolBlocksAppended
    <3>5. Cardinality(ToolBlocks(v.blocks)) \in Nat
      BY <1>1, ToolBlocksFinite
    <3> HIDE DEF d, u
    <3>6. /\ u.blocks = d /\ u.open = v.open /\ u.legal = v.legal /\ u.end = v.end
          /\ u.usage = v.usage /\ DOMAIN u = DOMAIN v
      BY <1>1, <3>1 DEF ViewType
    <3> HIDE DEF new
    <3>. QED
      BY <1>1, <1>2, <3>2, <3>3, <3>4, <3>5, <3>6
  <2>. QED
    BY <2>1, <2>2
<1>4. w = [u EXCEPT !.blocks = Grown(u.blocks, n, f)]
  <2>1. w = Take(v, frame)
    BY TakeFold
  <2>2. frame.type = "delta" /\ frame.kind = kind /\ frame.frag = f
    BY DEF Out
  <2>3. ~(frame.type = "start" /\ v.blocks # <<>>)
    BY <2>2
  <2> HIDE DEF frame, w
  <2>4. Take(v, frame) = TakeChat(v, frame)
    BY <1>1, <2>2 DEF Take
  <2>5. TakeChat(v, frame) = [u EXCEPT !.blocks = Grown(u.blocks, n, f)]
    BY <2>2 DEF TakeChat, Grown
  <2>. QED
    BY <2>1, <2>4, <2>5
<1> HIDE DEF u
<1>5. /\ Content(Grown(u.blocks, n, f)) = Extended(Content(u.blocks), kind, f)
  BY <1>3, ContentGrownBlock
<1>6. n \in 1..n
  BY <1>3, LenProperties
<1>7. /\ Grown(u.blocks, n, f) \in Seq(Blocks) /\ Len(Grown(u.blocks, n, f)) = n
      /\ \A k \in 1..n : Grown(u.blocks, n, f)[k].kind = u.blocks[k].kind
  BY <1>3, <1>6, GrownBlocks
<1> DEFINE d == Grown(u.blocks, n, f)
<1> HIDE DEF d
<1>8. ToolBlocks(d) = ToolBlocks(u.blocks)
  BY <1>3, <1>7, ToolBlocksSame DEF d
<1> HIDE DEF w, n
<1>9. w.blocks = d /\ w.open = v.open /\ w.legal = v.legal /\ w.end = v.end /\ w.usage = v.usage /\ DOMAIN w = DOMAIN v
  BY <1>1, <1>3, <1>4 DEF d, ViewType
<1>10. ViewType(w)
  BY <1>1, <1>7, <1>9 DEF ViewType, d
<1>. QED
  BY <1>3, <1>5, <1>8, <1>9, <1>10 DEF Typed, ChatFit, w, d

(* The tool call that IR index i goes to is the client's last one.         *)
ReadyChat(e, v, i) ==
    e.src[i] = e.next - 1 /\ Len(v.blocks) > 0 /\ v.blocks[Len(v.blocks)].kind = "tool"

(* A tool call starts there.                                               *)
LEMMA ToolStartChat ==
    ASSUME NEW e, NEW v, Typed(e, v), ChatFit(e, v), to = "openai_chat",
           NEW i \in -1..MaxBlocks
    PROVE  LET r == ChatTool(e, i)
               w == TakeAll(v, r.out)
           IN  /\ Typed(r.enc, w) /\ ChatFit(r.enc, w) /\ ReadyChat(r.enc, w, i)
               /\ r.enc.usage0 = e.usage0
               /\ Content(w.blocks) = Adding(Content(v.blocks), Call)
<1> DEFINE r == ChatTool(e, i)
           w == TakeAll(v, r.out)
           frame == Out("block_start", e.next, "tool", 0)
           new == [kind |-> "tool", frags |-> <<>>]
           d == Append(v.blocks, new)
<1>1. /\ v.blocks \in Seq(Blocks) /\ v.end = "none" /\ Len(v.blocks) \in Nat /\ ViewType(v) /\ v.legal
      /\ EncoderType(e) /\ e.next = Cardinality(ToolBlocks(v.blocks)) /\ v.open = -1 /\ e.open = -1
  BY LenProperties DEF Typed, ViewType, ChatFit
<1>2. new \in Blocks /\ new.kind = "tool"
  BY FreshBlock DEF Kinds
<1>3. r.enc = [e EXCEPT !.next = e.next + 1, !.src = [e.src EXCEPT ![i] = e.next]] /\ r.out = <<frame>>
  BY DEF ChatTool, Encoded
<1>4. w = [v EXCEPT !.blocks = d]
  <2>1. w = Take(v, frame)
    BY <1>3, TakeFold
  <2>2. frame.type = "block_start" /\ frame.index = e.next
    BY DEF Out
  <2> HIDE DEF frame, w
  <2>. QED
    BY <1>1, <2>1, <2>2 DEF Take, TakeChat, AddBlock
<1>5. d \in Seq(Blocks) /\ Len(d) = Len(v.blocks) + 1 /\ d[Len(v.blocks) + 1] = new
  BY <1>1, <1>2, AppendProperties
<1>6. Content(d) = Adding(Content(v.blocks), Call)
  BY <1>1, <1>2, ContentNewBlock DEF Kinds
<1> HIDE DEF new
<1>7. Cardinality(ToolBlocks(d)) = Cardinality(ToolBlocks(v.blocks)) + 1
  BY <1>1, <1>2, ToolBlocksAppended
<1> HIDE DEF d, w, r
<1>8. /\ DOMAIN r.enc = DOMAIN e /\ r.enc.next = e.next + 1 /\ r.enc.open = e.open /\ r.enc.kind = e.kind
      /\ r.enc.openSrc = e.openSrc /\ r.enc.src = [e.src EXCEPT ![i] = e.next]
      /\ r.enc.items = e.items /\ r.enc.output = e.output /\ r.enc.usage0 = e.usage0
  BY <1>1, <1>3 DEF EncoderType
<1>9. /\ w.blocks = d /\ w.open = v.open /\ w.legal = v.legal /\ w.end = v.end
      /\ w.usage = v.usage /\ DOMAIN w = DOMAIN v
  BY <1>1, <1>4 DEF ViewType
<1>10. EncoderType(r.enc) /\ r.enc.src[i] = e.next /\ e.next \in Nat
  <2> DEFINE src == [e.src EXCEPT ![i] = e.next]
  <2>1. e.src \in [-1..MaxBlocks -> Nat \union {-1}] /\ e.next \in Nat
    BY <1>1 DEF EncoderType
  <2>2. src \in [-1..MaxBlocks -> Nat \union {-1}] /\ src[i] = e.next
    BY <2>1
  <2>3. r.enc.src = src
    BY <1>8
  <2> HIDE DEF src
  <2>4. e.next + 1 \in Nat
    BY <2>1
  <2>. QED
    BY <1>1, <1>8, <2>1, <2>2, <2>3, <2>4 DEF EncoderType
<1>11. ViewType(w)
  BY <1>1, <1>5, <1>9 DEF ViewType
<1>12. ChatFit(r.enc, w)
  BY <1>1, <1>7, <1>8, <1>9 DEF ChatFit
<1>13. ReadyChat(r.enc, w, i)
  BY <1>1, <1>2, <1>5, <1>8, <1>9, <1>10 DEF ReadyChat
<1>. QED
  BY <1>1, <1>6, <1>8, <1>9, <1>10, <1>11, <1>12, <1>13 DEF Typed, r, w

(* The client finds the tool call a fragment is for by its number.         *)
ChatInput(e, i, f) ==
    Then(IF e.src[i] >= 0 THEN Encoded(e, <<>>) ELSE ChatTool(e, i),
         LAMBDA x : Encoded(x, <<Out("delta", x.src[i], "tool", f)>>))

(* A tool call's arguments go on there.                                    *)
LEMMA ToolInputChat ==
    ASSUME NEW e, NEW v, Typed(e, v), ChatFit(e, v), to = "openai_chat",
           NEW i \in -1..MaxBlocks, NEW f \in Nat, ReadyChat(e, v, i)
    PROVE  LET r == ChatInput(e, i, f)
               w == TakeAll(v, r.out)
           IN  /\ Typed(r.enc, w) /\ ChatFit(r.enc, w) /\ ReadyChat(r.enc, w, i)
               /\ r.enc.usage0 = e.usage0
               /\ Content(w.blocks) = Extended(Content(v.blocks), "tool", f)
<1> DEFINE n == Len(v.blocks)
           frame == Out("delta", e.next - 1, "tool", f)
           w == TakeAll(v, <<frame>>)
           d == Grown(v.blocks, n, f)
<1>1. /\ v.blocks \in Seq(Blocks) /\ v.end = "none" /\ n \in Nat /\ ViewType(v) /\ v.legal
      /\ EncoderType(e) /\ e.next = Cardinality(ToolBlocks(v.blocks)) /\ v.open = -1 /\ e.open = -1
      /\ n > 0 /\ v.blocks[n].kind = "tool" /\ e.src[i] = e.next - 1
  BY LenProperties DEF Typed, ViewType, ChatFit, ReadyChat
<1>2. n \in 1..n /\ n \in ToolBlocks(v.blocks) /\ e.next \in Nat /\ e.next > 0
  BY <1>1, ToolBlocksFinite
<1>3. ChatInput(e, i, f) = Encoded(e, <<>> \o <<frame>>)
  BY <1>1, <1>2 DEF ChatInput, Then, Both, Encoded
<1>4. <<>> \o <<frame>> = <<frame>>
  BY Lists
<1>5. w = [v EXCEPT !.blocks = d]
  <2>1. w = Take(v, frame)
    BY TakeFold
  <2>2. frame.type = "delta" /\ frame.kind = "tool" /\ frame.frag = f /\ frame.index = Cardinality(ToolBlocks(v.blocks)) - 1
    BY <1>1 DEF Out
  <2> HIDE DEF frame, w
  <2>3. Take(v, frame) = TakeChat(v, frame)
    BY <1>1, <2>2 DEF Take
  <2>4. {k \in ToolBlocks(v.blocks) : Cardinality({m \in ToolBlocks(v.blocks) : m < k}) = frame.index} = {n}
    BY <1>1, <2>2, LastTool
  <2>5. TakeChat(v, frame) = [v EXCEPT !.blocks[CHOOSE k \in {n} : TRUE].frags = Append(@, f)]
    BY <2>2, <2>4 DEF TakeChat
  <2>6. (CHOOSE k \in {n} : TRUE) = n
    OBVIOUS
  <2>. QED
    BY <2>1, <2>3, <2>5, <2>6 DEF Grown
<1>6. /\ d \in Seq(Blocks) /\ Len(d) = n /\ \A k \in 1..n : d[k].kind = v.blocks[k].kind
  BY <1>1, <1>2, GrownBlocks
<1>7. Content(d) = Extended(Content(v.blocks), "tool", f)
  BY <1>1, ContentGrownBlock
<1> HIDE DEF d, w, frame
<1>8. ToolBlocks(d) = ToolBlocks(v.blocks)
  BY <1>1, <1>6, ToolBlocksSame
<1> HIDE DEF n
<1>9. /\ w.blocks = d /\ w.open = v.open /\ w.legal = v.legal /\ w.end = v.end
      /\ w.usage = v.usage /\ DOMAIN w = DOMAIN v
  BY <1>1, <1>5 DEF ViewType
<1>10. ViewType(w)
  BY <1>1, <1>6, <1>9 DEF ViewType
<1>11. Typed(e, w) /\ ChatFit(e, w) /\ ReadyChat(e, w, i)
  BY <1>1, <1>2, <1>6, <1>8, <1>9, <1>10 DEF Typed, ChatFit, ReadyChat
<1>12. /\ Encoded(e, <<>> \o <<frame>>).enc = e /\ Encoded(e, <<>> \o <<frame>>).out = <<frame>>
  BY <1>4 DEF Encoded
<1>. QED
  BY <1>3, <1>7, <1>9, <1>11, <1>12 DEF w

-----------------------------------------------------------------------------
(***************************************************************************)
(* Any encoder, any event.                                                 *)
(***************************************************************************)
(* The client's tool block is the one that IR index i goes to.             *)
Ready(e, v, i) ==
    IF to = "openai_chat" THEN ReadyChat(e, v, i) ELSE e.kind = "tool" /\ e.openSrc = i

BodyKinds == {"text_delta", "thinking_delta", "thinking_done", "reasoning_done",
              "tool_use_start", "tool_input_delta", "tool_use_stop"}

(* The blocks an event starts at a client whose blocks are framed.         *)
Starts(kind, ev) ==
    CASE ev.kind = "text_delta"     -> IF kind = "text" THEN 0 ELSE 1
      [] ev.kind = "thinking_delta" -> IF kind = "thinking" THEN 0 ELSE 1
      [] ev.kind = "tool_use_start" -> 1
      [] OTHER                      -> 0

(* What FromIR makes of an event of the body, and the client of that.      *)
Encodes(e, v, ev) ==
    LET r == FromIR(to, e, ev)
        w == TakeAll(v, r.out)
    IN  /\ Sound(r.enc, w) /\ r.enc.usage0 = e.usage0
        /\ Content(w.blocks) = Effect(Content(v.blocks), ev)
        /\ ev.kind \in {"tool_use_start", "tool_input_delta"} => Ready(r.enc, w, ev.index)
        /\ to # "openai_chat" =>
              /\ Len(w.blocks) = Len(v.blocks) + Starts(e.kind, ev)
              /\ ev.kind = "text_delta" => r.enc.kind = "text"
              /\ ev.kind = "thinking_delta" => r.enc.kind = "thinking"
              /\ ev.kind = "thinking_done" /\ e.kind # "thinking" => r.enc.kind = e.kind

(* An event of the body, at a client whose blocks are framed.              *)
LEMMA BodyFramed ==
    ASSUME NEW e, NEW v, Sound(e, v), to \in Protocols, to # "openai_chat", NEW ev,
           ev.kind \in BodyKinds, ev.index \in -1..MaxBlocks, ev.frag \in Nat,
           ev.kind = "tool_input_delta" => Ready(e, v, ev.index)
    PROVE  Encodes(e, v, ev)
<1> DEFINE r == FromIR(to, e, ev)
           w == TakeAll(v, r.out)
<1>1. Typed(e, v) /\ FramedFit(e, v) /\ Len(v.blocks) \in Nat
  BY LenProperties DEF Sound, Fits, Typed, ViewType
<1>2. r = BlockFromIR(e, ev)
  BY DEF FromIR, AnthropicFromIR, ResponsesFromIR, BodyKinds, Protocols
<1>3. ASSUME r.enc = e, r.out = <<>>, ev.kind \in {"thinking_done", "reasoning_done", "tool_use_stop"}
      PROVE  Encodes(e, v, ev)
  <2>1. w = v
    BY <1>3, TakeFold
  <2>2. Effect(Content(v.blocks), ev) = Content(v.blocks) /\ Starts(e.kind, ev) = 0
    BY <1>3 DEF Effect, Starts
  <2>. QED
    BY <1>1, <1>3, <2>1, <2>2 DEF Encodes
<1>4. ASSUME r = CloseOpen(e), ev.kind \in {"thinking_done", "reasoning_done", "tool_use_stop"},
             ev.kind = "thinking_done" => e.kind = "thinking"
      PROVE  Encodes(e, v, ev)
  <2>1. Typed(r.enc, w) /\ FramedFit(r.enc, w) /\ r.enc.usage0 = e.usage0 /\ w.blocks = v.blocks
    BY <1>1, <1>4, CloseOpenFramed
  <2>2. Effect(Content(v.blocks), ev) = Content(v.blocks) /\ Starts(e.kind, ev) = 0
    BY <1>4 DEF Effect, Starts
  <2>. QED
    BY <1>1, <1>4, <2>1, <2>2 DEF Encodes, Sound, Fits
<1>5. ASSUME NEW kind \in {"text", "thinking"}, ev.kind = DeltaOf(kind) PROVE Encodes(e, v, ev)
  <2>1. kind \in Kinds /\ kind # "tool"
    BY DEF Kinds
  <2>2. r = WithText(e, kind, ev.frag)
    <3>1. CASE kind = "text"
      BY <1>2, <1>5, <3>1 DEF BlockFromIR, DeltaOf, WithText, Then
    <3>2. CASE kind = "thinking"
      BY <1>2, <1>5, <3>2 DEF BlockFromIR, DeltaOf, WithText, Then
    <3>. QED
      BY <3>1, <3>2
  <2>3. /\ Typed(r.enc, w) /\ FramedFit(r.enc, w)
        /\ r.enc.kind = kind /\ r.enc.usage0 = e.usage0
        /\ Content(w.blocks) = Extended(Content(v.blocks), kind, ev.frag)
        /\ Len(w.blocks) = IF e.kind = kind THEN Len(v.blocks) ELSE Len(v.blocks) + 1
    <3> DEFINE f == ev.frag
               q == WithText(e, kind, f)
               u == TakeAll(v, q.out)
    <3>1. /\ Typed(q.enc, u) /\ FramedFit(q.enc, u)
          /\ q.enc.kind = kind /\ q.enc.usage0 = e.usage0
          /\ Content(u.blocks) = Extended(Content(v.blocks), kind, f)
          /\ Len(u.blocks) = IF e.kind = kind THEN Len(v.blocks) ELSE Len(v.blocks) + 1
      <4>1. f \in Nat
        OBVIOUS
      <4> HIDE DEF f
      <4>. QED
        BY <1>1, <2>1, <4>1, TextFramed
    <3>2. r = q /\ w = u
      BY <2>2
    <3> HIDE DEF q, u, r, w
    <3>. QED
      BY <3>1, <3>2
  <2>4. Effect(Content(v.blocks), ev) = Extended(Content(v.blocks), kind, ev.frag)
    BY <1>5 DEF Effect, DeltaOf
  <2>5. Len(w.blocks) = Len(v.blocks) + Starts(e.kind, ev)
    <3>1. Starts(e.kind, ev) = IF e.kind = kind THEN 0 ELSE 1
      <4>1. CASE kind = "text"
        BY <1>5, <4>1 DEF Starts, DeltaOf
      <4>2. CASE kind = "thinking"
        BY <1>5, <4>2 DEF Starts, DeltaOf
      <4>. QED
        BY <4>1, <4>2
    <3> HIDE DEF w
    <3>2. CASE e.kind = kind
      BY <1>1, <2>3, <3>1, <3>2
    <3>3. CASE e.kind # kind
      BY <1>1, <2>3, <3>1, <3>3
    <3>. QED
      BY <3>2, <3>3
  <2>6. /\ ev.kind \notin {"tool_use_start", "tool_input_delta", "thinking_done"}
        /\ ev.kind = "text_delta" => kind = "text"
        /\ ev.kind = "thinking_delta" => kind = "thinking"
    BY <1>5 DEF DeltaOf
  <2> HIDE DEF r, w
  <2>. QED
    BY <2>3, <2>4, <2>5, <2>6 DEF Encodes, Sound, Fits, r, w
<1>6. CASE ev.kind = "tool_use_start"
  <2>1. r = Open(e, "tool", ev.index)
    BY <1>2, <1>6 DEF BlockFromIR
  <2>2. /\ Typed(r.enc, w) /\ FramedFit(r.enc, w)
        /\ r.enc.kind = "tool" /\ r.enc.openSrc = ev.index /\ r.enc.usage0 = e.usage0
        /\ Content(w.blocks) = Adding(Content(v.blocks), Call)
        /\ Len(w.blocks) = Len(v.blocks) + 1
    BY <1>1, <2>1, ToolStartFramed
  <2>3. Effect(Content(v.blocks), ev) = Adding(Content(v.blocks), Call) /\ Starts(e.kind, ev) = 1
    BY <1>6 DEF Effect, Starts
  <2> HIDE DEF r, w
  <2>. QED
    BY <1>6, <2>2, <2>3 DEF Encodes, Sound, Fits, Ready, r, w
<1>7. CASE ev.kind = "tool_input_delta"
  <2>1. r = WithInput(e, ev.index, ev.frag)
    BY <1>2, <1>7 DEF BlockFromIR, WithInput, Then
  <2>2. e.kind = "tool" /\ e.openSrc = ev.index
    BY <1>7 DEF Ready
  <2>3. /\ Typed(r.enc, w) /\ FramedFit(r.enc, w)
        /\ r.enc.kind = "tool" /\ r.enc.openSrc = ev.index /\ r.enc.usage0 = e.usage0
        /\ Content(w.blocks) = Extended(Content(v.blocks), "tool", ev.frag)
        /\ Len(w.blocks) = Len(v.blocks)
    BY <1>1, <2>1, <2>2, ToolInputFramed
  <2>4. Effect(Content(v.blocks), ev) = Extended(Content(v.blocks), "tool", ev.frag) /\ Starts(e.kind, ev) = 0
    BY <1>7 DEF Effect, Starts
  <2> HIDE DEF r, w
  <2>. QED
    BY <1>1, <1>7, <2>3, <2>4 DEF Encodes, Sound, Fits, Ready, r, w
<1>8. CASE ev.kind = "thinking_done"
  <2>1. r = IF e.kind = "thinking" THEN CloseOpen(e) ELSE Encoded(e, <<>>)
    BY <1>2, <1>8 DEF BlockFromIR
  <2>2. Encoded(e, <<>>).enc = e /\ Encoded(e, <<>>).out = <<>>
    BY DEF Encoded
  <2> HIDE DEF r
  <2>. QED
    BY <1>3, <1>4, <1>8, <2>1, <2>2
<1>9. CASE ev.kind = "reasoning_done"
  <2>1. r = Encoded(e, <<>>)
    BY <1>2, <1>9 DEF BlockFromIR
  <2>2. r.enc = e /\ r.out = <<>>
    BY <2>1 DEF Encoded
  <2> HIDE DEF r
  <2>. QED
    BY <1>3, <1>9, <2>2
<1>10. CASE ev.kind = "tool_use_stop"
  <2>1. r = IF e.src[ev.index] >= 0 THEN StopTool(e, ev.index, e.src[ev.index]) ELSE Encoded(e, <<>>)
    BY <1>2, <1>10 DEF BlockFromIR
  <2>2. r = IF e.src[ev.index] >= 0 THEN CloseOpen(e) ELSE Encoded(e, <<>>)
    BY <1>1, <2>1, ToolStopFramed
  <2>3. Encoded(e, <<>>).enc = e /\ Encoded(e, <<>>).out = <<>>
    BY DEF Encoded
  <2> HIDE DEF r
  <2>. QED
    BY <1>3, <1>4, <1>10, <2>2, <2>3
<1>11. CASE ev.kind \in {"text_delta", "thinking_delta"}
  BY <1>5, <1>11 DEF DeltaOf
<1>. QED
  BY <1>6, <1>7, <1>8, <1>9, <1>10, <1>11 DEF BodyKinds

(* An event of the body, at a Chat client.                                 *)
LEMMA BodyChat ==
    ASSUME NEW e, NEW v, Sound(e, v), to = "openai_chat", NEW ev,
           ev.kind \in BodyKinds, ev.index \in -1..MaxBlocks, ev.frag \in Nat,
           ev.kind = "tool_input_delta" => Ready(e, v, ev.index)
    PROVE  Encodes(e, v, ev)
<1> DEFINE r == FromIR(to, e, ev)
           w == TakeAll(v, r.out)
           f == ev.frag
           i == ev.index
<1>1. Typed(e, v) /\ ChatFit(e, v) /\ f \in Nat /\ i \in -1..MaxBlocks
  BY DEF Sound, Fits
<1>2. r = ChatFromIR(e, ev)
  BY DEF FromIR
<1>3. CASE ev.kind \in {"thinking_done", "reasoning_done", "tool_use_stop"}
  <2>1. r = Encoded(e, <<>>)
    BY <1>2, <1>3 DEF ChatFromIR
  <2>2. r.enc = e /\ r.out = <<>>
    BY <2>1 DEF Encoded
  <2>3. w = v
    BY <2>2, TakeFold
  <2>4. Effect(Content(v.blocks), ev) = Content(v.blocks)
    BY <1>3 DEF Effect
  <2> HIDE DEF r, w
  <2>. QED
    BY <1>1, <1>3, <2>2, <2>3, <2>4 DEF Encodes, r, w
<1>4. ASSUME NEW kind \in {"text", "thinking"}, ev.kind = DeltaOf(kind) PROVE Encodes(e, v, ev)
  <2>1. kind \in Kinds /\ kind # "tool"
    BY DEF Kinds
  <2>2. r = Encoded(e, <<Out("delta", 0, kind, f)>>)
    <3>1. CASE kind = "text"
      BY <1>2, <1>4, <3>1 DEF ChatFromIR, DeltaOf
    <3>2. CASE kind = "thinking"
      BY <1>2, <1>4, <3>2 DEF ChatFromIR, DeltaOf
    <3>. QED
      BY <3>1, <3>2
  <2>3. r.enc = e /\ r.out = <<Out("delta", 0, kind, f)>>
    BY <2>2 DEF Encoded
  <2>4. Effect(Content(v.blocks), ev) = Extended(Content(v.blocks), kind, f)
    BY <1>4 DEF Effect, DeltaOf
  <2>5. ev.kind \notin {"tool_use_start", "tool_input_delta"}
    BY <1>4 DEF DeltaOf
  <2> DEFINE u == TakeAll(v, <<Out("delta", 0, kind, f)>>)
  <2> HIDE DEF f, r, w
  <2>6. Typed(e, u) /\ ChatFit(e, u) /\ Content(u.blocks) = Extended(Content(v.blocks), kind, f)
    BY <1>1, <2>1, TextChat
  <2>7. w = u
    BY <2>3 DEF w
  <2> HIDE DEF u
  <2>. QED
    BY <2>3, <2>4, <2>5, <2>6, <2>7 DEF Encodes, Sound, Fits, r, w
<1>5. CASE ev.kind = "tool_use_start"
  <2>1. r = ChatTool(e, i)
    BY <1>2, <1>5 DEF ChatFromIR
  <2>2. Effect(Content(v.blocks), ev) = Adding(Content(v.blocks), Call)
    BY <1>5 DEF Effect
  <2> DEFINE q == ChatTool(e, i)
             u == TakeAll(v, q.out)
  <2> HIDE DEF i, r, w
  <2>3. /\ Typed(q.enc, u) /\ ChatFit(q.enc, u) /\ ReadyChat(q.enc, u, i)
        /\ q.enc.usage0 = e.usage0
        /\ Content(u.blocks) = Adding(Content(v.blocks), Call)
    BY <1>1, ToolStartChat
  <2>4. r = q /\ w = u
    BY <2>1 DEF w
  <2> HIDE DEF q, u
  <2>. QED
    BY <1>5, <2>2, <2>3, <2>4 DEF Encodes, Sound, Fits, Ready, r, w, i
<1>6. CASE ev.kind = "tool_input_delta"
  <2>1. r = ChatInput(e, i, f)
    BY <1>2, <1>6 DEF ChatFromIR, ChatInput, Then
  <2>2. Effect(Content(v.blocks), ev) = Extended(Content(v.blocks), "tool", f)
    BY <1>6 DEF Effect
  <2>3. ReadyChat(e, v, i)
    BY <1>6 DEF Ready
  <2> DEFINE q == ChatInput(e, i, f)
             u == TakeAll(v, q.out)
  <2> HIDE DEF i, f, r, w
  <2>4. /\ Typed(q.enc, u) /\ ChatFit(q.enc, u) /\ ReadyChat(q.enc, u, i)
        /\ q.enc.usage0 = e.usage0
        /\ Content(u.blocks) = Extended(Content(v.blocks), "tool", f)
    BY <1>1, <2>3, ToolInputChat
  <2>5. r = q /\ w = u
    BY <2>1 DEF w
  <2> HIDE DEF q, u
  <2>. QED
    BY <1>6, <2>2, <2>4, <2>5 DEF Encodes, Sound, Fits, Ready, r, w, i
<1>7. CASE ev.kind \in {"text_delta", "thinking_delta"}
  BY <1>4, <1>7 DEF DeltaOf
<1>. QED
  BY <1>3, <1>5, <1>6, <1>7 DEF BodyKinds

(* message_start comes first; message_stop and error end the message.      *)
LEMMA StartEncoded ==
    ASSUME NEW e, NEW v, Sound(e, v), to \in Protocols, v.blocks = <<>>, NEW ev,
           ev.kind = "message_start", ev.usage \in Usages
    PROVE  LET r == FromIR(to, e, ev)
               w == TakeAll(v, r.out)
           IN  Sound(r.enc, w) /\ w = v /\ r.enc.usage0 = (IF to = "anthropic" THEN ev.usage ELSE e.usage0)
               /\ r.enc.kind = e.kind
<1> DEFINE r == FromIR(to, e, ev)
           w == TakeAll(v, r.out)
           frame == Out("start", 0, "none", 0)
           u == IF to = "anthropic" THEN ev.usage ELSE e.usage0
<1>1. Typed(e, v) /\ EncoderType(e) /\ u \in Usages
  BY DEF Sound, Typed, EncoderType
<1>2. r.out = <<frame>> /\ r.enc = IF to = "anthropic" THEN [e EXCEPT !.usage0 = ev.usage] ELSE e
  BY DEF FromIR, AnthropicFromIR, ChatFromIR, ResponsesFromIR, Encoded, Protocols
<1>3. w = v
  <2>1. w = Take(v, frame)
    BY <1>2, TakeFold
  <2>2. frame.type = "start"
    BY DEF Out
  <2> HIDE DEF frame, w
  <2>3. v.end = "none"
    BY <1>1 DEF Typed
  <2>. QED
    BY <2>1, <2>2, <2>3 DEF Take
<1> HIDE DEF r, w
<1>4. /\ DOMAIN r.enc = DOMAIN e /\ r.enc.next = e.next /\ r.enc.open = e.open /\ r.enc.kind = e.kind
      /\ r.enc.openSrc = e.openSrc /\ r.enc.src = e.src
      /\ r.enc.items = e.items /\ r.enc.output = e.output /\ r.enc.usage0 = u
  BY <1>1, <1>2 DEF EncoderType
<1> HIDE DEF u
<1>5. EncoderType(r.enc)
  BY <1>1, <1>4 DEF EncoderType
<1>6. Fits(r.enc, v)
  BY <1>4 DEF Sound, Fits, FramedFit, ChatFit
<1>. QED
  BY <1>1, <1>3, <1>4, <1>5, <1>6 DEF Sound, Typed, r, w, u

(* message_stop and error, at any client.                                  *)
LEMMA EndEncoded ==
    ASSUME NEW e, NEW v, Sound(e, v), to \in Protocols, NEW ev,
           ev.kind \in {"message_stop", "error"}, ev.usage \in Usages
    PROVE  LET r == FromIR(to, e, ev)
               w == TakeAll(v, r.out)
           IN  /\ w.legal /\ w.end = (IF ev.kind = "error" THEN "error" ELSE "stop")
               /\ w.blocks = v.blocks /\ r.enc.open = -1
               /\ ev.kind = "message_stop" =>
                    w.usage = IF to = "anthropic" /\ ev.usage = "none" THEN e.usage0 ELSE ev.usage
<1> DEFINE r == FromIR(to, e, ev)
           w == TakeAll(v, r.out)
           end == IF ev.kind = "error" THEN "error" ELSE "stop"
           u == IF ev.kind = "error" THEN "none"
                ELSE IF to = "anthropic" /\ ev.usage = "none" THEN e.usage0 ELSE ev.usage
<1>1. Typed(e, v) /\ DOMAIN v = {"legal", "end", "blocks", "open", "usage"}
  BY DEF Sound, Typed, ViewType
<1>2. ASSUME NEW x, NEW out, x.legal, x.end = "none", x.open = -1,
             DOMAIN x = {"legal", "end", "blocks", "open", "usage"},
             to = "openai_responses" => out = x.blocks
      PROVE  LET y == Take(x, Final(end, u, out))
             IN  y.legal /\ y.end = end /\ y.blocks = x.blocks /\ y.usage = u
  <2> DEFINE frame == Final(end, u, out)
  <2>1. frame.type = end /\ frame.kind = u /\ frame.output = out /\ end \in {"stop", "error"}
    BY DEF Final
  <2> HIDE DEF frame, end, u
  <2>2. Take(x, frame) = [x EXCEPT !.end = end, !.usage = u,
                                   !.legal = x.legal /\ x.open = -1 /\
                                             (to = "openai_responses" => out = x.blocks)]
    BY <1>2, <2>1 DEF Take
  <2>. QED
    BY <1>2, <2>2 DEF frame
<1>3. CASE to = "openai_chat"
  <2>1. r = Encoded(e, <<Final(end, u, <<>>)>>)
    BY <1>3 DEF FromIR, ChatFromIR
  <2>2. r.enc = e /\ r.out = <<Final(end, u, <<>>)>>
    BY <2>1 DEF Encoded
  <2>3. w = Take(v, Final(end, u, <<>>))
    BY <2>2, TakeFold
  <2>4. v.legal /\ v.end = "none" /\ v.open = -1 /\ e.open = -1
    BY <1>3 DEF Sound, Fits, ChatFit, Typed
  <2> HIDE DEF r, w, u, end
  <2>5. w.legal /\ w.end = end /\ w.blocks = v.blocks /\ w.usage = u
    BY <1>1, <1>2, <1>3, <2>3, <2>4
  <2>. QED
    BY <2>2, <2>4, <2>5 DEF r, w, u, end
<1>4. CASE to # "openai_chat"
  <2> DEFINE a == CloseOpen(e)
             x == TakeAll(v, a.out)
             out == IF to = "openai_responses" THEN a.enc.output ELSE <<>>
             b == Encoded(a.enc, <<Final(end, u, out)>>)
  <2>1. /\ Listed(a.out) /\ Typed(a.enc, x) /\ FramedFit(a.enc, x)
        /\ a.enc.open = -1 /\ a.enc.usage0 = e.usage0 /\ x.blocks = v.blocks
    BY <1>1, <1>4, CloseOpenFramed DEF Sound, Fits
  <2>2. r = Both(a, b)
    <3>1. CASE to = "anthropic"
      BY <2>1, <3>1 DEF FromIR, AnthropicFromIR, Then
    <3>2. CASE to = "openai_responses"
      BY <3>2 DEF FromIR, ResponsesFromIR, Then
    <3>. QED
      BY <1>4, <3>1, <3>2 DEF Protocols
  <2>3. b.enc = a.enc /\ b.out = <<Final(end, u, out)>> /\ Listed(b.out)
    BY Lists DEF Encoded
  <2>4. a.enc.output = x.blocks /\ x.open = -1 /\ x.legal /\ x.end = "none"
        /\ DOMAIN x = {"legal", "end", "blocks", "open", "usage"}
    BY <2>1 DEF FramedFit, Typed, ViewType
  <2> HIDE DEF a, b, r, w, u, end
  <2>5. r.enc = a.enc /\ TakeAll(v, r.out) = TakeAll(x, b.out)
    BY <2>1, <2>2, <2>3, BothTaken
  <2>6. w = Take(x, Final(end, u, out))
    BY <2>3, <2>5, TakeFold DEF w
  <2> HIDE DEF x, out
  <2>7. to = "openai_responses" => out = x.blocks
    BY <2>4 DEF out
  <2>8. w.legal /\ w.end = end /\ w.blocks = x.blocks /\ w.usage = u
    BY <1>2, <2>4, <2>6, <2>7
  <2>. QED
    BY <2>1, <2>5, <2>8 DEF r, w, u, end
<1>. QED
  BY <1>3, <1>4

-----------------------------------------------------------------------------
(***************************************************************************)
(* Stream.Feed, event by event.                                            *)
(***************************************************************************)
(* The tool blocks open in the IR stream after an event.                   *)
IRAfter(n, ev) ==
    CASE ev.kind = "tool_use_start" -> n + 1
      [] ev.kind = "tool_use_stop"  -> n - 1
      [] OTHER                      -> n

(* What became of a (encoder, view, ended, ir) when it was fed an event of *)
(* the body.                                                               *)
Fed(a, b, ev) ==
    /\ Sound(b.enc, b.view) /\ b.ended = a.ended /\ b.ir = IRAfter(a.ir, ev)
    /\ b.enc.usage0 = a.enc.usage0
    /\ Content(b.view.blocks) = Effect(Content(a.view.blocks), ev)
    /\ ev.kind \in {"tool_use_start", "tool_input_delta"} => Ready(b.enc, b.view, ev.index)
    /\ to # "openai_chat" =>
          /\ Len(b.view.blocks) = Len(a.view.blocks) + Starts(a.enc.kind, ev)
          /\ ev.kind = "text_delta" => b.enc.kind = "text"
          /\ ev.kind = "thinking_delta" => b.enc.kind = "thinking"
          /\ ev.kind = "thinking_done" /\ a.enc.kind # "thinking" => b.enc.kind = a.enc.kind

(* An event of the body is fed.                                            *)
LEMMA FeedBody ==
    ASSUME NEW a, Sound(a.enc, a.view), a.ended \in BOOLEAN, to \in Protocols, NEW ev,
           ev.kind \in BodyKinds, ev.index \in -1..MaxBlocks, ev.frag \in Nat,
           ev.kind = "tool_input_delta" => Ready(a.enc, a.view, ev.index)
    PROVE  Fed(a, FeedAll(a, <<ev>>), ev)
<1> DEFINE b == FeedEvent(a, ev)
           r == FromIR(to, a.enc, ev)
<1>1. FeedAll(a, <<ev>>) = b
  BY FeedFold
<1>2. Encodes(a.enc, a.view, ev)
  BY BodyFramed, BodyChat
<1>3. /\ b.enc = r.enc /\ b.view = TakeAll(a.view, r.out)
      /\ b.ended = (a.ended \/ ev.kind \in {"message_stop", "error"}) /\ b.ir = IRAfter(a.ir, ev)
  BY DEF FeedEvent, IRAfter
<1>4. ev.kind \notin {"message_stop", "error"}
  BY DEF BodyKinds
<1> HIDE DEF b, r
<1>5. b.ended = a.ended
  BY <1>3, <1>4
<1>. QED
  BY <1>1, <1>2, <1>3, <1>5 DEF Encodes, Fed, r

(* message_start is fed.                                                   *)
Opening(a, b, ev) ==
    /\ Sound(b.enc, b.view) /\ b.ended = a.ended /\ b.ir = a.ir /\ b.view = a.view
    /\ b.enc.usage0 = IF to = "anthropic" THEN ev.usage ELSE a.enc.usage0

(* Feeding message_start to a client that has nothing yet.                 *)
LEMMA FeedStart ==
    ASSUME NEW a, Sound(a.enc, a.view), a.ended \in BOOLEAN, to \in Protocols, NEW ev,
           a.view.blocks = <<>>, ev.kind = "message_start", ev.usage \in Usages
    PROVE  Opening(a, FeedAll(a, <<ev>>), ev)
<1> DEFINE b == FeedEvent(a, ev)
           r == FromIR(to, a.enc, ev)
           w == TakeAll(a.view, r.out)
<1>1. FeedAll(a, <<ev>>) = b
  BY FeedFold
<1>2. Sound(r.enc, w) /\ w = a.view /\ r.enc.usage0 = IF to = "anthropic" THEN ev.usage ELSE a.enc.usage0
  BY StartEncoded
<1>3. /\ b.enc = r.enc /\ b.view = w
      /\ b.ended = (a.ended \/ ev.kind \in {"message_stop", "error"}) /\ b.ir = a.ir
  BY DEF FeedEvent
<1> HIDE DEF b, r, w
<1>4. b.ended = a.ended
  BY <1>3
<1>. QED
  BY <1>1, <1>2, <1>3, <1>4 DEF Opening

(* message_stop or error is fed.                                           *)
Terminated(a, b, ev) ==
    /\ b.view.legal /\ b.view.end = (IF ev.kind = "error" THEN "error" ELSE "stop")
    /\ b.ended = TRUE /\ b.ir = a.ir /\ b.enc.open = -1
    /\ b.view.blocks = a.view.blocks
    /\ ev.kind = "message_stop" =>
          b.view.usage = IF to = "anthropic" /\ ev.usage = "none" THEN a.enc.usage0 ELSE ev.usage

(* Feeding the last event.                                                 *)
LEMMA FeedEnd ==
    ASSUME NEW a, Sound(a.enc, a.view), to \in Protocols, NEW ev,
           ev.kind \in {"message_stop", "error"}, ev.usage \in Usages
    PROVE  Terminated(a, FeedAll(a, <<ev>>), ev)
<1> DEFINE b == FeedEvent(a, ev)
           r == FromIR(to, a.enc, ev)
           w == TakeAll(a.view, r.out)
<1>1. FeedAll(a, <<ev>>) = b
  BY FeedFold
<1>2. /\ w.legal /\ w.end = (IF ev.kind = "error" THEN "error" ELSE "stop")
      /\ w.blocks = a.view.blocks /\ r.enc.open = -1
      /\ ev.kind = "message_stop" =>
            w.usage = IF to = "anthropic" /\ ev.usage = "none" THEN a.enc.usage0 ELSE ev.usage
  BY EndEncoded
<1>3. /\ b.enc = r.enc /\ b.view = w
      /\ b.ended = (a.ended \/ ev.kind \in {"message_stop", "error"}) /\ b.ir = a.ir
  BY DEF FeedEvent
<1> HIDE DEF b, r, w
<1>4. b.ended = TRUE
  BY <1>3
<1>. QED
  BY <1>1, <1>2, <1>3, <1>4 DEF Terminated

(* The steps of chatStreamIn.                                              *)
DecoderType(d) ==
    /\ DOMAIN d = {"blocks", "started", "stopped", "curTool", "finish", "reasonOpen", "usage"}
    /\ d.blocks = [i \in 0..MaxBlocks - 1 |-> d.blocks[i]]
    /\ {d.started, d.stopped, d.finish, d.reasonOpen} \subseteq BOOLEAN
    /\ d.curTool \in -1..MaxBlocks - 1 /\ d.usage \in Usages

(* The fields of what a decoder returns.                                   *)
LEMMA Decodings ==
    /\ \A d, evs : Decoded(d, evs).dec = d /\ Decoded(d, evs).evs = evs /\ Decoded(d, evs).err = FALSE
    /\ \A d : Undecodable(d).dec = d /\ Undecodable(d).evs = <<>> /\ Undecodable(d).err = TRUE
BY DEF Decoded, Undecodable

(* Two steps of a decoder, one after the other.                            *)
Joined(x, y, a) ==
    /\ Join(x, y).dec = y.dec /\ Join(x, y).err = FALSE /\ Listed(Join(x, y).evs)
    /\ FeedAll(a, Join(x, y).evs) = FeedAll(FeedAll(a, x.evs), y.evs)

(* The client is fed what both steps emit.                                 *)
LEMMA JoinFed ==
    ASSUME NEW x, NEW y, NEW a, x.err = FALSE, y.err = FALSE, Listed(x.evs), Listed(y.evs)
    PROVE  Joined(x, y, a)
<1>1. Join(x, y) = Decoded(y.dec, x.evs \o y.evs)
  BY DEF Join
<1>2. Listed(x.evs \o y.evs)
  BY Lists
<1>. QED
  BY <1>1, <1>2, FeedFold, Decodings DEF Joined

(* Nothing more is said, and no block starts.                              *)
Quiet(a, b) ==
    /\ Sound(b.enc, b.view) /\ b.ended = a.ended /\ b.enc.usage0 = a.enc.usage0
    /\ Content(b.view.blocks) = Content(a.view.blocks)
    /\ to # "openai_chat" => Len(b.view.blocks) = Len(a.view.blocks)

(* An event that says nothing leaves the client's message as it was.       *)
LEMMA QuietFed ==
    ASSUME NEW a, NEW b, NEW ev, Fed(a, b, ev), Sound(a.enc, a.view),
           ev.kind \in {"thinking_done", "reasoning_done", "tool_use_stop"}
    PROVE  Quiet(a, b)
<1>1. Len(a.view.blocks) \in Nat
  BY LenProperties DEF Sound, Typed, ViewType
<1>2. Effect(Content(a.view.blocks), ev) = Content(a.view.blocks) /\ Starts(a.enc.kind, ev) = 0
  BY DEF Effect, Starts
<1>. QED
  BY <1>1, <1>2 DEF Fed, Quiet

(* Nothing fed is quiet.                                                   *)
LEMMA QuietItself ==
    ASSUME NEW a, Sound(a.enc, a.view)
    PROVE  Quiet(a, a)
BY DEF Quiet

(* Quiet twice is quiet.                                                   *)
LEMMA QuietTwice ==
    ASSUME NEW a, NEW b, NEW c, Quiet(a, b), Quiet(b, c)
    PROVE  Quiet(a, c)
BY DEF Quiet

(* closeCurrentTool says nothing, and closes the call under way.           *)
LEMMA CloseCurrentToolFed ==
    ASSUME NEW a, Sound(a.enc, a.view), a.ended \in BOOLEAN, to \in Protocols,
           NEW d, d.curTool \in -1..MaxBlocks - 1
    PROVE  LET r == CloseCurrentTool(d)
               b == FeedAll(a, r.evs)
           IN  /\ r.err = FALSE /\ Listed(r.evs) /\ Quiet(a, b)
               /\ b.ir = IF d.curTool < 0 THEN a.ir ELSE a.ir - 1
               /\ r.dec = IF d.curTool < 0 THEN d
                          ELSE [d EXCEPT !.curTool = -1, !.blocks[d.curTool] = "closed"]
<1>1. CASE d.curTool < 0
  <2>1. CloseCurrentTool(d) = Decoded(d, <<>>)
    BY <1>1 DEF CloseCurrentTool
  <2>2. FeedAll(a, <<>>) = a
    BY FeedFold
  <2>. QED
    BY <1>1, <2>1, <2>2, Decodings, QuietItself, Lists
<1>2. CASE ~(d.curTool < 0)
  <2> DEFINE ev == On("tool_use_stop", d.curTool + 1)
             d2 == [d EXCEPT !.curTool = -1, !.blocks[d.curTool] = "closed"]
             b == FeedAll(a, <<ev>>)
  <2>1. CloseCurrentTool(d) = Decoded(d2, <<ev>>)
    BY <1>2 DEF CloseCurrentTool
  <2>2. ev.kind = "tool_use_stop" /\ ev.index \in -1..MaxBlocks /\ ev.frag \in Nat
    BY CodecsAssumption DEF On, IR
  <2> HIDE DEF ev, d2
  <2>3. Fed(a, b, ev)
    BY <2>2, FeedBody DEF BodyKinds
  <2> HIDE DEF b
  <2>4. Quiet(a, b) /\ b.ir = a.ir - 1
    BY <2>2, <2>3, QuietFed DEF Fed, IRAfter
  <2>5. Listed(<<ev>>)
    BY Lists
  <2>6. CloseCurrentTool(d).dec = d2 /\ CloseCurrentTool(d).evs = <<ev>> /\ CloseCurrentTool(d).err = FALSE
    BY <2>1, Decodings
  <2>. QED
    BY <1>2, <2>4, <2>5, <2>6 DEF b, d2
<1>. QED
  BY <1>1, <1>2

(* closeReasoning says nothing.                                            *)
LEMMA CloseReasoningFed ==
    ASSUME NEW a, Sound(a.enc, a.view), a.ended \in BOOLEAN, to \in Protocols, NEW d
    PROVE  LET r == CloseReasoning(d)
               b == FeedAll(a, r.evs)
           IN  /\ r.err = FALSE /\ Listed(r.evs) /\ Quiet(a, b) /\ b.ir = a.ir
               /\ r.dec = [d EXCEPT !.reasonOpen = FALSE]
               /\ to # "openai_chat" /\ a.enc.kind # "thinking" => b.enc.kind = a.enc.kind
<1> DEFINE ev == On("thinking_done", -1)
           d2 == [d EXCEPT !.reasonOpen = FALSE]
           r == CloseReasoning(d)
<1>1. r.dec = d2 /\ r.err = FALSE /\ r.evs = IF d.reasonOpen THEN <<ev>> ELSE <<>>
  BY Decodings DEF CloseReasoning
<1> HIDE DEF d2
<1>2. CASE r.evs = <<>>
  <2>1. FeedAll(a, r.evs) = a
    BY <1>2, FeedFold
  <2>. QED
    BY <1>1, <1>2, <2>1, QuietItself, Lists DEF d2
<1>3. CASE r.evs = <<ev>>
  <2> DEFINE b == FeedAll(a, r.evs)
  <2>1. ev.kind = "thinking_done" /\ ev.index \in -1..MaxBlocks /\ ev.frag \in Nat
    BY CodecsAssumption DEF On, IR
  <2> HIDE DEF ev, r
  <2>2. Fed(a, b, ev)
    BY <1>3, <2>1, FeedBody DEF BodyKinds
  <2> HIDE DEF b
  <2>3. Quiet(a, b) /\ b.ir = a.ir
    BY <2>1, <2>2, QuietFed DEF Fed, IRAfter
  <2>4. Listed(r.evs)
    BY <1>3, Lists
  <2>5. to # "openai_chat" /\ a.enc.kind # "thinking" => b.enc.kind = a.enc.kind
    BY <2>1, <2>2 DEF Fed
  <2>. QED
    BY <1>1, <2>3, <2>4, <2>5 DEF b, d2, r
<1>. QED
  BY <1>1, <1>2, <1>3

-----------------------------------------------------------------------------
(***************************************************************************)
(* The end of a message: StopMessage and FinishIfNeeded.                   *)
(***************************************************************************)
(* The message has ended as it should; u is the usage message_stop had.    *)
Stopped(a, b, u) ==
    /\ b.view.legal /\ b.view.end = "stop" /\ b.ended = TRUE /\ b.enc.open = -1
    /\ Content(b.view.blocks) = Content(a.view.blocks)
    /\ b.view.usage = IF to = "anthropic" /\ u = "none" THEN a.enc.usage0 ELSE u

(* The message_stop event reaches the client, with its usage.              *)
LEMMA StopMessageFed ==
    ASSUME NEW a, Sound(a.enc, a.view), to \in Protocols, NEW d, d.usage \in Usages
    PROVE  LET r == StopMessage(d)
               b == FeedAll(a, r.evs)
           IN  r.dec = d /\ r.err = FALSE /\ Listed(r.evs) /\ Stopped(a, b, d.usage) /\ b.ir = a.ir
<1> DEFINE ev == IR("message_stop", 0, 0, d.usage)
           r == StopMessage(d)
           b == FeedAll(a, <<ev>>)
<1>1. r.dec = d /\ r.err = FALSE /\ r.evs = <<ev>>
  BY Decodings DEF StopMessage
<1>2. ev.kind = "message_stop" /\ ev.usage = d.usage
  BY DEF IR
<1> HIDE DEF ev, r
<1>3. /\ b.view.legal /\ b.view.end = "stop" /\ b.ended = TRUE /\ b.ir = a.ir /\ b.enc.open = -1
      /\ b.view.blocks = a.view.blocks
      /\ b.view.usage = IF to = "anthropic" /\ ev.usage = "none" THEN a.enc.usage0 ELSE ev.usage
  <2>1. ev.kind \in {"message_stop", "error"} /\ ev.usage \in Usages
    BY <1>2
  <2>2. Terminated(a, b, ev)
    BY <2>1, FeedEnd
  <2>. QED
    BY <1>2, <2>2 DEF Terminated
<1> HIDE DEF b
<1>4. Listed(<<ev>>)
  BY Lists
<1>. QED
  BY <1>1, <1>2, <1>3, <1>4 DEF Stopped, b, r

(* finishIfNeeded ends the message once.                                   *)
LEMMA FinishFed ==
    ASSUME NEW a, Sound(a.enc, a.view), a.ended = FALSE, to \in Protocols,
           NEW d, DecoderType(d), d.started, ~d.stopped
    PROVE  LET r == FinishIfNeeded(d)
               b == FeedAll(a, r.evs)
           IN  /\ r.err = FALSE /\ Listed(r.evs) /\ Stopped(a, b, d.usage)
               /\ b.ir = IF d.curTool < 0 THEN a.ir ELSE a.ir - 1
               /\ r.dec.curTool = -1
<1> DEFINE d1 == [d EXCEPT !.stopped = TRUE]
           x == CloseCurrentTool(d1)
           y == CloseReasoning(x.dec)
           xy == Join(x, y)
           z == StopMessage(xy.dec)
           a1 == FeedAll(a, x.evs)
           a2 == FeedAll(a1, y.evs)
           a3 == FeedAll(a2, z.evs)
<1>1. FinishIfNeeded(d) = Join(xy, z)
  BY DEF FinishIfNeeded, AndThen
<1>2. d1.curTool = d.curTool /\ d1.usage = d.usage /\ d1.blocks = d.blocks /\ DOMAIN d1 = DOMAIN d
      /\ d.curTool \in -1..MaxBlocks - 1 /\ d.usage \in Usages
      /\ {"curTool", "usage", "reasonOpen"} \subseteq DOMAIN d
  BY DEF DecoderType
<1> HIDE DEF d1
<1>3. /\ x.err = FALSE /\ Listed(x.evs) /\ Quiet(a, a1)
      /\ a1.ir = IF d1.curTool < 0 THEN a.ir ELSE a.ir - 1
      /\ x.dec = IF d1.curTool < 0 THEN d1
                 ELSE [d1 EXCEPT !.curTool = -1, !.blocks[d1.curTool] = "closed"]
  BY <1>2, CloseCurrentToolFed
<1>4. x.dec.curTool = -1 /\ x.dec.usage = d.usage /\ DOMAIN x.dec = DOMAIN d
  BY <1>2, <1>3
<1> HIDE DEF x, a1
<1>5. Sound(a1.enc, a1.view) /\ a1.ended = FALSE /\ a1.ended \in BOOLEAN
  BY <1>3 DEF Quiet
<1>6. /\ y.err = FALSE /\ Listed(y.evs) /\ Quiet(a1, a2) /\ a2.ir = a1.ir
      /\ y.dec = [x.dec EXCEPT !.reasonOpen = FALSE]
  BY <1>5, CloseReasoningFed
<1>7. y.dec.curTool = -1 /\ y.dec.usage = d.usage
  BY <1>2, <1>4, <1>6
<1> HIDE DEF y, a2
<1>8. /\ xy.dec = y.dec /\ xy.err = FALSE /\ Listed(xy.evs) /\ FeedAll(a, xy.evs) = a2
  <2>1. x.err = FALSE /\ Listed(x.evs) /\ y.err = FALSE /\ Listed(y.evs)
    BY <1>3, <1>6
  <2>2. /\ Join(x, y).dec = y.dec /\ Join(x, y).err = FALSE /\ Listed(Join(x, y).evs)
        /\ FeedAll(a, Join(x, y).evs) = FeedAll(FeedAll(a, x.evs), y.evs)
    BY <2>1, JoinFed DEF Joined
  <2>3. FeedAll(FeedAll(a, x.evs), y.evs) = a2
    BY DEF a1, a2
  <2>. QED
    BY <2>2, <2>3
<1>9. Sound(a2.enc, a2.view) /\ Quiet(a, a2)
  BY <1>3, <1>6, QuietTwice DEF Quiet
<1> HIDE DEF xy
<1>10. /\ z.dec = y.dec /\ z.err = FALSE /\ Listed(z.evs) /\ Stopped(a2, a3, d.usage) /\ a3.ir = a2.ir
  <2>1. xy.dec = y.dec /\ xy.dec.usage = d.usage /\ xy.dec.usage \in Usages
    BY <1>2, <1>7, <1>8
  <2>2. z.dec = xy.dec /\ z.err = FALSE /\ Listed(z.evs) /\ Stopped(a2, a3, xy.dec.usage) /\ a3.ir = a2.ir
    BY <1>9, <2>1, StopMessageFed
  <2>. QED
    BY <2>1, <2>2
<1> HIDE DEF z, a3
<1>11. /\ Join(xy, z).dec = z.dec /\ Join(xy, z).err = FALSE /\ Listed(Join(xy, z).evs)
       /\ FeedAll(a, Join(xy, z).evs) = a3
  <2>1. xy.err = FALSE /\ Listed(xy.evs) /\ z.err = FALSE /\ Listed(z.evs)
    BY <1>8, <1>10
  <2>2. /\ Join(xy, z).dec = z.dec /\ Join(xy, z).err = FALSE /\ Listed(Join(xy, z).evs)
        /\ FeedAll(a, Join(xy, z).evs) = FeedAll(FeedAll(a, xy.evs), z.evs)
    BY <2>1, JoinFed DEF Joined
  <2>3. FeedAll(FeedAll(a, xy.evs), z.evs) = a3
    BY <1>8 DEF a3
  <2>. QED
    BY <2>2, <2>3
<1>12. Stopped(a, a3, d.usage)
  BY <1>9, <1>10 DEF Stopped, Quiet
<1>. QED
  BY <1>1, <1>2, <1>3, <1>6, <1>7, <1>10, <1>11, <1>12

-----------------------------------------------------------------------------
(***************************************************************************)
(* The Chat decoder, chunk by chunk.                                       *)
(***************************************************************************)
(* What start does before anything else in a chunk.                        *)
Begun(d, e, s) ==
    /\ s.err = FALSE /\ s.evs = (IF d.started THEN <<>> ELSE <<Plain("message_start")>>)
    /\ DecoderType(s.dec) /\ s.dec.blocks = d.blocks /\ s.dec.started = TRUE
    /\ s.dec.stopped = d.stopped /\ s.dec.curTool = d.curTool
    /\ s.dec.finish = d.finish /\ s.dec.reasonOpen = d.reasonOpen
    /\ s.dec.usage = IF e.usage # "none" THEN e.usage ELSE d.usage

(* A chunk starts the message if none has before.                          *)
LEMMA ChatBegun ==
    ASSUME NEW d, DecoderType(d), NEW e, e.usage \in Usages
    PROVE  Begun(d, e, ChatStart(d, e))
<1> DEFINE s == ChatStart(d, e)
           u == IF e.usage # "none" THEN e.usage ELSE d.usage
<1>1. s.err = FALSE /\ s.evs = IF d.started THEN <<>> ELSE <<Plain("message_start")>>
  BY Decodings DEF ChatStart
<1>2. s.dec = [d EXCEPT !.started = TRUE, !.usage = u]
  BY Decodings DEF ChatStart
<1>3. u \in Usages
  BY DEF DecoderType
<1> HIDE DEF s, u
<1>4. /\ DOMAIN s.dec = DOMAIN d /\ s.dec.blocks = d.blocks /\ s.dec.started = TRUE
      /\ s.dec.stopped = d.stopped /\ s.dec.curTool = d.curTool
      /\ s.dec.finish = d.finish /\ s.dec.reasonOpen = d.reasonOpen /\ s.dec.usage = u
  BY <1>2 DEF DecoderType
<1>5. DecoderType(s.dec)
  BY <1>3, <1>4 DEF DecoderType
<1>. QED
  BY <1>1, <1>4, <1>5 DEF Begun, s, u

(* What follows the choice in a chunk.                                     *)
Closing(d, e) == IF d.finish /\ e.usage # "none" THEN FinishIfNeeded(d) ELSE Decoded(d, <<>>)

Feeding(x, d, a, b) == x.err = FALSE /\ x.dec = d /\ FeedAll(a, x.evs) = b

Idle(x, d) == x.err = FALSE /\ Listed(x.evs) /\ x.dec = d /\ \A a : FeedAll(a, x.evs) = a

(* A chunk is its choice, then what closes the message.                    *)
LEMMA ChatFed ==
    ASSUME NEW d, d.started = TRUE, DecoderType(d), NEW e,
           e.type \notin {"done", "error"}, e.usage \in Usages,
           NEW r, r = ChatChoice(ChatStart(d, e).dec, e), r.err = FALSE, Listed(r.evs),
           NEW l, l = Closing(r.dec, e), l.err = FALSE, Listed(l.evs), NEW a
    PROVE  Feeding(ChatToIR(d, e), l.dec, a, FeedAll(FeedAll(a, r.evs), l.evs))
<1> DEFINE s == ChatStart(d, e)
           sr == Join(s, r)
<1>1. s.err = FALSE /\ s.evs = <<>> /\ Listed(s.evs) /\ FeedAll(a, s.evs) = a
  <2>1. Begun(d, e, s)
    BY ChatBegun
  <2> HIDE DEF s
  <2>2. s.err = FALSE /\ s.evs = <<>>
    BY <2>1 DEF Begun
  <2>. QED
    BY <2>2, Lists, FeedFold
<1> HIDE DEF s
<1>2. Joined(s, r, a)
  BY <1>1, JoinFed
<1>3. /\ sr.dec = r.dec /\ sr.err = FALSE /\ Listed(sr.evs)
      /\ FeedAll(a, sr.evs) = FeedAll(a, r.evs)
  BY <1>1, <1>2 DEF Joined
<1>4. ChatToIR(d, e) = Join(sr, Closing(sr.dec, e))
  BY DEF ChatToIR, AndThen, Closing, s
<1> HIDE DEF sr
<1>5. ChatToIR(d, e) = Join(sr, l)
  BY <1>3, <1>4
<1>6. Joined(sr, l, a)
  BY <1>3, JoinFed
<1>. QED
  BY <1>3, <1>5, <1>6 DEF Joined, Feeding

(* A chunk without usage, or before the finish, closes nothing.            *)
LEMMA NoClosing ==
    ASSUME NEW d, NEW e, ~(d.finish /\ e.usage # "none")
    PROVE  Idle(Closing(d, e), d)
<1>1. Closing(d, e) = Decoded(d, <<>>)
  BY DEF Closing
<1>2. Closing(d, e).err = FALSE /\ Closing(d, e).dec = d /\ Closing(d, e).evs = <<>>
  BY <1>1, Decodings
<1>3. Listed(<<>>) /\ \A a : FeedAll(a, <<>>) = a
  BY Lists, FeedFold
<1>. QED
  BY <1>2, <1>3 DEF Idle

(* One fragment more of text or reasoning.                                 *)
TextSaid(a, b, kind, f) ==
    /\ Sound(b.enc, b.view) /\ b.ended = a.ended /\ b.ir = a.ir /\ b.enc.usage0 = a.enc.usage0
    /\ Content(b.view.blocks) = Extended(Content(a.view.blocks), kind, f)
    /\ to # "openai_chat" =>
          /\ b.enc.kind = kind
          /\ \/ Len(b.view.blocks) = Len(a.view.blocks)
             \/ a.enc.kind # kind /\ Len(b.view.blocks) = Len(a.view.blocks) + 1

(* The client is fed a fragment of text or reasoning.                      *)
LEMMA TextFed ==
    ASSUME NEW a, Sound(a.enc, a.view), a.ended \in BOOLEAN, to \in Protocols,
           NEW kind \in {"text", "thinking"},
           NEW ev, ev.kind = DeltaOf(kind), ev.index \in -1..MaxBlocks, ev.frag \in Nat
    PROVE  TextSaid(a, FeedAll(a, <<ev>>), kind, ev.frag)
<1> DEFINE b == FeedAll(a, <<ev>>)
<1>1. ev.kind \in BodyKinds /\ ev.kind \notin {"tool_input_delta", "tool_use_start", "tool_use_stop"}
  BY DEF DeltaOf, BodyKinds
<1>2. Fed(a, b, ev)
  BY <1>1, FeedBody
<1>3. Len(a.view.blocks) \in Nat
  BY LenProperties DEF Sound, Typed, ViewType
<1> HIDE DEF b
<1>4. CASE kind = "text"
  <2>1. ev.kind = "text_delta"
    BY <1>4 DEF DeltaOf
  <2>2. /\ Effect(Content(a.view.blocks), ev) = Extended(Content(a.view.blocks), "text", ev.frag)
        /\ IRAfter(a.ir, ev) = a.ir /\ Starts(a.enc.kind, ev) = IF a.enc.kind = "text" THEN 0 ELSE 1
    BY <2>1 DEF Effect, IRAfter, Starts
  <2>3. Len(b.view.blocks) = Len(a.view.blocks) + Starts(a.enc.kind, ev) =>
            \/ Len(b.view.blocks) = Len(a.view.blocks)
            \/ a.enc.kind # "text" /\ Len(b.view.blocks) = Len(a.view.blocks) + 1
    <3>1. CASE a.enc.kind = "text"
      <4>1. Starts(a.enc.kind, ev) = 0
        BY <2>2, <3>1
      <4>. QED
        BY <1>3, <4>1
    <3>2. CASE a.enc.kind # "text"
      BY <1>3, <2>2, <3>2
    <3>. QED
      BY <3>1, <3>2
  <2>. QED
    BY <1>2, <1>4, <2>1, <2>2, <2>3 DEF Fed, TextSaid, b
<1>5. CASE kind = "thinking"
  <2>1. ev.kind = "thinking_delta"
    BY <1>5 DEF DeltaOf
  <2>2. /\ Effect(Content(a.view.blocks), ev) = Extended(Content(a.view.blocks), "thinking", ev.frag)
        /\ IRAfter(a.ir, ev) = a.ir /\ Starts(a.enc.kind, ev) = IF a.enc.kind = "thinking" THEN 0 ELSE 1
    BY <2>1 DEF Effect, IRAfter, Starts
  <2>3. Len(b.view.blocks) = Len(a.view.blocks) + Starts(a.enc.kind, ev) =>
            \/ Len(b.view.blocks) = Len(a.view.blocks)
            \/ a.enc.kind # "thinking" /\ Len(b.view.blocks) = Len(a.view.blocks) + 1
    <3>1. CASE a.enc.kind = "thinking"
      <4>1. Starts(a.enc.kind, ev) = 0
        BY <2>2, <3>1
      <4>. QED
        BY <1>3, <4>1
    <3>2. CASE a.enc.kind # "thinking"
      BY <1>3, <2>2, <3>2
    <3>. QED
      BY <3>1, <3>2
  <2>. QED
    BY <1>2, <1>5, <2>1, <2>2, <2>3 DEF Fed, TextSaid, b
<1>. QED
  BY <1>4, <1>5

(* A choice with text or reasoning.                                        *)
ChoseText(d, r, a, kind, f) ==
    /\ r.err = FALSE /\ Listed(r.evs) /\ r.dec = [d EXCEPT !.reasonOpen = (kind = "thinking")]
    /\ TextSaid(a, FeedAll(a, r.evs), kind, f)

(* A choice with text or reasoning says it.                                *)
LEMMA ChoiceText ==
    ASSUME NEW a, Sound(a.enc, a.view), a.ended \in BOOLEAN, to \in Protocols, NEW d,
           NEW kind \in {"text", "thinking"}, NEW e, e.type = "chunk", e.kind = kind,
           e.frag \in Nat
    PROVE  ChoseText(d, ChatChoice(d, e), a, kind, e.frag)
<1>1. CASE kind = "thinking"
  <2> DEFINE ev == Piece("thinking_delta", -1, e.frag)
  <2>1. ChatChoice(d, e) = Decoded([d EXCEPT !.reasonOpen = TRUE], <<ev>>)
    BY <1>1 DEF ChatChoice
  <2>2. ev.kind = DeltaOf(kind) /\ ev.index \in -1..MaxBlocks /\ ev.frag = e.frag
    BY <1>1, CodecsAssumption DEF Piece, IR, DeltaOf
  <2> HIDE DEF ev
  <2>3. TextSaid(a, FeedAll(a, <<ev>>), kind, ev.frag)
    BY <2>2, TextFed
  <2> DEFINE r == ChatChoice(d, e)
  <2>4. r.dec = [d EXCEPT !.reasonOpen = TRUE] /\ r.evs = <<ev>> /\ r.err = FALSE /\ Listed(<<ev>>)
    BY <2>1, Decodings, Lists
  <2>5. (kind = "thinking") = TRUE
    BY <1>1
  <2> HIDE DEF r
  <2>. QED
    BY <2>2, <2>3, <2>4, <2>5 DEF r, ChoseText
<1>2. CASE kind = "text"
  <2> DEFINE ev == Piece("text_delta", 0, e.frag)
             x == CloseReasoning(d)
             y == Decoded(x.dec, <<ev>>)
             a1 == FeedAll(a, x.evs)
             b == FeedAll(a1, <<ev>>)
  <2>1. ChatChoice(d, e) = Join(x, y)
    BY <1>2 DEF ChatChoice, AndThen
  <2>2. ev.kind = DeltaOf(kind) /\ ev.index \in -1..MaxBlocks /\ ev.frag = e.frag /\ ev.frag \in Nat
    BY <1>2, CodecsAssumption DEF Piece, IR, DeltaOf
  <2> HIDE DEF ev
  <2>3. /\ x.err = FALSE /\ Listed(x.evs) /\ Quiet(a, a1) /\ a1.ir = a.ir
        /\ x.dec = [d EXCEPT !.reasonOpen = FALSE]
        /\ to # "openai_chat" /\ a.enc.kind # "thinking" => a1.enc.kind = a.enc.kind
    BY CloseReasoningFed
  <2> HIDE DEF x, a1
  <2>4. y.dec = x.dec /\ y.evs = <<ev>> /\ y.err = FALSE /\ Listed(y.evs)
    BY Decodings, Lists
  <2>5. Sound(a1.enc, a1.view) /\ a1.ended \in BOOLEAN
    BY <2>3 DEF Quiet
  <2>6. TextSaid(a1, b, kind, ev.frag)
    BY <2>2, <2>5, TextFed
  <2> HIDE DEF y, b
  <2>7. TextSaid(a, b, kind, ev.frag)
    BY <1>2, <2>3, <2>6 DEF TextSaid, Quiet
  <2>8. Joined(x, y, a)
    BY <2>3, <2>4, JoinFed
  <2>9. FeedAll(FeedAll(a, x.evs), y.evs) = b
    BY <2>4 DEF a1, b
  <2>10. (kind = "thinking") = FALSE
    BY <1>2
  <2>. QED
    BY <2>1, <2>2, <2>3, <2>4, <2>7, <2>8, <2>9, <2>10 DEF Joined, ChoseText
<1>. QED
  BY <1>1, <1>2

(* A tool call that starts, or goes on, with a fragment of its arguments.  *)
CallBegun(a, b, i, f) ==
    /\ Sound(b.enc, b.view) /\ b.ended = a.ended /\ b.enc.usage0 = a.enc.usage0
    /\ Content(b.view.blocks) = Extended(Adding(Content(a.view.blocks), Call), "tool", f)
    /\ Ready(b.enc, b.view, i)
    /\ to # "openai_chat" => Len(b.view.blocks) = Len(a.view.blocks) + 1

CallContinued(a, b, i, f) ==
    /\ Sound(b.enc, b.view) /\ b.ended = a.ended /\ b.enc.usage0 = a.enc.usage0 /\ b.ir = a.ir
    /\ Content(b.view.blocks) = Extended(Content(a.view.blocks), "tool", f)
    /\ Ready(b.enc, b.view, i)
    /\ to # "openai_chat" => Len(b.view.blocks) = Len(a.view.blocks)

(* The client is fed a fragment of a tool call's arguments.                *)
LEMMA InputFed ==
    ASSUME NEW a, Sound(a.enc, a.view), a.ended \in BOOLEAN, to \in Protocols,
           NEW ev, ev.kind = "tool_input_delta", ev.index \in -1..MaxBlocks,
           ev.frag \in Nat,
           Ready(a.enc, a.view, ev.index)
    PROVE  CallContinued(a, FeedAll(a, <<ev>>), ev.index, ev.frag)
<1> DEFINE b == FeedAll(a, <<ev>>)
<1>1. Fed(a, b, ev)
  BY FeedBody DEF BodyKinds
<1>2. /\ Effect(Content(a.view.blocks), ev) = Extended(Content(a.view.blocks), "tool", ev.frag)
      /\ IRAfter(a.ir, ev) = a.ir /\ Starts(a.enc.kind, ev) = 0
  BY DEF Effect, IRAfter, Starts
<1>3. Len(a.view.blocks) + 0 = Len(a.view.blocks)
  BY LenProperties DEF Sound, Typed, ViewType
<1> HIDE DEF b
<1>. QED
  BY <1>1, <1>2, <1>3 DEF Fed, CallContinued, b

(* A tool call starts at the client.                                       *)
CallStarted(a, b, i) ==
    /\ Sound(b.enc, b.view) /\ b.ended = a.ended /\ b.enc.usage0 = a.enc.usage0 /\ b.ir = a.ir + 1
    /\ Content(b.view.blocks) = Adding(Content(a.view.blocks), Call)
    /\ Ready(b.enc, b.view, i)
    /\ to # "openai_chat" => Len(b.view.blocks) = Len(a.view.blocks) + 1

(* The client is fed the start of a tool call.                             *)
LEMMA StartFed ==
    ASSUME NEW a, Sound(a.enc, a.view), a.ended \in BOOLEAN, to \in Protocols,
           NEW ev, ev.kind = "tool_use_start", ev.index \in -1..MaxBlocks, ev.frag \in Nat
    PROVE  CallStarted(a, FeedAll(a, <<ev>>), ev.index)
<1> DEFINE b == FeedAll(a, <<ev>>)
<1>1. Fed(a, b, ev)
  BY FeedBody DEF BodyKinds
<1>2. /\ Effect(Content(a.view.blocks), ev) = Adding(Content(a.view.blocks), Call)
      /\ IRAfter(a.ir, ev) = a.ir + 1 /\ Starts(a.enc.kind, ev) = 1
  BY DEF Effect, IRAfter, Starts
<1> HIDE DEF b
<1>. QED
  BY <1>1, <1>2 DEF Fed, CallStarted, b

(* A choice that continues a tool call says so.                            *)
LEMMA ChoiceMoreTool ==
    ASSUME NEW a, Sound(a.enc, a.view), a.ended \in BOOLEAN, to \in Protocols,
           NEW d, NEW e, e.type = "chunk", e.kind = "tool", e.frag \in Nat \ {0},
           e.index \in 0..MaxBlocks - 1, d.blocks[e.index] = "tool", Ready(a.enc, a.view, e.index + 1)
    PROVE  LET r == ChatChoice(d, e)
           IN  /\ r.err = FALSE /\ Listed(r.evs) /\ r.dec = d
               /\ CallContinued(a, FeedAll(a, r.evs), e.index + 1, e.frag)
<1> DEFINE ev == Piece("tool_input_delta", e.index + 1, e.frag)
           r == ChatChoice(d, e)
<1>1. r = Decoded(d, <<ev>>)
  BY DEF ChatChoice, ToolFragment, ToolInput
<1>2. ev.kind = "tool_input_delta" /\ ev.index = e.index + 1 /\ ev.index \in -1..MaxBlocks /\ ev.frag = e.frag
      /\ ev.frag \in Nat
  BY CodecsAssumption DEF Piece, IR
<1> HIDE DEF ev, r
<1>3. CallContinued(a, FeedAll(a, <<ev>>), ev.index, ev.frag)
  BY <1>2, InputFed
<1>4. r.dec = d /\ r.evs = <<ev>> /\ r.err = FALSE /\ Listed(<<ev>>)
  BY <1>1, Decodings, Lists
<1>. QED
  BY <1>2, <1>3, <1>4 DEF r

(* The tool call under way, if any, is closed.                             *)
Shut(d) == IF d.curTool < 0 THEN d.blocks ELSE [d.blocks EXCEPT ![d.curTool] = "closed"]

ChatCallBegun(d, x, a, b, i, f) ==
    /\ x.err = FALSE /\ DecoderType(x.dec) /\ x.dec.blocks = [Shut(d) EXCEPT ![i] = "tool"]
    /\ x.dec.curTool = i /\ x.dec.started = d.started /\ x.dec.stopped = d.stopped
    /\ x.dec.finish = d.finish /\ x.dec.usage = d.usage
    /\ CallBegun(a, b, i + 1, f)
    /\ b.ir = IF d.curTool < 0 THEN a.ir + 1 ELSE a.ir

ChoseNewTool(d, r, a, i, f) ==
    Listed(r.evs) /\ ChatCallBegun(d, r, a, FeedAll(a, r.evs), i, f)

(* A choice with a new tool call ends the one before and says the new one. *)
LEMMA ChoiceNewTool ==
    ASSUME NEW a, Sound(a.enc, a.view), a.ended = FALSE, to \in Protocols, a.ir \in Int,
           NEW d, DecoderType(d), NEW e, e.type = "chunk", e.kind = "tool",
           e.frag \in Nat \ {0},
           e.index \in 0..MaxBlocks - 1, d.blocks[e.index] = "none"
    PROVE  ChoseNewTool(d, ChatChoice(d, e), a, e.index, e.frag)
<1> DEFINE shut == IF d.curTool < 0 THEN d.blocks ELSE [d.blocks EXCEPT ![d.curTool] = "closed"]
           t == On("tool_use_start", e.index + 1)
           p == Piece("tool_input_delta", e.index + 1, e.frag)
           x == CloseCurrentTool(d)
           y == CloseReasoning(x.dec)
           xy == Join(x, y)
           z == OpenTool(xy.dec, e.index)
           xyz == Join(xy, z)
           w == ToolInput(xyz.dec, e)
           a1 == FeedAll(a, x.evs)
           a2 == FeedAll(a1, y.evs)
           a3 == FeedAll(a2, <<t>>)
           a4 == FeedAll(a3, <<p>>)
<1>1. ChatChoice(d, e) = Join(xyz, w)
  BY DEF ChatChoice, ToolFragment, StartTool, AndThen
<1>2. /\ d.curTool \in -1..MaxBlocks - 1 /\ d.usage \in Usages
      /\ DOMAIN d = {"blocks", "started", "stopped", "curTool", "finish", "reasonOpen", "usage"}
  BY DEF DecoderType
<1>3. /\ x.err = FALSE /\ Listed(x.evs) /\ Quiet(a, a1)
      /\ a1.ir = IF d.curTool < 0 THEN a.ir ELSE a.ir - 1
      /\ x.dec = IF d.curTool < 0 THEN d
                 ELSE [d EXCEPT !.curTool = -1, !.blocks[d.curTool] = "closed"]
  BY <1>2, CloseCurrentToolFed
<1> HIDE DEF x, a1
<1>4. /\ DOMAIN x.dec = DOMAIN d /\ x.dec.blocks = shut /\ x.dec.started = d.started /\ x.dec.stopped = d.stopped
      /\ x.dec.finish = d.finish /\ x.dec.usage = d.usage
  BY <1>2, <1>3
<1> HIDE DEF shut
<1>5. Sound(a1.enc, a1.view) /\ a1.ended \in BOOLEAN
  BY <1>3 DEF Quiet
<1>6. /\ y.err = FALSE /\ Listed(y.evs) /\ Quiet(a1, a2) /\ a2.ir = a1.ir
      /\ y.dec = [x.dec EXCEPT !.reasonOpen = FALSE]
  BY <1>5, CloseReasoningFed
<1> HIDE DEF y, a2
<1>7. /\ DOMAIN y.dec = DOMAIN d /\ y.dec.blocks = shut /\ y.dec.started = d.started /\ y.dec.stopped = d.stopped
      /\ y.dec.finish = d.finish /\ y.dec.usage = d.usage /\ y.dec.reasonOpen = FALSE
  BY <1>2, <1>4, <1>6
<1>8. Joined(x, y, a)
  BY <1>3, <1>6, JoinFed
<1>9. /\ xy.dec = y.dec /\ xy.err = FALSE /\ Listed(xy.evs) /\ FeedAll(a, xy.evs) = a2
  BY <1>8 DEF Joined, a1, a2
<1> HIDE DEF xy
<1>10. Sound(a2.enc, a2.view) /\ a2.ended \in BOOLEAN /\ Quiet(a, a2)
  BY <1>3, <1>6, QuietTwice DEF Quiet
<1>11. z.err = FALSE /\ z.evs = <<t>> /\ Listed(z.evs)
       /\ z.dec = [y.dec EXCEPT !.blocks = [shut EXCEPT ![e.index] = "tool"], !.curTool = e.index]
  <2> DEFINE opened == [xy.dec EXCEPT !.blocks[e.index] = "tool", !.curTool = e.index]
  <2>1. z = Decoded(opened, <<t>>)
    BY DEF OpenTool
  <2> HIDE DEF z, t
  <2>2. z.err = FALSE /\ z.evs = <<t>> /\ Listed(<<t>>) /\ z.dec = opened
    BY <2>1, Decodings, Lists
  <2>3. opened = [y.dec EXCEPT !.blocks = [shut EXCEPT ![e.index] = "tool"], !.curTool = e.index]
    BY <1>2, <1>7, <1>9
  <2>. QED
    BY <2>2, <2>3
<1>12. /\ t.kind = "tool_use_start" /\ t.index = e.index + 1 /\ t.index \in -1..MaxBlocks /\ t.frag \in Nat
       /\ p.kind = "tool_input_delta" /\ p.index = e.index + 1 /\ p.index \in -1..MaxBlocks /\ p.frag = e.frag
       /\ p.frag \in Nat
  BY CodecsAssumption DEF Piece, On, IR
<1> HIDE DEF t, z
<1>13. CallStarted(a2, a3, t.index)
  BY <1>10, <1>12, StartFed
<1>14. Joined(xy, z, a)
  BY <1>9, <1>11, JoinFed
<1>15. xyz.dec = z.dec /\ xyz.err = FALSE /\ Listed(xyz.evs) /\ FeedAll(a, xyz.evs) = a3
  BY <1>9, <1>11, <1>14 DEF Joined, a3
<1> HIDE DEF xyz, a3
<1>16. w.err = FALSE /\ w.evs = <<p>> /\ Listed(w.evs) /\ w.dec = z.dec
  BY <1>15, Decodings, Lists DEF ToolInput
<1> HIDE DEF w, p
<1>17. Sound(a3.enc, a3.view) /\ a3.ended \in BOOLEAN /\ Ready(a3.enc, a3.view, p.index)
  BY <1>10, <1>12, <1>13 DEF CallStarted
<1>18. CallContinued(a3, a4, p.index, p.frag)
  BY <1>12, <1>17, InputFed
<1> HIDE DEF a4
<1>19. Joined(xyz, w, a)
  BY <1>15, <1>16, JoinFed
<1>20. /\ Join(xyz, w).dec = z.dec /\ Join(xyz, w).err = FALSE /\ Listed(Join(xyz, w).evs)
       /\ FeedAll(a, Join(xyz, w).evs) = a4
  BY <1>15, <1>16, <1>19 DEF Joined, a4
<1>21. /\ DOMAIN z.dec = DOMAIN d /\ z.dec.blocks = [shut EXCEPT ![e.index] = "tool"]
       /\ z.dec.started = d.started /\ z.dec.stopped = d.stopped /\ z.dec.curTool = e.index
       /\ z.dec.finish = d.finish /\ z.dec.usage = d.usage /\ z.dec.reasonOpen = FALSE
  BY <1>2, <1>7, <1>11
<1>22. DecoderType(z.dec)
  <2>1. d.blocks = [i \in 0..MaxBlocks - 1 |-> d.blocks[i]]
    BY DEF DecoderType
  <2>2. shut = [i \in 0..MaxBlocks - 1 |-> shut[i]]
    BY <2>1 DEF shut
  <2> DEFINE blocks == [shut EXCEPT ![e.index] = "tool"]
  <2>3. blocks = [i \in 0..MaxBlocks - 1 |-> blocks[i]]
    BY <2>2
  <2> HIDE DEF blocks
  <2>4. z.dec.blocks = blocks
    BY <1>21 DEF blocks
  <2>5. /\ {z.dec.started, z.dec.stopped, z.dec.finish, z.dec.reasonOpen} \subseteq BOOLEAN
        /\ z.dec.usage \in Usages
    BY <1>21 DEF DecoderType
  <2>6. e.index \in -1..MaxBlocks - 1
    BY CodecsAssumption
  <2>. QED
    BY <1>2, <1>21, <2>3, <2>4, <2>5, <2>6 DEF DecoderType
<1>23. CallBegun(a, a4, e.index + 1, e.frag)
  BY <1>10, <1>12, <1>13, <1>18 DEF CallBegun, CallContinued, CallStarted, Quiet
<1>24. a4.ir = IF d.curTool < 0 THEN a.ir + 1 ELSE a.ir
  <2>1. a4.ir = a1.ir + 1
    BY <1>6, <1>13, <1>18 DEF CallContinued, CallStarted
  <2>2. a.ir - 1 + 1 = a.ir
    OBVIOUS
  <2>. QED
    BY <1>3, <2>1, <2>2
<1>. QED
  BY <1>1, <1>20, <1>21, <1>22, <1>23, <1>24 DEF shut, Shut, ChatCallBegun, ChoseNewTool

(* The first chunk, with the role.                                         *)
ChatOpened(d, e, x, a, b) ==
    /\ x.err = FALSE /\ Begun(d, e, ChatStart(d, e)) /\ x.dec = ChatStart(d, e).dec
    /\ Opening(a, b, Plain("message_start"))

(* The first chunk opens the message at the client.                        *)
LEMMA ChatFirst ==
    ASSUME NEW a, Sound(a.enc, a.view), a.ended \in BOOLEAN, to \in Protocols,
           a.view.blocks = <<>>,
           NEW d, DecoderType(d), d.started = FALSE, d.finish = FALSE,
           NEW e, e.type = "chunk", e.kind = "none", e.usage = "none"
    PROVE  ChatOpened(d, e, ChatToIR(d, e), a, FeedAll(a, ChatToIR(d, e).evs))
<1> DEFINE s == ChatStart(d, e)
           t == Plain("message_start")
           m == Decoded(s.dec, <<>>)
           sm == Join(s, m)
           l == Closing(sm.dec, e)
           b == FeedAll(a, <<t>>)
<1>1. Begun(d, e, s)
  BY ChatBegun DEF Usages
<1>2. ChatChoice(s.dec, e) = m
  BY DEF ChatChoice
<1>3. ChatToIR(d, e) = Join(sm, l)
  BY <1>2 DEF ChatToIR, AndThen, Closing
<1>4. t.kind = "message_start" /\ t.usage = "none"
  BY DEF Plain, IR
<1> HIDE DEF s, t
<1>5. s.err = FALSE /\ s.evs = <<t>> /\ Listed(s.evs) /\ s.dec.finish = FALSE
  BY <1>1, Lists DEF Begun, t
<1>6. m.err = FALSE /\ m.dec = s.dec /\ m.evs = <<>> /\ Listed(m.evs)
  BY Decodings, Lists
<1> HIDE DEF m
<1>7. Joined(s, m, a)
  BY <1>5, <1>6, JoinFed
<1>8. /\ sm.dec = s.dec /\ sm.err = FALSE /\ Listed(sm.evs)
      /\ FeedAll(a, sm.evs) = FeedAll(b, <<>>)
  BY <1>5, <1>6, <1>7 DEF Joined
<1> HIDE DEF sm
<1>9. /\ l.err = FALSE /\ Listed(l.evs) /\ l.dec = s.dec /\ \A c : FeedAll(c, l.evs) = c
  <2>1. Idle(l, sm.dec)
    BY <1>5, <1>8, NoClosing
  <2>. QED
    BY <1>8, <2>1 DEF Idle
<1> HIDE DEF l, b
<1>10. Joined(sm, l, a)
  BY <1>8, <1>9, JoinFed
<1>11. FeedAll(b, <<>>) = b
  BY FeedFold
<1>12. FeedAll(a, Join(sm, l).evs) = b /\ Join(sm, l).err = FALSE /\ Join(sm, l).dec = s.dec
  BY <1>8, <1>9, <1>10, <1>11 DEF Joined
<1>13. t.usage \in Usages
  BY <1>4 DEF Usages
<1>14. Opening(a, b, t)
  BY <1>4, <1>13, FeedStart DEF b
<1>. QED
  BY <1>1, <1>3, <1>12, <1>14 DEF ChatOpened, s, t

(* finish_reason without usage closes what is open; with usage, or with    *)
(* usage after it, the message stops.                                      *)
Finishing(d, x) ==
    /\ DecoderType(x) /\ x.started = TRUE /\ x.stopped = d.stopped /\ x.finish = TRUE /\ x.curTool = -1
    /\ x.blocks = IF d.curTool < 0 THEN d.blocks ELSE [d.blocks EXCEPT ![d.curTool] = "closed"]

Finished(a, b, d, r) ==
    /\ r.err = FALSE /\ Listed(r.evs) /\ Finishing(d, r.dec) /\ r.dec.usage = d.usage
    /\ Quiet(a, b) /\ b.ir = IF d.curTool < 0 THEN a.ir ELSE a.ir - 1

(* A choice with finish_reason closes what is open.                        *)
LEMMA ChoiceFinish ==
    ASSUME NEW a, Sound(a.enc, a.view), a.ended \in BOOLEAN, to \in Protocols,
           NEW d, DecoderType(d), d.started = TRUE, NEW e, e.type = "finish"
    PROVE  Finished(a, FeedAll(a, ChatChoice(d, e).evs), d, ChatChoice(d, e))
<1> DEFINE d1 == [d EXCEPT !.finish = TRUE]
           r == CloseCurrentTool(d1)
           b == FeedAll(a, r.evs)
           shut == IF d.curTool < 0 THEN d.blocks ELSE [d.blocks EXCEPT ![d.curTool] = "closed"]
<1>1. ChatChoice(d, e) = r
  BY DEF ChatChoice
<1>2. /\ DOMAIN d1 = DOMAIN d /\ d1.curTool = d.curTool /\ d1.usage = d.usage /\ d1.blocks = d.blocks
      /\ d1.started = TRUE /\ d1.finish = TRUE /\ d1.stopped = d.stopped /\ d1.reasonOpen = d.reasonOpen
      /\ d.curTool \in -1..MaxBlocks - 1
  BY DEF DecoderType
<1> HIDE DEF d1
<1>3. /\ r.err = FALSE /\ Listed(r.evs) /\ Quiet(a, b)
      /\ b.ir = IF d1.curTool < 0 THEN a.ir ELSE a.ir - 1
      /\ r.dec = IF d1.curTool < 0 THEN d1
                 ELSE [d1 EXCEPT !.curTool = -1, !.blocks[d1.curTool] = "closed"]
  BY <1>2, CloseCurrentToolFed
<1> HIDE DEF r, b
<1>4. /\ DOMAIN r.dec = DOMAIN d /\ r.dec.curTool = -1 /\ r.dec.usage = d.usage /\ r.dec.blocks = shut
      /\ r.dec.started = TRUE /\ r.dec.finish = TRUE /\ r.dec.stopped = d.stopped
      /\ r.dec.reasonOpen = d.reasonOpen
  <2>1. CASE d.curTool < 0
    BY <1>2, <1>3, <2>1
  <2>2. CASE ~(d.curTool < 0)
    <3>1. r.dec = [d1 EXCEPT !.curTool = -1, !.blocks[d.curTool] = "closed"]
      BY <1>2, <1>3, <2>2
    <3>2. {"blocks", "started", "stopped", "curTool", "finish", "reasonOpen", "usage"} = DOMAIN d1
      BY <1>2 DEF DecoderType
    <3>3. r.dec.blocks = [d.blocks EXCEPT ![d.curTool] = "closed"]
      BY <1>2, <3>1, <3>2
    <3>. QED
      BY <1>2, <2>2, <3>1, <3>2, <3>3
  <2>. QED
    BY <2>1, <2>2
<1>5. d.blocks = [i \in 0..MaxBlocks - 1 |-> d.blocks[i]]
  BY DEF DecoderType
<1>6. shut = [i \in 0..MaxBlocks - 1 |-> shut[i]]
  BY <1>5
<1> HIDE DEF shut
<1>7. {r.dec.started, r.dec.stopped, r.dec.finish, r.dec.reasonOpen} \subseteq BOOLEAN /\ r.dec.usage \in Usages
  BY <1>4 DEF DecoderType
<1>8. -1 \in -1..MaxBlocks - 1
  BY CodecsAssumption
<1>9. DecoderType(r.dec)
  BY <1>4, <1>6, <1>7, <1>8 DEF DecoderType
<1>10. Finishing(d, r.dec)
  BY <1>4, <1>9 DEF Finishing, shut
<1>. QED
  BY <1>1, <1>2, <1>3, <1>4, <1>10 DEF b, Finished

ChatStopped(a, b, r, u, n) ==
    r.err = FALSE /\ r.dec.curTool = -1 /\ Stopped(a, b, u) /\ b.ir = n

Ending(d) == IF d.curTool < 0 THEN 0 ELSE 1

ChatFinishing(d, x, a, b) ==
    /\ x.err = FALSE /\ Finishing(d, x.dec) /\ x.dec.usage = "none"
    /\ Quiet(a, b) /\ b.ir = a.ir - Ending(d)

(* The chunk with finish_reason, without usage and with it.                *)
LEMMA ChatFinishes ==
    ASSUME NEW a, Sound(a.enc, a.view), a.ended = FALSE, to \in Protocols, a.ir \in Int,
           NEW d, DecoderType(d), d.started = TRUE, d.stopped = FALSE, d.usage = "none",
           NEW e, e.type = "finish", e.usage \in {"none", "final"}
    PROVE  /\ e.usage = "none" => ChatFinishing(d, ChatToIR(d, e), a, FeedAll(a, ChatToIR(d, e).evs))
           /\ e.usage = "final" => ChatStopped(a, FeedAll(a, ChatToIR(d, e).evs), ChatToIR(d, e), "final",
                                              a.ir - Ending(d))
<1> DEFINE n == IF d.curTool < 0 THEN a.ir ELSE a.ir - 1
           s == ChatStart(d, e)
           r == ChatChoice(s.dec, e)
           b == FeedAll(a, r.evs)
           l == Closing(r.dec, e)
           c == FeedAll(b, l.evs)
<1>1. Begun(d, e, s)
  BY ChatBegun DEF Usages
<1> HIDE DEF s
<1>2. /\ DecoderType(s.dec) /\ s.dec.started = TRUE /\ s.dec.stopped = FALSE /\ s.dec.curTool = d.curTool
      /\ s.dec.blocks = d.blocks /\ s.dec.usage = e.usage
  BY <1>1 DEF Begun
<1>3. /\ r.err = FALSE /\ Listed(r.evs) /\ Finishing(s.dec, r.dec) /\ r.dec.usage = e.usage
      /\ Quiet(a, b) /\ b.ir = n
  <2>1. Finished(a, b, s.dec, r)
    BY <1>2, ChoiceFinish
  <2>. QED
    BY <1>2, <2>1 DEF Finished
<1> HIDE DEF r, b
<1>4. Finishing(d, r.dec) /\ r.dec.stopped = FALSE
  BY <1>2, <1>3 DEF Finishing
<1>7. n = a.ir - Ending(d)
  BY DEF Ending
<1> HIDE DEF n
<1>5. CASE e.usage = "none"
  <2>1. l.err = FALSE /\ Listed(l.evs) /\ l.dec = r.dec /\ c = b
    <3>1. Idle(l, r.dec)
      BY <1>5, NoClosing
    <3>. QED
      BY <3>1 DEF Idle
  <2>2. /\ ChatToIR(d, e).err = FALSE /\ ChatToIR(d, e).dec = l.dec
        /\ FeedAll(a, ChatToIR(d, e).evs) = c
    <3>1. e.type \notin {"done", "error"} /\ e.usage \in Usages
      BY <1>5 DEF Usages
    <3>2. r = ChatChoice(ChatStart(d, e).dec, e) /\ l = Closing(r.dec, e) /\ c = FeedAll(FeedAll(a, r.evs), l.evs)
      BY DEF r, s, b
    <3> HIDE DEF l, c
    <3>3. Feeding(ChatToIR(d, e), l.dec, a, FeedAll(FeedAll(a, r.evs), l.evs))
      BY <1>3, <2>1, <3>1, <3>2, ChatFed
    <3>. QED
      BY <3>2, <3>3 DEF Feeding
  <2> HIDE DEF l, c
  <2>. QED
    BY <1>2, <1>3, <1>4, <1>7, <1>5, <2>1, <2>2 DEF ChatFinishing, Finishing
<1>6. CASE e.usage = "final"
  <2>1. l = FinishIfNeeded(r.dec)
    BY <1>4, <1>6 DEF Closing, Finishing
  <2>2. Sound(b.enc, b.view) /\ b.ended = FALSE /\ DecoderType(r.dec) /\ r.dec.started /\ ~r.dec.stopped
    BY <1>3, <1>4 DEF Quiet, Finishing
  <2> HIDE DEF l
  <2>3. /\ l.err = FALSE /\ Listed(l.evs) /\ Stopped(b, c, r.dec.usage)
        /\ c.ir = IF r.dec.curTool < 0 THEN b.ir ELSE b.ir - 1
        /\ l.dec.curTool = -1
    BY <2>1, <2>2, FinishFed
  <2>4. /\ ChatToIR(d, e).err = FALSE /\ ChatToIR(d, e).dec = l.dec
        /\ FeedAll(a, ChatToIR(d, e).evs) = c
    <3>1. e.type \notin {"done", "error"} /\ e.usage \in Usages
      BY <1>6 DEF Usages
    <3>2. r = ChatChoice(ChatStart(d, e).dec, e) /\ l = Closing(r.dec, e) /\ c = FeedAll(FeedAll(a, r.evs), l.evs)
      BY DEF r, s, b, l
    <3> HIDE DEF c
    <3>3. Feeding(ChatToIR(d, e), l.dec, a, FeedAll(FeedAll(a, r.evs), l.evs))
      BY <1>3, <2>3, <3>1, <3>2, ChatFed
    <3>. QED
      BY <3>2, <3>3 DEF Feeding
  <2> HIDE DEF c
  <2>5. Stopped(a, c, "final")
    BY <1>3, <1>6, <2>3 DEF Stopped, Quiet
  <2>6. c.ir = n
    BY <1>3, <1>4, <2>3 DEF Finishing
  <2>. QED
    BY <1>7, <1>6, <2>3, <2>4, <2>5, <2>6 DEF ChatStopped
<1>. QED
  BY <1>5, <1>6

(* Usage in a chunk of its own ends the message.                           *)
LEMMA ChatUsage ==
    ASSUME NEW a, Sound(a.enc, a.view), a.ended = FALSE, to \in Protocols,
           NEW d, DecoderType(d), d.started = TRUE, d.stopped = FALSE, d.finish = TRUE,
           d.curTool = -1,
           NEW e, e.type = "usage", e.usage = "final"
    PROVE  ChatStopped(a, FeedAll(a, ChatToIR(d, e).evs), ChatToIR(d, e), "final", a.ir)
<1> DEFINE s == ChatStart(d, e)
           r == ChatChoice(s.dec, e)
           l == Closing(r.dec, e)
           c == FeedAll(a, l.evs)
<1>1. Begun(d, e, s)
  BY ChatBegun DEF Usages
<1>2. r = Decoded(s.dec, <<>>)
  BY DEF ChatChoice
<1> HIDE DEF s
<1>3. /\ DecoderType(s.dec) /\ s.dec.started = TRUE /\ s.dec.stopped = FALSE /\ s.dec.curTool = -1
      /\ s.dec.finish = TRUE /\ s.dec.usage = "final"
  BY <1>1 DEF Begun
<1>4. r.dec = s.dec /\ r.err = FALSE /\ Listed(r.evs) /\ FeedAll(a, r.evs) = a
  <2>1. r.dec = s.dec /\ r.err = FALSE /\ r.evs = <<>>
    BY <1>2, Decodings
  <2> HIDE DEF r
  <2>. QED
    BY <2>1, Lists, FeedFold
<1> HIDE DEF r
<1>5. l = FinishIfNeeded(r.dec)
  BY <1>3, <1>4 DEF Closing
<1> HIDE DEF l
<1>6. /\ l.err = FALSE /\ Listed(l.evs) /\ Stopped(a, c, r.dec.usage)
      /\ c.ir = IF r.dec.curTool < 0 THEN a.ir ELSE a.ir - 1
      /\ l.dec.curTool = -1
  <2>1. DecoderType(r.dec) /\ r.dec.started /\ ~r.dec.stopped
    BY <1>3, <1>4
  <2>. QED
    BY <1>5, <2>1, FinishFed
<1>7. /\ ChatToIR(d, e).err = FALSE /\ ChatToIR(d, e).dec = l.dec
      /\ FeedAll(a, ChatToIR(d, e).evs) = FeedAll(FeedAll(a, r.evs), l.evs)
  <2>1. e.type \notin {"done", "error"} /\ e.usage \in Usages
    BY DEF Usages
  <2>2. r = ChatChoice(ChatStart(d, e).dec, e) /\ l = Closing(r.dec, e)
    BY DEF r, s, l
  <2> HIDE DEF c
  <2>3. Feeding(ChatToIR(d, e), l.dec, a, FeedAll(FeedAll(a, r.evs), l.evs))
    BY <1>4, <1>6, <2>1, <2>2, ChatFed
  <2>. QED
    BY <2>3 DEF Feeding
<1> HIDE DEF c
<1>. QED
  BY <1>3, <1>4, <1>6, <1>7 DEF ChatStopped, c

(* A chunk that ends nothing: choices, and no more.                        *)
LEMMA ChatChunk ==
    ASSUME NEW d, DecoderType(d), d.started = TRUE, NEW e, e.type = "chunk",
           e.usage = "none", NEW a,
           ChatChoice(ChatStart(d, e).dec, e).err = FALSE, Listed(ChatChoice(ChatStart(d, e).dec, e).evs)
    PROVE  Feeding(ChatToIR(d, e), ChatChoice(ChatStart(d, e).dec, e).dec, a,
                   FeedAll(a, ChatChoice(ChatStart(d, e).dec, e).evs))
<1> DEFINE r == ChatChoice(ChatStart(d, e).dec, e)
           l == Closing(r.dec, e)
           b == FeedAll(a, r.evs)
<1>1. Idle(l, r.dec)
  BY NoClosing
<1>2. l.err = FALSE /\ Listed(l.evs) /\ l.dec = r.dec /\ FeedAll(b, l.evs) = b
  <2> HIDE DEF l, b
  <2>. QED
    BY <1>1 DEF Idle
<1>3. e.type \notin {"done", "error"} /\ e.usage \in Usages
  BY DEF Usages
<1>4. Feeding(ChatToIR(d, e), l.dec, a, FeedAll(b, l.evs))
  <2>1. r = ChatChoice(ChatStart(d, e).dec, e) /\ l = Closing(r.dec, e) /\ r.err = FALSE /\ Listed(r.evs)
    OBVIOUS
  <2> HIDE DEF l, r
  <2>. QED
    BY <1>2, <1>3, <2>1, ChatFed DEF b
<1>. QED
  BY <1>2, <1>4

(* The decoder as it was, but for reasonOpen.                              *)
Alike(d, x) ==
    /\ DecoderType(x) /\ x.blocks = d.blocks /\ x.started = d.started /\ x.stopped = d.stopped
    /\ x.curTool = d.curTool /\ x.finish = d.finish /\ x.usage = d.usage

(* A chunk after the first starts nothing.                                 *)
LEMMA ChunkBegun ==
    ASSUME NEW d, DecoderType(d), d.started = TRUE, NEW e, e.usage = "none"
    PROVE  Alike(d, ChatStart(d, e).dec) /\ ChatStart(d, e).dec.reasonOpen = d.reasonOpen
<1> DEFINE s == ChatStart(d, e)
<1>1. Begun(d, e, s)
  BY ChatBegun DEF Usages
<1> HIDE DEF s
<1>. QED
  BY <1>1 DEF Begun, Alike, s

ChatTextSaid(d, x, a, b, kind, f) ==
    x.err = FALSE /\ Alike(d, x.dec) /\ TextSaid(a, b, kind, f)

(* A chunk with text or reasoning.                                         *)
LEMMA ChatText ==
    ASSUME NEW a, Sound(a.enc, a.view), a.ended \in BOOLEAN, to \in Protocols, NEW d,
           DecoderType(d),
           d.started = TRUE, NEW kind \in {"text", "thinking"},
           NEW e, e.type = "chunk", e.kind = kind, e.frag \in Nat, e.usage = "none"
    PROVE  ChatTextSaid(d, ChatToIR(d, e), a, FeedAll(a, ChatToIR(d, e).evs), kind, e.frag)
<1> DEFINE s == ChatStart(d, e).dec
           r == ChatChoice(s, e)
           b == FeedAll(a, r.evs)
<1>1. Alike(d, s)
  BY ChunkBegun
<1>2. /\ r.err = FALSE /\ Listed(r.evs) /\ r.dec = [s EXCEPT !.reasonOpen = (kind = "thinking")]
      /\ TextSaid(a, b, kind, e.frag)
  <2> HIDE DEF s
  <2>. QED
    <3>1. ChoseText(s, r, a, kind, e.frag)
      BY ChoiceText
    <3>. QED
      BY <3>1 DEF ChoseText
<1>3. Feeding(ChatToIR(d, e), r.dec, a, b)
  BY <1>2, ChatChunk
<1> HIDE DEF s, r, b
<1>4. Alike(s, r.dec)
  <2>1. r.dec.reasonOpen \in BOOLEAN
    BY <1>1, <1>2 DEF Alike, DecoderType
  <2>. QED
    BY <1>1, <1>2, <2>1 DEF Alike, DecoderType
<1>5. Alike(d, r.dec)
  BY <1>1, <1>4 DEF Alike
<1>. QED
  BY <1>2, <1>3, <1>5 DEF Feeding, ChatTextSaid

ChatCallContinued(d, x, a, b, i, f) ==
    x.err = FALSE /\ Alike(d, x.dec) /\ CallContinued(a, b, i, f)

(* A chunk that continues a tool call.                                     *)
LEMMA ChatMoreTool ==
    ASSUME NEW a, Sound(a.enc, a.view), a.ended \in BOOLEAN, to \in Protocols, NEW d,
           DecoderType(d),
           d.started = TRUE, NEW e, e.type = "chunk", e.kind = "tool", e.frag \in Nat \ {0}, e.usage = "none",
           e.index \in 0..MaxBlocks - 1, d.blocks[e.index] = "tool", Ready(a.enc, a.view, e.index + 1)
    PROVE  ChatCallContinued(d, ChatToIR(d, e), a, FeedAll(a, ChatToIR(d, e).evs), e.index + 1, e.frag)
<1> DEFINE s == ChatStart(d, e).dec
           r == ChatChoice(s, e)
           b == FeedAll(a, r.evs)
<1>1. Alike(d, s)
  BY ChunkBegun
<1>2. /\ r.err = FALSE /\ Listed(r.evs) /\ r.dec = s
      /\ CallContinued(a, b, e.index + 1, e.frag)
  <2>1. s.blocks[e.index] = "tool"
    BY <1>1 DEF Alike
  <2> HIDE DEF s
  <2>. QED
    BY <2>1, ChoiceMoreTool
<1>3. Feeding(ChatToIR(d, e), r.dec, a, b)
  BY <1>2, ChatChunk
<1> HIDE DEF s, r, b
<1>. QED
  BY <1>1, <1>2, <1>3 DEF Feeding, ChatCallContinued

(* A chunk with a new tool call.                                           *)
LEMMA ChatNewTool ==
    ASSUME NEW a, Sound(a.enc, a.view), a.ended = FALSE, to \in Protocols, a.ir \in Int,
           NEW d, DecoderType(d),
           d.started = TRUE, NEW e, e.type = "chunk", e.kind = "tool", e.frag \in Nat \ {0}, e.usage = "none",
           e.index \in 0..MaxBlocks - 1, d.blocks[e.index] = "none"
    PROVE  ChatCallBegun(d, ChatToIR(d, e), a, FeedAll(a, ChatToIR(d, e).evs), e.index, e.frag)
<1> DEFINE s == ChatStart(d, e).dec
           r == ChatChoice(s, e)
           b == FeedAll(a, r.evs)
<1>1. Alike(d, s)
  BY ChunkBegun
<1> HIDE DEF s
<1>2. Listed(r.evs) /\ ChatCallBegun(s, r, a, b, e.index, e.frag)
  <2>1. s.blocks[e.index] = "none" /\ DecoderType(s)
    BY <1>1 DEF Alike
  <2>2. ChoseNewTool(s, r, a, e.index, e.frag)
    BY <2>1, ChoiceNewTool
  <2>. QED
    BY <2>2 DEF ChoseNewTool
<1>3. r.err = FALSE
  BY <1>2 DEF ChatCallBegun
<1>4. Feeding(ChatToIR(d, e), r.dec, a, b)
  BY <1>2, <1>3, ChatChunk DEF s
<1> HIDE DEF r, b
<1>5. Shut(s) = Shut(d) /\ s.curTool = d.curTool
  BY <1>1 DEF Alike, Shut
<1>. QED
  BY <1>1, <1>2, <1>4, <1>5 DEF Feeding, ChatCallBegun, Alike

(* [DONE].                                                                 *)
LEMMA ChatDone ==
    ASSUME NEW a, Sound(a.enc, a.view), a.ended = FALSE, to \in Protocols,
           NEW d, DecoderType(d), d.started = TRUE, d.stopped = FALSE, d.curTool = -1,
           NEW e, e.type = "done"
    PROVE  ChatStopped(a, FeedAll(a, ChatToIR(d, e).evs), ChatToIR(d, e), d.usage, a.ir)
<1> DEFINE r == FinishIfNeeded(d)
           b == FeedAll(a, r.evs)
<1>1. ChatToIR(d, e) = r
  BY DEF ChatToIR
<1>2. d.started /\ ~d.stopped
  OBVIOUS
<1>3. /\ r.err = FALSE /\ Listed(r.evs) /\ Stopped(a, b, d.usage)
      /\ b.ir = IF d.curTool < 0 THEN a.ir ELSE a.ir - 1
      /\ r.dec.curTool = -1
  BY <1>2, FinishFed
<1> HIDE DEF r, b
<1>. QED
  BY <1>1, <1>3 DEF ChatStopped, b

-----------------------------------------------------------------------------
(***************************************************************************)
(* The decoders whose blocks are framed (Anthropic, Responses).            *)
(***************************************************************************)
(* The decoders of the protocols that have blocks, event by event.         *)
Framing == {"anthropic", "openai_responses"}

(* ToIR is the decoder of the upstream's protocol.                         *)
LEMMA Decoders ==
    /\ \A d, e : ToIR("anthropic", d, e) = AnthropicToIR(d, e)
    /\ \A d, e : ToIR("openai_chat", d, e) = ChatToIR(d, e)
    /\ \A d, e : ToIR("openai_responses", d, e) = ResponsesToIR(d, e)
BY DEF ToIR

(* What the encoder is given.                                              *)
LEMMA EventsOf ==
    ASSUME NEW x
    PROVE  /\ x.err = FALSE => Events(x) = x.evs
           /\ x.err = TRUE => Events(x) = <<Plain("error")>>
BY DEF Events

(* The fields of an IR event.                                              *)
LEMMA EventFields ==
    /\ \A k, i, f, u : LET v == IR(k, i, f, u) IN v.kind = k /\ v.index = i /\ v.frag = f /\ v.usage = u
    /\ \A k, i : LET v == On(k, i) IN v.kind = k /\ v.index = i /\ v.frag = 0
    /\ \A k, i, f : LET v == Piece(k, i, f) IN v.kind = k /\ v.index = i /\ v.frag = f
    /\ \A k : LET v == Plain(k) IN v.kind = k /\ v.usage = "none"
BY DEF IR, On, Piece, Plain

(* A block of content starts.                                              *)
BlockStarted(d, x, a, b, i, kind) ==
    /\ x.err = FALSE /\ x.dec = [d EXCEPT !.blocks[i] = kind]
    /\ kind = "tool" => CallStarted(a, b, i)
    /\ kind # "tool" => b = a

(* content_block_start and output_item.added start it at the client.       *)
LEMMA StartsBlock ==
    ASSUME NEW a, Sound(a.enc, a.view), a.ended \in BOOLEAN, to \in Protocols, NEW d,
           NEW p \in Framing, NEW e, e.type = "block_start", e.kind \in Kinds,
           e.index \in 0..MaxBlocks - 1
    PROVE  BlockStarted(d, ToIR(p, d, e), a, FeedAll(a, Events(ToIR(p, d, e))), e.index, e.kind)
<1> DEFINE x == ToIR(p, d, e)
           ev == On("tool_use_start", e.index)
           d2 == [d EXCEPT !.blocks[e.index] = e.kind]
<1>1. x = Decoded(d2, IF e.kind = "tool" THEN <<ev>> ELSE <<>>)
  <2>1. CASE p = "anthropic"
    BY <2>1 DEF ToIR, AnthropicToIR, Kinds
  <2>2. CASE p = "openai_responses"
    BY <2>2 DEF ToIR, ResponsesToIR, Kinds
  <2>. QED
    BY <2>1, <2>2 DEF Framing
<1> HIDE DEF d2
<1>2. x.err = FALSE /\ x.dec = d2 /\ x.evs = IF e.kind = "tool" THEN <<ev>> ELSE <<>>
  BY <1>1, Decodings
<1>3. Events(x) = x.evs
  BY <1>2, EventsOf
<1>4. ev.kind = "tool_use_start" /\ ev.index = e.index /\ ev.index \in -1..MaxBlocks /\ ev.frag \in Nat
  BY CodecsAssumption DEF On, IR
<1> HIDE DEF ev, x
<1>5. CallStarted(a, FeedAll(a, <<ev>>), ev.index)
  BY <1>4, StartFed
<1>6. FeedAll(a, <<>>) = a
  BY FeedFold
<1>7. CASE e.kind = "tool"
  BY <1>2, <1>3, <1>4, <1>5, <1>7 DEF BlockStarted, d2, x
<1>8. CASE e.kind # "tool"
  BY <1>2, <1>3, <1>6, <1>8 DEF BlockStarted, d2, x
<1>. QED
  BY <1>7, <1>8

BlockHushed(d, x, a, b, d2, n) ==
    x.err = FALSE /\ x.dec = d2 /\ Quiet(a, b) /\ b.ir = n

(* Events that say nothing.                                                *)
LEMMA QuietEvent ==
    ASSUME NEW a, Sound(a.enc, a.view), a.ended \in BOOLEAN, to \in Protocols, NEW ev,
           ev.kind \in {"thinking_done", "reasoning_done", "tool_use_stop"}, ev.index \in -1..MaxBlocks,
           ev.frag \in Nat
    PROVE  Quiet(a, FeedAll(a, <<ev>>)) /\ FeedAll(a, <<ev>>).ir = IRAfter(a.ir, ev)
<1>1. Fed(a, FeedAll(a, <<ev>>), ev)
  BY FeedBody DEF BodyKinds
<1>2. Quiet(a, FeedAll(a, <<ev>>))
  BY <1>1, QuietFed
<1>. QED
  BY <1>1, <1>2 DEF Fed

(* Redacted reasoning is carried by no event.                              *)
LEMMA Redacted ==
    ASSUME NEW a, Sound(a.enc, a.view), a.ended \in BOOLEAN, to \in Protocols, NEW d,
           NEW e, e.type = "block_start", e.kind = "redacted", e.index \in 0..MaxBlocks - 1
    PROVE  BlockHushed(d, ToIR("anthropic", d, e), a, FeedAll(a, Events(ToIR("anthropic", d, e))),
                       [d EXCEPT !.blocks[e.index] = "thinking"], a.ir)
<1> DEFINE x == ToIR("anthropic", d, e)
           ev == On("thinking_done", e.index)
           d2 == [d EXCEPT !.blocks[e.index] = "thinking"]
<1>1. x = Decoded(d2, <<ev>>)
  BY DEF ToIR, AnthropicToIR
<1> HIDE DEF d2
<1>2. x.err = FALSE /\ x.dec = d2 /\ x.evs = <<ev>>
  BY <1>1, Decodings
<1>3. Events(x) = x.evs
  BY <1>2, EventsOf
<1>4. ev.kind = "thinking_done" /\ ev.index = e.index /\ ev.index \in -1..MaxBlocks /\ ev.frag \in Nat
  BY CodecsAssumption DEF On, IR
<1> HIDE DEF ev, x
<1>5. Quiet(a, FeedAll(a, <<ev>>)) /\ FeedAll(a, <<ev>>).ir = IRAfter(a.ir, ev)
  BY <1>4, QuietEvent
<1>6. IRAfter(a.ir, ev) = a.ir
  BY <1>4 DEF IRAfter
<1>. QED
  BY <1>2, <1>3, <1>5, <1>6 DEF BlockHushed, x, d2

(* content_block_stop and output_item.done.                                *)
LEMMA StopsBlock ==
    ASSUME NEW a, Sound(a.enc, a.view), a.ended \in BOOLEAN, to \in Protocols, NEW d,
           NEW p \in Framing, NEW e, e.type = "block_stop", e.index \in 0..MaxBlocks - 1
    PROVE  BlockHushed(d, ToIR(p, d, e), a, FeedAll(a, Events(ToIR(p, d, e))),
                       IF p = "anthropic" THEN [d EXCEPT !.blocks[e.index] = "none"] ELSE d,
                       IF d.blocks[e.index] = "tool" THEN a.ir - 1 ELSE a.ir)
<1> DEFINE x == ToIR(p, d, e)
           d2 == IF p = "anthropic" THEN [d EXCEPT !.blocks[e.index] = "none"] ELSE d
           kind == d.blocks[e.index]
           done == IF kind = "tool" THEN "tool_use_stop"
                   ELSE IF p = "anthropic" THEN "thinking_done" ELSE "reasoning_done"
           ev == On(done, e.index)
           n == IF d.blocks[e.index] = "tool" THEN a.ir - 1 ELSE a.ir
<1>1. x = Decoded(d2, IF kind \in {"tool", "thinking"} THEN <<ev>> ELSE <<>>)
  <2>1. CASE p = "anthropic"
    BY <2>1 DEF ToIR, AnthropicToIR, Kinds
  <2>2. CASE p = "openai_responses"
    BY <2>2 DEF ToIR, ResponsesToIR, Kinds
  <2>. QED
    BY <2>1, <2>2 DEF Framing
<1> HIDE DEF d2
<1>2. x.err = FALSE /\ x.dec = d2 /\ x.evs = IF kind \in {"tool", "thinking"} THEN <<ev>> ELSE <<>>
  BY <1>1, Decodings
<1>3. Events(x) = x.evs
  BY <1>2, EventsOf
<1>4. ev.kind = done /\ ev.index \in -1..MaxBlocks /\ ev.frag \in Nat
  BY CodecsAssumption DEF On, IR
<1>5. done \in {"thinking_done", "reasoning_done", "tool_use_stop"} /\ (done = "tool_use_stop" <=> kind = "tool")
  OBVIOUS
<1> HIDE DEF ev, x, done, kind
<1>6. Quiet(a, FeedAll(a, <<ev>>)) /\ FeedAll(a, <<ev>>).ir = IRAfter(a.ir, ev)
  BY <1>4, <1>5, QuietEvent
<1>7. IRAfter(a.ir, ev) = n
  BY <1>4, <1>5 DEF IRAfter, kind
<1> HIDE DEF n
<1>8. CASE kind \notin {"tool", "thinking"}
  <2>1. FeedAll(a, <<>>) = a /\ Quiet(a, a)
    BY FeedFold, QuietItself
  <2>2. n = a.ir
    BY <1>8 DEF n, kind
  <2>. QED
    BY <1>2, <1>3, <1>8, <2>1, <2>2 DEF BlockHushed, x, d2, n
<1>9. CASE kind \in {"tool", "thinking"}
  BY <1>2, <1>3, <1>6, <1>7, <1>9 DEF BlockHushed, x, d2, n
<1>. QED
  BY <1>8, <1>9

(* A fragment is sent to the client.                                       *)
DeltaSent(d, x, a, b, i, kind, f) ==
    /\ x.err = FALSE /\ x.dec = d
    /\ kind = "tool" => CallContinued(a, b, i, f)
    /\ kind # "tool" => TextSaid(a, b, kind, f)

(* A delta of a framed block.                                              *)
LEMMA SendsDelta ==
    ASSUME NEW a, Sound(a.enc, a.view), a.ended \in BOOLEAN, to \in Protocols, NEW d,
           NEW p \in Framing, NEW e, e.type = "delta", e.kind \in Kinds,
           e.index \in 0..MaxBlocks - 1,
           e.frag \in Nat, e.kind = "tool" => Ready(a.enc, a.view, e.index)
    PROVE  DeltaSent(d, ToIR(p, d, e), a, FeedAll(a, Events(ToIR(p, d, e))), e.index, e.kind, e.frag)
<1> DEFINE x == ToIR(p, d, e)
           ev == Piece(DeltaOf(e.kind), e.index, e.frag)
<1>1. x = Decoded(d, <<ev>>)
  BY DEF ToIR, AnthropicToIR, ResponsesToIR, Framing
<1>2. x.err = FALSE /\ x.dec = d /\ x.evs = <<ev>>
  BY <1>1, Decodings
<1>3. Events(x) = x.evs
  BY <1>2, EventsOf
<1>4. ev.kind = DeltaOf(e.kind) /\ ev.index = e.index /\ ev.index \in -1..MaxBlocks /\ ev.frag = e.frag /\ ev.frag \in Nat
  BY CodecsAssumption DEF Piece, IR
<1> HIDE DEF ev, x
<1>5. CASE e.kind = "tool"
  <2>1. ev.kind = "tool_input_delta"
    BY <1>4, <1>5 DEF DeltaOf
  <2>2. CallContinued(a, FeedAll(a, <<ev>>), ev.index, ev.frag)
    BY <1>4, <1>5, <2>1, InputFed
  <2>. QED
    BY <1>2, <1>3, <1>4, <1>5, <2>2 DEF DeltaSent, x
<1>6. CASE e.kind # "tool"
  <2>1. e.kind \in {"text", "thinking"}
    BY <1>6 DEF Kinds
  <2>2. TextSaid(a, FeedAll(a, <<ev>>), e.kind, ev.frag)
    BY <1>4, <2>1, TextFed
  <2>. QED
    BY <1>2, <1>3, <1>4, <1>6, <2>2 DEF DeltaSent, x
<1>. QED
  BY <1>5, <1>6

(* The decoders of the protocols that have blocks, and errors of all.      *)
OneEvent(x, d, ev) == x.err = FALSE /\ x.dec = d /\ Events(x) = <<ev>>

(* A decoder that emits one event.                                         *)
LEMMA OneDecoded ==
    ASSUME NEW d, NEW ev
    PROVE  OneEvent(Decoded(d, <<ev>>), d, ev)
<1> DEFINE x == Decoded(d, <<ev>>)
<1>1. x.err = FALSE /\ x.dec = d /\ x.evs = <<ev>>
  BY Decodings
<1> HIDE DEF x
<1>2. Events(x) = <<ev>>
  BY <1>1, EventsOf
<1>. QED
  BY <1>1, <1>2 DEF OneEvent, x

FirstEvent(p, e) == IF p = "anthropic" THEN IR("message_start", 0, 0, e.usage) ELSE Plain("message_start")

MessageStarted(p, d, e, x, a, b) ==
    /\ x.err = FALSE
    /\ x.dec = IF p = "anthropic" THEN [d EXCEPT !.usage = e.usage] ELSE [d EXCEPT !.started = TRUE]
    /\ Opening(a, b, FirstEvent(p, e))

(* message_start and response.created.                                     *)
LEMMA StartsMessage ==
    ASSUME NEW a, Sound(a.enc, a.view), a.ended \in BOOLEAN, to \in Protocols,
           a.view.blocks = <<>>,
           NEW d, NEW p \in Framing, p # "anthropic" => d.started = FALSE,
           NEW e, e.type = "start", e.usage \in Usages
    PROVE  MessageStarted(p, d, e, ToIR(p, d, e), a, FeedAll(a, Events(ToIR(p, d, e))))
<1> DEFINE x == ToIR(p, d, e)
           d2 == IF p = "anthropic" THEN [d EXCEPT !.usage = e.usage] ELSE [d EXCEPT !.started = TRUE]
           ev == FirstEvent(p, e)
<1>1. x = Decoded(d2, <<ev>>)
  BY DEF ToIR, AnthropicToIR, ResponsesToIR, Framing, FirstEvent
<1>2. ev.kind = "message_start" /\ ev.usage \in Usages
  BY EventFields DEF Usages, FirstEvent
<1> HIDE DEF d2, ev
<1>3. OneEvent(x, d2, ev)
  BY <1>1, OneDecoded
<1>4. Opening(a, FeedAll(a, <<ev>>), ev)
  BY <1>2, FeedStart
<1> HIDE DEF x
<1>. QED
  BY <1>3, <1>4 DEF OneEvent, MessageStarted, x, d2, ev

ClosingHeard(d, e, x, a, b) == x.err = FALSE /\ x.dec = [d EXCEPT !.usage = e.usage] /\ b = a

(* message_delta is kept for the end.                                      *)
LEMMA ClosingSaid ==
    ASSUME NEW a, NEW d, NEW e, e.type = "closing"
    PROVE  ClosingHeard(d, e, ToIR("anthropic", d, e), a, FeedAll(a, Events(ToIR("anthropic", d, e))))
<1> DEFINE x == ToIR("anthropic", d, e)
           d2 == [d EXCEPT !.usage = e.usage]
<1>1. x = Decoded(d2, <<>>)
  BY DEF ToIR, AnthropicToIR
<1> HIDE DEF d2
<1>2. x.err = FALSE /\ x.dec = d2 /\ x.evs = <<>>
  BY <1>1, Decodings
<1>3. FeedAll(a, <<>>) = a
  BY FeedFold
<1> HIDE DEF x
<1>4. Events(x) = <<>>
  BY <1>2, EventsOf
<1>. QED
  BY <1>2, <1>3, <1>4 DEF x, d2, ClosingHeard

LastUsage(p, d, e) == IF p = "anthropic" THEN d.usage ELSE e.usage

MessageStopped(p, d, e, x, a, b) ==
    /\ x.err = FALSE /\ x.dec = IF p = "anthropic" THEN d ELSE [d EXCEPT !.stopped = TRUE]
    /\ Terminated(a, b, IR("message_stop", 0, 0, LastUsage(p, d, e)))

(* message_stop and response.completed.                                    *)
LEMMA StopsMessage ==
    ASSUME NEW a, Sound(a.enc, a.view), a.ended \in BOOLEAN, to \in Protocols, NEW d,
           NEW p \in Framing,
           p # "anthropic" => d.stopped = FALSE, d.usage \in Usages, NEW e, e.type = "stop", e.usage \in Usages
    PROVE  MessageStopped(p, d, e, ToIR(p, d, e), a, FeedAll(a, Events(ToIR(p, d, e))))
<1> DEFINE x == ToIR(p, d, e)
           d2 == IF p = "anthropic" THEN d ELSE [d EXCEPT !.stopped = TRUE]
           u == LastUsage(p, d, e)
           ev == IR("message_stop", 0, 0, u)
<1>1. x = Decoded(d2, <<ev>>)
  BY DEF ToIR, AnthropicToIR, ResponsesToIR, Framing, LastUsage
<1>2. ev.kind = "message_stop" /\ ev.usage \in Usages
  BY EventFields DEF LastUsage
<1> HIDE DEF d2, ev
<1>3. OneEvent(x, d2, ev)
  BY <1>1, OneDecoded
<1>4. Terminated(a, FeedAll(a, <<ev>>), ev)
  BY <1>2, FeedEnd
<1> HIDE DEF x, u
<1>. QED
  BY <1>3, <1>4 DEF OneEvent, MessageStopped, x, d2, ev, u

(* An event that cannot be decoded, and the upstream's own error.          *)
LEMMA Unreadable ==
    ASSUME NEW a, Sound(a.enc, a.view), to \in Protocols, NEW d,
           NEW e, e.type = "block_start", e.kind = "unknown"
    PROVE  LET x == ToIR("anthropic", d, e)
           IN  x.err = TRUE /\ x.dec = d /\ Terminated(a, FeedAll(a, Events(x)), Plain("error"))
<1> DEFINE x == ToIR("anthropic", d, e)
           ev == Plain("error")
<1>1. x = Undecodable(d)
  BY DEF ToIR, AnthropicToIR
<1>2. ev.kind = "error" /\ ev.usage \in Usages
  BY EventFields DEF Usages
<1>3. x.err = TRUE /\ x.dec = d /\ Events(x) = <<ev>>
  BY <1>1, Decodings, EventsOf
<1> HIDE DEF x, ev
<1>4. Terminated(a, FeedAll(a, <<ev>>), ev)
  BY <1>2, FeedEnd
<1>. QED
  BY <1>3, <1>4 DEF x, ev

(* An error event ends the stream, and nothing else.                       *)
LEMMA ErrorSent ==
    ASSUME NEW a, Sound(a.enc, a.view), to \in Protocols, NEW d, NEW p \in Protocols,
           NEW e, e.type = "error"
    PROVE  LET x == ToIR(p, d, e)
           IN  x.err = FALSE /\ x.dec = d /\ Terminated(a, FeedAll(a, Events(x)), Plain("error"))
<1> DEFINE x == ToIR(p, d, e)
           ev == Plain("error")
<1>1. x = Decoded(d, <<ev>>)
  BY DEF ToIR, AnthropicToIR, ResponsesToIR, ChatToIR, Protocols
<1>2. ev.kind = "error" /\ ev.usage \in Usages
  BY EventFields DEF Usages
<1> HIDE DEF ev
<1>3. OneEvent(x, d, ev)
  BY <1>1, OneDecoded
<1> HIDE DEF x
<1>4. Terminated(a, FeedAll(a, <<ev>>), ev)
  BY <1>2, FeedEnd
<1>. QED
  BY <1>3, <1>4 DEF OneEvent, x, ev

-----------------------------------------------------------------------------
(***************************************************************************)
(* The invariant.                                                          *)
(***************************************************************************)
Said == [kind : Kinds \union {"redacted", "unknown"}, frags : Seq(Nat), open : BOOLEAN]

Latest      == Len(said)
LastOpen  == Latest > 0 /\ said[Latest].open
ToolCount == Cardinality(ToolBlocks(said))
IRIndex   == IF Blocky THEN Index(Latest) ELSE ToolIndex(Latest) + 1

(* The block under way is the one the client's encoder is at.              *)
Current ==
    LastOpen /\ phase = "body" =>
        /\ said[Latest].kind = "tool" => Ready(enc, view, IRIndex)
        /\ said[Latest].kind \in {"text", "thinking"} /\ to # "openai_chat" =>
                enc.kind = said[Latest].kind \/ Len(view.blocks) < Latest

(* Whether a tool call is under way.                                       *)
CallOpen == IF LastOpen /\ said[Latest].kind = "tool" THEN 1 ELSE 0

(* What the Anthropic decoder knows of the upstream.                       *)
AnthropicFit ==
    /\ phase = "start" => usage = "none"
    /\ dec.usage = usage /\ (usage = "final" <=> phase = "closing")
    /\ LastOpen => dec.blocks[Index(Latest)] =
            IF said[Latest].kind = "redacted" THEN "thinking" ELSE said[Latest].kind
    /\ ir = CallOpen

(* What the Responses decoder knows of it.                                 *)
ResponsesFit ==
    /\ phase # "closing" /\ dec.stopped = FALSE /\ dec.started = (phase # "start")
    /\ LastOpen => dec.blocks[Index(Latest)] = said[Latest].kind
    /\ ir = CallOpen

(* What the Chat decoder knows of it.                                      *)
ChatInFit ==
    /\ dec.started = (phase # "start") /\ dec.stopped = FALSE /\ dec.finish = (phase = "closing")
    /\ dec.usage = "none" /\ usage = "none"
    /\ dec.curTool = IF phase = "closing" THEN -1 ELSE ToolCount - 1
    /\ \A i \in 0..MaxBlocks - 1 :
          dec.blocks[i] = IF i >= ToolCount THEN "none" ELSE IF i = dec.curTool THEN "tool" ELSE "closed"
    /\ \A k \in 1..Len(said) : said[k].open
    /\ ir = IF dec.curTool >= 0 THEN 1 ELSE 0

DecoderFit ==
    CASE from = "anthropic"   -> AnthropicFit
      [] from = "openai_chat" -> ChatInFit
      [] OTHER                -> ResponsesFit

(* As long as the stream goes on nothing is on its way.                    *)
Streaming ==
    /\ Sound(enc, view) /\ DecoderType(dec)
    /\ Content(view.blocks) = Content(said)
    /\ phase \in {"start", "body", "closing"}
    /\ phase = "start" => said = <<>> /\ view.blocks = <<>>
    /\ \A k \in 1..Len(said) : said[k].open /\ Blocky => k = Latest
    /\ from # "anthropic" => /\ enc.usage0 = "none"
                             /\ \A k \in 1..Len(said) : said[k].kind \in Kinds
    /\ Current
    /\ to # "openai_chat" => Len(view.blocks) <= Latest
    /\ DecoderFit

(* What the client is left with.                                           *)
Settled ==
    /\ view.legal /\ view.end \in {"stop", "error"} /\ enc.open = -1
    /\ view.end = "stop" => /\ Content(view.blocks) = Content(said)
                            /\ view.usage = usage /\ (usage # "final" => phase = "ended")

Bounds ==
    /\ Supported(from, to) /\ phase \in {"start", "body", "closing", "ended"}
    /\ frags \in 0..MaxFrags /\ usage \in Usages
    /\ said \in Seq(Said) /\ Len(said) <= MaxBlocks
    /\ dec.curTool \in -1..MaxBlocks - 1 /\ {ended, failed} \subseteq BOOLEAN
    /\ ir \in {0, 1} /\ (ir = 1 => said # <<>>)

Inv ==
    /\ Bounds
    /\ ended => Settled
    /\ ~ended => Streaming

(* What was said, as the upstream goes on.                                 *)
SaidType == Kinds \union {"redacted", "unknown"}

(* The fields of a block of the upstream.                                  *)
LEMMA SaidFields ==
    ASSUME NEW b \in Said
    PROVE  /\ b.kind \in SaidType /\ b.frags \in Seq(Nat) /\ b.open \in BOOLEAN
           /\ DOMAIN b = {"kind", "frags", "open"}
BY DEF Said, SaidType

(* What the upstream has said is content.                                  *)
LEMMA SaidContent ==
    ASSUME NEW s \in Seq(Said)
    PROVE  ContentType(Content(s))
<1>1. \A k \in 1..Len(s) : s[k] \in Said
  BY ElementOfSeq
<1>2. \A k \in 1..Len(s) : s[k].frags \in Seq(Nat)
  BY <1>1, SaidFields
<1>. QED
  BY <1>2, ContentTyped

(* The upstream starts a block.                                            *)
SaysBlock(s, t, kind, fs) ==
    /\ t \in Seq(Said) /\ Len(t) = Len(s) + 1 /\ Len(s) \in Nat
    /\ \A k \in 1..Len(s) : t[k] = s[k]
    /\ t[Len(t)].kind = kind /\ t[Len(t)].frags = fs /\ t[Len(t)].open = TRUE
    /\ Content(t) = Adding(Content(s), [kind |-> kind, frags |-> fs, open |-> TRUE])
    /\ Cardinality(ToolBlocks(t)) = Cardinality(ToolBlocks(s)) + IF kind = "tool" THEN 1 ELSE 0

(* A block more, as SayBlock adds it.                                      *)
LEMMA BlockSaid ==
    ASSUME NEW s \in Seq(Said), NEW t, NEW kind \in SaidType, NEW fs \in Seq(Nat),
           t = Append(s, [kind |-> kind, frags |-> fs, open |-> TRUE])
    PROVE  SaysBlock(s, t, kind, fs)
<1> DEFINE b == [kind |-> kind, frags |-> fs, open |-> TRUE]
<1>1. b \in Said /\ b.kind = kind /\ b.frags = fs /\ b.open = TRUE
  BY DEF Said, SaidType
<1> HIDE DEF b
<1>2. t = Append(s, b)
  BY DEF b
<1>3. /\ t \in Seq(Said) /\ Len(t) = Len(s) + 1 /\ Len(s) \in Nat
      /\ \A k \in 1..Len(s) : t[k] = s[k]
      /\ t[Len(s) + 1] = b
  BY <1>1, <1>2, AppendProperties, LenProperties
<1>4. Content(t) = Adding(Content(s), b)
  BY <1>1, <1>2, ContentAppend
<1>5. Cardinality(ToolBlocks(t)) = Cardinality(ToolBlocks(s)) + IF b.kind = "tool" THEN 1 ELSE 0
  BY <1>1, <1>2, ToolBlocksAppended
<1>. QED
  BY <1>1, <1>3, <1>4, <1>5 DEF SaysBlock, b

(* A field of the last block changes.                                      *)
SaysMore(s, t, f) ==
    /\ t \in Seq(Said) /\ Len(t) = Len(s)
    /\ \A k \in 1..Len(s) : t[k].kind = s[k].kind /\ t[k].open = s[k].open
    /\ Content(t) = Extended(Content(s), s[Len(s)].kind, f)
    /\ ToolBlocks(t) = ToolBlocks(s)

(* A fragment more of the last block.                                      *)
LEMMA MoreSaid ==
    ASSUME NEW s \in Seq(Said), NEW t, Len(s) > 0, s[Len(s)].kind \in Kinds, NEW f \in Nat,
           t = [s EXCEPT ![Len(s)].frags = Append(@, f)]
    PROVE  SaysMore(s, t, f)
<1> DEFINE n == Len(s)
           new == [s[n] EXCEPT !.frags = Append(s[n].frags, f)]
<1>1. n \in Nat /\ n \in 1..n /\ DOMAIN s = 1..n /\ \A k \in 1..n : s[k] \in Said
  BY LenProperties, ElementOfSeq
<1>2. s[n] \in Said /\ s[n].frags \in Seq(Nat)
  BY <1>1, SaidFields
<1>3. Append(s[n].frags, f) \in Seq(Nat)
  BY <1>2, AppendProperties
<1>4. new \in Said /\ new.kind = s[n].kind /\ new.open = s[n].open /\ new.frags = Append(s[n].frags, f)
  BY <1>2, <1>3, SaidFields DEF Said
<1> HIDE DEF new
<1>5. t = [s EXCEPT ![n] = new]
  BY <1>1 DEF new
<1> HIDE DEF n
<1>6. /\ t \in Seq(Said) /\ Len(t) = n
      /\ \A k \in 1..n : t[k] = IF k = n THEN new ELSE s[k]
  <2> HIDE DEF Said
  <2>1. n \in 1..Len(s) /\ new \in Said /\ t = [s EXCEPT ![n] = new]
    BY <1>1, <1>4, <1>5 DEF n
  <2>2. /\ [s EXCEPT ![n] = new] \in Seq(Said) /\ Len([s EXCEPT ![n] = new]) = Len(s)
        /\ \A k \in 1..Len(s) : [s EXCEPT ![n] = new][k] = IF k = n THEN new ELSE s[k]
    BY <2>1, ExceptSeq
  <2>. QED
    BY <2>1, <2>2 DEF n
<1>7. /\ \A k \in 1..n : t[k].kind = s[k].kind /\ t[k].open = s[k].open
      /\ \A k \in 1..n : t[k].frags = IF k = n THEN Append(s[k].frags, f) ELSE s[k].frags
  BY <1>4, <1>6
<1>8. \A k \in 1..n : s[k].frags \in Seq(Nat)
  BY <1>1, SaidFields
<1>9. Content(t) = Extended(Content(s), s[n].kind, f)
  <2> HIDE DEF Said
  <2>1. t \in Seq(Said) /\ Len(t) = Len(s)
    BY <1>6 DEF n
  <2>2. \A k \in 1..Len(s) : s[k].frags \in Seq(Nat)
    BY <1>8 DEF n
  <2>3. \A k \in 1..Len(s) : t[k].kind = s[k].kind
    BY <1>7 DEF n
  <2>4. \A k \in 1..Len(s) : t[k].frags = IF k = Len(s) THEN Append(s[k].frags, f) ELSE s[k].frags
    BY <1>7 DEF n
  <2>5. Content(t) = Extended(Content(s), s[Len(s)].kind, f)
    BY <2>1, <2>2, <2>3, <2>4, ContentGrows, ZenonT(60)
  <2>. QED
    BY <2>5 DEF n
<1>10. ToolBlocks(t) = ToolBlocks(s)
  BY <1>6, <1>7, ToolBlocksSame DEF n
<1>. QED
  BY <1>6, <1>7, <1>9, <1>10 DEF SaysMore, n

(* The upstream stops a block: nothing more is said.                       *)
SaysClosed(s, t, j) ==
    /\ t \in Seq(Said) /\ Len(t) = Len(s)
    /\ \A k \in 1..Len(s) : t[k].kind = s[k].kind /\ t[k].open = IF k = j THEN FALSE ELSE s[k].open
    /\ Content(t) = Content(s)
    /\ ToolBlocks(t) = ToolBlocks(s)

(* A block that is closed says what it said.                               *)
LEMMA ClosedSaid ==
    ASSUME NEW s \in Seq(Said), NEW t, NEW j \in 1..Len(s), t = [s EXCEPT ![j].open = FALSE]
    PROVE  SaysClosed(s, t, j)
<1> DEFINE n == Len(s)
           new == [s[j] EXCEPT !.open = FALSE]
<1>1. n \in Nat /\ DOMAIN s = 1..n /\ \A k \in 1..n : s[k] \in Said
  BY LenProperties, ElementOfSeq
<1>2. new \in Said /\ new.kind = s[j].kind /\ new.open = FALSE /\ new.frags = s[j].frags
  BY <1>1, SaidFields DEF Said
<1> HIDE DEF new
<1>3. t = [s EXCEPT ![j] = new]
  BY <1>1 DEF new
<1> HIDE DEF n
<1>4. /\ t \in Seq(Said) /\ Len(t) = n
      /\ \A k \in 1..n : t[k] = IF k = j THEN new ELSE s[k]
  <2> HIDE DEF Said
  <2>1. new \in Said /\ t = [s EXCEPT ![j] = new]
    BY <1>2, <1>3
  <2>2. /\ [s EXCEPT ![j] = new] \in Seq(Said) /\ Len([s EXCEPT ![j] = new]) = Len(s)
        /\ \A k \in 1..Len(s) : [s EXCEPT ![j] = new][k] = IF k = j THEN new ELSE s[k]
    BY <2>1, ExceptSeq
  <2>. QED
    BY <2>1, <2>2 DEF n
<1>5. \A k \in 1..n : /\ t[k].kind = s[k].kind /\ t[k].frags = s[k].frags
                       /\ t[k].open = IF k = j THEN FALSE ELSE s[k].open
  <2> TAKE k \in 1..n
  <2>1. s[k] \in Said /\ s[k].open \in BOOLEAN
    BY <1>1, SaidFields
  <2>. QED
    BY <1>2, <1>4, <2>1
<1>6. Content(t) = Content(s)
  BY <1>4, <1>5, ContentSame DEF n
<1>7. ToolBlocks(t) = ToolBlocks(s)
  BY <1>4, <1>5, ToolBlocksSame DEF n
<1>. QED
  BY <1>4, <1>5, <1>6, <1>7 DEF SaysClosed, n

(* The tool calls before a block, which number it.                         *)
ToolsBefore(s, k) == Cardinality({m \in 1..k - 1 : s[m].kind = "tool"})

(* The last tool call has the last number.                                 *)
LEMMA ToolsCounted ==
    ASSUME NEW s \in Seq(Said)
    PROVE  /\ ToolsBefore(s, Len(s) + 1) = Cardinality(ToolBlocks(s))
           /\ Len(s) > 0 /\ s[Len(s)].kind = "tool" => ToolsBefore(s, Len(s)) = Cardinality(ToolBlocks(s)) - 1
           /\ Cardinality(ToolBlocks(s)) \in 0..Len(s)
<1> DEFINE n == Len(s)
           t == ToolBlocks(s)
<1>1. n \in Nat
  BY LenProperties
<1>2. /\ IsFiniteSet(t) /\ t \subseteq 1..n /\ \A k \in 1..n : k \in t <=> s[k].kind = "tool"
      /\ Cardinality(t) \in Nat /\ Cardinality(t) <= n
  BY ToolBlocksFinite
<1> HIDE DEF t, n
<1>3. {m \in 1..(n + 1) - 1 : s[m].kind = "tool"} = t
  <2>1. (n + 1) - 1 = n
    BY <1>1
  <2>. QED
    BY <1>2, <2>1
<1>4. ASSUME n > 0, s[n].kind = "tool"
      PROVE  ToolsBefore(s, n) = Cardinality(t) - 1
  <2>1. n \in t
    BY <1>1, <1>2, <1>4
  <2>2. {m \in 1..n - 1 : s[m].kind = "tool"} = t \ {n}
    <3>1. \A m : m \in 1..n - 1 <=> m \in 1..n /\ m # n
      BY <1>1
    <3>. QED
      BY <1>2, <3>1
  <2>3. Cardinality(t \ {n}) = Cardinality(t) - 1
    BY <1>2, <2>1, FS_RemoveElement
  <2>. QED
    BY <2>2, <2>3 DEF ToolsBefore
<1>5. ToolsBefore(s, n + 1) = Cardinality(t)
  BY <1>3 DEF ToolsBefore
<1>6. Cardinality(t) \in 0..n
  BY <1>1, <1>2
<1>. QED
  BY <1>4, <1>5, <1>6 DEF t, n

-----------------------------------------------------------------------------
(***************************************************************************)
(* One step of the handler, and what it leaves to show.                    *)
(***************************************************************************)
(* The handler's step.                                                     *)
Now == [enc |-> enc, view |-> view, ended |-> ended, ir |-> ir]

Result(e) == FeedAll(Now, Events(ToIR(from, dec, e)))

(* The step that leaves the client with b and the decoder with x.          *)
Steps(x, b) ==
    /\ dec' = x.dec /\ failed' = x.err
    /\ enc' = b.enc /\ view' = b.view /\ ended' = b.ended /\ ir' = b.ir

(* Feed's effect on the variables.                                         *)
LEMMA FeedStep ==
    ASSUME NEW e, Feed(e)
    PROVE  Steps(ToIR(from, dec, e), Result(e))
BY DEF Feed, Deliver, Steps, Result, Now

(* The fields of what the client has now.                                  *)
LEMMA NowFields ==
    Now.enc = enc /\ Now.view = view /\ Now.ended = ended /\ Now.ir = ir
BY DEF Now

(* The fields of an upstream event.                                        *)
LEMMA UpFields ==
    \A t, k, i, f, u : /\ Up(t, k, i, f, u).type = t /\ Up(t, k, i, f, u).kind = k
                       /\ Up(t, k, i, f, u).index = i /\ Up(t, k, i, f, u).frag = f
                       /\ Up(t, k, i, f, u).usage = u
BY DEF Up

(* Where the stream is, as long as it has not ended.                       *)
LEMMA Situation ==
    ASSUME Inv, ~ended
    PROVE  /\ Sound(Now.enc, Now.view) /\ Now.ended = FALSE /\ Now.ended \in BOOLEAN
           /\ Now.enc = enc /\ Now.view = view /\ Now.ir = ir /\ Now.ir \in {0, 1}
           /\ to \in Protocols /\ from \in Protocols /\ from # to
           /\ DecoderType(dec) /\ Streaming /\ Bounds
           /\ said \in Seq(Said) /\ Latest \in 0..MaxBlocks /\ ContentType(Content(said))
           /\ Content(view.blocks) = Content(said) /\ Len(view.blocks) \in Nat
<1>1. Streaming /\ Bounds
  BY DEF Inv
<1>2. Sound(enc, view) /\ DecoderType(dec) /\ Content(view.blocks) = Content(said)
  BY <1>1 DEF Streaming
<1>3. /\ Supported(from, to) /\ said \in Seq(Said) /\ Len(said) <= MaxBlocks /\ ir \in {0, 1}
      /\ ended \in BOOLEAN
  BY <1>1 DEF Bounds
<1>4. Now.enc = enc /\ Now.view = view /\ Now.ended = FALSE /\ Now.ir = ir
  BY <1>3, NowFields
<1>5. to \in Protocols /\ from \in Protocols /\ from # to
  BY <1>3 DEF Supported
<1>6. Latest \in 0..MaxBlocks
  BY <1>3, LenProperties, CodecsAssumption DEF Latest
<1>7. Len(view.blocks) \in Nat
  BY <1>2, LenProperties DEF Sound, Typed, ViewType
<1>8. ContentType(Content(said))
  BY <1>3, SaidContent
<1>. QED
  BY <1>1, <1>2, <1>3, <1>4, <1>5, <1>6, <1>7, <1>8

(* What is shown of the result holds in the next state.                    *)
LEMMA SoundNext ==
    ASSUME NEW b, enc' = b.enc, view' = b.view, to' = to, Sound(b.enc, b.view)
    PROVE  Sound(enc, view)'
<1>1. Sound(enc', view')
  OBVIOUS
<1>. QED
  BY <1>1 DEF Sound, Typed, Fits, FramedFit, ChatFit, EncoderType, ViewType

(* The encoder is ready for the block under way in the next state.         *)
LEMMA ReadyNext ==
    ASSUME NEW b, NEW i, enc' = b.enc, view' = b.view, to' = to,
           Ready(b.enc, b.view, i), IRIndex' = i
    PROVE  Ready(enc, view, IRIndex)'
<1>1. Ready(enc', view', IRIndex')
  OBVIOUS
<1>. QED
  BY <1>1 DEF Ready, ReadyChat

(* The decoder's state is well typed in the next state.                    *)
LEMMA DecoderTypeNext ==
    ASSUME NEW d, DecoderType(d), dec' = d
    PROVE  DecoderType(dec)'
BY DEF DecoderType

(* Bounds in the next state.                                               *)
LEMMA BoundsNext ==
    ASSUME Bounds, to' = to, from' = from, phase' \in {"start", "body", "closing", "ended"},
           frags' \in 0..MaxFrags, usage' \in Usages, said' \in Seq(Said), Len(said') <= MaxBlocks,
           dec'.curTool \in -1..MaxBlocks - 1, ended' \in BOOLEAN, failed' \in BOOLEAN,
           ir' \in {0, 1}, ir' = 1 => said' # <<>>
    PROVE  Bounds'
BY DEF Bounds, Supported

(* Settled in the next state.                                              *)
LEMMA SettledNext ==
    ASSUME view'.legal, view'.end \in {"stop", "error"}, enc'.open = -1,
           view'.end = "stop" => /\ Content(view'.blocks) = Content(said')
                                 /\ view'.usage = usage' /\ (usage' # "final" => phase' = "ended")
    PROVE  Settled'
BY DEF Settled

(* After the end of the stream: what is left of the invariant.             *)
LEMMA EndedNext ==
    ASSUME Bounds', Settled', ended' = TRUE
    PROVE  Inv'
BY DEF Inv

(* As long as the stream goes on.                                          *)
LEMMA GoesOn ==
    ASSUME Bounds', Streaming', ended' = FALSE
    PROVE  Inv'
BY DEF Inv

-----------------------------------------------------------------------------
(***************************************************************************)
(* The invariant is preserved, action by action.                           *)
(***************************************************************************)
(* The ways a stream ends.                                                 *)
LEMMA Errs ==
    ASSUME Inv, ~ended, NEW x, NEW b, Steps(x, b), x.dec = dec, x.err \in BOOLEAN,
           Terminated(Now, b, Plain("error")), to' = to, from' = from,
           phase' \in {"start", "body", "closing", "ended"}, frags' = frags, usage' = usage,
           said' \in Seq(Said), Len(said') <= MaxBlocks, said # <<>> => said' # <<>>
    PROVE  Inv'
<1>1. Bounds /\ Now.ir = ir /\ Sound(Now.enc, Now.view)
  BY Situation
<1>2. /\ b.view.legal /\ b.view.end = "error" /\ b.ended = TRUE /\ b.ir = ir /\ b.enc.open = -1
  <2>1. Plain("error").kind = "error"
    BY EventFields
  <2>. QED
    BY <1>1, <2>1 DEF Terminated
<1>3. /\ view'.legal /\ view'.end = "error" /\ ended' = TRUE /\ ir' = ir /\ enc'.open = -1
      /\ dec' = dec /\ failed' \in BOOLEAN
  BY <1>2 DEF Steps
<1>4. /\ frags \in 0..MaxFrags /\ usage \in Usages /\ dec.curTool \in -1..MaxBlocks - 1
      /\ ir \in {0, 1} /\ (ir = 1 => said # <<>>)
  BY <1>1 DEF Bounds
<1>5. dec'.curTool \in -1..MaxBlocks - 1 /\ ended' \in BOOLEAN
  BY <1>3, <1>4
<1>6. Bounds'
  BY <1>1, <1>3, <1>4, <1>5, BoundsNext
<1>7. Settled'
  BY <1>3, SettledNext
<1>. QED
  BY <1>3, <1>6, <1>7, EndedNext

(* A step that ends the message well.                                      *)
LEMMA Stops ==
    ASSUME Inv, ~ended, NEW x, NEW b, Steps(x, b), x.err = FALSE,
           x.dec.curTool \in -1..MaxBlocks - 1,
           b.view.legal, b.view.end = "stop", b.ended = TRUE, b.enc.open = -1,
           Content(b.view.blocks) = Content(said), b.view.usage = usage',
           usage' # "final" => phase' = "ended", b.ir \in {0, 1}, b.ir = 1 => ir = 1,
           to' = to, from' = from, said' = said, frags' = frags,
           phase' \in {"closing", "ended"}, usage' \in Usages
    PROVE  Inv'
<1>1. Bounds
  BY Situation
<1>3. /\ view'.legal /\ view'.end = "stop" /\ ended' = TRUE /\ ir' = b.ir /\ enc'.open = -1
      /\ dec'.curTool \in -1..MaxBlocks - 1 /\ failed' = FALSE /\ ended' \in BOOLEAN /\ failed' \in BOOLEAN
      /\ Content(view'.blocks) = Content(said') /\ view'.usage = usage'
  BY DEF Steps
<1>4. /\ frags \in 0..MaxFrags /\ said \in Seq(Said) /\ Len(said) <= MaxBlocks
      /\ ir \in {0, 1} /\ (ir = 1 => said # <<>>)
  BY <1>1 DEF Bounds
<1>5. ir' \in {0, 1} /\ (ir' = 1 => said' # <<>>) /\ said' \in Seq(Said) /\ Len(said') <= MaxBlocks
      /\ phase' \in {"start", "body", "closing", "ended"} /\ frags' \in 0..MaxFrags
  BY <1>3, <1>4
<1>6. Bounds'
  BY <1>1, <1>3, <1>5, BoundsNext
<1>7. Settled'
  BY <1>3, SettledNext
<1>. QED
  BY <1>3, <1>6, <1>7, EndedNext

(* The upstream's own error.                                               *)
LEMMA SendErrorInv ==
    ASSUME Inv, SendError
    PROVE  Inv'
<1> DEFINE e == Up("error", "none", 0, 0, "none")
           x == ToIR(from, dec, e)
           b == Result(e)
<1>1. /\ ~ended /\ Feed(e) /\ phase' = "ended" /\ to' = to /\ from' = from
      /\ said' = said /\ frags' = frags /\ usage' = usage
  BY DEF SendError, Unchanged
<1>2. e.type = "error"
  BY UpFields
<1> HIDE DEF e
<1>3. Steps(x, b)
  BY <1>1, FeedStep
<1>4. x.err = FALSE /\ x.dec = dec /\ Terminated(Now, b, Plain("error"))
  <2>1. Sound(Now.enc, Now.view) /\ to \in Protocols /\ from \in Protocols
    BY <1>1, Situation
  <2>. QED
    BY <1>2, <2>1, ErrorSent DEF Result
<1>5. said \in Seq(Said) /\ Len(said) <= MaxBlocks
  BY DEF Inv, Bounds
<1> HIDE DEF x, b
<1>. QED
  BY <1>1, <1>3, <1>4, <1>5, Errs

(* A block of a kind no decoder knows ends the stream.                     *)
LEMMA StartUnknownInv ==
    ASSUME Inv, StartBlock("unknown")
    PROVE  Inv'
<1> DEFINE e == Up("block_start", "unknown", Index(Len(said) + 1), 0, "none")
           x == ToIR(from, dec, e)
           b == Result(e)
<1>1. /\ ~ended /\ Feed(e) /\ phase' = phase /\ to' = to /\ from' = from /\ from = "anthropic"
      /\ frags' = frags /\ usage' = usage /\ Len(said) < MaxBlocks
      /\ said' = Append(said, [kind |-> "unknown", frags |-> <<>>, open |-> TRUE])
  BY DEF StartBlock, Unchanged, SayBlock
<1>2. e.type = "block_start" /\ e.kind = "unknown"
  BY UpFields
<1> HIDE DEF e
<1>3. Steps(x, b)
  BY <1>1, FeedStep
<1>4. x.err = TRUE /\ x.dec = dec /\ Terminated(Now, b, Plain("error"))
  <2>1. Sound(Now.enc, Now.view) /\ to \in Protocols
    BY <1>1, Situation
  <2>. QED
    BY <1>1, <1>2, <2>1, Unreadable DEF Result
<1>5. said \in Seq(Said) /\ phase \in {"start", "body", "closing", "ended"}
  BY DEF Inv, Bounds
<1>6. said' \in Seq(Said) /\ Len(said') <= MaxBlocks /\ said' # <<>>
  <2>1. "unknown" \in SaidType /\ <<>> \in Seq(Nat)
    BY EmptySeq DEF SaidType
  <2>2. SaysBlock(said, said', "unknown", <<>>)
    BY <1>1, <1>5, <2>1, BlockSaid
  <2>3. said' \in Seq(Said) /\ Len(said') = Len(said) + 1 /\ Len(said) \in Nat
    BY <2>2 DEF SaysBlock
  <2>. QED
    BY <1>1, <2>3, EmptySeq, CodecsAssumption
<1> HIDE DEF x, b
<1>. QED
  BY <1>1, <1>3, <1>4, <1>5, <1>6, Errs

(* The upstream's end: message_stop, response.completed, [DONE].           *)
LEMMA ResultOf ==
    ASSUME NEW e, ToIR(from, dec, e).err = FALSE
    PROVE  Result(e) = FeedAll(Now, ToIR(from, dec, e).evs)
BY EventsOf DEF Result

(* The last event of a framed stream.                                      *)
LEMMA SendEndFramed ==
    ASSUME Inv, SendEnd, from # "openai_chat"
    PROVE  Inv'
<1> DEFINE u == IF from = "openai_responses" THEN "final" ELSE "none"
           e == Up("stop", "none", 0, 0, u)
           x == ToIR(from, dec, e)
           b == Result(e)
           said2 == LastUsage(from, dec, e)
           ev == IR("message_stop", 0, 0, said2)
<1>1. /\ ~ended /\ Feed(e) /\ phase' = "ended" /\ to' = to /\ from' = from
      /\ said' = said /\ frags' = frags
      /\ usage' = IF from = "openai_responses" THEN "final" ELSE usage
      /\ phase = (IF from = "openai_responses" THEN "body" ELSE "closing")
  BY DEF SendEnd, Unchanged, Blocky
<1>2. e.type = "stop" /\ e.usage = u /\ u \in Usages
  BY UpFields DEF Usages
<1>3. /\ Sound(Now.enc, Now.view) /\ to \in Protocols /\ from \in Protocols /\ from # to /\ DecoderType(dec)
      /\ Now.ended \in BOOLEAN /\ Now.enc = enc /\ Now.view = view /\ Now.ir = ir /\ ir \in {0, 1}
      /\ Streaming /\ Bounds /\ Content(view.blocks) = Content(said)
  BY <1>1, Situation
<1>4. from \in Framing
  BY <1>3 DEF Protocols, Framing
<1>5. usage \in Usages /\ dec.curTool \in -1..MaxBlocks - 1
  BY <1>3 DEF Bounds
<1>6. (from = "anthropic" => dec.usage = usage) /\ (from = "openai_responses" => dec.stopped = FALSE)
  <2>1. DecoderFit
    BY <1>3 DEF Streaming
  <2>. QED
    BY <2>1 DEF DecoderFit, AnthropicFit, ResponsesFit
<1> HIDE DEF e, u
<1>7. Steps(x, b)
  BY <1>1, FeedStep
<1>8. /\ x.err = FALSE /\ x.dec = (IF from = "anthropic" THEN dec ELSE [dec EXCEPT !.stopped = TRUE])
      /\ Terminated(Now, b, ev)
  <2>1. dec.usage \in Usages /\ (from # "anthropic" => dec.stopped = FALSE) /\ e.usage \in Usages
    BY <1>2, <1>3, <1>4, <1>6 DEF DecoderType, Framing
  <2>2. MessageStopped(from, dec, e, x, Now, b)
    BY <1>2, <1>3, <1>4, <2>1, StopsMessage DEF Result
  <2>. QED
    BY <2>2 DEF MessageStopped
<1> HIDE DEF x, b
<1>9. x.dec.curTool \in -1..MaxBlocks - 1
  BY <1>3, <1>5, <1>8 DEF DecoderType
<1>10. ev.kind = "message_stop" /\ ev.usage = said2
  BY EventFields
<1> HIDE DEF ev
<1>11. /\ b.view.legal /\ b.view.end = "stop" /\ b.ended = TRUE /\ b.enc.open = -1 /\ b.ir = ir
       /\ Content(b.view.blocks) = Content(said)
       /\ b.view.usage = IF to = "anthropic" /\ said2 = "none" THEN enc.usage0 ELSE said2
  BY <1>3, <1>8, <1>10 DEF Terminated
<1>12. usage' = said2 /\ ~(to = "anthropic" /\ said2 = "none")
  <2>1. CASE from = "anthropic"
    BY <1>1, <1>3, <1>6, <2>1 DEF LastUsage
  <2>2. CASE from = "openai_responses"
    BY <1>1, <1>2, <2>2 DEF u, LastUsage
  <2>. QED
    BY <1>4, <2>1, <2>2 DEF Framing
<1>13. usage' \in Usages
  BY <1>1, <1>5 DEF Usages
<1> HIDE DEF said2
<1>14. b.view.usage = usage'
  BY <1>11, <1>12
<1>. QED
  BY <1>1, <1>3, <1>7, <1>8, <1>9, <1>11, <1>13, <1>14, Stops

(* A Chat stream ends with [DONE], with finish_reason and usage, or with   *)
(* usage alone.                                                            *)
LEMMA ChatStops ==
    ASSUME Inv, ~ended, from = "openai_chat", NEW x, NEW b, NEW u \in {"none", "final"},
           NEW n, Steps(x, b),
           ChatStopped(Now, b, x, u, n), n \in {0, 1}, n = 1 => ir = 1,
           usage' = u, u = "none" => phase' = "ended",
           to' = to, from' = from, said' = said, frags' = frags, phase' \in {"closing", "ended"}
    PROVE  Inv'
<1>1. Now.enc = enc /\ Now.view = view /\ Streaming /\ Content(view.blocks) = Content(said)
  BY Situation
<1>2. enc.usage0 = "none"
  BY <1>1 DEF Streaming
<1>3. /\ x.err = FALSE /\ x.dec.curTool = -1 /\ b.view.legal /\ b.view.end = "stop" /\ b.ended = TRUE
      /\ b.enc.open = -1 /\ Content(b.view.blocks) = Content(said) /\ b.ir = n /\ b.view.usage = u
  BY <1>1, <1>2 DEF ChatStopped, Stopped
<1>4. x.dec.curTool \in -1..MaxBlocks - 1
  BY <1>3, CodecsAssumption
<1>5. usage' \in Usages /\ (usage' # "final" => phase' = "ended")
  BY DEF Usages
<1>. QED
  BY <1>3, <1>4, <1>5, Stops

(* Where a Chat upstream and its decoder are.                              *)
LEMMA ChatSituation ==
    ASSUME Inv, ~ended, from = "openai_chat"
    PROVE  /\ ChatInFit /\ DecoderType(dec) /\ usage = "none" /\ dec.usage = "none" /\ dec.stopped = FALSE
           /\ dec.started = (phase # "start") /\ dec.finish = (phase = "closing")
           /\ (phase = "closing" => dec.curTool = -1)
           /\ ir = Ending(dec) /\ ir \in {0, 1} /\ enc.usage0 = "none" /\ dec.curTool \in -1..MaxBlocks - 1
           /\ to # "openai_chat"
<1>1. Streaming /\ Bounds /\ DecoderType(dec) /\ from # to
  BY Situation
<1>2. ChatInFit /\ enc.usage0 = "none"
  BY <1>1 DEF Streaming, DecoderFit
<1>3. dec.curTool \in -1..MaxBlocks - 1
  BY <1>1 DEF DecoderType
<1>4. ir = Ending(dec)
  BY <1>2, <1>3, CodecsAssumption DEF ChatInFit, Ending
<1>. QED
  BY <1>1, <1>2, <1>3, <1>4 DEF ChatInFit, Bounds

(* [DONE], when no usage came.                                             *)
LEMMA SendEndChat ==
    ASSUME Inv, SendEnd, from = "openai_chat"
    PROVE  Inv'
<1> DEFINE e == Up("done", "none", 0, 0, "none")
           x == ToIR(from, dec, e)
           b == Result(e)
<1>1. /\ ~ended /\ Feed(e) /\ phase' = "ended" /\ to' = to /\ from' = from
      /\ said' = said /\ frags' = frags /\ usage' = usage /\ phase = "closing"
  BY DEF SendEnd, Unchanged, Blocky
<1>2. e.type = "done"
  BY UpFields
<1>3. Sound(Now.enc, Now.view) /\ to \in Protocols /\ Now.ended = FALSE /\ Now.ir = ir
  BY <1>1, Situation
<1>4. /\ DecoderType(dec) /\ dec.started = TRUE /\ dec.stopped = FALSE /\ dec.curTool = -1 /\ dec.usage = "none"
      /\ usage = "none" /\ ir \in {0, 1}
  BY <1>1, ChatSituation
<1> HIDE DEF e
<1>5. Steps(x, b)
  BY <1>1, FeedStep
<1>6. ChatStopped(Now, FeedAll(Now, ChatToIR(dec, e).evs), ChatToIR(dec, e), dec.usage, Now.ir)
  BY <1>2, <1>3, <1>4, ChatDone
<1>7. x = ChatToIR(dec, e)
  BY Decoders
<1>8. x.err = FALSE
  BY <1>6, <1>7 DEF ChatStopped
<1>9. b = FeedAll(Now, x.evs)
  BY <1>8, ResultOf
<1> HIDE DEF x, b
<1>10. ChatStopped(Now, b, x, "none", ir)
  BY <1>3, <1>4, <1>6, <1>7, <1>9
<1>. QED
  BY <1>1, <1>4, <1>5, <1>10, ChatStops

(* Usage in a chunk of its own.                                            *)
LEMMA SendUsageInv ==
    ASSUME Inv, SendUsage
    PROVE  Inv'
<1> DEFINE e == Up("usage", "none", 0, 0, "final")
           x == ToIR(from, dec, e)
           b == Result(e)
<1>1. /\ ~ended /\ Feed(e) /\ phase' = "closing" /\ to' = to /\ from' = from
      /\ said' = said /\ frags' = frags /\ usage' = "final" /\ phase = "closing" /\ from = "openai_chat"
  BY DEF SendUsage, Unchanged, Blocky
<1>2. e.type = "usage" /\ e.usage = "final"
  BY UpFields
<1>3. Sound(Now.enc, Now.view) /\ to \in Protocols /\ Now.ended = FALSE /\ Now.ir = ir
  BY <1>1, Situation
<1>4. /\ DecoderType(dec) /\ dec.started = TRUE /\ dec.stopped = FALSE /\ dec.curTool = -1 /\ dec.finish = TRUE
      /\ ir \in {0, 1}
  BY <1>1, ChatSituation
<1> HIDE DEF e
<1>5. Steps(x, b)
  BY <1>1, FeedStep
<1>6. ChatStopped(Now, FeedAll(Now, ChatToIR(dec, e).evs), ChatToIR(dec, e), "final", Now.ir)
  BY <1>2, <1>3, <1>4, ChatUsage
<1>7. x = ChatToIR(dec, e)
  BY <1>1, Decoders
<1>8. x.err = FALSE
  BY <1>6, <1>7 DEF ChatStopped
<1>9. b = FeedAll(Now, x.evs)
  BY <1>8, ResultOf
<1> HIDE DEF x, b
<1>10. ChatStopped(Now, b, x, "final", ir)
  BY <1>3, <1>6, <1>7, <1>9
<1>. QED
  BY <1>1, <1>4, <1>5, <1>10, ChatStops

(* finish_reason and usage in one chunk.                                   *)
LEMMA SendFinishUsageInv ==
    ASSUME Inv, SendClosing("final"), from = "openai_chat"
    PROVE  Inv'
<1> DEFINE e == Up("finish", "none", 0, 0, "final")
           x == ToIR(from, dec, e)
           b == Result(e)
           n == Now.ir - Ending(dec)
<1>1. /\ ~ended /\ Feed(e) /\ phase' = "closing" /\ to' = to /\ from' = from
      /\ said' = said /\ frags' = frags /\ usage' = "final" /\ phase = "body"
  BY DEF SendClosing, Unchanged, Blocky
<1>2. e.type = "finish" /\ e.usage = "final"
  BY UpFields
<1>3. Sound(Now.enc, Now.view) /\ to \in Protocols /\ Now.ended = FALSE /\ Now.ir = ir
  BY <1>1, Situation
<1>4. /\ DecoderType(dec) /\ dec.started = TRUE /\ dec.stopped = FALSE /\ dec.usage = "none"
      /\ ir = Ending(dec) /\ ir \in {0, 1}
  BY <1>1, ChatSituation
<1> HIDE DEF e
<1>5. Steps(x, b)
  BY <1>1, FeedStep
<1>6. ChatStopped(Now, FeedAll(Now, ChatToIR(dec, e).evs), ChatToIR(dec, e), "final", n)
  <2>1. e.usage \in {"none", "final"} /\ Now.ir \in Int
    BY <1>2, <1>3, <1>4
  <2>. QED
    BY <1>2, <1>3, <1>4, <2>1, ChatFinishes
<1>7. x = ChatToIR(dec, e)
  BY Decoders
<1>8. x.err = FALSE
  BY <1>6, <1>7 DEF ChatStopped
<1>9. b = FeedAll(Now, x.evs)
  BY <1>8, ResultOf
<1> HIDE DEF x, b
<1>10. ChatStopped(Now, b, x, "final", n)
  BY <1>6, <1>7, <1>9
<1>11. n = 0
  BY <1>3, <1>4
<1>. QED
  BY <1>1, <1>5, <1>10, <1>11, ChatStops

(* The start of a message, and a finish_reason or usage that ends nothing. *)
LEMMA StreamingNext ==
    ASSUME NEW b, enc' = b.enc, view' = b.view, to' = to, from' = from,
           Sound(b.enc, b.view),
           NEW d, DecoderType(d), dec' = d,
           Content(view'.blocks) = Content(said'), phase' \in {"body", "closing"},
           \A k \in 1..Len(said') : said'[k].open /\ from # "openai_chat" => k = Len(said'),
           from # "anthropic" => /\ b.enc.usage0 = "none"
                                 /\ \A k \in 1..Len(said') : said'[k].kind \in Kinds,
           Current', to # "openai_chat" => Len(view'.blocks) <= Len(said'), DecoderFit'
    PROVE  Streaming'
<1>1. Sound(enc, view)' /\ DecoderType(dec)'
  BY SoundNext, DecoderTypeNext
<1>. QED
  BY <1>1 DEF Streaming, Latest, Blocky

(* Before the first block.                                                 *)
LEMMA NothingSaid ==
    ASSUME said = <<>>
    PROVE  Latest = 0 /\ ~LastOpen /\ CallOpen = 0 /\ Current /\ ToolCount = 0
<1>1. Len(said) = 0 /\ said \in Seq(Said)
  BY EmptySeq
<1>2. ToolCount = 0
  <2>1. ToolBlocks(said) \subseteq 1..Len(said)
    BY <1>1, ToolBlocksFinite
  <2>2. ToolBlocks(said) = {}
    BY <1>1, <2>1
  <2>. QED
    BY <2>2, FS_EmptySet DEF ToolCount
<1>. QED
  BY <1>1, <1>2 DEF Latest, LastOpen, CallOpen, Current

(* The message starts.                                                     *)
LEMMA StartMessageInv ==
    ASSUME Inv, StartMessage
    PROVE  Inv'
<1> DEFINE e == Up(IF from # "openai_chat" THEN "start" ELSE "chunk", "none", 0, 0, usage')
           x == ToIR(from, dec, e)
           b == Result(e)
<1>1. /\ ~ended /\ Feed(e) /\ phase = "start" /\ phase' = "body" /\ to' = to /\ from' = from
      /\ said' = said /\ frags' = frags /\ usage' = IF from = "anthropic" THEN "input" ELSE usage
  BY DEF StartMessage, Unchanged, Blocky
<1>2. e.type = (IF from # "openai_chat" THEN "start" ELSE "chunk") /\ e.kind = "none" /\ e.usage = usage'
  BY UpFields
<1>3. /\ Sound(Now.enc, Now.view) /\ Now.ended = FALSE /\ Now.ended \in BOOLEAN
      /\ Now.enc = enc /\ Now.view = view /\ Now.ir = ir /\ Now.ir \in {0, 1}
      /\ to \in Protocols /\ from \in Protocols /\ from # to
      /\ DecoderType(dec) /\ Streaming /\ Bounds
      /\ Content(view.blocks) = Content(said)
  BY <1>1, Situation
<1>4. said = <<>> /\ view.blocks = <<>> /\ DecoderFit
  BY <1>1, <1>3 DEF Streaming
<1>5. from # "anthropic" => enc.usage0 = "none" /\ dec.started = FALSE
  <2>1. CASE from = "openai_chat"
    BY <1>1, <2>1, ChatSituation
  <2>2. CASE from = "openai_responses"
    BY <1>1, <1>3, <1>4, <2>2 DEF DecoderFit, ResponsesFit, Streaming
  <2>. QED
    BY <1>3, <2>1, <2>2 DEF Protocols
<1> HIDE DEF e
<1>6. Steps(x, b)
  BY <1>1, FeedStep
<1>7. usage' \in Usages /\ usage \in Usages
  BY <1>1, <1>3 DEF Bounds, Usages
<1>8. /\ x.err = FALSE /\ Opening(Now, b, IF from = "anthropic" THEN IR("message_start", 0, 0, "input")
                                                          ELSE Plain("message_start"))
      /\ DecoderType(x.dec) /\ x.dec.stopped = dec.stopped /\ x.dec.curTool = dec.curTool
      /\ x.dec.blocks = dec.blocks /\ x.dec.finish = dec.finish
      /\ (from = "anthropic" => x.dec.usage = "input")
      /\ (from # "anthropic" => x.dec.started = TRUE /\ x.dec.usage = dec.usage)
  <2>1. CASE from = "openai_chat"
    <3>1. dec.started = FALSE /\ dec.finish = FALSE /\ usage = "none"
      BY <1>1, <2>1, ChatSituation
    <3>2. e.type = "chunk" /\ e.kind = "none" /\ e.usage = "none"
      BY <1>1, <1>2, <2>1, <3>1
    <3>3. ChatOpened(dec, e, ChatToIR(dec, e), Now, FeedAll(Now, ChatToIR(dec, e).evs))
      BY <1>3, <1>4, <3>1, <3>2, ChatFirst
    <3>4. x = ChatToIR(dec, e)
      BY <2>1, Decoders
    <3>5. x.err = FALSE
      BY <3>3, <3>4 DEF ChatOpened
    <3>6. b = FeedAll(Now, x.evs)
      BY <3>5, ResultOf
    <3> HIDE DEF x, b
    <3>. QED
      BY <2>1, <3>2, <3>3, <3>4, <3>6 DEF ChatOpened, Begun
  <2>2. CASE from # "openai_chat"
    <3>1. from \in Framing
      BY <1>3, <2>2 DEF Framing, Protocols
    <3>2. e.type = "start" /\ e.usage \in Usages
      BY <1>2, <1>7, <2>2
    <3>3. MessageStarted(from, dec, e, x, Now, b)
      BY <1>3, <1>4, <1>5, <3>1, <3>2, StartsMessage DEF Result
    <3> HIDE DEF x, b
    <3>4. FirstEvent(from, e) = IF from = "anthropic" THEN IR("message_start", 0, 0, "input")
                                                     ELSE Plain("message_start")
      BY <1>1, <1>2 DEF FirstEvent
    <3>5. x.dec = IF from = "anthropic" THEN [dec EXCEPT !.usage = "input"] ELSE [dec EXCEPT !.started = TRUE]
      BY <1>1, <1>2, <3>3 DEF MessageStarted
    <3>6. /\ DecoderType(x.dec) /\ x.dec.stopped = dec.stopped /\ x.dec.curTool = dec.curTool
          /\ x.dec.blocks = dec.blocks /\ x.dec.finish = dec.finish
          /\ (from = "anthropic" => x.dec.usage = "input")
          /\ (from # "anthropic" => x.dec.started = TRUE /\ x.dec.usage = dec.usage)
      BY <1>3, <3>5 DEF DecoderType, Usages
    <3>. QED
      BY <3>3, <3>4, <3>6 DEF MessageStarted
  <2>. QED
    BY <2>1, <2>2
<1> HIDE DEF x, b
<1>9. /\ Sound(b.enc, b.view) /\ b.ended = FALSE /\ b.ir = ir /\ b.view = view
      /\ from # "anthropic" => b.enc.usage0 = "none"
  BY <1>3, <1>5, <1>8, EventFields DEF Opening
<1>10. /\ enc' = b.enc /\ view' = view /\ ended' = FALSE /\ ir' = ir /\ dec' = x.dec /\ failed' = FALSE
  BY <1>6, <1>8, <1>9 DEF Steps
<1>11. Len(said') = 0 /\ said' = <<>>
  BY <1>1, <1>4, EmptySeq
<1>12. Latest = 0 /\ ~LastOpen /\ CallOpen = 0 /\ ToolCount = 0
  BY <1>4, NothingSaid
<1>13. Latest' = 0 /\ ~LastOpen' /\ CallOpen' = 0 /\ ToolCount' = ToolCount /\ Current'
  BY <1>1, <1>11, <1>12 DEF Latest, LastOpen, CallOpen, ToolCount, Current
<1>14. DecoderFit'
  <2>1. CASE from = "anthropic"
    <3>1. AnthropicFit
      BY <1>4, <2>1 DEF DecoderFit
    <3>2. AnthropicFit'
      BY <1>1, <1>8, <1>10, <1>12, <1>13, <2>1, <3>1 DEF AnthropicFit
    <3>. QED
      BY <1>1, <2>1, <3>2 DEF DecoderFit
  <2>2. CASE from = "openai_chat"
    <3>1. ChatInFit
      BY <1>4, <2>2 DEF DecoderFit
    <3>2. ChatInFit'
      BY <1>1, <1>8, <1>10, <1>12, <1>13, <2>2, <3>1 DEF ChatInFit
    <3>. QED
      BY <1>1, <2>2, <3>2 DEF DecoderFit
  <2>3. CASE from = "openai_responses"
    <3>1. ResponsesFit
      BY <1>4, <2>3 DEF DecoderFit
    <3>2. ResponsesFit'
      BY <1>1, <1>8, <1>10, <1>12, <1>13, <2>3, <3>1 DEF ResponsesFit
    <3>. QED
      BY <1>1, <2>3, <3>2 DEF DecoderFit
  <2>. QED
    BY <1>3, <2>1, <2>2, <2>3 DEF Protocols
<1>15. Streaming'
  <2>1. Len(view'.blocks) <= Len(said')
    BY <1>4, <1>10, <1>11, EmptySeq
  <2>2. view' = b.view /\ Content(view'.blocks) = Content(said')
    BY <1>1, <1>3, <1>9, <1>10
  <2>3. /\ \A k \in 1..Len(said') : said'[k].open /\ from # "openai_chat" => k = Len(said')
        /\ \A k \in 1..Len(said') : said'[k].kind \in Kinds
    BY <1>11
  <2>. QED
    BY <1>1, <1>8, <1>9, <1>10, <1>13, <1>14, <2>1, <2>2, <2>3, StreamingNext
<1>16. Bounds'
  <2>1. /\ frags \in 0..MaxFrags /\ said \in Seq(Said) /\ Len(said) <= MaxBlocks
        /\ ir \in {0, 1} /\ (ir = 1 => said # <<>>)
    BY <1>3 DEF Bounds
  <2>2. dec'.curTool \in -1..MaxBlocks - 1 /\ ended' \in BOOLEAN /\ failed' \in BOOLEAN
    BY <1>8, <1>10 DEF DecoderType
  <2>. QED
    BY <1>1, <1>3, <1>7, <1>10, <2>1, <2>2, BoundsNext
<1>. QED
  BY <1>10, <1>15, <1>16, GoesOn

(* The bounds of a step that ends nothing.                                 *)
LEMMA StepBounds ==
    ASSUME Bounds, to' = to, from' = from, phase' \in {"body", "closing"},
           frags' \in 0..MaxFrags, usage' \in Usages, said' \in Seq(Said), Len(said') <= MaxBlocks,
           DecoderType(dec'), ended' = FALSE, failed' = FALSE,
           ir' \in {0, 1}, ir' = 1 => said' # <<>>
    PROVE  Bounds'
<1>1. dec'.curTool \in -1..MaxBlocks - 1 /\ ended' \in BOOLEAN /\ failed' \in BOOLEAN
  BY DEF DecoderType
<1>. QED
  BY <1>1, BoundsNext

(* message_delta of Anthropic.                                             *)
LEMMA SendClosingFramed ==
    ASSUME Inv, SendClosing("final"), from = "anthropic"
    PROVE  Inv'
<1> DEFINE e == Up("closing", "none", 0, 0, "final")
           x == ToIR(from, dec, e)
           b == Result(e)
<1>1. /\ ~ended /\ Feed(e) /\ phase = "body" /\ phase' = "closing" /\ to' = to /\ from' = from
      /\ said' = said /\ frags' = frags /\ usage' = "final" /\ UnderWay = {}
  BY DEF SendClosing, Unchanged, Blocky
<1>2. e.type = "closing" /\ e.usage = "final"
  BY UpFields
<1>3. /\ Sound(Now.enc, Now.view) /\ Now.ended = FALSE
      /\ Now.enc = enc /\ Now.view = view /\ Now.ir = ir
      /\ DecoderType(dec) /\ Streaming /\ Bounds /\ said \in Seq(Said) /\ Latest \in 0..MaxBlocks
      /\ Content(view.blocks) = Content(said)
  BY <1>1, Situation
<1>4. AnthropicFit /\ (to # "openai_chat" => Len(view.blocks) <= Latest)
  BY <1>3 DEF Streaming, DecoderFit
<1> HIDE DEF e
<1>5. Steps(x, b)
  BY <1>1, FeedStep
<1>6. x.err = FALSE /\ x.dec = [dec EXCEPT !.usage = "final"] /\ b = Now
  <2>1. x = ToIR("anthropic", dec, e) /\ b = FeedAll(Now, Events(ToIR("anthropic", dec, e)))
    BY DEF Result
  <2> HIDE DEF x, b
  <2>2. ClosingHeard(dec, e, ToIR("anthropic", dec, e), Now, FeedAll(Now, Events(ToIR("anthropic", dec, e))))
    BY <1>2, ClosingSaid
  <2>3. ClosingHeard(dec, e, x, Now, b)
    BY <2>1, <2>2
  <2>. QED
    BY <1>2, <2>3 DEF ClosingHeard
<1> HIDE DEF x, b
<1>7. DecoderType(x.dec) /\ x.dec.usage = "final"
  BY <1>3, <1>6 DEF DecoderType, Usages
<1>8. enc' = b.enc /\ view' = b.view /\ view' = view /\ ended' = FALSE /\ ir' = ir /\ dec' = x.dec /\ failed' = FALSE
  BY <1>3, <1>5, <1>6 DEF Steps
<1>9. ~LastOpen /\ ~LastOpen' /\ \A k \in 1..Len(said') : ~said'[k].open
  <2>1. DOMAIN said = 1..Len(said) /\ Len(said) \in Nat
    BY <1>3, LenProperties
  <2>2. \A k \in 1..Len(said) : ~said[k].open
    BY <1>1, <2>1 DEF UnderWay
  <2>. QED
    BY <1>1, <2>1, <2>2 DEF LastOpen, Latest
<1>10. DecoderFit'
  <2>1. AnthropicFit'
    BY <1>1, <1>4, <1>7, <1>8, <1>9 DEF AnthropicFit, CallOpen
  <2>. QED
    BY <1>1, <2>1 DEF DecoderFit
<1>11. Current'
  BY <1>9 DEF Current
<1>12. Streaming'
  <2>1. Sound(b.enc, b.view) /\ Content(view'.blocks) = Content(said')
    BY <1>1, <1>3, <1>6, <1>8
  <2>2. to # "openai_chat" => Len(view'.blocks) <= Len(said')
    BY <1>1, <1>4, <1>8 DEF Latest
  <2>. QED
    BY <1>1, <1>7, <1>8, <1>9, <1>10, <1>11, <2>1, <2>2, StreamingNext
<1>13. Bounds'
  <2>1. /\ frags \in 0..MaxFrags /\ said \in Seq(Said) /\ Len(said) <= MaxBlocks
        /\ ir \in {0, 1} /\ (ir = 1 => said # <<>>) /\ "final" \in Usages
    BY <1>3 DEF Bounds, Usages
  <2>. QED
    BY <1>1, <1>3, <1>7, <1>8, <2>1, StepBounds
<1>. QED
  BY <1>8, <1>12, <1>13, GoesOn

(* The chunk with finish_reason, when usage is to come in its own chunk.   *)
LEMMA SendFinishInv ==
    ASSUME Inv, SendClosing("none"), from = "openai_chat"
    PROVE  Inv'
<1> DEFINE e == Up("finish", "none", 0, 0, "none")
           x == ToIR(from, dec, e)
           b == Result(e)
<1>1. /\ ~ended /\ Feed(e) /\ phase = "body" /\ phase' = "closing" /\ to' = to /\ from' = from
      /\ said' = said /\ frags' = frags /\ usage' = usage
  BY DEF SendClosing, Unchanged, Blocky
<1>2. e.type = "finish" /\ e.usage = "none"
  BY UpFields
<1>3. /\ Sound(Now.enc, Now.view) /\ Now.ended = FALSE /\ Now.ir \in Int
      /\ Now.enc = enc /\ Now.view = view /\ Now.ir = ir /\ to \in Protocols
      /\ Streaming /\ Bounds /\ said \in Seq(Said) /\ Latest \in 0..MaxBlocks
      /\ Content(view.blocks) = Content(said)
  <2>1. Now.ir \in {0, 1}
    BY <1>1, Situation
  <2>2. Now.ir \in Int
    BY <2>1
  <2> HIDE DEF x, b, e
  <2>. QED
    BY <1>1, <2>2, Situation
<1>4. /\ ChatInFit /\ DecoderType(dec) /\ usage = "none" /\ dec.usage = "none" /\ dec.stopped = FALSE
      /\ dec.started = TRUE /\ ir = Ending(dec) /\ ir \in {0, 1} /\ enc.usage0 = "none" /\ to # "openai_chat"
  BY <1>1, ChatSituation
<1> HIDE DEF e
<1>5. Steps(x, b)
  BY <1>1, FeedStep
<1>6. ChatFinishing(dec, ChatToIR(dec, e), Now, FeedAll(Now, ChatToIR(dec, e).evs))
  <2>1. e.usage \in {"none", "final"}
    BY <1>2
  <2>. QED
    BY <1>2, <1>3, <1>4, <2>1, ChatFinishes
<1>7. x = ChatToIR(dec, e)
  BY Decoders
<1>8. x.err = FALSE
  BY <1>6, <1>7 DEF ChatFinishing
<1>9. b = FeedAll(Now, x.evs)
  BY <1>8, ResultOf
<1> HIDE DEF x, b
<1>10. /\ Finishing(dec, x.dec) /\ x.dec.usage = "none" /\ Quiet(Now, b) /\ b.ir = 0
  BY <1>3, <1>4, <1>6, <1>7, <1>9 DEF ChatFinishing
<1>11. /\ DecoderType(x.dec) /\ x.dec.started = TRUE /\ x.dec.stopped = FALSE /\ x.dec.finish = TRUE
       /\ x.dec.curTool = -1
       /\ x.dec.blocks = IF dec.curTool < 0 THEN dec.blocks ELSE [dec.blocks EXCEPT ![dec.curTool] = "closed"]
  BY <1>4, <1>10 DEF Finishing
<1>12. /\ enc' = b.enc /\ view' = b.view /\ ended' = FALSE /\ ir' = 0 /\ dec' = x.dec /\ failed' = FALSE
       /\ Sound(b.enc, b.view) /\ b.enc.usage0 = "none" /\ Content(b.view.blocks) = Content(said)
       /\ Len(b.view.blocks) = Len(view.blocks)
  BY <1>3, <1>4, <1>5, <1>8, <1>10 DEF Steps, Quiet
<1>13. /\ Len(view.blocks) <= Latest /\ \A k \in 1..Len(said) : said[k].open /\ said[k].kind \in Kinds
  BY <1>1, <1>3, <1>4 DEF Streaming, ChatInFit
<1>14. \A i \in 0..MaxBlocks - 1 : x.dec.blocks[i] = IF i >= ToolCount THEN "none" ELSE "closed"
  <2> DEFINE n == ToolCount
  <2>1. /\ dec.curTool = n - 1 /\ dec.curTool \in -1..MaxBlocks - 1
        /\ \A i \in 0..MaxBlocks - 1 :
              dec.blocks[i] = IF i >= n THEN "none" ELSE IF i = dec.curTool THEN "tool" ELSE "closed"
        /\ dec.blocks = [i \in 0..MaxBlocks - 1 |-> dec.blocks[i]]
    BY <1>1, <1>4 DEF ChatInFit, DecoderType
  <2>2. n \in Nat
    BY <1>3, ToolsCounted DEF ToolCount
  <2> HIDE DEF n
  <2>3. CASE dec.curTool < 0
    BY <1>11, <2>1, <2>2, <2>3 DEF n
  <2>4. CASE ~(dec.curTool < 0)
    <3> DEFINE c == dec.curTool
               new == [dec.blocks EXCEPT ![c] = "closed"]
    <3>1. x.dec.blocks = new
      BY <1>11, <2>4
    <3>2. \A i \in 0..MaxBlocks - 1 : new[i] = IF i = c THEN "closed" ELSE dec.blocks[i]
      BY <2>1
    <3> HIDE DEF new
    <3>3. \A i \in 0..MaxBlocks - 1 : new[i] = IF i >= n THEN "none" ELSE "closed"
      BY <2>1, <2>2, <3>2
    <3>. QED
      BY <3>1, <3>3 DEF n
  <2>. QED
    BY <2>3, <2>4
<1>15. DecoderFit'
  <2>1. ToolCount' = ToolCount
    BY <1>1 DEF ToolCount
  <2>2. dec'.curTool = -1 /\ \A i \in 0..MaxBlocks - 1 : i # -1
    BY <1>11, <1>12, CodecsAssumption
  <2>3. \A i \in 0..MaxBlocks - 1 :
           dec'.blocks[i] = IF i >= ToolCount' THEN "none" ELSE IF i = dec'.curTool THEN "tool" ELSE "closed"
    BY <1>12, <1>14, <2>1, <2>2
  <2>4. /\ dec'.started = TRUE /\ dec'.stopped = FALSE /\ dec'.finish = TRUE /\ dec'.usage = "none"
        /\ usage' = "none" /\ ~(dec'.curTool >= 0)
    BY <1>1, <1>4, <1>10, <1>11, <1>12
  <2>5. /\ dec'.started = (phase' # "start") /\ dec'.finish = (phase' = "closing")
        /\ dec'.curTool = IF phase' = "closing" THEN -1 ELSE ToolCount' - 1
        /\ ir' = IF dec'.curTool >= 0 THEN 1 ELSE 0
        /\ \A k \in 1..Len(said') : said'[k].open
    BY <1>1, <1>12, <1>13, <2>2, <2>4
  <2>6. ChatInFit'
    BY <2>3, <2>4, <2>5 DEF ChatInFit
  <2>. QED
    BY <1>1, <2>6 DEF DecoderFit
<1>16. Current'
  BY <1>1 DEF Current
<1>17. Streaming'
  <2>1. Content(view'.blocks) = Content(said')
    BY <1>1, <1>12
  <2>2. Len(view'.blocks) <= Len(said')
    BY <1>1, <1>12, <1>13 DEF Latest
  <2>3. \A k \in 1..Len(said') : said'[k].kind \in Kinds
    BY <1>1, <1>13
  <2>. QED
    BY <1>1, <1>11, <1>12, <1>15, <1>16, <2>1, <2>2, <2>3, StreamingNext
<1>18. Bounds'
  <2>1. /\ frags \in 0..MaxFrags /\ said \in Seq(Said) /\ Len(said) <= MaxBlocks /\ usage \in Usages
    BY <1>3 DEF Bounds
  <2>2. ir' \in {0, 1} /\ ir' # 1
    BY <1>12
  <2>. QED
    BY <1>1, <1>3, <1>11, <1>12, <2>1, <2>2, StepBounds
<1>. QED
  BY <1>12, <1>17, <1>18, GoesOn

(* The upstream closes, in any protocol.                                   *)
LEMMA SendClosingInv ==
    ASSUME Inv, NEW u \in {"none", "final"}, SendClosing(u)
    PROVE  Inv'
<1>1. ~ended /\ from # "openai_responses" /\ (from # "openai_chat" => u = "final")
  BY DEF SendClosing, Blocky
<1>2. from \in Protocols
  BY <1>1, Situation
<1>. QED
  BY <1>1, <1>2, SendClosingFramed, SendFinishInv, SendFinishUsageInv DEF Protocols

(* A block starts (Anthropic, Responses).                                  *)
FramedStep(x, b, n) ==
    /\ Steps(x, b) /\ x.err = FALSE /\ DecoderType(x.dec) /\ x.dec.started = dec.started
    /\ x.dec.stopped = dec.stopped /\ x.dec.usage = dec.usage
    /\ Sound(b.enc, b.view) /\ b.ended = FALSE /\ b.enc.usage0 = enc.usage0 /\ b.ir = n
    /\ Content(b.view.blocks) = Content(said')
    /\ to' = to /\ from' = from /\ phase' = phase /\ usage' = usage

(* When a block may start every other one is closed.                       *)
LEMMA NoneUnderWay ==
    ASSUME said \in Seq(Said), UnderWay = {}
    PROVE  ~LastOpen /\ CallOpen = 0 /\ \A k \in 1..Len(said) : ~said[k].open
<1>1. DOMAIN said = 1..Len(said) /\ Len(said) \in Nat
  BY LenProperties
<1>2. \A k \in 1..Len(said) : ~said[k].open
  BY <1>1 DEF UnderWay
<1>. QED
  BY <1>1, <1>2 DEF LastOpen, Latest, CallOpen

(* A step that starts a block.                                             *)
LEMMA StartBlockStep ==
    ASSUME Inv, ~ended, phase = "body", from \in Framing, UnderWay = {},
           Len(said) < MaxBlocks,
           NEW kind \in Kinds \union {"redacted"}, kind = "redacted" => from = "anthropic",
           SaysBlock(said, said', kind, <<>>), NEW x, NEW b,
           FramedStep(x, b, IF kind = "tool" THEN ir + 1 ELSE ir),
           x.dec.blocks = [dec.blocks EXCEPT ![Len(said)] = IF kind = "redacted" THEN "thinking" ELSE kind],
           kind = "tool" => Ready(b.enc, b.view, Len(said)),
           to # "openai_chat" => Len(b.view.blocks) \in {Len(view.blocks), Len(view.blocks) + 1}
                                 /\ (kind # "tool" => Len(b.view.blocks) = Len(view.blocks)),
           frags' = frags
    PROVE  Inv'
<1> DEFINE n == Len(said)
<1>1. /\ Streaming /\ Bounds /\ said \in Seq(Said) /\ ir \in {0, 1} /\ DecoderType(dec)
      /\ to \in Protocols /\ Len(view.blocks) \in Nat
  BY Situation DEF Bounds
<1>2. /\ said' \in Seq(Said) /\ Len(said') = n + 1 /\ n \in Nat
      /\ \A k \in 1..n : said'[k] = said[k]
      /\ said'[n + 1].kind = kind /\ said'[n + 1].open = TRUE
  BY DEF SaysBlock
<1>3. ~LastOpen /\ CallOpen = 0 /\ \A k \in 1..n : ~said[k].open
  BY <1>1, NoneUnderWay
<1>4. from # "openai_chat" /\ ir = 0
  <2>1. from # "openai_chat" /\ DecoderFit
    BY <1>1 DEF Framing, Streaming
  <2>. QED
    BY <1>3, <2>1 DEF DecoderFit, AnthropicFit, ResponsesFit
<1> HIDE DEF n
<1>5. /\ Latest' = n + 1 /\ LastOpen' /\ IRIndex' = n /\ Index(Latest') = n /\ said'[Latest'].kind = kind
      /\ CallOpen' = IF kind = "tool" THEN 1 ELSE 0
  <2>1. Latest' = n + 1
    BY <1>2 DEF Latest
  <2>2. LastOpen'
    BY <1>2, <2>1 DEF LastOpen
  <2>3. Index(Latest') = n /\ IRIndex' = n
    <3>1. Blocky'
      BY <1>4 DEF Blocky, FramedStep
    <3>2. (n + 1) - 1 = n
      BY <1>2
    <3>. QED
      BY <2>1, <3>1, <3>2 DEF IRIndex, Index
  <2>4. said'[Latest'].kind = kind
    BY <1>2, <2>1
  <2>. QED
    BY <2>1, <2>2, <2>3, <2>4 DEF CallOpen
<1>6. /\ enc' = b.enc /\ view' = b.view /\ ended' = FALSE /\ dec' = x.dec /\ failed' = FALSE
      /\ ir' = IF kind = "tool" THEN 1 ELSE 0
  BY <1>4 DEF FramedStep, Steps
<1>7. to # "openai_chat" => /\ Len(view'.blocks) <= n + 1
                            /\ kind # "tool" => Len(view'.blocks) < n + 1
  <2>1. to # "openai_chat" => Len(view.blocks) <= n
    BY <1>1 DEF Streaming, Latest, n
  <2>2. Len(b.view.blocks) \in Nat
    BY LenProperties DEF FramedStep, Sound, Typed, ViewType
  <2>. QED
    BY <1>1, <1>2, <1>6, <2>1, <2>2
<1>8. Current'
  <2>1. kind = "tool" => Ready(enc, view, IRIndex)'
    BY <1>5, <1>6, ReadyNext DEF FramedStep, n
  <2>2. to' # "openai_chat" /\ kind \in {"text", "thinking"} => Len(view'.blocks) < Latest'
    BY <1>5, <1>7 DEF FramedStep
  <2>. QED
    BY <1>5, <2>1, <2>2 DEF Current
<1>9. x.dec.blocks[n] = IF kind = "redacted" THEN "thinking" ELSE kind
  <2>1. n \in 0..MaxBlocks - 1
    BY <1>2, CodecsAssumption DEF n
  <2>2. n \in DOMAIN dec.blocks
    BY <1>1, <2>1 DEF DecoderType
  <2>. QED
    BY <2>2 DEF n
<1>10. DecoderFit'
  <2>1. DecoderFit
    BY <1>1 DEF Streaming
  <2>2. CASE from = "anthropic"
    <3>1. AnthropicFit
      BY <2>1, <2>2 DEF DecoderFit
    <3>2. AnthropicFit'
      BY <1>5, <1>6, <1>9, <3>1 DEF AnthropicFit, FramedStep
    <3>. QED
      BY <2>2, <3>2 DEF DecoderFit, FramedStep
  <2>3. CASE from = "openai_responses"
    <3>1. ResponsesFit
      BY <2>1, <2>3 DEF DecoderFit
    <3>2. ResponsesFit'
      BY <1>5, <1>6, <1>9, <2>3, <3>1 DEF ResponsesFit, FramedStep
    <3>. QED
      BY <2>3, <3>2 DEF DecoderFit, FramedStep
  <2>. QED
    BY <2>2, <2>3 DEF Framing
<1>11. Streaming'
  <2>1. /\ Sound(b.enc, b.view) /\ DecoderType(x.dec) /\ Content(view'.blocks) = Content(said')
        /\ phase' \in {"body", "closing"} /\ to' = to /\ from' = from
    BY <1>6 DEF FramedStep
  <2>2. \A k \in 1..Len(said') : said'[k].open /\ from # "openai_chat" => k = Len(said')
    BY <1>2, <1>3
  <2>3. from # "anthropic" => /\ b.enc.usage0 = "none"
                              /\ \A k \in 1..Len(said') : said'[k].kind \in Kinds
    <3>1. from # "anthropic" => enc.usage0 = "none" /\ \A k \in 1..n : said[k].kind \in Kinds
      BY <1>1 DEF Streaming, n
    <3>. QED
      BY <1>2, <3>1 DEF FramedStep
  <2>4. to' # "openai_chat" => Len(view'.blocks) <= Len(said')
    BY <1>2, <1>7, <2>1
  <2>. QED
    BY <1>6, <1>8, <1>10, <2>1, <2>2, <2>3, <2>4, StreamingNext
<1>12. Bounds'
  <2>1. /\ frags \in 0..MaxFrags /\ usage \in Usages /\ to' = to /\ from' = from
        /\ phase' \in {"body", "closing"} /\ usage' = usage /\ DecoderType(dec')
    BY <1>1, <1>6 DEF Bounds, FramedStep
  <2>2. said' # <<>> /\ Len(said') <= MaxBlocks /\ ir' \in {0, 1}
    BY <1>2, <1>6, EmptySeq, CodecsAssumption DEF n
  <2>. QED
    BY <1>1, <1>2, <1>6, <2>1, <2>2, StepBounds
<1>. QED
  BY <1>6, <1>11, <1>12, GoesOn

(* What a block contributes is in its kind and its fragments.              *)
LEMMA AddingByFields ==
    ASSUME NEW c, NEW x, NEW y, x.kind = y.kind, x.frags = y.frags
    PROVE  Adding(c, x) = Adding(c, y)
BY DEF Adding

(* A block starts, of any kind.                                            *)
LEMMA StartBlockInv ==
    ASSUME Inv, ~Interleaving, NEW kind \in Kinds \union {"redacted", "unknown"},
           StartBlock(kind)
    PROVE  Inv'
<1> DEFINE n == Len(said)
           e == Up("block_start", kind, Index(n + 1), 0, "none")
           x == ToIR(from, dec, e)
           b == Result(e)
           new == [kind |-> kind, frags |-> <<>>, open |-> TRUE]
<1>1. CASE kind = "unknown"
  BY <1>1, StartUnknownInv
<1>2. CASE kind # "unknown"
  <2>1. /\ ~ended /\ Feed(e) /\ phase = "body" /\ phase' = phase /\ to' = to /\ from' = from
        /\ from # "openai_chat" /\ frags' = frags /\ usage' = usage /\ n < MaxBlocks
        /\ said' = Append(said, new) /\ UnderWay = {} /\ (kind = "redacted" => from = "anthropic")
    BY <1>2 DEF StartBlock, Unchanged, SayBlock, Blocky
  <2>2. /\ Sound(Now.enc, Now.view) /\ Now.ended = FALSE /\ Now.ended \in BOOLEAN
        /\ Now.enc = enc /\ Now.view = view /\ Now.ir = ir
        /\ to \in Protocols /\ from \in Protocols
        /\ DecoderType(dec) /\ said \in Seq(Said) /\ ContentType(Content(said))
        /\ Content(view.blocks) = Content(said) /\ Len(view.blocks) \in Nat
    BY <2>1, Situation
  <2>3. from \in Framing
    BY <2>1, <2>2 DEF Framing, Protocols
  <2>4. n \in 0..MaxBlocks - 1 /\ Index(n + 1) = n
    <3>1. n \in Nat
      BY <2>2, LenProperties
    <3>. QED
      BY <2>1, <3>1, CodecsAssumption DEF Index
  <2>5. e.type = "block_start" /\ e.kind = kind /\ e.index = n
    BY <2>4, UpFields
  <2>6. SaysBlock(said, said', kind, <<>>)
    <3>1. kind \in SaidType /\ <<>> \in Seq(Nat)
      BY EmptySeq DEF SaidType
    <3>. QED
      BY <2>1, <2>2, <3>1, BlockSaid
  <2> HIDE DEF e
  <2>7. Steps(x, b)
    BY <2>1, FeedStep
  <2>8. Content(said') = Adding(Content(said), new) /\ new.kind = kind /\ new.frags = <<>>
    BY <2>6 DEF SaysBlock
  <2> HIDE DEF new, n
  <2>9. CASE kind = "redacted"
    <3>1. BlockHushed(dec, x, Now, b, [dec EXCEPT !.blocks[n] = "thinking"], Now.ir)
      <4>1. BlockHushed(dec, ToIR("anthropic", dec, e), Now, FeedAll(Now, Events(ToIR("anthropic", dec, e))),
                        [dec EXCEPT !.blocks[e.index] = "thinking"], Now.ir)
        BY <2>2, <2>4, <2>5, <2>9, Redacted
      <4>2. x = ToIR("anthropic", dec, e) /\ b = FeedAll(Now, Events(ToIR("anthropic", dec, e)))
        BY <2>1, <2>9 DEF Result
      <4> HIDE DEF x, b
      <4>. QED
        BY <2>5, <4>1, <4>2
    <3> HIDE DEF x, b
    <3>2. /\ x.err = FALSE /\ x.dec = [dec EXCEPT !.blocks[n] = "thinking"] /\ Quiet(Now, b) /\ b.ir = ir
      BY <2>2, <3>1 DEF BlockHushed
    <3>3. Content(said') = Content(said)
      <4>1. new.kind \notin Kinds
        BY <2>8, <2>9 DEF Kinds
      <4>. QED
        BY <2>2, <2>8, <4>1, AddingNew
    <3>4. /\ DecoderType(x.dec) /\ x.dec.started = dec.started /\ x.dec.stopped = dec.stopped
          /\ x.dec.usage = dec.usage /\ x.dec.blocks = [dec.blocks EXCEPT ![n] = "thinking"]
      BY <2>2, <2>4, <3>2 DEF DecoderType
    <3>5. FramedStep(x, b, ir)
      BY <2>1, <2>2, <2>7, <3>2, <3>3, <3>4 DEF FramedStep, Quiet
    <3>6. to # "openai_chat" => Len(b.view.blocks) = Len(view.blocks)
      BY <2>2, <3>2 DEF Quiet
    <3>. QED
      BY <2>1, <2>3, <2>6, <2>9, <3>4, <3>5, <3>6, StartBlockStep DEF n
  <2>10. CASE kind # "redacted"
    <3>1. kind \in Kinds
      BY <1>2, <2>10
    <3>2. BlockStarted(dec, x, Now, b, n, kind)
      <4>1. BlockStarted(dec, ToIR(from, dec, e), Now, FeedAll(Now, Events(ToIR(from, dec, e))), e.index, e.kind)
        BY <2>2, <2>3, <2>4, <2>5, <3>1, StartsBlock
      <4>. QED
        BY <2>5, <4>1 DEF Result
    <3> HIDE DEF x, b
    <3>3. x.err = FALSE /\ x.dec = [dec EXCEPT !.blocks[n] = kind]
      BY <3>2 DEF BlockStarted
    <3>4. /\ DecoderType(x.dec) /\ x.dec.started = dec.started /\ x.dec.stopped = dec.stopped
          /\ x.dec.usage = dec.usage /\ x.dec.blocks = [dec.blocks EXCEPT ![n] = kind]
      BY <2>2, <2>4, <3>3 DEF DecoderType
    <3>5. CASE kind = "tool"
      <4>1. CallStarted(Now, b, n)
        BY <3>2, <3>5 DEF BlockStarted
      <4>2. Content(b.view.blocks) = Content(said')
        <5>1. Adding(Content(said), new) = Adding(Content(said), Call)
          BY <2>8, <3>5, AddingByFields DEF Call
        <5>. QED
          BY <2>2, <2>8, <4>1, <5>1 DEF CallStarted
      <4>3. FramedStep(x, b, ir + 1)
        BY <2>1, <2>2, <2>7, <3>3, <3>4, <4>1, <4>2 DEF FramedStep, CallStarted
      <4>4. Ready(b.enc, b.view, n) /\ (to # "openai_chat" => Len(b.view.blocks) = Len(view.blocks) + 1)
        BY <2>2, <4>1 DEF CallStarted
      <4>. QED
        BY <2>1, <2>3, <2>6, <3>1, <3>4, <3>5, <4>3, <4>4, StartBlockStep DEF n
    <3>6. CASE kind # "tool"
      <4>1. b = Now
        BY <3>2, <3>6 DEF BlockStarted
      <4>2. Content(said') = Content(said)
        <5>1. new.kind \in {"text", "thinking"}
          BY <2>8, <3>1, <3>6 DEF Kinds
        <5>. QED
          BY <2>2, <2>8, <5>1, AddingNew
      <4>3. FramedStep(x, b, ir)
        BY <2>1, <2>2, <2>7, <3>3, <3>4, <4>1, <4>2 DEF FramedStep
      <4>4. Len(b.view.blocks) = Len(view.blocks)
        BY <2>2, <4>1
      <4>. QED
        BY <2>1, <2>3, <2>6, <3>1, <3>4, <3>6, <4>3, <4>4, <2>10, StartBlockStep DEF n
    <3>. QED
      BY <3>5, <3>6
  <2>. QED
    BY <2>9, <2>10
<1>. QED
  BY <1>1, <1>2

(* A block goes on and stops (Anthropic, Responses).                       *)
LEMMA OneAtATime ==
    ASSUME Inv, ~ended, from # "openai_chat", phase = "body", NEW k \in UnderWay
    PROVE  /\ k = Len(said) /\ k \in 1..Len(said) /\ Len(said) > 0 /\ LastOpen /\ Latest = Len(said)
           /\ k \in 1..MaxBlocks /\ Index(k) = k - 1 /\ Index(k) \in 0..MaxBlocks - 1 /\ IRIndex = Index(k)
<1>1. Streaming /\ Bounds /\ said \in Seq(Said) /\ Len(said) <= MaxBlocks
  BY Situation DEF Bounds
<1>2. DOMAIN said = 1..Len(said) /\ Len(said) \in Nat
  BY <1>1, LenProperties
<1>3. k \in 1..Len(said) /\ said[k].open
  BY <1>2 DEF UnderWay
<1>4. k = Len(said)
  BY <1>1, <1>3 DEF Streaming, Latest, Blocky
<1>. QED
  BY <1>1, <1>2, <1>3, <1>4, CodecsAssumption DEF LastOpen, Latest, Index, IRIndex, Blocky

(* A step that sends a fragment.                                           *)
LEMMA SendDeltaStep ==
    ASSUME Inv, ~ended, phase = "body", from \in Framing, LastOpen, Len(said) > 0,
           SaysMore(said, said', frags + 1), NEW x, NEW b, FramedStep(x, b, ir), x.dec = dec,
           NEW kind \in Kinds, kind = said[Len(said)].kind,
           kind = "tool" => Ready(b.enc, b.view, Len(said) - 1),
           to # "openai_chat" => /\ Len(b.view.blocks) <= Len(said)
                                 /\ kind # "tool" => b.enc.kind = kind,
           frags' = frags + 1, frags < MaxFrags
    PROVE  Inv'
<1> DEFINE n == Len(said)
<1>1. Streaming /\ Bounds /\ said \in Seq(Said) /\ ir \in {0, 1} /\ DecoderType(dec) /\ n \in Nat
  BY Situation, LenProperties DEF Bounds
<1>2. /\ said' \in Seq(Said) /\ Len(said') = n
      /\ \A k \in 1..n : said'[k].kind = said[k].kind /\ said'[k].open = said[k].open
  BY DEF SaysMore
<1>3. n \in 1..n
  BY <1>1
<1> HIDE DEF n
<1>4. /\ Latest' = n /\ Latest = n /\ LastOpen' /\ IRIndex' = n - 1 /\ Index(Latest') = n - 1 /\ Index(Latest) = n - 1
      /\ said'[Latest'].kind = kind /\ said[Latest].kind = kind /\ CallOpen' = CallOpen
  <2>1. Latest' = n /\ Latest = n
    BY <1>2 DEF Latest, n
  <2>2. LastOpen'
    BY <1>1, <1>2, <1>3, <2>1 DEF LastOpen
  <2>3. said'[Latest'].kind = kind /\ said[Latest].kind = kind
    BY <1>2, <1>3, <2>1 DEF n
  <2>4. Blocky'
    BY DEF Blocky, FramedStep, Framing
  <2>. QED
    BY <2>1, <2>2, <2>3, <2>4 DEF CallOpen, IRIndex, Index
<1>5. /\ enc' = b.enc /\ view' = b.view /\ ended' = FALSE /\ dec' = dec /\ failed' = FALSE /\ ir' = ir
  BY DEF FramedStep, Steps
<1>6. Current'
  <2>1. kind = "tool" => Ready(enc, view, IRIndex)'
    BY <1>4, <1>5, ReadyNext DEF FramedStep, n
  <2>2. to' # "openai_chat" /\ kind \in {"text", "thinking"} => enc'.kind = kind
    BY <1>5 DEF FramedStep
  <2>. QED
    BY <1>4, <2>1, <2>2 DEF Current
<1>7. DecoderFit'
  <2>1. DecoderFit
    BY <1>1 DEF Streaming
  <2>2. CASE from = "anthropic"
    <3>1. AnthropicFit
      BY <2>1, <2>2 DEF DecoderFit
    <3>2. AnthropicFit'
      BY <1>4, <1>5, <3>1 DEF AnthropicFit, FramedStep
    <3>. QED
      BY <2>2, <3>2 DEF DecoderFit, FramedStep
  <2>3. CASE from = "openai_responses"
    <3>1. ResponsesFit
      BY <2>1, <2>3 DEF DecoderFit
    <3>2. ResponsesFit'
      BY <1>4, <1>5, <3>1 DEF ResponsesFit, FramedStep
    <3>. QED
      BY <2>3, <3>2 DEF DecoderFit, FramedStep
  <2>. QED
    BY <2>2, <2>3 DEF Framing
<1>8. Streaming'
  <2>1. /\ Sound(b.enc, b.view) /\ Content(view'.blocks) = Content(said')
        /\ phase' \in {"body", "closing"} /\ to' = to /\ from' = from
    BY <1>5 DEF FramedStep
  <2>2. \A k \in 1..Len(said') : said'[k].open /\ from # "openai_chat" => k = Len(said')
    BY <1>1, <1>2 DEF Streaming, Latest, Blocky, n
  <2>3. from # "anthropic" => /\ b.enc.usage0 = "none"
                              /\ \A k \in 1..Len(said') : said'[k].kind \in Kinds
    <3>1. from # "anthropic" => enc.usage0 = "none" /\ \A k \in 1..n : said[k].kind \in Kinds
      BY <1>1 DEF Streaming, n
    <3>. QED
      BY <1>2, <3>1 DEF FramedStep
  <2>4. to' # "openai_chat" => Len(view'.blocks) <= Len(said')
    BY <1>2, <1>5, <2>1 DEF n
  <2>. QED
    BY <1>1, <1>5, <1>6, <1>7, <2>1, <2>2, <2>3, <2>4, StreamingNext
<1>9. Bounds'
  <2>1. /\ frags \in 0..MaxFrags /\ usage \in Usages /\ to' = to /\ from' = from /\ Len(said) <= MaxBlocks
        /\ phase' \in {"body", "closing"} /\ usage' = usage /\ DecoderType(dec')
    BY <1>1, <1>5 DEF Bounds, FramedStep
  <2>2. said' # <<>> /\ Len(said') <= MaxBlocks
    BY <1>2, <2>1, EmptySeq DEF n
  <2>3. frags' \in 0..MaxFrags
    BY <2>1, TranslationAssumption
  <2>. QED
    BY <1>1, <1>2, <1>5, <2>1, <2>2, <2>3, StepBounds
<1>. QED
  BY <1>5, <1>8, <1>9, GoesOn

(* A step that stops a block.                                              *)
LEMMA StopBlockStep ==
    ASSUME Inv, ~ended, phase = "body", from \in Framing, Len(said) > 0,
           SaysClosed(said, said', Len(said)), NEW x, NEW b, FramedStep(x, b, 0),
           to # "openai_chat" => Len(b.view.blocks) <= Len(said), frags' = frags
    PROVE  Inv'
<1> DEFINE n == Len(said)
<1>1. Streaming /\ Bounds /\ said \in Seq(Said) /\ ir \in {0, 1} /\ DecoderType(dec) /\ n \in Nat
  BY Situation, LenProperties DEF Bounds
<1>2. /\ said' \in Seq(Said) /\ Len(said') = n
      /\ \A k \in 1..n : /\ said'[k].kind = said[k].kind
                         /\ said'[k].open = IF k = n THEN FALSE ELSE said[k].open
  BY DEF SaysClosed
<1>3. \A k \in 1..n : said[k].open => k = n
  BY <1>1 DEF Streaming, Latest, Blocky, Framing
<1> HIDE DEF n
<1>4. \A k \in 1..n : ~said'[k].open
  BY <1>2, <1>3
<1>5. /\ ~LastOpen' /\ CallOpen' = 0
  <2>1. Latest' = n
    BY <1>2 DEF Latest
  <2>2. Latest' > 0 => Latest' \in 1..n
    BY <1>1, <2>1
  <2>3. ~LastOpen'
    BY <1>4, <2>2 DEF LastOpen
  <2>. QED
    BY <2>3 DEF CallOpen
<1>6. /\ enc' = b.enc /\ view' = b.view /\ ended' = FALSE /\ dec' = x.dec /\ failed' = FALSE /\ ir' = 0
  BY DEF FramedStep, Steps
<1>7. Current'
  BY <1>5 DEF Current
<1>8. DecoderFit'
  <2>1. DecoderFit
    BY <1>1 DEF Streaming
  <2>2. CASE from = "anthropic"
    <3>1. AnthropicFit
      BY <2>1, <2>2 DEF DecoderFit
    <3>2. AnthropicFit'
      BY <1>5, <1>6, <3>1 DEF AnthropicFit, FramedStep
    <3>. QED
      BY <2>2, <3>2 DEF DecoderFit, FramedStep
  <2>3. CASE from = "openai_responses"
    <3>1. ResponsesFit
      BY <2>1, <2>3 DEF DecoderFit
    <3>2. ResponsesFit'
      BY <1>5, <1>6, <3>1 DEF ResponsesFit, FramedStep
    <3>. QED
      BY <2>3, <3>2 DEF DecoderFit, FramedStep
  <2>. QED
    BY <2>2, <2>3 DEF Framing
<1>9. Streaming'
  <2>1. /\ Sound(b.enc, b.view) /\ Content(view'.blocks) = Content(said') /\ DecoderType(x.dec)
        /\ phase' \in {"body", "closing"} /\ to' = to /\ from' = from
    BY <1>6 DEF FramedStep
  <2>2. \A k \in 1..Len(said') : said'[k].open /\ from # "openai_chat" => k = Len(said')
    BY <1>2, <1>4
  <2>3. from # "anthropic" => /\ b.enc.usage0 = "none"
                              /\ \A k \in 1..Len(said') : said'[k].kind \in Kinds
    <3>1. from # "anthropic" => enc.usage0 = "none" /\ \A k \in 1..n : said[k].kind \in Kinds
      BY <1>1 DEF Streaming, n
    <3>. QED
      BY <1>2, <3>1 DEF FramedStep
  <2>4. to' # "openai_chat" => Len(view'.blocks) <= Len(said')
    BY <1>2, <1>6, <2>1 DEF n
  <2>. QED
    BY <1>1, <1>6, <1>7, <1>8, <2>1, <2>2, <2>3, <2>4, StreamingNext
<1>10. Bounds'
  <2>1. /\ frags \in 0..MaxFrags /\ usage \in Usages /\ to' = to /\ from' = from /\ Len(said) <= MaxBlocks
        /\ phase' \in {"body", "closing"} /\ usage' = usage /\ DecoderType(dec')
    BY <1>1, <1>6 DEF Bounds, FramedStep
  <2>2. Len(said') <= MaxBlocks /\ ir' \in {0, 1} /\ ir' # 1
    BY <1>2, <1>6, <2>1 DEF n
  <2>. QED
    BY <1>1, <1>2, <1>6, <2>1, <2>2, StepBounds
<1>. QED
  BY <1>6, <1>9, <1>10, GoesOn

(* A fragment of a framed block.                                           *)
LEMMA SendDeltaInv ==
    ASSUME Inv, ~Interleaving, NEW k \in DOMAIN said, SendDelta(k)
    PROVE  Inv'
<1> DEFINE n == Len(said)
           kind == said[k].kind
           f == frags + 1
           e == Up("delta", kind, Index(k), f, "none")
           x == ToIR(from, dec, e)
           b == Result(e)
<1>1. /\ ~ended /\ Feed(e) /\ phase = "body" /\ phase' = phase /\ to' = to /\ from' = from
      /\ from # "openai_chat" /\ frags < MaxFrags /\ frags' = f /\ usage' = usage
      /\ k \in UnderWay /\ kind \in Kinds
      /\ said' = [said EXCEPT ![k].frags = Append(@, f)]
  BY DEF SendDelta, Unchanged, Blocky
<1>2. /\ k = n /\ k \in 1..n /\ n > 0 /\ LastOpen /\ Latest = n /\ k \in 1..MaxBlocks
      /\ Index(k) = k - 1 /\ Index(k) \in 0..MaxBlocks - 1 /\ IRIndex = Index(k)
  BY <1>1, OneAtATime
<1>3. /\ Sound(Now.enc, Now.view) /\ Now.ended = FALSE /\ Now.ended \in BOOLEAN
      /\ Now.enc = enc /\ Now.view = view /\ Now.ir = ir
      /\ to \in Protocols /\ from \in Protocols /\ Streaming
      /\ DecoderType(dec) /\ said \in Seq(Said)
      /\ Content(view.blocks) = Content(said) /\ Len(view.blocks) \in Nat
  BY <1>1, Situation
<1>4. from \in Framing /\ f \in Nat
  <2>1. frags \in Nat
    BY TranslationAssumption DEF Inv, Bounds
  <2>. QED
    BY <1>1, <1>3, <2>1 DEF Framing, Protocols
<1> HIDE DEF f
<1>5. e.type = "delta" /\ e.kind = kind /\ e.index = k - 1 /\ e.frag = f
  BY <1>2, UpFields
<1> HIDE DEF e
<1>6. Steps(x, b)
  BY <1>1, FeedStep
<1>7. /\ kind = "tool" => Ready(enc, view, k - 1)
      /\ kind \in {"text", "thinking"} /\ to # "openai_chat" => enc.kind = kind \/ Len(view.blocks) < n
      /\ to # "openai_chat" => Len(view.blocks) <= n
  BY <1>1, <1>2, <1>3 DEF Streaming, Current
<1> HIDE DEF kind
<1>8. DeltaSent(dec, x, Now, b, k - 1, kind, f)
  <2>1. e.index \in 0..MaxBlocks - 1 /\ e.frag \in Nat /\ e.kind \in Kinds
    BY <1>1, <1>2, <1>4, <1>5
  <2>2. e.kind = "tool" => Ready(Now.enc, Now.view, e.index)
    BY <1>3, <1>5, <1>7
  <2>3. DeltaSent(dec, ToIR(from, dec, e), Now, FeedAll(Now, Events(ToIR(from, dec, e))), e.index, e.kind, e.frag)
    BY <1>3, <1>4, <1>5, <2>1, <2>2, SendsDelta
  <2>. QED
    BY <1>5, <2>3 DEF Result
<1> HIDE DEF x, b
<1>9. SaysMore(said, said', f) /\ kind = said[n].kind
  <2>1. said' = [said EXCEPT ![Len(said)].frags = Append(@, f)] /\ said[Len(said)].kind \in Kinds /\ Len(said) > 0
    BY <1>1, <1>2 DEF kind
  <2>. QED
    BY <1>2, <1>3, <1>4, <2>1, MoreSaid DEF kind
<1>10. Content(said') = Extended(Content(said), kind, f)
  BY <1>9 DEF SaysMore
<1>11. /\ x.err = FALSE /\ x.dec = dec
  BY <1>8 DEF DeltaSent
<1>12. CASE kind = "tool"
  <2>1. CallContinued(Now, b, k - 1, f)
    BY <1>8, <1>12 DEF DeltaSent
  <2>2. FramedStep(x, b, ir)
    BY <1>1, <1>3, <1>6, <1>10, <1>11, <1>12, <2>1 DEF FramedStep, CallContinued
  <2>3. /\ Ready(b.enc, b.view, n - 1)
        /\ to # "openai_chat" => Len(b.view.blocks) <= n
    BY <1>2, <1>3, <1>7, <2>1 DEF CallContinued
  <2>4. SaysMore(said, said', frags + 1) /\ frags' = frags + 1
    BY <1>1, <1>9 DEF f
  <2>. QED
    BY <1>1, <1>2, <1>4, <1>9, <1>11, <1>12, <2>2, <2>3, <2>4, SendDeltaStep
<1>13. CASE kind # "tool"
  <2>1. TextSaid(Now, b, kind, f)
    BY <1>8, <1>13 DEF DeltaSent
  <2>2. FramedStep(x, b, ir)
    BY <1>1, <1>3, <1>6, <1>10, <1>11, <2>1 DEF FramedStep, TextSaid
  <2>3. to # "openai_chat" => Len(b.view.blocks) <= n /\ b.enc.kind = kind
    <3>1. kind \in {"text", "thinking"}
      BY <1>1, <1>13 DEF Kinds
    <3>. QED
      BY <1>2, <1>3, <1>7, <2>1, <3>1 DEF TextSaid
  <2>4. SaysMore(said, said', frags + 1) /\ frags' = frags + 1
    BY <1>1, <1>9 DEF f
  <2>. QED
    BY <1>1, <1>2, <1>4, <1>9, <1>11, <1>13, <2>2, <2>3, <2>4, SendDeltaStep
<1>. QED
  BY <1>12, <1>13

(* A framed block stops.                                                   *)
LEMMA StopBlockInv ==
    ASSUME Inv, ~Interleaving, NEW k \in DOMAIN said, StopBlock(k)
    PROVE  Inv'
<1> DEFINE n == Len(said)
           e == Up("block_stop", said[k].kind, Index(k), 0, "none")
           x == ToIR(from, dec, e)
           b == Result(e)
           d2 == IF from = "anthropic" THEN [dec EXCEPT !.blocks[k - 1] = "none"] ELSE dec
           m == IF dec.blocks[k - 1] = "tool" THEN ir - 1 ELSE ir
<1>1. /\ ~ended /\ Feed(e) /\ phase = "body" /\ phase' = phase /\ to' = to /\ from' = from
      /\ from # "openai_chat" /\ frags' = frags /\ usage' = usage /\ k \in UnderWay
      /\ said' = [said EXCEPT ![k].open = FALSE]
  BY DEF StopBlock, Unchanged, Blocky
<1>2. /\ k = n /\ k \in 1..n /\ n > 0 /\ LastOpen /\ Latest = n /\ k \in 1..MaxBlocks
      /\ Index(k) = k - 1 /\ Index(k) \in 0..MaxBlocks - 1 /\ IRIndex = Index(k)
  BY <1>1, OneAtATime
<1>3. /\ Sound(Now.enc, Now.view) /\ Now.ended = FALSE /\ Now.ended \in BOOLEAN
      /\ Now.enc = enc /\ Now.view = view /\ Now.ir = ir
      /\ to \in Protocols /\ from \in Protocols /\ Streaming
      /\ DecoderType(dec) /\ said \in Seq(Said)
      /\ Content(view.blocks) = Content(said) /\ Len(view.blocks) \in Nat
  BY <1>1, Situation
<1>4. from \in Framing
  BY <1>1, <1>3 DEF Framing, Protocols
<1>5. e.type = "block_stop" /\ e.index = k - 1
  BY <1>2, UpFields
<1> HIDE DEF e
<1>6. Steps(x, b)
  BY <1>1, FeedStep
<1>7. BlockHushed(dec, x, Now, b, d2, m)
  <2>1. BlockHushed(dec, ToIR(from, dec, e), Now, FeedAll(Now, Events(ToIR(from, dec, e))),
                    IF from = "anthropic" THEN [dec EXCEPT !.blocks[e.index] = "none"] ELSE dec,
                    IF dec.blocks[e.index] = "tool" THEN Now.ir - 1 ELSE Now.ir)
    <3>1. e.index \in 0..MaxBlocks - 1
      BY <1>2, <1>5
    <3>. QED
      BY <1>3, <1>4, <1>5, <3>1, StopsBlock
  <2>. QED
    BY <1>3, <1>5, <2>1 DEF Result
<1> HIDE DEF x, b
<1>8. m = 0
  <2>1. DecoderFit
    BY <1>3 DEF Streaming
  <2>2. /\ dec.blocks[k - 1] = IF said[n].kind = "redacted" THEN "thinking" ELSE said[n].kind
        /\ ir = CallOpen
    <3>1. CASE from = "anthropic"
      BY <1>2, <2>1, <3>1 DEF DecoderFit, AnthropicFit
    <3>2. CASE from = "openai_responses"
      <4>1. said[n].kind \in Kinds
        BY <1>2, <1>3, <3>2 DEF Streaming
      <4>. QED
        BY <1>2, <2>1, <3>2, <4>1 DEF DecoderFit, ResponsesFit, Kinds
    <3>. QED
      BY <1>4, <3>1, <3>2 DEF Framing
  <2>3. CallOpen = IF said[n].kind = "tool" THEN 1 ELSE 0
    BY <1>2 DEF CallOpen
  <2>. QED
    BY <2>2, <2>3
<1>9. /\ x.err = FALSE /\ x.dec = d2 /\ Quiet(Now, b) /\ b.ir = 0
  BY <1>7, <1>8 DEF BlockHushed
<1>10. SaysClosed(said, said', n)
  BY <1>1, <1>2, <1>3, ClosedSaid
<1>11. /\ DecoderType(x.dec) /\ x.dec.started = dec.started /\ x.dec.stopped = dec.stopped
       /\ x.dec.usage = dec.usage
  BY <1>2, <1>3, <1>9 DEF DecoderType
<1> HIDE DEF d2, m
<1>12. Content(said') = Content(said)
  BY <1>10 DEF SaysClosed
<1>13. FramedStep(x, b, 0)
  BY <1>1, <1>3, <1>6, <1>9, <1>11, <1>12 DEF FramedStep, Quiet
<1>14. to # "openai_chat" => Len(b.view.blocks) <= n
  BY <1>2, <1>3, <1>9 DEF Quiet, Streaming
<1>. QED
  BY <1>1, <1>2, <1>4, <1>10, <1>13, <1>14, StopBlockStep

(* A Chat chunk with content.                                              *)
ToolsAt(d, t) ==
    /\ d.curTool = t - 1
    /\ \A i \in 0..MaxBlocks - 1 :
          d.blocks[i] = IF i >= t THEN "none" ELSE IF i = t - 1 THEN "tool" ELSE "closed"

(* A chunk whose content has reached the client.                           *)
ChatStep(x, b, t) ==
    /\ Steps(x, b) /\ x.err = FALSE /\ DecoderType(x.dec) /\ x.dec.started = dec.started
    /\ x.dec.stopped = dec.stopped /\ x.dec.finish = dec.finish /\ x.dec.usage = dec.usage
    /\ ToolsAt(x.dec, t)
    /\ Sound(b.enc, b.view) /\ b.ended = FALSE /\ b.enc.usage0 = enc.usage0
    /\ b.ir = IF t > 0 THEN 1 ELSE 0
    /\ Content(b.view.blocks) = Content(said')
    /\ Len(b.view.blocks) <= Len(said')
    /\ to' = to /\ from' = from /\ phase' = phase /\ usage' = usage
    /\ frags' = frags + 1 /\ frags < MaxFrags

(* Such a chunk preserves the invariant.                                   *)
LEMMA ChatStepInv ==
    ASSUME Inv, ~ended, phase = "body", from = "openai_chat",
           NEW x, NEW b, NEW t, t = Cardinality(ToolBlocks(said')), ChatStep(x, b, t),
           said' \in Seq(Said), Len(said') > 0, Len(said') <= MaxBlocks,
           \A k \in 1..Len(said') : said'[k].open /\ said'[k].kind \in Kinds,
           said'[Len(said')].kind = "tool" => Ready(b.enc, b.view, t),
           said'[Len(said')].kind # "tool" => b.enc.kind = said'[Len(said')].kind
    PROVE  Inv'
<1> DEFINE n == Len(said')
<1>1. /\ Streaming /\ Bounds /\ to \in Protocols
  BY Situation
<1>2. /\ ChatInFit /\ usage = "none" /\ dec.usage = "none" /\ dec.stopped = FALSE /\ dec.started = TRUE
      /\ dec.finish = FALSE /\ enc.usage0 = "none" /\ to # "openai_chat"
  BY ChatSituation
<1>3. n \in Nat /\ n \in 1..n /\ t \in 0..n
  BY LenProperties, ToolsCounted
<1>4. n > 0 /\ said'[n].kind = "tool" => ToolsBefore(said', n) = t - 1
  BY ToolsCounted
<1>5. Latest' = n /\ LastOpen' /\ ToolCount' = t /\ said'[Latest'].kind \in Kinds
  BY <1>3 DEF Latest, LastOpen, ToolCount
<1>6. said'[n].kind = "tool" => IRIndex' = t
  <2>1. ~Blocky'
    BY DEF Blocky, ChatStep
  <2>2. ToolIndex(Latest)' = ToolsBefore(said', n)
    BY DEF ToolIndex, ToolsBefore, Latest
  <2>3. (t - 1) + 1 = t
    BY <1>3
  <2>. QED
    BY <1>3, <1>4, <2>1, <2>2, <2>3 DEF IRIndex
<1> HIDE DEF n
<1>7. /\ enc' = b.enc /\ view' = b.view /\ ended' = FALSE /\ dec' = x.dec /\ failed' = FALSE
      /\ ir' = IF t > 0 THEN 1 ELSE 0
  BY DEF ChatStep, Steps
<1>8. Current'
  <2>1. said'[n].kind = "tool" => Ready(enc, view, IRIndex)'
    BY <1>6, <1>7, ReadyNext DEF ChatStep, n
  <2>2. said'[n].kind # "tool" => enc'.kind = said'[n].kind
    BY <1>7 DEF n
  <2>. QED
    BY <1>5, <2>1, <2>2 DEF Current
<1>9. DecoderFit'
  <2>1. /\ dec'.curTool = t - 1
        /\ \A i \in 0..MaxBlocks - 1 :
              dec'.blocks[i] = IF i >= t THEN "none" ELSE IF i = t - 1 THEN "tool" ELSE "closed"
    BY <1>7 DEF ChatStep, ToolsAt
  <2>2. \A i \in 0..MaxBlocks - 1 :
           dec'.blocks[i] = IF i >= ToolCount' THEN "none" ELSE IF i = dec'.curTool THEN "tool" ELSE "closed"
    BY <1>5, <2>1
  <2>3. /\ dec'.started = TRUE /\ dec'.stopped = FALSE /\ dec'.finish = FALSE /\ dec'.usage = "none"
        /\ usage' = "none" /\ phase' = "body"
    BY <1>2, <1>7 DEF ChatStep
  <2>4. ir' = IF dec'.curTool >= 0 THEN 1 ELSE 0
    BY <1>3, <1>7, <2>1
  <2>5. /\ dec'.started = (phase' # "start") /\ dec'.finish = (phase' = "closing")
        /\ dec'.curTool = IF phase' = "closing" THEN -1 ELSE ToolCount' - 1
        /\ \A k \in 1..Len(said') : said'[k].open
    BY <1>5, <2>1, <2>3
  <2>6. ChatInFit'
    BY <2>2, <2>3, <2>4, <2>5 DEF ChatInFit
  <2>. QED
    BY <2>6 DEF DecoderFit, ChatStep
<1>10. Streaming'
  <2>1. /\ Sound(b.enc, b.view) /\ Content(view'.blocks) = Content(said') /\ DecoderType(x.dec)
        /\ phase' \in {"body", "closing"} /\ to' = to /\ from' = from /\ b.enc.usage0 = "none"
        /\ Len(view'.blocks) <= Len(said')
    BY <1>2, <1>7 DEF ChatStep
  <2>. QED
    BY <1>7, <1>8, <1>9, <2>1, StreamingNext
<1>11. Bounds'
  <2>1. /\ frags \in 0..MaxFrags /\ usage \in Usages /\ to' = to /\ from' = from
        /\ phase' \in {"body", "closing"} /\ usage' = usage /\ DecoderType(dec')
        /\ frags' = frags + 1 /\ frags < MaxFrags
    BY <1>1, <1>7 DEF Bounds, ChatStep
  <2>2. said' # <<>> /\ ir' \in {0, 1}
    BY <1>3, <1>7, EmptySeq DEF n
  <2>3. frags' \in 0..MaxFrags
    BY <2>1, TranslationAssumption
  <2>. QED
    BY <1>1, <1>7, <2>1, <2>2, <2>3, StepBounds
<1>. QED
  BY <1>7, <1>10, <1>11, GoesOn

(* What a new block with one fragment contributes.                         *)
LEMMA AddingOne ==
    ASSUME NEW c, ContentType(c), NEW b, b.kind \in Kinds, NEW f \in Nat, b.frags = <<f>>
    PROVE  /\ b.kind = "tool" => Adding(c, b) = Extended(Adding(c, Call), "tool", f)
           /\ b.kind # "tool" => Adding(c, b) = Extended(c, b.kind, f)
<1> DEFINE x == [kind |-> b.kind, frags |-> <<>>]
<1>1. x.kind = b.kind /\ x.frags = <<>> /\ x.frags \in Seq(Nat) /\ b.frags = Append(x.frags, f)
  BY EmptySeq
<1> HIDE DEF x
<1>2. Adding(c, b) = Extended(Adding(c, x), x.kind, f)
  BY <1>1, AddingGrown
<1>3. b.kind = "tool" => Adding(c, x) = Adding(c, Call)
  BY <1>1, AddingByFields DEF Call
<1>4. b.kind # "tool" => Adding(c, x) = c
  <2>1. b.kind # "tool" => x.kind \in {"text", "thinking"}
    BY <1>1 DEF Kinds
  <2>. QED
    BY <1>1, <2>1, AddingNew
<1>. QED
  BY <1>1, <1>2, <1>3, <1>4

(* The decoder knows the tool calls that were said.                        *)
LEMMA ChatTools ==
    ASSUME Inv, ~ended, phase = "body", from = "openai_chat"
    PROVE  /\ ToolsAt(dec, ToolCount) /\ ToolCount \in 0..Len(said) /\ ir = IF ToolCount > 0 THEN 1 ELSE 0
           /\ \A k \in 1..Len(said) : said[k].open /\ said[k].kind \in Kinds
           /\ Len(view.blocks) <= Len(said) /\ to # "openai_chat"
<1>1. Streaming /\ said \in Seq(Said)
  BY Situation
<1>2. ChatInFit /\ to # "openai_chat"
  BY ChatSituation
<1>3. ToolCount \in 0..Len(said) /\ Len(said) \in Nat
  BY <1>1, ToolsCounted, LenProperties DEF ToolCount
<1>4. ToolsAt(dec, ToolCount) /\ dec.curTool = ToolCount - 1
  BY <1>2 DEF ChatInFit, ToolsAt
<1>5. ir = IF ToolCount > 0 THEN 1 ELSE 0
  <2>1. ir = IF dec.curTool >= 0 THEN 1 ELSE 0
    BY <1>2 DEF ChatInFit
  <2> DEFINE t == ToolCount
  <2>2. t \in Nat /\ dec.curTool = t - 1
    BY <1>3, <1>4
  <2> HIDE DEF t
  <2>3. ir = IF t > 0 THEN 1 ELSE 0
    BY <2>1, <2>2
  <2>. QED
    BY <2>3 DEF t
<1>. QED
  BY <1>1, <1>2, <1>3, <1>4, <1>5 DEF Streaming, ChatInFit, Latest

(* A chunk with a new text, thought or tool call.                          *)
LEMMA ChunkNewInv ==
    ASSUME Inv, NEW kind \in Kinds, ChunkNew(kind)
    PROVE  Inv'
<1> DEFINE n == Len(said)
           t == ToolCount
           f == frags + 1
           new == [kind |-> kind, frags |-> <<f>>, open |-> TRUE]
           e == Up("chunk", kind, IF kind = "tool" THEN ToolIndex(n + 1) ELSE 0, f, "none")
           x == ToIR(from, dec, e)
           b == Result(e)
<1>1. /\ ~ended /\ Feed(e) /\ phase = "body" /\ phase' = phase /\ to' = to /\ from' = from
      /\ from = "openai_chat" /\ frags < MaxFrags /\ frags' = f /\ usage' = usage /\ n < MaxBlocks
      /\ said' = Append(said, new)
  BY DEF ChunkNew, Unchanged, SayBlock, Blocky
<1>2. /\ Sound(Now.enc, Now.view) /\ Now.ended = FALSE /\ Now.ended \in BOOLEAN
      /\ Now.enc = enc /\ Now.view = view /\ Now.ir = ir
      /\ to \in Protocols
      /\ DecoderType(dec) /\ said \in Seq(Said) /\ ContentType(Content(said))
      /\ Content(view.blocks) = Content(said) /\ Len(view.blocks) \in Nat
  BY <1>1, Situation
<1>3. /\ ToolsAt(dec, t) /\ t \in 0..n /\ ir = IF t > 0 THEN 1 ELSE 0
      /\ \A k \in 1..n : said[k].open /\ said[k].kind \in Kinds
      /\ Len(view.blocks) <= n /\ to # "openai_chat"
  BY <1>1, ChatTools
<1>4. dec.started = TRUE
  BY <1>1, ChatSituation
<1>5. f \in Nat \ {0} /\ n \in Nat
  <2>1. frags \in Nat
    BY TranslationAssumption DEF Inv, Bounds
  <2>. QED
    BY <1>2, <2>1, LenProperties
<1>6. ToolIndex(n + 1) = t
  <2>1. ToolIndex(n + 1) = ToolsBefore(said, n + 1)
    BY DEF ToolIndex, ToolsBefore
  <2>. QED
    BY <1>2, <2>1, ToolsCounted DEF ToolCount
<1>7. SaysBlock(said, said', kind, <<f>>)
  <2>1. kind \in SaidType /\ <<f>> \in Seq(Nat)
    BY <1>5 DEF SaidType
  <2>. QED
    BY <1>1, <1>2, <2>1, BlockSaid
<1>8. new.kind = kind /\ new.frags = <<f>>
  OBVIOUS
<1> HIDE DEF f
<1>9. e.type = "chunk" /\ e.kind = kind /\ e.index = (IF kind = "tool" THEN t ELSE 0) /\ e.frag = f /\ e.usage = "none"
  BY <1>6, UpFields
<1> HIDE DEF e
<1>10. Steps(x, b)
  BY <1>1, FeedStep
<1>11. /\ Content(said') = Adding(Content(said), new) /\ said' \in Seq(Said) /\ Len(said') = n + 1
       /\ \A k \in 1..n : said'[k] = said[k]
       /\ said'[n + 1].kind = kind /\ said'[n + 1].open = TRUE
       /\ Cardinality(ToolBlocks(said')) = t + IF kind = "tool" THEN 1 ELSE 0
  BY <1>7 DEF SaysBlock, ToolCount
<1> HIDE DEF new, n, t
<1>12. /\ Len(said') > 0 /\ Len(said') <= MaxBlocks /\ said'[Len(said')].kind = kind
       /\ \A k \in 1..Len(said') : said'[k].open /\ said'[k].kind \in Kinds
  BY <1>1, <1>3, <1>5, <1>11, CodecsAssumption
<1>13. x = ChatToIR(dec, e)
  BY <1>1, Decoders
<1>14. CASE kind = "tool"
  <2>1. e.index = t /\ t \in 0..MaxBlocks - 1 /\ dec.blocks[e.index] = "none"
    <3>1. e.index = t /\ t \in 0..MaxBlocks - 1
      BY <1>1, <1>3, <1>5, <1>9, <1>14, CodecsAssumption
    <3>. QED
      BY <1>3, <3>1 DEF ToolsAt
  <2>2. ChatCallBegun(dec, ChatToIR(dec, e), Now, FeedAll(Now, ChatToIR(dec, e).evs), e.index, e.frag)
    <3>1. Now.ir \in Int /\ e.frag \in Nat \ {0}
      BY <1>2, <1>3, <1>5, <1>9
    <3>. QED
      BY <1>2, <1>4, <1>9, <1>14, <2>1, <3>1, ChatNewTool
  <2>3. x.err = FALSE
    BY <1>13, <2>2 DEF ChatCallBegun
  <2>4. b = FeedAll(Now, x.evs)
    BY <2>3, ResultOf
  <2> HIDE DEF x, b
  <2>5. ChatCallBegun(dec, x, Now, b, t, f)
    BY <1>9, <1>13, <2>1, <2>2, <2>4
  <2>6. /\ DecoderType(x.dec) /\ x.dec.blocks = [Shut(dec) EXCEPT ![t] = "tool"]
        /\ x.dec.curTool = t /\ x.dec.started = dec.started /\ x.dec.stopped = dec.stopped
        /\ x.dec.finish = dec.finish /\ x.dec.usage = dec.usage
        /\ CallBegun(Now, b, t + 1, f)
        /\ b.ir = IF dec.curTool < 0 THEN ir + 1 ELSE ir
    BY <1>2, <2>5 DEF ChatCallBegun
  <2>7. ToolsAt(x.dec, t + 1)
    <3>1. /\ dec.curTool = t - 1 /\ t \in Nat
          /\ dec.blocks = [i \in 0..MaxBlocks - 1 |-> dec.blocks[i]]
          /\ \A i \in 0..MaxBlocks - 1 :
                dec.blocks[i] = IF i >= t THEN "none" ELSE IF i = t - 1 THEN "tool" ELSE "closed"
      BY <1>2, <1>3 DEF ToolsAt, DecoderType
    <3>2. Shut(dec) = [i \in 0..MaxBlocks - 1 |-> IF i >= t THEN "none" ELSE "closed"]
      <4>1. CASE dec.curTool < 0
        BY <3>1, <4>1 DEF Shut
      <4>2. CASE ~(dec.curTool < 0)
        <5> DEFINE s == [dec.blocks EXCEPT ![t - 1] = "closed"]
        <5>1. Shut(dec) = s
          BY <3>1, <4>2 DEF Shut
        <5>2. s = [i \in 0..MaxBlocks - 1 |-> IF i = t - 1 THEN "closed" ELSE dec.blocks[i]]
          BY <3>1
        <5> HIDE DEF s
        <5>3. t > 0
          BY <3>1, <4>2
        <5>4. \A i \in 0..MaxBlocks - 1 :
                (IF i = t - 1 THEN "closed" ELSE dec.blocks[i]) = IF i >= t THEN "none" ELSE "closed"
          BY <3>1, <5>3
        <5>. QED
          BY <5>1, <5>2, <5>4
      <4>. QED
        BY <4>1, <4>2
    <3>3. \A i \in 0..MaxBlocks - 1 : x.dec.blocks[i] = IF i = t THEN "tool" ELSE IF i >= t THEN "none" ELSE "closed"
      BY <2>6, <3>2
    <3>4. \A i \in 0..MaxBlocks - 1 :
             x.dec.blocks[i] = IF i >= t + 1 THEN "none" ELSE IF i = (t + 1) - 1 THEN "tool" ELSE "closed"
      BY <3>1, <3>3
    <3>. QED
      BY <2>6, <3>1, <3>4 DEF ToolsAt
  <2>8. b.ir = IF t + 1 > 0 THEN 1 ELSE 0
    BY <1>3, <2>6 DEF ToolsAt
  <2>9. Content(b.view.blocks) = Content(said')
    BY <1>2, <1>5, <1>8, <1>11, <1>14, <2>6, AddingOne DEF CallBegun
  <2>10. Len(b.view.blocks) <= Len(said')
    BY <1>2, <1>3, <1>5, <1>11, <2>6 DEF CallBegun
  <2>11. ChatStep(x, b, t + 1)
    BY <1>1, <1>2, <1>10, <2>3, <2>6, <2>7, <2>8, <2>9, <2>10 DEF ChatStep, CallBegun, f
  <2>12. Ready(b.enc, b.view, t + 1)
    BY <2>6 DEF CallBegun
  <2>13. t + 1 = Cardinality(ToolBlocks(said'))
    BY <1>11, <1>14
  <2>. QED
    BY <1>1, <1>11, <1>12, <1>14, <2>11, <2>12, <2>13, ChatStepInv
<1>15. CASE kind # "tool"
  <2>1. kind \in {"text", "thinking"}
    BY <1>15 DEF Kinds
  <2>2. ChatTextSaid(dec, ChatToIR(dec, e), Now, FeedAll(Now, ChatToIR(dec, e).evs), kind, e.frag)
    <3>1. e.frag \in Nat
      BY <1>5, <1>9
    <3>. QED
      BY <1>2, <1>4, <1>9, <2>1, <3>1, ChatText
  <2>3. x.err = FALSE
    BY <1>13, <2>2 DEF ChatTextSaid
  <2>4. b = FeedAll(Now, x.evs)
    BY <2>3, ResultOf
  <2> HIDE DEF x, b
  <2>5. Alike(dec, x.dec) /\ TextSaid(Now, b, kind, f)
    BY <1>9, <1>13, <2>2, <2>4 DEF ChatTextSaid
  <2>6. ToolsAt(x.dec, t)
    BY <1>3, <2>5 DEF ToolsAt, Alike
  <2>7. Content(b.view.blocks) = Content(said')
    BY <1>2, <1>5, <1>8, <1>11, <1>15, <2>5, AddingOne DEF TextSaid
  <2>8. Len(b.view.blocks) <= Len(said') /\ b.enc.kind = kind
    BY <1>2, <1>3, <1>5, <1>11, <2>5 DEF TextSaid
  <2>9. b.ir = IF t > 0 THEN 1 ELSE 0
    BY <1>2, <1>3, <2>5 DEF TextSaid
  <2>10. ChatStep(x, b, t)
    BY <1>1, <1>2, <1>10, <2>3, <2>5, <2>6, <2>7, <2>8, <2>9 DEF ChatStep, TextSaid,
       Alike, f
  <2>11. t = Cardinality(ToolBlocks(said'))
    BY <1>3, <1>5, <1>11, <1>15
  <2>. QED
    BY <1>1, <1>11, <1>12, <1>15, <2>8, <2>10, <2>11, ChatStepInv
<1>. QED
  BY <1>14, <1>15

(* A chunk that continues one.                                             *)
LEMMA ChunkMoreInv ==
    ASSUME Inv, ~Interleaving, NEW k \in DOMAIN said, ChunkMore(k)
    PROVE  Inv'
<1> DEFINE n == Len(said)
           t == ToolCount
           f == frags + 1
           kind == said[n].kind
           e == Up("chunk", said[k].kind, IF said[k].kind = "tool" THEN ToolIndex(k) ELSE 0, f, "none")
           x == ToIR(from, dec, e)
           b == Result(e)
<1>1. /\ ~ended /\ Feed(e) /\ phase = "body" /\ phase' = phase /\ to' = to /\ from' = from
      /\ from = "openai_chat" /\ frags < MaxFrags /\ frags' = f /\ usage' = usage /\ k = n
      /\ said' = [said EXCEPT ![n].frags = Append(@, f)]
  BY DEF ChunkMore, Unchanged, Blocky
<1>2. /\ Sound(Now.enc, Now.view) /\ Now.ended = FALSE /\ Now.ended \in BOOLEAN
      /\ Now.enc = enc /\ Now.view = view /\ Now.ir = ir
      /\ to \in Protocols /\ Streaming /\ Bounds
      /\ DecoderType(dec) /\ said \in Seq(Said) /\ ContentType(Content(said))
      /\ Content(view.blocks) = Content(said) /\ Len(view.blocks) \in Nat
  BY <1>1, Situation
<1>3. /\ ToolsAt(dec, t) /\ t \in 0..n /\ ir = IF t > 0 THEN 1 ELSE 0
      /\ \A j \in 1..n : said[j].open /\ said[j].kind \in Kinds
      /\ Len(view.blocks) <= n /\ to # "openai_chat"
  BY <1>1, ChatTools
<1>4. dec.started = TRUE
  BY <1>1, ChatSituation
<1>5. f \in Nat \ {0} /\ n \in Nat /\ n \in 1..n /\ n <= MaxBlocks
  <2>1. frags \in Nat /\ n <= MaxBlocks
    BY <1>2, TranslationAssumption DEF Bounds
  <2>2. n \in Nat /\ n \in DOMAIN said /\ DOMAIN said = 1..n
    BY <1>1, <1>2, LenProperties
  <2>. QED
    BY <2>1, <2>2
<1>6. kind \in Kinds
  BY <1>3, <1>5
<1>7. SaysMore(said, said', f)
  <2>1. Len(said) > 0 /\ said[Len(said)].kind \in Kinds /\ f \in Nat
    BY <1>5, <1>6
  <2>. QED
    BY <1>1, <1>2, <2>1, MoreSaid
<1>8. kind = "tool" => t >= 1 /\ ToolIndex(n) = t - 1 /\ Ready(enc, view, t)
  <2> SUFFICES ASSUME kind = "tool" PROVE t >= 1 /\ ToolIndex(n) = t - 1 /\ Ready(enc, view, t)
    OBVIOUS
  <2>1. ToolIndex(n) = ToolsBefore(said, n)
    BY DEF ToolIndex, ToolsBefore
  <2>2. ToolsBefore(said, n) = t - 1
    BY <1>2, <1>5, ToolsCounted DEF ToolCount
  <2>3. ToolsBefore(said, n) \in Nat
    <3>1. ToolBlocks(said) = {m \in DOMAIN said : said[m].kind = "tool"}
      BY DEF ToolBlocks
    <3>2. DOMAIN said = 1..n
      BY <1>2, LenProperties
    <3>3. {m \in 1..n - 1 : said[m].kind = "tool"} \subseteq 1..n
      BY <1>5
    <3>4. IsFiniteSet(1..n)
      BY <1>5, FS_Interval
    <3>. QED
      BY <3>3, <3>4, FS_Subset, FS_CardinalityType DEF ToolsBefore
  <2>4. IRIndex = t
    <3>1. IRIndex = ToolIndex(n) + 1
      BY <1>1 DEF IRIndex, Blocky, Latest
    <3>. QED
      BY <1>3, <2>1, <2>2, <3>1
  <2>5. Ready(enc, view, IRIndex)
    <3>1. LastOpen
      BY <1>3, <1>5 DEF LastOpen, Latest
    <3>2. said[Latest].kind = "tool"
      BY DEF Latest
    <3>. QED
      BY <1>1, <1>2, <3>1, <3>2 DEF Streaming, Current
  <2>. QED
    BY <1>3, <2>1, <2>2, <2>3, <2>4, <2>5
<1>9. kind # "tool" => enc.kind = kind \/ Len(view.blocks) < n
  <2>1. LastOpen
    BY <1>3, <1>5 DEF LastOpen, Latest
  <2>2. kind # "tool" => kind \in {"text", "thinking"}
    BY <1>6 DEF Kinds
  <2>. QED
    BY <1>1, <1>2, <1>3, <2>1, <2>2 DEF Streaming, Current, Latest
<1>10. e.type = "chunk" /\ e.kind = kind /\ e.index = (IF kind = "tool" THEN t - 1 ELSE 0) /\ e.frag = f /\ e.usage = "none"
  BY <1>1, <1>8, UpFields
<1> HIDE DEF f, e
<1>11. Steps(x, b)
  BY <1>1, FeedStep
<1> HIDE DEF n, t, kind
<1>12. /\ Content(said') = Extended(Content(said), kind, f) /\ said' \in Seq(Said) /\ Len(said') = n
       /\ \A j \in 1..n : said'[j].kind = said[j].kind /\ said'[j].open = said[j].open
       /\ Cardinality(ToolBlocks(said')) = t
  BY <1>7 DEF SaysMore, ToolCount, n, t, kind
<1>13. /\ Len(said') > 0 /\ Len(said') <= MaxBlocks /\ said'[Len(said')].kind = kind
       /\ \A j \in 1..Len(said') : said'[j].open /\ said'[j].kind \in Kinds
  <2>1. said'[n].kind = kind
    BY <1>5, <1>12 DEF kind
  <2>. QED
    BY <1>3, <1>5, <1>12, <2>1
<1>14. x = ChatToIR(dec, e)
  BY <1>1, Decoders
<1>15. CASE kind = "tool"
  <2>1. e.index = t - 1 /\ e.index \in 0..MaxBlocks - 1 /\ dec.blocks[e.index] = "tool"
    <3>1. e.index = t - 1 /\ t - 1 \in 0..MaxBlocks - 1
      BY <1>3, <1>5, <1>8, <1>10, <1>15, CodecsAssumption
    <3>2. ~(t - 1 >= t)
      BY <1>3
    <3>. QED
      BY <1>3, <3>1, <3>2 DEF ToolsAt
  <2>2. Ready(Now.enc, Now.view, e.index + 1)
    <3>1. e.index + 1 = t
      BY <1>3, <2>1
    <3>. QED
      BY <1>2, <1>8, <1>15, <3>1
  <2>3. ChatCallContinued(dec, ChatToIR(dec, e), Now, FeedAll(Now, ChatToIR(dec, e).evs), e.index + 1, e.frag)
    BY <1>2, <1>4, <1>5, <1>10, <1>15, <2>1, <2>2, ChatMoreTool
  <2>4. x.err = FALSE
    BY <1>14, <2>3 DEF ChatCallContinued
  <2>5. b = FeedAll(Now, x.evs)
    BY <2>4, ResultOf
  <2> HIDE DEF x, b
  <2>6. e.index + 1 = t
    BY <1>3, <2>1
  <2>7. Alike(dec, x.dec) /\ CallContinued(Now, b, t, f)
    BY <1>10, <1>14, <2>3, <2>5, <2>6 DEF ChatCallContinued
  <2>8. ToolsAt(x.dec, t)
    BY <1>3, <2>7 DEF ToolsAt, Alike
  <2>9. Content(b.view.blocks) = Content(said')
    BY <1>2, <1>12, <1>15, <2>7 DEF CallContinued
  <2>10. Len(b.view.blocks) <= Len(said') /\ Ready(b.enc, b.view, t)
    BY <1>2, <1>3, <1>12, <2>7 DEF CallContinued
  <2>11. b.ir = IF t > 0 THEN 1 ELSE 0
    BY <1>2, <1>3, <2>7 DEF CallContinued
  <2>12. ChatStep(x, b, t)
    BY <1>1, <1>2, <1>11, <2>4, <2>7, <2>8, <2>9, <2>10, <2>11 DEF ChatStep,
       CallContinued, Alike, f
  <2>. QED
    BY <1>1, <1>12, <1>13, <1>15, <2>10, <2>12, ChatStepInv
<1>16. CASE kind # "tool"
  <2>1. kind \in {"text", "thinking"}
    BY <1>6, <1>16 DEF Kinds
  <2>2. ChatTextSaid(dec, ChatToIR(dec, e), Now, FeedAll(Now, ChatToIR(dec, e).evs), kind, e.frag)
    <3>1. e.frag \in Nat
      BY <1>5, <1>10
    <3>. QED
      BY <1>2, <1>4, <1>10, <2>1, <3>1, ChatText
  <2>3. x.err = FALSE
    BY <1>14, <2>2 DEF ChatTextSaid
  <2>4. b = FeedAll(Now, x.evs)
    BY <2>3, ResultOf
  <2> HIDE DEF x, b
  <2>5. Alike(dec, x.dec) /\ TextSaid(Now, b, kind, f)
    BY <1>10, <1>14, <2>2, <2>4 DEF ChatTextSaid
  <2>6. ToolsAt(x.dec, t)
    BY <1>3, <2>5 DEF ToolsAt, Alike
  <2>7. Content(b.view.blocks) = Content(said')
    BY <1>2, <1>12, <2>5 DEF TextSaid
  <2>8. Len(b.view.blocks) <= Len(said') /\ b.enc.kind = kind
    BY <1>2, <1>3, <1>5, <1>9, <1>12, <1>16, <2>5 DEF TextSaid, n
  <2>9. b.ir = IF t > 0 THEN 1 ELSE 0
    BY <1>2, <1>3, <2>5 DEF TextSaid
  <2>10. ChatStep(x, b, t)
    BY <1>1, <1>2, <1>11, <2>3, <2>5, <2>6, <2>7, <2>8, <2>9 DEF ChatStep, TextSaid,
       Alike, f
  <2>. QED
    BY <1>1, <1>12, <1>13, <1>16, <2>8, <2>10, ChatStepInv
<1>. QED
  BY <1>15, <1>16

-----------------------------------------------------------------------------
(***************************************************************************)
(* The invariant holds at first and throughout.                            *)
(***************************************************************************)
(* A new encoder and a client that has nothing fit each other.             *)
LEMMA NewSound ==
    ASSUME to \in Protocols
    PROVE  Sound(NewEncoder, NewView)
<1>1. EncoderType(NewEncoder)
  <2> DEFINE e == NewEncoder
  <2>1. /\ DOMAIN e = {"next", "open", "kind", "openSrc", "src", "items", "output", "usage0"}
        /\ e.next = 0 /\ e.open = -1 /\ e.kind = "none" /\ e.openSrc = -1 /\ e.usage0 = "none"
        /\ e.src = [i \in -1..MaxBlocks |-> -1] /\ e.items = <<>> /\ e.output = <<>>
    BY DEF NewEncoder
  <2>2. <<>> \in Seq(Blocks)
    BY EmptySeq
  <2>3. [i \in -1..MaxBlocks |-> -1] \in [-1..MaxBlocks -> Nat \union {-1}] /\ -1 \in -1..MaxBlocks
    BY CodecsAssumption
  <2> HIDE DEF e
  <2>4. EncoderType(e)
    BY <2>1, <2>2, <2>3 DEF EncoderType, Usages
  <2>. QED
    BY <2>4 DEF e
<1>2. ViewType(NewView) /\ NewView.legal /\ NewView.end = "none"
  BY EmptySeq DEF ViewType, NewView, Usages
<1>3. ChatFit(NewEncoder, NewView)
  <2>1. DOMAIN <<>> = {}
    OBVIOUS
  <2>2. ToolBlocks(<<>>) = {}
    BY <2>1 DEF ToolBlocks
  <2>. QED
    BY <2>2, FS_EmptySet DEF ChatFit, NewEncoder, NewView
<1>4. FramedFit(NewEncoder, NewView)
  BY EmptySeq DEF FramedFit, NewEncoder, NewView
<1>. QED
  BY <1>1, <1>2, <1>3, <1>4 DEF Sound, Typed, Fits

(* A new decoder.                                                          *)
LEMMA NewDecoderType ==
    DecoderType(NewDecoder)
BY CodecsAssumption DEF DecoderType, NewDecoder, Usages

(* The invariant holds at first.                                           *)
LEMMA InitInv ==
    Init => Inv
<1> SUFFICES ASSUME Init PROVE Inv
  OBVIOUS
<1>1. /\ Supported(from, to) /\ to \in Protocols /\ phase = "start" /\ said = <<>> /\ frags = 0
      /\ usage = "none" /\ dec = NewDecoder /\ enc = NewEncoder /\ ended = FALSE /\ failed = FALSE
      /\ ir = 0 /\ view = NewView
  BY DEF Init, Supported
<1>2. said \in Seq(Said) /\ Len(said) = 0 /\ Len(said) <= MaxBlocks
  BY <1>1, EmptySeq, CodecsAssumption
<1>3. Latest = 0 /\ ~LastOpen /\ CallOpen = 0 /\ Current /\ ToolCount = 0
  BY <1>1, NothingSaid
<1>4. /\ dec.usage = "none" /\ dec.started = FALSE /\ dec.stopped = FALSE /\ dec.finish = FALSE
      /\ dec.curTool = -1 /\ \A i \in 0..MaxBlocks - 1 : dec.blocks[i] = "none"
  BY <1>1 DEF NewDecoder
<1>5. view.blocks = <<>> /\ enc.usage0 = "none" /\ Len(view.blocks) = 0
  BY <1>1, EmptySeq DEF NewView, NewEncoder
<1>6. Bounds
  <2>1. frags \in 0..MaxFrags /\ dec.curTool \in -1..MaxBlocks - 1
    BY <1>1, <1>4, TranslationAssumption, CodecsAssumption
  <2>2. {ended, failed} \subseteq BOOLEAN /\ ir \in {0, 1} /\ (ir = 1 => said # <<>>) /\ usage \in Usages
    <3>1. {ended, failed} \subseteq BOOLEAN
      BY <1>1
    <3>2. ir \in {0, 1} /\ ~(ir = 1)
      BY <1>1
    <3>3. usage \in Usages
      BY <1>1 DEF Usages
    <3>. QED
      BY <3>1, <3>2, <3>3
  <2>3. phase \in {"start", "body", "closing", "ended"} /\ Supported(from, to)
    BY <1>1
  <2>. QED
    BY <1>2, <2>1, <2>2, <2>3 DEF Bounds
<1>7. DecoderFit
  <2>1. AnthropicFit
    BY <1>1, <1>3, <1>4 DEF AnthropicFit
  <2>2. ChatInFit
    <3>1. \A i \in 0..MaxBlocks - 1 :
             dec.blocks[i] = IF i >= ToolCount THEN "none" ELSE IF i = dec.curTool THEN "tool" ELSE "closed"
      BY <1>3, <1>4
    <3>2. dec.curTool = (IF phase = "closing" THEN -1 ELSE ToolCount - 1) /\ ir = IF dec.curTool >= 0 THEN 1 ELSE 0
      BY <1>1, <1>3, <1>4
    <3>3. \A k \in 1..Len(said) : said[k].open
      BY <1>2
    <3>. QED
      BY <1>1, <1>4, <3>1, <3>2, <3>3 DEF ChatInFit
  <2>3. ResponsesFit
    BY <1>1, <1>3, <1>4 DEF ResponsesFit
  <2>. QED
    BY <2>1, <2>2, <2>3 DEF DecoderFit
<1>8. Sound(enc, view) /\ DecoderType(dec)
  BY <1>1, NewSound, NewDecoderType
<1>9. Content(view.blocks) = Content(said)
  BY <1>1, <1>5
<1>10. Streaming
  BY <1>1, <1>2, <1>3, <1>5, <1>7, <1>8, <1>9 DEF Streaming
<1>. QED
  BY <1>1, <1>6, <1>10 DEF Inv

(* A step that changes nothing.                                            *)
LEMMA StutterInv ==
    ASSUME Inv, UNCHANGED vars
    PROVE  Inv'
<1>1. /\ from' = from /\ to' = to /\ phase' = phase /\ said' = said /\ frags' = frags /\ usage' = usage
      /\ dec' = dec /\ enc' = enc /\ ended' = ended /\ failed' = failed /\ ir' = ir /\ view' = view
  BY DEF vars, upVars
<1>2. Bounds'
  BY <1>1 DEF Inv, Bounds, Supported
<1>3. ended => Settled'
  BY <1>1 DEF Inv, Settled
<1>4. ASSUME Streaming PROVE Streaming'
  <2>1. Sound(enc, view)' /\ DecoderType(dec)'
    <3>1. Sound(Now.enc, Now.view) /\ enc' = Now.enc /\ view' = Now.view
      BY <1>1, <1>4, NowFields DEF Streaming
    <3>. QED
      BY <1>1, <1>4, <3>1, SoundNext, DecoderTypeNext DEF Streaming
  <2>2. Current'
    BY <1>1, <1>4 DEF Streaming, Current, LastOpen, Latest, IRIndex, Blocky, Index,
       ToolIndex, Ready, ReadyChat
  <2>3. DecoderFit'
    BY <1>1, <1>4 DEF Streaming, DecoderFit, AnthropicFit, ChatInFit, ResponsesFit,
       LastOpen, Latest, CallOpen, Index, ToolCount
  <2>. QED
    BY <1>1, <1>4, <2>1, <2>2, <2>3 DEF Streaming, Latest, Blocky
<1>. QED
  BY <1>1, <1>2, <1>3, <1>4 DEF Inv

(* Every step.                                                             *)
LEMMA NextInv ==
    ASSUME Inv, ~Interleaving, Next
    PROVE  Inv'
<1>1. CASE StartMessage
  BY <1>1, StartMessageInv
<1>2. CASE SendUsage
  BY <1>2, SendUsageInv
<1>3. CASE SendEnd
  BY <1>3, SendEndFramed, SendEndChat
<1>4. CASE SendError
  BY <1>4, SendErrorInv
<1>5. ASSUME NEW kind \in Kinds \union {"redacted", "unknown"}, StartBlock(kind) PROVE Inv'
  BY <1>5, StartBlockInv
<1>6. ASSUME NEW kind \in Kinds, ChunkNew(kind) PROVE Inv'
  BY <1>6, ChunkNewInv
<1>7. ASSUME NEW k \in DOMAIN said, SendDelta(k) PROVE Inv'
  BY <1>7, SendDeltaInv
<1>8. ASSUME NEW k \in DOMAIN said, StopBlock(k) PROVE Inv'
  BY <1>8, StopBlockInv
<1>9. ASSUME NEW k \in DOMAIN said, ChunkMore(k) PROVE Inv'
  BY <1>9, ChunkMoreInv
<1>10. ASSUME NEW u \in {"none", "final"}, SendClosing(u) PROVE Inv'
  BY <1>10, SendClosingInv
<1>. QED
  BY <1>1, <1>2, <1>3, <1>4, <1>5, <1>6, <1>7, <1>8, <1>9, <1>10 DEF Next

(* A block the client's encoder has open is one of the message's.          *)
LEMMA OpenBound ==
    ASSUME Inv
    PROVE  enc.open \in -1..MaxBlocks - 1
<1>1. CASE ended
  BY <1>1, CodecsAssumption DEF Inv, Settled
<1>2. CASE ~ended
  <2>1. Sound(enc, view) /\ Latest \in 0..MaxBlocks
    BY <1>2, Situation DEF Streaming
  <2>2. CASE to = "openai_chat"
    BY <2>1, <2>2, CodecsAssumption DEF Sound, Fits, ChatFit
  <2>3. CASE to # "openai_chat"
    <3>1. FramedFit(enc, view) /\ EncoderType(enc) /\ Len(view.blocks) <= Latest
      BY <1>2, <2>1, <2>3 DEF Inv, Streaming, Sound, Typed, Fits
    <3>2. enc.open = -1 \/ (enc.open = enc.next - 1 /\ enc.open >= 0)
      BY <3>1 DEF FramedFit
    <3>3. enc.next <= MaxBlocks /\ enc.next \in Nat
      BY <2>1, <3>1, CodecsAssumption DEF FramedFit, EncoderType
    <3>. QED
      BY <3>2, <3>3, CodecsAssumption
  <2>. QED
    BY <2>2, <2>3
<1>. QED
  BY <1>1, <1>2 DEF Inv, Bounds

(* What the invariant says to a reader.                                    *)
LEMMA InvImplies ==
    Inv => TypeOK /\ ClientStreamIsLegal /\ MessageIsIntact /\ DecoderContract
<1> SUFFICES ASSUME Inv PROVE TypeOK /\ ClientStreamIsLegal /\ MessageIsIntact /\ DecoderContract
  OBVIOUS
<1>1. /\ Supported(from, to) /\ phase \in {"start", "body", "closing", "ended"} /\ frags \in 0..MaxFrags
      /\ Len(said) <= MaxBlocks /\ said \in Seq(Said) /\ usage \in Usages /\ dec.curTool \in -1..MaxBlocks - 1
      /\ {ended, failed} \subseteq BOOLEAN /\ ir \in {0, 1} /\ (ir = 1 => said # <<>>)
  BY DEF Inv, Bounds
<1>2. ended \in BOOLEAN
  BY <1>1
<1>3. ended => view.legal /\ view.end \in {"stop", "error"}
  BY DEF Inv, Settled
<1>4. ~ended => view.legal /\ view.end = "none"
  BY DEF Inv, Streaming, Sound, Typed
<1>5. view.legal /\ view.end \in {"none", "stop", "error"}
  BY <1>3, <1>4
<1>6. ir \in 0..MaxBlocks
  <2>1. said # <<>> => Len(said) \in Nat \ {0}
    BY <1>1, EmptySeq, LenProperties
  <2>. QED
    BY <1>1, <2>1, CodecsAssumption
<1>7. TypeOK
  BY <1>1, <1>5, <1>6, OpenBound DEF TypeOK, Usages
<1>8. view.end = "stop" => /\ Content(view.blocks) = Content(said) /\ view.usage = usage
                           /\ usage # "final" => phase = "ended"
  BY <1>4 DEF Inv, Settled
<1>9. ir <= 1
  BY <1>1
<1>. QED
  BY <1>5, <1>7, <1>8, <1>9 DEF ClientStreamIsLegal, MessageIsIntact, DecoderContract

(* The invariant holds throughout.                                         *)
LEMMA Invariant ==
    ASSUME ~Interleaving
    PROVE  Spec => []Inv
<1>1. Inv /\ [Next]_vars => Inv'
  BY NextInv, StutterInv
<1>. QED
  BY <1>1, InitInv, PTL DEF Spec

-----------------------------------------------------------------------------
(***************************************************************************)
(* Overlapping blocks.  Whatever a decoder emits, the encoder starts the   *)
(* tool call a fragment is for again when it has closed it: the client is  *)
(* given more tool calls than were made, and a legal stream.               *)
(***************************************************************************)
(* Every number below the count is some tool call's.                       *)
LEMMA NumberedTool ==
    ASSUME NEW S, NEW b \in Seq(S), NEW j \in Nat, j < Cardinality(ToolBlocks(b))
    PROVE  \E k \in ToolBlocks(b) : Cardinality({m \in ToolBlocks(b) : m < k}) = j
<1> DEFINE n == Len(b)
           t == ToolBlocks(b)
           Before(k) == {m \in t : m < k}
           T == {k \in t : j <= Cardinality(Before(k))}
<1>1. n \in Nat /\ IsFiniteSet(t) /\ t \in SUBSET (1..n) /\ Cardinality(t) \in Nat
  BY ToolBlocksFinite, LenProperties
<1> HIDE DEF t, n
<1>2. \A k \in t : Before(k) \in SUBSET (1..n) /\ IsFiniteSet(Before(k)) /\ Cardinality(Before(k)) \in Nat
  <2> TAKE k \in t
  <2>1. Before(k) \subseteq t
    OBVIOUS
  <2>. QED
    BY <1>1, <2>1, FS_Subset, FS_CardinalityType
<1>3. ASSUME NEW p \in t, NEW U \in SUBSET t, p \in U, \A m \in U : m <= p, \A m \in t : m < p => m \in U
      PROVE  Cardinality(Before(p)) = Cardinality(U) - 1
  <2>1. Before(p) = U \ {p}
    <3>1. \A m \in t : m \in Nat
      BY <1>1
    <3>. QED
      BY <1>3, <3>1
  <2>2. IsFiniteSet(U)
    BY <1>1, FS_Subset
  <2>. QED
    BY <1>3, <2>1, <2>2, FS_RemoveElement
<1>4. T # {}
  <2>1. t # {}
    BY <1>1, FS_EmptySet DEF t
  <2>2. Max(t) \in t /\ \A m \in t : m <= Max(t)
    BY <1>1, <2>1, MaxOfSet
  <2>3. PICK p \in t : \A m \in t : m <= p
    BY <2>2
  <2>4. Cardinality(Before(p)) = Cardinality(t) - 1
    BY <1>3, <2>3
  <2>5. j <= Cardinality(t) - 1
    BY <1>1 DEF t
  <2> HIDE DEF Before
  <2>. QED
    BY <2>4, <2>5
<1>5. PICK k \in T : \A l \in T : k <= l
  <2>1. \A l \in t : l \in Nat
    BY <1>1
  <2>2. T \in SUBSET Nat
    BY <2>1
  <2> HIDE DEF T
  <2>. QED
    BY <1>4, <2>2, Least
<1>6. k \in t /\ j <= Cardinality(Before(k))
  OBVIOUS
<1>7. Cardinality(Before(k)) = j
  <2> SUFFICES ASSUME Cardinality(Before(k)) # j PROVE FALSE
    OBVIOUS
  <2> DEFINE U == Before(k)
  <2>1. U \in SUBSET (1..n) /\ IsFiniteSet(U) /\ Cardinality(U) \in Nat /\ U \in SUBSET t
    BY <1>2, <1>6
  <2>2. Cardinality(U) > j /\ Cardinality(U) - 1 >= j /\ Cardinality(U) # 0
    BY <1>6, <2>1
  <2>3. U # {}
    BY <2>2, FS_EmptySet
  <2>4. \A m : m \in U <=> m \in t /\ m < k
    OBVIOUS
  <2> HIDE DEF U
  <2>5. Max(U) \in U /\ \A m \in U : m <= Max(U)
    BY <1>1, <2>1, <2>3, MaxOfSet
  <2>6. PICK p \in U : \A m \in U : m <= p
    BY <2>5
  <2>7. p \in t /\ p < k /\ p \in Nat /\ k \in Nat
    <3>1. p \in t /\ p < k /\ k \in t
      BY <1>6, <2>4
    <3>2. \A l \in t : l \in Nat
      BY <1>1
    <3>. QED
      BY <3>1, <3>2
  <2>8. \A m \in t : m < p => m \in U
    <3>1. \A m \in t : m \in Nat
      BY <1>1
    <3>. QED
      BY <2>4, <2>7, <3>1
  <2>9. Cardinality(Before(p)) = Cardinality(U) - 1
    BY <1>3, <2>1, <2>6, <2>7, <2>8
  <2>10. p \in T
    BY <2>2, <2>7, <2>9
  <2>. QED
    BY <1>5, <2>7, <2>10
<1>. QED
  BY <1>6, <1>7 DEF t

(* The encoder and the client, whatever comes next.                        *)
Whole(e, v) ==
    Sound(e, v) /\ (to = "openai_chat" => \A i \in -1..MaxBlocks : e.src[i] < e.next)

(* A fragment of any tool call, open or not, at a client whose blocks are  *)
(* framed.                                                                 *)
LEMMA AnyInputFramed ==
    ASSUME NEW e, NEW v, Typed(e, v), FramedFit(e, v), to # "openai_chat",
           NEW i \in -1..MaxBlocks, NEW f \in Nat
    PROVE  Typed(WithInput(e, i, f).enc, TakeAll(v, WithInput(e, i, f).out)) /\
           FramedFit(WithInput(e, i, f).enc, TakeAll(v, WithInput(e, i, f).out))
<1>1. CASE e.kind = "tool" /\ e.openSrc = i
  BY <1>1, ToolInputFramed
<1>2. CASE ~(e.kind = "tool" /\ e.openSrc = i)
  <2> DEFINE a == Open(e, "tool", i)
             v1 == TakeAll(v, a.out)
             b == Delta(a.enc, a.enc.open, a.enc.kind, f)
             v2 == TakeAll(v1, b.out)
  <2>1. e.src[i] = -1
    BY <1>2 DEF FramedFit
  <2>2. /\ Listed(a.out) /\ Typed(a.enc, v1) /\ FramedFit(a.enc, v1)
        /\ a.enc.open >= 0 /\ a.enc.kind = "tool" /\ a.enc.openSrc = i
    BY OpenFramed DEF Kinds
  <2>3. WithInput(e, i, f) = Both(a, Delta(a.enc, a.enc.src[i], "tool", f))
    BY <2>1 DEF WithInput, Then
  <2> HIDE DEF a, v1
  <2>4. a.enc.src[i] = a.enc.open
    BY <2>2 DEF FramedFit
  <2>5. Listed(b.out) /\ Typed(b.enc, v2) /\ FramedFit(b.enc, v2)
    BY <2>2, DeltaFramed
  <2>6. WithInput(e, i, f) = Both(a, b)
    BY <2>2, <2>3, <2>4
  <2> HIDE DEF b
  <2>7. Both(a, b).enc = b.enc /\ TakeAll(v, Both(a, b).out) = v2
    BY <2>2, <2>5, BothTaken DEF v1
  <2>. QED
    BY <2>5, <2>6, <2>7
<1>. QED
  BY <1>1, <1>2

(* A fragment of a tool call the client knows.                             *)
LEMMA ChatDelta ==
    ASSUME NEW e, NEW v, Typed(e, v), ChatFit(e, v), to = "openai_chat",
           NEW j \in Nat, j < e.next, NEW f \in Nat
    PROVE  Typed(e, TakeAll(v, <<Out("delta", j, "tool", f)>>)) /\
           ChatFit(e, TakeAll(v, <<Out("delta", j, "tool", f)>>))
<1> DEFINE frame == Out("delta", j, "tool", f)
           w == TakeAll(v, <<frame>>)
           mine == {k \in ToolBlocks(v.blocks) : Cardinality({m \in ToolBlocks(v.blocks) : m < k}) = j}
           n == CHOOSE k \in mine : TRUE
           d == Grown(v.blocks, n, f)
<1>1. /\ v.blocks \in Seq(Blocks) /\ v.end = "none" /\ ViewType(v) /\ v.legal
      /\ EncoderType(e) /\ e.next = Cardinality(ToolBlocks(v.blocks)) /\ v.open = -1 /\ e.open = -1
  BY DEF Typed, ViewType, ChatFit
<1>2. mine # {}
  <2>1. v.blocks \in Seq(Blocks) /\ j < Cardinality(ToolBlocks(v.blocks))
    BY <1>1
  <2>2. \E k \in ToolBlocks(v.blocks) : Cardinality({m \in ToolBlocks(v.blocks) : m < k}) = j
    BY <2>1, NumberedTool, ZenonT(60)
  <2>. QED
    BY <2>2
<1>3. n \in 1..Len(v.blocks)
  <2>1. n \in ToolBlocks(v.blocks)
    BY <1>2
  <2>. QED
    BY <1>1, <2>1, ToolBlocksFinite
<1>4. w = [v EXCEPT !.blocks = d]
  <2>1. w = Take(v, frame)
    BY TakeFold
  <2>2. frame.type = "delta" /\ frame.kind = "tool" /\ frame.frag = f /\ frame.index = j
    BY DEF Out
  <2> HIDE DEF frame, w
  <2>3. Take(v, frame) = TakeChat(v, frame)
    BY <1>1, <2>2 DEF Take
  <2>4. TakeChat(v, frame) = [v EXCEPT !.blocks[n].frags = Append(@, f)]
    BY <1>2, <2>2 DEF TakeChat
  <2>. QED
    BY <2>1, <2>3, <2>4 DEF Grown
<1> HIDE DEF n, mine
<1>5. /\ d \in Seq(Blocks) /\ Len(d) = Len(v.blocks) /\ \A k \in 1..Len(v.blocks) : d[k].kind = v.blocks[k].kind
  BY <1>1, <1>3, GrownBlocks
<1> HIDE DEF d, w, frame
<1>6. ToolBlocks(d) = ToolBlocks(v.blocks)
  BY <1>1, <1>5, ToolBlocksSame
<1>7. /\ w.blocks = d /\ w.open = v.open /\ w.legal = v.legal /\ w.end = v.end
      /\ w.usage = v.usage /\ DOMAIN w = DOMAIN v
  BY <1>1, <1>4 DEF ViewType
<1>8. ViewType(w)
  BY <1>1, <1>5, <1>7 DEF ViewType
<1>9. Typed(e, w) /\ ChatFit(e, w)
  BY <1>1, <1>6, <1>7, <1>8 DEF Typed, ChatFit
<1>. QED
  BY <1>9 DEF w, frame

(* A tool call more has the next number.                                   *)
LEMMA Numbering ==
    ASSUME NEW e, EncoderType(e), \A i \in -1..MaxBlocks : e.src[i] < e.next, NEW j \in -1..MaxBlocks
    PROVE  /\ \A i \in -1..MaxBlocks : ChatTool(e, j).enc.src[i] < ChatTool(e, j).enc.next
           /\ ChatTool(e, j).enc.src[j] = e.next /\ ChatTool(e, j).enc.next = e.next + 1
           /\ ChatTool(e, j).out = <<Out("block_start", e.next, "tool", 0)>>
<1> DEFINE x == ChatTool(e, j).enc
<1>1. /\ x = [e EXCEPT !.next = e.next + 1, !.src = [e.src EXCEPT ![j] = e.next]]
      /\ ChatTool(e, j).out = <<Out("block_start", e.next, "tool", 0)>>
  BY DEF ChatTool, Encoded
<1>2. e.src \in [-1..MaxBlocks -> Nat \union {-1}] /\ e.next \in Nat /\ "src" \in DOMAIN e /\ "next" \in DOMAIN e
  BY DEF EncoderType
<1> HIDE DEF x
<1>3. x.next = e.next + 1 /\ x.src = [e.src EXCEPT ![j] = e.next]
  BY <1>1, <1>2
<1>4. \A i \in -1..MaxBlocks : x.src[i] = IF i = j THEN e.next ELSE e.src[i]
  BY <1>2, <1>3
<1>5. \A i \in -1..MaxBlocks : x.src[i] < x.next
  <2> TAKE i \in -1..MaxBlocks
  <2>1. e.src[i] < e.next /\ e.src[i] \in Nat \union {-1} /\ e.next \in Nat
    BY <1>2
  <2>2. x.next = e.next + 1
    BY <1>3
  <2>3. CASE i = j
    BY <1>4, <2>1, <2>2, <2>3
  <2>4. CASE i # j
    BY <1>4, <2>1, <2>2, <2>4
  <2>. QED
    BY <2>3, <2>4
<1>6. x.src[j] = e.next
  BY <1>4
<1>. QED
  BY <1>1, <1>3, <1>5, <1>6 DEF x

(* A fragment of any tool call, at a Chat client.                          *)
LEMMA AnyInputChat ==
    ASSUME NEW e, NEW v, Typed(e, v), ChatFit(e, v), to = "openai_chat", Whole(e, v),
           NEW i \in -1..MaxBlocks, NEW f \in Nat
    PROVE  Whole(ChatInput(e, i, f).enc, TakeAll(v, ChatInput(e, i, f).out))
<1>1. EncoderType(e) /\ e.src[i] \in Nat \union {-1} /\ e.next \in Nat /\ \A j \in -1..MaxBlocks : e.src[j] < e.next
  BY DEF Typed, EncoderType, Whole
<1>2. CASE e.src[i] >= 0
  <2> DEFINE frame == Out("delta", e.src[i], "tool", f)
  <2>1. ChatInput(e, i, f) = Encoded(e, <<>> \o <<frame>>)
    BY <1>2 DEF ChatInput, Then, Both, Encoded
  <2>2. <<>> \o <<frame>> = <<frame>>
    BY Lists
  <2> HIDE DEF frame
  <2>3. ChatInput(e, i, f).enc = e /\ ChatInput(e, i, f).out = <<frame>>
    BY <2>1, <2>2 DEF Encoded
  <2>4. Typed(e, TakeAll(v, <<frame>>)) /\ ChatFit(e, TakeAll(v, <<frame>>))
    BY <1>1, <1>2, ChatDelta DEF frame
  <2>. QED
    BY <1>1, <2>3, <2>4 DEF Whole, Sound, Fits
<1>3. CASE ~(e.src[i] >= 0)
  <2> DEFINE a == ChatTool(e, i)
             v1 == TakeAll(v, a.out)
             frame == Out("delta", e.next, "tool", f)
             b == Encoded(a.enc, <<frame>>)
             v2 == TakeAll(v1, <<frame>>)
  <2>1. Typed(a.enc, v1) /\ ChatFit(a.enc, v1)
    BY ToolStartChat
  <2>2. /\ \A j \in -1..MaxBlocks : a.enc.src[j] < a.enc.next
        /\ a.enc.src[i] = e.next /\ a.enc.next = e.next + 1
        /\ a.out = <<Out("block_start", e.next, "tool", 0)>>
    BY <1>1, Numbering
  <2>3. ChatInput(e, i, f) = Both(a, Encoded(a.enc, <<Out("delta", a.enc.src[i], "tool", f)>>))
    BY <1>3 DEF ChatInput, Then
  <2> HIDE DEF a, v1
  <2>4. ChatInput(e, i, f) = Both(a, b)
    BY <2>2, <2>3
  <2>5. b.enc = a.enc /\ b.out = <<frame>>
    BY DEF Encoded
  <2>6. Typed(a.enc, v2) /\ ChatFit(a.enc, v2)
    BY <1>1, <2>1, <2>2, ChatDelta
  <2> HIDE DEF b, frame
  <2>7. Listed(a.out) /\ Listed(b.out)
    BY <2>2, <2>5, Lists
  <2>8. Both(a, b).enc = b.enc /\ TakeAll(v, Both(a, b).out) = TakeAll(TakeAll(v, a.out), b.out)
    BY <2>7, BothTaken
  <2>9. Both(a, b).enc = a.enc /\ TakeAll(v, Both(a, b).out) = v2
    BY <2>5, <2>8 DEF v1
  <2>. QED
    BY <2>2, <2>4, <2>6, <2>9 DEF Whole, Sound, Fits
<1>. QED
  BY <1>2, <1>3

(* An IR event a decoder may emit.                                         *)
Emitted(ev) ==
    /\ ev.kind \in BodyKinds \union {"message_start", "message_stop", "error"}
    /\ ev.index \in -1..MaxBlocks /\ ev.frag \in Nat /\ ev.usage \in Usages

(* Any event of the body.                                                  *)
LEMMA BodyWhole ==
    ASSUME NEW e, NEW v, Whole(e, v), to \in Protocols, NEW ev, Emitted(ev),
           ev.kind \in BodyKinds
    PROVE  Whole(FromIR(to, e, ev).enc, TakeAll(v, FromIR(to, e, ev).out))
<1> DEFINE r == FromIR(to, e, ev)
           w == TakeAll(v, r.out)
<1>1. Sound(e, v) /\ Typed(e, v) /\ ev.index \in -1..MaxBlocks /\ ev.frag \in Nat
  BY DEF Whole, Sound, Emitted
<1>2. CASE to # "openai_chat" /\ ev.kind # "tool_input_delta"
  <2>1. Encodes(e, v, ev)
    BY <1>1, <1>2, BodyFramed
  <2>. QED
    BY <1>2, <2>1 DEF Encodes, Whole
<1>3. CASE to # "openai_chat" /\ ev.kind = "tool_input_delta"
  <2>1. r = WithInput(e, ev.index, ev.frag)
    BY <1>3 DEF FromIR, AnthropicFromIR, ResponsesFromIR, Protocols, BlockFromIR,
       WithInput, Then
  <2>2. FramedFit(e, v)
    BY <1>1, <1>3 DEF Sound, Fits
  <2>3. Typed(r.enc, w) /\ FramedFit(r.enc, w)
    BY <1>1, <1>3, <2>1, <2>2, AnyInputFramed
  <2> HIDE DEF r
  <2>. QED
    BY <1>3, <2>3 DEF Whole, Sound, Fits, r
<1>4. CASE to = "openai_chat" /\ ev.kind # "tool_input_delta"
  <2>1. Encodes(e, v, ev)
    BY <1>1, <1>4, BodyChat
  <2>2. r.enc = e \/ r.enc = ChatTool(e, ev.index).enc
    BY <1>4 DEF FromIR, ChatFromIR, BodyKinds, Encoded
  <2>3. EncoderType(e) /\ \A i \in -1..MaxBlocks : e.src[i] < e.next
    BY <1>1, <1>4 DEF Whole, Typed
  <2>4. \A i \in -1..MaxBlocks : r.enc.src[i] < r.enc.next
    <3> HIDE DEF r
    <3>. QED
      BY <1>1, <2>2, <2>3, Numbering
  <2>. QED
    BY <2>1, <2>4 DEF Encodes, Whole
<1>5. CASE to = "openai_chat" /\ ev.kind = "tool_input_delta"
  <2>1. r = ChatInput(e, ev.index, ev.frag)
    BY <1>5 DEF FromIR, ChatFromIR, ChatInput, Then
  <2>2. ChatFit(e, v)
    BY <1>1, <1>5 DEF Sound, Fits
  <2> HIDE DEF r
  <2>3. Whole(r.enc, w)
    BY <1>1, <1>5, <2>1, <2>2, AnyInputChat
  <2>. QED
    BY <2>3 DEF r
<1>. QED
  BY <1>2, <1>3, <1>4, <1>5

-----------------------------------------------------------------------------
(***************************************************************************)
(* Events that a stream can bear.                                          *)
(***************************************************************************)
(* A stream that goes on, and one that is as it should be.                 *)
Going(a) == a.ended = FALSE /\ Whole(a.enc, a.view)
Safe(a)  == a.ended \in BOOLEAN /\ IF a.ended THEN a.view.legal ELSE Whole(a.enc, a.view)

(* Events after which it goes on, and events it can bear.                  *)
Calm(evs)     == Listed(evs) /\ \A a : Going(a) => Going(FeedAll(a, evs))
Harmless(evs) == Listed(evs) /\ \A a : Going(a) => Safe(FeedAll(a, evs))

(* The stream goes on after an event of the body.                          *)
LEMMA BodyCalm ==
    ASSUME to \in Protocols, NEW ev, Emitted(ev), ev.kind \in BodyKinds
    PROVE  Calm(<<ev>>)
<1>1. ASSUME NEW a, Going(a) PROVE Going(FeedAll(a, <<ev>>))
  <2> DEFINE r == FromIR(to, a.enc, ev)
             b == FeedEvent(a, ev)
  <2>1. FeedAll(a, <<ev>>) = b
    BY FeedFold
  <2>2. /\ b.enc = r.enc /\ b.view = TakeAll(a.view, r.out)
        /\ b.ended = (a.ended \/ ev.kind \in {"message_stop", "error"})
    BY DEF FeedEvent
  <2>3. ev.kind \notin {"message_stop", "error"}
    BY DEF BodyKinds
  <2>4. Whole(r.enc, TakeAll(a.view, r.out))
    BY <1>1, BodyWhole DEF Going
  <2> HIDE DEF b, r
  <2>5. b.ended = FALSE
    BY <1>1, <2>2, <2>3 DEF Going
  <2>. QED
    BY <2>1, <2>2, <2>4, <2>5 DEF Going
<1>. QED
  BY <1>1, Lists DEF Calm

(* It ends after message_stop or error.                                    *)
LEMMA EndHarmless ==
    ASSUME to \in Protocols, NEW ev, ev.kind \in {"message_stop", "error"},
           ev.usage \in Usages
    PROVE  Harmless(<<ev>>)
<1>1. ASSUME NEW a, Going(a) PROVE Safe(FeedAll(a, <<ev>>))
  <2>1. Sound(a.enc, a.view)
    BY <1>1 DEF Going, Whole
  <2>2. Terminated(a, FeedAll(a, <<ev>>), ev)
    BY <2>1, FeedEnd
  <2>. QED
    BY <2>2 DEF Terminated, Safe
<1>. QED
  BY <1>1, Lists DEF Harmless

(* message_start, when the client has nothing yet.                         *)
LEMMA StartGoes ==
    ASSUME to \in Protocols, NEW ev, ev.kind = "message_start", ev.usage \in Usages,
           NEW a, Going(a), a.view.blocks = <<>>
    PROVE  Going(FeedAll(a, <<ev>>))
<1> DEFINE r == FromIR(to, a.enc, ev)
           b == FeedEvent(a, ev)
<1>1. Sound(a.enc, a.view) /\ a.ended = FALSE /\ a.ended \in BOOLEAN
  BY DEF Going, Whole
<1>2. FeedAll(a, <<ev>>) = b
  BY FeedFold
<1>3. b.enc = r.enc
  BY DEF FeedEvent
<1>4. to = "openai_chat" => r.enc = a.enc
  BY DEF FromIR, ChatFromIR, Encoded
<1>5. Opening(a, FeedAll(a, <<ev>>), ev)
  BY <1>1, FeedStart
<1> HIDE DEF b, r
<1>6. Sound(b.enc, b.view) /\ b.ended = FALSE
  BY <1>1, <1>2, <1>5 DEF Opening
<1>7. to = "openai_chat" => \A i \in -1..MaxBlocks : b.enc.src[i] < b.enc.next
  BY <1>3, <1>4 DEF Going, Whole
<1>. QED
  BY <1>2, <1>6, <1>7 DEF Going, Whole

(* Events one after the other.                                             *)
LEMMA CalmThen ==
    /\ Calm(<<>>)
    /\ \A s : Calm(s) => Harmless(s)
    /\ \A s, t : Calm(s) /\ Calm(t) => Calm(s \o t)
    /\ \A s, t : Calm(s) /\ Harmless(t) => Harmless(s \o t)
<1>1. Calm(<<>>)
  BY FeedFold, Lists DEF Calm
<1>2. ASSUME NEW a, Going(a) PROVE Safe(a)
  BY <1>2 DEF Going, Safe
<1>3. ASSUME NEW s, Calm(s) PROVE Harmless(s)
  BY <1>2, <1>3 DEF Calm, Harmless
<1>4. ASSUME NEW s, NEW t, Calm(s), Calm(t) PROVE Calm(s \o t)
  <2>1. Listed(s) /\ Listed(t) /\ Listed(s \o t)
    BY <1>4, Lists DEF Calm
  <2>2. ASSUME NEW a, Going(a) PROVE Going(FeedAll(a, s \o t))
    <3>1. FeedAll(a, s \o t) = FeedAll(FeedAll(a, s), t)
      BY <2>1, FeedFold
    <3>. QED
      BY <1>4, <2>2, <3>1 DEF Calm
  <2>. QED
    BY <2>1, <2>2 DEF Calm
<1>5. ASSUME NEW s, NEW t, Calm(s), Harmless(t) PROVE Harmless(s \o t)
  <2>1. Listed(s) /\ Listed(t) /\ Listed(s \o t)
    BY <1>5, Lists DEF Calm, Harmless
  <2>2. ASSUME NEW a, Going(a) PROVE Safe(FeedAll(a, s \o t))
    <3>1. FeedAll(a, s \o t) = FeedAll(FeedAll(a, s), t)
      BY <2>1, FeedFold
    <3>2. Going(FeedAll(a, s))
      BY <1>5, <2>2 DEF Calm
    <3>. QED
      BY <1>5, <3>1, <3>2 DEF Harmless
  <2>. QED
    BY <2>1, <2>2 DEF Harmless
<1>. QED
  BY <1>1, <1>3, <1>4, <1>5

(* The steps of chatStreamIn, once the message has started.                *)
CalmStep(x) ==
    /\ DecoderType(x.dec) /\ x.dec.started = TRUE /\ x.err \in BOOLEAN
    /\ x.err = FALSE => Calm(x.evs)
SafeStep(x) ==
    /\ DecoderType(x.dec) /\ x.dec.started = TRUE /\ x.err \in BOOLEAN
    /\ x.err = FALSE => Harmless(x.evs)

(* A calm step is safe.                                                    *)
LEMMA CalmIsSafe ==
    ASSUME NEW x, CalmStep(x)
    PROVE  SafeStep(x)
BY CalmThen DEF CalmStep, SafeStep

(* Steps that decode or fail.                                              *)
LEMMA Steps2 ==
    /\ \A d, evs : DecoderType(d) /\ d.started = TRUE /\ Calm(evs) => CalmStep(Decoded(d, evs))
    /\ \A d, evs : DecoderType(d) /\ d.started = TRUE /\ Harmless(evs) => SafeStep(Decoded(d, evs))
    /\ \A d : DecoderType(d) /\ d.started = TRUE => CalmStep(Undecodable(d))
BY DEF CalmStep, SafeStep, Decoded, Undecodable

(* A step after a step.                                                    *)
LEMMA JoinCalm ==
    ASSUME NEW x, NEW y, CalmStep(x), CalmStep(y)
    PROVE  CalmStep(Join(x, y))
<1>1. CASE x.err = FALSE /\ y.err = FALSE
  <2>1. Join(x, y) = Decoded(y.dec, x.evs \o y.evs)
    BY <1>1 DEF Join
  <2>2. Calm(x.evs \o y.evs)
    BY <1>1, CalmThen DEF CalmStep
  <2>. QED
    BY <2>1, <2>2, Steps2 DEF CalmStep
<1>2. CASE ~(x.err = FALSE /\ y.err = FALSE)
  <2>1. x.err \/ y.err
    BY <1>2 DEF CalmStep
  <2>2. Join(x, y) = Undecodable(x.dec) \/ Join(x, y) = Undecodable(y.dec)
    BY <2>1 DEF Join
  <2>. QED
    BY <2>2, Steps2 DEF CalmStep
<1>. QED
  BY <1>1, <1>2

(* The last step may end the stream.                                       *)
LEMMA JoinSafe ==
    ASSUME NEW x, NEW y, CalmStep(x), SafeStep(y)
    PROVE  SafeStep(Join(x, y))
<1>1. CASE x.err = FALSE /\ y.err = FALSE
  <2>1. Join(x, y) = Decoded(y.dec, x.evs \o y.evs)
    BY <1>1 DEF Join
  <2>2. Harmless(x.evs \o y.evs)
    BY <1>1, CalmThen DEF CalmStep, SafeStep
  <2>. QED
    BY <2>1, <2>2, Steps2 DEF SafeStep
<1>2. CASE ~(x.err = FALSE /\ y.err = FALSE)
  <2>1. x.err \/ y.err
    BY <1>2 DEF CalmStep, SafeStep
  <2>2. Join(x, y) = Undecodable(x.dec) \/ Join(x, y) = Undecodable(y.dec)
    BY <2>1 DEF Join
  <2>3. CalmStep(Join(x, y))
    BY <2>2, Steps2 DEF CalmStep, SafeStep
  <2>. QED
    BY <2>3, CalmIsSafe
<1>. QED
  BY <1>1, <1>2

-----------------------------------------------------------------------------
(***************************************************************************)
(* What chatStreamIn emits is such, whatever its state.                    *)
(***************************************************************************)
(* A block's entry is set.                                                 *)
LEMMA Reblocked ==
    ASSUME NEW d, DecoderType(d), NEW i, NEW k, NEW x, x = [d EXCEPT !.blocks[i] = k]
    PROVE  DecoderType(x) /\ x.started = d.started
<1> DEFINE blocks == [d.blocks EXCEPT ![i] = k]
<1>1. d.blocks = [j \in 0..MaxBlocks - 1 |-> d.blocks[j]]
  BY DEF DecoderType
<1>2. blocks = [j \in 0..MaxBlocks - 1 |-> blocks[j]]
  BY <1>1
<1> HIDE DEF blocks
<1>3. /\ DOMAIN x = DOMAIN d /\ x.blocks = blocks /\ x.started = d.started /\ x.stopped = d.stopped
      /\ x.curTool = d.curTool /\ x.finish = d.finish /\ x.reasonOpen = d.reasonOpen /\ x.usage = d.usage
  BY DEF DecoderType, blocks
<1>. QED
  BY <1>2, <1>3 DEF DecoderType

(* And curTool with it.                                                    *)
LEMMA Retooled ==
    ASSUME NEW d, DecoderType(d), NEW i, NEW k, NEW j \in -1..MaxBlocks - 1,
           NEW x, x = [d EXCEPT !.curTool = j, !.blocks[i] = k]
    PROVE  DecoderType(x) /\ x.started = d.started
<1> DEFINE blocks == [d.blocks EXCEPT ![i] = k]
<1>1. d.blocks = [n \in 0..MaxBlocks - 1 |-> d.blocks[n]]
  BY DEF DecoderType
<1>2. blocks = [n \in 0..MaxBlocks - 1 |-> blocks[n]]
  BY <1>1
<1> HIDE DEF blocks
<1>3. /\ DOMAIN x = DOMAIN d /\ x.blocks = blocks /\ x.started = d.started /\ x.stopped = d.stopped
      /\ x.curTool = j /\ x.finish = d.finish /\ x.reasonOpen = d.reasonOpen /\ x.usage = d.usage
  BY DEF DecoderType, blocks
<1>. QED
  BY <1>2, <1>3 DEF DecoderType

(* Any other field.                                                        *)
LEMMA Reset ==
    ASSUME NEW d, DecoderType(d)
    PROVE  /\ \A b \in BOOLEAN : /\ DecoderType([d EXCEPT !.reasonOpen = b])
                                 /\ [d EXCEPT !.reasonOpen = b].started = d.started
           /\ \A b \in BOOLEAN : /\ DecoderType([d EXCEPT !.finish = b])
                                 /\ [d EXCEPT !.finish = b].started = d.started
           /\ \A b \in BOOLEAN : /\ DecoderType([d EXCEPT !.stopped = b])
                                 /\ [d EXCEPT !.stopped = b].started = d.started
           /\ \A b \in BOOLEAN : DecoderType([d EXCEPT !.started = b])
           /\ \A u \in Usages : DecoderType([d EXCEPT !.usage = u])
BY DEF DecoderType

(* closeCurrentTool.                                                       *)
LEMMA CloseCurrentToolCalm ==
    ASSUME to \in Protocols, NEW d, DecoderType(d), d.started = TRUE
    PROVE  CalmStep(CloseCurrentTool(d))
<1>1. CASE d.curTool < 0
  BY <1>1, Steps2, CalmThen DEF CloseCurrentTool
<1>2. CASE ~(d.curTool < 0)
  <2> DEFINE ev == On("tool_use_stop", d.curTool + 1)
             x == [d EXCEPT !.curTool = -1, !.blocks[d.curTool] = "closed"]
  <2>1. CloseCurrentTool(d) = Decoded(x, <<ev>>)
    BY <1>2 DEF CloseCurrentTool
  <2>2. d.curTool \in -1..MaxBlocks - 1
    BY DEF DecoderType
  <2>3. Emitted(ev) /\ ev.kind \in BodyKinds
    BY <1>2, <2>2, CodecsAssumption DEF Emitted, BodyKinds, On, IR, Usages
  <2>4. -1 \in -1..MaxBlocks - 1
    BY CodecsAssumption
  <2> HIDE DEF ev
  <2>5. Calm(<<ev>>)
    BY <2>3, BodyCalm
  <2>6. DecoderType(x) /\ x.started = TRUE
    BY <2>4, Retooled
  <2> HIDE DEF x
  <2>. QED
    BY <2>1, <2>5, <2>6, Steps2
<1>. QED
  BY <1>1, <1>2

(* closeReasoning.                                                         *)
LEMMA CloseReasoningCalm ==
    ASSUME to \in Protocols, NEW d, DecoderType(d), d.started = TRUE
    PROVE  CalmStep(CloseReasoning(d))
<1> DEFINE ev == On("thinking_done", -1)
           x == [d EXCEPT !.reasonOpen = FALSE]
           evs == IF d.reasonOpen THEN <<ev>> ELSE <<>>
<1>1. CloseReasoning(d) = Decoded(x, evs)
  BY DEF CloseReasoning
<1>2. Emitted(ev) /\ ev.kind \in BodyKinds
  BY CodecsAssumption DEF Emitted, BodyKinds, On, IR, Usages
<1> HIDE DEF ev
<1>3. Calm(evs)
  BY <1>2, BodyCalm, CalmThen
<1>4. DecoderType(x) /\ x.started = TRUE
  BY Reset
<1> HIDE DEF x, evs
<1>. QED
  BY <1>1, <1>3, <1>4, Steps2

(* finishIfNeeded.                                                         *)
LEMMA FinishSafe ==
    ASSUME to \in Protocols, NEW d, DecoderType(d), d.started = TRUE
    PROVE  SafeStep(FinishIfNeeded(d))
<1>1. CASE d.stopped
  <2>1. FinishIfNeeded(d) = Decoded(d, <<>>)
    BY <1>1 DEF FinishIfNeeded
  <2>. QED
    BY <2>1, Steps2, CalmThen, CalmIsSafe
<1>2. CASE ~d.stopped
  <2> DEFINE d1 == [d EXCEPT !.stopped = TRUE]
             x == CloseCurrentTool(d1)
             y == CloseReasoning(x.dec)
             xy == Join(x, y)
             z == StopMessage(xy.dec)
             ev == IR("message_stop", 0, 0, xy.dec.usage)
  <2>1. FinishIfNeeded(d) = Join(xy, z)
    BY <1>2 DEF FinishIfNeeded, AndThen
  <2>2. DecoderType(d1) /\ d1.started = TRUE
    BY Reset
  <2> HIDE DEF d1
  <2>3. CalmStep(x)
    BY <2>2, CloseCurrentToolCalm
  <2> HIDE DEF x
  <2>4. CalmStep(y)
    BY <2>3, CloseReasoningCalm DEF CalmStep
  <2> HIDE DEF y
  <2>5. CalmStep(xy)
    BY <2>3, <2>4, JoinCalm
  <2> HIDE DEF xy
  <2>6. DecoderType(xy.dec) /\ xy.dec.started = TRUE /\ xy.dec.usage \in Usages
    BY <2>5 DEF CalmStep, DecoderType
  <2>7. z = Decoded(xy.dec, <<ev>>)
    BY DEF StopMessage
  <2>8. ev.kind \in {"message_stop", "error"} /\ ev.usage \in Usages
    BY <2>6 DEF IR
  <2> HIDE DEF ev, z
  <2>9. Harmless(<<ev>>)
    BY <2>8, EndHarmless
  <2>10. SafeStep(z)
    BY <2>6, <2>7, <2>9, Steps2
  <2>. QED
    BY <2>1, <2>5, <2>10, JoinSafe
<1>. QED
  BY <1>1, <1>2

(* startTool.                                                              *)
LEMMA StartToolCalm ==
    ASSUME to \in Protocols, NEW d, DecoderType(d), d.started = TRUE,
           NEW i \in 0..MaxBlocks - 1
    PROVE  CalmStep(StartTool(d, i))
<1> DEFINE x == CloseCurrentTool(d)
           y == CloseReasoning(x.dec)
           xy == Join(x, y)
           z == OpenTool(xy.dec, i)
           ev == On("tool_use_start", i + 1)
           u == [xy.dec EXCEPT !.blocks[i] = "tool", !.curTool = i]
           w == [xy.dec EXCEPT !.curTool = i, !.blocks[i] = "tool"]
<1>1. StartTool(d, i) = Join(xy, z)
  BY DEF StartTool, AndThen
<1>2. CalmStep(x)
  BY CloseCurrentToolCalm
<1> HIDE DEF x
<1>3. CalmStep(y)
  BY <1>2, CloseReasoningCalm DEF CalmStep
<1> HIDE DEF y
<1>4. CalmStep(xy)
  BY <1>2, <1>3, JoinCalm
<1> HIDE DEF xy
<1>5. DecoderType(xy.dec) /\ xy.dec.started = TRUE
  BY <1>4 DEF CalmStep
<1>6. i \in -1..MaxBlocks - 1
  OBVIOUS
<1>7. u = w
  OBVIOUS
<1>8. DecoderType(w) /\ w.started = TRUE
  BY <1>5, <1>6, Retooled
<1>9. z = Decoded(u, <<ev>>)
  BY DEF OpenTool
<1>10. Emitted(ev) /\ ev.kind \in BodyKinds
  BY CodecsAssumption DEF Emitted, BodyKinds, On, IR, Usages
<1> HIDE DEF z, u, w, ev
<1>11. Calm(<<ev>>)
  BY <1>10, BodyCalm
<1>12. CalmStep(z)
  BY <1>7, <1>8, <1>9, <1>11, Steps2
<1>. QED
  BY <1>1, <1>4, <1>12, JoinCalm

(* The arguments.                                                          *)
LEMMA ToolInputCalm ==
    ASSUME to \in Protocols, NEW d, DecoderType(d), d.started = TRUE,
           NEW e, e.index \in 0..MaxBlocks - 1, e.frag \in Nat
    PROVE  CalmStep(ToolInput(d, e))
<1> DEFINE ev == Piece("tool_input_delta", e.index + 1, e.frag)
<1>1. Emitted(ev) /\ ev.kind \in BodyKinds
  BY CodecsAssumption DEF Emitted, BodyKinds, Piece, IR, Usages
<1>2. ToolInput(d, e) = Decoded(d, IF e.frag = 0 THEN <<>> ELSE <<ev>>)
  BY DEF ToolInput
<1> HIDE DEF ev
<1>3. Calm(<<ev>>) /\ Calm(<<>>)
  BY <1>1, BodyCalm, CalmThen
<1>. QED
  BY <1>2, <1>3, Steps2

(* A fragment of a tool call: started, continued or refused.               *)
LEMMA ToolFragmentCalm ==
    ASSUME to \in Protocols, NEW d, DecoderType(d), d.started = TRUE,
           NEW e, e.index \in 0..MaxBlocks - 1, e.frag \in Nat
    PROVE  CalmStep(ToolFragment(d, e))
<1>1. CASE d.blocks[e.index] = "closed"
  BY <1>1, Steps2 DEF ToolFragment
<1>2. CASE d.blocks[e.index] = "none"
  <2> DEFINE x == StartTool(d, e.index)
             y == ToolInput(x.dec, e)
  <2>1. ToolFragment(d, e) = Join(x, y)
    BY <1>2 DEF ToolFragment, AndThen
  <2>2. CalmStep(x)
    BY StartToolCalm
  <2> HIDE DEF x
  <2>3. CalmStep(y)
    BY <2>2, ToolInputCalm DEF CalmStep
  <2> HIDE DEF y
  <2>. QED
    BY <2>1, <2>2, <2>3, JoinCalm
<1>3. CASE d.blocks[e.index] \notin {"closed", "none"}
  <2>1. ToolFragment(d, e) = ToolInput(d, e)
    BY <1>3 DEF ToolFragment
  <2>. QED
    BY <2>1, ToolInputCalm
<1>. QED
  BY <1>1, <1>2, <1>3

(* A choice.                                                               *)
LEMMA ChatChoiceCalm ==
    ASSUME to \in Protocols, NEW d, DecoderType(d), d.started = TRUE,
           NEW e, e.frag \in Nat, e.kind = "tool" => e.index \in 0..MaxBlocks - 1
    PROVE  CalmStep(ChatChoice(d, e))
<1>1. CASE e.type = "chunk" /\ e.kind = "thinking"
  <2> DEFINE ev == Piece("thinking_delta", -1, e.frag)
             x == [d EXCEPT !.reasonOpen = TRUE]
  <2>1. ChatChoice(d, e) = Decoded(x, <<ev>>)
    BY <1>1 DEF ChatChoice
  <2>2. Emitted(ev) /\ ev.kind \in BodyKinds
    BY CodecsAssumption DEF Emitted, BodyKinds, Piece, IR, Usages
  <2>3. DecoderType(x) /\ x.started = TRUE
    BY Reset
  <2> HIDE DEF ev, x
  <2>. QED
    BY <2>1, <2>2, <2>3, BodyCalm, Steps2
<1>2. CASE e.type = "chunk" /\ e.kind = "text"
  <2> DEFINE ev == Piece("text_delta", 0, e.frag)
             x == CloseReasoning(d)
             y == Decoded(x.dec, <<ev>>)
  <2>1. ChatChoice(d, e) = Join(x, y)
    BY <1>2 DEF ChatChoice, AndThen
  <2>2. Emitted(ev) /\ ev.kind \in BodyKinds
    BY CodecsAssumption DEF Emitted, BodyKinds, Piece, IR, Usages
  <2>3. CalmStep(x)
    BY CloseReasoningCalm
  <2> HIDE DEF ev, x
  <2>4. CalmStep(y)
    BY <2>2, <2>3, BodyCalm, Steps2 DEF CalmStep
  <2> HIDE DEF y
  <2>. QED
    BY <2>1, <2>3, <2>4, JoinCalm
<1>3. CASE e.type = "chunk" /\ e.kind = "tool"
  <2>1. ChatChoice(d, e) = ToolFragment(d, e)
    BY <1>3 DEF ChatChoice
  <2>. QED
    BY <1>3, <2>1, ToolFragmentCalm
<1>4. CASE e.type = "finish"
  <2> DEFINE x == [d EXCEPT !.finish = TRUE]
  <2>1. ChatChoice(d, e) = CloseCurrentTool(x)
    BY <1>4 DEF ChatChoice
  <2>2. DecoderType(x) /\ x.started = TRUE
    BY Reset
  <2> HIDE DEF x
  <2>. QED
    BY <2>1, <2>2, CloseCurrentToolCalm
<1>5. CASE ~(e.type = "chunk" /\ e.kind \in Kinds) /\ e.type # "finish"
  <2>1. ChatChoice(d, e) = Decoded(d, <<>>)
    BY <1>5 DEF ChatChoice, Kinds
  <2>. QED
    BY <2>1, CalmThen, Steps2
<1>. QED
  BY <1>1, <1>2, <1>3, <1>4, <1>5 DEF Kinds

-----------------------------------------------------------------------------
(***************************************************************************)
(* And what the other decoders emit.                                       *)
(***************************************************************************)
(* Fail renders an error.                                                  *)
LEMMA ErrorHarmless ==
    ASSUME to \in Protocols, NEW a, Going(a)
    PROVE  Safe(FeedAll(a, <<Plain("error")>>))
<1> DEFINE ev == Plain("error")
<1>1. ev.kind \in {"message_stop", "error"} /\ ev.usage \in Usages
  BY EventFields DEF Usages
<1> HIDE DEF ev
<1>2. Harmless(<<ev>>)
  BY <1>1, EndHarmless
<1>. QED
  BY <1>2 DEF Harmless, ev

(* What a step of the handler leaves, whatever the decoder made of the     *)
(* event.                                                                  *)
Kept(a, x) ==
    /\ DecoderType(x.dec) /\ (from = "openai_chat" => x.dec.started = TRUE)
    /\ Safe(FeedAll(a, Events(x)))

(* A safe step of chatStreamIn.                                            *)
LEMMA SafeStepKept ==
    ASSUME to \in Protocols, NEW a, Going(a), NEW x, SafeStep(x)
    PROVE  Kept(a, x)
<1>1. CASE x.err = FALSE
  <2>1. Events(x) = x.evs
    BY <1>1, EventsOf
  <2>. QED
    BY <1>1, <2>1 DEF SafeStep, Harmless, Kept
<1>2. CASE x.err = TRUE
  <2>1. Events(x) = <<Plain("error")>>
    BY <1>2, EventsOf
  <2>. QED
    BY <2>1, ErrorHarmless DEF SafeStep, Kept
<1>. QED
  BY <1>1, <1>2 DEF SafeStep

(* A chunk, the first or another.                                          *)
LEMMA ChatChunkKept ==
    ASSUME to \in Protocols, NEW a, Going(a), NEW d, DecoderType(d),
           d.started = TRUE \/ a.view.blocks = <<>>,
           NEW e, e.type \notin {"done", "error"}, e.usage \in Usages, e.frag \in Nat,
           e.kind = "tool" => e.index \in 0..MaxBlocks - 1
    PROVE  Kept(a, ChatToIR(d, e))
<1> DEFINE s == ChatStart(d, e)
           c == ChatChoice(s.dec, e)
           sc == Join(s, c)
           f == IF sc.dec.finish /\ e.usage # "none" THEN FinishIfNeeded(sc.dec) ELSE Decoded(sc.dec, <<>>)
           x == Join(sc, f)
           a1 == FeedAll(a, s.evs)
<1>1. ChatToIR(d, e) = x
  BY DEF ChatToIR, AndThen
<1>2. /\ s.err = FALSE /\ s.evs = (IF d.started THEN <<>> ELSE <<Plain("message_start")>>)
      /\ DecoderType(s.dec) /\ s.dec.started = TRUE
  <2>1. Begun(d, e, s)
    BY ChatBegun
  <2> HIDE DEF s
  <2>. QED
    BY <2>1 DEF Begun
<1>3. Going(a1) /\ Listed(s.evs)
  <2>1. CASE d.started = TRUE
    BY <1>2, <2>1, FeedFold, Lists
  <2>2. CASE d.started # TRUE
    <3> DEFINE ev == Plain("message_start")
    <3>1. ev.kind = "message_start" /\ ev.usage \in Usages
      BY EventFields DEF Usages
    <3>2. d.started = FALSE
      BY <2>2 DEF DecoderType
    <3>3. s.evs = <<ev>>
      BY <1>2, <3>2
    <3> HIDE DEF ev, s
    <3>4. Going(FeedAll(a, <<ev>>))
      BY <2>2, <3>1, StartGoes
    <3>. QED
      BY <3>3, <3>4, Lists
  <2>. QED
    BY <2>1, <2>2
<1> HIDE DEF s, a1
<1>4. CalmStep(c)
  BY <1>2, ChatChoiceCalm
<1> HIDE DEF c
<1>5. c.err \in BOOLEAN /\ DecoderType(c.dec) /\ c.dec.started = TRUE
  BY <1>4 DEF CalmStep
<1>6. sc.dec = c.dec /\ sc.err = c.err /\ (c.err = FALSE => sc.evs = s.evs \o c.evs)
  BY <1>2, <1>5 DEF Join, Decoded, Undecodable
<1> HIDE DEF sc
<1>7. SafeStep(f)
  <2>1. CASE sc.dec.finish /\ e.usage # "none"
    BY <1>5, <1>6, <2>1, FinishSafe
  <2>2. CASE ~(sc.dec.finish /\ e.usage # "none")
    BY <1>5, <1>6, <2>2, Steps2, CalmThen
  <2>. QED
    BY <2>1, <2>2
<1> HIDE DEF f
<1>8. CASE sc.err = FALSE /\ f.err = FALSE
  <2>1. x = Decoded(f.dec, sc.evs \o f.evs)
    BY <1>8 DEF Join
  <2>2. sc.evs = s.evs \o c.evs /\ Calm(c.evs) /\ Harmless(f.evs)
    BY <1>4, <1>6, <1>7, <1>8 DEF CalmStep, SafeStep
  <2>3. Listed(s.evs) /\ Listed(c.evs) /\ Listed(f.evs) /\ Listed(sc.evs)
    BY <1>3, <2>2, Lists DEF Calm, Harmless
  <2>4. FeedAll(a, sc.evs) = FeedAll(a1, c.evs)
    BY <2>2, <2>3, FeedFold DEF a1
  <2>5. Going(FeedAll(a, sc.evs))
    BY <1>3, <2>2, <2>4 DEF Calm
  <2>6. FeedAll(a, sc.evs \o f.evs) = FeedAll(FeedAll(a, sc.evs), f.evs)
    BY <2>3, FeedFold
  <2>7. Safe(FeedAll(a, sc.evs \o f.evs))
    BY <2>2, <2>5, <2>6 DEF Harmless
  <2> DEFINE evs == sc.evs \o f.evs
  <2> HIDE DEF evs
  <2>0. x = Decoded(f.dec, evs)
    BY <2>1 DEF evs
  <2> HIDE DEF x
  <2>8. x.dec = f.dec /\ x.err = FALSE /\ x.evs = evs
    BY <2>0, Decodings
  <2>9. Events(x) = x.evs
    BY <2>8, EventsOf
  <2>. QED
    BY <1>1, <1>7, <2>7, <2>8, <2>9 DEF Kept, SafeStep, x, evs
<1>9. CASE ~(sc.err = FALSE /\ f.err = FALSE)
  <2>1. sc.err \/ f.err
    BY <1>5, <1>6, <1>7, <1>9 DEF SafeStep
  <2>2. x = Undecodable(sc.dec) \/ x = Undecodable(f.dec)
    BY <2>1 DEF Join
  <2>3. DecoderType(sc.dec) /\ sc.dec.started = TRUE /\ DecoderType(f.dec) /\ f.dec.started = TRUE
    BY <1>5, <1>6, <1>7 DEF SafeStep
  <2> HIDE DEF x
  <2>4. SafeStep(x)
    BY <2>2, <2>3, Steps2, CalmIsSafe
  <2>. QED
    BY <1>1, <2>4, SafeStepKept DEF x
<1>. QED
  BY <1>8, <1>9

(* Any Chat event.                                                         *)
LEMMA ChatKept ==
    ASSUME to \in Protocols, NEW a, Going(a), NEW d, DecoderType(d),
           d.started = TRUE \/ a.view.blocks = <<>>,
           NEW e, e.type \in {"done", "error"} => d.started = TRUE, e.usage \in Usages,
           e.frag \in Nat,
           e.kind = "tool" => e.index \in 0..MaxBlocks - 1
    PROVE  Kept(a, ChatToIR(d, e))
<1>1. CASE e.type = "done"
  <2>1. ChatToIR(d, e) = FinishIfNeeded(d)
    BY <1>1 DEF ChatToIR
  <2>2. SafeStep(FinishIfNeeded(d))
    BY <1>1, FinishSafe
  <2>. QED
    BY <2>1, <2>2, SafeStepKept
<1>2. CASE e.type = "error"
  <2> DEFINE ev == Plain("error")
  <2>1. ChatToIR(d, e) = Decoded(d, <<ev>>)
    BY <1>2 DEF ChatToIR
  <2>2. ev.kind \in {"message_stop", "error"} /\ ev.usage \in Usages
    BY EventFields DEF Usages
  <2> HIDE DEF ev
  <2>3. Harmless(<<ev>>)
    BY <2>2, EndHarmless
  <2>4. SafeStep(Decoded(d, <<ev>>))
    BY <1>2, <2>3, Steps2
  <2>. QED
    BY <2>1, <2>4, SafeStepKept
<1>3. CASE e.type \notin {"done", "error"}
  BY <1>3, ChatChunkKept
<1>. QED
  BY <1>1, <1>2, <1>3

(* The decoders whose events stand by themselves: at most one IR event.    *)
LEMMA OneKept ==
    ASSUME to \in Protocols, from # "openai_chat", NEW a, Going(a), NEW d, DecoderType(d),
           NEW evs, NEW ev, evs \in {<<>>, <<ev>>}, ev.usage \in Usages,
           \/ Emitted(ev) /\ ev.kind \in BodyKinds
           \/ ev.kind \in {"message_stop", "error"}
           \/ ev.kind = "message_start" /\ a.view.blocks = <<>>
    PROVE  Kept(a, Decoded(d, evs))
<1> DEFINE x == Decoded(d, evs)
<1>1. x.dec = d /\ x.evs = evs /\ x.err = FALSE
  BY Decodings
<1> HIDE DEF x
<1>2. Events(x) = evs
  BY <1>1, EventsOf
<1>3. \A b : Going(b) => Safe(b)
  BY DEF Going, Safe
<1>4. Safe(FeedAll(a, <<>>))
  BY <1>3, FeedFold
<1>5. Safe(FeedAll(a, <<ev>>))
  <2>1. CASE Emitted(ev) /\ ev.kind \in BodyKinds
    <3>1. Calm(<<ev>>)
      BY <2>1, BodyCalm
    <3>. QED
      BY <1>3, <3>1 DEF Calm
  <2>2. CASE ev.kind \in {"message_stop", "error"}
    <3>1. Harmless(<<ev>>)
      BY <2>2, EndHarmless
    <3>. QED
      BY <3>1 DEF Harmless
  <2>3. CASE ev.kind = "message_start" /\ a.view.blocks = <<>>
    <3>1. Going(FeedAll(a, <<ev>>))
      BY <2>3, StartGoes
    <3>. QED
      BY <1>3, <3>1
  <2>. QED
    BY <2>1, <2>2, <2>3
<1>6. Kept(a, x)
  BY <1>1, <1>2, <1>4, <1>5 DEF Kept
<1>. QED
  BY <1>6 DEF x

(* An event that cannot be decoded.                                        *)
LEMMA UndecodedKept ==
    ASSUME to \in Protocols, from # "openai_chat", NEW a, Going(a), NEW d, DecoderType(d)
    PROVE  Kept(a, Undecodable(d))
<1> DEFINE x == Undecodable(d)
<1>1. x.dec = d /\ x.err = TRUE
  BY Decodings
<1> HIDE DEF x
<1>2. Events(x) = <<Plain("error")>>
  BY <1>1, EventsOf
<1>3. Kept(a, x)
  BY <1>1, <1>2, ErrorHarmless DEF Kept
<1>. QED
  BY <1>3 DEF x

(* An event of a framed protocol, at a time it may come.                   *)
Framable(e, a) ==
    /\ e.type \in {"start", "block_start", "delta", "block_stop", "closing", "stop", "error"}
    /\ e.usage \in Usages /\ e.frag \in Nat
    /\ e.type \in {"block_start", "delta", "block_stop"} => e.index \in 0..MaxBlocks - 1
    /\ e.type = "start" => a.view.blocks = <<>>

(* anthropicStreamIn.                                                      *)
LEMMA AnthropicKept ==
    ASSUME to \in Protocols, from # "openai_chat", NEW a, Going(a), NEW d, DecoderType(d),
           NEW e, Framable(e, a)
    PROVE  Kept(a, AnthropicToIR(d, e))
<1> DEFINE i == e.index
           kind == d.blocks[i]
<1>1. /\ e.usage \in Usages /\ d.usage \in Usages /\ "none" \in Usages /\ e.frag \in Nat
      /\ -1..MaxBlocks \subseteq Int
  BY DEF Framable, DecoderType, Usages
<1>2. CASE e.type = "start"
  <2> DEFINE ev == IR("message_start", 0, 0, e.usage)
             d2 == [d EXCEPT !.usage = e.usage]
  <2>1. AnthropicToIR(d, e) = Decoded(d2, <<ev>>)
    BY <1>2 DEF AnthropicToIR
  <2>2. ev.kind = "message_start" /\ ev.usage \in Usages
    BY <1>1, EventFields
  <2>3. DecoderType(d2)
    BY <1>1, Reset
  <2> HIDE DEF ev, d2
  <2>. QED
    BY <1>2, <2>1, <2>2, <2>3, OneKept DEF Framable
<1>3. CASE e.type = "block_start" /\ e.kind = "unknown"
  <2>1. AnthropicToIR(d, e) = Undecodable(d)
    BY <1>3 DEF AnthropicToIR
  <2>. QED
    BY <2>1, UndecodedKept
<1>4. CASE e.type = "block_start" /\ e.kind # "unknown"
  <2> DEFINE ev == On(IF e.kind = "redacted" THEN "thinking_done" ELSE "tool_use_start", i)
             d2 == [d EXCEPT !.blocks[i] = IF e.kind = "redacted" THEN "thinking" ELSE e.kind]
             evs == IF e.kind \in {"redacted", "tool"} THEN <<ev>> ELSE <<>>
  <2>1. AnthropicToIR(d, e) = Decoded(d2, evs)
    BY <1>4 DEF AnthropicToIR
  <2>2. Emitted(ev) /\ ev.kind \in BodyKinds /\ ev.usage \in Usages
    BY <1>4, CodecsAssumption DEF Framable, Emitted, BodyKinds, On, IR, Usages
  <2>3. DecoderType(d2)
    BY Reblocked
  <2>4. evs \in {<<>>, <<ev>>}
    OBVIOUS
  <2> HIDE DEF ev, d2, evs
  <2>. QED
    BY <2>1, <2>2, <2>3, <2>4, OneKept
<1>5. CASE e.type = "delta"
  <2> DEFINE ev == Piece(DeltaOf(e.kind), i, e.frag)
  <2>1. AnthropicToIR(d, e) = Decoded(d, <<ev>>)
    BY <1>5 DEF AnthropicToIR
  <2>2. Emitted(ev) /\ ev.kind \in BodyKinds /\ ev.usage \in Usages
    BY <1>1, <1>5, CodecsAssumption DEF Framable, Emitted, BodyKinds, Piece, IR, Usages,
       DeltaOf
  <2> HIDE DEF ev
  <2>. QED
    BY <2>1, <2>2, OneKept
<1>6. CASE e.type = "block_stop"
  <2> DEFINE ev == On(IF kind = "tool" THEN "tool_use_stop" ELSE "thinking_done", i)
             d2 == [d EXCEPT !.blocks[i] = "none"]
             evs == IF kind \in {"thinking", "tool"} THEN <<ev>> ELSE <<>>
  <2>1. AnthropicToIR(d, e) = Decoded(d2, evs)
    BY <1>6 DEF AnthropicToIR
  <2>2. Emitted(ev) /\ ev.kind \in BodyKinds /\ ev.usage \in Usages
    BY <1>6, CodecsAssumption DEF Framable, Emitted, BodyKinds, On, IR, Usages
  <2>3. DecoderType(d2)
    BY Reblocked
  <2>4. evs \in {<<>>, <<ev>>}
    OBVIOUS
  <2> HIDE DEF ev, d2, evs
  <2>. QED
    BY <2>1, <2>2, <2>3, <2>4, OneKept
<1>7. CASE e.type = "closing"
  <2> DEFINE ev == Plain("error")
             d2 == [d EXCEPT !.usage = e.usage]
  <2>1. AnthropicToIR(d, e) = Decoded(d2, <<>>)
    BY <1>7 DEF AnthropicToIR
  <2>2. DecoderType(d2)
    BY <1>1, Reset
  <2>3. ev.kind = "error" /\ ev.usage \in Usages
    BY <1>1, EventFields
  <2> HIDE DEF ev, d2
  <2>. QED
    BY <2>1, <2>2, <2>3, OneKept
<1>8. CASE e.type = "stop"
  <2> DEFINE ev == IR("message_stop", 0, 0, d.usage)
  <2>1. AnthropicToIR(d, e) = Decoded(d, <<ev>>)
    BY <1>8 DEF AnthropicToIR
  <2>2. ev.kind = "message_stop" /\ ev.usage \in Usages
    BY <1>1, EventFields
  <2> HIDE DEF ev
  <2>. QED
    BY <2>1, <2>2, OneKept
<1>9. CASE e.type = "error"
  <2> DEFINE ev == Plain("error")
  <2>1. AnthropicToIR(d, e) = Decoded(d, <<ev>>)
    BY <1>9 DEF AnthropicToIR
  <2>2. ev.kind = "error" /\ ev.usage \in Usages
    BY <1>1, EventFields
  <2> HIDE DEF ev
  <2>. QED
    BY <2>1, <2>2, OneKept
<1>. QED
  BY <1>2, <1>3, <1>4, <1>5, <1>6, <1>7, <1>8, <1>9 DEF Framable

(* responsesStreamIn.                                                      *)
LEMMA ResponsesKept ==
    ASSUME to \in Protocols, from # "openai_chat", NEW a, Going(a), NEW d, DecoderType(d),
           NEW e, Framable(e, a)
    PROVE  Kept(a, ResponsesToIR(d, e))
<1> DEFINE i == e.index
           kind == d.blocks[i]
<1>1. e.usage \in Usages /\ "none" \in Usages /\ e.frag \in Nat
  BY DEF Framable, Usages
<1>2. CASE e.type = "start"
  <2> DEFINE ev == Plain("message_start")
             d2 == [d EXCEPT !.started = TRUE]
             evs == IF d.started THEN <<>> ELSE <<ev>>
  <2>1. ResponsesToIR(d, e) = Decoded(d2, evs)
    BY <1>2 DEF ResponsesToIR
  <2>2. ev.kind = "message_start" /\ ev.usage \in Usages
    BY <1>1, EventFields
  <2>3. DecoderType(d2)
    BY Reset
  <2>4. evs \in {<<>>, <<ev>>}
    OBVIOUS
  <2> HIDE DEF ev, d2, evs
  <2>. QED
    BY <1>2, <2>1, <2>2, <2>3, <2>4, OneKept DEF Framable
<1>3. CASE e.type = "block_start"
  <2> DEFINE ev == On("tool_use_start", i)
             d2 == [d EXCEPT !.blocks[i] = e.kind]
             evs == IF e.kind = "tool" THEN <<ev>> ELSE <<>>
  <2>1. ResponsesToIR(d, e) = Decoded(d2, evs)
    BY <1>3 DEF ResponsesToIR
  <2>2. Emitted(ev) /\ ev.kind \in BodyKinds /\ ev.usage \in Usages
    BY <1>3, CodecsAssumption DEF Framable, Emitted, BodyKinds, On, IR, Usages
  <2>3. DecoderType(d2)
    BY Reblocked
  <2>4. evs \in {<<>>, <<ev>>}
    OBVIOUS
  <2> HIDE DEF ev, d2, evs
  <2>. QED
    BY <2>1, <2>2, <2>3, <2>4, OneKept
<1>4. CASE e.type = "delta"
  <2> DEFINE ev == Piece(DeltaOf(e.kind), i, e.frag)
  <2>1. ResponsesToIR(d, e) = Decoded(d, <<ev>>)
    BY <1>4 DEF ResponsesToIR
  <2>2. Emitted(ev) /\ ev.kind \in BodyKinds /\ ev.usage \in Usages
    BY <1>1, <1>4, CodecsAssumption DEF Framable, Emitted, BodyKinds, Piece, IR, Usages,
       DeltaOf
  <2> HIDE DEF ev
  <2>. QED
    BY <2>1, <2>2, OneKept
<1>5. CASE e.type = "block_stop"
  <2> DEFINE ev == On(IF kind = "tool" THEN "tool_use_stop" ELSE "reasoning_done", i)
             evs == IF kind \in {"thinking", "tool"} THEN <<ev>> ELSE <<>>
  <2>1. ResponsesToIR(d, e) = Decoded(d, evs)
    BY <1>5 DEF ResponsesToIR
  <2>2. Emitted(ev) /\ ev.kind \in BodyKinds /\ ev.usage \in Usages
    BY <1>5, CodecsAssumption DEF Framable, Emitted, BodyKinds, On, IR, Usages
  <2>3. evs \in {<<>>, <<ev>>}
    OBVIOUS
  <2> HIDE DEF ev, evs
  <2>. QED
    BY <2>1, <2>2, <2>3, OneKept
<1>6. CASE e.type = "stop"
  <2> DEFINE ev == IR("message_stop", 0, 0, e.usage)
             d2 == [d EXCEPT !.stopped = TRUE]
             evs == IF d.stopped THEN <<>> ELSE <<ev>>
  <2>1. ResponsesToIR(d, e) = Decoded(d2, evs)
    BY <1>6 DEF ResponsesToIR
  <2>2. ev.kind = "message_stop" /\ ev.usage \in Usages
    BY <1>1, EventFields
  <2>3. DecoderType(d2)
    BY Reset
  <2>4. evs \in {<<>>, <<ev>>}
    OBVIOUS
  <2> HIDE DEF ev, d2, evs
  <2>. QED
    BY <2>1, <2>2, <2>3, <2>4, OneKept
<1>7. CASE e.type = "error"
  <2> DEFINE ev == Plain("error")
  <2>1. ResponsesToIR(d, e) = Decoded(d, <<ev>>)
    BY <1>7 DEF ResponsesToIR
  <2>2. ev.kind = "error" /\ ev.usage \in Usages
    BY <1>1, EventFields
  <2> HIDE DEF ev
  <2>. QED
    BY <2>1, <2>2, OneKept
<1>8. CASE e.type = "closing"
  <2> DEFINE ev == Plain("error")
  <2>1. ResponsesToIR(d, e) = Decoded(d, <<>>)
    BY <1>8 DEF ResponsesToIR
  <2>2. ev.kind = "error" /\ ev.usage \in Usages
    BY <1>1, EventFields
  <2> HIDE DEF ev
  <2>. QED
    BY <2>1, <2>2, OneKept
<1>. QED
  BY <1>2, <1>3, <1>4, <1>5, <1>6, <1>7, <1>8 DEF Framable

-----------------------------------------------------------------------------
(***************************************************************************)
(* The second invariant, which every action preserves.                     *)
(***************************************************************************)
(* As long as the stream goes on the encoder and the client fit each       *)
(* other; when it has ended it is legal.                                   *)
Unbroken ==
    /\ from \in Protocols /\ to \in Protocols /\ frags \in Nat /\ usage \in Usages
    /\ said \in Seq(Said) /\ Len(said) <= MaxBlocks /\ ended \in BOOLEAN
    /\ ended => view.legal
    /\ ~ended =>
          /\ Whole(enc, view) /\ DecoderType(dec)
          /\ IF phase = "start" THEN view.blocks = <<>>
             ELSE from = "openai_chat" => dec.started = TRUE

(* What is shown of the result holds in the next state.                    *)
LEMMA WholeNext ==
    ASSUME NEW b, enc' = b.enc, view' = b.view, to' = to, Whole(b.enc, b.view)
    PROVE  Whole(enc, view)'
<1>1. Whole(enc', view')
  OBVIOUS
<1>2. Sound(enc, view)'
  BY SoundNext DEF Whole
<1>. QED
  BY <1>1, <1>2 DEF Whole

(* An upstream event of the protocol, at a time it may come.               *)
Timely(e) ==
    /\ e.usage \in Usages /\ e.frag \in Nat
    /\ IF from = "openai_chat"
       THEN /\ e.type \in {"done", "error"} => phase # "start"
            /\ e.kind = "tool" => e.index \in 0..MaxBlocks - 1
       ELSE /\ e.type \in {"start", "block_start", "delta", "block_stop", "closing", "stop", "error"}
            /\ e.type \in {"block_start", "delta", "block_stop"} => e.index \in 0..MaxBlocks - 1
            /\ e.type = "start" => phase = "start"

(* One step of the handler preserves it.                                   *)
LEMMA FeedUnbroken ==
    ASSUME Unbroken, ~ended, NEW e, Timely(e), Feed(e), from' = from, to' = to,
           phase' # "start",
           said' \in Seq(Said), Len(said') <= MaxBlocks, frags' \in Nat, usage' \in Usages
    PROVE  Unbroken'
<1> DEFINE x == ToIR(from, dec, e)
           b == Result(e)
<1>1. Steps(x, b)
  BY FeedStep
<1>2. /\ from \in Protocols /\ to \in Protocols /\ Whole(enc, view) /\ DecoderType(dec) /\ ended = FALSE
      /\ phase = "start" => view.blocks = <<>>
      /\ phase # "start" /\ from = "openai_chat" => dec.started = TRUE
  BY DEF Unbroken
<1>3. Going(Now) /\ Now.view = view
  BY <1>2, NowFields DEF Going
<1>4. Kept(Now, x)
  <2>1. CASE from = "openai_chat"
    <3>1. x = ChatToIR(dec, e)
      BY <2>1, Decoders
    <3>2. dec.started = TRUE \/ Now.view.blocks = <<>>
      BY <1>2, <1>3, <2>1
    <3>3. /\ e.type \in {"done", "error"} => dec.started = TRUE
          /\ e.usage \in Usages /\ e.frag \in Nat /\ (e.kind = "tool" => e.index \in 0..MaxBlocks - 1)
      BY <1>2, <2>1 DEF Timely
    <3> HIDE DEF x
    <3>. QED
      BY <1>2, <1>3, <3>1, <3>2, <3>3, ChatKept
  <2>2. CASE from # "openai_chat"
    <3>1. Framable(e, Now)
      BY <1>2, <1>3, <2>2 DEF Timely, Framable
    <3>2. x = AnthropicToIR(dec, e) \/ x = ResponsesToIR(dec, e)
      BY <1>2, <2>2, Decoders DEF Protocols
    <3> HIDE DEF x
    <3>. QED
      BY <1>2, <1>3, <2>2, <3>1, <3>2, AnthropicKept, ResponsesKept
  <2>. QED
    BY <2>1, <2>2
<1>5. b = FeedAll(Now, Events(x))
  BY DEF Result
<1> HIDE DEF x, b
<1>6. /\ DecoderType(x.dec) /\ (from = "openai_chat" => x.dec.started = TRUE)
      /\ b.ended \in BOOLEAN /\ IF b.ended THEN b.view.legal ELSE Whole(b.enc, b.view)
  BY <1>4, <1>5 DEF Kept, Safe
<1>7. enc' = b.enc /\ view' = b.view /\ ended' = b.ended /\ dec' = x.dec
  BY <1>1 DEF Steps
<1>8. CASE b.ended
  <2>1. ended' = TRUE /\ view'.legal
    BY <1>6, <1>7, <1>8
  <2>. QED
    BY <1>2, <2>1 DEF Unbroken
<1>9. CASE ~b.ended
  <2>1. ended' = FALSE
    BY <1>6, <1>7, <1>9
  <2>2. Whole(enc, view)'
    BY <1>6, <1>7, <1>9, WholeNext
  <2>3. DecoderType(dec)'
    BY <1>6, <1>7, DecoderTypeNext
  <2>4. from' = "openai_chat" => dec'.started = TRUE
    BY <1>6, <1>7
  <2>. QED
    BY <1>2, <2>1, <2>2, <2>3, <2>4 DEF Unbroken
<1>. QED
  BY <1>8, <1>9

(* A block of the upstream that changes.                                   *)
LEMMA SaidChanged ==
    ASSUME NEW s \in Seq(Said), NEW k \in DOMAIN s, NEW t, NEW f \in Nat,
           \/ t = [s EXCEPT ![k].frags = Append(@, f)]
           \/ t = [s EXCEPT ![k].open = FALSE]
    PROVE  t \in Seq(Said) /\ Len(t) = Len(s)
<1> DEFINE new == IF t = [s EXCEPT ![k].open = FALSE] THEN [s[k] EXCEPT !.open = FALSE]
                  ELSE [s[k] EXCEPT !.frags = Append(s[k].frags, f)]
<1>1. k \in 1..Len(s) /\ s[k] \in Said
  BY LenProperties, ElementOfSeq
<1>2. s[k].frags \in Seq(Nat)
  BY <1>1, SaidFields
<1>3. Append(s[k].frags, f) \in Seq(Nat)
  BY <1>2, AppendProperties
<1>4. new \in Said
  BY <1>1, <1>3 DEF Said
<1>5. t = [s EXCEPT ![k] = new]
  OBVIOUS
<1> HIDE DEF new, Said
<1>. QED
  BY <1>1, <1>4, <1>5, ExceptSeq

(* Tool calls are numbered below MaxBlocks.                                *)
LEMMA ToolIndexBound ==
    ASSUME said \in Seq(Said), Len(said) <= MaxBlocks, NEW k \in 1..MaxBlocks
    PROVE  ToolIndex(k) \in 0..MaxBlocks - 1
<1> DEFINE S == {m \in 1..k - 1 : said[m].kind = "tool"}
<1>1. IsFiniteSet(1..k - 1) /\ Cardinality(1..k - 1) = k - 1
  <2>1. k - 1 \in Nat /\ 1 <= k
    BY CodecsAssumption
  <2>2. IsFiniteSet(1..k - 1) /\ Cardinality(1..k - 1) = IF 1 > k - 1 THEN 0 ELSE k - 1 - 1 + 1
    BY <2>1, FS_Interval
  <2>. QED
    BY <2>1, <2>2
<1>2. S \subseteq 1..k - 1
  OBVIOUS
<1> HIDE DEF S
<1>3. IsFiniteSet(S) /\ Cardinality(S) <= k - 1
  BY <1>1, <1>2, FS_Subset
<1>4. Cardinality(S) \in Nat
  BY <1>3, FS_CardinalityType
<1>. QED
  BY <1>3, <1>4, CodecsAssumption DEF ToolIndex, S

(* Each action.                                                            *)
LEMMA StartMessageUnbroken ==
    ASSUME Unbroken, StartMessage
    PROVE  Unbroken'
<1> DEFINE e == Up(IF Blocky THEN "start" ELSE "chunk", "none", 0, 0, usage')
<1>1. /\ ~ended /\ phase = "start" /\ phase' = "body" /\ Feed(e) /\ from' = from /\ to' = to
      /\ said' = said /\ frags' = frags /\ usage' \in Usages
  BY DEF StartMessage, Unchanged, Unbroken, Usages
<1>2. Timely(e)
  BY <1>1, UpFields DEF Timely, Blocky
<1> HIDE DEF e
<1>. QED
  BY <1>1, <1>2, FeedUnbroken DEF Unbroken

LEMMA StartBlockUnbroken ==
    ASSUME Unbroken, NEW kind \in Kinds \union {"redacted", "unknown"}, StartBlock(kind)
    PROVE  Unbroken'
<1> DEFINE n == Len(said)
           e == Up("block_start", kind, Index(n + 1), 0, "none")
<1>1. /\ ~ended /\ phase = "body" /\ phase' = phase /\ Blocky /\ Feed(e) /\ from' = from /\ to' = to
      /\ said' = Append(said, [kind |-> kind, frags |-> <<>>, open |-> TRUE])
      /\ frags' = frags /\ usage' = usage /\ n < MaxBlocks
  BY DEF StartBlock, Unchanged, SayBlock
<1>2. said \in Seq(Said) /\ n \in 0..MaxBlocks - 1 /\ Index(n + 1) = n
  <2>1. said \in Seq(Said) /\ n \in Nat
    BY LenProperties DEF Unbroken
  <2>. QED
    BY <1>1, <2>1, CodecsAssumption DEF Index
<1>3. kind \in SaidType /\ <<>> \in Seq(Nat)
  BY EmptySeq DEF SaidType
<1>4. said' \in Seq(Said) /\ Len(said') = n + 1
  <2>1. SaysBlock(said, said', kind, <<>>)
    BY <1>1, <1>2, <1>3, BlockSaid
  <2>. QED
    BY <2>1 DEF SaysBlock
<1>5. Timely(e)
  BY <1>1, <1>2, UpFields DEF Timely, Blocky, Usages
<1> HIDE DEF e
<1>6. Len(said') <= MaxBlocks /\ phase' # "start" /\ frags' \in Nat /\ usage' \in Usages
  BY <1>1, <1>2, <1>4, CodecsAssumption DEF Unbroken
<1>. QED
  BY <1>1, <1>4, <1>5, <1>6, FeedUnbroken

LEMMA SendDeltaUnbroken ==
    ASSUME Unbroken, NEW k \in DOMAIN said, SendDelta(k)
    PROVE  Unbroken'
<1> DEFINE e == Up("delta", said[k].kind, Index(k), frags + 1, "none")
<1>1. /\ ~ended /\ phase = "body" /\ phase' = phase /\ Blocky /\ Feed(e) /\ from' = from /\ to' = to
      /\ said' = [said EXCEPT ![k].frags = Append(@, frags + 1)]
      /\ frags' = frags + 1 /\ usage' = usage
  BY DEF SendDelta, Unchanged
<1>2. said \in Seq(Said) /\ Len(said) <= MaxBlocks /\ frags + 1 \in Nat /\ usage \in Usages
  BY DEF Unbroken
<1>3. k \in 1..Len(said) /\ Index(k) \in 0..MaxBlocks - 1
  BY <1>2, LenProperties, CodecsAssumption DEF Index
<1>4. said' \in Seq(Said) /\ Len(said') = Len(said)
  BY <1>1, <1>2, SaidChanged
<1>5. Timely(e)
  BY <1>1, <1>2, <1>3, UpFields DEF Timely, Blocky, Usages
<1> HIDE DEF e
<1>. QED
  BY <1>1, <1>2, <1>4, <1>5, FeedUnbroken

LEMMA StopBlockUnbroken ==
    ASSUME Unbroken, NEW k \in DOMAIN said, StopBlock(k)
    PROVE  Unbroken'
<1> DEFINE e == Up("block_stop", said[k].kind, Index(k), 0, "none")
<1>1. /\ ~ended /\ phase = "body" /\ phase' = phase /\ Blocky /\ Feed(e) /\ from' = from /\ to' = to
      /\ said' = [said EXCEPT ![k].open = FALSE] /\ frags' = frags /\ usage' = usage
  BY DEF StopBlock, Unchanged
<1>2. said \in Seq(Said) /\ Len(said) <= MaxBlocks /\ frags \in Nat /\ usage \in Usages
  BY DEF Unbroken
<1>3. k \in 1..Len(said) /\ Index(k) \in 0..MaxBlocks - 1
  BY <1>2, LenProperties, CodecsAssumption DEF Index
<1>4. said' \in Seq(Said) /\ Len(said') = Len(said)
  BY <1>1, <1>2, SaidChanged
<1>5. Timely(e)
  BY <1>1, <1>3, UpFields DEF Timely, Blocky, Usages
<1> HIDE DEF e
<1>. QED
  BY <1>1, <1>2, <1>4, <1>5, FeedUnbroken

LEMMA ChunkNewUnbroken ==
    ASSUME Unbroken, NEW kind \in Kinds, ChunkNew(kind)
    PROVE  Unbroken'
<1> DEFINE n == Len(said)
           i == IF kind = "tool" THEN ToolIndex(n + 1) ELSE 0
           e == Up("chunk", kind, i, frags + 1, "none")
<1>1. /\ ~ended /\ phase = "body" /\ phase' = phase /\ ~Blocky /\ Feed(e) /\ from' = from /\ to' = to
      /\ said' = Append(said, [kind |-> kind, frags |-> <<frags + 1>>, open |-> TRUE])
      /\ frags' = frags + 1 /\ usage' = usage /\ n < MaxBlocks
  BY DEF ChunkNew, Unchanged, SayBlock
<1>2. said \in Seq(Said) /\ n \in Nat /\ n <= MaxBlocks /\ frags + 1 \in Nat /\ usage \in Usages
  BY LenProperties DEF Unbroken
<1>3. kind = "tool" => i \in 0..MaxBlocks - 1
  <2>1. n + 1 \in 1..MaxBlocks
    BY <1>1, <1>2, CodecsAssumption
  <2>2. ToolIndex(n + 1) \in 0..MaxBlocks - 1
    BY <1>2, <2>1, ToolIndexBound
  <2>. QED
    BY <2>2
<1> HIDE DEF i
<1>4. kind \in SaidType /\ <<frags + 1>> \in Seq(Nat)
  <2>1. <<frags + 1>> \in Seq(Nat)
    BY <1>2
  <2>. QED
    BY <2>1 DEF SaidType
<1>5. said' \in Seq(Said) /\ Len(said') = n + 1
  <2> DEFINE fs == <<frags + 1>>
  <2>1. said' = Append(said, [kind |-> kind, frags |-> fs, open |-> TRUE]) /\ fs \in Seq(Nat)
    BY <1>1, <1>4
  <2> HIDE DEF fs
  <2>2. SaysBlock(said, said', kind, fs)
    BY <1>2, <1>4, <2>1, BlockSaid
  <2>. QED
    BY <2>2 DEF SaysBlock
<1>6. Timely(e)
  BY <1>1, <1>2, <1>3, UpFields DEF Timely, Blocky, Usages
<1> HIDE DEF e
<1>7. Len(said') <= MaxBlocks
  BY <1>1, <1>2, <1>5, CodecsAssumption
<1>. QED
  BY <1>1, <1>2, <1>5, <1>6, <1>7, FeedUnbroken

LEMMA ChunkMoreUnbroken ==
    ASSUME Unbroken, NEW k \in DOMAIN said, ChunkMore(k)
    PROVE  Unbroken'
<1> DEFINE i == IF said[k].kind = "tool" THEN ToolIndex(k) ELSE 0
           e == Up("chunk", said[k].kind, i, frags + 1, "none")
<1>1. /\ ~ended /\ phase = "body" /\ phase' = phase /\ ~Blocky /\ Feed(e) /\ from' = from /\ to' = to
      /\ said' = [said EXCEPT ![k].frags = Append(@, frags + 1)]
      /\ frags' = frags + 1 /\ usage' = usage
  BY DEF ChunkMore, Unchanged
<1>2. said \in Seq(Said) /\ Len(said) <= MaxBlocks /\ frags + 1 \in Nat /\ usage \in Usages
  BY DEF Unbroken
<1>3. said[k].kind = "tool" => i \in 0..MaxBlocks - 1
  <2>1. k \in 1..MaxBlocks
    BY <1>2, LenProperties, CodecsAssumption
  <2>2. ToolIndex(k) \in 0..MaxBlocks - 1
    BY <1>2, <2>1, ToolIndexBound
  <2>. QED
    BY <2>2
<1> HIDE DEF i
<1>4. said' \in Seq(Said) /\ Len(said') = Len(said)
  BY <1>1, <1>2, SaidChanged
<1>5. Timely(e)
  BY <1>1, <1>2, <1>3, UpFields DEF Timely, Blocky, Usages
<1> HIDE DEF e
<1>. QED
  BY <1>1, <1>2, <1>4, <1>5, FeedUnbroken

LEMMA SendClosingUnbroken ==
    ASSUME Unbroken, NEW u \in {"none", "final"}, SendClosing(u)
    PROVE  Unbroken'
<1> DEFINE e == Up(IF Blocky THEN "closing" ELSE "finish", "none", 0, 0, u)
<1>1. /\ ~ended /\ phase = "body" /\ phase' = "closing" /\ Feed(e) /\ from' = from /\ to' = to
      /\ said' = said /\ frags' = frags /\ usage' \in Usages
  BY DEF SendClosing, Unchanged, Unbroken, Usages
<1>2. Timely(e)
  BY UpFields DEF Timely, Blocky, Usages
<1> HIDE DEF e
<1>. QED
  BY <1>1, <1>2, FeedUnbroken DEF Unbroken

LEMMA SendUsageUnbroken ==
    ASSUME Unbroken, SendUsage
    PROVE  Unbroken'
<1> DEFINE e == Up("usage", "none", 0, 0, "final")
<1>1. /\ ~ended /\ phase = "closing" /\ phase' = phase /\ ~Blocky /\ Feed(e) /\ from' = from /\ to' = to
      /\ said' = said /\ frags' = frags /\ usage' \in Usages
  BY DEF SendUsage, Unchanged, Usages
<1>2. Timely(e)
  BY <1>1, UpFields DEF Timely, Blocky, Usages
<1> HIDE DEF e
<1>. QED
  BY <1>1, <1>2, FeedUnbroken DEF Unbroken

LEMMA SendEndUnbroken ==
    ASSUME Unbroken, SendEnd
    PROVE  Unbroken'
<1> DEFINE u == IF from = "openai_responses" THEN "final" ELSE "none"
           e == Up(IF Blocky THEN "stop" ELSE "done", "none", 0, 0, u)
<1>1. /\ ~ended /\ phase # "start" /\ phase' = "ended" /\ Feed(e) /\ from' = from /\ to' = to
      /\ said' = said /\ frags' = frags /\ usage' \in Usages
  BY DEF SendEnd, Unchanged, Unbroken, Usages
<1>2. Timely(e)
  BY <1>1, UpFields DEF Timely, Blocky, Usages
<1> HIDE DEF e
<1>. QED
  BY <1>1, <1>2, FeedUnbroken DEF Unbroken

LEMMA SendErrorUnbroken ==
    ASSUME Unbroken, SendError
    PROVE  Unbroken'
<1> DEFINE e == Up("error", "none", 0, 0, "none")
<1>1. /\ ~ended /\ phase # "start" /\ phase' = "ended" /\ Feed(e) /\ from' = from /\ to' = to
      /\ said' = said /\ frags' = frags /\ usage' = usage
  BY DEF SendError, Unchanged
<1>2. Timely(e)
  BY <1>1, UpFields DEF Timely, Usages
<1> HIDE DEF e
<1>. QED
  BY <1>1, <1>2, FeedUnbroken DEF Unbroken

(* It holds at first.                                                      *)
LEMMA InitUnbroken ==
    Init => Unbroken
<1> SUFFICES ASSUME Init PROVE Unbroken
  OBVIOUS
<1>1. /\ from \in Protocols /\ to \in Protocols /\ phase = "start" /\ said = <<>> /\ frags = 0
      /\ usage = "none" /\ dec = NewDecoder /\ enc = NewEncoder /\ ended = FALSE /\ view = NewView
  BY DEF Init
<1>2. said \in Seq(Said) /\ Len(said) <= MaxBlocks
  BY <1>1, EmptySeq, CodecsAssumption
<1>3. Sound(enc, view) /\ DecoderType(dec)
  BY <1>1, NewSound, NewDecoderType
<1>4. \A i \in -1..MaxBlocks : enc.src[i] < enc.next
  BY <1>1 DEF NewEncoder
<1>5. view.blocks = <<>>
  BY <1>1 DEF NewView
<1>. QED
  BY <1>1, <1>2, <1>3, <1>4, <1>5 DEF Unbroken, Whole, Usages

(* A step that changes nothing.                                            *)
LEMMA StutterUnbroken ==
    ASSUME Unbroken, UNCHANGED vars
    PROVE  Unbroken'
<1>1. /\ from' = from /\ to' = to /\ phase' = phase /\ said' = said /\ frags' = frags /\ usage' = usage
      /\ dec' = dec /\ enc' = enc /\ ended' = ended /\ view' = view
  BY DEF vars, upVars
<1>2. ASSUME ~ended PROVE Whole(enc, view)' /\ DecoderType(dec)'
  <2>1. Whole(Now.enc, Now.view) /\ enc' = Now.enc /\ view' = Now.view /\ DecoderType(dec)
    BY <1>1, <1>2, NowFields DEF Unbroken
  <2>. QED
    BY <1>1, <2>1, WholeNext, DecoderTypeNext
<1>. QED
  BY <1>1, <1>2 DEF Unbroken

(* Every step.                                                             *)
LEMMA NextUnbroken ==
    ASSUME Unbroken, Next
    PROVE  Unbroken'
<1>1. CASE StartMessage
  BY <1>1, StartMessageUnbroken
<1>2. CASE SendUsage
  BY <1>2, SendUsageUnbroken
<1>3. CASE SendEnd
  BY <1>3, SendEndUnbroken
<1>4. CASE SendError
  BY <1>4, SendErrorUnbroken
<1>5. ASSUME NEW kind \in Kinds \union {"redacted", "unknown"}, StartBlock(kind) PROVE Unbroken'
  BY <1>5, StartBlockUnbroken
<1>6. ASSUME NEW kind \in Kinds, ChunkNew(kind) PROVE Unbroken'
  BY <1>6, ChunkNewUnbroken
<1>7. ASSUME NEW k \in DOMAIN said, SendDelta(k) PROVE Unbroken'
  BY <1>7, SendDeltaUnbroken
<1>8. ASSUME NEW k \in DOMAIN said, StopBlock(k) PROVE Unbroken'
  BY <1>8, StopBlockUnbroken
<1>9. ASSUME NEW k \in DOMAIN said, ChunkMore(k) PROVE Unbroken'
  BY <1>9, ChunkMoreUnbroken
<1>10. ASSUME NEW u \in {"none", "final"}, SendClosing(u) PROVE Unbroken'
  BY <1>10, SendClosingUnbroken
<1>. QED
  BY <1>1, <1>2, <1>3, <1>4, <1>5, <1>6, <1>7, <1>8, <1>9, <1>10 DEF Next

(* It holds throughout.                                                    *)
LEMMA NothingBreaks ==
    Spec => []Unbroken
<1>1. Unbroken /\ [Next]_vars => Unbroken'
  BY NextUnbroken, StutterUnbroken
<1>. QED
  BY <1>1, InitUnbroken, PTL DEF Spec

-----------------------------------------------------------------------------
(***************************************************************************)
(* The theorems.                                                           *)
(***************************************************************************)
(* Every variable keeps its type: no more blocks, fragments or indices     *)
(* than the message has.                                                   *)
THEOREM TypeCorrect ==
    ASSUME ~Interleaving
    PROVE  Spec => []TypeOK
BY Invariant, InvImplies, PTL

(* Blocks start in sequence and do not overlap, deltas belong to the open  *)
(* block, nothing follows the end, response.completed lists what was       *)
(* streamed.                                                               *)
THEOREM StreamsAreLegal ==
    Spec => []ClientStreamIsLegal
<1>1. Unbroken => ClientStreamIsLegal
  BY DEF Unbroken, Whole, Sound, Typed, ClientStreamIsLegal
<1>. QED
  BY <1>1, NothingBreaks, PTL

(* A message that ended well has arrived as the upstream said it, whatever *)
(* the two protocols are and however it was cut into fragments.            *)
THEOREM MessagesArriveIntact ==
    ASSUME ~Interleaving
    PROVE  Spec => []MessageIsIntact
BY Invariant, InvImplies, PTL

(* Tool blocks never overlap in the IR, and the usage is with the client   *)
(* before the stream counts as ended.                                      *)
THEOREM ContractIsKept ==
    ASSUME ~Interleaving
    PROVE  Spec => []DecoderContract
BY Invariant, InvImplies, PTL
=============================================================================
