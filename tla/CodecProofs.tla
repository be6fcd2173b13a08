----------------------------- MODULE CodecProofs ----------------------------
(***************************************************************************)
(* What the codecs of Conversation keep of what was said: the lemmas of    *)
(* ConversationProofs about RequestCodecs and ResponseCodecs.              *)
(*                                                                         *)
(* The codecs are made of maps, selections and folds over sequences, and a *)
(* reader's view of a request (Heard) is one of them.  So the argument     *)
(* goes element by element: a codec keeps what a reader finds in a block,  *)
(* a message, an item (HearC, HearM, HearA, HearUM, HearI), and therefore  *)
(* in a history, a request and an answer.  What a protocol cannot order,   *)
(* words and calls of one turn, is kept apart (SameThings).                *)
(***************************************************************************)
EXTENDS Conversation, FiniteSetTheorems, SequenceTheorems, WellFoundedInduction, TLAPS

-----------------------------------------------------------------------------
(***************************************************************************)
(* Induction, over numbers and over sequences.                             *)
(***************************************************************************)

(* What induction over the naturals comes to: a set of them has a least.   *)
LEMMA Least ==
    ASSUME NEW T \in SUBSET Nat, T # {}
    PROVE  \E n \in T : \A m \in T : n <= m
<1>1. IsWellFoundedOn(OpToRel(<, Nat), Nat)
  BY NatLessThanWellFounded
<1>2. PICK n \in T : \A m \in Nat : <<m, n>> \in OpToRel(<, Nat) => m \notin T
  BY <1>1, WFMin
<1>3. \A m \in Nat : m < n => m \notin T
  BY <1>2 DEF OpToRel
<1>. QED
  BY <1>3

(* And over sequences: a set with the empty one and, with every sequence   *)
(* in it, those with one element more, has them all.                       *)
LEMMA SeqInduction ==
    ASSUME NEW A, NEW P, <<>> \in P,
           \A s \in Seq(A) : s \in P => \A x \in A : Append(s, x) \in P
    PROVE  Seq(A) \subseteq P
<1> DEFINE T == {n \in Nat : \E s \in Seq(A) : Len(s) = n /\ s \notin P}
<1> SUFFICES ASSUME NEW s0 \in Seq(A), s0 \notin P PROVE FALSE
  OBVIOUS
<1>1. Len(s0) \in T
  BY LenProperties
<1>2. PICK n \in T : \A m \in T : n <= m
  <2>1. T \in SUBSET Nat /\ T # {}
    BY <1>1
  <2> HIDE DEF T
  <2>. QED
    BY <2>1, Least
<1>3. PICK s \in Seq(A) : Len(s) = n /\ s \notin P
  OBVIOUS
<1>4. s # <<>>
  BY <1>3
<1>5. PICK t \in Seq(A), x \in A : s = Append(t, x)
  BY <1>4, SequenceEmptyOrAppend
<1>6. Len(t) \notin T /\ Len(t) \in Nat
  <2>1. Len(t) \in Nat /\ Len(s) = Len(t) + 1
    BY <1>5, AppendProperties, LenProperties
  <2> HIDE DEF T
  <2>. QED
    BY <1>2, <1>3, <2>1
<1>7. t \in P
  BY <1>6
<1>. QED
  BY <1>3, <1>5, <1>7

-----------------------------------------------------------------------------
(***************************************************************************)
(* Folds of a function over a sequence.                                    *)
(***************************************************************************)
IsRun(w, f, b, s) == w = [k \in 0..Len(s) |-> IF k = 0 THEN b ELSE f[<<w[k - 1], s[k]>>]]

Folded(f, b, s) == (CHOOSE w : IsRun(w, f, b, s))[Len(s)]

(* Two runs over the same beginning agree on it.                           *)
LEMMA RunUnique ==
    ASSUME NEW f, NEW b, NEW A, NEW s \in Seq(A), NEW t \in Seq(A), NEW v, NEW w,
           IsRun(v, f, b, s), IsRun(w, f, b, t), NEW n \in Nat, n <= Len(s), n <= Len(t),
           \A k \in 1..n : s[k] = t[k]
    PROVE  v[n] = w[n]
<1> DEFINE T == {k \in 0..n : v[k] # w[k]}
<1> SUFFICES ASSUME T # {} PROVE FALSE
  <2>1. n \in 0..n
    OBVIOUS
  <2>. QED
    BY <2>1
<1>1. PICK k \in T : \A l \in T : k <= l
  <2>1. T \in SUBSET Nat
    OBVIOUS
  <2> HIDE DEF T
  <2>. QED
    BY <2>1, Least
<1>2. Len(s) \in Nat /\ Len(t) \in Nat
  BY LenProperties
<1>3. \A j \in 0..n : /\ v[j] = IF j = 0 THEN b ELSE f[<<v[j - 1], s[j]>>]
                      /\ w[j] = IF j = 0 THEN b ELSE f[<<w[j - 1], t[j]>>]
  <2>1. \A j \in 0..n : j \in 0..Len(s) /\ j \in 0..Len(t)
    BY <1>2
  <2>. QED
    BY <2>1 DEF IsRun
<1>4. k # 0
  BY <1>1, <1>3
<1>5. k - 1 \in 0..n /\ k - 1 \notin T
  BY <1>1, <1>4
<1>6. v[k - 1] = w[k - 1] /\ k \in 1..n
  BY <1>1, <1>4, <1>5
<1>. QED
  BY <1>1, <1>3, <1>4, <1>6

IsStep(f, A, B) == \A b \in B, x \in A : f[<<b, x>>] \in B

(* A fold with a step that stays in its type has a run.                    *)
LEMMA RunExists ==
    ASSUME NEW A, NEW B, NEW f, IsStep(f, A, B), NEW b \in B
    PROVE  \A s \in Seq(A) : \E w \in [0..Len(s) -> B] : IsRun(w, f, b, s)
<1> DEFINE P == {s \in Seq(A) : \E w \in [0..Len(s) -> B] : IsRun(w, f, b, s)}
<1>1. <<>> \in P
  <2> DEFINE w == [k \in 0..0 |-> b]
  <2>1. Len(<<>>) = 0 /\ <<>> \in Seq(A)
    OBVIOUS
  <2>2. w \in [0..Len(<<>>) -> B] /\ IsRun(w, f, b, <<>>)
    BY <2>1 DEF IsRun
  <2>. QED
    BY <2>1, <2>2
<1>2. ASSUME NEW s \in Seq(A), s \in P, NEW x \in A PROVE Append(s, x) \in P
  <2>1. PICK v \in [0..Len(s) -> B] : IsRun(v, f, b, s)
    BY <1>2
  <2> DEFINE n == Len(s) + 1
             t == Append(s, x)
             w == [k \in 0..n |-> IF k = n THEN f[<<v[n - 1], x>>] ELSE v[k]]
  <2>2. n \in Nat /\ n > 0 /\ Len(s) = n - 1
    BY LenProperties
  <2>3. t \in Seq(A) /\ Len(t) = n /\ t[n] = x /\ \A k \in 1..n - 1 : t[k] = s[k]
    BY <2>2, AppendProperties
  <2> HIDE DEF n, t
  <2>4. v[n - 1] \in B /\ \A k \in 0..n - 1 : v[k] \in B
    BY <2>1, <2>2
  <2>5. w \in [0..n -> B]
    BY <2>2, <2>4 DEF IsStep
  <2>6. \A k \in 0..n - 1 : v[k] = IF k = 0 THEN b ELSE f[<<v[k - 1], s[k]>>]
    BY <2>1, <2>2 DEF IsRun
  <2>7. ASSUME NEW k \in 0..n PROVE w[k] = IF k = 0 THEN b ELSE f[<<w[k - 1], t[k]>>]
    <3>1. CASE k = n
      BY <2>2, <2>3, <3>1
    <3>2. CASE k # n
      <4>1. k \in 0..n - 1 /\ w[k] = v[k]
        BY <2>2, <3>2
      <4>2. CASE k = 0
        BY <2>6, <4>1, <4>2
      <4>3. CASE k # 0
        <5>1. k - 1 \in 0..n /\ k - 1 # n /\ w[k - 1] = v[k - 1] /\ t[k] = s[k]
          BY <2>2, <2>3, <4>1, <4>3
        <5>. QED
          BY <2>6, <4>1, <4>3, <5>1
      <4>. QED
        BY <4>2, <4>3
    <3>. QED
      BY <3>1, <3>2
  <2>8. IsRun(w, f, b, t)
    BY <2>3, <2>7 DEF IsRun
  <2> HIDE DEF w
  <2>. QED
    BY <2>3, <2>5, <2>8 DEF t
<1> HIDE DEF P
<1>3. Seq(A) \subseteq P
  BY <1>1, <1>2, SeqInduction
<1>. QED
  BY <1>3 DEF P

(* Folded is the end of that run.                                          *)
LEMMA FoldedRun ==
    ASSUME NEW A, NEW B, NEW f, IsStep(f, A, B), NEW b \in B
    PROVE  \A s \in Seq(A) : \E w \in [0..Len(s) -> B] :
               IsRun(w, f, b, s) /\ Folded(f, b, s) = w[Len(s)]
<1> TAKE s \in Seq(A)
<1>1. PICK v \in [0..Len(s) -> B] : IsRun(v, f, b, s)
  BY RunExists
<1> DEFINE w == CHOOSE w : IsRun(w, f, b, s)
<1>2. IsRun(w, f, b, s) /\ Folded(f, b, s) = w[Len(s)]
  BY <1>1 DEF Folded
<1> HIDE DEF w
<1>3. Len(s) \in Nat
  BY LenProperties
<1>4. v[Len(s)] = w[Len(s)]
  BY <1>1, <1>2, <1>3, RunUnique
<1>. QED
  BY <1>1, <1>2, <1>4

(* What a fold is: its start, its type and its step.                       *)
LEMMA FoldedFacts ==
    ASSUME NEW A, NEW B, NEW f, IsStep(f, A, B), NEW b \in B
    PROVE  /\ Folded(f, b, <<>>) = b
           /\ \A s \in Seq(A) : Folded(f, b, s) \in B
           /\ \A s \in Seq(A), x \in A : Folded(f, b, Append(s, x)) = f[<<Folded(f, b, s), x>>]
<1>0. \A s \in Seq(A) : \E w \in [0..Len(s) -> B] :
          IsRun(w, f, b, s) /\ Folded(f, b, s) = w[Len(s)]
  BY FoldedRun
<1>1. ASSUME NEW s \in Seq(A) PROVE Folded(f, b, s) \in B
  <2>1. PICK w \in [0..Len(s) -> B] : IsRun(w, f, b, s) /\ Folded(f, b, s) = w[Len(s)]
    BY <1>0
  <2>2. Len(s) \in 0..Len(s)
    BY LenProperties
  <2>. QED
    BY <2>1, <2>2
<1>2. Folded(f, b, <<>>) = b
  <2>1. <<>> \in Seq(A) /\ Len(<<>>) = 0
    OBVIOUS
  <2>2. PICK w \in [0..0 -> B] : IsRun(w, f, b, <<>>) /\ Folded(f, b, <<>>) = w[0]
    BY <1>0, <2>1
  <2>. QED
    BY <2>1, <2>2 DEF IsRun
<1>3. ASSUME NEW s \in Seq(A), NEW x \in A
      PROVE  Folded(f, b, Append(s, x)) = f[<<Folded(f, b, s), x>>]
  <2> DEFINE t == Append(s, x)
             n == Len(s)
  <2>1. n \in Nat /\ t \in Seq(A) /\ Len(t) = n + 1 /\ t[n + 1] = x /\ \A k \in 1..n : t[k] = s[k]
    BY LenProperties, AppendProperties
  <2>2. PICK v \in [0..Len(s) -> B] : IsRun(v, f, b, s) /\ Folded(f, b, s) = v[Len(s)]
    BY <1>0
  <2>3. PICK w \in [0..Len(t) -> B] : IsRun(w, f, b, t) /\ Folded(f, b, t) = w[Len(t)]
    BY <1>0, <2>1
  <2> HIDE DEF t
  <2>4. v[n] = w[n]
    <3>1. n <= Len(s) /\ n <= Len(t) /\ \A k \in 1..n : s[k] = t[k]
      BY <2>1
    <3>2. IsRun(v, f, b, s) /\ IsRun(w, f, b, t) /\ t \in Seq(A) /\ n \in Nat
      BY <2>1, <2>2, <2>3
    <3> HIDE DEF n
    <3>. QED
      BY <3>1, <3>2, RunUnique
  <2>5. w[n + 1] = f[<<w[n], x>>]
    BY <2>1, <2>3 DEF IsRun
  <2>. QED
    BY <2>1, <2>2, <2>3, <2>4, <2>5 DEF t
<1>. QED
  BY <1>1, <1>2, <1>3

-----------------------------------------------------------------------------
(***************************************************************************)
(* FlattenSeq is the fold of concatenation.                                *)
(***************************************************************************)
Joining(B) == [p \in Seq(B) \X Seq(B) |-> p[1] \o p[2]]

FlattenTable(h, ss) == h = [i \in 1..Len(ss) |-> IF i = 1 THEN ss[i] ELSE h[i - 1] \o ss[i]]

(* Joining sequences, as a step of a fold.                                 *)
LEMMA JoiningIsStep ==
    ASSUME NEW B
    PROVE  /\ IsStep(Joining(B), Seq(B), Seq(B))
           /\ \A s, t \in Seq(B) : Joining(B)[<<s, t>>] = s \o t
<1>1. \A s, t \in Seq(B) : s \o t \in Seq(B)
  BY ConcatProperties
<1>. QED
  BY <1>1 DEF IsStep, Joining

(* FlattenSeq of the community modules is such a fold.                     *)
LEMMA FlattenIsFold ==
    ASSUME NEW B
    PROVE  \A ss \in Seq(Seq(B)) : FlattenSeq(ss) = Folded(Joining(B), <<>>, ss)
<1> TAKE ss \in Seq(Seq(B))
<1> DEFINE n == Len(ss)
           f == Joining(B)
           h == CHOOSE h : FlattenTable(h, ss)
<1>1. n \in Nat /\ \A i \in 1..n : ss[i] \in Seq(B)
  BY LenProperties, ElementOfSeq
<1>0. IsStep(f, Seq(B), Seq(B)) /\ \A s, t \in Seq(B) : f[<<s, t>>] = s \o t
  BY JoiningIsStep
<1> HIDE DEF f
<1>2. PICK w \in [0..n -> Seq(B)] :
          IsRun(w, f, <<>>, ss) /\ Folded(f, <<>>, ss) = w[n]
  <2>1. <<>> \in Seq(B)
    OBVIOUS
  <2>. QED
    <3> DEFINE S == Seq(B)
               e == <<>>
    <3>1. IsStep(f, S, S) /\ e \in S
      BY <1>0, <2>1
    <3> HIDE DEF S, e
    <3>2. \A r \in Seq(S) : \E w \in [0..Len(r) -> S] :
              IsRun(w, f, e, r) /\ Folded(f, e, r) = w[Len(r)]
      BY <3>1, FoldedRun
    <3>. QED
      BY <3>2 DEF S, e
<1>3. w[0] = <<>> /\ \A i \in 1..n : w[i] = w[i - 1] \o ss[i]
  <2>1. \A i \in 0..n : w[i] = IF i = 0 THEN <<>> ELSE f[<<w[i - 1], ss[i]>>]
    BY <1>2 DEF IsRun
  <2>2. 0 \in 0..n /\ \A i \in 1..n : i \in 0..n /\ i # 0 /\ i - 1 \in 0..n
    BY <1>1
  <2>3. \A i \in 1..n : f[<<w[i - 1], ss[i]>>] = w[i - 1] \o ss[i]
    BY <1>0, <1>1, <1>2, <2>2
  <2>. QED
    BY <2>1, <2>2, <2>3
<1>4. CASE n = 0
  <2>1. ss = <<>>
    BY <1>4, EmptySeq
  <2>2. FlattenSeq(ss) = ss
    BY <1>4 DEF FlattenSeq
  <2>. QED
    BY <1>2, <1>3, <1>4, <2>1, <2>2 DEF f
<1>5. CASE n # 0
  <2>1. FlattenSeq(ss) = h[n]
    BY <1>5 DEF FlattenSeq, FlattenTable
  <2>2. w[1] = ss[1]
    <3>1. 1 \in 1..n /\ 1 - 1 = 0
      BY <1>1, <1>5
    <3>2. w[1] = <<>> \o ss[1]
      BY <1>3, <3>1
    <3>3. <<>> \o ss[1] = ss[1]
      BY <1>1, <3>1, ConcatEmptySeq
    <3>. QED
      BY <3>2, <3>3
  <2>3. \E g : FlattenTable(g, ss)
    <3> DEFINE g == [i \in 1..n |-> w[i]]
    <3>1. ASSUME NEW i \in 1..n PROVE g[i] = IF i = 1 THEN ss[i] ELSE g[i - 1] \o ss[i]
      <4>1. CASE i = 1
        BY <2>2, <4>1
      <4>2. CASE i # 1
        <5>1. i - 1 \in 1..n
          BY <1>1, <4>2
        <5>. QED
          BY <1>3, <4>2, <5>1
      <4>. QED
        BY <4>1, <4>2
    <3>2. FlattenTable(g, ss)
      BY <3>1 DEF FlattenTable
    <3>. QED
      BY <3>2
  <2>4. FlattenTable(h, ss)
    BY <2>3
  <2> HIDE DEF h
  <2>5. \A i \in 1..n : h[i] = IF i = 1 THEN ss[i] ELSE h[i - 1] \o ss[i]
    BY <2>4 DEF FlattenTable
  <2> DEFINE T == {i \in 1..n : h[i] # w[i]}
  <2>6. T = {}
    <3> SUFFICES ASSUME T # {} PROVE FALSE
      OBVIOUS
    <3>1. PICK i \in T : \A j \in T : i <= j
      <4>1. T \in SUBSET Nat
        OBVIOUS
      <4> HIDE DEF T
      <4>. QED
        BY <4>1, Least
    <3>2. i # 1
      BY <2>2, <2>5, <3>1
    <3>3. i - 1 \in 1..n /\ i - 1 \notin T
      <4>1. i \in 1..n /\ i - 1 \in 1..n /\ ~(i <= i - 1)
        BY <1>1, <3>1, <3>2
      <4> HIDE DEF T
      <4>. QED
        BY <3>1, <4>1
    <3>4. h[i - 1] = w[i - 1] /\ i \in 1..n
      BY <3>1, <3>3
    <3>. QED
      BY <1>3, <2>5, <3>1, <3>2, <3>4
  <2>7. h[n] = w[n]
    <3>1. n \in 1..n
      BY <1>1, <1>5
    <3>. QED
      BY <2>6, <3>1
  <2>. QED
    BY <1>2, <2>1, <2>7 DEF f
<1>. QED
  BY <1>4, <1>5

(* What FlattenSeq does with the empty sequence and with one more.         *)
LEMMA FlattenFacts ==
    ASSUME NEW B
    PROVE  /\ FlattenSeq(<<>>) = <<>>
           /\ \A ss \in Seq(Seq(B)) : FlattenSeq(ss) \in Seq(B)
           /\ \A ss \in Seq(Seq(B)), s \in Seq(B) : FlattenSeq(Append(ss, s)) = FlattenSeq(ss) \o s
<1> DEFINE f == Joining(B)
<1>1. <<>> \in Seq(B) /\ <<>> \in Seq(Seq(B))
  OBVIOUS
<1>2. IsStep(f, Seq(B), Seq(B)) /\ \A s, t \in Seq(B) : f[<<s, t>>] = s \o t
  BY JoiningIsStep
<1> HIDE DEF f
<1>3. /\ Folded(f, <<>>, <<>>) = <<>>
      /\ \A ss \in Seq(Seq(B)) : Folded(f, <<>>, ss) \in Seq(B)
      /\ \A ss \in Seq(Seq(B)), s \in Seq(B) :
            Folded(f, <<>>, Append(ss, s)) = f[<<Folded(f, <<>>, ss), s>>]
  BY <1>1, <1>2, FoldedFacts
<1>4. \A ss \in Seq(Seq(B)) : FlattenSeq(ss) = Folded(f, <<>>, ss)
  BY FlattenIsFold DEF f
<1>5. ASSUME NEW ss \in Seq(Seq(B)), NEW s \in Seq(B)
      PROVE  FlattenSeq(Append(ss, s)) = FlattenSeq(ss) \o s
  <2>1. Append(ss, s) \in Seq(Seq(B))
    BY AppendProperties
  <2>2. f[<<Folded(f, <<>>, ss), s>>] = Folded(f, <<>>, ss) \o s
    BY <1>2, <1>3
  <2>. QED
    BY <1>3, <1>4, <2>1, <2>2
<1>. QED
  BY <1>1, <1>3, <1>4, <1>5

-----------------------------------------------------------------------------
(***************************************************************************)
(* FlatMap, as a function applied to each element.                         *)
(***************************************************************************)
IsMap(f, A, B) == \A x \in A : f[x] \in Seq(B)

Mapped(f, s) == FlattenSeq([i \in DOMAIN s |-> f[s[i]]])

(* What Mapped does with nothing, with one element and with one more.      *)
LEMMA MappedFacts ==
    ASSUME NEW A, NEW B, NEW f, IsMap(f, A, B)
    PROVE  /\ Mapped(f, <<>>) = <<>>
           /\ \A s \in Seq(A) : Mapped(f, s) \in Seq(B)
           /\ \A s \in Seq(A), x \in A : Mapped(f, Append(s, x)) = Mapped(f, s) \o f[x]
           /\ \A x \in A : Mapped(f, <<x>>) = f[x]
<1> DEFINE m(s) == [i \in DOMAIN s |-> f[s[i]]]
<1>1. \A x \in A : f[x] \in Seq(B)
  BY DEF IsMap
<1>2. ASSUME NEW s \in Seq(A) PROVE m(s) \in Seq(Seq(B))
  <2>1. Len(s) \in Nat /\ DOMAIN s = 1..Len(s) /\ \A i \in 1..Len(s) : s[i] \in A
    BY LenProperties, ElementOfSeq
  <2>. QED
    BY <1>1, <2>1
<1>3. ASSUME NEW s \in Seq(A), NEW x \in A PROVE m(Append(s, x)) = Append(m(s), f[x])
  <2> DEFINE n == Len(s)
             t == Append(s, x)
  <2>1. /\ n \in Nat /\ DOMAIN s = 1..n /\ \A i \in 1..n : s[i] \in A
        /\ t \in Seq(A) /\ Len(t) = n + 1 /\ DOMAIN t = 1..n + 1 /\ t[n + 1] = x
        /\ \A i \in 1..n : t[i] = s[i]
    BY LenProperties, ElementOfSeq, AppendProperties
  <2>2. m(s) \in Seq(Seq(B)) /\ m(t) \in Seq(Seq(B)) /\ f[x] \in Seq(B)
    BY <1>1, <1>2, <2>1
  <2> HIDE DEF t, n
  <2>3. Len(m(s)) = n /\ Len(m(t)) = n + 1
    BY <2>1, <2>2
  <2>4. m(t)[n + 1] = f[x] /\ \A i \in 1..n : m(t)[i] = m(s)[i]
    BY <2>1
  <2> DEFINE a == m(s)
             b == m(t)
  <2>5. a \in Seq(Seq(B)) /\ b \in Seq(Seq(B)) /\ Len(a) = n /\ Len(b) = n + 1
        /\ b[n + 1] = f[x] /\ \A i \in 1..n : b[i] = a[i]
    BY <2>2, <2>3, <2>4
  <2> HIDE DEF a, b
  <2>6. /\ Append(a, f[x]) \in Seq(Seq(B)) /\ Len(Append(a, f[x])) = n + 1
        /\ \A i \in 1..n : Append(a, f[x])[i] = a[i] /\ Append(a, f[x])[n + 1] = f[x]
    BY <2>1, <2>2, <2>5, AppendProperties
  <2>7. \A i \in 1..n + 1 : Append(a, f[x])[i] = b[i]
    BY <2>1, <2>5, <2>6
  <2>8. b = Append(a, f[x])
    BY <2>5, <2>6, <2>7, SeqEqual
  <2>. QED
    BY <2>8 DEF a, b, t
<1>4. m(<<>>) = <<>>
  OBVIOUS
<1>5. \A s : Mapped(f, s) = FlattenSeq(m(s))
  BY DEF Mapped
<1> HIDE DEF m
<1>6. /\ FlattenSeq(<<>>) = <<>>
      /\ \A ss \in Seq(Seq(B)) : FlattenSeq(ss) \in Seq(B)
      /\ \A ss \in Seq(Seq(B)), s \in Seq(B) : FlattenSeq(Append(ss, s)) = FlattenSeq(ss) \o s
  BY FlattenFacts
<1>7. ASSUME NEW s \in Seq(A), NEW x \in A PROVE Mapped(f, Append(s, x)) = Mapped(f, s) \o f[x]
  <2>1. m(s) \in Seq(Seq(B)) /\ f[x] \in Seq(B) /\ m(Append(s, x)) = Append(m(s), f[x])
    BY <1>1, <1>2, <1>3
  <2>2. FlattenSeq(Append(m(s), f[x])) = FlattenSeq(m(s)) \o f[x]
    BY <1>6, <2>1
  <2>. QED
    BY <1>5, <2>1, <2>2
<1>8. Mapped(f, <<>>) = <<>>
  BY <1>4, <1>5, <1>6
<1>9. \A s \in Seq(A) : Mapped(f, s) \in Seq(B)
  BY <1>2, <1>5, <1>6
<1>10. ASSUME NEW x \in A PROVE Mapped(f, <<x>>) = f[x]
  <2>1. <<>> \in Seq(A) /\ Append(<<>>, x) = <<x>>
    OBVIOUS
  <2>2. Mapped(f, <<x>>) = <<>> \o f[x]
    BY <1>7, <1>8, <2>1
  <2>. QED
    BY <1>1, <2>2, ConcatEmptySeq
<1>. QED
  BY <1>7, <1>8, <1>9, <1>10

(* Sequences put together.                                                 *)
LEMMA AppendConcat ==
    ASSUME NEW A, NEW s \in Seq(A), NEW t \in Seq(A), NEW x \in A
    PROVE  s \o Append(t, x) = Append(s \o t, x) /\ Append(t, x) = t \o <<x>>
<1>1. <<x>> \in Seq(A) /\ s \o t \in Seq(A)
  BY ConcatProperties
<1>2. Append(t, x) = t \o <<x>> /\ Append(s \o t, x) = (s \o t) \o <<x>>
  BY <1>1, AppendIsConcat
<1>. QED
  BY <1>1, <1>2, ConcatAssociative

(* Mapped goes over concatenation.                                         *)
LEMMA MappedConcat ==
    ASSUME NEW A, NEW B, NEW f, IsMap(f, A, B)
    PROVE  \A s, t \in Seq(A) : Mapped(f, s \o t) = Mapped(f, s) \o Mapped(f, t)
<1> TAKE s \in Seq(A)
<1> DEFINE P == {t \in Seq(A) : Mapped(f, s \o t) = Mapped(f, s) \o Mapped(f, t)}
<1>0. /\ Mapped(f, <<>>) = <<>>
      /\ \A r \in Seq(A) : Mapped(f, r) \in Seq(B)
      /\ \A r \in Seq(A), x \in A : Mapped(f, Append(r, x)) = Mapped(f, r) \o f[x]
      /\ \A x \in A : f[x] \in Seq(B)
  <2>1. \A x \in A : f[x] \in Seq(B)
    BY DEF IsMap
  <2>. QED
    BY <2>1, MappedFacts
<1>1. <<>> \in P
  <2>1. s \o <<>> = s /\ Mapped(f, s) \o <<>> = Mapped(f, s) /\ <<>> \in Seq(A)
    BY <1>0, ConcatEmptySeq
  <2>. QED
    BY <1>0, <2>1
<1>2. ASSUME NEW t \in Seq(A), t \in P, NEW x \in A PROVE Append(t, x) \in P
  <2>1. Append(t, x) \in Seq(A) /\ s \o t \in Seq(A) /\ s \o Append(t, x) = Append(s \o t, x)
    BY AppendProperties, ConcatProperties, AppendConcat
  <2>2. Mapped(f, s \o Append(t, x)) = (Mapped(f, s) \o Mapped(f, t)) \o f[x]
    BY <1>0, <1>2, <2>1
  <2>3. (Mapped(f, s) \o Mapped(f, t)) \o f[x] = Mapped(f, s) \o (Mapped(f, t) \o f[x])
    <3> DEFINE a == Mapped(f, s)
               b == Mapped(f, t)
               c == f[x]
    <3>1. a \in Seq(B) /\ b \in Seq(B) /\ c \in Seq(B)
      BY <1>0
    <3> HIDE DEF a, b, c
    <3>2. (a \o b) \o c = a \o (b \o c)
      BY <3>1, ConcatAssociative
    <3>. QED
      BY <3>2 DEF a, b, c
  <2>. QED
    BY <1>0, <2>1, <2>2, <2>3
<1> HIDE DEF P
<1>3. Seq(A) \subseteq P
  BY <1>1, <1>2, SeqInduction
<1>. QED
  BY <1>3 DEF P

(* One after the other is both at once.                                    *)
LEMMA MappedTwice ==
    ASSUME NEW A, NEW B, NEW C, NEW f, IsMap(f, A, B), NEW g, IsMap(g, B, C),
           NEW h, IsMap(h, A, C), \A x \in A : h[x] = Mapped(g, f[x])
    PROVE  \A s \in Seq(A) : Mapped(g, Mapped(f, s)) = Mapped(h, s)
<1> DEFINE P == {s \in Seq(A) : Mapped(g, Mapped(f, s)) = Mapped(h, s)}
<1>0. /\ Mapped(f, <<>>) = <<>> /\ Mapped(g, <<>>) = <<>> /\ Mapped(h, <<>>) = <<>>
      /\ \A r \in Seq(A) : Mapped(f, r) \in Seq(B)
      /\ \A r \in Seq(A), x \in A : Mapped(f, Append(r, x)) = Mapped(f, r) \o f[x]
      /\ \A r \in Seq(A), x \in A : Mapped(h, Append(r, x)) = Mapped(h, r) \o h[x]
      /\ \A x \in A : f[x] \in Seq(B)
  <2>1. \A x \in A : f[x] \in Seq(B)
    BY DEF IsMap
  <2>2. /\ Mapped(f, <<>>) = <<>> /\ \A r \in Seq(A) : Mapped(f, r) \in Seq(B)
        /\ \A r \in Seq(A), x \in A : Mapped(f, Append(r, x)) = Mapped(f, r) \o f[x]
    BY MappedFacts
  <2>3. /\ Mapped(h, <<>>) = <<>> /\ \A r \in Seq(A), x \in A : Mapped(h, Append(r, x)) = Mapped(h, r) \o h[x]
    BY MappedFacts
  <2>4. Mapped(g, <<>>) = <<>>
    BY MappedFacts
  <2>. QED
    BY <2>1, <2>2, <2>3, <2>4
<1>1. <<>> \in P
  <2>1. <<>> \in Seq(A)
    OBVIOUS
  <2>. QED
    BY <1>0, <2>1
<1>2. ASSUME NEW s \in Seq(A), s \in P, NEW x \in A PROVE Append(s, x) \in P
  <2>1. Append(s, x) \in Seq(A)
    BY AppendProperties
  <2>2. Mapped(g, Mapped(f, s) \o f[x]) = Mapped(g, Mapped(f, s)) \o Mapped(g, f[x])
    BY <1>0, MappedConcat
  <2>. QED
    BY <1>0, <1>2, <2>1, <2>2
<1> HIDE DEF P
<1>3. Seq(A) \subseteq P
  BY <1>1, <1>2, SeqInduction
<1>. QED
  BY <1>3 DEF P

(* Mappings that agree on the elements agree on sequences of them.         *)
LEMMA MappedSame ==
    ASSUME NEW A, NEW s \in Seq(A), NEW f, NEW g, \A x \in A : f[x] = g[x]
    PROVE  Mapped(f, s) = Mapped(g, s)
<1>1. \A i \in DOMAIN s : s[i] \in A
  BY LenProperties, ElementOfSeq
<1>2. [i \in DOMAIN s |-> f[s[i]]] = [i \in DOMAIN s |-> g[s[i]]]
  BY <1>1
<1>. QED
  BY <1>2 DEF Mapped

(* FoldLeft, as such a fold: what it builds for every set of positions.    *)
LEMMA MaxOfSet ==
    ASSUME NEW n \in Nat, NEW S \in SUBSET (1..n), S # {}
    PROVE  Max(S) \in S /\ \A x \in S : x <= Max(S)
<1> DEFINE T == {n - x : x \in S}
<1>1. T \in SUBSET Nat /\ T # {}
  <2>1. \A x \in S : n - x \in Nat
    OBVIOUS
  <2>2. PICK x \in S : TRUE
    OBVIOUS
  <2>3. n - x \in T
    OBVIOUS
  <2>. QED
    BY <2>1, <2>3
<1>2. PICK m \in T : \A l \in T : m <= l
  <2> HIDE DEF T
  <2>. QED
    BY <1>1, Least
<1>3. PICK x \in S : m = n - x
  BY <1>2
<1>4. ASSUME NEW y \in S PROVE y <= x
  <2>1. n - y \in T /\ y \in Int /\ x \in Int
    OBVIOUS
  <2>2. n - x <= n - y
    BY <1>2, <1>3, <2>1
  <2>. QED
    BY <2>1, <2>2
<1>. QED
  BY <1>3, <1>4 DEF Max

IsTable(it, f, b, s) ==
    it = [S \in SUBSET (1..Len(s)) |->
             IF S = {} THEN b ELSE f[<<it[S \ {Max(S)}], s[Max(S)]>>]]

(* MapThenFoldSet's table over the positions of a sequence exists,         *)
LEMMA TableExists ==
    ASSUME NEW A, NEW B, NEW f, IsStep(f, A, B), NEW b \in B
    PROVE  \A s \in Seq(A) : \E it \in [SUBSET (1..Len(s)) -> B] : IsTable(it, f, b, s)
<1> DEFINE P == {s \in Seq(A) : \E it \in [SUBSET (1..Len(s)) -> B] : IsTable(it, f, b, s)}
<1>1. <<>> \in P
  <2> DEFINE it == [S \in SUBSET (1..0) |-> b]
  <2>1. <<>> \in Seq(A) /\ Len(<<>>) = 0 /\ \A S \in SUBSET (1..0) : S = {}
    OBVIOUS
  <2>2. it \in [SUBSET (1..Len(<<>>)) -> B] /\ IsTable(it, f, b, <<>>)
    BY <2>1 DEF IsTable
  <2>. QED
    BY <2>1, <2>2
<1>2. ASSUME NEW s \in Seq(A), s \in P, NEW x \in A PROVE Append(s, x) \in P
  <2> DEFINE n == Len(s)
             m == n + 1
             t == Append(s, x)
  <2>1. PICK g \in [SUBSET (1..n) -> B] : IsTable(g, f, b, s)
    BY <1>2
  <2>2. n \in Nat /\ t \in Seq(A) /\ Len(t) = m /\ t[m] = x /\ \A k \in 1..n : t[k] = s[k]
    BY LenProperties, AppendProperties
  <2>3. \A S \in SUBSET (1..n) :
           g[S] \in B /\ g[S] = IF S = {} THEN b ELSE f[<<g[S \ {Max(S)}], s[Max(S)]>>]
    BY <2>1 DEF IsTable
  <2>4. ASSUME NEW S \in SUBSET (1..m) PROVE S \ {m} \in SUBSET (1..n)
    <3>1. \A y \in 1..m : y # m => y \in 1..n
      BY <2>2
    <3>. QED
      BY <3>1
  <2>5. \A S \in SUBSET (1..n) : S \in SUBSET (1..m)
    BY <2>2
  <2>6. m \in Nat
    BY <2>2
  <2> HIDE DEF n, t
  <2> DEFINE h == [S \in SUBSET (1..m) |-> IF S \in SUBSET (1..n) THEN g[S] ELSE f[<<g[S \ {m}], x>>]]
  <2>7. h \in [SUBSET (1..m) -> B]
    BY <2>3, <2>4 DEF IsStep
  <2>8. ASSUME NEW S \in SUBSET (1..m)
        PROVE  h[S] = IF S = {} THEN b ELSE f[<<h[S \ {Max(S)}], t[Max(S)]>>]
    <3>1. CASE S = {}
      <4>1. {} \in SUBSET (1..n) /\ g[{}] = b
        BY <2>3
      <4>. QED
        BY <3>1, <4>1
    <3>2. CASE S # {} /\ S \in SUBSET (1..n)
      <4>1. Max(S) \in S
        BY <2>2, <3>2, MaxOfSet
      <4>2. S \ {Max(S)} \in SUBSET (1..n) /\ S \ {Max(S)} \in SUBSET (1..m) /\ Max(S) \in 1..n
        BY <2>5, <3>2, <4>1
      <4>3. h[S] = g[S] /\ h[S \ {Max(S)}] = g[S \ {Max(S)}] /\ t[Max(S)] = s[Max(S)]
        BY <2>2, <3>2, <4>2
      <4>. QED
        BY <2>3, <3>2, <4>3
    <3>3. CASE S \notin SUBSET (1..n)
      <4>1. m \in S
        BY <2>2, <3>3
      <4>2. Max(S) = m
        <5>1. Max(S) \in S /\ \A y \in S : y <= Max(S)
          BY <2>6, <4>1, MaxOfSet
        <5>2. m <= Max(S) /\ Max(S) \in 1..m
          BY <4>1, <5>1
        <5>. QED
          BY <2>6, <5>2
      <4>3. S \ {m} \in SUBSET (1..n) /\ S \ {m} \in SUBSET (1..m) /\ S # {}
        BY <2>4, <4>1
      <4>4. h[S] = f[<<g[S \ {m}], x>>] /\ h[S \ {m}] = g[S \ {m}]
        BY <3>3, <4>3
      <4>. QED
        BY <2>2, <4>2, <4>3, <4>4
    <3>. QED
      BY <3>1, <3>2, <3>3
  <2>9. IsTable(h, f, b, t)
    BY <2>2, <2>8 DEF IsTable
  <2> HIDE DEF h
  <2>. QED
    BY <2>2, <2>7, <2>9 DEF t
<1> HIDE DEF P
<1>3. Seq(A) \subseteq P
  BY <1>1, <1>2, SeqInduction
<1>. QED
  BY <1>3 DEF P

(* Whatever else is a table for values of the fold's, is one.              *)
Fills(it, f, b, B, s) ==
    /\ it[{}] = b
    /\ \A S \in SUBSET (1..Len(s)) : S # {} /\ it[S \ {Max(S)}] \in B =>
          it[S] = f[<<it[S \ {Max(S)}], s[Max(S)]>>]

(* and what fills it is the fold of the sequence.                          *)
LEMMA TableIsFold ==
    ASSUME NEW A, NEW B, NEW f, IsStep(f, A, B), NEW b \in B, NEW s \in Seq(A), NEW it,
           Fills(it, f, b, B, s)
    PROVE  it[1..Len(s)] = Folded(f, b, s)
<1> DEFINE n == Len(s)
<1>1. n \in Nat
  BY LenProperties
<1>2. PICK w \in [0..n -> B] : IsRun(w, f, b, s) /\ Folded(f, b, s) = w[n]
  <2>1. \A r \in Seq(A) : \E w \in [0..Len(r) -> B] : IsRun(w, f, b, r) /\ Folded(f, b, r) = w[Len(r)]
    BY FoldedRun
  <2>. QED
    BY <2>1
<1>3. \A k \in 0..n : w[k] \in B /\ w[k] = IF k = 0 THEN b ELSE f[<<w[k - 1], s[k]>>]
  BY <1>2 DEF IsRun
<1>0. /\ it[{}] = b
      /\ \A S \in SUBSET (1..Len(s)) : S # {} /\ it[S \ {Max(S)}] \in B =>
            it[S] = f[<<it[S \ {Max(S)}], s[Max(S)]>>]
  BY DEF Fills
<1> DEFINE T == {k \in 0..n : it[1..k] # w[k]}
<1>4. T = {}
  <2> SUFFICES ASSUME T # {} PROVE FALSE
    OBVIOUS
  <2>1. PICK k \in T : \A j \in T : k <= j
    <3>1. T \in SUBSET Nat
      OBVIOUS
    <3> HIDE DEF T
    <3>. QED
      BY <3>1, Least
  <2>2. k \in 0..n /\ it[1..k] # w[k]
    BY <2>1
  <2>3. k # 0
    <3>1. 1..0 = {} /\ 0 \in 0..n
      BY <1>1
    <3>2. w[0] = b /\ it[1..0] = b
      BY <1>0, <1>3, <3>1
    <3>. QED
      BY <2>2, <3>2
  <2>4. k \in Nat /\ k - 1 \in 0..n /\ ~(k <= k - 1) /\ 1..k \in SUBSET (1..n) /\ k \in 1..k
    BY <1>1, <2>2, <2>3
  <2>5. k - 1 \notin T
    <3> HIDE DEF T
    <3>. QED
      BY <2>1, <2>4
  <2>6. it[1..k - 1] = w[k - 1]
    BY <2>4, <2>5
  <2>7. Max(1..k) = k
    <3>1. Max(1..k) \in 1..k /\ \A x \in 1..k : x <= Max(1..k)
      BY <2>4, MaxOfSet
    <3>. QED
      BY <2>4, <3>1
  <2>8. (1..k) \ {k} = 1..k - 1 /\ 1..k # {}
    BY <2>4
  <2>9. it[1..k] = f[<<it[1..k - 1], s[k]>>]
    <3>1. it[(1..k) \ {Max(1..k)}] \in B
      BY <1>3, <2>4, <2>6, <2>7, <2>8
    <3>2. it[1..k] = f[<<it[(1..k) \ {Max(1..k)}], s[Max(1..k)]>>]
      BY <1>0, <2>4, <2>8, <3>1
    <3>. QED
      BY <2>7, <2>8, <3>2
  <2>. QED
    BY <1>3, <2>2, <2>3, <2>6, <2>9
<1>5. n \in 0..n /\ n \notin T
  BY <1>1, <1>4
<1>. QED
  BY <1>2, <1>5

(* A fold goes over concatenation.                                         *)
LEMMA FoldedConcat ==
    ASSUME NEW A, NEW B, NEW f, IsStep(f, A, B), NEW b \in B, NEW s \in Seq(A)
    PROVE  \A t \in Seq(A) : Folded(f, b, s \o t) = Folded(f, Folded(f, b, s), t)
<1> DEFINE c == Folded(f, b, s)
           P == {t \in Seq(A) : Folded(f, b, s \o t) = Folded(f, c, t)}
<1>0. /\ \A r \in Seq(A) : Folded(f, b, r) \in B
      /\ \A r \in Seq(A), x \in A : Folded(f, b, Append(r, x)) = f[<<Folded(f, b, r), x>>]
  BY FoldedFacts
<1>1. c \in B
  BY <1>0
<1>2. /\ Folded(f, c, <<>>) = c
      /\ \A r \in Seq(A), x \in A : Folded(f, c, Append(r, x)) = f[<<Folded(f, c, r), x>>]
  <2> HIDE DEF c
  <2>. QED
    BY <1>1, FoldedFacts
<1>3. <<>> \in P
  <2>1. s \o <<>> = s /\ <<>> \in Seq(A)
    BY ConcatEmptySeq
  <2>. QED
    BY <1>2, <2>1
<1>4. ASSUME NEW t \in Seq(A), t \in P, NEW x \in A PROVE Append(t, x) \in P
  <2>1. Append(t, x) \in Seq(A) /\ s \o t \in Seq(A) /\ s \o Append(t, x) = Append(s \o t, x)
    BY AppendProperties, ConcatProperties, AppendConcat
  <2>2. Folded(f, b, Append(s \o t, x)) = f[<<Folded(f, b, s \o t), x>>]
    BY <1>0, <2>1
  <2>3. Folded(f, c, Append(t, x)) = f[<<Folded(f, c, t), x>>]
    BY <1>2
  <2>4. Folded(f, b, s \o t) = Folded(f, c, t)
    BY <1>4
  <2>. QED
    BY <2>1, <2>2, <2>3, <2>4
<1> HIDE DEF P
<1>5. Seq(A) \subseteq P
  BY <1>3, <1>4, SeqInduction
<1>. QED
  BY <1>5 DEF P

-----------------------------------------------------------------------------
(***************************************************************************)
(* Mappings of the elements of a sequence, and selections from it.         *)
(***************************************************************************)

(* Sequences of a larger set.                                              *)
LEMMA SeqOfMore ==
    ASSUME NEW A, NEW B, A \subseteq B
    PROVE  Seq(A) \subseteq Seq(B)
<1> SUFFICES ASSUME NEW s \in Seq(A) PROVE s \in Seq(B)
  OBVIOUS
<1>1. Len(s) \in Nat /\ s \in [1..Len(s) -> A]
  BY LenProperties
<1>2. s \in [1..Len(s) -> B]
  BY <1>1
<1>. QED
  BY <1>1, <1>2, SeqDef

(* MapSeq, as a function applied to each element.                          *)
IsFcn(g, A, B) == \A x \in A : g[x] \in B
Each(g, s) == [i \in DOMAIN s |-> g[s[i]]]
Singly(g, A) == [x \in A |-> <<g[x]>>]

(* What Each does, position by position,                                   *)
LEMMA EachFacts ==
    ASSUME NEW A, NEW B, NEW g, IsFcn(g, A, B)
    PROVE  /\ Each(g, <<>>) = <<>>
           /\ \A s \in Seq(A) : Each(g, s) \in Seq(B) /\ Len(Each(g, s)) = Len(s)
           /\ \A s \in Seq(A) : \A i \in DOMAIN s : Each(g, s)[i] = g[s[i]]
           /\ \A s \in Seq(A) : (Each(g, s) = <<>>) = (s = <<>>)
<1>1. \A x \in A : g[x] \in B
  BY DEF IsFcn
<1>2. ASSUME NEW s \in Seq(A)
      PROVE  /\ Each(g, s) \in Seq(B) /\ Len(Each(g, s)) = Len(s)
             /\ \A i \in DOMAIN s : Each(g, s)[i] = g[s[i]]
             /\ (Each(g, s) = <<>>) = (s = <<>>)
  <2>1. Len(s) \in Nat /\ DOMAIN s = 1..Len(s) /\ \A i \in 1..Len(s) : s[i] \in A
    BY LenProperties, ElementOfSeq
  <2>2. Each(g, s) \in Seq(B)
    BY <1>1, <2>1 DEF Each
  <2>3. DOMAIN Each(g, s) = 1..Len(s) /\ \A i \in DOMAIN s : Each(g, s)[i] = g[s[i]]
    BY <2>1 DEF Each
  <2>4. Len(Each(g, s)) = Len(s)
    BY <2>1, <2>2, <2>3, LenProperties
  <2>. QED
    BY <2>1, <2>2, <2>3, <2>4, EmptySeq
<1>3. Each(g, <<>>) = <<>>
  BY DEF Each
<1>. QED
  BY <1>2, <1>3

(* with one element more,                                                  *)
LEMMA EachAppend ==
    ASSUME NEW A, NEW B, NEW g, IsFcn(g, A, B)
    PROVE  \A s \in Seq(A), x \in A : Each(g, Append(s, x)) = Append(Each(g, s), g[x])
<1> TAKE s \in Seq(A), x \in A
<1> DEFINE n == Len(s)
           t == Append(s, x)
           a == Each(g, s)
           b == Each(g, t)
<1>1. /\ n \in Nat /\ DOMAIN s = 1..n /\ t \in Seq(A) /\ Len(t) = n + 1 /\ DOMAIN t = 1..n + 1
      /\ t[n + 1] = x /\ \A i \in 1..n : t[i] = s[i]
  BY LenProperties, AppendProperties
<1>2. /\ a \in Seq(B) /\ Len(a) = n /\ \A i \in 1..n : a[i] = g[s[i]]
      /\ b \in Seq(B) /\ Len(b) = n + 1 /\ \A i \in 1..n + 1 : b[i] = g[t[i]]
  <2> HIDE DEF t, n
  <2>. QED
    BY <1>1, EachFacts DEF n
<1>3. g[x] \in B
  BY DEF IsFcn
<1> HIDE DEF a, b, t, n
<1>4. /\ Append(a, g[x]) \in Seq(B) /\ Len(Append(a, g[x])) = n + 1 /\ Append(a, g[x])[n + 1] = g[x]
      /\ \A i \in 1..n : Append(a, g[x])[i] = a[i]
  BY <1>1, <1>2, <1>3, AppendProperties
<1>5. \A i \in 1..n + 1 : b[i] = Append(a, g[x])[i]
  BY <1>1, <1>2, <1>4
<1>6. b = Append(a, g[x])
  BY <1>2, <1>4, <1>5, SeqEqual
<1>. QED
  BY <1>6 DEF a, b, t

(* and that it is a mapping                                                *)
LEMMA SinglyIsMap ==
    ASSUME NEW A, NEW B, NEW g, IsFcn(g, A, B)
    PROVE  IsMap(Singly(g, A), A, B) /\ \A x \in A : Singly(g, A)[x] = <<g[x]>>
<1>1. \A x \in A : <<g[x]>> \in Seq(B)
  BY DEF IsFcn
<1>. QED
  BY <1>1 DEF IsMap, Singly

(* to sequences of one.                                                    *)
LEMMA EachIsMapped ==
    ASSUME NEW A, NEW B, NEW g, IsFcn(g, A, B)
    PROVE  \A s \in Seq(A) : Each(g, s) = Mapped(Singly(g, A), s)
<1> DEFINE P == {s \in Seq(A) : Each(g, s) = Mapped(Singly(g, A), s)}
<1>0. IsMap(Singly(g, A), A, B) /\ \A x \in A : Singly(g, A)[x] = <<g[x]>>
  BY SinglyIsMap
<1>1. /\ Mapped(Singly(g, A), <<>>) = <<>>
      /\ \A s \in Seq(A), x \in A : Mapped(Singly(g, A), Append(s, x)) = Mapped(Singly(g, A), s) \o Singly(g, A)[x]
  <2> DEFINE f == Singly(g, A)
  <2>1. IsMap(f, A, B)
    BY <1>0
  <2> HIDE DEF f
  <2>2. /\ Mapped(f, <<>>) = <<>>
        /\ \A s \in Seq(A), x \in A : Mapped(f, Append(s, x)) = Mapped(f, s) \o f[x]
    BY <2>1, MappedFacts
  <2>. QED
    BY <2>2 DEF f
<1>2. <<>> \in P
  <2>1. <<>> \in Seq(A) /\ Each(g, <<>>) = <<>>
    BY EachFacts
  <2>. QED
    BY <1>1, <2>1
<1>3. ASSUME NEW s \in Seq(A), s \in P, NEW x \in A PROVE Append(s, x) \in P
  <2>1. Each(g, Append(s, x)) = Append(Each(g, s), g[x]) /\ Append(s, x) \in Seq(A)
    BY EachAppend, AppendProperties
  <2>2. Each(g, s) \in Seq(B) /\ g[x] \in B
    BY EachFacts DEF IsFcn
  <2>3. Append(Each(g, s), g[x]) = Each(g, s) \o <<g[x]>>
    BY <2>2, AppendIsConcat
  <2>. QED
    BY <1>0, <1>1, <1>3, <2>1, <2>3
<1> HIDE DEF P
<1>4. Seq(A) \subseteq P
  BY <1>2, <1>3, SeqInduction
<1>. QED
  BY <1>4 DEF P

(* Each goes over concatenation.                                           *)
LEMMA EachConcat ==
    ASSUME NEW A, NEW B, NEW g, IsFcn(g, A, B)
    PROVE  \A s, t \in Seq(A) : Each(g, s \o t) = Each(g, s) \o Each(g, t)
<1> DEFINE f == Singly(g, A)
<1>1. IsMap(f, A, B) /\ \A s \in Seq(A) : Each(g, s) = Mapped(f, s)
  BY SinglyIsMap, EachIsMapped
<1> HIDE DEF f
<1>2. \A s, t \in Seq(A) : Mapped(f, s \o t) = Mapped(f, s) \o Mapped(f, t)
  BY <1>1, MappedConcat
<1>3. \A s, t \in Seq(A) : s \o t \in Seq(A)
  BY ConcatProperties
<1>. QED
  BY <1>1, <1>2, <1>3

(* To each element, and then to what comes of it.                          *)
LEMMA EachThenMapped ==
    ASSUME NEW A, NEW B, NEW g, IsFcn(g, A, B), NEW f, NEW h, \A x \in A : h[x] = f[g[x]]
    PROVE  \A s \in Seq(A) : Mapped(f, Each(g, s)) = Mapped(h, s)
<1> TAKE s \in Seq(A)
<1>1. DOMAIN Each(g, s) = DOMAIN s /\ \A i \in DOMAIN s : s[i] \in A /\ Each(g, s)[i] = g[s[i]]
  BY ElementOfSeq, LenProperties DEF Each
<1>2. [i \in DOMAIN Each(g, s) |-> f[Each(g, s)[i]]] = [i \in DOMAIN s |-> h[s[i]]]
  BY <1>1
<1>. QED
  BY <1>2 DEF Mapped

(* so are two in a row,                                                    *)
LEMMA EachTwice ==
    ASSUME NEW A, NEW B, NEW g, IsFcn(g, A, B), NEW f, NEW h, \A x \in A : h[x] = f[g[x]]
    PROVE  \A s \in Seq(A) : Each(f, Each(g, s)) = Each(h, s)
<1> TAKE s \in Seq(A)
<1>1. DOMAIN Each(g, s) = DOMAIN s /\ \A i \in DOMAIN s : s[i] \in A /\ Each(g, s)[i] = g[s[i]]
  BY ElementOfSeq, LenProperties DEF Each
<1>. QED
  BY <1>1 DEF Each

(* and Mapped before Each.                                                 *)
LEMMA MappedThenEach ==
    ASSUME NEW A, NEW B, NEW C, NEW f, IsMap(f, A, B), NEW g, IsFcn(g, B, C),
           NEW h, IsMap(h, A, C), \A x \in A : h[x] = Each(g, f[x])
    PROVE  \A s \in Seq(A) : Each(g, Mapped(f, s)) = Mapped(h, s)
<1> DEFINE e == Singly(g, B)
<1>1. IsMap(e, B, C) /\ \A t \in Seq(B) : Each(g, t) = Mapped(e, t)
  BY SinglyIsMap, EachIsMapped
<1> HIDE DEF e
<1>2. \A x \in A : f[x] \in Seq(B)
  BY DEF IsMap
<1>3. \A x \in A : h[x] = Mapped(e, f[x])
  BY <1>1, <1>2
<1>4. \A s \in Seq(A) : Mapped(e, Mapped(f, s)) = Mapped(h, s)
  BY <1>1, <1>3, MappedTwice
<1>5. \A s \in Seq(A) : Mapped(f, s) \in Seq(B)
  BY MappedFacts
<1>. QED
  BY <1>1, <1>4, <1>5

(* Elements of some kinds.                                                 *)
Keep(A, K) == [c \in A |-> IF c.kind \in K THEN <<c>> ELSE <<>>]
KeepType(A, t) == [b \in A |-> IF b.type = t THEN <<b>> ELSE <<>>]

(* The selections by kind are mappings;                                    *)
LEMMA OfKindsIsMapped ==
    ASSUME NEW A, NEW K
    PROVE  /\ IsMap(Keep(A, K), A, {c \in A : c.kind \in K})
           /\ IsMap(Keep(A, K), A, A)
           /\ \A c \in A : Keep(A, K)[c] = IF c.kind \in K THEN <<c>> ELSE <<>>
           /\ \A s \in Seq(A) : OfKinds(K, s) = Mapped(Keep(A, K), s)
<1> DEFINE B == {c \in A : c.kind \in K}
<1>1. \A c \in A : c.kind \in K => <<c>> \in Seq(B) /\ <<c>> \in Seq(A)
  OBVIOUS
<1>2. <<>> \in Seq(B) /\ <<>> \in Seq(A)
  OBVIOUS
<1>3. IsMap(Keep(A, K), A, B) /\ IsMap(Keep(A, K), A, A)
  <2> DEFINE S == Seq(B)
             T == Seq(A)
  <2> HIDE DEF S, T
  <2>1. Keep(A, K) \in [A -> S] /\ Keep(A, K) \in [A -> T]
    <3>1. \A c \in A : (IF c.kind \in K THEN <<c>> ELSE <<>>) \in S /\ (IF c.kind \in K THEN <<c>> ELSE <<>>) \in T
      BY <1>1, <1>2 DEF S, T
    <3>. QED
      BY <3>1 DEF Keep
  <2>. QED
    BY <2>1 DEF IsMap, S, T
<1>4. ASSUME NEW s \in Seq(A) PROVE OfKinds(K, s) = Mapped(Keep(A, K), s)
  <2>1. \A i \in DOMAIN s : s[i] \in A
    BY ElementOfSeq, LenProperties
  <2>2. \A i \in DOMAIN s : Keep(A, K)[s[i]] = IF s[i].kind \in K THEN <<s[i]>> ELSE <<>>
    BY <2>1 DEF Keep
  <2>3. [i \in DOMAIN s |-> Keep(A, K)[s[i]]] = [i \in DOMAIN s |-> IF s[i].kind \in K THEN <<s[i]>> ELSE <<>>]
    BY <2>2
  <2>. QED
    BY <2>3 DEF OfKinds, FlatMap, MapSeq, Mapped
<1>5. \A c \in A : Keep(A, K)[c] = IF c.kind \in K THEN <<c>> ELSE <<>>
  BY DEF Keep
<1>. QED
  BY <1>3, <1>4, <1>5

(* so are those by type.                                                   *)
LEMMA OfTypeIsMapped ==
    ASSUME NEW A, NEW k
    PROVE  /\ IsMap(KeepType(A, k), A, {c \in A : c.type = k})
           /\ IsMap(KeepType(A, k), A, A)
           /\ \A c \in A : KeepType(A, k)[c] = IF c.type = k THEN <<c>> ELSE <<>>
           /\ \A s \in Seq(A) : OfType(k, s) = Mapped(KeepType(A, k), s)
<1> DEFINE B == {c \in A : c.type = k}
<1>1. \A c \in A : c.type = k => <<c>> \in Seq(B) /\ <<c>> \in Seq(A)
  OBVIOUS
<1>2. <<>> \in Seq(B) /\ <<>> \in Seq(A)
  OBVIOUS
<1>3. IsMap(KeepType(A, k), A, B) /\ IsMap(KeepType(A, k), A, A)
  <2> DEFINE S == Seq(B)
             T == Seq(A)
  <2> HIDE DEF S, T
  <2>1. KeepType(A, k) \in [A -> S] /\ KeepType(A, k) \in [A -> T]
    <3>1. \A c \in A : (IF c.type = k THEN <<c>> ELSE <<>>) \in S /\ (IF c.type = k THEN <<c>> ELSE <<>>) \in T
      BY <1>1, <1>2 DEF S, T
    <3>. QED
      BY <3>1 DEF KeepType
  <2>. QED
    BY <2>1 DEF IsMap, S, T
<1>4. ASSUME NEW s \in Seq(A) PROVE OfType(k, s) = Mapped(KeepType(A, k), s)
  <2>1. \A i \in DOMAIN s : s[i] \in A
    BY ElementOfSeq, LenProperties
  <2>2. \A i \in DOMAIN s : KeepType(A, k)[s[i]] = IF s[i].type = k THEN <<s[i]>> ELSE <<>>
    BY <2>1 DEF KeepType
  <2>3. [i \in DOMAIN s |-> KeepType(A, k)[s[i]]] = [i \in DOMAIN s |-> IF s[i].type = k THEN <<s[i]>> ELSE <<>>]
    BY <2>2
  <2>. QED
    BY <2>3 DEF OfType, FlatMap, MapSeq, Mapped
<1>5. \A c \in A : KeepType(A, k)[c] = IF c.type = k THEN <<c>> ELSE <<>>
  BY DEF KeepType
<1>. QED
  BY <1>3, <1>4, <1>5

-----------------------------------------------------------------------------
(***************************************************************************)
(* What requests and answers are made of.                                  *)
(***************************************************************************)
Texts      == Seq(Nat)
Marks      == {"", "signed"}
Args       == {"object", "{}", "_raw", "none", "invalid"}
Roles      == {"system", "developer", "user", "assistant", "tool"}
Outs       == [json : BOOLEAN, text : Texts]
Reasonings == [type : {"reasoning"}, summary : Texts, data : Nat]
Raws       == [type : {"none"}, data : {0}] \cup [type : {"redacted_thinking"}, data : Nat]
              \cup [type : {"reasoning"}, data : Reasonings]
Things     == [kind : {"word", "tool"}, n : Nat, failed : BOOLEAN]

TextC   == [kind : {"text"}, text : Texts]
ImageC  == [kind : {"image"}]
ThinkC  == [kind : {"thinking"}, text : Texts, signature : Marks, raw : Raws]
CallC   == [kind : {"tool_use"}, id : Nat, input : Args]
ResultC == {c \in [kind : {"tool_result"}, id : Nat, out : Outs, is_error : BOOLEAN] :
               c.is_error => ~c.out.json}
UserC      == TextC \cup ImageC \cup ResultC
AssistantC == TextC \cup ThinkC \cup CallC
IRBlocks   == UserC \cup AssistantC
IRMessages == [role : {"system"}, content : Seq(TextC)]
              \cup [role : {"user"}, content : Seq(UserC)]
              \cup [role : {"assistant"}, content : Seq(AssistantC)]
              \cup [role : {"tool"}, content : Seq(ResultC)]
AnyIR      == [role : Roles, content : Seq(IRBlocks)]

TextA   == [type : {"text"}, text : Texts]
ImageA  == [type : {"image"}]
ThinkA  == {b \in [type : {"thinking"}, text : Texts, signature : Marks] : b.signature # ""}
HiddenA == [type : {"redacted_thinking"}, data : Nat]
UseA    == [type : {"tool_use"}, id : Nat, input : Args]
ResultA == {b \in [type : {"tool_result"}, id : Nat, is_error : BOOLEAN, content : Outs] :
               b.is_error => ~b.content.json}
UserA      == TextA \cup ImageA \cup ResultA
AssistantA == TextA \cup ThinkA \cup HiddenA \cup UseA
ABlocks    == UserA \cup AssistantA
AMessages  == [role : {"system"}, content : Seq(TextA)]
              \cup [role : {"user"}, content : Seq(UserA)]
              \cup [role : {"assistant"}, content : Seq(AssistantA)]
AnyA       == [role : Roles, content : Seq(ABlocks)]

(* What a reader of the IR finds in it.                                    *)
IRThing(c) ==
    CASE c.kind = "text"        -> Words(c.text)
      [] c.kind = "image"       -> <<Picture>>
      [] c.kind = "tool_use"    -> <<Called(c.id)>>
      [] c.kind = "tool_result" -> <<Returned(c.id, c.is_error \/ ReadsFailed(c.out.text))>>
      [] OTHER                  -> <<>>

WordF   == [n \in Nat |-> Word(n)]
HearC   == [c \in IRBlocks |-> IRThing(c)]
HearM   == [m \in AnyIR |-> Mapped(HearC, m.content)]
HearA   == [b \in ABlocks |-> InBlock(b)]
HearAM  == [m \in AnyA |-> Mapped(HearA, m.content)]
HeardIR(r) == Mapped(HearC, r.system) \o Mapped(HearM, r.messages)

(* The constructors of IR blocks, and what they make,                      *)
LEMMA BlocksAre ==
    /\ \A t \in Texts : Text(t) \in TextC /\ Text(t).text = t
    /\ Image \in ImageC
    /\ \A t \in Texts, m \in Marks, r \in Raws :
          Thinking(t, m, r) \in ThinkC /\ Thinking(t, m, r).raw = r
    /\ \A id \in Nat, a \in Args :
          ToolUse(id, a) \in CallC /\ ToolUse(id, a).id = id /\ ToolUse(id, a).input = a
    /\ \A id \in Nat, o \in Outs, e \in BOOLEAN :
          (e => ~o.json)
          => /\ ToolResult(id, o, e) \in ResultC /\ ToolResult(id, o, e).id = id
             /\ ToolResult(id, o, e).out = o /\ ToolResult(id, o, e).is_error = e
<1>1. \A t \in Texts : Text(t) \in TextC /\ Text(t).text = t
  BY DEF Text, TextC
<1>2. Image \in ImageC
  BY DEF Image, ImageC
<1>3. \A t \in Texts, m \in Marks, r \in Raws :
          Thinking(t, m, r) \in ThinkC /\ Thinking(t, m, r).raw = r
  BY DEF Thinking, ThinkC
<1>4. \A id \in Nat, a \in Args :
          ToolUse(id, a) \in CallC /\ ToolUse(id, a).id = id /\ ToolUse(id, a).input = a
  BY DEF ToolUse, CallC
<1>5. \A id \in Nat, o \in Outs, e \in BOOLEAN :
          (e => ~o.json)
          => /\ ToolResult(id, o, e) \in ResultC /\ ToolResult(id, o, e).id = id
             /\ ToolResult(id, o, e).out = o /\ ToolResult(id, o, e).is_error = e
  BY DEF ToolResult, ResultC
<1>. QED
  BY <1>1, <1>2, <1>3, <1>4, <1>5

(* those of the things said,                                               *)
LEMMA ThingsAre ==
    /\ \A n \in Nat : Word(n) \in Things /\ Called(n) \in Things
    /\ Picture \in Things
    /\ \A n \in Nat, b \in BOOLEAN : Returned(n, b) \in Things
  BY DEF Word, Called, Picture, Returned, Things

(* and words, one for each utterance.                                      *)
LEMMA WordsFacts ==
    /\ IsFcn(WordF, Nat, Things)
    /\ \A t \in Texts : Words(t) = Each(WordF, t) /\ Words(t) \in Seq(Things)
    /\ \A t \in Texts : ReadsFailed(t) \in BOOLEAN
<1>1. IsFcn(WordF, Nat, Things) /\ \A n \in Nat : WordF[n] = Word(n)
  BY ThingsAre DEF IsFcn, WordF
<1>2. ASSUME NEW t \in Texts PROVE Words(t) = Each(WordF, t)
  <2>1. \A i \in DOMAIN t : t[i] \in Nat
    BY ElementOfSeq, LenProperties DEF Texts
  <2>2. [i \in DOMAIN t |-> Word(t[i])] = [i \in DOMAIN t |-> WordF[t[i]]]
    BY <1>1, <2>1
  <2>. QED
    BY <2>2 DEF Words, MapSeq, Each
<1>3. \A t \in Texts : Each(WordF, t) \in Seq(Things)
  BY <1>1, EachFacts DEF Texts
<1>4. \A t \in Texts : ReadsFailed(t) \in BOOLEAN
  BY DEF ReadsFailed
<1>. QED
  BY <1>1, <1>2, <1>3, <1>4

(* A sequence of one, and the empty one.                                   *)
LEMMA OneThing ==
    ASSUME NEW A, NEW x \in A
    PROVE  <<x>> \in Seq(A) /\ <<>> \in Seq(A)
  OBVIOUS

(* What a reader finds in each IR block,                                   *)
LEMMA HearCFacts ==
    /\ IsMap(HearC, IRBlocks, Things)
    /\ \A c \in IRBlocks : HearC[c] = IRThing(c)
    /\ \A c \in TextC : HearC[c] = Words(c.text)
    /\ \A c \in ImageC : HearC[c] = <<Picture>>
    /\ \A c \in CallC : HearC[c] = <<Called(c.id)>>
    /\ \A c \in ResultC : HearC[c] = <<Returned(c.id, c.is_error \/ ReadsFailed(c.out.text))>>
    /\ \A c \in ThinkC : HearC[c] = <<>>
<1>1. \A c \in IRBlocks : HearC[c] = IRThing(c)
  BY DEF HearC
<1>2. ASSUME NEW c \in TextC
      PROVE  HearC[c] = Words(c.text) /\ HearC[c] \in Seq(Things)
  <2>1. c \in IRBlocks /\ c.kind = "text" /\ c.text \in Texts
    BY DEF TextC, IRBlocks, UserC
  <2>2. IRThing(c) = Words(c.text)
    BY <2>1 DEF IRThing
  <2>. QED
    BY <1>1, <2>1, <2>2, WordsFacts
<1>3. ASSUME NEW c \in ImageC PROVE HearC[c] = <<Picture>> /\ HearC[c] \in Seq(Things)
  <2>1. c \in IRBlocks /\ c.kind = "image"
    BY DEF ImageC, IRBlocks, UserC
  <2>2. IRThing(c) = <<Picture>>
    BY <2>1 DEF IRThing
  <2>. QED
    BY <1>1, <2>1, <2>2, ThingsAre, OneThing
<1>4. ASSUME NEW c \in CallC PROVE HearC[c] = <<Called(c.id)>> /\ HearC[c] \in Seq(Things)
  <2>1. c \in IRBlocks /\ c.kind = "tool_use" /\ c.id \in Nat
    BY DEF CallC, IRBlocks, AssistantC
  <2>2. IRThing(c) = <<Called(c.id)>>
    BY <2>1 DEF IRThing
  <2>. QED
    BY <1>1, <2>1, <2>2, ThingsAre, OneThing
<1>5. ASSUME NEW c \in ResultC
      PROVE  /\ HearC[c] = <<Returned(c.id, c.is_error \/ ReadsFailed(c.out.text))>>
             /\ HearC[c] \in Seq(Things)
  <2>1. c \in IRBlocks /\ c.kind = "tool_result" /\ c.id \in Nat /\ c.is_error \in BOOLEAN
    BY DEF ResultC, IRBlocks, UserC
  <2>2. IRThing(c) = <<Returned(c.id, c.is_error \/ ReadsFailed(c.out.text))>>
    BY <2>1 DEF IRThing
  <2> DEFINE b == c.is_error \/ ReadsFailed(c.out.text)
  <2>3. b \in BOOLEAN
    OBVIOUS
  <2> HIDE DEF b
  <2>4. Returned(c.id, b) \in Things
    BY <2>1, <2>3, ThingsAre
  <2>. QED
    BY <1>1, <2>1, <2>2, <2>4, OneThing DEF b
<1>6. ASSUME NEW c \in ThinkC PROVE HearC[c] = <<>> /\ HearC[c] \in Seq(Things)
  <2>1. c \in IRBlocks /\ c.kind = "thinking"
    BY DEF ThinkC, IRBlocks, AssistantC
  <2>2. IRThing(c) = <<>>
    BY <2>1 DEF IRThing
  <2>3. <<>> \in Seq(Things)
    OBVIOUS
  <2>. QED
    BY <1>1, <2>1, <2>2, <2>3
<1>7. \A c \in IRBlocks : c \in TextC \/ c \in ImageC \/ c \in ResultC \/ c \in ThinkC \/ c \in CallC
  BY DEF IRBlocks, UserC, AssistantC
<1>8. IsMap(HearC, IRBlocks, Things)
  BY <1>2, <1>3, <1>4, <1>5, <1>6, <1>7 DEF IsMap
<1>. QED
  BY <1>1, <1>2, <1>3, <1>4, <1>5, <1>6, <1>8

(* and in each of Anthropic's.                                             *)
LEMMA HearAFacts ==
    /\ IsMap(HearA, ABlocks, Things)
    /\ \A b \in TextA : HearA[b] = Words(b.text)
    /\ \A b \in ImageA : HearA[b] = <<Picture>>
    /\ \A b \in UseA : HearA[b] = <<Called(b.id)>>
    /\ \A b \in ResultA : HearA[b] = <<Returned(b.id, b.is_error \/ ReadsFailed(b.content.text))>>
    /\ \A b \in ThinkA \cup HiddenA : HearA[b] = <<>>
<1>1. \A b \in ABlocks : HearA[b] = InBlock(b)
  BY DEF HearA
<1>2. ASSUME NEW b \in TextA
      PROVE  HearA[b] = Words(b.text) /\ HearA[b] \in Seq(Things)
  <2>1. b \in ABlocks /\ b.type = "text" /\ b.text \in Texts
    BY DEF TextA, ABlocks, UserA
  <2>2. InBlock(b) = Words(b.text)
    BY <2>1 DEF InBlock
  <2>. QED
    BY <1>1, <2>1, <2>2, WordsFacts
<1>3. ASSUME NEW b \in ImageA PROVE HearA[b] = <<Picture>> /\ HearA[b] \in Seq(Things)
  <2>1. b \in ABlocks /\ b.type = "image"
    BY DEF ImageA, ABlocks, UserA
  <2>2. InBlock(b) = <<Picture>>
    BY <2>1 DEF InBlock
  <2>. QED
    BY <1>1, <2>1, <2>2, ThingsAre, OneThing
<1>4. ASSUME NEW b \in UseA PROVE HearA[b] = <<Called(b.id)>> /\ HearA[b] \in Seq(Things)
  <2>1. b \in ABlocks /\ b.type = "tool_use" /\ b.id \in Nat
    BY DEF UseA, ABlocks, AssistantA
  <2>2. InBlock(b) = <<Called(b.id)>>
    BY <2>1 DEF InBlock
  <2>. QED
    BY <1>1, <2>1, <2>2, ThingsAre, OneThing
<1>5. ASSUME NEW b \in ResultA
      PROVE  /\ HearA[b] = <<Returned(b.id, b.is_error \/ ReadsFailed(b.content.text))>>
             /\ HearA[b] \in Seq(Things)
  <2>1. b \in ABlocks /\ b.type = "tool_result" /\ b.id \in Nat
    BY DEF ResultA, ABlocks, UserA
  <2>2. InBlock(b) = <<Returned(b.id, b.is_error \/ ReadsFailed(b.content.text))>>
    BY <2>1 DEF InBlock
  <2> DEFINE e == b.is_error \/ ReadsFailed(b.content.text)
  <2>3. e \in BOOLEAN
    OBVIOUS
  <2> HIDE DEF e
  <2>4. Returned(b.id, e) \in Things
    BY <2>1, <2>3, ThingsAre
  <2>. QED
    BY <1>1, <2>1, <2>2, <2>4, OneThing DEF e
<1>6. ASSUME NEW b \in ThinkA \cup HiddenA PROVE HearA[b] = <<>> /\ HearA[b] \in Seq(Things)
  <2>1. b \in ABlocks /\ b.type \in {"thinking", "redacted_thinking"}
    BY DEF ThinkA, HiddenA, ABlocks, AssistantA
  <2>2. InBlock(b) = <<>>
    BY <2>1 DEF InBlock
  <2>3. <<>> \in Seq(Things)
    OBVIOUS
  <2>. QED
    BY <1>1, <2>1, <2>2, <2>3
<1>7. \A b \in ABlocks : b \in TextA \/ b \in ImageA \/ b \in ResultA \/ b \in ThinkA \cup HiddenA \/ b \in UseA
  BY DEF ABlocks, UserA, AssistantA
<1>8. IsMap(HearA, ABlocks, Things)
  BY <1>2, <1>3, <1>4, <1>5, <1>6, <1>7 DEF IsMap
<1>. QED
  BY <1>2, <1>3, <1>4, <1>5, <1>6, <1>8

-----------------------------------------------------------------------------
(***************************************************************************)
(* From Anthropic.                                                         *)
(***************************************************************************)
AToIR  == [b \in ABlocks |-> AnthropicBlockToIR(b)]
AMToIR == [m \in AnyA |-> Message(m.role, Each(AToIR, m.content))]

(* anthropicContentToIR, block by block,                                   *)
LEMMA AToIRFacts ==
    /\ \A b \in ABlocks : AToIR[b] = AnthropicBlockToIR(b)
    /\ \A b \in TextA : AToIR[b] = Text(b.text) /\ AToIR[b] \in TextC
    /\ \A b \in ImageA : AToIR[b] = Image /\ AToIR[b] \in ImageC
    /\ \A b \in ThinkA : AToIR[b] = Thinking(b.text, b.signature, NoRaw) /\ AToIR[b] \in ThinkC
    /\ \A b \in HiddenA : AToIR[b] = Thinking(<<>>, "", Raw("redacted_thinking", b.data)) /\ AToIR[b] \in ThinkC
    /\ \A b \in UseA : AToIR[b] = ToolUse(b.id, ArgumentsOr(b.input, "{}")) /\ AToIR[b] \in CallC
    /\ \A b \in ResultA : AToIR[b] = ToolResult(b.id, b.content, b.is_error) /\ AToIR[b] \in ResultC
<1>1. \A b \in ABlocks : AToIR[b] = AnthropicBlockToIR(b)
  BY DEF AToIR
<1>2. ASSUME NEW b \in TextA PROVE AToIR[b] = Text(b.text) /\ AToIR[b] \in TextC
  <2>1. b \in ABlocks /\ b.type = "text" /\ b.text \in Texts
    BY DEF TextA, ABlocks, UserA
  <2>2. AToIR[b] = Text(b.text)
    BY <1>1, <2>1 DEF AnthropicBlockToIR
  <2>. QED
    BY <2>1, <2>2 DEF Text, TextC
<1>3. ASSUME NEW b \in ImageA PROVE AToIR[b] = Image /\ AToIR[b] \in ImageC
  <2>1. b \in ABlocks /\ b.type = "image"
    BY DEF ImageA, ABlocks, UserA
  <2>2. AToIR[b] = Image
    BY <1>1, <2>1 DEF AnthropicBlockToIR
  <2>. QED
    BY <2>2 DEF Image, ImageC
<1>4. ASSUME NEW b \in ThinkA
      PROVE AToIR[b] = Thinking(b.text, b.signature, NoRaw) /\ AToIR[b] \in ThinkC
  <2>1. b \in ABlocks /\ b.type = "thinking" /\ b.text \in Texts /\ b.signature \in Marks
    BY DEF ThinkA, ABlocks, AssistantA
  <2>2. NoRaw \in Raws
    BY DEF NoRaw, Raw, Raws
  <2>3. AToIR[b] = Thinking(b.text, b.signature, NoRaw)
    BY <1>1, <2>1 DEF AnthropicBlockToIR
  <2>. QED
    BY <2>1, <2>2, <2>3 DEF Thinking, ThinkC
<1>5. ASSUME NEW b \in HiddenA
      PROVE AToIR[b] = Thinking(<<>>, "", Raw("redacted_thinking", b.data)) /\ AToIR[b] \in ThinkC
  <2>1. b \in ABlocks /\ b.type = "redacted_thinking" /\ b.data \in Nat
    BY DEF HiddenA, ABlocks, AssistantA
  <2>2. Raw("redacted_thinking", b.data) \in Raws
    BY <2>1 DEF Raw, Raws
  <2>3. AToIR[b] = Thinking(<<>>, "", Raw("redacted_thinking", b.data))
    BY <1>1, <2>1 DEF AnthropicBlockToIR
  <2>4. <<>> \in Seq(Nat)
    OBVIOUS
  <2>5. <<>> \in Texts /\ "" \in Marks
    BY <2>4 DEF Texts, Marks
  <2> DEFINE raw == Raw("redacted_thinking", b.data)
             none == <<>>
             sig == ""
  <2>6. /\ raw \in Raws /\ none \in Texts /\ sig \in Marks
        /\ AToIR[b] = Thinking(none, sig, raw)
    BY <2>2, <2>3, <2>5
  <2> HIDE DEF raw, none, sig
  <2>7. AToIR[b] \in ThinkC
    BY <2>6, BlocksAre
  <2>. QED
    BY <2>3, <2>7
<1>6. ASSUME NEW b \in UseA
      PROVE AToIR[b] = ToolUse(b.id, ArgumentsOr(b.input, "{}")) /\ AToIR[b] \in CallC
  <2>1. b \in ABlocks /\ b.type = "tool_use" /\ b.id \in Nat /\ b.input \in Args
    BY DEF UseA, ABlocks, AssistantA
  <2>2. AToIR[b] = ToolUse(b.id, ArgumentsOr(b.input, "{}"))
    BY <1>1, <2>1 DEF AnthropicBlockToIR
  <2>3. ArgumentsOr(b.input, "{}") \in Args
    BY <2>1 DEF ArgumentsOr, Args
  <2> DEFINE a == ArgumentsOr(b.input, "{}")
  <2>4. a \in Args /\ AToIR[b] = ToolUse(b.id, a)
    BY <2>2, <2>3
  <2> HIDE DEF a
  <2>5. AToIR[b] \in CallC
    BY <2>1, <2>4, BlocksAre
  <2>. QED
    BY <2>2, <2>5
<1>7. ASSUME NEW b \in ResultA
      PROVE AToIR[b] = ToolResult(b.id, b.content, b.is_error) /\ AToIR[b] \in ResultC
  <2>1. /\ b \in ABlocks /\ b.type = "tool_result" /\ b.id \in Nat /\ b.content \in Outs
        /\ b.is_error \in BOOLEAN /\ (b.is_error => ~b.content.json)
    BY DEF ResultA, ABlocks, UserA
  <2>2. AToIR[b] = ToolResult(b.id, b.content, b.is_error)
    BY <1>1, <2>1 DEF AnthropicBlockToIR
  <2>. QED
    BY <2>1, <2>2 DEF ToolResult, ResultC
<1>. QED
  BY <1>1, <1>2, <1>3, <1>4, <1>5, <1>6, <1>7

(* keeps what a reader finds.                                              *)
LEMMA AToIRHeard ==
    /\ IsFcn(AToIR, ABlocks, IRBlocks)
    /\ IsFcn(AToIR, UserA, UserC)
    /\ IsFcn(AToIR, AssistantA, AssistantC)
    /\ IsFcn(AToIR, TextA, TextC)
    /\ \A b \in ABlocks : HearC[AToIR[b]] = HearA[b]
<1>1. IsFcn(AToIR, UserA, UserC) /\ IsFcn(AToIR, AssistantA, AssistantC) /\ IsFcn(AToIR, TextA, TextC)
  BY AToIRFacts DEF IsFcn, UserA, UserC, AssistantA, AssistantC
<1>2. IsFcn(AToIR, ABlocks, IRBlocks)
  BY <1>1 DEF IsFcn, ABlocks, IRBlocks
<1>3. ASSUME NEW b \in TextA PROVE HearC[AToIR[b]] = HearA[b]
  <2>1. AToIR[b] = Text(b.text) /\ AToIR[b] \in TextC /\ HearA[b] = Words(b.text)
    BY AToIRFacts, HearAFacts
  <2>2. HearC[AToIR[b]] = Words(AToIR[b].text)
    BY <2>1, HearCFacts
  <2>. QED
    BY <2>1, <2>2 DEF Text
<1>4. \A b \in ImageA : HearC[AToIR[b]] = HearA[b]
  BY AToIRFacts, HearAFacts, HearCFacts
<1>5. ASSUME NEW b \in UseA PROVE HearC[AToIR[b]] = HearA[b]
  <2>1. /\ AToIR[b] = ToolUse(b.id, ArgumentsOr(b.input, "{}")) /\ AToIR[b] \in CallC
        /\ HearA[b] = <<Called(b.id)>>
    BY AToIRFacts, HearAFacts
  <2> DEFINE c == AToIR[b]
  <2>2. HearC[c] = <<Called(c.id)>>
    BY <2>1, HearCFacts
  <2>3. c.id = b.id
    <3>1. b.id \in Nat /\ b.input \in Args
      BY DEF UseA
    <3>2. ArgumentsOr(b.input, "{}") \in Args
      BY <3>1 DEF ArgumentsOr, Args
    <3> DEFINE a == ArgumentsOr(b.input, "{}")
    <3>3. a \in Args /\ c = ToolUse(b.id, a)
      BY <2>1, <3>2
    <3> HIDE DEF a
    <3>4. ToolUse(b.id, a).id = b.id
      BY <3>1, <3>3, BlocksAre
    <3>. QED
      BY <3>3, <3>4
  <2>. QED
    BY <2>1, <2>2, <2>3
<1>6. ASSUME NEW b \in ResultA PROVE HearC[AToIR[b]] = HearA[b]
  <2>1. /\ AToIR[b] = ToolResult(b.id, b.content, b.is_error) /\ AToIR[b] \in ResultC
        /\ HearA[b] = <<Returned(b.id, b.is_error \/ ReadsFailed(b.content.text))>>
    BY AToIRFacts, HearAFacts
  <2> DEFINE c == AToIR[b]
  <2>2. HearC[c] = <<Returned(c.id, c.is_error \/ ReadsFailed(c.out.text))>>
    BY <2>1, HearCFacts
  <2>3. c.id = b.id /\ c.is_error = b.is_error /\ c.out = b.content
    BY <2>1 DEF ToolResult
  <2>. QED
    BY <2>1, <2>2, <2>3
<1>7. \A b \in ThinkA \cup HiddenA : HearC[AToIR[b]] = HearA[b]
  BY AToIRFacts, HearAFacts, HearCFacts
<1>8. \A b \in ABlocks : b \in TextA \/ b \in ImageA \/ b \in ResultA \/ b \in ThinkA \cup HiddenA \/ b \in UseA
  BY DEF ABlocks, UserA, AssistantA
<1>. QED
  BY <1>1, <1>2, <1>3, <1>4, <1>5, <1>6, <1>7, <1>8

(* The front and the last element, taken off and put back.                 *)
LEMMA FrontLast ==
    ASSUME NEW A, NEW s \in Seq(A)
    PROVE  /\ \A x \in A : Append(s, x) # <<>> /\ Front(Append(s, x)) = s /\ Last(Append(s, x)) = x
           /\ s # <<>> => Front(s) \in Seq(A) /\ Last(s) \in A /\ s = Append(Front(s), Last(s))
<1>1. ASSUME NEW t \in Seq(A), NEW x \in A
      PROVE  Append(t, x) # <<>> /\ Front(Append(t, x)) = t /\ Last(Append(t, x)) = x
  <2> DEFINE a == Append(t, x)
             n == Len(t)
  <2>1. /\ n \in Nat /\ a \in Seq(A) /\ Len(a) = n + 1 /\ a[n + 1] = x
        /\ \A i \in 1..n : a[i] = t[i]
    BY LenProperties, AppendProperties
  <2> HIDE DEF a
  <2>2. a # <<>> /\ Last(a) = x
    BY <2>1 DEF Last
  <2>3. /\ SubSeq(a, 1, n) \in Seq(A) /\ Len(SubSeq(a, 1, n)) = n
        /\ \A i \in 1..n : SubSeq(a, 1, n)[i] = a[i]
    <3>1. 1 \in 1..Len(a) + 1 /\ n \in 0..Len(a) /\ n - 1 + 1 = n /\ \A i \in 1..n : 1 + i - 1 = i
      BY <2>1
    <3>2. \A i \in 1..n : a[1 + i - 1] = a[i]
      BY <3>1
    <3>3. /\ SubSeq(a, 1, n) \in Seq(A)
          /\ Len(SubSeq(a, 1, n)) = IF 1 <= n THEN n - 1 + 1 ELSE 0
          /\ \A i \in 1..n - 1 + 1 : SubSeq(a, 1, n)[i] = a[1 + i - 1]
      BY <2>1, <3>1, SubSeqProperties
    <3>. QED
      BY <2>1, <3>1, <3>2, <3>3
  <2>4. SubSeq(a, 1, n) = t
    BY <2>1, <2>3, SeqEqual
  <2>5. Front(a) = t
    BY <2>1, <2>4 DEF Front
  <2>. QED
    BY <2>2, <2>5 DEF a
<1>2. ASSUME s # <<>>
      PROVE  Front(s) \in Seq(A) /\ Last(s) \in A /\ s = Append(Front(s), Last(s))
  <2>1. PICK t \in Seq(A), x \in A : s = Append(t, x)
    BY <1>2, SequenceEmptyOrAppend
  <2>2. Front(s) = t /\ Last(s) = x
    BY <1>1, <2>1
  <2>. QED
    BY <2>1, <2>2
<1>. QED
  BY <1>1, <1>2

-----------------------------------------------------------------------------
(***************************************************************************)
(* The system messages at the head.                                        *)
(***************************************************************************)
AllSystem(s) == \A i \in DOMAIN s : s[i].role = "system"

(* splitSystem: the system messages at the head, and what begins with      *)
(* another.                                                                *)
LEMMA SplitFacts ==
    ASSUME NEW M
    PROVE  \A s \in Seq(M) :
              LET split == SplitSystem(s)
              IN  /\ split.system \in Seq(M) /\ split.rest \in Seq(M)
                  /\ split.system \o split.rest = s
                  /\ AllSystem(split.system)
                  /\ split.rest # <<>> => split.rest[1].role # "system"
<1> TAKE s \in Seq(M)
<1> DEFINE n == Len(s)
           Fits(k) == /\ \A i \in 1..k : s[i].role = "system"
                      /\ k < n => s[k + 1].role # "system"
           T == {k \in 0..n : k < n => s[k + 1].role # "system"}
<1>1. n \in Nat
  BY LenProperties
<1>2. \E k \in 0..n : Fits(k)
  <2>1. T \in SUBSET Nat /\ n \in T
    BY <1>1
  <2>2. PICK k \in T : \A l \in T : k <= l
    <3>1. T # {}
      BY <2>1
    <3> HIDE DEF T
    <3>. QED
      BY <2>1, <3>1, Least
  <2>3. ASSUME NEW i \in 1..k PROVE s[i].role = "system"
    <3>1. k \in 0..n
      BY <2>2
    <3>2. i - 1 \in 0..n /\ ~(k <= i - 1) /\ i - 1 < n /\ (i - 1) + 1 = i
      BY <1>1, <3>1
    <3>3. i - 1 \notin T
      BY <2>2, <3>2
    <3>. QED
      BY <3>2, <3>3
  <2>. QED
    BY <2>2, <2>3
<1>3. PICK k \in 0..n : /\ Fits(k)
                         /\ SplitSystem(s).system = SubSeq(s, 1, k)
                         /\ SplitSystem(s).rest = SubSeq(s, k + 1, n)
  <2> DEFINE l == CHOOSE l \in 0..n : Fits(l)
             x == SubSeq(s, 1, l)
             y == SubSeq(s, l + 1, n)
  <2>1. l \in 0..n /\ Fits(l)
    BY <1>2
  <2>2. SplitSystem(s) = [system |-> x, rest |-> y]
    BY DEF SplitSystem
  <2> HIDE DEF x, y
  <2>3. SplitSystem(s).system = x /\ SplitSystem(s).rest = y
    BY <2>2
  <2>. QED
    BY <2>1, <2>3 DEF x, y
<1> DEFINE a == SubSeq(s, 1, k)
           b == SubSeq(s, k + 1, n)
<1>5. /\ a \in Seq(M) /\ Len(a) = k /\ \A i \in 1..k : a[i] = s[i]
      /\ b \in Seq(M) /\ Len(b) = n - k /\ \A i \in 1..n - k : b[i] = s[k + i]
  <2>1. k \in Nat /\ 1 \in 1..n + 1 /\ k \in 0..n /\ k + 1 \in 1..n + 1 /\ n \in 0..n
    BY <1>1, <1>3
  <2> HIDE DEF n
  <2>2. /\ a \in Seq(M) /\ Len(a) = IF 1 <= k THEN k - 1 + 1 ELSE 0
        /\ \A i \in 1..k - 1 + 1 : a[i] = s[1 + i - 1]
    BY <2>1, SubSeqProperties DEF n
  <2>3. /\ b \in Seq(M) /\ Len(b) = IF k + 1 <= n THEN n - (k + 1) + 1 ELSE 0
        /\ \A i \in 1..n - (k + 1) + 1 : b[i] = s[(k + 1) + i - 1]
    BY <2>1, SubSeqProperties DEF n
  <2> HIDE DEF a, b
  <2>4. n - (k + 1) + 1 = n - k /\ k - 1 + 1 = k /\ \A i \in Nat : 1 + i - 1 = i /\ (k + 1) + i - 1 = k + i
    BY <1>1, <2>1
  <2>5. (\A i \in 1..k : a[i] = s[i]) /\ \A i \in 1..n - k : b[i] = s[k + i]
    <3>1. \A i \in 1..k : i \in Nat /\ i \in 1..k - 1 + 1
      BY <2>1
    <3>2. \A i \in 1..n - k : i \in Nat /\ i \in 1..n - (k + 1) + 1
      BY <1>1, <2>1
    <3>3. ASSUME NEW i \in 1..k PROVE a[i] = s[i]
      <4>1. a[i] = s[1 + i - 1] /\ 1 + i - 1 = i
        BY <2>2, <2>4, <3>1
      <4>. QED
        BY <4>1
    <3>4. ASSUME NEW i \in 1..n - k PROVE b[i] = s[k + i]
      <4>1. b[i] = s[(k + 1) + i - 1] /\ (k + 1) + i - 1 = k + i
        BY <2>3, <2>4, <3>2
      <4>. QED
        BY <4>1
    <3>. QED
      BY <3>3, <3>4
  <2>6. Len(a) = k /\ Len(b) = n - k
    BY <1>1, <2>1, <2>2, <2>3
  <2>. QED
    BY <2>2, <2>3, <2>5, <2>6
<1>6. a \o b = s
  <2>1. 1 \in 1..n + 1 /\ k \in 1 - 1..n /\ n \in k..n /\ k \in 0..n
    BY <1>1, <1>3
  <2>2. SubSeq(s, 1, n) = s
    BY SubSeqFull
  <2>3. a \o b = SubSeq(s, 1, n)
    <3> HIDE DEF n
    <3>. QED
      BY <2>1, ConcatAdjacentSubSeq DEF n
  <2>. QED
    BY <2>2, <2>3
<1>7. AllSystem(a)
  <2> HIDE DEF a
  <2>1. DOMAIN a = 1..k
    BY <1>5
  <2>. QED
    BY <1>3, <1>5, <2>1 DEF AllSystem
<1>8. b # <<>> => b[1].role # "system"
  <2> SUFFICES ASSUME b # <<>> PROVE b[1].role # "system"
    OBVIOUS
  <2> HIDE DEF b
  <2>1. Len(b) # 0
    BY <1>5, EmptySeq
  <2>2. k < n /\ 1 \in 1..n - k
    BY <1>1, <1>3, <1>5, <2>1
  <2>. QED
    BY <1>3, <1>5, <2>2
<1>9. SplitSystem(s).system = a /\ SplitSystem(s).rest = b
  BY <1>3
<1> HIDE DEF a, b
<1>. QED
  BY <1>5, <1>6, <1>7, <1>8, <1>9

(* There is only one way to split them.                                    *)
LEMMA SplitUnique ==
    ASSUME NEW M, NEW a \in Seq(M), NEW b \in Seq(M), NEW c \in Seq(M), NEW d \in Seq(M),
           a \o b = c \o d, AllSystem(a), AllSystem(c),
           b # <<>> => b[1].role # "system", d # <<>> => d[1].role # "system"
    PROVE  a = c /\ b = d
<1> DEFINE s == a \o b
           m == Len(a)
           n == Len(c)
<1>1. /\ m \in Nat /\ n \in Nat /\ Len(b) \in Nat /\ Len(d) \in Nat
      /\ Len(s) = m + Len(b) /\ Len(s) = n + Len(d)
      /\ \A i \in 1..m : s[i] = a[i] /\ s[i].role = "system"
      /\ \A i \in 1..n : s[i] = c[i] /\ s[i].role = "system"
      /\ \A i \in 1..Len(b) : s[m + i] = b[i]
      /\ \A i \in 1..Len(d) : s[n + i] = d[i]
  <2>1. m \in Nat /\ n \in Nat /\ Len(b) \in Nat /\ Len(d) \in Nat /\ DOMAIN a = 1..m /\ DOMAIN c = 1..n
    BY LenProperties
  <2>2. /\ Len(a \o b) = m + Len(b) /\ (\A i \in 1..m : (a \o b)[i] = a[i])
        /\ \A i \in 1..Len(b) : (a \o b)[m + i] = b[i]
    <3>1. /\ Len(a \o b) = Len(a) + Len(b)
          /\ \A i \in 1..Len(a) + Len(b) : (a \o b)[i] = IF i <= Len(a) THEN a[i] ELSE b[i - Len(a)]
      BY ConcatProperties
    <3>2. \A i \in 1..m : i \in 1..m + Len(b) /\ i <= m
      BY <2>1
    <3>3. \A i \in 1..Len(b) : m + i \in 1..m + Len(b) /\ ~(m + i <= m) /\ (m + i) - m = i
      BY <2>1
    <3>. QED
      BY <3>1, <3>2, <3>3
  <2>3. /\ Len(c \o d) = n + Len(d) /\ (\A i \in 1..n : (c \o d)[i] = c[i])
        /\ \A i \in 1..Len(d) : (c \o d)[n + i] = d[i]
    <3>1. /\ Len(c \o d) = Len(c) + Len(d)
          /\ \A i \in 1..Len(c) + Len(d) : (c \o d)[i] = IF i <= Len(c) THEN c[i] ELSE d[i - Len(c)]
      BY ConcatProperties
    <3>2. \A i \in 1..n : i \in 1..n + Len(d) /\ i <= n
      BY <2>1
    <3>3. \A i \in 1..Len(d) : n + i \in 1..n + Len(d) /\ ~(n + i <= n) /\ (n + i) - n = i
      BY <2>1
    <3>. QED
      BY <3>1, <3>2, <3>3
  <2>4. (\A i \in 1..m : a[i].role = "system") /\ (\A i \in 1..n : c[i].role = "system")
    BY <2>1 DEF AllSystem
  <2>5. s = a \o b /\ s = c \o d
    OBVIOUS
  <2> HIDE DEF s, m, n
  <2>6. /\ Len(s) = m + Len(b) /\ (\A i \in 1..m : s[i] = a[i])
        /\ \A i \in 1..Len(b) : s[m + i] = b[i]
    BY <2>2, <2>5
  <2>7. /\ Len(s) = n + Len(d) /\ (\A i \in 1..n : s[i] = c[i])
        /\ \A i \in 1..Len(d) : s[n + i] = d[i]
    BY <2>3, <2>5
  <2>. QED
    BY <2>1, <2>4, <2>6, <2>7
<1> HIDE DEF s
<1>2. m = n
  <2>1. ~(m < n)
    <3> SUFFICES ASSUME m < n PROVE FALSE
      OBVIOUS
    <3>1. 1 \in 1..Len(b) /\ m + 1 \in 1..n
      BY <1>1
    <3>2. b # <<>> /\ b[1] = s[m + 1] /\ s[m + 1].role = "system"
      BY <1>1, <3>1
    <3>. QED
      BY <3>2
  <2>2. ~(n < m)
    <3> SUFFICES ASSUME n < m PROVE FALSE
      OBVIOUS
    <3>1. 1 \in 1..Len(d) /\ n + 1 \in 1..m
      BY <1>1
    <3>2. d # <<>> /\ d[1] = s[n + 1] /\ s[n + 1].role = "system"
      BY <1>1, <3>1
    <3>. QED
      BY <3>2
  <2>. QED
    BY <1>1, <2>1, <2>2
<1>3. a = c
  <2>1. \A i \in 1..m : a[i] = c[i]
    BY <1>1, <1>2
  <2>. QED
    BY <1>2, <2>1, SeqEqual
<1>4. b = d
  <2>1. Len(b) = Len(d)
    BY <1>1, <1>2
  <2>2. \A i \in 1..Len(b) : b[i] = d[i]
    BY <1>1, <1>2, <2>1
  <2>. QED
    BY <2>1, <2>2, SeqEqual
<1>. QED
  BY <1>3, <1>4

(* Which types are part of which.                                          *)
LEMMA TypesFacts ==
    /\ IRMessages \subseteq AnyIR /\ AMessages \subseteq AnyA
    /\ TextC \subseteq IRBlocks /\ UserC \subseteq IRBlocks /\ AssistantC \subseteq IRBlocks
    /\ ResultC \subseteq IRBlocks /\ TextA \subseteq ABlocks
    /\ Seq(TextC) \subseteq Seq(IRBlocks) /\ Seq(UserC) \subseteq Seq(IRBlocks)
    /\ Seq(AssistantC) \subseteq Seq(IRBlocks) /\ Seq(ResultC) \subseteq Seq(IRBlocks)
    /\ Seq(TextA) \subseteq Seq(ABlocks) /\ Seq(UserA) \subseteq Seq(ABlocks)
    /\ Seq(AssistantA) \subseteq Seq(ABlocks)
    /\ Seq(AMessages) \subseteq Seq(AnyA) /\ Seq(IRMessages) \subseteq Seq(AnyIR)
<1>1. /\ TextC \subseteq IRBlocks /\ UserC \subseteq IRBlocks /\ AssistantC \subseteq IRBlocks
      /\ ResultC \subseteq IRBlocks
  BY DEF IRBlocks, UserC, AssistantC
<1>2. TextA \subseteq ABlocks /\ UserA \subseteq ABlocks /\ AssistantA \subseteq ABlocks
  BY DEF ABlocks, UserA, AssistantA
<1>3. /\ Seq(TextC) \subseteq Seq(IRBlocks) /\ Seq(UserC) \subseteq Seq(IRBlocks)
      /\ Seq(AssistantC) \subseteq Seq(IRBlocks) /\ Seq(ResultC) \subseteq Seq(IRBlocks)
      /\ Seq(TextA) \subseteq Seq(ABlocks) /\ Seq(UserA) \subseteq Seq(ABlocks)
      /\ Seq(AssistantA) \subseteq Seq(ABlocks)
  BY <1>1, <1>2, SeqOfMore
<1>4. IRMessages \subseteq AnyIR
  <2> DEFINE T == Seq(TextC)
             U == Seq(UserC)
             S == Seq(AssistantC)
             R == Seq(ResultC)
             X == Seq(IRBlocks)
  <2>1. T \subseteq X /\ U \subseteq X /\ S \subseteq X /\ R \subseteq X
    BY <1>3
  <2> HIDE DEF T, U, S, R, X
  <2>2. [role : {"system"}, content : T] \cup [role : {"user"}, content : U]
        \cup [role : {"assistant"}, content : S] \cup [role : {"tool"}, content : R]
        \subseteq [role : Roles, content : X]
    BY <2>1 DEF Roles
  <2>. QED
    BY <2>2 DEF IRMessages, AnyIR, T, U, S, R, X
<1>5. AMessages \subseteq AnyA
  <2> DEFINE T == Seq(TextA)
             U == Seq(UserA)
             S == Seq(AssistantA)
             X == Seq(ABlocks)
  <2>1. T \subseteq X /\ U \subseteq X /\ S \subseteq X
    BY <1>3
  <2> HIDE DEF T, U, S, X
  <2>2. [role : {"system"}, content : T] \cup [role : {"user"}, content : U]
        \cup [role : {"assistant"}, content : S]
        \subseteq [role : Roles, content : X]
    BY <2>1 DEF Roles
  <2>. QED
    BY <2>2 DEF AMessages, AnyA, T, U, S, X
<1>6. Seq(AMessages) \subseteq Seq(AnyA) /\ Seq(IRMessages) \subseteq Seq(AnyIR)
  BY <1>4, <1>5, SeqOfMore
<1>. QED
  BY <1>1, <1>2, <1>3, <1>4, <1>5, <1>6

(* A message has the role and the content it is made of.                   *)
LEMMA MessageFacts ==
    \A r, c : Message(r, c).role = r /\ Message(r, c).content = c
  BY DEF Message

(* Messages of any content, taken apart and made.                          *)
LEMMA AnyFacts ==
    /\ \A m \in AnyIR : m.role \in Roles /\ m.content \in Seq(IRBlocks)
    /\ \A m \in AnyA : m.role \in Roles /\ m.content \in Seq(ABlocks)
    /\ \A r \in Roles, c \in Seq(IRBlocks) : Message(r, c) \in AnyIR
    /\ \A r \in Roles, c \in Seq(ABlocks) : Message(r, c) \in AnyA
<1> DEFINE S == Seq(IRBlocks)
           T == Seq(ABlocks)
<1>1. AnyIR = [role : Roles, content : S] /\ AnyA = [role : Roles, content : T]
  BY DEF AnyIR, AnyA
<1> HIDE DEF S, T
<1>2. /\ \A m \in AnyIR : m.role \in Roles /\ m.content \in S
      /\ \A m \in AnyA : m.role \in Roles /\ m.content \in T
      /\ \A r \in Roles, c \in S : Message(r, c) \in AnyIR
      /\ \A r \in Roles, c \in T : Message(r, c) \in AnyA
  BY <1>1 DEF Message
<1>. QED
  BY <1>2 DEF S, T

(* What is heard of a message is what is heard of its blocks.              *)
LEMMA HearMFacts ==
    /\ IsMap(HearM, AnyIR, Things) /\ IsMap(HearAM, AnyA, Things)
    /\ \A m \in AnyIR : HearM[m] = Mapped(HearC, m.content)
    /\ \A m \in AnyA : HearAM[m] = Mapped(HearA, m.content)
<1>1. /\ \A m \in AnyIR : HearM[m] = Mapped(HearC, m.content)
      /\ \A m \in AnyA : HearAM[m] = Mapped(HearA, m.content)
  BY DEF HearM, HearAM
<1>2. \A s \in Seq(IRBlocks) : Mapped(HearC, s) \in Seq(Things)
  BY HearCFacts, MappedFacts
<1>3. \A s \in Seq(ABlocks) : Mapped(HearA, s) \in Seq(Things)
  BY HearAFacts, MappedFacts
<1>4. IsMap(HearM, AnyIR, Things) /\ IsMap(HearAM, AnyA, Things)
  <2>1. \A m \in AnyIR : HearM[m] \in Seq(Things)
    BY <1>1, <1>2, AnyFacts
  <2>2. \A m \in AnyA : HearAM[m] \in Seq(Things)
    BY <1>1, <1>3, AnyFacts
  <2>. QED
    BY <2>1, <2>2 DEF IsMap
<1>. QED
  BY <1>1, <1>4

(* A history in Anthropic's protocol, heard there and in the IR.           *)
LEMMA BlocksHeard ==
    \A s \in Seq(ABlocks) : FlatMap(InBlock, s) = Mapped(HearA, s)
<1> TAKE s \in Seq(ABlocks)
<1>1. \A i \in DOMAIN s : s[i] \in ABlocks
  BY ElementOfSeq, LenProperties
<1>2. [i \in DOMAIN s |-> InBlock(s[i])] = [i \in DOMAIN s |-> HearA[s[i]]]
  BY <1>1 DEF HearA
<1>. QED
  BY <1>2 DEF FlatMap, MapSeq, Mapped

(* so is what a reader finds in an Anthropic history.                      *)
LEMMA AHistoryHeard ==
    \A h \in Seq(AnyA) : InHistory("anthropic", h) = Mapped(HearAM, h)
<1> TAKE h \in Seq(AnyA)
<1>1. \A i \in DOMAIN h : h[i] \in AnyA
  BY ElementOfSeq, LenProperties
<1>2. \A i \in DOMAIN h : FlatMap(InBlock, h[i].content) = HearAM[h[i]]
  BY <1>1, BlocksHeard, AnyFacts, HearMFacts
<1>3. [i \in DOMAIN h |-> FlatMap(InBlock, h[i].content)] = [i \in DOMAIN h |-> HearAM[h[i]]]
  BY <1>2
<1>. QED
  BY <1>3 DEF InHistory, FlatMap, MapSeq, Mapped

(* anthropicContentToIR over a sequence takes it block by block,           *)
LEMMA BlocksToIR ==
    \A s \in Seq(ABlocks) : MapSeq(AnthropicBlockToIR, s) = Each(AToIR, s)
<1> TAKE s \in Seq(ABlocks)
<1>1. \A i \in DOMAIN s : s[i] \in ABlocks
  BY ElementOfSeq, LenProperties
<1>2. [i \in DOMAIN s |-> AnthropicBlockToIR(s[i])] = [i \in DOMAIN s |-> AToIR[s[i]]]
  BY <1>1 DEF AToIR
<1>. QED
  BY <1>2 DEF MapSeq, Each

(* anthropicRequest.ToIR its messages one by one,                          *)
LEMMA AMToIRFacts ==
    /\ IsFcn(AMToIR, AnyA, AnyIR) /\ IsFcn(AMToIR, AMessages, IRMessages)
    /\ \A m \in AnyA : AMToIR[m] = Message(m.role, Each(AToIR, m.content))
    /\ \A m \in AnyA : HearM[AMToIR[m]] = HearAM[m]
<1>1. \A m \in AnyA : AMToIR[m] = Message(m.role, Each(AToIR, m.content))
  BY DEF AMToIR
<1>2. /\ \A s \in Seq(ABlocks) : Each(AToIR, s) \in Seq(IRBlocks)
      /\ \A s \in Seq(UserA) : Each(AToIR, s) \in Seq(UserC)
      /\ \A s \in Seq(AssistantA) : Each(AToIR, s) \in Seq(AssistantC)
      /\ \A s \in Seq(TextA) : Each(AToIR, s) \in Seq(TextC)
  BY AToIRHeard, EachFacts
<1>3. \A m \in AnyA : AMToIR[m] \in AnyIR
  BY <1>1, <1>2, AnyFacts
<1>4. ASSUME NEW m \in AMessages PROVE AMToIR[m] \in IRMessages
  <2> DEFINE c == m.content
             d == Each(AToIR, c)
  <2>0. AMToIR[m] = [role |-> m.role, content |-> d]
    BY <1>1, TypesFacts DEF Message
  <2>1. \/ m.role = "system" /\ c \in Seq(TextA)
        \/ m.role = "user" /\ c \in Seq(UserA)
        \/ m.role = "assistant" /\ c \in Seq(AssistantA)
    BY DEF AMessages
  <2>2. \/ m.role = "system" /\ d \in Seq(TextC)
        \/ m.role = "user" /\ d \in Seq(UserC)
        \/ m.role = "assistant" /\ d \in Seq(AssistantC)
    BY <1>2, <2>1
  <2> HIDE DEF c, d
  <2>. QED
    BY <2>0, <2>2 DEF IRMessages
<1>5. \A s \in Seq(ABlocks) : Mapped(HearC, Each(AToIR, s)) = Mapped(HearA, s)
  <2>1. \A b \in ABlocks : HearA[b] = HearC[AToIR[b]]
    BY AToIRHeard
  <2>2. IsFcn(AToIR, ABlocks, IRBlocks)
    BY AToIRHeard
  <2>. QED
    BY <2>1, <2>2, EachThenMapped
<1>6. ASSUME NEW m \in AnyA PROVE HearM[AMToIR[m]] = HearAM[m]
  <2>1. AMToIR[m].content = Each(AToIR, m.content)
    BY <1>1, MessageFacts
  <2>. QED
    BY <1>3, <1>5, <2>1, AnyFacts, HearMFacts
<1>7. IsFcn(AMToIR, AnyA, AnyIR) /\ IsFcn(AMToIR, AMessages, IRMessages)
  BY <1>3, <1>4 DEF IsFcn
<1>. QED
  BY <1>1, <1>6, <1>7

(* and nothing is lost of a history of them.                               *)
LEMMA AMessagesToIR ==
    \A h \in Seq(AnyA) :
       /\ MapSeq(LAMBDA m : Message(m.role, MapSeq(AnthropicBlockToIR, m.content)), h) = Each(AMToIR, h)
       /\ Each(AMToIR, h) \in Seq(AnyIR)
       /\ h \in Seq(AMessages) => Each(AMToIR, h) \in Seq(IRMessages)
       /\ Mapped(HearM, Each(AMToIR, h)) = Mapped(HearAM, h)
<1> TAKE h \in Seq(AnyA)
<1>1. \A i \in DOMAIN h : h[i] \in AnyA
  BY ElementOfSeq, LenProperties
<1>2. \A i \in DOMAIN h : Message(h[i].role, MapSeq(AnthropicBlockToIR, h[i].content)) = AMToIR[h[i]]
  BY <1>1, BlocksToIR, AnyFacts, AMToIRFacts
<1>3. [i \in DOMAIN h |-> Message(h[i].role, MapSeq(AnthropicBlockToIR, h[i].content))]
      = [i \in DOMAIN h |-> AMToIR[h[i]]]
  BY <1>2
<1>4. MapSeq(LAMBDA m : Message(m.role, MapSeq(AnthropicBlockToIR, m.content)), h) = Each(AMToIR, h)
  BY <1>3 DEF MapSeq, Each
<1>5. Each(AMToIR, h) \in Seq(AnyIR) /\ (h \in Seq(AMessages) => Each(AMToIR, h) \in Seq(IRMessages))
  BY AMToIRFacts, EachFacts
<1>6. Mapped(HearM, Each(AMToIR, h)) = Mapped(HearAM, h)
  <2>1. IsFcn(AMToIR, AnyA, AnyIR) /\ \A m \in AnyA : HearAM[m] = HearM[AMToIR[m]]
    BY AMToIRFacts
  <2>. QED
    BY <2>1, EachThenMapped
<1>. QED
  BY <1>4, <1>5, <1>6

(* anthropicRequest.ToIR: what was heard in the request is in the IR.      *)
LEMMA AToIRRequest ==
    ASSUME NEW w, w.messages \in Seq(AnyA), w.system \in Seq(TextA)
    PROVE  LET r == AnthropicRequestToIR(w)
           IN  /\ r.messages = Each(AMToIR, w.messages)
               /\ r.system = Each(AToIR, w.system)
               /\ r.system \in Seq(TextC)
               /\ HeardIR(r) = Heard("anthropic", w)
<1> DEFINE r == AnthropicRequestToIR(w)
<1>1. r.messages = Each(AMToIR, w.messages)
  <2>1. r.messages = MapSeq(LAMBDA m : Message(m.role, MapSeq(AnthropicBlockToIR, m.content)), w.messages)
    BY DEF AnthropicRequestToIR
  <2>. QED
    BY <2>1, AMessagesToIR
<1>2. r.system = Each(AToIR, w.system)
  <2>1. r.system = MapSeq(AnthropicBlockToIR, w.system)
    BY DEF AnthropicRequestToIR
  <2>. QED
    BY <2>1, BlocksToIR, TypesFacts
<1>3. Each(AToIR, w.system) \in Seq(TextC)
  BY AToIRHeard, EachFacts
<1>4. Mapped(HearC, Each(AToIR, w.system)) = Mapped(HearA, w.system)
  <2>1. IsFcn(AToIR, ABlocks, IRBlocks) /\ \A b \in ABlocks : HearA[b] = HearC[AToIR[b]]
    BY AToIRHeard
  <2>2. w.system \in Seq(ABlocks)
    BY TypesFacts
  <2>. QED
    BY <2>1, <2>2, EachThenMapped
<1>5. Mapped(HearM, Each(AMToIR, w.messages)) = InHistory("anthropic", w.messages)
  BY AMessagesToIR, AHistoryHeard
<1>6. InSystem("anthropic", w) = Mapped(HearA, w.system) /\ History("anthropic", w) = w.messages
  <2>1. FlatMap(InBlock, w.system) = Mapped(HearA, w.system)
    BY BlocksHeard, TypesFacts
  <2>. QED
    BY <2>1 DEF InSystem, History
<1> HIDE DEF r
<1>7. HeardIR(r) = Heard("anthropic", w)
  BY <1>1, <1>2, <1>4, <1>5, <1>6 DEF HeardIR, Heard
<1>. QED
  BY <1>1, <1>2, <1>3, <1>7 DEF r

-----------------------------------------------------------------------------
(***************************************************************************)
(* Elements that are all of a kind.                                        *)
(***************************************************************************)

(* A sequence of the elements it has.                                      *)
LEMMA SeqOfElements ==
    ASSUME NEW A, NEW s \in Seq(A), NEW B, \A i \in DOMAIN s : s[i] \in B
    PROVE  s \in Seq(B)
<1>1. Len(s) \in Nat /\ s \in [1..Len(s) -> A] /\ DOMAIN s = 1..Len(s)
  BY LenProperties
<1>2. s \in [1..Len(s) -> B]
  BY <1>1
<1>. QED
  BY <1>1, <1>2, SeqDef

(* Mapping each element to itself changes nothing;                         *)
LEMMA EachItself ==
    ASSUME NEW A, NEW g, \A x \in A : g[x] = x
    PROVE  \A s \in Seq(A) : Each(g, s) = s
<1> TAKE s \in Seq(A)
<1>1. s \in [1..Len(s) -> A] /\ DOMAIN s = 1..Len(s)
  BY LenProperties
<1>. QED
  BY <1>1 DEF Each

(* neither does mapping it to itself alone.                                *)
LEMMA MappedItself ==
    ASSUME NEW A, NEW f, \A x \in A : f[x] = <<x>>
    PROVE  \A s \in Seq(A) : Mapped(f, s) = s
<1> DEFINE g == [x \in A |-> x]
<1>1. IsFcn(g, A, A) /\ \A s \in Seq(A) : Each(g, s) = s
  BY EachItself DEF IsFcn
<1>2. \A x \in A : Singly(g, A)[x] = f[x]
  BY DEF Singly
<1>3. \A s \in Seq(A) : Each(g, s) = Mapped(Singly(g, A), s)
  <2> HIDE DEF g
  <2>. QED
    BY <1>1, EachIsMapped
<1>4. ASSUME NEW s \in Seq(A) PROVE Mapped(Singly(g, A), s) = Mapped(f, s)
  <2> DEFINE h == Singly(g, A)
  <2> HIDE DEF h
  <2>1. \A x \in A : h[x] = f[x]
    BY <1>2 DEF h
  <2>2. Mapped(h, s) = Mapped(f, s)
    BY <2>1, MappedSame
  <2>. QED
    BY <2>2 DEF h
<1>. QED
  BY <1>1, <1>3, <1>4

(* Mapping all to nothing leaves nothing.                                  *)
LEMMA MappedNothing ==
    ASSUME NEW A, NEW f, \A x \in A : f[x] = <<>>
    PROVE  \A s \in Seq(A) : Mapped(f, s) = <<>>
<1> DEFINE P == {s \in Seq(A) : Mapped(f, s) = <<>>}
<1>0. /\ Mapped(f, <<>>) = <<>>
      /\ \A r \in Seq(A), x \in A : Mapped(f, Append(r, x)) = Mapped(f, r) \o f[x]
  <2>1. IsMap(f, A, {})
    <3>1. <<>> \in Seq({})
      OBVIOUS
    <3>. QED
      BY <3>1 DEF IsMap
  <2>. QED
    BY <2>1, MappedFacts
<1>1. <<>> \in P
  BY <1>0
<1>2. ASSUME NEW s \in Seq(A), s \in P, NEW x \in A PROVE Append(s, x) \in P
  <2>1. Append(s, x) \in Seq(A)
    BY AppendProperties
  <2>2. Mapped(f, Append(s, x)) = <<>> \o <<>>
    BY <1>0, <1>2
  <2>3. <<>> \o <<>> = <<>>
    OBVIOUS
  <2>. QED
    BY <2>1, <2>2, <2>3
<1> HIDE DEF P
<1>3. Seq(A) \subseteq P
  BY <1>1, <1>2, SeqInduction
<1>. QED
  BY <1>3 DEF P

(* Selections that keep all,                                               *)
LEMMA KeepAll ==
    ASSUME NEW A, NEW K, \A c \in A : c.kind \in K
    PROVE  \A s \in Seq(A) : OfKinds(K, s) = s
<1>1. \A c \in A : Keep(A, K)[c] = <<c>>
  BY OfKindsIsMapped
<1>2. \A s \in Seq(A) : OfKinds(K, s) = Mapped(Keep(A, K), s)
  BY OfKindsIsMapped
<1>3. \A s \in Seq(A) : Mapped(Keep(A, K), s) = s
  BY <1>1, MappedItself
<1>. QED
  BY <1>2, <1>3

(* or nothing.                                                             *)
LEMMA KeepNone ==
    ASSUME NEW A, NEW K, \A c \in A : c.kind \notin K
    PROVE  \A s \in Seq(A) : OfKinds(K, s) = <<>>
<1>1. \A c \in A : Keep(A, K)[c] = <<>>
  BY OfKindsIsMapped
<1>2. \A s \in Seq(A) : OfKinds(K, s) = Mapped(Keep(A, K), s)
  BY OfKindsIsMapped
<1>3. \A s \in Seq(A) : Mapped(Keep(A, K), s) = <<>>
  BY <1>1, MappedNothing
<1>. QED
  BY <1>2, <1>3

-----------------------------------------------------------------------------
(***************************************************************************)
(* To Anthropic.                                                           *)
(***************************************************************************)
AFromIR == [c \in IRBlocks |-> IRBlockToAnthropic(c)]
AMFromIR == [m \in AnyIR |-> Message(IF m.role = "tool" THEN "user" ELSE m.role, Mapped(AFromIR, m.content))]
MergeF  == [p \in Seq(AnyA) \X AnyA |-> MergeNext(p[1], p[2])]

(* irContentToAnthropic keeps what a reader finds in a block.              *)
LEMMA AFromIRFacts ==
    /\ IsMap(AFromIR, IRBlocks, ABlocks)
    /\ \A c \in IRBlocks : AFromIR[c] = IRBlockToAnthropic(c)
    /\ \A c \in IRBlocks : Mapped(HearA, AFromIR[c]) = HearC[c]
<1>1. \A c \in IRBlocks : AFromIR[c] = IRBlockToAnthropic(c)
  BY DEF AFromIR
<1>0. Mapped(HearA, <<>>) = <<>> /\ \A b \in ABlocks : Mapped(HearA, <<b>>) = HearA[b]
  BY HearAFacts, MappedFacts
<1>2. ASSUME NEW c \in TextC
      PROVE  AFromIR[c] \in Seq(ABlocks) /\ Mapped(HearA, AFromIR[c]) = HearC[c]
  <2> DEFINE b == [type |-> "text", text |-> c.text]
  <2>1. c \in IRBlocks /\ c.kind = "text" /\ c.text \in Texts
    BY DEF TextC, IRBlocks, UserC
  <2>2. AFromIR[c] = <<b>>
    BY <1>1, <2>1 DEF IRBlockToAnthropic
  <2>3. b \in TextA /\ b \in ABlocks /\ b.text = c.text
    BY <2>1 DEF TextA, ABlocks, UserA
  <2> HIDE DEF b
  <2>. QED
    BY <1>0, <2>2, <2>3, HearCFacts, HearAFacts, OneThing
<1>3. ASSUME NEW c \in ImageC
      PROVE  AFromIR[c] \in Seq(ABlocks) /\ Mapped(HearA, AFromIR[c]) = HearC[c]
  <2> DEFINE b == [type |-> "image"]
  <2>1. c \in IRBlocks /\ c.kind = "image"
    BY DEF ImageC, IRBlocks, UserC
  <2>2. AFromIR[c] = <<b>>
    BY <1>1, <2>1 DEF IRBlockToAnthropic
  <2>3. b \in ImageA /\ b \in ABlocks
    BY <2>1 DEF ImageA, ABlocks, UserA
  <2> HIDE DEF b
  <2>. QED
    BY <1>0, <2>2, <2>3, HearCFacts, HearAFacts, OneThing
<1>4. ASSUME NEW c \in CallC
      PROVE  AFromIR[c] \in Seq(ABlocks) /\ Mapped(HearA, AFromIR[c]) = HearC[c]
  <2> DEFINE b == [type |-> "tool_use", id |-> c.id, input |-> c.input]
  <2>1. c \in IRBlocks /\ c.kind = "tool_use" /\ c.id \in Nat /\ c.input \in Args
    BY DEF CallC, IRBlocks, AssistantC
  <2>2. AFromIR[c] = <<b>>
    BY <1>1, <2>1 DEF IRBlockToAnthropic
  <2>3. b \in UseA /\ b \in ABlocks /\ b.id = c.id
    BY <2>1 DEF UseA, ABlocks, AssistantA
  <2> HIDE DEF b
  <2>. QED
    BY <1>0, <2>2, <2>3, HearCFacts, HearAFacts, OneThing
<1>5. ASSUME NEW c \in ResultC
      PROVE  AFromIR[c] \in Seq(ABlocks) /\ Mapped(HearA, AFromIR[c]) = HearC[c]
  <2> DEFINE out == AnthropicOutput(c.out)
             b == [type |-> "tool_result", id |-> c.id, is_error |-> c.is_error, content |-> out]
  <2>1. /\ c \in IRBlocks /\ c.kind = "tool_result" /\ c.id \in Nat /\ c.is_error \in BOOLEAN
        /\ c.out \in Outs
    BY DEF ResultC, IRBlocks, UserC
  <2>2. AFromIR[c] = <<b>>
    BY <1>1, <2>1 DEF IRBlockToAnthropic
  <2>3. out \in Outs /\ out.json = FALSE /\ out.text = c.out.text
    BY <2>1 DEF AnthropicOutput, Outs
  <2> HIDE DEF out
  <2>4. b \in ResultA /\ b \in ABlocks
    BY <2>1, <2>3 DEF ResultA, ABlocks, UserA
  <2>5. b.id = c.id /\ b.is_error = c.is_error /\ b.content = out
    OBVIOUS
  <2> HIDE DEF b
  <2>6. HearA[b] = <<Returned(b.id, b.is_error \/ ReadsFailed(b.content.text))>>
    BY <2>4, HearAFacts
  <2>7. HearC[c] = <<Returned(c.id, c.is_error \/ ReadsFailed(c.out.text))>>
    BY HearCFacts
  <2>. QED
    BY <1>0, <2>2, <2>3, <2>4, <2>5, <2>6, <2>7, OneThing
<1>6. ASSUME NEW c \in ThinkC
      PROVE  AFromIR[c] \in Seq(ABlocks) /\ Mapped(HearA, AFromIR[c]) = HearC[c]
  <2>1. /\ c \in IRBlocks /\ c.kind = "thinking" /\ c.text \in Texts /\ c.signature \in Marks
        /\ c.raw \in Raws
    BY DEF ThinkC, IRBlocks, AssistantC
  <2>2. AFromIR[c] = IRThinkingToAnthropic(c)
    BY <1>1, <2>1 DEF IRBlockToAnthropic
  <2> DEFINE hidden == [type |-> "redacted_thinking", data |-> c.raw.data]
             shown == [type |-> "thinking", text |-> c.text, signature |-> c.signature]
  <2>3. \/ IRThinkingToAnthropic(c) = <<>>
        \/ IRThinkingToAnthropic(c) = <<hidden>> /\ c.raw.type = "redacted_thinking"
        \/ IRThinkingToAnthropic(c) = <<shown>> /\ c.signature # ""
    BY DEF IRThinkingToAnthropic
  <2>4. c.raw.type = "redacted_thinking" => hidden \in HiddenA /\ hidden \in ABlocks
    BY <2>1 DEF Raws, HiddenA, ABlocks, AssistantA
  <2>5. c.signature # "" => shown \in ThinkA /\ shown \in ABlocks
    BY <2>1 DEF ThinkA, ABlocks, AssistantA
  <2> HIDE DEF hidden, shown
  <2>6. HearC[c] = <<>>
    BY HearCFacts
  <2>7. <<>> \in Seq(ABlocks)
    OBVIOUS
  <2>8. CASE IRThinkingToAnthropic(c) = <<>>
    BY <1>0, <2>2, <2>6, <2>7, <2>8
  <2>9. CASE IRThinkingToAnthropic(c) = <<hidden>> /\ c.raw.type = "redacted_thinking"
    BY <1>0, <2>2, <2>4, <2>6, <2>9, HearAFacts, OneThing
  <2>10. CASE IRThinkingToAnthropic(c) = <<shown>> /\ c.signature # ""
    BY <1>0, <2>2, <2>5, <2>6, <2>10, HearAFacts, OneThing
  <2>. QED
    BY <2>3, <2>8, <2>9, <2>10
<1>7. \A c \in IRBlocks : c \in TextC \/ c \in ImageC \/ c \in ResultC \/ c \in ThinkC \/ c \in CallC
  BY DEF IRBlocks, UserC, AssistantC
<1>8. IsMap(AFromIR, IRBlocks, ABlocks)
  BY <1>2, <1>3, <1>4, <1>5, <1>6, <1>7 DEF IsMap
<1>. QED
  BY <1>1, <1>2, <1>3, <1>4, <1>5, <1>6, <1>7, <1>8

MergeTable(it, s) ==
    it = [S \in SUBSET (1..Len(s)) |->
             IF S = {} THEN <<>> ELSE MergeNext(it[S \ {Max(S)}], s[Max(S)])]

(* mergeAdjacentAnthropic is a fold.                                       *)
LEMMA MergeFolds ==
    ASSUME <<>> \in Seq(AnyA), IsStep(MergeF, AnyA, Seq(AnyA)),
           \A p \in Seq(AnyA), x \in AnyA : MergeF[<<p, x>>] = MergeNext(p, x)
    PROVE  \A s \in Seq(AnyA) : FoldLeft(MergeNext, <<>>, s) = Folded(MergeF, <<>>, s)
<1> TAKE s \in Seq(AnyA)
<1> DEFINE n == Len(s)
           b == <<>>
           S0 == Seq(AnyA)
           it == CHOOSE it : MergeTable(it, s)
<1>1. n \in Nat /\ DOMAIN s = 1..n /\ \A i \in 1..n : s[i] \in AnyA
  BY LenProperties, ElementOfSeq
<1>2. FoldLeft(MergeNext, b, s) = it[1..n]
  BY <1>1 DEF FoldLeft, MapThenFoldSet, MergeTable
<1>3. b \in S0 /\ IsStep(MergeF, AnyA, S0) /\ \A p \in S0, x \in AnyA : MergeF[<<p, x>>] = MergeNext(p, x)
  OBVIOUS
<1>4. \A S \in SUBSET (1..n) : S # {} => Max(S) \in 1..n /\ S \ {Max(S)} \in SUBSET (1..n)
  <2>1. \A S \in SUBSET (1..n) : S # {} => Max(S) \in S
    BY <1>1, MaxOfSet
  <2>. QED
    BY <2>1
<1>5. MergeTable(it, s)
  <2> HIDE DEF S0
  <2>1. PICK g \in [SUBSET (1..Len(s)) -> S0] : IsTable(g, MergeF, b, s)
    BY <1>3, TableExists
  <2> HIDE DEF b
  <2>2. \A S \in SUBSET (1..Len(s)) :
           g[S] = IF S = {} THEN b ELSE MergeF[<<g[S \ {Max(S)}], s[Max(S)]>>]
    BY <2>1 DEF IsTable
  <2>3. ASSUME NEW S \in SUBSET (1..Len(s)), S # {}
        PROVE  MergeF[<<g[S \ {Max(S)}], s[Max(S)]>>] = MergeNext(g[S \ {Max(S)}], s[Max(S)])
    BY <1>1, <1>3, <1>4, <2>1, <2>3
  <2>4. \A S \in SUBSET (1..Len(s)) :
           g[S] = IF S = {} THEN b ELSE MergeNext(g[S \ {Max(S)}], s[Max(S)])
    BY <2>2, <2>3
  <2>5. MergeTable(g, s)
    BY <2>1, <2>4 DEF MergeTable, b
  <2>. QED
    BY <2>5
<1> HIDE DEF it
<1>6. \A S \in SUBSET (1..n) : it[S] = IF S = {} THEN b ELSE MergeNext(it[S \ {Max(S)}], s[Max(S)])
  BY <1>5 DEF MergeTable
<1>7. it[{}] = b
  <2>1. {} \in SUBSET (1..n)
    OBVIOUS
  <2>. QED
    BY <1>6, <2>1
<1>8. \A S \in SUBSET (1..Len(s)) : S # {} /\ it[S \ {Max(S)}] \in S0 =>
         it[S] = MergeF[<<it[S \ {Max(S)}], s[Max(S)]>>]
  <2> HIDE DEF S0, b
  <2>. QED
    BY <1>1, <1>3, <1>4, <1>6
<1>9. Fills(it, MergeF, b, S0, s)
  BY <1>7, <1>8 DEF Fills
<1>10. it[1..Len(s)] = Folded(MergeF, b, s)
  <2>1. b \in S0 /\ IsStep(MergeF, AnyA, S0) /\ Fills(it, MergeF, b, S0, s)
    BY <1>3, <1>9
  <2> HIDE DEF S0, b
  <2>. QED
    BY <2>1, TableIsFold
<1>. QED
  BY <1>2, <1>10

(* Merging one more message: it is appended or joined to the last, and     *)
(* heard either way.                                                       *)
LEMMA MergeNextFacts ==
    \A out \in Seq(AnyA), m \in AnyA :
       /\ MergeNext(out, m) \in Seq(AnyA)
       /\ Mapped(HearAM, MergeNext(out, m)) = Mapped(HearAM, out) \o HearAM[m]
       /\ \/ MergeNext(out, m) = Append(out, m) /\ (out = <<>> \/ Last(out).role # m.role \/ m.role = "system")
          \/ /\ out # <<>> /\ Last(out).role = m.role /\ m.role # "system"
             /\ Message(m.role, Last(out).content \o m.content) \in AnyA
             /\ MergeNext(out, m) = Append(Front(out), Message(m.role, Last(out).content \o m.content))
<1> TAKE out \in Seq(AnyA), m \in AnyA
<1>0. /\ \A s \in Seq(AnyA), x \in AnyA : Mapped(HearAM, Append(s, x)) = Mapped(HearAM, s) \o HearAM[x]
      /\ \A s \in Seq(AnyA) : Mapped(HearAM, s) \in Seq(Things)
      /\ \A x \in AnyA : HearAM[x] \in Seq(Things)
  <2>1. \A x \in AnyA : HearAM[x] \in Seq(Things)
    BY HearMFacts DEF IsMap
  <2>. QED
    BY <2>1, HearMFacts, MappedFacts
<1>1. CASE ~(out # <<>> /\ Last(out).role = m.role /\ m.role # "system")
  <2>1. MergeNext(out, m) = Append(out, m)
    BY <1>1 DEF MergeNext
  <2>2. Append(out, m) \in Seq(AnyA)
    BY AppendProperties
  <2>. QED
    BY <1>0, <1>1, <2>1, <2>2
<1>2. CASE out # <<>> /\ Last(out).role = m.role /\ m.role # "system"
  <2> DEFINE f == Front(out)
             l == Last(out)
             x == Message(m.role, l.content \o m.content)
  <2>1. f \in Seq(AnyA) /\ l \in AnyA /\ out = Append(f, l)
    BY <1>2, FrontLast
  <2>2. MergeNext(out, m) = Append(f, x)
    BY <1>2 DEF MergeNext
  <2> HIDE DEF f, l
  <2>3. l.content \in Seq(ABlocks) /\ m.content \in Seq(ABlocks) /\ m.role \in Roles
    BY <2>1, AnyFacts
  <2>4. l.content \o m.content \in Seq(ABlocks)
    BY <2>3, ConcatProperties
  <2>5. x \in AnyA
    BY <2>3, <2>4, AnyFacts
  <2>6. x.content = l.content \o m.content
    BY MessageFacts
  <2>7. HearAM[x] = HearAM[l] \o HearAM[m]
    <3>1. Mapped(HearA, l.content \o m.content) = Mapped(HearA, l.content) \o Mapped(HearA, m.content)
      BY <2>3, HearAFacts, MappedConcat
    <3>. QED
      BY <2>1, <2>5, <2>6, <3>1, HearMFacts
  <2> HIDE DEF x
  <2>8. Mapped(HearAM, Append(f, x)) = Mapped(HearAM, f) \o (HearAM[l] \o HearAM[m])
    BY <1>0, <2>1, <2>5, <2>7
  <2>9. Mapped(HearAM, out) = Mapped(HearAM, f) \o HearAM[l]
    BY <1>0, <2>1
  <2>10. Mapped(HearAM, f) \o (HearAM[l] \o HearAM[m]) = (Mapped(HearAM, f) \o HearAM[l]) \o HearAM[m]
    <3> DEFINE a == Mapped(HearAM, f)
               b == HearAM[l]
               c == HearAM[m]
    <3>1. a \in Seq(Things) /\ b \in Seq(Things) /\ c \in Seq(Things)
      BY <1>0, <2>1
    <3> HIDE DEF a, b, c
    <3>2. a \o (b \o c) = (a \o b) \o c
      BY <3>1, ConcatAssociative
    <3>. QED
      BY <3>2 DEF a, b, c
  <2>11. Append(f, x) \in Seq(AnyA)
    BY <2>1, <2>5, AppendProperties
  <2>12. MergeNext(out, m) \in Seq(AnyA)
    BY <2>2, <2>11
  <2>13. Mapped(HearAM, MergeNext(out, m)) = Mapped(HearAM, out) \o HearAM[m]
    BY <2>2, <2>8, <2>9, <2>10
  <2>. QED
    BY <1>2, <2>2, <2>5, <2>12, <2>13 DEF f, l, x
<1>. QED
  BY <1>1, <1>2

(* MergeNext is a step of a fold.                                          *)
LEMMA MergeFFacts ==
    /\ <<>> \in Seq(AnyA) /\ IsStep(MergeF, AnyA, Seq(AnyA))
    /\ \A p \in Seq(AnyA), x \in AnyA : MergeF[<<p, x>>] = MergeNext(p, x)
<1>1. ASSUME NEW p \in Seq(AnyA), NEW x \in AnyA PROVE MergeF[<<p, x>>] = MergeNext(p, x)
  <2> DEFINE S == Seq(AnyA)
  <2>1. p \in S /\ x \in AnyA
    OBVIOUS
  <2>2. MergeF = [q \in S \X AnyA |-> MergeNext(q[1], q[2])]
    BY DEF MergeF
  <2> HIDE DEF S
  <2>. QED
    BY <2>1, <2>2
<1>2. <<>> \in Seq(AnyA)
  OBVIOUS
<1>3. \A p \in Seq(AnyA), x \in AnyA : MergeF[<<p, x>>] \in Seq(AnyA)
  BY <1>1, MergeNextFacts
<1>. QED
  BY <1>1, <1>2, <1>3 DEF IsStep

Merged(s) == Folded(MergeF, <<>>, s)

(* The merged messages, with one more.                                     *)
LEMMA MergedFacts ==
    /\ Merged(<<>>) = <<>>
    /\ \A s \in Seq(AnyA) : Merged(s) \in Seq(AnyA) /\ MergeAdjacentAnthropic(s) = Merged(s)
    /\ \A s \in Seq(AnyA), x \in AnyA : Merged(Append(s, x)) = MergeNext(Merged(s), x)
<1> DEFINE S == Seq(AnyA)
           e == <<>>
<1>1. e \in S /\ IsStep(MergeF, AnyA, S)
  BY MergeFFacts
<1>2. /\ Folded(MergeF, e, <<>>) = e
      /\ \A s \in Seq(AnyA) : Folded(MergeF, e, s) \in S
      /\ \A s \in Seq(AnyA), x \in AnyA : Folded(MergeF, e, Append(s, x)) = MergeF[<<Folded(MergeF, e, s), x>>]
  <2> HIDE DEF S, e
  <2>. QED
    BY <1>1, FoldedFacts
<1>3. \A s \in Seq(AnyA), x \in AnyA : MergeF[<<Folded(MergeF, e, s), x>>] = MergeNext(Folded(MergeF, e, s), x)
  BY <1>2, MergeFFacts
<1>4. \A s \in Seq(AnyA) : MergeAdjacentAnthropic(s) = Merged(s)
  BY MergeFFacts, MergeFolds DEF MergeAdjacentAnthropic, Merged
<1>. QED
  BY <1>2, <1>3, <1>4 DEF Merged

(* mergeAdjacentAnthropic loses nothing.                                   *)
LEMMA MergedHeard ==
    \A s \in Seq(AnyA) : Mapped(HearAM, Merged(s)) = Mapped(HearAM, s)
<1> DEFINE P == {s \in Seq(AnyA) : Mapped(HearAM, Merged(s)) = Mapped(HearAM, s)}
<1>0. /\ \A s \in Seq(AnyA), x \in AnyA : Mapped(HearAM, Append(s, x)) = Mapped(HearAM, s) \o HearAM[x]
      /\ Mapped(HearAM, <<>>) = <<>>
  BY HearMFacts, MappedFacts
<1>1. <<>> \in P
  <2>1. <<>> \in Seq(AnyA)
    OBVIOUS
  <2>. QED
    BY <2>1, MergedFacts
<1>2. ASSUME NEW s \in Seq(AnyA), s \in P, NEW x \in AnyA PROVE Append(s, x) \in P
  <2>1. Append(s, x) \in Seq(AnyA)
    BY AppendProperties
  <2>2. Merged(Append(s, x)) = MergeNext(Merged(s), x) /\ Merged(s) \in Seq(AnyA)
    BY MergedFacts
  <2>3. Mapped(HearAM, MergeNext(Merged(s), x)) = Mapped(HearAM, Merged(s)) \o HearAM[x]
    BY <2>2, MergeNextFacts
  <2>. QED
    BY <1>0, <1>2, <2>1, <2>2, <2>3
<1> HIDE DEF P
<1>3. Seq(AnyA) \subseteq P
  BY <1>1, <1>2, SeqInduction
<1>. QED
  BY <1>3 DEF P

(* A message on its way from the IR to Anthropic is heard as before.       *)
LEMMA AMFromIRFacts ==
    /\ IsFcn(AMFromIR, AnyIR, AnyA)
    /\ \A m \in AnyIR : AMFromIR[m] = Message(IF m.role = "tool" THEN "user" ELSE m.role, Mapped(AFromIR, m.content))
    /\ \A m \in AnyIR : HearAM[AMFromIR[m]] = HearM[m]
    /\ \A s \in Seq(AnyIR) : /\ Each(AMFromIR, s) \in Seq(AnyA)
                             /\ Mapped(HearAM, Each(AMFromIR, s)) = Mapped(HearM, s)
<1>1. \A m \in AnyIR : AMFromIR[m] = Message(IF m.role = "tool" THEN "user" ELSE m.role, Mapped(AFromIR, m.content))
  BY DEF AMFromIR
<1>2. ASSUME NEW m \in AnyIR PROVE AMFromIR[m] \in AnyA /\ HearAM[AMFromIR[m]] = HearM[m]
  <2> DEFINE r == IF m.role = "tool" THEN "user" ELSE m.role
             c == Mapped(AFromIR, m.content)
  <2>1. m.content \in Seq(IRBlocks) /\ r \in Roles
    BY AnyFacts DEF Roles
  <2>2. c \in Seq(ABlocks)
    BY <2>1, AFromIRFacts, MappedFacts
  <2>3. Mapped(HearA, c) = Mapped(HearC, m.content)
    <3>1. /\ IsMap(AFromIR, IRBlocks, ABlocks) /\ IsMap(HearA, ABlocks, Things) /\ IsMap(HearC, IRBlocks, Things)
          /\ \A x \in IRBlocks : HearC[x] = Mapped(HearA, AFromIR[x])
      BY AFromIRFacts, HearAFacts, HearCFacts
    <3>. QED
      BY <2>1, <3>1, MappedTwice
  <2>4. AMFromIR[m] = Message(r, c)
    BY <1>1
  <2> HIDE DEF r, c
  <2>5. Message(r, c) \in AnyA /\ Message(r, c).content = c
    BY <2>1, <2>2, AnyFacts, MessageFacts
  <2>. QED
    BY <2>3, <2>4, <2>5, HearMFacts
<1>3. IsFcn(AMFromIR, AnyIR, AnyA)
  BY <1>2 DEF IsFcn
<1>4. \A s \in Seq(AnyIR) : Each(AMFromIR, s) \in Seq(AnyA)
  BY <1>3, EachFacts
<1>5. \A s \in Seq(AnyIR) : Mapped(HearAM, Each(AMFromIR, s)) = Mapped(HearM, s)
  <2>1. \A m \in AnyIR : HearM[m] = HearAM[AMFromIR[m]]
    BY <1>2
  <2>. QED
    BY <1>3, <2>1, EachThenMapped
<1>. QED
  BY <1>1, <1>2, <1>3, <1>4, <1>5

(* The contents of messages, one after the other.                          *)
ContentF == [m \in AnyIR |-> m.content]
SystemIR == [role : {"system"}, content : Seq(TextC)]

(* The content of messages in a row is heard as they are.                  *)
LEMMA ContentFacts ==
    /\ \A s \in Seq(AnyIR) : /\ ContentOf(s) = Mapped(ContentF, s)
                             /\ ContentOf(s) \in Seq(IRBlocks)
                             /\ Mapped(HearC, ContentOf(s)) = Mapped(HearM, s)
    /\ \A s \in Seq(SystemIR) : ContentOf(s) \in Seq(TextC)
    /\ SystemIR \subseteq AnyIR
    /\ \A s \in Seq(IRMessages) : AllSystem(s) => s \in Seq(SystemIR)
<1>0. SystemIR \subseteq AnyIR
  BY TypesFacts DEF SystemIR, IRMessages
<1>1. \A m \in AnyIR : ContentF[m] = m.content
  BY DEF ContentF
<1>2. IsMap(ContentF, AnyIR, IRBlocks)
  BY <1>1, AnyFacts DEF IsMap
<1>3. IsMap(ContentF, SystemIR, TextC)
  <2>1. \A m \in SystemIR : ContentF[m] \in Seq(TextC)
    BY <1>0, <1>1 DEF SystemIR
  <2>. QED
    BY <2>1 DEF IsMap
<1>4. ASSUME NEW s \in Seq(AnyIR) PROVE ContentOf(s) = Mapped(ContentF, s)
  <2>1. \A i \in DOMAIN s : s[i] \in AnyIR
    BY ElementOfSeq, LenProperties
  <2>2. [i \in DOMAIN s |-> s[i].content] = [i \in DOMAIN s |-> ContentF[s[i]]]
    BY <1>1, <2>1
  <2>. QED
    BY <2>2 DEF ContentOf, FlatMap, MapSeq, Mapped
<1>5. \A s \in Seq(AnyIR) : Mapped(ContentF, s) \in Seq(IRBlocks)
  BY <1>2, MappedFacts
<1>6. \A s \in Seq(SystemIR) : Mapped(ContentF, s) \in Seq(TextC)
  BY <1>3, MappedFacts
<1>7. \A s \in Seq(AnyIR) : Mapped(HearC, Mapped(ContentF, s)) = Mapped(HearM, s)
  <2>1. \A m \in AnyIR : HearM[m] = Mapped(HearC, ContentF[m])
    BY <1>1, HearMFacts
  <2>. QED
    BY <1>2, <2>1, HearMFacts, HearCFacts, MappedTwice
<1>8. ASSUME NEW s \in Seq(IRMessages), AllSystem(s) PROVE s \in Seq(SystemIR)
  <2>1. \A i \in DOMAIN s : s[i] \in IRMessages /\ s[i].role = "system"
    BY <1>8, ElementOfSeq, LenProperties DEF AllSystem
  <2>2. \A m \in IRMessages : m.role = "system" => m \in SystemIR
    BY DEF IRMessages, SystemIR
  <2>3. \A i \in DOMAIN s : s[i] \in SystemIR
    BY <2>1, <2>2
  <2>. QED
    BY <2>3, SeqOfElements
<1>9. \A s \in Seq(SystemIR) : s \in Seq(AnyIR)
  BY <1>0, SeqOfMore
<1>. QED
  BY <1>0, <1>4, <1>5, <1>6, <1>7, <1>8, <1>9

(* The request to an Anthropic upstream, and what is heard there.          *)
TextToA == [c \in TextC |-> [type |-> "text", text |-> c.text]]

(* anthropicRequest.FromIR: what the IR says is heard in the request.      *)
LEMMA AFromIRRequest ==
    ASSUME NEW r, r.system \in Seq(TextC), r.messages \in Seq(IRMessages)
    PROVE  LET w == AnthropicRequestFromIR(r)
               split == SplitSystem(r.messages)
           IN  /\ w.messages = Merged(Each(AMFromIR, split.rest))
               /\ w.system = Each(TextToA, r.system \o ContentOf(split.system))
               /\ w.system \in Seq(TextA)
               /\ Heard("anthropic", w) = HeardIR(r)
<1> DEFINE w == AnthropicRequestFromIR(r)
           split == SplitSystem(r.messages)
           sys == split.system
           rest == split.rest
           texts == r.system \o ContentOf(sys)
<1>1. /\ sys \in Seq(IRMessages) /\ rest \in Seq(IRMessages) /\ sys \o rest = r.messages /\ AllSystem(sys)
  BY SplitFacts
<1>2. /\ ContentOf(sys) \in Seq(TextC) /\ sys \in Seq(AnyIR) /\ rest \in Seq(AnyIR)
      /\ Mapped(HearC, ContentOf(sys)) = Mapped(HearM, sys)
  BY <1>1, ContentFacts, TypesFacts
<1>3. texts \in Seq(TextC)
  BY <1>2, ConcatProperties
<1>4. w.messages = Merged(Each(AMFromIR, rest))
  <2> DEFINE Role(m) == IF m.role = "tool" THEN "user" ELSE m.role
  <2>1. w.messages = MergeAdjacentAnthropic(
                        [i \in DOMAIN rest |-> Message(Role(rest[i]), IRContentToAnthropic(rest[i].content))])
    BY DEF AnthropicRequestFromIR, MapSeq
  <2>2. \A i \in DOMAIN rest : rest[i] \in AnyIR
    BY <1>2, ElementOfSeq, LenProperties
  <2>3. ASSUME NEW c \in Seq(IRBlocks) PROVE IRContentToAnthropic(c) = Mapped(AFromIR, c)
    <3>1. \A i \in DOMAIN c : c[i] \in IRBlocks
      BY ElementOfSeq, LenProperties
    <3>2. [i \in DOMAIN c |-> IRBlockToAnthropic(c[i])] = [i \in DOMAIN c |-> AFromIR[c[i]]]
      BY <3>1, AFromIRFacts
    <3>. QED
      BY <3>2 DEF IRContentToAnthropic, FlatMap, MapSeq, Mapped
  <2>4. \A i \in DOMAIN rest : Message(Role(rest[i]), IRContentToAnthropic(rest[i].content)) = AMFromIR[rest[i]]
    BY <2>2, <2>3, AnyFacts, AMFromIRFacts
  <2>5. [i \in DOMAIN rest |-> Message(Role(rest[i]), IRContentToAnthropic(rest[i].content))] = Each(AMFromIR, rest)
    BY <2>4 DEF Each
  <2>6. Each(AMFromIR, rest) \in Seq(AnyA)
    BY <1>2, AMFromIRFacts
  <2>. QED
    BY <2>1, <2>5, <2>6, MergedFacts
<1>5. w.system = Each(TextToA, texts)
  <2>1. OfKind("text", texts) = texts
    <3>1. \A c \in TextC : c.kind \in {"text"}
      BY DEF TextC
    <3>. QED
      BY <1>3, <3>1, KeepAll DEF OfKind
  <2>2. w.system = [i \in DOMAIN texts |-> [type |-> "text", text |-> texts[i].text]]
    BY <2>1 DEF AnthropicRequestFromIR, MapSeq
  <2>3. \A i \in DOMAIN texts : texts[i] \in TextC
    BY <1>3, ElementOfSeq, LenProperties
  <2>4. \A i \in DOMAIN texts : TextToA[texts[i]] = [type |-> "text", text |-> texts[i].text]
    BY <2>3 DEF TextToA
  <2> HIDE DEF texts
  <2>. QED
    BY <2>2, <2>4 DEF Each
<1>6. IsFcn(TextToA, TextC, TextA) /\ \A c \in TextC : HearC[c] = HearA[TextToA[c]]
  <2>1. \A c \in TextC : TextToA[c] = [type |-> "text", text |-> c.text]
    BY DEF TextToA
  <2>2. ASSUME NEW c \in TextC PROVE TextToA[c] \in TextA /\ TextToA[c].text = c.text
    <3> DEFINE t == c.text
    <3>1. TextToA[c] = [type |-> "text", text |-> t] /\ t \in Texts
      BY <2>1 DEF TextC
    <3> HIDE DEF t
    <3>2. TextToA[c] \in TextA /\ TextToA[c].text = t
      BY <3>1 DEF TextA
    <3>. QED
      BY <3>2 DEF t
  <2>3. \A c \in TextC : HearC[c] = HearA[TextToA[c]]
    BY <2>2, HearCFacts, HearAFacts
  <2>. QED
    BY <2>2, <2>3 DEF IsFcn
<1>7. w.system \in Seq(TextA) /\ Mapped(HearA, w.system) = Mapped(HearC, texts)
  <2> HIDE DEF texts, w
  <2>1. Each(TextToA, texts) \in Seq(TextA)
    BY <1>3, <1>6, EachFacts
  <2>2. Mapped(HearA, Each(TextToA, texts)) = Mapped(HearC, texts)
    BY <1>3, <1>6, EachThenMapped
  <2>. QED
    BY <1>5, <2>1, <2>2
<1>8. InSystem("anthropic", w) = Mapped(HearC, r.system) \o Mapped(HearM, sys)
  <2>1. FlatMap(InBlock, w.system) = Mapped(HearA, w.system)
    BY <1>7, BlocksHeard, TypesFacts
  <2>2. r.system \in Seq(IRBlocks) /\ ContentOf(sys) \in Seq(IRBlocks)
    BY <1>2, TypesFacts
  <2>3. Mapped(HearC, texts) = Mapped(HearC, r.system) \o Mapped(HearC, ContentOf(sys))
    BY <2>2, HearCFacts, MappedConcat
  <2>. QED
    BY <1>2, <1>7, <2>1, <2>3 DEF InSystem
<1>9. InHistory("anthropic", History("anthropic", w)) = Mapped(HearM, rest)
  <2>1. Each(AMFromIR, rest) \in Seq(AnyA) /\ Mapped(HearAM, Each(AMFromIR, rest)) = Mapped(HearM, rest)
    BY <1>2, AMFromIRFacts
  <2>2. Mapped(HearAM, w.messages) = Mapped(HearM, rest) /\ w.messages \in Seq(AnyA)
    BY <1>4, <2>1, MergedHeard, MergedFacts
  <2>3. History("anthropic", w) = w.messages
    BY DEF History
  <2>. QED
    BY <2>2, <2>3, AHistoryHeard
<1>10. Heard("anthropic", w) = HeardIR(r)
  <2> DEFINE a == Mapped(HearC, r.system)
             b == Mapped(HearM, sys)
             c == Mapped(HearM, rest)
  <2>1. a \in Seq(Things) /\ b \in Seq(Things) /\ c \in Seq(Things)
    BY <1>2, HearCFacts, HearMFacts, MappedFacts, TypesFacts
  <2>2. Mapped(HearM, r.messages) = b \o c
    <3>1. Mapped(HearM, sys \o rest) = b \o c
      BY <1>2, HearMFacts, MappedConcat
    <3>. QED
      BY <1>1, <3>1
  <2>3. Heard("anthropic", w) = (a \o b) \o c
    BY <1>8, <1>9 DEF Heard
  <2>4. HeardIR(r) = a \o (b \o c)
    BY <2>2 DEF HeardIR
  <2> HIDE DEF a, b, c
  <2>5. (a \o b) \o c = a \o (b \o c)
    BY <2>1, ConcatAssociative
  <2>. QED
    BY <2>3, <2>4, <2>5
<1> HIDE DEF w, split
<1>. QED
  BY <1>4, <1>5, <1>7, <1>10 DEF w, split

-----------------------------------------------------------------------------
(***************************************************************************)
(* Words apart from calls and results.                                     *)
(***************************************************************************)
Wordy == {x \in Things : x.kind = "word"}
Tooly == {x \in Things : x.kind = "tool"}
OnlyW(f, A) == [x \in A |-> OnlyWords(f[x])]
OnlyT(f, A) == [x \in A |-> OnlyTools(f[x])]
SameThings(s, t) == OnlyWords(s) = OnlyWords(t) /\ OnlyTools(s) = OnlyTools(t)

(* Words alone and tools alone, of parts and of the whole.                 *)
LEMMA OnlyFacts ==
    /\ \A s \in Seq(Things) : OnlyWords(s) \in Seq(Things) /\ OnlyTools(s) \in Seq(Things)
    /\ \A s, t \in Seq(Things) : /\ OnlyWords(s \o t) = OnlyWords(s) \o OnlyWords(t)
                                 /\ OnlyTools(s \o t) = OnlyTools(s) \o OnlyTools(t)
    /\ \A s \in Seq(Wordy) : s \in Seq(Things) /\ OnlyWords(s) = s /\ OnlyTools(s) = <<>>
    /\ \A s \in Seq(Tooly) : s \in Seq(Things) /\ OnlyTools(s) = s /\ OnlyWords(s) = <<>>
    /\ OnlyWords(<<>>) = <<>> /\ OnlyTools(<<>>) = <<>>
<1>1. /\ \A s \in Seq(Things) : OnlyWords(s) = Mapped(Keep(Things, {"word"}), s)
      /\ \A s \in Seq(Things) : OnlyTools(s) = Mapped(Keep(Things, {"tool"}), s)
      /\ IsMap(Keep(Things, {"word"}), Things, Things) /\ IsMap(Keep(Things, {"tool"}), Things, Things)
  BY OfKindsIsMapped DEF OnlyWords, OnlyTools, OfKind
<1> DEFINE kw == Keep(Things, {"word"})
           kt == Keep(Things, {"tool"})
<1>2. IsMap(kw, Things, Things) /\ IsMap(kt, Things, Things)
  BY <1>1
<1>3. /\ \A s \in Seq(Things) : OnlyWords(s) = Mapped(kw, s)
      /\ \A s \in Seq(Things) : OnlyTools(s) = Mapped(kt, s)
  BY <1>1
<1> HIDE DEF kw, kt
<1>4. \A s \in Seq(Things) : OnlyWords(s) \in Seq(Things) /\ OnlyTools(s) \in Seq(Things)
  BY <1>2, <1>3, MappedFacts
<1>5. \A s, t \in Seq(Things) : /\ OnlyWords(s \o t) = OnlyWords(s) \o OnlyWords(t)
                                /\ OnlyTools(s \o t) = OnlyTools(s) \o OnlyTools(t)
  <2>1. \A s, t \in Seq(Things) : s \o t \in Seq(Things)
    BY ConcatProperties
  <2>2. \A s, t \in Seq(Things) : Mapped(kw, s \o t) = Mapped(kw, s) \o Mapped(kw, t)
    BY <1>2, MappedConcat
  <2>3. \A s, t \in Seq(Things) : Mapped(kt, s \o t) = Mapped(kt, s) \o Mapped(kt, t)
    BY <1>2, MappedConcat
  <2> TAKE s \in Seq(Things), t \in Seq(Things)
  <2>4. OnlyWords(s \o t) = Mapped(kw, s \o t) /\ OnlyTools(s \o t) = Mapped(kt, s \o t)
    BY <1>3, <2>1
  <2>5. /\ OnlyWords(s) = Mapped(kw, s) /\ OnlyTools(s) = Mapped(kt, s)
        /\ OnlyWords(t) = Mapped(kw, t) /\ OnlyTools(t) = Mapped(kt, t)
    BY <1>3
  <2>. QED
    BY <2>2, <2>3, <2>4, <2>5
<1>6. Seq(Wordy) \subseteq Seq(Things) /\ Seq(Tooly) \subseteq Seq(Things)
  <2>1. Wordy \subseteq Things /\ Tooly \subseteq Things
    BY DEF Wordy, Tooly
  <2>. QED
    BY <2>1, SeqOfMore
<1>7. \A s \in Seq(Wordy) : OnlyWords(s) = s /\ OnlyTools(s) = <<>>
  <2>1. (\A x \in Wordy : x.kind \in {"word"}) /\ (\A x \in Wordy : x.kind \notin {"tool"})
    BY DEF Wordy
  <2>2. \A s \in Seq(Wordy) : OfKinds({"word"}, s) = s
    BY <2>1, KeepAll
  <2>3. \A s \in Seq(Wordy) : OfKinds({"tool"}, s) = <<>>
    BY <2>1, KeepNone
  <2>. QED
    BY <2>2, <2>3 DEF OnlyWords, OnlyTools, OfKind
<1>8. \A s \in Seq(Tooly) : OnlyTools(s) = s /\ OnlyWords(s) = <<>>
  <2>1. (\A x \in Tooly : x.kind \in {"tool"}) /\ (\A x \in Tooly : x.kind \notin {"word"})
    BY DEF Tooly
  <2>2. \A s \in Seq(Tooly) : OfKinds({"tool"}, s) = s
    BY <2>1, KeepAll
  <2>3. \A s \in Seq(Tooly) : OfKinds({"word"}, s) = <<>>
    BY <2>1, KeepNone
  <2>. QED
    BY <2>2, <2>3 DEF OnlyWords, OnlyTools, OfKind
<1>9. <<>> \in Seq(Wordy)
  OBVIOUS
<1>10. OnlyWords(<<>>) = <<>> /\ OnlyTools(<<>>) = <<>>
  BY <1>7, <1>9
<1>. QED
  BY <1>4, <1>5, <1>6, <1>7, <1>8, <1>10

(* Selecting from what is heard is hearing the selection.                  *)
LEMMA OnlyMapped ==
    ASSUME NEW A, NEW f, IsMap(f, A, Things)
    PROVE  \A s \in Seq(A) : /\ OnlyWords(Mapped(f, s)) = Mapped(OnlyW(f, A), s)
                             /\ OnlyTools(Mapped(f, s)) = Mapped(OnlyT(f, A), s)
<1> DEFINE kw == Keep(Things, {"word"})
           kt == Keep(Things, {"tool"})
           fw == OnlyW(f, A)
           ft == OnlyT(f, A)
<1>1. /\ \A s \in Seq(Things) : OnlyWords(s) = Mapped(kw, s) /\ OnlyTools(s) = Mapped(kt, s)
      /\ IsMap(kw, Things, Things) /\ IsMap(kt, Things, Things)
  BY OfKindsIsMapped DEF OnlyWords, OnlyTools, OfKind
<1>2. \A x \in A : fw[x] = OnlyWords(f[x]) /\ ft[x] = OnlyTools(f[x]) /\ f[x] \in Seq(Things)
  BY DEF OnlyW, OnlyT, IsMap
<1> HIDE DEF kw, kt, fw, ft
<1>3. (\A x \in A : fw[x] = Mapped(kw, f[x])) /\ (\A x \in A : ft[x] = Mapped(kt, f[x]))
  BY <1>1, <1>2
<1>4. IsMap(fw, A, Things) /\ IsMap(ft, A, Things)
  BY <1>2, OnlyFacts DEF IsMap
<1>5. \A s \in Seq(A) : Mapped(kw, Mapped(f, s)) = Mapped(fw, s)
  BY <1>1, <1>3, <1>4, MappedTwice
<1>6. \A s \in Seq(A) : Mapped(kt, Mapped(f, s)) = Mapped(ft, s)
  BY <1>1, <1>3, <1>4, MappedTwice
<1>7. \A s \in Seq(A) : Mapped(f, s) \in Seq(Things)
  BY MappedFacts
<1>. QED
  BY <1>1, <1>5, <1>6, <1>7 DEF fw, ft

(* Message by message the same words and calls: the same in all.           *)
LEMMA SameMapped ==
    ASSUME NEW A, NEW f, IsMap(f, A, Things), NEW g, IsMap(g, A, Things),
           \A x \in A : SameThings(f[x], g[x])
    PROVE  \A s \in Seq(A) : SameThings(Mapped(f, s), Mapped(g, s))
<1> TAKE s \in Seq(A)
<1>1. \A x \in A : OnlyW(f, A)[x] = OnlyW(g, A)[x] /\ OnlyT(f, A)[x] = OnlyT(g, A)[x]
  BY DEF OnlyW, OnlyT, SameThings
<1>2. OnlyW(f, A) = OnlyW(g, A) /\ OnlyT(f, A) = OnlyT(g, A)
  BY DEF OnlyW, OnlyT, SameThings
<1>. QED
  BY <1>2, OnlyMapped DEF SameThings

(* Saying the same is an equivalence that goes over concatenation.         *)
LEMMA SameFacts ==
    /\ \A s : SameThings(s, s)
    /\ \A s, t, u : SameThings(s, t) /\ SameThings(t, u) => SameThings(s, u)
    /\ \A s, t : SameThings(s, t) => SameThings(t, s)
    /\ \A s, t, u, v \in Seq(Things) :
          SameThings(s, t) /\ SameThings(u, v) => SameThings(s \o u, t \o v)
    /\ \A s \in Seq(Wordy), t \in Seq(Tooly) : SameThings(s \o t, t \o s)
<1>1. /\ \A s : SameThings(s, s)
      /\ \A s, t, u : SameThings(s, t) /\ SameThings(t, u) => SameThings(s, u)
      /\ \A s, t : SameThings(s, t) => SameThings(t, s)
  BY DEF SameThings
<1>2. ASSUME NEW s \in Seq(Things), NEW t \in Seq(Things), NEW u \in Seq(Things), NEW v \in Seq(Things),
             SameThings(s, t), SameThings(u, v)
      PROVE  SameThings(s \o u, t \o v)
  <2>1. /\ OnlyWords(s \o u) = OnlyWords(s) \o OnlyWords(u)
        /\ OnlyTools(s \o u) = OnlyTools(s) \o OnlyTools(u)
    BY OnlyFacts
  <2>2. /\ OnlyWords(t \o v) = OnlyWords(t) \o OnlyWords(v)
        /\ OnlyTools(t \o v) = OnlyTools(t) \o OnlyTools(v)
    BY OnlyFacts
  <2>. QED
    BY <1>2, <2>1, <2>2 DEF SameThings
<1>3. ASSUME NEW s \in Seq(Wordy), NEW t \in Seq(Tooly) PROVE SameThings(s \o t, t \o s)
  <2>1. s \in Seq(Things) /\ t \in Seq(Things)
    BY OnlyFacts
  <2>5. /\ OnlyWords(s) = s /\ OnlyTools(s) = <<>> /\ OnlyWords(t) = <<>> /\ OnlyTools(t) = t
    BY OnlyFacts
  <2>6. /\ OnlyWords(s \o t) = OnlyWords(s) \o OnlyWords(t) /\ OnlyTools(s \o t) = OnlyTools(s) \o OnlyTools(t)
        /\ OnlyWords(t \o s) = OnlyWords(t) \o OnlyWords(s) /\ OnlyTools(t \o s) = OnlyTools(t) \o OnlyTools(s)
    BY <2>1, OnlyFacts
  <2>2. OnlyWords(s \o t) = s \o <<>> /\ OnlyWords(t \o s) = <<>> \o s
    BY <2>5, <2>6
  <2>3. OnlyTools(s \o t) = <<>> \o t /\ OnlyTools(t \o s) = t \o <<>>
    BY <2>5, <2>6
  <2>4. s \o <<>> = <<>> \o s /\ <<>> \o t = t \o <<>>
    BY ConcatEmptySeq
  <2>. QED
    BY <2>2, <2>3, <2>4 DEF SameThings
<1>. QED
  BY <1>1, <1>2, <1>3

(* What words and what calls and results there are in blocks of the IR.    *)
WordKinds == {"text", "image"}
ToolKinds == {"tool_use", "tool_result"}

(* Blocks of words are heard as words, blocks of tools as tools.           *)
LEMMA HearKinds ==
    /\ IsMap(HearC, {c \in IRBlocks : c.kind \in WordKinds}, Wordy)
    /\ IsMap(HearC, {c \in IRBlocks : c.kind \in ToolKinds}, Tooly)
    /\ \A t \in Texts : Words(t) \in Seq(Wordy)
    /\ \A s \in Seq(IRBlocks) :
          /\ OnlyWords(Mapped(HearC, s)) = Mapped(HearC, OfKinds(WordKinds, s))
          /\ OnlyTools(Mapped(HearC, s)) = Mapped(HearC, OfKinds(ToolKinds, s))
          /\ SameThings(Mapped(HearC, s),
                        Mapped(HearC, OfKinds(WordKinds, s)) \o Mapped(HearC, OfKinds(ToolKinds, s)))
          /\ SameThings(Mapped(HearC, s),
                        Mapped(HearC, OfKinds(ToolKinds, s)) \o Mapped(HearC, OfKinds(WordKinds, s)))
<1> DEFINE W == {c \in IRBlocks : c.kind \in WordKinds}
           T == {c \in IRBlocks : c.kind \in ToolKinds}
<1>1. \A t \in Texts : Words(t) \in Seq(Wordy)
  <2>1. \A n \in Nat : WordF[n] \in Wordy
    BY ThingsAre DEF WordF, Wordy, Word
  <2>2. IsFcn(WordF, Nat, Wordy)
    BY <2>1 DEF IsFcn
  <2>. QED
    BY <2>2, WordsFacts, EachFacts DEF Texts
<1>2. \A c \in IRBlocks : /\ c \in TextC => c.kind = "text"
                          /\ c \in ImageC => c.kind = "image"
                          /\ c \in CallC => c.kind = "tool_use"
                          /\ c \in ResultC => c.kind = "tool_result"
                          /\ c \in ThinkC => c.kind = "thinking"
                          /\ c \in TextC \/ c \in ImageC \/ c \in CallC \/ c \in ResultC \/ c \in ThinkC
  BY DEF IRBlocks, UserC, AssistantC, TextC, ImageC, CallC, ResultC, ThinkC
<1>3. ASSUME NEW c \in IRBlocks, c.kind \in WordKinds PROVE HearC[c] \in Seq(Wordy)
  <2>1. c \in TextC \/ c \in ImageC
    BY <1>2, <1>3 DEF WordKinds
  <2>2. CASE c \in TextC
    <3>1. c.text \in Texts
      BY <2>2 DEF TextC
    <3>. QED
      BY <1>1, <2>2, <3>1, HearCFacts
  <2>3. CASE c \in ImageC
    <3>1. Picture \in Wordy
      BY ThingsAre DEF Wordy, Picture
    <3>. QED
      BY <2>3, <3>1, HearCFacts, OneThing
  <2>. QED
    BY <2>1, <2>2, <2>3
<1>4. ASSUME NEW c \in IRBlocks, c.kind \in ToolKinds PROVE HearC[c] \in Seq(Tooly)
  <2>1. c \in CallC \/ c \in ResultC
    BY <1>2, <1>4 DEF ToolKinds
  <2>2. CASE c \in CallC
    <3>1. Called(c.id) \in Tooly
      BY <2>2, ThingsAre DEF Tooly, Called, CallC
    <3>. QED
      BY <2>2, <3>1, HearCFacts, OneThing
  <2>3. CASE c \in ResultC
    <3> DEFINE e == c.is_error \/ ReadsFailed(c.out.text)
    <3>1. e \in BOOLEAN /\ c.id \in Nat
      BY <2>3 DEF ResultC
    <3>2. HearC[c] = <<Returned(c.id, e)>>
      BY <2>3, HearCFacts
    <3> HIDE DEF e
    <3>3. Returned(c.id, e) \in Tooly
      BY <3>1, ThingsAre DEF Tooly, Returned
    <3>. QED
      BY <3>2, <3>3, OneThing
  <2>. QED
    BY <2>1, <2>2, <2>3
<1>5. ASSUME NEW c \in IRBlocks, c.kind \notin WordKinds, c.kind \notin ToolKinds PROVE HearC[c] = <<>>
  BY <1>2, <1>5, HearCFacts DEF WordKinds, ToolKinds
<1>6. IsMap(HearC, W, Wordy) /\ IsMap(HearC, T, Tooly)
  BY <1>3, <1>4 DEF IsMap
<1>7. ASSUME NEW s \in Seq(IRBlocks)
      PROVE  /\ OnlyWords(Mapped(HearC, s)) = Mapped(HearC, OfKinds(WordKinds, s))
             /\ OnlyTools(Mapped(HearC, s)) = Mapped(HearC, OfKinds(ToolKinds, s))
             /\ OfKinds(WordKinds, s) \in Seq(W) /\ OfKinds(ToolKinds, s) \in Seq(T)
  <2> DEFINE kw == Keep(IRBlocks, WordKinds)
             kt == Keep(IRBlocks, ToolKinds)
             hw == OnlyW(HearC, IRBlocks)
             ht == OnlyT(HearC, IRBlocks)
  <2>1. /\ IsMap(kw, IRBlocks, W) /\ IsMap(kt, IRBlocks, T)
        /\ IsMap(kw, IRBlocks, IRBlocks) /\ IsMap(kt, IRBlocks, IRBlocks)
        /\ \A c \in IRBlocks : /\ kw[c] = IF c.kind \in WordKinds THEN <<c>> ELSE <<>>
                               /\ kt[c] = IF c.kind \in ToolKinds THEN <<c>> ELSE <<>>
        /\ OfKinds(WordKinds, s) = Mapped(kw, s) /\ OfKinds(ToolKinds, s) = Mapped(kt, s)
    <3>1. /\ IsMap(kw, IRBlocks, W) /\ IsMap(kw, IRBlocks, IRBlocks) /\ OfKinds(WordKinds, s) = Mapped(kw, s)
          /\ \A c \in IRBlocks : kw[c] = IF c.kind \in WordKinds THEN <<c>> ELSE <<>>
      <4>1. IsMap(kw, IRBlocks, W)
        BY OfKindsIsMapped
      <4>2. IsMap(kw, IRBlocks, IRBlocks)
        BY OfKindsIsMapped
      <4>3. OfKinds(WordKinds, s) = Mapped(kw, s)
        BY OfKindsIsMapped
      <4>4. \A c \in IRBlocks : kw[c] = IF c.kind \in WordKinds THEN <<c>> ELSE <<>>
        BY OfKindsIsMapped
      <4>. QED
        BY <4>1, <4>2, <4>3, <4>4
    <3>2. /\ IsMap(kt, IRBlocks, T) /\ IsMap(kt, IRBlocks, IRBlocks) /\ OfKinds(ToolKinds, s) = Mapped(kt, s)
          /\ \A c \in IRBlocks : kt[c] = IF c.kind \in ToolKinds THEN <<c>> ELSE <<>>
      <4>1. IsMap(kt, IRBlocks, T)
        BY OfKindsIsMapped
      <4>2. IsMap(kt, IRBlocks, IRBlocks)
        BY OfKindsIsMapped
      <4>3. OfKinds(ToolKinds, s) = Mapped(kt, s)
        BY OfKindsIsMapped
      <4>4. \A c \in IRBlocks : kt[c] = IF c.kind \in ToolKinds THEN <<c>> ELSE <<>>
        BY OfKindsIsMapped
      <4>. QED
        BY <4>1, <4>2, <4>3, <4>4
    <3> HIDE DEF kw, kt, W, T
    <3>. QED
      BY <3>1, <3>2
  <2>2. OnlyWords(Mapped(HearC, s)) = Mapped(hw, s) /\ OnlyTools(Mapped(HearC, s)) = Mapped(ht, s)
    BY HearCFacts, OnlyMapped
  <2>3. \A c \in IRBlocks : hw[c] = OnlyWords(HearC[c]) /\ ht[c] = OnlyTools(HearC[c])
    BY DEF OnlyW, OnlyT
  <2> HIDE DEF kw, kt, hw, ht, W, T
  <2>4. Mapped(HearC, <<>>) = <<>> /\ \A c \in IRBlocks : Mapped(HearC, <<c>>) = HearC[c]
    BY HearCFacts, MappedFacts
  <2>5. ASSUME NEW c \in IRBlocks PROVE hw[c] = Mapped(HearC, kw[c]) /\ ht[c] = Mapped(HearC, kt[c])
    <3>0. ~(c.kind \in WordKinds /\ c.kind \in ToolKinds)
      BY DEF WordKinds, ToolKinds
    <3>1. CASE c.kind \in WordKinds
      BY <1>3, <2>1, <2>3, <2>4, <3>0, <3>1, OnlyFacts
    <3>2. CASE c.kind \in ToolKinds
      BY <1>4, <2>1, <2>3, <2>4, <3>0, <3>2, OnlyFacts
    <3>3. CASE c.kind \notin ToolKinds /\ c.kind \notin WordKinds
      BY <1>5, <2>1, <2>3, <2>4, <3>3, OnlyFacts
    <3>. QED
      BY <3>1, <3>2, <3>3
  <2>6. IsMap(hw, IRBlocks, Things) /\ IsMap(ht, IRBlocks, Things)
    <3>1. \A c \in IRBlocks : HearC[c] \in Seq(Things)
      BY HearCFacts DEF IsMap
    <3>. QED
      BY <2>3, <3>1, OnlyFacts DEF IsMap
  <2>7. Mapped(HearC, Mapped(kw, s)) = Mapped(hw, s)
    BY <2>1, <2>5, <2>6, HearCFacts, MappedTwice
  <2>8. Mapped(HearC, Mapped(kt, s)) = Mapped(ht, s)
    BY <2>1, <2>5, <2>6, HearCFacts, MappedTwice
  <2>9. Mapped(kw, s) \in Seq(W) /\ Mapped(kt, s) \in Seq(T)
    BY <2>1, MappedFacts
  <2>. QED
    BY <2>1, <2>2, <2>7, <2>8, <2>9
<1>8. ASSUME NEW s \in Seq(IRBlocks)
      PROVE  /\ SameThings(Mapped(HearC, s),
                           Mapped(HearC, OfKinds(WordKinds, s)) \o Mapped(HearC, OfKinds(ToolKinds, s)))
             /\ SameThings(Mapped(HearC, s),
                           Mapped(HearC, OfKinds(ToolKinds, s)) \o Mapped(HearC, OfKinds(WordKinds, s)))
  <2> DEFINE a == Mapped(HearC, OfKinds(WordKinds, s))
             b == Mapped(HearC, OfKinds(ToolKinds, s))
             c == Mapped(HearC, s)
  <2>1. a \in Seq(Wordy) /\ b \in Seq(Tooly) /\ OnlyWords(c) = a /\ OnlyTools(c) = b
    <3>1. OfKinds(WordKinds, s) \in Seq(W) /\ OfKinds(ToolKinds, s) \in Seq(T)
      BY <1>7
    <3> HIDE DEF W, T
    <3>2. a \in Seq(Wordy) /\ b \in Seq(Tooly)
      BY <1>6, <3>1, MappedFacts
    <3>. QED
      BY <1>7, <3>2
  <2> HIDE DEF a, b, c
  <2>2. a \in Seq(Things) /\ b \in Seq(Things)
    BY <2>1, OnlyFacts
  <2>8. OnlyWords(a \o b) = OnlyWords(a) \o OnlyWords(b) /\ OnlyTools(a \o b) = OnlyTools(a) \o OnlyTools(b)
    BY <2>2, OnlyFacts
  <2>9. OnlyWords(a) = a /\ OnlyTools(a) = <<>> /\ OnlyWords(b) = <<>> /\ OnlyTools(b) = b
    BY <2>1, OnlyFacts
  <2>3. OnlyWords(a \o b) = a \o <<>> /\ OnlyTools(a \o b) = <<>> \o b
    BY <2>8, <2>9
  <2>4. a \o <<>> = a /\ <<>> \o b = b
    BY <2>1, ConcatEmptySeq
  <2>5. SameThings(c, a \o b)
    BY <2>1, <2>3, <2>4 DEF SameThings
  <2>6. SameThings(a \o b, b \o a)
    BY <2>1, SameFacts
  <2>7. SameThings(c, b \o a)
    BY <2>5, <2>6, SameFacts
  <2>. QED
    BY <2>5, <2>7 DEF a, b, c
<1>. QED
  BY <1>1, <1>6, <1>7, <1>8

-----------------------------------------------------------------------------
(***************************************************************************)
(* Chat Completions.                                                       *)
(***************************************************************************)
ImageU == [type : {"image_url"}]
PartU  == TextA \cup ImageU
CallU  == [id : Nat, arguments : Args]
AnyU   == [role : Roles, content : Seq(PartU), tool_calls : Seq(CallU), call : Nat]
ChatMs == {m \in AnyU : /\ m.role # "assistant" => m.tool_calls = <<>>
                        /\ m.role # "user" => m.content \in Seq(TextA)}

HearU     == [p \in PartU |-> InPart(p)]
HearCall  == [tc \in CallU |-> Called(tc.id)]
HearUM    == [m \in AnyU |-> InChatMessage(m)]
PartToIR  == [p \in PartU |-> ChatPartToIR(p)]
CallToIR  == [tc \in CallU |-> ToolUse(tc.id, ArgumentsOr(tc.arguments, "{}"))]
UMToIR    == [m \in ChatMs |-> ChatMessageToIR(m)]
TextOf    == [c \in TextC |-> c.text]

(* Chat messages, taken apart and made.                                    *)
LEMMA AnyUFacts ==
    /\ \A m \in AnyU : /\ m.role \in Roles /\ m.content \in Seq(PartU)
                       /\ m.tool_calls \in Seq(CallU) /\ m.call \in Nat
    /\ \A r \in Roles, c \in Seq(PartU), t \in Seq(CallU), k \in Nat :
          LET m == [role |-> r, content |-> c, tool_calls |-> t, call |-> k]
          IN  m \in AnyU /\ m.role = r /\ m.content = c /\ m.tool_calls = t /\ m.call = k
<1> DEFINE S == Seq(PartU)
           T == Seq(CallU)
<1>1. AnyU = [role : Roles, content : S, tool_calls : T, call : Nat]
  BY DEF AnyU
<1> HIDE DEF S, T
<1>2. \A m \in AnyU : m.role \in Roles /\ m.content \in S /\ m.tool_calls \in T /\ m.call \in Nat
  BY <1>1
<1>3. \A r \in Roles, c \in S, t \in T, k \in Nat :
         LET m == [role |-> r, content |-> c, tool_calls |-> t, call |-> k]
         IN  m \in AnyU /\ m.role = r /\ m.content = c /\ m.tool_calls = t /\ m.call = k
  BY <1>1
<1>. QED
  BY <1>2, <1>3 DEF S, T

(* joinText: the words of the text blocks, in order.                       *)
LEMMA JoinFacts ==
    \A s \in Seq(IRBlocks) :
       /\ OfKinds({"text"}, s) \in Seq(TextC)
       /\ JoinText(s) \in Texts
       /\ Words(JoinText(s)) = Mapped(HearC, OfKinds({"text"}, s))
       /\ JoinText(s) = Mapped(TextOf, OfKinds({"text"}, s))
<1> DEFINE W == {c \in IRBlocks : c.kind \in {"text"}}
<1>1. W \subseteq TextC
  BY DEF IRBlocks, UserC, AssistantC, TextC, ImageC, CallC, ResultC, ThinkC
<1>2. ASSUME NEW s \in Seq(IRBlocks) PROVE OfKinds({"text"}, s) \in Seq(TextC)
  <2> DEFINE k == Keep(IRBlocks, {"text"})
  <2>1. IsMap(k, IRBlocks, W)
    BY OfKindsIsMapped
  <2>2. OfKinds({"text"}, s) = Mapped(k, s)
    BY OfKindsIsMapped
  <2> HIDE DEF k, W
  <2>3. Mapped(k, s) \in Seq(W)
    BY <2>1, MappedFacts
  <2>. QED
    BY <1>1, <2>2, <2>3, SeqOfMore
<1>3. IsMap(TextOf, TextC, Nat) /\ \A c \in TextC : TextOf[c] = c.text /\ c.text \in Texts
  BY DEF IsMap, TextOf, TextC, Texts
<1>4. ASSUME NEW s \in Seq(IRBlocks) PROVE JoinText(s) = Mapped(TextOf, OfKinds({"text"}, s))
  <2> DEFINE t == OfKinds({"text"}, s)
  <2>1. JoinText(s) = FlattenSeq([i \in DOMAIN t |-> t[i].text])
    BY DEF JoinText, FlatMap, MapSeq, OfKind
  <2>2. \A i \in DOMAIN t : t[i] \in TextC
    BY <1>2, ElementOfSeq, LenProperties
  <2> HIDE DEF t
  <2>3. [i \in DOMAIN t |-> t[i].text] = [i \in DOMAIN t |-> TextOf[t[i]]]
    BY <1>3, <2>2
  <2>. QED
    BY <2>1, <2>3 DEF Mapped, t
<1>5. \A t \in Seq(TextC) : Each(WordF, Mapped(TextOf, t)) = Mapped(HearC, t) /\ Mapped(TextOf, t) \in Seq(Nat)
  <2>1. \A c \in TextC : HearC[c] = Each(WordF, TextOf[c])
    BY <1>3, HearCFacts, WordsFacts
  <2>2. IsMap(HearC, TextC, Things)
    BY HearCFacts, TypesFacts DEF IsMap
  <2>3. \A t \in Seq(TextC) : Each(WordF, Mapped(TextOf, t)) = Mapped(HearC, t)
    BY <1>3, <2>1, <2>2, WordsFacts, MappedThenEach
  <2>4. \A t \in Seq(TextC) : Mapped(TextOf, t) \in Seq(Nat)
    BY <1>3, MappedFacts
  <2>. QED
    BY <2>3, <2>4
<1>6. ASSUME NEW s \in Seq(IRBlocks)
      PROVE  JoinText(s) \in Texts /\ Words(JoinText(s)) = Mapped(HearC, OfKinds({"text"}, s))
  BY <1>2, <1>4, <1>5, WordsFacts DEF Texts
<1>. QED
  BY <1>2, <1>4, <1>6

(* chatContentToIR, part by part;                                          *)
LEMMA PartFacts ==
    /\ IsMap(HearU, PartU, Wordy)
    /\ \A p \in TextA : HearU[p] = Words(p.text) /\ PartToIR[p] = Text(p.text) /\ PartToIR[p] \in TextC
    /\ \A p \in ImageU : HearU[p] = <<Picture>> /\ PartToIR[p] = Image /\ PartToIR[p] \in ImageC
    /\ IsFcn(PartToIR, PartU, TextC \cup ImageC) /\ IsFcn(PartToIR, TextA, TextC)
    /\ \A p \in PartU : HearC[PartToIR[p]] = HearU[p]
<1>1. \A p \in PartU : HearU[p] = InPart(p) /\ PartToIR[p] = ChatPartToIR(p)
  BY DEF HearU, PartToIR
<1>2. ASSUME NEW p \in TextA
      PROVE  /\ HearU[p] = Words(p.text) /\ PartToIR[p] = Text(p.text) /\ PartToIR[p] \in TextC
             /\ HearC[PartToIR[p]] = HearU[p] /\ HearU[p] \in Seq(Wordy)
  <2>1. p \in PartU /\ p.type = "text" /\ p.text \in Texts
    BY DEF TextA, PartU
  <2>2. InPart(p) = Words(p.text) /\ ChatPartToIR(p) = Text(p.text)
    BY <2>1 DEF InPart, ChatPartToIR
  <2>. QED
    BY <1>1, <2>1, <2>2, BlocksAre, HearCFacts, HearKinds
<1>3. ASSUME NEW p \in ImageU
      PROVE  /\ HearU[p] = <<Picture>> /\ PartToIR[p] = Image /\ PartToIR[p] \in ImageC
             /\ HearC[PartToIR[p]] = HearU[p] /\ HearU[p] \in Seq(Wordy)
  <2>1. p \in PartU /\ p.type = "image_url"
    BY DEF ImageU, PartU
  <2>2. InPart(p) = <<Picture>> /\ ChatPartToIR(p) = Image
    BY <2>1 DEF InPart, ChatPartToIR
  <2>3. Picture \in Wordy
    BY ThingsAre DEF Wordy, Picture
  <2>4. Image \in ImageC /\ HearC[Image] = <<Picture>>
    BY BlocksAre, HearCFacts
  <2>5. <<Picture>> \in Seq(Wordy)
    BY <2>3, OneThing
  <2>. QED
    BY <1>1, <2>1, <2>2, <2>4, <2>5
<1>. QED
  BY <1>2, <1>3 DEF IsMap, IsFcn, PartU

(* the tool calls, one by one;                                             *)
LEMMA CallFacts ==
    /\ IsFcn(HearCall, CallU, Tooly) /\ IsFcn(CallToIR, CallU, CallC)
    /\ \A tc \in CallU : /\ HearCall[tc] = Called(tc.id)
                         /\ CallToIR[tc] = ToolUse(tc.id, ArgumentsOr(tc.arguments, "{}"))
                         /\ HearC[CallToIR[tc]] = <<HearCall[tc]>>
<1>1. \A tc \in CallU : /\ HearCall[tc] = Called(tc.id)
                        /\ CallToIR[tc] = ToolUse(tc.id, ArgumentsOr(tc.arguments, "{}"))
  BY DEF HearCall, CallToIR
<1>2. ASSUME NEW tc \in CallU
      PROVE  HearCall[tc] \in Tooly /\ CallToIR[tc] \in CallC /\ HearC[CallToIR[tc]] = <<HearCall[tc]>>
  <2> DEFINE a == ArgumentsOr(tc.arguments, "{}")
             c == ToolUse(tc.id, a)
  <2>1. tc.id \in Nat /\ tc.arguments \in Args
    BY DEF CallU
  <2>2. a \in Args
    BY <2>1 DEF ArgumentsOr, Args
  <2>3. CallToIR[tc] = c
    BY <1>1
  <2> HIDE DEF a
  <2>4. c \in CallC /\ c.id = tc.id
    BY <2>1, <2>2, BlocksAre
  <2> HIDE DEF c
  <2>5. Called(tc.id) \in Tooly
    BY <2>1, ThingsAre DEF Called, Tooly
  <2>. QED
    BY <1>1, <2>3, <2>4, <2>5, HearCFacts
<1>. QED
  BY <1>1, <1>2 DEF IsFcn

(* the parts of a message together,                                        *)
LEMMA ContentToIR ==
    \A s \in Seq(PartU) :
       /\ ChatContentToIR(s) = Each(PartToIR, s) /\ ChatContentToIR(s) \in Seq(IRBlocks)
       /\ InParts(s) = Mapped(HearU, s) /\ InParts(s) \in Seq(Wordy)
       /\ Mapped(HearC, ChatContentToIR(s)) = InParts(s)
       /\ s \in Seq(TextA) => ChatContentToIR(s) \in Seq(TextC)
       /\ ChatContentToIR(s) \in Seq(TextC \cup ImageC)
<1> TAKE s \in Seq(PartU)
<1>1. \A i \in DOMAIN s : s[i] \in PartU
  BY ElementOfSeq, LenProperties
<1>2. [i \in DOMAIN s |-> ChatPartToIR(s[i])] = [i \in DOMAIN s |-> PartToIR[s[i]]]
  BY <1>1 DEF PartToIR
<1>3. ChatContentToIR(s) = Each(PartToIR, s)
  BY <1>2 DEF ChatContentToIR, MapSeq, Each
<1>4. [i \in DOMAIN s |-> InPart(s[i])] = [i \in DOMAIN s |-> HearU[s[i]]]
  BY <1>1 DEF HearU
<1>5. InParts(s) = Mapped(HearU, s)
  BY <1>4 DEF InParts, FlatMap, MapSeq, Mapped
<1>6. Mapped(HearU, s) \in Seq(Wordy)
  BY PartFacts, MappedFacts
<1>7. Each(PartToIR, s) \in Seq(TextC \cup ImageC) /\ (s \in Seq(TextA) => Each(PartToIR, s) \in Seq(TextC))
  BY PartFacts, EachFacts
<1>8. Each(PartToIR, s) \in Seq(IRBlocks)
  <2>1. TextC \cup ImageC \subseteq IRBlocks
    BY DEF IRBlocks, UserC
  <2>2. Seq(TextC \cup ImageC) \subseteq Seq(IRBlocks)
    BY <2>1, SeqOfMore
  <2>. QED
    BY <1>7, <2>2
<1>9. Mapped(HearC, Each(PartToIR, s)) = Mapped(HearU, s)
  <2>1. IsFcn(PartToIR, PartU, TextC \cup ImageC) /\ \A p \in PartU : HearU[p] = HearC[PartToIR[p]]
    BY PartFacts
  <2>. QED
    BY <2>1, EachThenMapped
<1>. QED
  BY <1>3, <1>5, <1>6, <1>7, <1>8, <1>9

(* and its calls.                                                          *)
LEMMA CallsToIR ==
    \A s \in Seq(CallU) :
       /\ MapSeq(LAMBDA tc : Called(tc.id), s) = Each(HearCall, s) /\ Each(HearCall, s) \in Seq(Tooly)
       /\ MapSeq(LAMBDA tc : ToolUse(tc.id, ArgumentsOr(tc.arguments, "{}")), s) = Each(CallToIR, s)
       /\ Each(CallToIR, s) \in Seq(CallC)
       /\ Mapped(HearC, Each(CallToIR, s)) = Each(HearCall, s)
<1> TAKE s \in Seq(CallU)
<1>1. \A i \in DOMAIN s : s[i] \in CallU
  BY ElementOfSeq, LenProperties
<1>2. [i \in DOMAIN s |-> Called(s[i].id)] = [i \in DOMAIN s |-> HearCall[s[i]]]
  BY <1>1, CallFacts
<1>3. [i \in DOMAIN s |-> ToolUse(s[i].id, ArgumentsOr(s[i].arguments, "{}"))]
      = [i \in DOMAIN s |-> CallToIR[s[i]]]
  BY <1>1, CallFacts
<1>4. Each(HearCall, s) \in Seq(Tooly) /\ Each(CallToIR, s) \in Seq(CallC)
  BY CallFacts, EachFacts
<1>5. Mapped(HearC, Each(CallToIR, s)) = Each(HearCall, s)
  <2> DEFINE h == Singly(HearCall, CallU)
  <2>0. IsFcn(HearCall, CallU, Tooly) /\ IsFcn(CallToIR, CallU, CallC)
    BY CallFacts
  <2>1. Each(HearCall, s) = Mapped(h, s)
    BY <2>0, EachIsMapped
  <2>2. \A tc \in CallU : h[tc] = <<HearCall[tc]>>
    BY <2>0, SinglyIsMap
  <2> HIDE DEF h
  <2>3. \A tc \in CallU : h[tc] = HearC[CallToIR[tc]]
    BY <2>2, CallFacts
  <2>4. Mapped(HearC, Each(CallToIR, s)) = Mapped(h, s)
    BY <2>0, <2>3, EachThenMapped
  <2>. QED
    BY <2>1, <2>4
<1>. QED
  BY <1>2, <1>3, <1>4, <1>5 DEF MapSeq, Each

(* What is heard of a Chat message, by its role.                           *)
LEMMA InChat ==
    \A m \in AnyU :
       /\ HearUM[m] = InChatMessage(m)
       /\ m.role = "tool" => HearUM[m] = <<Returned(m.call, ReadsFailed(JoinText(ChatContentToIR(m.content))))>>
       /\ m.role # "tool" => HearUM[m] = Mapped(HearU, m.content) \o Each(HearCall, m.tool_calls)
       /\ HearUM[m] \in Seq(Things)
<1> TAKE m \in AnyU
<1>1. HearUM[m] = InChatMessage(m)
  BY DEF HearUM
<1>2. m.content \in Seq(PartU) /\ m.tool_calls \in Seq(CallU) /\ m.call \in Nat
  BY AnyUFacts
<1>3. CASE m.role = "tool"
  <2> DEFINE b == ReadsFailed(JoinText(ChatContentToIR(m.content)))
  <2>1. HearUM[m] = <<Returned(m.call, b)>>
    BY <1>1, <1>3 DEF InChatMessage
  <2>2. b \in BOOLEAN
    BY DEF ReadsFailed
  <2> HIDE DEF b
  <2>3. Returned(m.call, b) \in Things
    BY <1>2, <2>2, ThingsAre
  <2>4. HearUM[m] \in Seq(Things)
    BY <2>1, <2>3, OneThing
  <2>. QED
    BY <1>1, <1>3, <2>1, <2>4 DEF b
<1>4. CASE m.role # "tool"
  <2> DEFINE a == Mapped(HearU, m.content)
             b == Each(HearCall, m.tool_calls)
  <2>1. InChatMessage(m) = InParts(m.content) \o MapSeq(LAMBDA tc : Called(tc.id), m.tool_calls)
    BY <1>4 DEF InChatMessage
  <2>2. InParts(m.content) = a /\ a \in Seq(Wordy)
    BY <1>2, ContentToIR
  <2>3. MapSeq(LAMBDA tc : Called(tc.id), m.tool_calls) = b /\ b \in Seq(Tooly)
    BY <1>2, CallsToIR
  <2>4. InChatMessage(m) = a \o b
    BY <2>1, <2>2, <2>3
  <2> HIDE DEF a, b
  <2>5. a \o b \in Seq(Things)
    BY <2>2, <2>3, OnlyFacts, ConcatProperties
  <2>. QED
    BY <1>1, <1>4, <2>4, <2>5 DEF a, b
<1>. QED
  BY <1>3, <1>4

(* The Chat messages that occur: only the assistant calls tools, only the  *)
(* user shows pictures.                                                    *)
LEMMA ChatTypes ==
    /\ \A m \in ChatMs : /\ m \in AnyU
                         /\ m.role # "assistant" => m.tool_calls = <<>>
                         /\ m.role # "user" => m.content \in Seq(TextA)
                         /\ m.role \in Roles /\ m.content \in Seq(PartU)
                         /\ m.tool_calls \in Seq(CallU) /\ m.call \in Nat
    /\ Seq(ChatMs) \subseteq Seq(AnyU)
    /\ Seq(TextA) \subseteq Seq(PartU)
<1>1. \A m \in ChatMs : /\ m \in AnyU
                        /\ m.role # "assistant" => m.tool_calls = <<>>
                        /\ m.role # "user" => m.content \in Seq(TextA)
  BY DEF ChatMs
<1>2. ASSUME NEW m \in ChatMs
      PROVE  m.role \in Roles /\ m.content \in Seq(PartU) /\ m.tool_calls \in Seq(CallU) /\ m.call \in Nat
  <2>1. m \in AnyU
    BY <1>1
  <2>. QED
    BY <2>1, AnyUFacts
<1>3. ChatMs \subseteq AnyU /\ TextA \subseteq PartU
  BY DEF ChatMs, PartU
<1>4. Seq(ChatMs) \subseteq Seq(AnyU) /\ Seq(TextA) \subseteq Seq(PartU)
  BY <1>3, SeqOfMore
<1>. QED
  BY <1>1, <1>2, <1>4

(* IR messages and what they are made of.                                  *)
LEMMA MoreTypes ==
    /\ Seq(TextC \cup ImageC) \subseteq Seq(UserC)
    /\ Seq(TextC) \subseteq Seq(AssistantC) /\ Seq(CallC) \subseteq Seq(AssistantC)
    /\ Seq(CallC) \subseteq Seq(IRBlocks)
    /\ \A c \in Seq(TextC) : Message("system", c) \in IRMessages
    /\ \A c \in Seq(UserC) : Message("user", c) \in IRMessages
    /\ \A c \in Seq(AssistantC) : Message("assistant", c) \in IRMessages
    /\ \A c \in Seq(ResultC) : Message("tool", c) \in IRMessages
<1>1. /\ Seq(TextC \cup ImageC) \subseteq Seq(UserC) /\ Seq(TextC) \subseteq Seq(AssistantC)
      /\ Seq(CallC) \subseteq Seq(AssistantC) /\ Seq(CallC) \subseteq Seq(IRBlocks)
  <2>1. /\ TextC \cup ImageC \subseteq UserC /\ TextC \subseteq AssistantC /\ CallC \subseteq AssistantC
        /\ CallC \subseteq IRBlocks
    BY DEF UserC, AssistantC, IRBlocks
  <2>2. Seq(TextC \cup ImageC) \subseteq Seq(UserC)
    BY <2>1, SeqOfMore
  <2>3. Seq(TextC) \subseteq Seq(AssistantC)
    BY <2>1, SeqOfMore
  <2>4. Seq(CallC) \subseteq Seq(AssistantC)
    BY <2>1, SeqOfMore
  <2>5. Seq(CallC) \subseteq Seq(IRBlocks)
    BY <2>1, SeqOfMore
  <2>. QED
    BY <2>2, <2>3, <2>4, <2>5
<1> DEFINE T == Seq(TextC)
           U == Seq(UserC)
           S == Seq(AssistantC)
           R == Seq(ResultC)
<1>2. IRMessages = [role : {"system"}, content : T] \cup [role : {"user"}, content : U]
                   \cup [role : {"assistant"}, content : S] \cup [role : {"tool"}, content : R]
  BY DEF IRMessages
<1> HIDE DEF T, U, S, R
<1>3. /\ \A c \in T : Message("system", c) \in IRMessages
      /\ \A c \in U : Message("user", c) \in IRMessages
      /\ \A c \in S : Message("assistant", c) \in IRMessages
      /\ \A c \in R : Message("tool", c) \in IRMessages
  BY <1>2 DEF Message
<1>. QED
  BY <1>1, <1>3 DEF T, U, S, R

(* chatRequest.ToIR, message by message, keeps what is heard.              *)
LEMMA UMToIRFacts ==
    /\ IsFcn(UMToIR, ChatMs, IRMessages)
    /\ \A m \in ChatMs : /\ UMToIR[m] = ChatMessageToIR(m)
                         /\ HearM[UMToIR[m]] = HearUM[m]
                         /\ UMToIR[m].role = IF m.role = "developer" THEN "system" ELSE m.role
<1>1. \A m \in ChatMs : UMToIR[m] = ChatMessageToIR(m)
  BY DEF UMToIR
<1>2. ASSUME NEW m \in ChatMs
      PROVE  /\ UMToIR[m] \in IRMessages /\ HearM[UMToIR[m]] = HearUM[m]
             /\ UMToIR[m].role = IF m.role = "developer" THEN "system" ELSE m.role
  <2> DEFINE c == ChatContentToIR(m.content)
             d == Each(CallToIR, m.tool_calls)
  <2>1. /\ m \in AnyU /\ m.role \in Roles /\ m.content \in Seq(PartU) /\ m.tool_calls \in Seq(CallU)
        /\ m.call \in Nat
        /\ m.role # "assistant" => m.tool_calls = <<>>
        /\ m.role # "user" => m.content \in Seq(TextA)
    BY ChatTypes
  <2>2. /\ c \in Seq(IRBlocks) /\ Mapped(HearC, c) = Mapped(HearU, m.content)
        /\ Mapped(HearU, m.content) \in Seq(Wordy)
        /\ m.role # "user" => c \in Seq(TextC)
        /\ c \in Seq(TextC \cup ImageC)
    BY <2>1, ContentToIR
  <2>3. /\ d \in Seq(CallC) /\ Mapped(HearC, d) = Each(HearCall, m.tool_calls)
        /\ MapSeq(LAMBDA tc : ToolUse(tc.id, ArgumentsOr(tc.arguments, "{}")), m.tool_calls) = d
    BY <2>1, CallsToIR
  <2>4. m.tool_calls = <<>> => Each(HearCall, m.tool_calls) = <<>>
    <3>1. IsFcn(HearCall, CallU, Tooly)
      BY CallFacts
    <3>2. Each(HearCall, <<>>) = <<>>
      BY <3>1, EachFacts
    <3>. QED
      BY <3>2
  <2>5. Mapped(HearU, m.content) \o <<>> = Mapped(HearU, m.content)
    BY <2>2, ConcatEmptySeq
  <2>6. m.role \notin {"assistant", "tool"} => HearUM[m] = Mapped(HearC, c)
    BY <2>1, <2>2, <2>4, <2>5, InChat
  <2>7. CASE m.role \in {"system", "developer"}
    <3>1. UMToIR[m] = Message("system", c)
      BY <1>1, <2>7 DEF ChatMessageToIR
    <3> HIDE DEF c
    <3>2. c \in Seq(TextC)
      BY <2>2, <2>7
    <3>3. UMToIR[m] \in IRMessages /\ UMToIR[m].content = c /\ UMToIR[m].role = "system"
      BY <3>1, <3>2, MoreTypes, MessageFacts
    <3>4. HearM[UMToIR[m]] = Mapped(HearC, c)
      BY <3>3, HearMFacts, TypesFacts
    <3>. QED
      BY <2>6, <2>7, <3>3, <3>4
  <2>8. CASE m.role = "user"
    <3>1. UMToIR[m] = Message("user", c)
      BY <1>1, <2>8 DEF ChatMessageToIR
    <3> HIDE DEF c
    <3>2. c \in Seq(UserC)
      BY <2>2, MoreTypes
    <3>3. UMToIR[m] \in IRMessages /\ UMToIR[m].content = c /\ UMToIR[m].role = "user"
      BY <3>1, <3>2, MoreTypes, MessageFacts
    <3>4. HearM[UMToIR[m]] = Mapped(HearC, c)
      BY <3>3, HearMFacts, TypesFacts
    <3>. QED
      BY <2>6, <2>8, <3>3, <3>4
  <2>9. CASE m.role = "assistant"
    <3>1. UMToIR[m] = Message("assistant", c \o d)
      BY <1>1, <2>3, <2>9 DEF ChatMessageToIR
    <3> HIDE DEF c, d
    <3>2. c \in Seq(AssistantC) /\ d \in Seq(AssistantC) /\ d \in Seq(IRBlocks)
      BY <2>2, <2>3, <2>9, MoreTypes
    <3>3. c \o d \in Seq(AssistantC)
      BY <3>2, ConcatProperties
    <3> DEFINE e == c \o d
    <3> HIDE DEF e
    <3>4. UMToIR[m] \in IRMessages /\ UMToIR[m].content = c \o d /\ UMToIR[m].role = "assistant"
      <4>1. e \in Seq(AssistantC) /\ UMToIR[m] = Message("assistant", e)
        BY <3>1, <3>3 DEF e
      <4>2. UMToIR[m] \in IRMessages
        BY <4>1, MoreTypes
      <4>3. UMToIR[m].content = e /\ UMToIR[m].role = "assistant"
        BY <4>1, MessageFacts
      <4>. QED
        BY <4>2, <4>3 DEF e
    <3>5. HearM[UMToIR[m]] = Mapped(HearC, c \o d)
      BY <3>4, HearMFacts, TypesFacts
    <3>6. Mapped(HearC, c \o d) = Mapped(HearC, c) \o Mapped(HearC, d)
      BY <2>2, <3>2, HearCFacts, MappedConcat
    <3>7. HearUM[m] = Mapped(HearU, m.content) \o Each(HearCall, m.tool_calls)
      BY <2>1, <2>9, InChat
    <3>. QED
      BY <2>2, <2>3, <2>9, <3>4, <3>5, <3>6, <3>7
  <2>10. CASE m.role = "tool"
    <3> DEFINE t == JoinText(c)
               o == [json |-> FALSE, text |-> t]
               b == ToolResult(m.call, o, FALSE)
    <3>1. UMToIR[m] = Message("tool", <<b>>)
      BY <1>1, <2>10 DEF ChatMessageToIR
    <3>2. t \in Texts
      BY <2>2, JoinFacts
    <3>3. HearUM[m] = <<Returned(m.call, ReadsFailed(t))>>
      BY <2>1, <2>10, InChat
    <3> HIDE DEF t, c
    <3>4. o \in Outs /\ o.text = t /\ o.json = FALSE
      BY <3>2 DEF Outs
    <3> HIDE DEF o
    <3>5. b \in ResultC /\ b.id = m.call /\ b.out = o /\ b.is_error = FALSE
      BY <2>1, <3>4, BlocksAre
    <3> HIDE DEF b
    <3>6. <<b>> \in Seq(ResultC)
      BY <3>5, OneThing
    <3> DEFINE bs == <<b>>
    <3>7. bs \in Seq(ResultC) /\ UMToIR[m] = Message("tool", bs) /\ Mapped(HearC, bs) = HearC[b]
      <4>1. b \in IRBlocks
        BY <3>5, TypesFacts
      <4>. QED
        BY <3>1, <3>6, <4>1, HearCFacts, MappedFacts
    <3> HIDE DEF bs
    <3>8. UMToIR[m] \in IRMessages /\ UMToIR[m].content = bs /\ UMToIR[m].role = "tool"
      BY <3>7, MoreTypes, MessageFacts
    <3>9. HearM[UMToIR[m]] = HearC[b]
      BY <3>7, <3>8, HearMFacts, TypesFacts
    <3>10. HearC[b] = <<Returned(b.id, b.is_error \/ ReadsFailed(b.out.text))>>
      BY <3>5, HearCFacts
    <3>11. (b.is_error \/ ReadsFailed(b.out.text)) = ReadsFailed(t)
      BY <3>4, <3>5 DEF ReadsFailed
    <3>12. HearC[b] = <<Returned(m.call, ReadsFailed(t))>>
      BY <3>5, <3>10, <3>11
    <3>. QED
      BY <2>10, <3>3, <3>8, <3>9, <3>12
  <2>. QED
    BY <2>1, <2>7, <2>8, <2>9, <2>10 DEF Roles
<1>. QED
  BY <1>1, <1>2 DEF IsFcn

(* chatRequest.ToIR: what was heard in the request is in the IR.           *)
LEMMA UToIRRequest ==
    ASSUME NEW w, w.messages \in Seq(ChatMs)
    PROVE  LET r == ChatRequestToIR(w)
               split == SplitSystem(Each(UMToIR, w.messages))
           IN  /\ r.system = ContentOf(split.system) /\ r.messages = split.rest
               /\ r.system \in Seq(TextC) /\ r.messages \in Seq(IRMessages)
               /\ Each(UMToIR, w.messages) \in Seq(IRMessages)
               /\ HeardIR(r) = Heard("openai_chat", w)
<1> DEFINE r == ChatRequestToIR(w)
           h == Each(UMToIR, w.messages)
           split == SplitSystem(h)
           sys == split.system
           rest == split.rest
<1>1. \A i \in DOMAIN w.messages : w.messages[i] \in ChatMs
  BY ElementOfSeq, LenProperties
<1>2. MapSeq(ChatMessageToIR, w.messages) = h
  <2>1. [i \in DOMAIN w.messages |-> ChatMessageToIR(w.messages[i])] = [i \in DOMAIN w.messages |-> UMToIR[w.messages[i]]]
    BY <1>1, UMToIRFacts
  <2>. QED
    BY <2>1 DEF MapSeq, Each
<1>3. r.system = ContentOf(sys) /\ r.messages = rest
  BY <1>2 DEF ChatRequestToIR
<1>4. h \in Seq(IRMessages)
  BY UMToIRFacts, EachFacts
<1>5. sys \in Seq(IRMessages) /\ rest \in Seq(IRMessages) /\ sys \o rest = h /\ AllSystem(sys)
  BY <1>4, SplitFacts
<1>6. ContentOf(sys) \in Seq(TextC) /\ Mapped(HearC, ContentOf(sys)) = Mapped(HearM, sys)
  BY <1>5, ContentFacts, TypesFacts
<1>7. Mapped(HearM, h) = Mapped(HearUM, w.messages)
  <2>1. \A m \in ChatMs : HearUM[m] = HearM[UMToIR[m]]
    BY UMToIRFacts
  <2>. QED
    BY <2>1, UMToIRFacts, EachThenMapped
<1>8. InHistory("openai_chat", w.messages) = Mapped(HearUM, w.messages)
  <2>1. [i \in DOMAIN w.messages |-> InChatMessage(w.messages[i])] = [i \in DOMAIN w.messages |-> HearUM[w.messages[i]]]
    BY <1>1, InChat, ChatTypes
  <2>. QED
    BY <2>1 DEF InHistory, FlatMap, MapSeq, Mapped
<1>9. Mapped(HearM, h) \in Seq(Things)
  BY <1>4, HearMFacts, MappedFacts, TypesFacts
<1>10. Mapped(HearM, sys \o rest) = Mapped(HearM, sys) \o Mapped(HearM, rest)
  <2>1. sys \in Seq(AnyIR) /\ rest \in Seq(AnyIR)
    BY <1>5, TypesFacts
  <2>2. IsMap(HearM, AnyIR, Things)
    BY HearMFacts
  <2> HIDE DEF sys, rest
  <2>. QED
    BY <2>1, <2>2, MappedConcat
<1> HIDE DEF r, h, split
<1>11. HeardIR(r) = Mapped(HearM, h)
  BY <1>3, <1>5, <1>6, <1>10 DEF HeardIR
<1>12. Heard("openai_chat", w) = <<>> \o Mapped(HearM, h)
  BY <1>7, <1>8 DEF Heard, InSystem, History
<1>13. <<>> \o Mapped(HearM, h) = Mapped(HearM, h)
  BY <1>9, ConcatEmptySeq
<1>. QED
  BY <1>3, <1>4, <1>5, <1>6, <1>11, <1>12, <1>13 DEF r, h, split

(* An IR message, by its role.                                             *)
LEMMA IRMessageCases ==
    \A m \in IRMessages :
       /\ m \in AnyIR
       /\ \/ m.role = "system" /\ m.content \in Seq(TextC)
          \/ m.role = "user" /\ m.content \in Seq(UserC)
          \/ m.role = "assistant" /\ m.content \in Seq(AssistantC)
          \/ m.role = "tool" /\ m.content \in Seq(ResultC)
<1> DEFINE T == Seq(TextC)
           U == Seq(UserC)
           S == Seq(AssistantC)
           R == Seq(ResultC)
<1>1. IRMessages = [role : {"system"}, content : T] \cup [role : {"user"}, content : U]
                   \cup [role : {"assistant"}, content : S] \cup [role : {"tool"}, content : R]
  BY DEF IRMessages
<1>2. \A m \in IRMessages : m \in AnyIR
  BY TypesFacts
<1> HIDE DEF T, U, S, R
<1>3. \A m \in IRMessages : \/ m.role = "system" /\ m.content \in T
                            \/ m.role = "user" /\ m.content \in U
                            \/ m.role = "assistant" /\ m.content \in S
                            \/ m.role = "tool" /\ m.content \in R
  BY <1>1
<1>. QED
  BY <1>2, <1>3 DEF T, U, S, R

(* Selections by kinds that the elements do not tell apart,                *)
LEMMA KindsSame ==
    ASSUME NEW A, NEW K, NEW L, \A c \in A : (c.kind \in K) = (c.kind \in L)
    PROVE  \A s \in Seq(A) : OfKinds(K, s) = OfKinds(L, s)
<1>1. \A c \in A : Keep(A, K)[c] = Keep(A, L)[c]
  <2>1. \A c \in A : Keep(A, K)[c] = IF c.kind \in K THEN <<c>> ELSE <<>>
    BY OfKindsIsMapped
  <2>2. \A c \in A : Keep(A, L)[c] = IF c.kind \in L THEN <<c>> ELSE <<>>
    BY OfKindsIsMapped
  <2> HIDE DEF Keep
  <2>. QED
    BY <2>1, <2>2
<1>2. \A s \in Seq(A) : OfKinds(K, s) = Mapped(Keep(A, K), s)
  BY OfKindsIsMapped
<1>3. \A s \in Seq(A) : OfKinds(L, s) = Mapped(Keep(A, L), s)
  BY OfKindsIsMapped
<1>4. \A s \in Seq(A) : Mapped(Keep(A, K), s) = Mapped(Keep(A, L), s)
  BY <1>1, MappedSame
<1>. QED
  BY <1>2, <1>3, <1>4

(* and the type of what is selected.                                       *)
LEMMA OfKindsIn ==
    ASSUME NEW A, NEW B, NEW K, \A c \in A : c.kind \in K => c \in B
    PROVE  \A s \in Seq(A) : OfKinds(K, s) \in Seq(B)
<1> DEFINE W == {c \in A : c.kind \in K}
           k == Keep(A, K)
<1>1. IsMap(k, A, W)
  BY OfKindsIsMapped
<1>2. \A s \in Seq(A) : OfKinds(K, s) = Mapped(k, s)
  BY OfKindsIsMapped
<1>3. W \subseteq B
  OBVIOUS
<1> HIDE DEF k, W
<1>4. \A s \in Seq(A) : Mapped(k, s) \in Seq(W)
  BY <1>1, MappedFacts
<1>5. Seq(W) \subseteq Seq(B)
  BY <1>3, SeqOfMore
<1>. QED
  BY <1>2, <1>4, <1>5

(* The selections the codecs make.                                         *)
LEMMA KindsFacts ==
    /\ \A s \in Seq(IRBlocks) : /\ OfKinds({"text"}, s) \in Seq(TextC)
                                /\ OfKinds(WordKinds, s) \in Seq(TextC \cup ImageC)
                                /\ OfKinds({"tool_use"}, s) \in Seq(CallC)
                                /\ OfKinds({"tool_result"}, s) \in Seq(ResultC)
    /\ \A s \in Seq(UserC) : OfKinds(ToolKinds, s) = OfKinds({"tool_result"}, s)
    /\ \A s \in Seq(AssistantC) : /\ OfKinds(ToolKinds, s) = OfKinds({"tool_use"}, s)
                                  /\ OfKinds(WordKinds, s) = OfKinds({"text"}, s)
<1>1. \A c \in IRBlocks : /\ c.kind \in {"text"} => c \in TextC
                          /\ c.kind \in WordKinds => c \in TextC \cup ImageC
                          /\ c.kind \in {"tool_use"} => c \in CallC
                          /\ c.kind \in {"tool_result"} => c \in ResultC
  BY DEF IRBlocks, UserC, AssistantC, TextC, ImageC, CallC, ResultC, ThinkC, WordKinds
<1>2. \A s \in Seq(IRBlocks) : OfKinds({"text"}, s) \in Seq(TextC)
  BY <1>1, OfKindsIn
<1>3. \A s \in Seq(IRBlocks) : OfKinds(WordKinds, s) \in Seq(TextC \cup ImageC)
  BY <1>1, OfKindsIn
<1>4. \A s \in Seq(IRBlocks) : OfKinds({"tool_use"}, s) \in Seq(CallC)
  BY <1>1, OfKindsIn
<1>5. \A s \in Seq(IRBlocks) : OfKinds({"tool_result"}, s) \in Seq(ResultC)
  BY <1>1, OfKindsIn
<1>6. \A s \in Seq(UserC) : OfKinds(ToolKinds, s) = OfKinds({"tool_result"}, s)
  <2>1. \A c \in UserC : (c.kind \in ToolKinds) = (c.kind \in {"tool_result"})
    BY DEF UserC, TextC, ImageC, ResultC, ToolKinds
  <2>. QED
    BY <2>1, KindsSame
<1>7. \A s \in Seq(AssistantC) : OfKinds(ToolKinds, s) = OfKinds({"tool_use"}, s)
  <2>1. \A c \in AssistantC : (c.kind \in ToolKinds) = (c.kind \in {"tool_use"})
    BY DEF AssistantC, TextC, ThinkC, CallC, ToolKinds
  <2>. QED
    BY <2>1, KindsSame
<1>8. \A s \in Seq(AssistantC) : OfKinds(WordKinds, s) = OfKinds({"text"}, s)
  <2>1. \A c \in AssistantC : (c.kind \in WordKinds) = (c.kind \in {"text"})
    BY DEF AssistantC, TextC, ThinkC, CallC, WordKinds
  <2>. QED
    BY <2>1, KindsSame
<1>. QED
  BY <1>2, <1>3, <1>4, <1>5, <1>6, <1>7, <1>8

-----------------------------------------------------------------------------
(***************************************************************************)
(* Chat Completions, from the IR.                                          *)
(***************************************************************************)
AsPartF   == [c \in TextC \cup ImageC |-> AsPart(c)]
CallFromF == [c \in CallC |-> [id |-> c.id, arguments |-> ArgumentsOr(c.input, "{}")]]
ResultToU == [c \in ResultC |-> ToolMsg(c.id, AsString(Prefixed(c)))]
PartText  == [p \in TextA |-> p.text]

(* A string of content, there and back.                                    *)
LEMMA StringFacts ==
    \A t \in Texts : /\ AsString(t) \in Seq(TextA) /\ AsString(t) \in Seq(PartU)
                     /\ Mapped(HearU, AsString(t)) = Words(t)
                     /\ JoinText(ChatContentToIR(AsString(t))) = t
                     /\ AsString(t) # <<>>
<1> TAKE t \in Texts
<1> DEFINE p == [type |-> "text", text |-> t]
           s == <<p>>
<1>1. AsString(t) = s
  BY DEF AsString
<1>2. p \in TextA /\ p.text = t
  BY DEF TextA
<1>3. p \in PartU
  BY <1>2 DEF PartU
<1> HIDE DEF p
<1>4. s \in Seq(TextA) /\ s \in Seq(PartU)
  BY <1>2, <1>3, OneThing
<1>5. Mapped(HearU, s) = Words(t)
  BY <1>2, <1>3, PartFacts, MappedFacts
<1> DEFINE c == PartToIR[p]
           cs == <<c>>
<1>6. c \in TextC /\ c.text = t
  <2>1. c \in TextC /\ c = Text(t)
    BY <1>2, PartFacts
  <2>. QED
    BY <2>1 DEF Text
<1>7. ChatContentToIR(s) = cs
  <2>1. ChatContentToIR(s) = Each(PartToIR, s)
    BY <1>4, ContentToIR
  <2>. QED
    BY <2>1 DEF Each
<1> HIDE DEF c
<1>8. cs \in Seq(TextC) /\ cs \in Seq(IRBlocks)
  BY <1>6, OneThing, TypesFacts
<1>9. OfKinds({"text"}, cs) = cs
  <2>1. \A x \in TextC : x.kind \in {"text"}
    BY DEF TextC
  <2>. QED
    BY <1>8, <2>1, KeepAll
<1>10. Mapped(TextOf, cs) = t
  <2>1. IsMap(TextOf, TextC, Nat) /\ TextOf[c] = c.text
    BY <1>6 DEF IsMap, TextOf, TextC, Texts
  <2>. QED
    BY <1>6, <2>1, MappedFacts
<1>11. JoinText(cs) = t
  BY <1>8, <1>9, <1>10, JoinFacts
<1>12. s # <<>>
  OBVIOUS
<1> HIDE DEF s, cs
<1>. QED
  BY <1>1, <1>4, <1>5, <1>7, <1>11, <1>12

(* toolResultsToChat: a failed call reads as failed, and only a failed     *)
(* one.                                                                    *)
LEMMA PrefixedFacts ==
    \A c \in ResultC : /\ Prefixed(c) \in Texts
                       /\ ReadsFailed(Prefixed(c)) = (c.is_error \/ ReadsFailed(c.out.text))
<1> TAKE c \in ResultC
<1> DEFINE t == c.out.text
           S == Seq(Nat)
<1>1. c.is_error \in BOOLEAN /\ t \in S
  <2>1. c.is_error \in BOOLEAN /\ c.out \in Outs
    BY DEF ResultC
  <2>2. \A o \in [json : BOOLEAN, text : S] : o.text \in S
    <3> HIDE DEF S
    <3>. QED
      OBVIOUS
  <2>. QED
    BY <2>1, <2>2 DEF Outs, Texts
<1>2. CASE c.is_error /\ (t = <<>> \/ Head(t) # ErrorWord)
  <2>1. Prefixed(c) = <<ErrorWord>> \o t
    BY <1>2 DEF Prefixed
  <2>2. ErrorWord \in Nat
    BY DEF ErrorWord
  <2> HIDE DEF t
  <2>3. <<ErrorWord>> \in S
    BY <2>2
  <2>4. /\ <<ErrorWord>> \o t \in S /\ Len(<<ErrorWord>> \o t) = 1 + Len(t)
        /\ (<<ErrorWord>> \o t)[1] = ErrorWord
    BY <1>1, <2>2, <2>3
  <2>5. <<ErrorWord>> \o t # <<>> /\ Head(<<ErrorWord>> \o t) = ErrorWord
    BY <1>1, <2>4
  <2>. QED
    BY <1>2, <2>1, <2>4, <2>5 DEF ReadsFailed, Texts
<1>3. CASE ~(c.is_error /\ (t = <<>> \/ Head(t) # ErrorWord))
  <2>1. Prefixed(c) = t
    BY <1>3 DEF Prefixed
  <2>2. c.is_error => ReadsFailed(t)
    BY <1>3 DEF ReadsFailed
  <2>3. ReadsFailed(t) \in BOOLEAN
    BY DEF ReadsFailed
  <2>. QED
    BY <1>1, <2>1, <2>2, <2>3 DEF Texts
<1>. QED
  BY <1>2, <1>3

(* The Chat messages the codecs make, and what is heard of them.           *)
LEMMA ChatMsgFacts ==
    /\ \A r \in Roles, c \in Seq(PartU) :
          (r # "user" => c \in Seq(TextA))
          => /\ ChatMsg(r, c) \in ChatMs
             /\ ChatMsg(r, c).role = r /\ ChatMsg(r, c).content = c
             /\ r # "tool" => HearUM[ChatMsg(r, c)] = Mapped(HearU, c)
    /\ \A k \in Nat, c \in Seq(TextA) :
          /\ ToolMsg(k, c) \in ChatMs /\ ToolMsg(k, c).call = k /\ ToolMsg(k, c).content = c
          /\ HearUM[ToolMsg(k, c)] = <<Returned(k, ReadsFailed(JoinText(ChatContentToIR(c))))>>
    /\ \A c \in Seq(TextA), t \in Seq(CallU) :
          LET m == [role |-> "assistant", tool_calls |-> t, call |-> 0, content |-> c]
          IN  m \in ChatMs /\ HearUM[m] = Mapped(HearU, c) \o Each(HearCall, t)
<1>1. ASSUME NEW r \in Roles, NEW c \in Seq(PartU), r # "user" => c \in Seq(TextA)
      PROVE  /\ ChatMsg(r, c) \in ChatMs
             /\ ChatMsg(r, c).role = r /\ ChatMsg(r, c).content = c
             /\ r # "tool" => HearUM[ChatMsg(r, c)] = Mapped(HearU, c)
  <2> DEFINE t == <<>>
             k == 0
             m == [role |-> r, content |-> c, tool_calls |-> t, call |-> k]
  <2>1. ChatMsg(r, c) = m
    BY DEF ChatMsg
  <2>2. t \in Seq(CallU) /\ k \in Nat /\ t = <<>>
    OBVIOUS
  <2>3. IsFcn(HearCall, CallU, Tooly)
    BY CallFacts
  <2>4. Each(HearCall, <<>>) = <<>>
    BY <2>3, EachFacts
  <2> HIDE DEF t, k
  <2>5. m \in AnyU /\ m.role = r /\ m.content = c /\ m.tool_calls = t
    BY <2>2, AnyUFacts
  <2> HIDE DEF m
  <2>6. m \in ChatMs
    BY <1>1, <2>2, <2>5 DEF ChatMs
  <2>7. r # "tool" => HearUM[m] = Mapped(HearU, c) \o <<>>
    BY <2>2, <2>4, <2>5, InChat
  <2>8. Mapped(HearU, c) \in Seq(Wordy)
    BY PartFacts, MappedFacts
  <2>9. Mapped(HearU, c) \o <<>> = Mapped(HearU, c)
    BY <2>8, ConcatEmptySeq
  <2>. QED
    BY <2>1, <2>5, <2>6, <2>7, <2>9
<1>2. ASSUME NEW k \in Nat, NEW c \in Seq(TextA)
      PROVE  /\ ToolMsg(k, c) \in ChatMs /\ ToolMsg(k, c).call = k /\ ToolMsg(k, c).content = c
             /\ HearUM[ToolMsg(k, c)] = <<Returned(k, ReadsFailed(JoinText(ChatContentToIR(c))))>>
  <2> DEFINE t == <<>>
             r == "tool"
             m == [role |-> r, content |-> c, tool_calls |-> t, call |-> k]
  <2>1. ToolMsg(k, c) = m
    BY DEF ToolMsg
  <2>2. t \in Seq(CallU) /\ r \in Roles /\ t = <<>> /\ c \in Seq(PartU) /\ r = "tool"
    BY ChatTypes DEF Roles
  <2> HIDE DEF t, r
  <2>3. m \in AnyU /\ m.role = r /\ m.content = c /\ m.tool_calls = t /\ m.call = k
    BY <2>2, AnyUFacts
  <2> HIDE DEF m
  <2>4. m \in ChatMs
    BY <2>2, <2>3 DEF ChatMs
  <2>. QED
    BY <2>1, <2>2, <2>3, <2>4, InChat
<1>3. ASSUME NEW c \in Seq(TextA), NEW t \in Seq(CallU)
      PROVE  LET m == [role |-> "assistant", tool_calls |-> t, call |-> 0, content |-> c]
             IN  m \in ChatMs /\ HearUM[m] = Mapped(HearU, c) \o Each(HearCall, t)
  <2> DEFINE k == 0
             r == "assistant"
             m == [role |-> r, content |-> c, tool_calls |-> t, call |-> k]
  <2>1. m = [role |-> "assistant", tool_calls |-> t, call |-> 0, content |-> c]
    OBVIOUS
  <2>2. k \in Nat /\ r \in Roles /\ c \in Seq(PartU) /\ r = "assistant"
    BY ChatTypes DEF Roles
  <2> HIDE DEF k, r
  <2>3. m \in AnyU /\ m.role = r /\ m.content = c /\ m.tool_calls = t /\ m.call = k
    BY <2>2, AnyUFacts
  <2> HIDE DEF m
  <2>4. m \in ChatMs
    BY <2>2, <2>3 DEF ChatMs
  <2>5. HearUM[m] = Mapped(HearU, c) \o Each(HearCall, t)
    BY <2>2, <2>3, InChat
  <2>. QED
    BY <2>1, <2>4, <2>5
<1>. QED
  BY <1>1, <1>2, <1>3

(* toolResultsToChat loses no result;                                      *)
LEMMA ResultsToChat ==
    /\ IsFcn(ResultToU, ResultC, ChatMs)
    /\ \A c \in ResultC : HearUM[ResultToU[c]] = HearC[c]
    /\ \A s \in Seq(ResultC) : /\ ToolResultsToChat(s) = Each(ResultToU, s)
                               /\ ToolResultsToChat(s) \in Seq(ChatMs)
                               /\ Mapped(HearUM, ToolResultsToChat(s)) = Mapped(HearC, s)
<1>1. ASSUME NEW c \in ResultC
      PROVE  ResultToU[c] \in ChatMs /\ HearUM[ResultToU[c]] = HearC[c]
  <2> DEFINE t == Prefixed(c)
             u == AsString(t)
  <2>1. t \in Texts /\ ReadsFailed(t) = (c.is_error \/ ReadsFailed(c.out.text))
    BY PrefixedFacts
  <2>2. u \in Seq(TextA) /\ JoinText(ChatContentToIR(u)) = t
    BY <2>1, StringFacts
  <2>3. ResultToU[c] = ToolMsg(c.id, u)
    BY DEF ResultToU
  <2>4. c.id \in Nat
    BY DEF ResultC
  <2>5. HearC[c] = <<Returned(c.id, ReadsFailed(t))>>
    BY <2>1, HearCFacts
  <2> HIDE DEF t, u
  <2>6. ToolMsg(c.id, u) \in ChatMs /\ HearUM[ToolMsg(c.id, u)] = <<Returned(c.id, ReadsFailed(t))>>
    BY <2>2, <2>4, ChatMsgFacts
  <2>. QED
    BY <2>3, <2>5, <2>6
<1>2. IsFcn(ResultToU, ResultC, ChatMs)
  BY <1>1 DEF IsFcn
<1>3. ASSUME NEW s \in Seq(ResultC)
      PROVE  ToolResultsToChat(s) = Each(ResultToU, s)
  <2>1. \A i \in DOMAIN s : s[i] \in ResultC
    BY ElementOfSeq, LenProperties
  <2>2. [i \in DOMAIN s |-> ToolMsg(s[i].id, AsString(Prefixed(s[i])))] = [i \in DOMAIN s |-> ResultToU[s[i]]]
    BY <2>1 DEF ResultToU
  <2>. QED
    BY <2>2 DEF ToolResultsToChat, MapSeq, Each
<1>4. \A s \in Seq(ResultC) : Each(ResultToU, s) \in Seq(ChatMs)
  BY <1>2, EachFacts
<1>5. \A s \in Seq(ResultC) : Mapped(HearUM, Each(ResultToU, s)) = Mapped(HearC, s)
  <2>1. \A c \in ResultC : HearC[c] = HearUM[ResultToU[c]]
    BY <1>1
  <2>. QED
    BY <1>2, <2>1, EachThenMapped
<1>. QED
  BY <1>1, <1>2, <1>3, <1>4, <1>5

(* the parts of a user's message lose nothing,                             *)
LEMMA PartsFromIR ==
    /\ IsFcn(AsPartF, TextC \cup ImageC, PartU) /\ IsFcn(AsPartF, TextC, TextA)
    /\ \A s \in Seq(TextC \cup ImageC) : /\ MapSeq(AsPart, s) = Each(AsPartF, s)
                                         /\ MapSeq(AsPart, s) \in Seq(PartU)
                                         /\ Mapped(HearU, MapSeq(AsPart, s)) = Mapped(HearC, s)
                                         /\ s \in Seq(TextC) => MapSeq(AsPart, s) \in Seq(TextA)
<1> DEFINE W == TextC \cup ImageC
<1>1. ASSUME NEW c \in TextC
      PROVE  AsPartF[c] \in TextA /\ AsPartF[c] \in PartU /\ HearU[AsPartF[c]] = HearC[c]
  <2>1. c \in W /\ c.kind = "text" /\ c.text \in Texts
    BY DEF TextC
  <2>2. AsPartF[c] = [type |-> "text", text |-> c.text]
    BY <2>1 DEF AsPartF, AsPart
  <2>3. AsPartF[c] \in TextA /\ AsPartF[c].text = c.text
    BY <2>1, <2>2 DEF TextA
  <2>. QED
    BY <2>3, PartFacts, HearCFacts DEF PartU
<1>2. ASSUME NEW c \in ImageC
      PROVE  AsPartF[c] \in PartU /\ HearU[AsPartF[c]] = HearC[c]
  <2>1. c \in W /\ c.kind = "image"
    BY DEF ImageC
  <2>2. AsPartF[c] = [type |-> "image_url"]
    BY <2>1 DEF AsPartF, AsPart
  <2>3. AsPartF[c] \in ImageU
    BY <2>2 DEF ImageU
  <2>. QED
    BY <2>3, PartFacts, HearCFacts DEF PartU
<1>3. \A c \in W : AsPartF[c] = AsPart(c)
  BY DEF AsPartF
<1>4. \A c \in W : AsPartF[c] \in PartU /\ HearU[AsPartF[c]] = HearC[c]
  BY <1>1, <1>2
<1>5. IsFcn(AsPartF, W, PartU)
  BY <1>4 DEF IsFcn
<1>6. IsFcn(AsPartF, TextC, TextA)
  BY <1>1 DEF IsFcn
<1> HIDE DEF W
<1>7. ASSUME NEW s \in Seq(W) PROVE MapSeq(AsPart, s) = Each(AsPartF, s)
  <2>1. \A i \in DOMAIN s : s[i] \in W
    BY ElementOfSeq, LenProperties
  <2>2. [i \in DOMAIN s |-> AsPart(s[i])] = [i \in DOMAIN s |-> AsPartF[s[i]]]
    BY <1>3, <2>1
  <2>. QED
    BY <2>2 DEF MapSeq, Each
<1>8. \A s \in Seq(W) : Each(AsPartF, s) \in Seq(PartU)
  BY <1>5, EachFacts
<1>9. \A s \in Seq(TextC) : Each(AsPartF, s) \in Seq(TextA)
  BY <1>6, EachFacts
<1>10. \A s \in Seq(W) : Mapped(HearU, Each(AsPartF, s)) = Mapped(HearC, s)
  <2>1. \A c \in W : HearC[c] = HearU[AsPartF[c]]
    BY <1>4
  <2>. QED
    BY <1>5, <2>1, EachThenMapped
<1>11. \A s \in Seq(W) : /\ MapSeq(AsPart, s) = Each(AsPartF, s)
                         /\ MapSeq(AsPart, s) \in Seq(PartU)
                         /\ Mapped(HearU, MapSeq(AsPart, s)) = Mapped(HearC, s)
                         /\ s \in Seq(TextC) => MapSeq(AsPart, s) \in Seq(TextA)
  BY <1>7, <1>8, <1>9, <1>10
<1>. QED
  BY <1>5, <1>6, <1>11 DEF W

(* nor does chatContent joining them,                                      *)
LEMMA ChatContentFacts ==
    \A s \in Seq(PartU) :
       /\ ChatContent(s) \in Seq(PartU)
       /\ s \in Seq(TextA) => ChatContent(s) \in Seq(TextA)
       /\ Mapped(HearU, ChatContent(s)) = Mapped(HearU, s)
<1> TAKE s \in Seq(PartU)
<1>1. CASE s = <<>> \/ \E i \in DOMAIN s : s[i].type # "text"
  <2>1. ChatContent(s) = s
    BY <1>1 DEF ChatContent
  <2>. QED
    BY <2>1
<1>2. CASE ~(s = <<>> \/ \E i \in DOMAIN s : s[i].type # "text")
  <2>1. s \in Seq(TextA)
    <3>1. \A i \in DOMAIN s : s[i] \in TextA
      <4>1. \A i \in DOMAIN s : s[i] \in PartU
        BY ElementOfSeq, LenProperties
      <4>2. \A i \in DOMAIN s : s[i].type = "text"
        BY <1>2
      <4>. QED
        BY <4>1, <4>2 DEF PartU, ImageU
    <3>. QED
      BY <3>1, SeqOfElements
  <2> DEFINE t == Mapped(PartText, s)
  <2>2. IsMap(PartText, TextA, Nat) /\ \A p \in TextA : PartText[p] = p.text
    BY DEF IsMap, PartText, TextA, Texts
  <2>3. t \in Seq(Nat)
    BY <2>1, <2>2, MappedFacts
  <2>4. FlatMap(LAMBDA p : p.text, s) = t
    <3>1. \A i \in DOMAIN s : s[i] \in TextA
      BY <2>1, ElementOfSeq, LenProperties
    <3>2. [i \in DOMAIN s |-> s[i].text] = [i \in DOMAIN s |-> PartText[s[i]]]
      BY <2>2, <3>1
    <3>. QED
      BY <3>2 DEF FlatMap, MapSeq, Mapped
  <2>5. ChatContent(s) = AsString(t)
    BY <1>2, <2>4 DEF ChatContent
  <2>6. Words(t) = Mapped(HearU, s)
    <3>1. \A p \in TextA : HearU[p] = Each(WordF, PartText[p])
      <4>1. \A p \in TextA : p.text \in Texts
        BY DEF TextA
      <4>. QED
        BY <2>2, <4>1, PartFacts, WordsFacts
    <3>2. IsMap(HearU, TextA, Things)
      <4>1. \A p \in TextA : HearU[p] \in Seq(Wordy)
        BY PartFacts DEF IsMap, PartU
      <4>. QED
        BY <4>1, OnlyFacts DEF IsMap
    <3>3. Each(WordF, t) = Mapped(HearU, s)
      BY <2>1, <2>2, <3>1, <3>2, WordsFacts, MappedThenEach
    <3>. QED
      BY <2>3, <3>3, WordsFacts DEF Texts
  <2> HIDE DEF t
  <2>. QED
    BY <2>3, <2>5, <2>6, StringFacts DEF Texts
<1>. QED
  BY <1>1, <1>2

(* nor the tool calls.                                                     *)
LEMMA CallsFromIR ==
    \A s \in Seq(CallC) :
       LET calls == MapSeq(LAMBDA c : [id |-> c.id, arguments |-> ArgumentsOr(c.input, "{}")], s)
       IN  /\ calls = Each(CallFromF, s) /\ calls \in Seq(CallU)
           /\ Each(HearCall, calls) = Mapped(HearC, s)
<1>1. \A c \in CallC : CallFromF[c] = [id |-> c.id, arguments |-> ArgumentsOr(c.input, "{}")]
  BY DEF CallFromF
<1>2. ASSUME NEW c \in CallC
      PROVE  CallFromF[c] \in CallU /\ <<HearCall[CallFromF[c]]>> = HearC[c]
  <2> DEFINE a == ArgumentsOr(c.input, "{}")
  <2>1. c.id \in Nat /\ c.input \in Args
    BY DEF CallC
  <2>2. a \in Args
    BY <2>1 DEF ArgumentsOr, Args
  <2> HIDE DEF a
  <2>3. CallFromF[c] = [id |-> c.id, arguments |-> a]
    BY <1>1 DEF a
  <2>4. CallFromF[c] \in CallU /\ CallFromF[c].id = c.id
    BY <2>1, <2>2, <2>3 DEF CallU
  <2>. QED
    BY <2>4, CallFacts, HearCFacts
<1>3. IsFcn(CallFromF, CallC, CallU)
  BY <1>2 DEF IsFcn
<1>4. ASSUME NEW s \in Seq(CallC)
      PROVE  MapSeq(LAMBDA c : [id |-> c.id, arguments |-> ArgumentsOr(c.input, "{}")], s) = Each(CallFromF, s)
  <2>1. \A i \in DOMAIN s : s[i] \in CallC
    BY ElementOfSeq, LenProperties
  <2>2. [i \in DOMAIN s |-> [id |-> s[i].id, arguments |-> ArgumentsOr(s[i].input, "{}")]]
        = [i \in DOMAIN s |-> CallFromF[s[i]]]
    BY <1>1, <2>1
  <2>. QED
    BY <2>2 DEF MapSeq, Each
<1>5. \A s \in Seq(CallC) : Each(CallFromF, s) \in Seq(CallU)
  BY <1>3, EachFacts
<1>6. \A s \in Seq(CallC) : Each(HearCall, Each(CallFromF, s)) = Mapped(HearC, s)
  <2> DEFINE h == Singly(HearCall, CallU)
  <2>1. IsFcn(HearCall, CallU, Tooly)
    BY CallFacts
  <2>2. \A t \in Seq(CallU) : Each(HearCall, t) = Mapped(h, t)
    BY <2>1, EachIsMapped
  <2>3. \A tc \in CallU : h[tc] = <<HearCall[tc]>>
    BY <2>1, SinglyIsMap
  <2> HIDE DEF h
  <2>4. \A c \in CallC : HearC[c] = h[CallFromF[c]]
    BY <1>2, <2>3
  <2>5. \A s \in Seq(CallC) : Mapped(h, Each(CallFromF, s)) = Mapped(HearC, s)
    BY <1>3, <2>4, EachThenMapped
  <2>. QED
    BY <1>5, <2>2, <2>5
<1>. QED
  BY <1>4, <1>5, <1>6

UMFromIR == [m \in IRMessages |-> IRMessageToChat(m)]

(* irMessageToChat for a user: the results before the words, all of both;  *)
LEMMA UserToChat ==
    \A s \in Seq(UserC) :
       /\ IRUserToChat(s) \in Seq(ChatMs)
       /\ SameThings(Mapped(HearUM, IRUserToChat(s)), Mapped(HearC, s))
<1> TAKE s \in Seq(UserC)
<1> DEFINE words   == OfKinds(WordKinds, s)
           outs    == OfKinds({"tool_result"}, s)
           parts   == MapSeq(AsPart, words)
           results == ToolResultsToChat(outs)
           heard    == IF parts = <<>> THEN <<>> ELSE <<ChatMsg("user", ChatContent(parts))>>
<1>1. IRUserToChat(s) = results \o heard
  BY DEF IRUserToChat, OfKind, WordKinds
<1>2. s \in Seq(IRBlocks)
  BY TypesFacts
<1>3. words \in Seq(TextC \cup ImageC) /\ outs \in Seq(ResultC) /\ OfKinds(ToolKinds, s) = outs
  BY <1>2, KindsFacts
<1>4. SameThings(Mapped(HearC, s), Mapped(HearC, outs) \o Mapped(HearC, words))
  BY <1>2, <1>3, HearKinds
<1> HIDE DEF words, outs
<1>5. results \in Seq(ChatMs) /\ Mapped(HearUM, results) = Mapped(HearC, outs)
  BY <1>3, ResultsToChat
<1>6. parts \in Seq(PartU) /\ Mapped(HearU, parts) = Mapped(HearC, words)
  BY <1>3, PartsFromIR
<1> HIDE DEF parts, results
<1>7. IsMap(HearUM, ChatMs, Things) /\ IsMap(HearUM, AnyU, Things)
  BY InChat, ChatTypes DEF IsMap
<1>8. heard \in Seq(ChatMs) /\ Mapped(HearUM, heard) = Mapped(HearC, words)
  <2>1. CASE parts = <<>>
    <3>1. heard = <<>>
      BY <2>1
    <3>2. Mapped(HearUM, <<>>) = <<>>
      BY <1>7, MappedFacts
    <3>3. IsMap(HearU, PartU, Wordy)
      BY PartFacts
    <3>4. Mapped(HearU, <<>>) = <<>>
      BY <3>3, MappedFacts
    <3>5. <<>> \in Seq(ChatMs)
      OBVIOUS
    <3>. QED
      BY <1>6, <2>1, <3>1, <3>2, <3>4, <3>5
  <2>2. CASE parts # <<>>
    <3> DEFINE c == ChatContent(parts)
               r == "user"
               m == ChatMsg(r, c)
    <3>1. c \in Seq(PartU) /\ Mapped(HearU, c) = Mapped(HearC, words)
      BY <1>6, ChatContentFacts
    <3>2. heard = <<m>>
      BY <2>2
    <3>3. r \in Roles /\ r = "user"
      BY DEF Roles
    <3> HIDE DEF c, r
    <3>4. m \in ChatMs /\ HearUM[m] = Mapped(HearU, c)
      BY <3>1, <3>3, ChatMsgFacts
    <3> HIDE DEF m
    <3>5. <<m>> \in Seq(ChatMs)
      BY <3>4, OneThing
    <3>6. Mapped(HearUM, <<m>>) = HearUM[m]
      BY <1>7, <3>4, MappedFacts
    <3>. QED
      BY <3>1, <3>2, <3>4, <3>5, <3>6
  <2>. QED
    BY <2>1, <2>2
<1> HIDE DEF heard
<1>9. results \o heard \in Seq(ChatMs)
  BY <1>5, <1>8, ConcatProperties
<1>10. Mapped(HearUM, results \o heard) = Mapped(HearUM, results) \o Mapped(HearUM, heard)
  <2>1. \A x, y \in Seq(ChatMs) : Mapped(HearUM, x \o y) = Mapped(HearUM, x) \o Mapped(HearUM, y)
    BY <1>7, MappedConcat
  <2>. QED
    BY <1>5, <1>8, <2>1
<1>. QED
  BY <1>1, <1>4, <1>5, <1>8, <1>9, <1>10, SameFacts

(* for an assistant: one message with words and calls;                     *)
LEMMA AssistantToChat ==
    \A s \in Seq(AssistantC) :
       /\ IRAssistantToChat(s) \in ChatMs
       /\ SameThings(HearUM[IRAssistantToChat(s)], Mapped(HearC, s))
<1> TAKE s \in Seq(AssistantC)
<1> DEFINE words == OfKinds({"text"}, s)
           uses  == OfKinds({"tool_use"}, s)
           parts == MapSeq(AsPart, words)
           calls == MapSeq(LAMBDA c : [id |-> c.id, arguments |-> ArgumentsOr(c.input, "{}")], uses)
           body  == IF parts = <<>> /\ calls = <<>> THEN AsString(<<>>) ELSE ChatContent(parts)
           m     == [role |-> "assistant", tool_calls |-> calls, call |-> 0, content |-> body]
<1>1. IRAssistantToChat(s) = m
  BY DEF IRAssistantToChat, OfKind
<1>2. s \in Seq(IRBlocks)
  BY TypesFacts
<1>3. /\ words \in Seq(TextC) /\ uses \in Seq(CallC)
      /\ OfKinds(ToolKinds, s) = uses /\ OfKinds(WordKinds, s) = words
  BY <1>2, KindsFacts
<1>4. SameThings(Mapped(HearC, s), Mapped(HearC, words) \o Mapped(HearC, uses))
  BY <1>2, <1>3, HearKinds
<1> HIDE DEF words, uses
<1>5. words \in Seq(TextC \cup ImageC)
  <2>1. TextC \subseteq TextC \cup ImageC
    OBVIOUS
  <2>2. Seq(TextC) \subseteq Seq(TextC \cup ImageC)
    BY <2>1, SeqOfMore
  <2>. QED
    BY <1>3, <2>2
<1>6. parts \in Seq(TextA) /\ Mapped(HearU, parts) = Mapped(HearC, words)
  BY <1>3, <1>5, PartsFromIR
<1>7. calls \in Seq(CallU) /\ Each(HearCall, calls) = Mapped(HearC, uses)
  BY <1>3, CallsFromIR
<1> HIDE DEF parts, calls
<1>8. body \in Seq(TextA) /\ Mapped(HearU, body) = Mapped(HearC, words)
  <2>1. CASE parts = <<>> /\ calls = <<>>
    <3>1. body = AsString(<<>>)
      BY <2>1
    <3>2. <<>> \in Texts
      BY DEF Texts
    <3>3. AsString(<<>>) \in Seq(TextA) /\ Mapped(HearU, AsString(<<>>)) = Words(<<>>)
      BY <3>2, StringFacts
    <3>4. Words(<<>>) = <<>>
      BY DEF Words, MapSeq
    <3>5. IsMap(HearU, PartU, Wordy)
      BY PartFacts
    <3>6. Mapped(HearU, <<>>) = <<>>
      BY <3>5, MappedFacts
    <3>. QED
      BY <1>6, <2>1, <3>1, <3>3, <3>4, <3>6
  <2>2. CASE ~(parts = <<>> /\ calls = <<>>)
    <3>1. body = ChatContent(parts)
      BY <2>2
    <3>2. parts \in Seq(PartU)
      BY <1>6, ChatTypes
    <3>. QED
      BY <1>6, <3>1, <3>2, ChatContentFacts
  <2>. QED
    BY <2>1, <2>2
<1> HIDE DEF body
<1>9. m \in ChatMs /\ HearUM[m] = Mapped(HearU, body) \o Each(HearCall, calls)
  BY <1>7, <1>8, ChatMsgFacts
<1> HIDE DEF m
<1>. QED
  BY <1>1, <1>4, <1>7, <1>8, <1>9, SameFacts

(* for every role.                                                         *)
LEMMA UMFromIRFacts ==
    /\ IsMap(UMFromIR, IRMessages, ChatMs)
    /\ \A m \in IRMessages : /\ UMFromIR[m] = IRMessageToChat(m)
                             /\ SameThings(Mapped(HearUM, UMFromIR[m]), HearM[m])
<1>1. \A m \in IRMessages : UMFromIR[m] = IRMessageToChat(m)
  BY DEF UMFromIR
<1>2. IsMap(HearUM, ChatMs, Things) /\ IsMap(HearUM, AnyU, Things)
  BY InChat, ChatTypes DEF IsMap
<1>3. ASSUME NEW m \in IRMessages
      PROVE  IRMessageToChat(m) \in Seq(ChatMs) /\ SameThings(Mapped(HearUM, IRMessageToChat(m)), HearM[m])
  <2> DEFINE c == m.content
  <2>1. HearM[m] = Mapped(HearC, c)
    BY IRMessageCases, HearMFacts
  <2>2. CASE m.role = "system"
    <3>1. c \in Seq(TextC) /\ c \in Seq(IRBlocks)
      BY <2>2, IRMessageCases, TypesFacts
    <3> DEFINE t == JoinText(c)
               u == AsString(t)
               r == "system"
               x == ChatMsg(r, u)
    <3>2. t \in Texts /\ Words(t) = Mapped(HearC, OfKinds({"text"}, c))
      BY <3>1, JoinFacts
    <3>3. OfKinds({"text"}, c) = c
      <4>1. \A b \in TextC : b.kind \in {"text"}
        BY DEF TextC
      <4>. QED
        BY <3>1, <4>1, KeepAll
    <3>4. u \in Seq(TextA) /\ u \in Seq(PartU) /\ Mapped(HearU, u) = Mapped(HearC, c)
      BY <3>2, <3>3, StringFacts
    <3>5. IRMessageToChat(m) = <<x>>
      BY <2>2 DEF IRMessageToChat
    <3>6. r \in Roles /\ r # "tool"
      BY DEF Roles
    <3> HIDE DEF t, u, r
    <3>7. x \in ChatMs /\ HearUM[x] = Mapped(HearU, u)
      BY <3>4, <3>6, ChatMsgFacts
    <3> HIDE DEF x
    <3>8. <<x>> \in Seq(ChatMs) /\ Mapped(HearUM, <<x>>) = HearUM[x]
      BY <1>2, <3>7, MappedFacts, OneThing
    <3>. QED
      BY <2>1, <3>4, <3>5, <3>7, <3>8, SameFacts
  <2>3. CASE m.role = "user"
    <3>1. c \in Seq(UserC)
      BY <2>3, IRMessageCases
    <3>2. IRMessageToChat(m) = IRUserToChat(c)
      BY <2>3 DEF IRMessageToChat
    <3>. QED
      BY <2>1, <3>1, <3>2, UserToChat
  <2>4. CASE m.role = "tool"
    <3>1. c \in Seq(ResultC)
      BY <2>4, IRMessageCases
    <3>2. IRMessageToChat(m) = ToolResultsToChat(c)
      BY <2>4 DEF IRMessageToChat
    <3>. QED
      BY <2>1, <3>1, <3>2, ResultsToChat, SameFacts
  <2>5. CASE m.role = "assistant"
    <3>1. c \in Seq(AssistantC)
      BY <2>5, IRMessageCases
    <3> DEFINE x == IRAssistantToChat(c)
    <3>2. IRMessageToChat(m) = <<x>>
      BY <2>5 DEF IRMessageToChat
    <3>3. x \in ChatMs /\ SameThings(HearUM[x], Mapped(HearC, c))
      BY <3>1, AssistantToChat
    <3> HIDE DEF x
    <3>4. <<x>> \in Seq(ChatMs) /\ Mapped(HearUM, <<x>>) = HearUM[x]
      BY <1>2, <3>3, MappedFacts, OneThing
    <3>. QED
      BY <2>1, <3>2, <3>3, <3>4
  <2>. QED
    BY <2>2, <2>3, <2>4, <2>5, IRMessageCases
<1>4. IsMap(UMFromIR, IRMessages, ChatMs)
  BY <1>1, <1>3 DEF IsMap
<1>. QED
  BY <1>1, <1>3, <1>4

(* What is heard of a Chat history is what is heard of its messages;       *)
LEMMA UHistoryHeard ==
    \A h \in Seq(ChatMs) : InHistory("openai_chat", h) = Mapped(HearUM, h)
<1> TAKE h \in Seq(ChatMs)
<1>1. \A i \in DOMAIN h : h[i] \in ChatMs
  BY ElementOfSeq, LenProperties
<1>2. [i \in DOMAIN h |-> InChatMessage(h[i])] = [i \in DOMAIN h |-> HearUM[h[i]]]
  BY <1>1, InChat, ChatTypes
<1>. QED
  BY <1>2 DEF InHistory, FlatMap, MapSeq, Mapped

(* a Chat request has nothing else to hear.                                *)
LEMMA UHeard ==
    ASSUME NEW w, w.messages \in Seq(ChatMs)
    PROVE  Heard("openai_chat", w) = Mapped(HearUM, w.messages)
<1> DEFINE h == w.messages
<1>1. Heard("openai_chat", w) = <<>> \o InHistory("openai_chat", h)
  BY DEF Heard, InSystem, History
<1>2. InHistory("openai_chat", h) = Mapped(HearUM, h)
  BY UHistoryHeard
<1>3. IsMap(HearUM, ChatMs, Things)
  BY InChat, ChatTypes DEF IsMap
<1>4. Mapped(HearUM, h) \in Seq(Things)
  BY <1>3, MappedFacts
<1> HIDE DEF h
<1>5. <<>> \o Mapped(HearUM, h) = Mapped(HearUM, h)
  BY <1>4, ConcatEmptySeq
<1>. QED
  BY <1>1, <1>2, <1>5 DEF h

(* chatRequest.FromIR: what the IR says is heard in the request.           *)
LEMMA UFromIRRequest ==
    ASSUME NEW r, r.system \in Seq(TextC), r.messages \in Seq(IRMessages)
    PROVE  LET w == ChatRequestFromIR(r)
               s == IF r.system = <<>> THEN <<>>
                    ELSE <<ChatMsg("system", AsString(JoinText(r.system)))>>
           IN  /\ w.messages = s \o Mapped(UMFromIR, r.messages)
               /\ s \in Seq(ChatMs) /\ Mapped(UMFromIR, r.messages) \in Seq(ChatMs)
               /\ w.messages \in Seq(ChatMs)
               /\ SameThings(Heard("openai_chat", w), HeardIR(r))
<1> DEFINE w == ChatRequestFromIR(r)
           c == r.system
           h == r.messages
           s == IF c = <<>> THEN <<>> ELSE <<ChatMsg("system", AsString(JoinText(c)))>>
           g == Mapped(UMFromIR, h)
<1>1. w.messages = s \o g
  <2>1. \A i \in DOMAIN h : h[i] \in IRMessages
    BY ElementOfSeq, LenProperties
  <2>2. [i \in DOMAIN h |-> IRMessageToChat(h[i])] = [i \in DOMAIN h |-> UMFromIR[h[i]]]
    BY <2>1, UMFromIRFacts
  <2>3. FlatMap(IRMessageToChat, h) = g
    BY <2>2 DEF FlatMap, MapSeq, Mapped
  <2>. QED
    BY <2>3 DEF ChatRequestFromIR
<1>2. IsMap(HearUM, ChatMs, Things)
  BY InChat, ChatTypes DEF IsMap
<1>3. s \in Seq(ChatMs) /\ Mapped(HearUM, s) = Mapped(HearC, c)
  <2>1. CASE c = <<>>
    <3>1. s = <<>> /\ <<>> \in Seq(ChatMs)
      BY <2>1
    <3>2. Mapped(HearUM, <<>>) = <<>>
      BY <1>2, MappedFacts
    <3>3. IsMap(HearC, IRBlocks, Things)
      BY HearCFacts
    <3>4. Mapped(HearC, <<>>) = <<>>
      BY <3>3, MappedFacts
    <3>. QED
      BY <2>1, <3>1, <3>2, <3>4
  <2>2. CASE c # <<>>
    <3>1. c \in Seq(TextC) /\ c \in Seq(IRBlocks)
      BY TypesFacts
    <3> DEFINE t == JoinText(c)
               u == AsString(t)
               k == "system"
               x == ChatMsg(k, u)
    <3>2. t \in Texts /\ Words(t) = Mapped(HearC, OfKinds({"text"}, c))
      BY <3>1, JoinFacts
    <3>3. OfKinds({"text"}, c) = c
      <4>1. \A b \in TextC : b.kind \in {"text"}
        BY DEF TextC
      <4>. QED
        BY <3>1, <4>1, KeepAll
    <3>4. u \in Seq(TextA) /\ u \in Seq(PartU) /\ Mapped(HearU, u) = Mapped(HearC, c)
      BY <3>2, <3>3, StringFacts
    <3>5. s = <<x>>
      BY <2>2
    <3>6. k \in Roles /\ k # "tool"
      BY DEF Roles
    <3> HIDE DEF t, u, k, c
    <3>7. x \in ChatMs /\ HearUM[x] = Mapped(HearU, u)
      BY <3>4, <3>6, ChatMsgFacts
    <3> HIDE DEF x
    <3>8. <<x>> \in Seq(ChatMs) /\ Mapped(HearUM, <<x>>) = HearUM[x]
      BY <1>2, <3>7, MappedFacts, OneThing
    <3>. QED
      BY <3>4, <3>5, <3>7, <3>8
  <2>. QED
    BY <2>1, <2>2
<1>4. g \in Seq(ChatMs)
  BY UMFromIRFacts, MappedFacts
<1> DEFINE k == [m \in IRMessages |-> Mapped(HearUM, UMFromIR[m])]
<1>5. IsMap(UMFromIR, IRMessages, ChatMs)
  BY UMFromIRFacts
<1>6. \A m \in IRMessages : k[m] = Mapped(HearUM, UMFromIR[m])
  OBVIOUS
<1>7. \A m \in IRMessages : UMFromIR[m] \in Seq(ChatMs)
  BY <1>5 DEF IsMap
<1>8. \A m \in IRMessages : Mapped(HearUM, UMFromIR[m]) \in Seq(Things)
  BY <1>2, <1>7, MappedFacts
<1>9. IsMap(k, IRMessages, Things)
  BY <1>6, <1>8 DEF IsMap
<1>10. \A m \in IRMessages : SameThings(k[m], HearM[m])
  BY <1>6, UMFromIRFacts
<1>11. IsMap(HearM, IRMessages, Things)
  <2>1. \A m \in IRMessages : HearM[m] \in Seq(Things)
    BY HearMFacts, TypesFacts DEF IsMap
  <2>. QED
    BY <2>1 DEF IsMap
<1> HIDE DEF k
<1>12. Mapped(HearUM, g) = Mapped(k, h)
  BY <1>2, <1>5, <1>6, <1>9, MappedTwice
<1>13. SameThings(Mapped(k, h), Mapped(HearM, h))
  BY <1>9, <1>10, <1>11, SameMapped
<1>14. s \o g \in Seq(ChatMs)
  BY <1>3, <1>4, ConcatProperties
<1> DEFINE a == Mapped(HearC, c)
           b == Mapped(HearM, h)
           d == Mapped(k, h)
<1>15. a \in Seq(Things) /\ b \in Seq(Things) /\ d \in Seq(Things)
  <2>1. c \in Seq(IRBlocks)
    BY TypesFacts
  <2>2. IsMap(HearC, IRBlocks, Things)
    BY HearCFacts
  <2>3. a \in Seq(Things)
    BY <2>1, <2>2, MappedFacts
  <2>4. b \in Seq(Things)
    BY <1>11, MappedFacts
  <2>5. d \in Seq(Things)
    BY <1>9, MappedFacts
  <2>. QED
    BY <2>3, <2>4, <2>5
<1>16. Heard("openai_chat", w) = Mapped(HearUM, w.messages)
  BY <1>1, <1>14, UHeard
<1>17. HeardIR(r) = a \o b
  BY DEF HeardIR
<1> HIDE DEF w, c, h, s, g
<1>18. Mapped(HearUM, s \o g) = a \o d
  <2>1. Mapped(HearUM, s \o g) = Mapped(HearUM, s) \o Mapped(HearUM, g)
    <3>1. \A x, y \in Seq(ChatMs) : Mapped(HearUM, x \o y) = Mapped(HearUM, x) \o Mapped(HearUM, y)
      BY <1>2, MappedConcat
    <3>. QED
      BY <1>3, <1>4, <3>1
  <2>. QED
    BY <1>3, <1>12, <2>1
<1> HIDE DEF a, b, d
<1>19. SameThings(a \o d, a \o b)
  <2>1. SameThings(d, b)
    BY <1>13 DEF b, d
  <2>2. SameThings(a, a)
    BY SameFacts
  <2>. QED
    BY <1>15, <2>1, <2>2, SameFacts
<1>20. SameThings(Heard("openai_chat", w), HeardIR(r))
  BY <1>1, <1>16, <1>17, <1>18, <1>19
<1>. QED
  BY <1>1, <1>3, <1>4, <1>14, <1>20 DEF w, c, h, s, g

-----------------------------------------------------------------------------
(***************************************************************************)
(* Responses.                                                              *)
(***************************************************************************)
TextR    == [type : {"input_text", "output_text"}, text : Texts]
RefusalR == [type : {"refusal"}, refusal : Texts]
ImageR   == [type : {"input_image"}]
SaidR    == TextR \cup RefusalR
PartR    == SaidR \cup ImageR
DevR     == [type : {"message"}, role : {"developer"}, content : Seq(TextR)]
UserR    == [type : {"message"}, role : {"user"}, content : Seq(TextR \cup ImageR)]
AsstR    == [type : {"message"}, role : {"assistant"}, content : Seq(SaidR)]
CallR    == [type : {"function_call"}, call : Nat, arguments : Args]
OutR     == [type : {"function_call_output"}, call : Nat, output : Outs]
AnsR     == AsstR \cup CallR \cup Reasonings
RItems   == DevR \cup UserR \cup OutR \cup AnsR

HearPR    == [p \in PartR |-> InPart(p)]
PartRToIR == [p \in PartR |-> ResponsesPartToIR(p)]
HearI     == [it \in RItems |-> InItem(it)]

(* responsesContentToIR, part by part,                                     *)
LEMMA PartRFacts ==
    /\ IsMap(HearPR, PartR, Things)
    /\ \A p \in TextR : HearPR[p] = Words(p.text)
    /\ HearPR[[type |-> "input_image"]] = <<Picture>>
    /\ IsFcn(PartRToIR, PartR, TextC \cup ImageC) /\ IsFcn(PartRToIR, SaidR, TextC)
    /\ \A p \in PartR : HearC[PartRToIR[p]] = HearPR[p]
<1>1. \A p \in PartR : HearPR[p] = InPart(p) /\ PartRToIR[p] = ResponsesPartToIR(p)
  BY DEF HearPR, PartRToIR
<1>2. ASSUME NEW p \in TextR
      PROVE  HearPR[p] = Words(p.text) /\ HearPR[p] \in Seq(Things)
             /\ PartRToIR[p] \in TextC /\ HearC[PartRToIR[p]] = HearPR[p]
  <2>1. p \in PartR /\ p.type \in {"input_text", "output_text"} /\ p.text \in Texts
    BY DEF TextR, SaidR, PartR
  <2>2. InPart(p) = Words(p.text) /\ ResponsesPartToIR(p) = Text(p.text)
    BY <2>1 DEF InPart, ResponsesPartToIR
  <2>. QED
    BY <1>1, <2>1, <2>2, BlocksAre, HearCFacts, WordsFacts
<1>3. ASSUME NEW p \in RefusalR
      PROVE  HearPR[p] \in Seq(Things) /\ PartRToIR[p] \in TextC /\ HearC[PartRToIR[p]] = HearPR[p]
  <2>1. p \in PartR /\ p.type = "refusal" /\ p.refusal \in Texts
    BY DEF RefusalR, SaidR, PartR
  <2>2. InPart(p) = Words(p.refusal) /\ ResponsesPartToIR(p) = Text(p.refusal)
    BY <2>1 DEF InPart, ResponsesPartToIR
  <2>. QED
    BY <1>1, <2>1, <2>2, BlocksAre, HearCFacts, WordsFacts
<1>4. ASSUME NEW p \in ImageR
      PROVE  /\ HearPR[p] = <<Picture>> /\ HearPR[p] \in Seq(Things)
             /\ PartRToIR[p] \in ImageC /\ HearC[PartRToIR[p]] = HearPR[p]
  <2>1. p \in PartR /\ p.type = "input_image"
    BY DEF ImageR, PartR
  <2>2. InPart(p) = <<Picture>> /\ ResponsesPartToIR(p) = Image
    BY <2>1 DEF InPart, ResponsesPartToIR
  <2>3. Image \in ImageC /\ HearC[Image] = <<Picture>>
    BY BlocksAre, HearCFacts
  <2>. QED
    BY <1>1, <2>1, <2>2, <2>3, ThingsAre, OneThing
<1>5. [type |-> "input_image"] \in ImageR
  BY DEF ImageR
<1>6. HearPR[[type |-> "input_image"]] = <<Picture>>
  BY <1>4, <1>5
<1>. QED
  BY <1>2, <1>3, <1>4, <1>6 DEF IsMap, IsFcn, PartR, SaidR

(* and part after part.                                                    *)
LEMMA ContentRToIR ==
    \A s \in Seq(PartR) :
       /\ ResponsesContentToIR(s) \in Seq(TextC \cup ImageC)
       /\ InParts(s) = Mapped(HearPR, s) /\ InParts(s) \in Seq(Things)
       /\ Mapped(HearC, ResponsesContentToIR(s)) = InParts(s)
       /\ s \in Seq(SaidR) => ResponsesContentToIR(s) \in Seq(TextC)
<1> TAKE s \in Seq(PartR)
<1>1. \A i \in DOMAIN s : s[i] \in PartR
  BY ElementOfSeq, LenProperties
<1>2. [i \in DOMAIN s |-> ResponsesPartToIR(s[i])] = [i \in DOMAIN s |-> PartRToIR[s[i]]]
  BY <1>1 DEF PartRToIR
<1>3. ResponsesContentToIR(s) = Each(PartRToIR, s)
  BY <1>2 DEF ResponsesContentToIR, MapSeq, Each
<1>4. [i \in DOMAIN s |-> InPart(s[i])] = [i \in DOMAIN s |-> HearPR[s[i]]]
  BY <1>1 DEF HearPR
<1>5. InParts(s) = Mapped(HearPR, s)
  BY <1>4 DEF InParts, FlatMap, MapSeq, Mapped
<1>6. Mapped(HearPR, s) \in Seq(Things)
  BY PartRFacts, MappedFacts
<1>7. Each(PartRToIR, s) \in Seq(TextC \cup ImageC)
  BY PartRFacts, EachFacts
<1>8. s \in Seq(SaidR) => Each(PartRToIR, s) \in Seq(TextC)
  BY PartRFacts, EachFacts
<1>9. Mapped(HearC, Each(PartRToIR, s)) = Mapped(HearPR, s)
  <2>1. IsFcn(PartRToIR, PartR, TextC \cup ImageC) /\ \A p \in PartR : HearPR[p] = HearC[PartRToIR[p]]
    BY PartRFacts
  <2>. QED
    BY <2>1, EachThenMapped
<1>. QED
  BY <1>3, <1>5, <1>6, <1>7, <1>8, <1>9

(* Message items, made and taken apart.                                    *)
LEMMA MessageItemFacts ==
    /\ \A c \in Seq(TextR) : MessageItem("developer", c) \in DevR
    /\ \A c \in Seq(TextR \cup ImageR) : MessageItem("user", c) \in UserR
    /\ \A c \in Seq(SaidR) : MessageItem("assistant", c) \in AsstR
    /\ \A r, c : /\ MessageItem(r, c).type = "message" /\ MessageItem(r, c).role = r
                 /\ MessageItem(r, c).content = c
    /\ \A it \in DevR : it.type = "message" /\ it.role = "developer" /\ it.content \in Seq(TextR)
    /\ \A it \in UserR : it.type = "message" /\ it.role = "user" /\ it.content \in Seq(TextR \cup ImageR)
    /\ \A it \in AsstR : it.type = "message" /\ it.role = "assistant" /\ it.content \in Seq(SaidR)
<1> DEFINE T == Seq(TextR)
           U == Seq(TextR \cup ImageR)
           S == Seq(SaidR)
<1>1. /\ DevR = [type : {"message"}, role : {"developer"}, content : T]
      /\ UserR = [type : {"message"}, role : {"user"}, content : U]
      /\ AsstR = [type : {"message"}, role : {"assistant"}, content : S]
  BY DEF DevR, UserR, AsstR
<1> HIDE DEF T, U, S
<1>2. /\ \A c \in T : MessageItem("developer", c) \in DevR
      /\ \A c \in U : MessageItem("user", c) \in UserR
      /\ \A c \in S : MessageItem("assistant", c) \in AsstR
  BY <1>1 DEF MessageItem
<1>3. \A r, c : /\ MessageItem(r, c).type = "message" /\ MessageItem(r, c).role = r
                /\ MessageItem(r, c).content = c
  BY DEF MessageItem
<1>4. /\ \A it \in DevR : it.type = "message" /\ it.role = "developer" /\ it.content \in T
      /\ \A it \in UserR : it.type = "message" /\ it.role = "user" /\ it.content \in U
      /\ \A it \in AsstR : it.type = "message" /\ it.role = "assistant" /\ it.content \in S
  BY <1>1
<1>. QED
  BY <1>2, <1>3, <1>4 DEF T, U, S

(* Which parts are parts of which items.                                   *)
LEMMA MorePartsR ==
    /\ Seq(TextR) \subseteq Seq(PartR) /\ Seq(TextR) \subseteq Seq(SaidR)
    /\ Seq(TextR \cup ImageR) \subseteq Seq(PartR) /\ Seq(SaidR) \subseteq Seq(PartR)
    /\ Seq(TextR) \subseteq Seq(TextR \cup ImageR)
<1>1. /\ TextR \subseteq PartR /\ TextR \subseteq SaidR /\ TextR \cup ImageR \subseteq PartR
      /\ SaidR \subseteq PartR /\ TextR \subseteq TextR \cup ImageR
  BY DEF SaidR, PartR
<1>2. Seq(TextR) \subseteq Seq(PartR)
  BY <1>1, SeqOfMore
<1>3. Seq(TextR) \subseteq Seq(SaidR)
  BY <1>1, SeqOfMore
<1>4. Seq(TextR \cup ImageR) \subseteq Seq(PartR)
  BY <1>1, SeqOfMore
<1>5. Seq(SaidR) \subseteq Seq(PartR)
  BY <1>1, SeqOfMore
<1>6. Seq(TextR) \subseteq Seq(TextR \cup ImageR)
  BY <1>1, SeqOfMore
<1>. QED
  BY <1>2, <1>3, <1>4, <1>5, <1>6

(* What is heard of each item.                                             *)
LEMMA HearIFacts ==
    /\ IsMap(HearI, RItems, Things) /\ IsMap(HearI, AnsR, Things)
    /\ AnsR \subseteq RItems /\ Seq(AnsR) \subseteq Seq(RItems)
    /\ \A it \in RItems : HearI[it] = InItem(it)
    /\ \A it \in DevR \cup UserR \cup AsstR : HearI[it] = Mapped(HearPR, it.content) /\ it.content \in Seq(PartR)
    /\ \A it \in CallR : HearI[it] = <<Called(it.call)>>
    /\ \A it \in OutR : HearI[it] = <<Returned(it.call, ReadsFailed(it.output.text))>>
    /\ \A it \in Reasonings : HearI[it] = <<>>
<1>1. \A it \in RItems : HearI[it] = InItem(it)
  BY DEF HearI
<1>2. ASSUME NEW it \in DevR \cup UserR \cup AsstR
      PROVE  HearI[it] = Mapped(HearPR, it.content) /\ it.content \in Seq(PartR) /\ HearI[it] \in Seq(Things)
  <2>1. it.type = "message" /\ it.content \in Seq(PartR)
    BY MessageItemFacts, MorePartsR
  <2>2. InItem(it) = InParts(it.content)
    BY <2>1 DEF InItem
  <2>3. it \in RItems
    BY DEF RItems, AnsR
  <2>. QED
    BY <1>1, <2>1, <2>2, <2>3, ContentRToIR
<1>3. ASSUME NEW it \in CallR PROVE HearI[it] = <<Called(it.call)>> /\ HearI[it] \in Seq(Things)
  <2>1. it \in RItems /\ it.type = "function_call" /\ it.call \in Nat
    BY DEF CallR, RItems, AnsR
  <2>2. InItem(it) = <<Called(it.call)>>
    BY <2>1 DEF InItem
  <2>. QED
    BY <1>1, <2>1, <2>2, ThingsAre, OneThing
<1>4. ASSUME NEW it \in OutR
      PROVE  /\ HearI[it] = <<Returned(it.call, ReadsFailed(it.output.text))>>
             /\ HearI[it] \in Seq(Things)
  <2>1. it \in RItems /\ it.type = "function_call_output" /\ it.call \in Nat
    BY DEF OutR, RItems
  <2>2. InItem(it) = <<Returned(it.call, ReadsFailed(it.output.text))>>
    BY <2>1 DEF InItem
  <2> DEFINE e == ReadsFailed(it.output.text)
  <2>3. e \in BOOLEAN
    BY DEF ReadsFailed
  <2> HIDE DEF e
  <2>4. Returned(it.call, e) \in Things
    BY <2>1, <2>3, ThingsAre
  <2>. QED
    BY <1>1, <2>1, <2>2, <2>4, OneThing DEF e
<1>5. ASSUME NEW it \in Reasonings PROVE HearI[it] = <<>> /\ HearI[it] \in Seq(Things)
  <2>1. it \in RItems /\ it.type = "reasoning"
    BY DEF Reasonings, RItems, AnsR
  <2>2. InItem(it) = <<>>
    BY <2>1 DEF InItem
  <2>3. <<>> \in Seq(Things)
    OBVIOUS
  <2>. QED
    BY <1>1, <2>1, <2>2, <2>3
<1>6. IsMap(HearI, RItems, Things)
  <2>1. \A it \in RItems : HearI[it] \in Seq(Things)
    BY <1>2, <1>3, <1>4, <1>5 DEF RItems, AnsR
  <2>. QED
    BY <2>1 DEF IsMap
<1>7. AnsR \subseteq RItems
  BY DEF RItems
<1>8. Seq(AnsR) \subseteq Seq(RItems)
  BY <1>7, SeqOfMore
<1>9. IsMap(HearI, AnsR, Things)
  BY <1>6, <1>7 DEF IsMap
<1>. QED
  BY <1>1, <1>2, <1>3, <1>4, <1>5, <1>6, <1>7, <1>8, <1>9

(* The other items the codecs make.                                        *)
LEMMA ItemsAre ==
    /\ \A k \in Nat, a \in Args : /\ CallItem(k, a) \in CallR /\ CallItem(k, a) \in AnsR
                                  /\ CallItem(k, a).call = k
    /\ \A k \in Nat, o \in Outs : /\ OutputItem(k, o) \in OutR /\ OutputItem(k, o) \in RItems
                                  /\ OutputItem(k, o).call = k /\ OutputItem(k, o).output = o
    /\ \A t \in Texts, d \in Nat : ReasoningItem(t, d) \in Reasonings /\ ReasoningItem(t, d) \in AnsR
<1>1. \A k \in Nat, a \in Args : CallItem(k, a) \in CallR /\ CallItem(k, a).call = k
  BY DEF CallItem, CallR
<1>2. \A k \in Nat, o \in Outs : /\ OutputItem(k, o) \in OutR
                                 /\ OutputItem(k, o).call = k /\ OutputItem(k, o).output = o
  BY DEF OutputItem, OutR
<1>3. \A t \in Texts, d \in Nat : ReasoningItem(t, d) \in Reasonings
  BY DEF ReasoningItem, Reasonings
<1>. QED
  BY <1>1, <1>2, <1>3 DEF RItems, AnsR

(* appendAssistant loses nothing;                                          *)
LEMMA AppendAssistantFacts ==
    \A out \in Seq(IRMessages), cs \in Seq(AssistantC) :
       /\ AppendAssistant(out, cs) \in Seq(IRMessages)
       /\ Mapped(HearM, AppendAssistant(out, cs)) = Mapped(HearM, out) \o Mapped(HearC, cs)
<1> TAKE out \in Seq(IRMessages), cs \in Seq(AssistantC)
<1>0. /\ \A s \in Seq(IRMessages), x \in IRMessages : Mapped(HearM, Append(s, x)) = Mapped(HearM, s) \o HearM[x]
      /\ \A s \in Seq(IRMessages) : Mapped(HearM, s) \in Seq(Things)
      /\ \A x \in IRMessages : HearM[x] \in Seq(Things) /\ HearM[x] = Mapped(HearC, x.content)
  <2>1. \A x \in IRMessages : HearM[x] \in Seq(Things) /\ HearM[x] = Mapped(HearC, x.content)
    BY HearMFacts, TypesFacts DEF IsMap
  <2>2. IsMap(HearM, IRMessages, Things)
    BY <2>1 DEF IsMap
  <2>. QED
    BY <2>1, <2>2, MappedFacts
<1>1. CASE ~(out # <<>> /\ Last(out).role = "assistant")
  <2> DEFINE x == Message("assistant", cs)
  <2>1. AppendAssistant(out, cs) = Append(out, x)
    BY <1>1 DEF AppendAssistant
  <2>2. x \in IRMessages /\ x.content = cs
    BY MoreTypes, MessageFacts
  <2> HIDE DEF x
  <2>3. Append(out, x) \in Seq(IRMessages)
    BY <2>2, AppendProperties
  <2>. QED
    BY <1>0, <2>1, <2>2, <2>3
<1>2. CASE out # <<>> /\ Last(out).role = "assistant"
  <2> DEFINE f == Front(out)
             l == Last(out)
             x == Message("assistant", l.content \o cs)
  <2>1. f \in Seq(IRMessages) /\ l \in IRMessages /\ out = Append(f, l)
    BY <1>2, FrontLast
  <2>2. AppendAssistant(out, cs) = Append(f, x)
    BY <1>2 DEF AppendAssistant
  <2>3. l.role = "assistant"
    BY <1>2
  <2> HIDE DEF f, l
  <2>4. l.content \in Seq(AssistantC)
    BY <2>1, <2>3, IRMessageCases
  <2>5. l.content \o cs \in Seq(AssistantC)
    BY <2>4, ConcatProperties
  <2>6. x \in IRMessages /\ x.content = l.content \o cs
    BY <2>5, MoreTypes, MessageFacts
  <2>7. Mapped(HearC, l.content \o cs) = Mapped(HearC, l.content) \o Mapped(HearC, cs)
    <3>1. IsMap(HearC, IRBlocks, Things) /\ l.content \in Seq(IRBlocks) /\ cs \in Seq(IRBlocks)
      BY <2>4, HearCFacts, TypesFacts
    <3>2. \A s, t \in Seq(IRBlocks) : Mapped(HearC, s \o t) = Mapped(HearC, s) \o Mapped(HearC, t)
      BY <3>1, MappedConcat
    <3>. QED
      BY <3>1, <3>2
  <2> HIDE DEF x
  <2>8. Append(f, x) \in Seq(IRMessages)
    BY <2>1, <2>6, AppendProperties
  <2> DEFINE a == Mapped(HearM, f)
             b == Mapped(HearC, l.content)
             c == Mapped(HearC, cs)
  <2>9. Mapped(HearM, Append(f, x)) = a \o (b \o c)
    BY <1>0, <2>1, <2>6, <2>7
  <2>10. Mapped(HearM, out) = a \o b
    BY <1>0, <2>1
  <2>11. a \in Seq(Things) /\ b \in Seq(Things) /\ c \in Seq(Things)
    <3>1. a \in Seq(Things) /\ b \in Seq(Things)
      BY <1>0, <2>1
    <3>2. IsMap(HearC, IRBlocks, Things) /\ cs \in Seq(IRBlocks)
      BY HearCFacts, TypesFacts
    <3>. QED
      BY <3>1, <3>2, MappedFacts
  <2> HIDE DEF a, b, c
  <2>12. a \o (b \o c) = (a \o b) \o c
    BY <2>11, ConcatAssociative
  <2>. QED
    BY <2>2, <2>8, <2>9, <2>10, <2>12 DEF c
<1>. QED
  BY <1>1, <1>2

AddItemF == [p \in Seq(IRMessages) \X RItems |-> AddItem(p[1], p[2])]

(* neither does adding any item.                                           *)
LEMMA AddItemFacts ==
    \A out \in Seq(IRMessages), it \in RItems :
       /\ AddItem(out, it) \in Seq(IRMessages)
       /\ Mapped(HearM, AddItem(out, it)) = Mapped(HearM, out) \o HearI[it]
<1> TAKE out \in Seq(IRMessages), it \in RItems
<1>0. ASSUME NEW x \in IRMessages
      PROVE  /\ Append(out, x) \in Seq(IRMessages)
             /\ Mapped(HearM, Append(out, x)) = Mapped(HearM, out) \o Mapped(HearC, x.content)
  <2>1. \A m \in IRMessages : HearM[m] \in Seq(Things) /\ HearM[m] = Mapped(HearC, m.content)
    BY HearMFacts, TypesFacts DEF IsMap
  <2>2. IsMap(HearM, IRMessages, Things)
    BY <2>1 DEF IsMap
  <2>3. Mapped(HearM, Append(out, x)) = Mapped(HearM, out) \o HearM[x]
    BY <2>2, MappedFacts
  <2>. QED
    BY <2>1, <2>3, AppendProperties
<1>1. CASE it \in DevR
  <2> DEFINE c == ResponsesContentToIR(it.content)
             x == Message("system", c)
  <2>1. it.type = "message" /\ it.role = "developer" /\ it.content \in Seq(SaidR) /\ it.content \in Seq(PartR)
    BY <1>1, MessageItemFacts, MorePartsR
  <2>2. AddItem(out, it) = Append(out, x)
    BY <2>1 DEF AddItem
  <2>3. c \in Seq(TextC) /\ Mapped(HearC, c) = HearI[it]
    BY <1>1, <2>1, ContentRToIR, HearIFacts
  <2> HIDE DEF c
  <2>4. x \in IRMessages /\ x.content = c
    BY <2>3, MoreTypes, MessageFacts
  <2> HIDE DEF x
  <2>. QED
    BY <1>0, <2>2, <2>3, <2>4
<1>2. CASE it \in UserR
  <2> DEFINE c == ResponsesContentToIR(it.content)
             x == Message("user", c)
  <2>1. it.type = "message" /\ it.role = "user" /\ it.content \in Seq(PartR)
    BY <1>2, MessageItemFacts, MorePartsR
  <2>2. AddItem(out, it) = Append(out, x)
    BY <2>1 DEF AddItem
  <2>3. c \in Seq(UserC) /\ Mapped(HearC, c) = HearI[it]
    BY <1>2, <2>1, ContentRToIR, HearIFacts, MoreTypes
  <2> HIDE DEF c
  <2>4. x \in IRMessages /\ x.content = c
    BY <2>3, MoreTypes, MessageFacts
  <2> HIDE DEF x
  <2>. QED
    BY <1>0, <2>2, <2>3, <2>4
<1>3. CASE it \in AsstR
  <2> DEFINE c == ResponsesContentToIR(it.content)
  <2>1. it.type = "message" /\ it.role = "assistant" /\ it.content \in Seq(SaidR) /\ it.content \in Seq(PartR)
    BY <1>3, MessageItemFacts, MorePartsR
  <2>2. AddItem(out, it) = AppendAssistant(out, c)
    BY <2>1 DEF AddItem
  <2>3. c \in Seq(AssistantC) /\ Mapped(HearC, c) = HearI[it]
    BY <1>3, <2>1, ContentRToIR, HearIFacts, MoreTypes
  <2> HIDE DEF c
  <2>. QED
    BY <2>2, <2>3, AppendAssistantFacts
<1>4. CASE it \in CallR
  <2> DEFINE a == ArgumentsOr(it.arguments, "{}")
             b == ToolUse(it.call, a)
             cs == <<b>>
  <2>1. it.type = "function_call" /\ it.call \in Nat /\ it.arguments \in Args
    BY <1>4 DEF CallR
  <2>2. AddItem(out, it) = AppendAssistant(out, cs)
    BY <2>1 DEF AddItem
  <2>3. a \in Args
    BY <2>1 DEF ArgumentsOr, Args
  <2> HIDE DEF a
  <2>4. b \in CallC /\ b.id = it.call
    BY <2>1, <2>3, BlocksAre
  <2> HIDE DEF b
  <2>5. cs \in Seq(CallC) /\ b \in IRBlocks
    BY <2>4, OneThing DEF IRBlocks, AssistantC
  <2>6. cs \in Seq(AssistantC) /\ Mapped(HearC, cs) = HearI[it]
    <3>1. Mapped(HearC, cs) = HearC[b]
      BY <2>5, HearCFacts, MappedFacts
    <3>2. HearC[b] = <<Called(b.id)>> /\ HearI[it] = <<Called(it.call)>>
      BY <1>4, <2>4, HearCFacts, HearIFacts
    <3>. QED
      BY <2>4, <2>5, <3>1, <3>2, MoreTypes
  <2> HIDE DEF cs
  <2>. QED
    BY <2>2, <2>6, AppendAssistantFacts
<1>5. CASE it \in OutR
  <2> DEFINE b == ToolResult(it.call, it.output, FALSE)
             cs == <<b>>
             x == Message("tool", cs)
  <2>1. it.type = "function_call_output" /\ it.call \in Nat /\ it.output \in Outs
    BY <1>5 DEF OutR
  <2>2. AddItem(out, it) = Append(out, x)
    BY <2>1 DEF AddItem
  <2>3. b \in ResultC /\ b.id = it.call /\ b.out = it.output /\ b.is_error = FALSE
    <3> DEFINE k == it.call
               o == it.output
               e == FALSE
    <3>1. k \in Nat /\ o \in Outs /\ e \in BOOLEAN /\ (e => ~o.json) /\ b = ToolResult(k, o, e)
      BY <2>1
    <3> HIDE DEF k, o, e, b
    <3>2. b \in ResultC /\ b.id = k /\ b.out = o /\ b.is_error = e
      BY <3>1, BlocksAre
    <3>. QED
      BY <3>2 DEF k, o, e
  <2> HIDE DEF b
  <2>4. cs \in Seq(ResultC) /\ b \in IRBlocks
    BY <2>3, OneThing DEF IRBlocks, UserC
  <2>5. Mapped(HearC, cs) = HearI[it]
    <3>1. Mapped(HearC, cs) = HearC[b]
      BY <2>4, HearCFacts, MappedFacts
    <3>2. HearC[b] = <<Returned(b.id, b.is_error \/ ReadsFailed(b.out.text))>>
      BY <2>3, HearCFacts
    <3>3. (b.is_error \/ ReadsFailed(b.out.text)) = ReadsFailed(it.output.text)
      BY <2>3 DEF ReadsFailed
    <3>4. HearI[it] = <<Returned(it.call, ReadsFailed(it.output.text))>>
      BY <1>5, HearIFacts
    <3>. QED
      BY <2>3, <3>1, <3>2, <3>3, <3>4
  <2> HIDE DEF cs
  <2>6. x \in IRMessages /\ x.content = cs
    BY <2>4, MoreTypes, MessageFacts
  <2> HIDE DEF x
  <2>. QED
    BY <1>0, <2>2, <2>5, <2>6
<1>6. CASE it \in Reasonings
  <2> DEFINE raw == Raw("reasoning", it)
             t == it.summary
             sig == ""
             b == Thinking(t, sig, raw)
             cs == <<b>>
  <2>1. it.type = "reasoning" /\ t \in Texts
    BY <1>6 DEF Reasonings
  <2>2. AddItem(out, it) = AppendAssistant(out, cs)
    BY <2>1 DEF AddItem, ReasoningToIR
  <2>3. raw \in Raws /\ sig \in Marks
    BY <1>6 DEF Raw, Raws, Marks
  <2> HIDE DEF raw, t, sig
  <2>4. b \in ThinkC
    BY <2>1, <2>3, BlocksAre
  <2> HIDE DEF b
  <2>5. b \in AssistantC /\ b \in IRBlocks
    BY <2>4 DEF IRBlocks, AssistantC
  <2>6. cs \in Seq(AssistantC) /\ Mapped(HearC, cs) = HearI[it]
    <3>1. Mapped(HearC, cs) = HearC[b]
      BY <2>5, HearCFacts, MappedFacts
    <3>2. HearC[b] = <<>> /\ HearI[it] = <<>>
      BY <1>6, <2>4, HearCFacts, HearIFacts
    <3>. QED
      BY <2>5, <3>1, <3>2, OneThing
  <2> HIDE DEF cs
  <2>. QED
    BY <2>2, <2>6, AppendAssistantFacts
<1>. QED
  BY <1>1, <1>2, <1>3, <1>4, <1>5, <1>6 DEF RItems, AnsR

ItemTable(it, s) ==
    it = [S \in SUBSET (1..Len(s)) |->
             IF S = {} THEN <<>> ELSE AddItem(it[S \ {Max(S)}], s[Max(S)])]

(* responsesRequest.ToIR's loop over the items is a fold.                  *)
LEMMA ItemsFold ==
    ASSUME <<>> \in Seq(IRMessages), IsStep(AddItemF, RItems, Seq(IRMessages)),
           \A p \in Seq(IRMessages), x \in RItems : AddItemF[<<p, x>>] = AddItem(p, x)
    PROVE  \A s \in Seq(RItems) : FoldLeft(AddItem, <<>>, s) = Folded(AddItemF, <<>>, s)
<1> TAKE s \in Seq(RItems)
<1> DEFINE n == Len(s)
           b == <<>>
           S0 == Seq(IRMessages)
           it == CHOOSE it : ItemTable(it, s)
<1>1. n \in Nat /\ DOMAIN s = 1..n /\ \A i \in 1..n : s[i] \in RItems
  BY LenProperties, ElementOfSeq
<1>2. FoldLeft(AddItem, b, s) = it[1..n]
  BY <1>1 DEF FoldLeft, MapThenFoldSet, ItemTable
<1>3. b \in S0 /\ IsStep(AddItemF, RItems, S0) /\ \A p \in S0, x \in RItems : AddItemF[<<p, x>>] = AddItem(p, x)
  OBVIOUS
<1>4. \A S \in SUBSET (1..n) : S # {} => Max(S) \in 1..n /\ S \ {Max(S)} \in SUBSET (1..n)
  <2>1. \A S \in SUBSET (1..n) : S # {} => Max(S) \in S
    BY <1>1, MaxOfSet
  <2>. QED
    BY <2>1
<1>5. ItemTable(it, s)
  <2> HIDE DEF S0
  <2>1. PICK g \in [SUBSET (1..Len(s)) -> S0] : IsTable(g, AddItemF, b, s)
    BY <1>3, TableExists
  <2> HIDE DEF b
  <2>2. \A S \in SUBSET (1..Len(s)) :
           g[S] = IF S = {} THEN b ELSE AddItemF[<<g[S \ {Max(S)}], s[Max(S)]>>]
    BY <2>1 DEF IsTable
  <2>3. ASSUME NEW S \in SUBSET (1..Len(s)), S # {}
        PROVE  AddItemF[<<g[S \ {Max(S)}], s[Max(S)]>>] = AddItem(g[S \ {Max(S)}], s[Max(S)])
    BY <1>1, <1>3, <1>4, <2>1, <2>3
  <2>4. \A S \in SUBSET (1..Len(s)) :
           g[S] = IF S = {} THEN b ELSE AddItem(g[S \ {Max(S)}], s[Max(S)])
    BY <2>2, <2>3
  <2>5. ItemTable(g, s)
    BY <2>1, <2>4 DEF ItemTable, b
  <2>. QED
    BY <2>5
<1> HIDE DEF it
<1>6. \A S \in SUBSET (1..n) : it[S] = IF S = {} THEN b ELSE AddItem(it[S \ {Max(S)}], s[Max(S)])
  BY <1>5 DEF ItemTable
<1>7. it[{}] = b
  <2>1. {} \in SUBSET (1..n)
    OBVIOUS
  <2>. QED
    BY <1>6, <2>1
<1>8. \A S \in SUBSET (1..Len(s)) : S # {} /\ it[S \ {Max(S)}] \in S0 =>
         it[S] = AddItemF[<<it[S \ {Max(S)}], s[Max(S)]>>]
  <2> HIDE DEF S0, b
  <2>. QED
    BY <1>1, <1>3, <1>4, <1>6
<1>9. Fills(it, AddItemF, b, S0, s)
  BY <1>7, <1>8 DEF Fills
<1>10. it[1..Len(s)] = Folded(AddItemF, b, s)
  <2>1. b \in S0 /\ IsStep(AddItemF, RItems, S0) /\ Fills(it, AddItemF, b, S0, s)
    BY <1>3, <1>9
  <2> HIDE DEF S0, b
  <2>. QED
    BY <2>1, TableIsFold
<1>. QED
  BY <1>2, <1>10

(* AddItem is a step of it.                                                *)
LEMMA AddItemFFacts ==
    /\ <<>> \in Seq(IRMessages) /\ IsStep(AddItemF, RItems, Seq(IRMessages))
    /\ \A p \in Seq(IRMessages), x \in RItems : AddItemF[<<p, x>>] = AddItem(p, x)
<1>1. ASSUME NEW p \in Seq(IRMessages), NEW x \in RItems PROVE AddItemF[<<p, x>>] = AddItem(p, x)
  <2> DEFINE S == Seq(IRMessages)
  <2>1. p \in S /\ x \in RItems
    OBVIOUS
  <2>2. AddItemF = [q \in S \X RItems |-> AddItem(q[1], q[2])]
    BY DEF AddItemF
  <2> HIDE DEF S
  <2>. QED
    BY <2>1, <2>2
<1>2. <<>> \in Seq(IRMessages)
  OBVIOUS
<1>3. \A p \in Seq(IRMessages), x \in RItems : AddItemF[<<p, x>>] \in Seq(IRMessages)
  BY <1>1, AddItemFacts
<1>. QED
  BY <1>1, <1>2, <1>3 DEF IsStep

Gathered(s) == Folded(AddItemF, <<>>, s)

(* The gathered messages, with one item more.                              *)
LEMMA GatheredFacts ==
    /\ Gathered(<<>>) = <<>>
    /\ \A s \in Seq(RItems) : Gathered(s) \in Seq(IRMessages) /\ FoldLeft(AddItem, <<>>, s) = Gathered(s)
    /\ \A s \in Seq(RItems), x \in RItems : Gathered(Append(s, x)) = AddItem(Gathered(s), x)
<1> DEFINE S == Seq(IRMessages)
           e == <<>>
<1>1. e \in S /\ IsStep(AddItemF, RItems, S)
  BY AddItemFFacts
<1>2. /\ Folded(AddItemF, e, <<>>) = e
      /\ \A s \in Seq(RItems) : Folded(AddItemF, e, s) \in S
      /\ \A s \in Seq(RItems), x \in RItems : Folded(AddItemF, e, Append(s, x)) = AddItemF[<<Folded(AddItemF, e, s), x>>]
  <2> HIDE DEF S, e
  <2>. QED
    BY <1>1, FoldedFacts
<1>3. \A s \in Seq(RItems), x \in RItems : AddItemF[<<Folded(AddItemF, e, s), x>>] = AddItem(Folded(AddItemF, e, s), x)
  BY <1>2, AddItemFFacts
<1>4. \A s \in Seq(RItems) : FoldLeft(AddItem, <<>>, s) = Gathered(s)
  BY AddItemFFacts, ItemsFold DEF Gathered
<1>. QED
  BY <1>2, <1>3, <1>4 DEF Gathered

(* The loop loses nothing.                                                 *)
LEMMA GatheredHeard ==
    \A s \in Seq(RItems) : Mapped(HearM, Gathered(s)) = Mapped(HearI, s)
<1> DEFINE P == {s \in Seq(RItems) : Mapped(HearM, Gathered(s)) = Mapped(HearI, s)}
<1>0. /\ \A s \in Seq(RItems), x \in RItems : Mapped(HearI, Append(s, x)) = Mapped(HearI, s) \o HearI[x]
      /\ Mapped(HearI, <<>>) = <<>> /\ Mapped(HearM, <<>>) = <<>>
  BY HearMFacts, HearIFacts, MappedFacts
<1>1. <<>> \in P
  <2>1. <<>> \in Seq(RItems)
    OBVIOUS
  <2>. QED
    BY <1>0, <2>1, GatheredFacts
<1>2. ASSUME NEW s \in Seq(RItems), s \in P, NEW x \in RItems PROVE Append(s, x) \in P
  <2>1. Append(s, x) \in Seq(RItems)
    BY AppendProperties
  <2>2. Gathered(Append(s, x)) = AddItem(Gathered(s), x) /\ Gathered(s) \in Seq(IRMessages)
    BY GatheredFacts
  <2>3. Mapped(HearM, AddItem(Gathered(s), x)) = Mapped(HearM, Gathered(s)) \o HearI[x]
    BY <2>2, AddItemFacts
  <2>. QED
    BY <1>0, <1>2, <2>1, <2>2, <2>3
<1> HIDE DEF P
<1>3. Seq(RItems) \subseteq P
  BY <1>1, <1>2, SeqInduction
<1>. QED
  BY <1>3 DEF P

(* What is heard of a Responses history is what is heard of its items.     *)
LEMMA RHistoryHeard ==
    \A h \in Seq(RItems) : InHistory("openai_responses", h) = Mapped(HearI, h)
<1> TAKE h \in Seq(RItems)
<1>1. \A i \in DOMAIN h : h[i] \in RItems
  BY ElementOfSeq, LenProperties
<1>2. [i \in DOMAIN h |-> InItem(h[i])] = [i \in DOMAIN h |-> HearI[h[i]]]
  BY <1>1, HearIFacts
<1>. QED
  BY <1>2 DEF InHistory, FlatMap, MapSeq, Mapped

(* The instructions come first.                                            *)
LEMMA RHeard ==
    ASSUME NEW w, w.input \in Seq(RItems)
    PROVE  Heard("openai_responses", w) = Words(w.instructions) \o Mapped(HearI, w.input)
<1> DEFINE h == w.input
<1>1. Heard("openai_responses", w) = Words(w.instructions) \o InHistory("openai_responses", h)
  BY DEF Heard, InSystem, History
<1>2. InHistory("openai_responses", h) = Mapped(HearI, h)
  BY RHistoryHeard
<1>. QED
  BY <1>1, <1>2

(* responsesRequest.ToIR: what was heard in the request is in the IR.      *)
LEMMA RToIRRequest ==
    ASSUME NEW w, w.input \in Seq(RItems), w.instructions \in Texts
    PROVE  LET r == ResponsesRequestToIR(w)
           IN  /\ r.messages = Gathered(w.input)
               /\ r.messages \in Seq(IRMessages)
               /\ r.system \in Seq(TextC)
               /\ HeardIR(r) = Heard("openai_responses", w)
<1> DEFINE r == ResponsesRequestToIR(w)
           t == w.instructions
           c == IF t = <<>> THEN <<>> ELSE <<Text(t)>>
           h == w.input
<1>1. r.system = c /\ r.messages = Gathered(h)
  BY GatheredFacts DEF ResponsesRequestToIR
<1>2. Gathered(h) \in Seq(IRMessages) /\ Mapped(HearM, Gathered(h)) = Mapped(HearI, h)
  BY GatheredFacts, GatheredHeard
<1>3. IsMap(HearC, IRBlocks, Things)
  BY HearCFacts
<1>4. c \in Seq(TextC) /\ Mapped(HearC, c) = Words(t)
  <2>1. CASE t = <<>>
    <3>1. c = <<>>
      BY <2>1
    <3>2. Mapped(HearC, <<>>) = <<>>
      BY <1>3, MappedFacts
    <3>3. Words(<<>>) = <<>>
      BY DEF Words, MapSeq
    <3>4. <<>> \in Seq(TextC)
      OBVIOUS
    <3>. QED
      BY <2>1, <3>1, <3>2, <3>3, <3>4
  <2>2. CASE t # <<>>
    <3> DEFINE x == Text(t)
    <3>1. c = <<x>>
      BY <2>2
    <3>2. x \in TextC /\ x.text = t
      BY BlocksAre
    <3> HIDE DEF x
    <3>3. x \in IRBlocks
      BY <3>2, TypesFacts
    <3>4. Mapped(HearC, <<x>>) = HearC[x]
      BY <1>3, <3>3, MappedFacts
    <3>. QED
      BY <3>1, <3>2, <3>4, HearCFacts, OneThing
  <2>. QED
    BY <2>1, <2>2
<1>5. Heard("openai_responses", w) = Words(t) \o Mapped(HearI, h)
  BY RHeard
<1> HIDE DEF r, t, c, h
<1>. QED
  BY <1>1, <1>2, <1>4, <1>5 DEF r, t, c, h, HeardIR

-----------------------------------------------------------------------------
(***************************************************************************)
(* Responses, from the IR.                                                 *)
(***************************************************************************)

Gatherings == [items : Seq(AnsR), parts : Seq(TextR)]
HearG      == [s \in Gatherings |-> Mapped(HearI, s.items) \o Mapped(HearPR, s.parts)]
NoItems    == [items |-> <<>>, parts |-> <<>>]

(* The items and parts gathered of an assistant's message.                 *)
LEMMA GatheringFacts ==
    /\ \A i \in Seq(AnsR), p \in Seq(TextR) :
          LET s == [items |-> i, parts |-> p]
          IN  s \in Gatherings /\ s.items = i /\ s.parts = p
    /\ \A s \in Gatherings : s.items \in Seq(AnsR) /\ s.parts \in Seq(TextR)
    /\ \A s \in Gatherings, p \in Seq(TextR) : [s EXCEPT !.parts = p] = [items |-> s.items, parts |-> p]
    /\ NoItems \in Gatherings
<1> DEFINE S == Seq(AnsR)
           T == Seq(TextR)
<1>1. Gatherings = [items : S, parts : T]
  BY DEF Gatherings
<1>2. <<>> \in S /\ <<>> \in T
  OBVIOUS
<1> HIDE DEF S, T
<1>3. \A i \in S, p \in T : LET s == [items |-> i, parts |-> p]
                            IN  s \in Gatherings /\ s.items = i /\ s.parts = p
  BY <1>1
<1>4. \A s \in Gatherings : s.items \in S /\ s.parts \in T
  BY <1>1
<1>5. \A s \in Gatherings, p \in T : [s EXCEPT !.parts = p] = [items |-> s.items, parts |-> p]
  BY <1>1
<1>6. NoItems \in Gatherings
  BY <1>1, <1>2 DEF NoItems
<1>. QED
  BY <1>3, <1>4, <1>5, <1>6 DEF S, T

(* What is heard of them.                                                  *)
LEMMA HearGFacts ==
    /\ \A s \in Gatherings : HearG[s] = Mapped(HearI, s.items) \o Mapped(HearPR, s.parts)
    /\ \A s \in Gatherings : HearG[s] \in Seq(Things)
    /\ \A i \in Seq(AnsR) : HearG[[items |-> i, parts |-> <<>>]] = Mapped(HearI, i)
    /\ HearG[NoItems] = <<>>
<1>1. \A s \in Gatherings : HearG[s] = Mapped(HearI, s.items) \o Mapped(HearPR, s.parts)
  BY DEF HearG
<1>2. \A s \in Gatherings : Mapped(HearI, s.items) \in Seq(Things) /\ Mapped(HearPR, s.parts) \in Seq(Things)
  <2> TAKE s \in Gatherings
  <2>1. s.items \in Seq(AnsR) /\ s.parts \in Seq(PartR)
    BY GatheringFacts, MorePartsR
  <2>2. Mapped(HearI, s.items) \in Seq(Things)
    BY <2>1, HearIFacts, MappedFacts
  <2>3. Mapped(HearPR, s.parts) \in Seq(Things)
    BY <2>1, PartRFacts, MappedFacts
  <2>. QED
    BY <2>2, <2>3
<1>3. \A s \in Gatherings : HearG[s] \in Seq(Things)
  BY <1>1, <1>2, ConcatProperties
<1>4. Mapped(HearPR, <<>>) = <<>>
  BY PartRFacts, MappedFacts
<1>5. ASSUME NEW i \in Seq(AnsR) PROVE HearG[[items |-> i, parts |-> <<>>]] = Mapped(HearI, i)
  <2> DEFINE p == <<>>
             s == [items |-> i, parts |-> p]
  <2>1. p \in Seq(TextR)
    OBVIOUS
  <2> HIDE DEF p
  <2>2. s \in Gatherings /\ s.items = i /\ s.parts = p
    BY <2>1, GatheringFacts
  <2> HIDE DEF s
  <2>3. HearG[s] = Mapped(HearI, i) \o <<>>
    BY <1>1, <1>4, <2>2 DEF p
  <2>4. Mapped(HearI, i) \in Seq(Things)
    BY <1>2, <2>2
  <2>5. Mapped(HearI, i) \o <<>> = Mapped(HearI, i)
    BY <2>4, ConcatEmptySeq
  <2>. QED
    BY <2>3, <2>5 DEF s, p
<1>6. HearG[NoItems] = <<>>
  <2>1. <<>> \in Seq(AnsR)
    OBVIOUS
  <2>2. Mapped(HearI, <<>>) = <<>>
    BY HearIFacts, MappedFacts
  <2>. QED
    BY <1>5, <2>1, <2>2 DEF NoItems
<1>. QED
  BY <1>1, <1>3, <1>5, <1>6

(* Flushing the parts loses none,                                          *)
LEMMA FlushFacts ==
    \A s \in Gatherings : /\ Flush(s) \in Seq(AnsR) /\ Mapped(HearI, Flush(s)) = HearG[s]
                          /\ s.parts = <<>> => Flush(s) = s.items
<1> TAKE s \in Gatherings
<1>1. s.items \in Seq(AnsR) /\ s.parts \in Seq(TextR)
  BY GatheringFacts
<1>2. IsMap(HearI, AnsR, Things)
  BY HearIFacts
<1>3. CASE s.parts = <<>>
  <2>1. Flush(s) = s.items \o <<>>
    BY <1>3 DEF Flush, MessageItems
  <2>2. s.items \o <<>> = s.items
    BY <1>1, ConcatEmptySeq
  <2>3. HearG[s] = Mapped(HearI, s.items) \o <<>>
    <3>1. Mapped(HearPR, <<>>) = <<>>
      BY PartRFacts, MappedFacts
    <3>. QED
      BY <1>3, <3>1, HearGFacts
  <2>4. Mapped(HearI, s.items) \o <<>> = Mapped(HearI, s.items)
    BY <1>1, <1>2, MappedFacts, ConcatEmptySeq
  <2>. QED
    BY <1>1, <2>1, <2>2, <2>3, <2>4
<1>4. CASE s.parts # <<>>
  <2> DEFINE x == MessageItem("assistant", s.parts)
  <2>1. Flush(s) = s.items \o <<x>>
    BY <1>4 DEF Flush, MessageItems
  <2>2. x \in AsstR /\ x.content = s.parts
    BY <1>1, MessageItemFacts, MorePartsR
  <2> HIDE DEF x
  <2>3. x \in AnsR /\ HearI[x] = Mapped(HearPR, s.parts)
    BY <2>2, HearIFacts DEF AnsR
  <2>4. <<x>> \in Seq(AnsR) /\ Mapped(HearI, <<x>>) = HearI[x]
    BY <1>2, <2>3, OneThing, MappedFacts
  <2>5. \A u, v \in Seq(AnsR) : Mapped(HearI, u \o v) = Mapped(HearI, u) \o Mapped(HearI, v)
    BY <1>2, MappedConcat
  <2>6. s.items \o <<x>> \in Seq(AnsR)
    BY <1>1, <2>4, ConcatProperties
  <2>7. Mapped(HearI, s.items \o <<x>>) = Mapped(HearI, s.items) \o Mapped(HearI, <<x>>)
    BY <1>1, <2>4, <2>5
  <2>8. HearG[s] = Mapped(HearI, s.items) \o Mapped(HearPR, s.parts)
    BY HearGFacts
  <2>. QED
    BY <1>4, <2>1, <2>3, <2>4, <2>6, <2>7, <2>8
<1>. QED
  BY <1>3, <1>4

(* What a step adds to the items is heard after what was heard.            *)
LEMMA FlushThen ==
    ASSUME NEW s \in Gatherings, NEW x \in AnsR
    PROVE  LET t == [items |-> Append(Flush(s), x), parts |-> <<>>]
           IN  t \in Gatherings /\ HearG[t] = HearG[s] \o HearI[x]
<1> DEFINE f == Flush(s)
           a == Append(f, x)
           p == <<>>
           t == [items |-> a, parts |-> p]
<1>1. f \in Seq(AnsR) /\ Mapped(HearI, f) = HearG[s]
  BY FlushFacts
<1> HIDE DEF f
<1>2. a \in Seq(AnsR) /\ Mapped(HearI, a) = Mapped(HearI, f) \o HearI[x]
  <2>1. \A u \in Seq(AnsR), v \in AnsR : Mapped(HearI, Append(u, v)) = Mapped(HearI, u) \o HearI[v]
    BY HearIFacts, MappedFacts
  <2>. QED
    BY <1>1, <2>1, AppendProperties
<1>3. p \in Seq(TextR)
  OBVIOUS
<1> HIDE DEF a
<1>4. HearG[t] = Mapped(HearI, a)
  BY <1>2, HearGFacts
<1> HIDE DEF p
<1>5. t \in Gatherings
  BY <1>2, <1>3, GatheringFacts
<1>. QED
  BY <1>1, <1>2, <1>4, <1>5 DEF f, a, p

(* or without.                                                             *)
LEMMA FlushOnly ==
    ASSUME NEW s \in Gatherings
    PROVE  LET t == [items |-> Flush(s), parts |-> <<>>]
           IN  t \in Gatherings /\ HearG[t] = HearG[s]
<1> DEFINE f == Flush(s)
           p == <<>>
           t == [items |-> f, parts |-> p]
<1>1. f \in Seq(AnsR) /\ Mapped(HearI, f) = HearG[s]
  BY FlushFacts
<1>2. p \in Seq(TextR)
  OBVIOUS
<1> HIDE DEF f
<1>3. HearG[t] = Mapped(HearI, f)
  BY <1>1, HearGFacts
<1> HIDE DEF p
<1>4. t \in Gatherings
  BY <1>1, <1>2, GatheringFacts
<1>. QED
  BY <1>1, <1>3, <1>4 DEF f, p

(* Adding a block of a request loses nothing;                              *)
LEMMA AddBlockFacts ==
    \A s \in Gatherings, c \in AssistantC :
       AddBlock(s, c) \in Gatherings /\ HearG[AddBlock(s, c)] = HearG[s] \o HearC[c]
<1> TAKE s \in Gatherings, c \in AssistantC
<1>0. HearG[s] \in Seq(Things) /\ HearG[s] \o <<>> = HearG[s]
  BY HearGFacts, ConcatEmptySeq
<1>1. CASE c \in TextC
  <2> DEFINE x == [type |-> "output_text", text |-> c.text]
             p == Append(s.parts, x)
             t == [items |-> s.items, parts |-> p]
  <2>1. c.kind = "text" /\ c.text \in Texts
    BY <1>1 DEF TextC
  <2>2. s.items \in Seq(AnsR) /\ s.parts \in Seq(TextR)
    BY GatheringFacts
  <2>3. x \in TextR /\ x.text = c.text
    BY <2>1 DEF TextR
  <2>4. AddBlock(s, c) = [s EXCEPT !.parts = p]
    BY <2>1 DEF AddBlock
  <2> HIDE DEF x
  <2>5. p \in Seq(TextR)
    BY <2>2, <2>3, AppendProperties
  <2>6. x \in PartR /\ s.parts \in Seq(PartR)
    BY <2>2, <2>3, MorePartsR DEF PartR, SaidR
  <2>7. Mapped(HearPR, p) = Mapped(HearPR, s.parts) \o HearPR[x] /\ Mapped(HearPR, s.parts) \in Seq(Things)
    <3>1. IsMap(HearPR, PartR, Things)
      BY PartRFacts
    <3>2. \A u \in Seq(PartR), v \in PartR : Mapped(HearPR, Append(u, v)) = Mapped(HearPR, u) \o HearPR[v]
      BY <3>1, MappedFacts
    <3>3. Mapped(HearPR, s.parts) \in Seq(Things)
      BY <2>6, <3>1, MappedFacts
    <3> HIDE DEF p
    <3>. QED
      BY <2>6, <3>2, <3>3 DEF p
  <2>8. HearPR[x] = HearC[c] /\ HearC[c] \in Seq(Things)
    BY <1>1, <2>1, <2>3, PartRFacts, HearCFacts, WordsFacts
  <2>9. Mapped(HearI, s.items) \in Seq(Things)
    BY <2>2, HearIFacts, MappedFacts
  <2> HIDE DEF p
  <2>10. AddBlock(s, c) = t /\ t \in Gatherings /\ t.items = s.items /\ t.parts = p
    BY <2>2, <2>4, <2>5, GatheringFacts
  <2> HIDE DEF t
  <2>11. HearG[t] = Mapped(HearI, s.items) \o (Mapped(HearPR, s.parts) \o HearC[c])
    BY <2>7, <2>8, <2>10, HearGFacts
  <2> DEFINE a == Mapped(HearI, s.items)
             b == Mapped(HearPR, s.parts)
             d == HearC[c]
  <2>12. a \in Seq(Things) /\ b \in Seq(Things) /\ d \in Seq(Things) /\ HearG[s] = a \o b
    BY <2>7, <2>8, <2>9, HearGFacts
  <2>13. HearG[t] = a \o (b \o d)
    BY <2>11
  <2> HIDE DEF a, b, d
  <2>14. a \o (b \o d) = (a \o b) \o d
    BY <2>12, ConcatAssociative
  <2>. QED
    BY <2>10, <2>12, <2>13, <2>14 DEF d
<1>2. CASE c \in CallC
  <2> DEFINE a == ArgumentsOr(c.input, "{}")
             x == CallItem(c.id, a)
  <2>1. c.kind = "tool_use" /\ c.id \in Nat /\ c.input \in Args
    BY <1>2 DEF CallC
  <2>2. a \in Args
    BY <2>1 DEF ArgumentsOr, Args
  <2>3. AddBlock(s, c) = [items |-> Append(Flush(s), x), parts |-> <<>>]
    BY <2>1 DEF AddBlock
  <2> HIDE DEF a
  <2>4. x \in CallR /\ x \in AnsR /\ x.call = c.id
    BY <2>1, <2>2, ItemsAre
  <2> HIDE DEF x
  <2>5. HearI[x] = HearC[c]
    BY <1>2, <2>4, HearIFacts, HearCFacts
  <2>. QED
    BY <2>3, <2>4, <2>5, FlushThen
<1>3. CASE c \in ThinkC
  <2>1. c.kind = "thinking" /\ HearC[c] = <<>> /\ c.raw \in Raws
    BY <1>3, HearCFacts DEF ThinkC
  <2>2. CASE c.raw.type = "reasoning"
    <3> DEFINE x == c.raw.data
               f == Flush(s)
    <3>1. x \in Reasonings
      BY <2>1, <2>2 DEF Raws
    <3>2. x \in AnsR /\ HearI[x] = <<>>
      BY <3>1, HearIFacts DEF AnsR
    <3>3. AddBlock(s, c) = [items |-> f \o <<x>>, parts |-> <<>>]
      BY <2>1, <2>2 DEF AddBlock
    <3>4. f \in Seq(AnsR)
      BY FlushFacts
    <3> HIDE DEF x, f
    <3>5. f \o <<x>> = Append(f, x)
      BY <3>2, <3>4, AppendConcat
    <3> DEFINE t == [items |-> Append(Flush(s), x), parts |-> <<>>]
    <3>6. AddBlock(s, c) = t
      BY <3>3, <3>5 DEF f
    <3>7. t \in Gatherings /\ HearG[t] = HearG[s] \o HearI[x]
      BY <3>2, FlushThen
    <3> HIDE DEF t
    <3>. QED
      BY <1>0, <2>1, <3>2, <3>6, <3>7
  <2>3. CASE c.raw.type # "reasoning"
    <3>1. AddBlock(s, c) = [items |-> Flush(s) \o <<>>, parts |-> <<>>]
      BY <2>1, <2>3 DEF AddBlock
    <3>2. Flush(s) \o <<>> = Flush(s)
      BY FlushFacts, ConcatEmptySeq
    <3>. QED
      BY <1>0, <2>1, <3>1, <3>2, FlushOnly
  <2>. QED
    BY <2>2, <2>3
<1>. QED
  BY <1>1, <1>2, <1>3 DEF AssistantC

(* neither does one of a response.                                         *)
LEMMA AddOutputFacts ==
    \A s \in Gatherings, c \in AssistantC :
       AddOutput(s, c) \in Gatherings /\ HearG[AddOutput(s, c)] = HearG[s] \o HearC[c]
<1> TAKE s \in Gatherings, c \in AssistantC
<1>0. HearG[s] \in Seq(Things) /\ HearG[s] \o <<>> = HearG[s]
  BY HearGFacts, ConcatEmptySeq
<1>1. CASE c.kind = "thinking" /\ c.raw.type # "reasoning" /\ c.text # <<>>
  <2> DEFINE x == ReasoningItem(c.text, MadeUp)
  <2>1. c \in ThinkC
    BY <1>1 DEF AssistantC, TextC, CallC
  <2>2. c.text \in Texts /\ MadeUp \in Nat /\ HearC[c] = <<>>
    BY <2>1, HearCFacts DEF ThinkC, MadeUp
  <2>3. AddOutput(s, c) = [items |-> Append(Flush(s), x), parts |-> <<>>]
    BY <1>1 DEF AddOutput
  <2>4. x \in AnsR /\ HearI[x] = <<>>
    BY <2>2, ItemsAre, HearIFacts
  <2> HIDE DEF x
  <2>. QED
    BY <1>0, <2>2, <2>3, <2>4, FlushThen
<1>2. CASE ~(c.kind = "thinking" /\ c.raw.type # "reasoning" /\ c.text # <<>>)
  BY <1>2, AddBlockFacts DEF AddOutput
<1>. QED
  BY <1>1, <1>2

AddBlockF  == [p \in Gatherings \X AssistantC |-> AddBlock(p[1], p[2])]
AddOutputF == [p \in Gatherings \X AssistantC |-> AddOutput(p[1], p[2])]

(* Both are steps of a fold,                                               *)
LEMMA AddFFacts ==
    /\ IsStep(AddBlockF, AssistantC, Gatherings)
    /\ \A p \in Gatherings, x \in AssistantC : AddBlockF[<<p, x>>] = AddBlock(p, x)
    /\ IsStep(AddOutputF, AssistantC, Gatherings)
    /\ \A p \in Gatherings, x \in AssistantC : AddOutputF[<<p, x>>] = AddOutput(p, x)
<1>1. \A p \in Gatherings, x \in AssistantC : AddBlockF[<<p, x>>] = AddBlock(p, x)
  BY DEF AddBlockF
<1>2. \A p \in Gatherings, x \in AssistantC : AddOutputF[<<p, x>>] = AddOutput(p, x)
  BY DEF AddOutputF
<1>3. IsStep(AddBlockF, AssistantC, Gatherings)
  BY <1>1, AddBlockFacts DEF IsStep
<1>4. IsStep(AddOutputF, AssistantC, Gatherings)
  BY <1>2, AddOutputFacts DEF IsStep
<1>. QED
  BY <1>1, <1>2, <1>3, <1>4

BlockTable(it, s) ==
    it = [S \in SUBSET (1..Len(s)) |->
             IF S = {} THEN NoItems ELSE AddBlock(it[S \ {Max(S)}], s[Max(S)])]

(* the one for requests                                                    *)
LEMMA BlocksFold ==
    ASSUME NoItems \in Gatherings, IsStep(AddBlockF, AssistantC, Gatherings),
           \A p \in Gatherings, x \in AssistantC : AddBlockF[<<p, x>>] = AddBlock(p, x)
    PROVE  \A s \in Seq(AssistantC) : FoldLeft(AddBlock, NoItems, s) = Folded(AddBlockF, NoItems, s)
<1> TAKE s \in Seq(AssistantC)
<1> DEFINE n == Len(s)
           b == NoItems
           S0 == Gatherings
           it == CHOOSE it : BlockTable(it, s)
<1>1. n \in Nat /\ DOMAIN s = 1..n /\ \A i \in 1..n : s[i] \in AssistantC
  BY LenProperties, ElementOfSeq
<1>2. FoldLeft(AddBlock, b, s) = it[1..n]
  BY <1>1 DEF FoldLeft, MapThenFoldSet, BlockTable
<1>3. b \in S0 /\ IsStep(AddBlockF, AssistantC, S0) /\ \A p \in S0, x \in AssistantC : AddBlockF[<<p, x>>] = AddBlock(p, x)
  OBVIOUS
<1>4. \A S \in SUBSET (1..n) : S # {} => Max(S) \in 1..n /\ S \ {Max(S)} \in SUBSET (1..n)
  <2>1. \A S \in SUBSET (1..n) : S # {} => Max(S) \in S
    BY <1>1, MaxOfSet
  <2>. QED
    BY <2>1
<1>5. BlockTable(it, s)
  <2> HIDE DEF S0
  <2>1. PICK g \in [SUBSET (1..Len(s)) -> S0] : IsTable(g, AddBlockF, b, s)
    BY <1>3, TableExists
  <2> HIDE DEF b
  <2>2. \A S \in SUBSET (1..Len(s)) :
           g[S] = IF S = {} THEN b ELSE AddBlockF[<<g[S \ {Max(S)}], s[Max(S)]>>]
    BY <2>1 DEF IsTable
  <2>3. ASSUME NEW S \in SUBSET (1..Len(s)), S # {}
        PROVE  AddBlockF[<<g[S \ {Max(S)}], s[Max(S)]>>] = AddBlock(g[S \ {Max(S)}], s[Max(S)])
    BY <1>1, <1>3, <1>4, <2>1, <2>3
  <2>4. \A S \in SUBSET (1..Len(s)) :
           g[S] = IF S = {} THEN b ELSE AddBlock(g[S \ {Max(S)}], s[Max(S)])
    BY <2>2, <2>3
  <2>5. BlockTable(g, s)
    BY <2>1, <2>4 DEF BlockTable, b
  <2>. QED
    BY <2>5
<1> HIDE DEF it
<1>6. \A S \in SUBSET (1..n) : it[S] = IF S = {} THEN b ELSE AddBlock(it[S \ {Max(S)}], s[Max(S)])
  BY <1>5 DEF BlockTable
<1>7. it[{}] = b
  <2>1. {} \in SUBSET (1..n)
    OBVIOUS
  <2>. QED
    BY <1>6, <2>1
<1>8. \A S \in SUBSET (1..Len(s)) : S # {} /\ it[S \ {Max(S)}] \in S0 =>
         it[S] = AddBlockF[<<it[S \ {Max(S)}], s[Max(S)]>>]
  <2> HIDE DEF S0, b
  <2>. QED
    BY <1>1, <1>3, <1>4, <1>6
<1>9. Fills(it, AddBlockF, b, S0, s)
  BY <1>7, <1>8 DEF Fills
<1>10. it[1..Len(s)] = Folded(AddBlockF, b, s)
  <2>1. b \in S0 /\ IsStep(AddBlockF, AssistantC, S0) /\ Fills(it, AddBlockF, b, S0, s)
    BY <1>3, <1>9
  <2> HIDE DEF S0, b
  <2>. QED
    BY <2>1, TableIsFold
<1>. QED
  BY <1>2, <1>10

OutputTable(it, s) ==
    it = [S \in SUBSET (1..Len(s)) |->
             IF S = {} THEN NoItems ELSE AddOutput(it[S \ {Max(S)}], s[Max(S)])]

(* and the one for responses.                                              *)
LEMMA OutputsFold ==
    ASSUME NoItems \in Gatherings, IsStep(AddOutputF, AssistantC, Gatherings),
           \A p \in Gatherings, x \in AssistantC : AddOutputF[<<p, x>>] = AddOutput(p, x)
    PROVE  \A s \in Seq(AssistantC) : FoldLeft(AddOutput, NoItems, s) = Folded(AddOutputF, NoItems, s)
<1> TAKE s \in Seq(AssistantC)
<1> DEFINE n == Len(s)
           b == NoItems
           S0 == Gatherings
           it == CHOOSE it : OutputTable(it, s)
<1>1. n \in Nat /\ DOMAIN s = 1..n /\ \A i \in 1..n : s[i] \in AssistantC
  BY LenProperties, ElementOfSeq
<1>2. FoldLeft(AddOutput, b, s) = it[1..n]
  BY <1>1 DEF FoldLeft, MapThenFoldSet, OutputTable
<1>3. b \in S0 /\ IsStep(AddOutputF, AssistantC, S0) /\ \A p \in S0, x \in AssistantC : AddOutputF[<<p, x>>] = AddOutput(p, x)
  OBVIOUS
<1>4. \A S \in SUBSET (1..n) : S # {} => Max(S) \in 1..n /\ S \ {Max(S)} \in SUBSET (1..n)
  <2>1. \A S \in SUBSET (1..n) : S # {} => Max(S) \in S
    BY <1>1, MaxOfSet
  <2>. QED
    BY <2>1
<1>5. OutputTable(it, s)
  <2> HIDE DEF S0
  <2>1. PICK g \in [SUBSET (1..Len(s)) -> S0] : IsTable(g, AddOutputF, b, s)
    BY <1>3, TableExists
  <2> HIDE DEF b
  <2>2. \A S \in SUBSET (1..Len(s)) :
           g[S] = IF S = {} THEN b ELSE AddOutputF[<<g[S \ {Max(S)}], s[Max(S)]>>]
    BY <2>1 DEF IsTable
  <2>3. ASSUME NEW S \in SUBSET (1..Len(s)), S # {}
        PROVE  AddOutputF[<<g[S \ {Max(S)}], s[Max(S)]>>] = AddOutput(g[S \ {Max(S)}], s[Max(S)])
    BY <1>1, <1>3, <1>4, <2>1, <2>3
  <2>4. \A S \in SUBSET (1..Len(s)) :
           g[S] = IF S = {} THEN b ELSE AddOutput(g[S \ {Max(S)}], s[Max(S)])
    BY <2>2, <2>3
  <2>5. OutputTable(g, s)
    BY <2>1, <2>4 DEF OutputTable, b
  <2>. QED
    BY <2>5
<1> HIDE DEF it
<1>6. \A S \in SUBSET (1..n) : it[S] = IF S = {} THEN b ELSE AddOutput(it[S \ {Max(S)}], s[Max(S)])
  BY <1>5 DEF OutputTable
<1>7. it[{}] = b
  <2>1. {} \in SUBSET (1..n)
    OBVIOUS
  <2>. QED
    BY <1>6, <2>1
<1>8. \A S \in SUBSET (1..Len(s)) : S # {} /\ it[S \ {Max(S)}] \in S0 =>
         it[S] = AddOutputF[<<it[S \ {Max(S)}], s[Max(S)]>>]
  <2> HIDE DEF S0, b
  <2>. QED
    BY <1>1, <1>3, <1>4, <1>6
<1>9. Fills(it, AddOutputF, b, S0, s)
  BY <1>7, <1>8 DEF Fills
<1>10. it[1..Len(s)] = Folded(AddOutputF, b, s)
  <2>1. b \in S0 /\ IsStep(AddOutputF, AssistantC, S0) /\ Fills(it, AddOutputF, b, S0, s)
    BY <1>3, <1>9
  <2> HIDE DEF S0, b
  <2>. QED
    BY <2>1, TableIsFold
<1>. QED
  BY <1>2, <1>10

(* So all an assistant said in a request is in its items;                  *)
LEMMA BlocksGathered ==
    \A s \in Seq(AssistantC) :
       /\ Flush(FoldLeft(AddBlock, NoItems, s)) = Flush(Folded(AddBlockF, NoItems, s))
       /\ Flush(FoldLeft(AddBlock, NoItems, s)) \in Seq(AnsR)
       /\ Mapped(HearI, Flush(FoldLeft(AddBlock, NoItems, s))) = Mapped(HearC, s)
<1> DEFINE g(s) == Folded(AddBlockF, NoItems, s)
           P == {s \in Seq(AssistantC) : HearG[g(s)] = Mapped(HearC, s)}
<1>0. /\ NoItems \in Gatherings /\ IsStep(AddBlockF, AssistantC, Gatherings)
      /\ \A p \in Gatherings, x \in AssistantC : AddBlockF[<<p, x>>] = AddBlock(p, x)
  BY GatheringFacts, AddFFacts
<1>1. /\ g(<<>>) = NoItems
      /\ \A s \in Seq(AssistantC) : g(s) \in Gatherings
      /\ \A s \in Seq(AssistantC), x \in AssistantC : g(Append(s, x)) = AddBlockF[<<g(s), x>>]
  BY <1>0, FoldedFacts
<1>2. \A s \in Seq(AssistantC) : FoldLeft(AddBlock, NoItems, s) = g(s)
  BY <1>0, BlocksFold
<1> HIDE DEF g
<1>3. IsMap(HearC, AssistantC, Things)
  <2>1. \A c \in AssistantC : HearC[c] \in Seq(Things)
    BY HearCFacts, TypesFacts DEF IsMap
  <2>. QED
    BY <2>1 DEF IsMap
<1>4. /\ \A s \in Seq(AssistantC), x \in AssistantC : Mapped(HearC, Append(s, x)) = Mapped(HearC, s) \o HearC[x]
      /\ Mapped(HearC, <<>>) = <<>>
  BY <1>3, MappedFacts
<1>5. <<>> \in P
  <2>1. <<>> \in Seq(AssistantC)
    OBVIOUS
  <2>. QED
    BY <1>1, <1>4, <2>1, HearGFacts
<1>6. ASSUME NEW s \in Seq(AssistantC), s \in P, NEW x \in AssistantC PROVE Append(s, x) \in P
  <2>1. Append(s, x) \in Seq(AssistantC)
    BY AppendProperties
  <2>2. g(Append(s, x)) = AddBlock(g(s), x) /\ g(s) \in Gatherings
    BY <1>0, <1>1
  <2>3. HearG[AddBlock(g(s), x)] = HearG[g(s)] \o HearC[x]
    BY <2>2, AddBlockFacts
  <2>. QED
    BY <1>4, <1>6, <2>1, <2>2, <2>3
<1> HIDE DEF P
<1>7. Seq(AssistantC) \subseteq P
  BY <1>5, <1>6, SeqInduction
<1>8. ASSUME NEW s \in Seq(AssistantC)
      PROVE  /\ Flush(FoldLeft(AddBlock, NoItems, s)) = Flush(g(s))
             /\ Flush(FoldLeft(AddBlock, NoItems, s)) \in Seq(AnsR)
             /\ Mapped(HearI, Flush(FoldLeft(AddBlock, NoItems, s))) = Mapped(HearC, s)
  <2>1. HearG[g(s)] = Mapped(HearC, s)
    BY <1>7 DEF P
  <2>. QED
    BY <1>1, <1>2, <2>1, FlushFacts
<1>. QED
  BY <1>8 DEF g

(* and all of a response.                                                  *)
LEMMA OutputsGathered ==
    \A s \in Seq(AssistantC) :
       /\ Flush(FoldLeft(AddOutput, NoItems, s)) = Flush(Folded(AddOutputF, NoItems, s))
       /\ Flush(FoldLeft(AddOutput, NoItems, s)) \in Seq(AnsR)
       /\ Mapped(HearI, Flush(FoldLeft(AddOutput, NoItems, s))) = Mapped(HearC, s)
<1> DEFINE g(s) == Folded(AddOutputF, NoItems, s)
           P == {s \in Seq(AssistantC) : HearG[g(s)] = Mapped(HearC, s)}
<1>0. /\ NoItems \in Gatherings /\ IsStep(AddOutputF, AssistantC, Gatherings)
      /\ \A p \in Gatherings, x \in AssistantC : AddOutputF[<<p, x>>] = AddOutput(p, x)
  BY GatheringFacts, AddFFacts
<1>1. /\ g(<<>>) = NoItems
      /\ \A s \in Seq(AssistantC) : g(s) \in Gatherings
      /\ \A s \in Seq(AssistantC), x \in AssistantC : g(Append(s, x)) = AddOutputF[<<g(s), x>>]
  BY <1>0, FoldedFacts
<1>2. \A s \in Seq(AssistantC) : FoldLeft(AddOutput, NoItems, s) = g(s)
  BY <1>0, OutputsFold
<1> HIDE DEF g
<1>3. IsMap(HearC, AssistantC, Things)
  <2>1. \A c \in AssistantC : HearC[c] \in Seq(Things)
    BY HearCFacts, TypesFacts DEF IsMap
  <2>. QED
    BY <2>1 DEF IsMap
<1>4. /\ \A s \in Seq(AssistantC), x \in AssistantC : Mapped(HearC, Append(s, x)) = Mapped(HearC, s) \o HearC[x]
      /\ Mapped(HearC, <<>>) = <<>>
  BY <1>3, MappedFacts
<1>5. <<>> \in P
  <2>1. <<>> \in Seq(AssistantC)
    OBVIOUS
  <2>. QED
    BY <1>1, <1>4, <2>1, HearGFacts
<1>6. ASSUME NEW s \in Seq(AssistantC), s \in P, NEW x \in AssistantC PROVE Append(s, x) \in P
  <2>1. Append(s, x) \in Seq(AssistantC)
    BY AppendProperties
  <2>2. g(Append(s, x)) = AddOutput(g(s), x) /\ g(s) \in Gatherings
    BY <1>0, <1>1
  <2>3. HearG[AddOutput(g(s), x)] = HearG[g(s)] \o HearC[x]
    BY <2>2, AddOutputFacts
  <2>. QED
    BY <1>4, <1>6, <2>1, <2>2, <2>3
<1> HIDE DEF P
<1>7. Seq(AssistantC) \subseteq P
  BY <1>5, <1>6, SeqInduction
<1>8. ASSUME NEW s \in Seq(AssistantC)
      PROVE  /\ Flush(FoldLeft(AddOutput, NoItems, s)) = Flush(g(s))
             /\ Flush(FoldLeft(AddOutput, NoItems, s)) \in Seq(AnsR)
             /\ Mapped(HearI, Flush(FoldLeft(AddOutput, NoItems, s))) = Mapped(HearC, s)
  <2>1. HearG[g(s)] = Mapped(HearC, s)
    BY <1>7 DEF P
  <2>. QED
    BY <1>1, <1>2, <2>1, FlushFacts
<1>. QED
  BY <1>8 DEF g

(* A message item, if there is something to say.                           *)
LEMMA MessageItemsHeard ==
    ASSUME NEW r, NEW p \in Seq(PartR), MessageItem(r, p) \in DevR \cup UserR \cup AsstR
    PROVE  /\ MessageItems(r, p) \in Seq(RItems)
           /\ Mapped(HearI, MessageItems(r, p)) = Mapped(HearPR, p)
<1>1. CASE p = <<>>
  <2>1. MessageItems(r, p) = <<>>
    BY <1>1 DEF MessageItems
  <2>2. Mapped(HearI, <<>>) = <<>>
    BY HearIFacts, MappedFacts
  <2>3. Mapped(HearPR, <<>>) = <<>>
    BY PartRFacts, MappedFacts
  <2>4. <<>> \in Seq(RItems)
    OBVIOUS
  <2>. QED
    BY <1>1, <2>1, <2>2, <2>3, <2>4
<1>2. CASE p # <<>>
  <2> DEFINE x == MessageItem(r, p)
  <2>1. MessageItems(r, p) = <<x>>
    BY <1>2 DEF MessageItems
  <2>2. x \in DevR \cup UserR \cup AsstR /\ x.content = p
    BY MessageItemFacts
  <2> HIDE DEF x
  <2>3. x \in RItems /\ HearI[x] = Mapped(HearPR, p)
    BY <2>2, HearIFacts DEF RItems, AnsR
  <2>4. Mapped(HearI, <<x>>) = HearI[x]
    BY <2>3, HearIFacts, MappedFacts
  <2>. QED
    BY <2>1, <2>3, <2>4, OneThing
<1>. QED
  BY <1>1, <1>2

ItemPart == [c \in TextC \cup ImageC |->
                IF c.kind = "image" THEN [type |-> "input_image"] ELSE [type |-> "input_text", text |-> c.text]]

(* The parts of a user's item lose nothing,                                *)
LEMMA ItemPartFacts ==
    /\ \A s \in Seq(TextC \cup ImageC) :
          LET p == MapSeq(LAMBDA c : IF c.kind = "image" THEN [type |-> "input_image"]
                                     ELSE [type |-> "input_text", text |-> c.text], s)
          IN  /\ p = Each(ItemPart, s) /\ p \in Seq(TextR \cup ImageR)
              /\ Mapped(HearPR, p) = Mapped(HearC, s)
    /\ \A s \in Seq(TextC) :
          LET p == MapSeq(LAMBDA c : [type |-> "input_text", text |-> c.text], s)
          IN  /\ p = Each(ItemPart, s) /\ p \in Seq(TextR)
              /\ Mapped(HearPR, p) = Mapped(HearC, s)
<1> DEFINE W == TextC \cup ImageC
<1>1. ASSUME NEW c \in TextC
      PROVE  /\ ItemPart[c] = [type |-> "input_text", text |-> c.text]
             /\ ItemPart[c] \in TextR /\ HearPR[ItemPart[c]] = HearC[c]
  <2>1. c \in W /\ c.kind = "text" /\ c.text \in Texts
    BY DEF TextC
  <2>2. ItemPart[c] = [type |-> "input_text", text |-> c.text]
    BY <2>1 DEF ItemPart
  <2>3. ItemPart[c] \in TextR /\ ItemPart[c].text = c.text
    BY <2>1, <2>2 DEF TextR
  <2>. QED
    BY <2>2, <2>3, PartRFacts, HearCFacts
<1>2. ASSUME NEW c \in ImageC
      PROVE  ItemPart[c] \in ImageR /\ HearPR[ItemPart[c]] = HearC[c]
  <2>1. c \in W /\ c.kind = "image"
    BY DEF ImageC
  <2>2. ItemPart[c] = [type |-> "input_image"]
    BY <2>1 DEF ItemPart
  <2>. QED
    BY <2>2, PartRFacts, HearCFacts DEF ImageR
<1>3. \A c \in W : /\ ItemPart[c] \in TextR \cup ImageR /\ HearC[c] = HearPR[ItemPart[c]]
                   /\ ItemPart[c] = IF c.kind = "image" THEN [type |-> "input_image"]
                                    ELSE [type |-> "input_text", text |-> c.text]
  BY <1>1, <1>2 DEF ItemPart
<1>4. IsFcn(ItemPart, W, TextR \cup ImageR)
  BY <1>3 DEF IsFcn
<1>5. IsFcn(ItemPart, TextC, TextR)
  BY <1>1 DEF IsFcn
<1> HIDE DEF W
<1>6. ASSUME NEW s \in Seq(W)
      PROVE  MapSeq(LAMBDA c : IF c.kind = "image" THEN [type |-> "input_image"]
                               ELSE [type |-> "input_text", text |-> c.text], s) = Each(ItemPart, s)
  <2>1. \A i \in DOMAIN s : s[i] \in W
    BY ElementOfSeq, LenProperties
  <2>2. [i \in DOMAIN s |-> IF s[i].kind = "image" THEN [type |-> "input_image"]
                            ELSE [type |-> "input_text", text |-> s[i].text]]
        = [i \in DOMAIN s |-> ItemPart[s[i]]]
    BY <1>3, <2>1
  <2>. QED
    BY <2>2 DEF MapSeq, Each
<1>7. ASSUME NEW s \in Seq(TextC)
      PROVE  MapSeq(LAMBDA c : [type |-> "input_text", text |-> c.text], s) = Each(ItemPart, s)
  <2>1. \A i \in DOMAIN s : s[i] \in TextC
    BY ElementOfSeq, LenProperties
  <2>2. [i \in DOMAIN s |-> [type |-> "input_text", text |-> s[i].text]] = [i \in DOMAIN s |-> ItemPart[s[i]]]
    BY <1>1, <2>1
  <2>. QED
    BY <2>2 DEF MapSeq, Each
<1>8. \A s \in Seq(W) : Each(ItemPart, s) \in Seq(TextR \cup ImageR)
  BY <1>4, EachFacts
<1>9. \A s \in Seq(TextC) : Each(ItemPart, s) \in Seq(TextR)
  BY <1>5, EachFacts
<1>10. \A s \in Seq(W) : Mapped(HearPR, Each(ItemPart, s)) = Mapped(HearC, s)
  <2>1. \A c \in W : HearC[c] = HearPR[ItemPart[c]]
    BY <1>3
  <2>. QED
    BY <1>4, <2>1, EachThenMapped
<1>11. Seq(TextC) \subseteq Seq(W)
  <2>1. TextC \subseteq W
    BY DEF W
  <2>. QED
    BY <2>1, SeqOfMore
<1>12. \A s \in Seq(W) :
          LET p == MapSeq(LAMBDA c : IF c.kind = "image" THEN [type |-> "input_image"]
                                     ELSE [type |-> "input_text", text |-> c.text], s)
          IN  /\ p = Each(ItemPart, s) /\ p \in Seq(TextR \cup ImageR)
              /\ Mapped(HearPR, p) = Mapped(HearC, s)
  BY <1>6, <1>8, <1>10
<1>13. \A s \in Seq(TextC) :
          LET p == MapSeq(LAMBDA c : [type |-> "input_text", text |-> c.text], s)
          IN  /\ p = Each(ItemPart, s) /\ p \in Seq(TextR)
              /\ Mapped(HearPR, p) = Mapped(HearC, s)
  BY <1>7, <1>9, <1>10, <1>11
<1>. QED
  BY <1>12, <1>13 DEF W

OutF == [c \in ResultC |-> OutputItem(c.id, ResponsesOutput(c))]

(* nor do the outputs of calls.                                            *)
LEMMA OutputItemsFacts ==
    /\ \A c \in ResultC : OutF[c] = OutputItem(c.id, ResponsesOutput(c)) /\ OutF[c] \in OutR
    /\ \A s \in Seq(IRBlocks) :
          /\ OutputItems(s) = Each(OutF, OfKinds({"tool_result"}, s))
          /\ OutputItems(s) \in Seq(RItems)
          /\ Mapped(HearI, OutputItems(s)) = Mapped(HearC, OfKinds({"tool_result"}, s))
<1>1. \A c \in ResultC : OutF[c] = OutputItem(c.id, ResponsesOutput(c))
  BY DEF OutF
<1>2. ASSUME NEW c \in ResultC
      PROVE  OutF[c] \in OutR /\ OutF[c] \in RItems /\ HearI[OutF[c]] = HearC[c]
  <2> DEFINE o == ResponsesOutput(c)
             t == IF c.out.json THEN c.out.text ELSE Prefixed(c)
             k == c.id
  <2>1. c.id \in Nat /\ c.is_error \in BOOLEAN /\ c.out \in Outs /\ (c.is_error => ~c.out.json)
    BY DEF ResultC
  <2>2. c.out.text \in Texts
    BY <2>1 DEF Outs
  <2>3. Prefixed(c) \in Texts /\ ReadsFailed(Prefixed(c)) = (c.is_error \/ ReadsFailed(c.out.text))
    BY PrefixedFacts
  <2>4. t \in Texts
    BY <2>2, <2>3
  <2>5. ReadsFailed(t) = (c.is_error \/ ReadsFailed(c.out.text))
    <3>1. ReadsFailed(c.out.text) \in BOOLEAN
      BY DEF ReadsFailed
    <3>2. CASE c.out.json
      <4>1. t = c.out.text /\ ~c.is_error
        BY <2>1, <3>2
      <4>. QED
        BY <3>1, <4>1
    <3>3. CASE ~c.out.json
      <4>1. t = Prefixed(c)
        BY <3>3
      <4>. QED
        BY <2>3, <4>1
    <3>. QED
      BY <3>2, <3>3
  <2>6. o = [json |-> FALSE, text |-> t]
    BY DEF ResponsesOutput
  <2> HIDE DEF t
  <2>7. o \in Outs /\ o.text = t
    BY <2>4, <2>6 DEF Outs
  <2>8. OutF[c] = OutputItem(k, o) /\ k \in Nat
    BY <1>1, <2>1
  <2>9. HearC[c] = <<Returned(k, ReadsFailed(t))>>
    BY <2>5, HearCFacts
  <2> HIDE DEF o, k
  <2>10. OutputItem(k, o) \in OutR /\ OutputItem(k, o) \in RItems /\ OutputItem(k, o).call = k
         /\ OutputItem(k, o).output = o
    BY <2>7, <2>8, ItemsAre
  <2>. QED
    BY <2>7, <2>8, <2>9, <2>10, HearIFacts
<1>3. IsFcn(OutF, ResultC, RItems)
  BY <1>2 DEF IsFcn
<1>4. ASSUME NEW s \in Seq(IRBlocks)
      PROVE  /\ OutputItems(s) = Each(OutF, OfKinds({"tool_result"}, s))
             /\ OfKinds({"tool_result"}, s) \in Seq(ResultC)
  <2> DEFINE t == OfKinds({"tool_result"}, s)
  <2>1. t \in Seq(ResultC)
    BY KindsFacts
  <2>2. OutputItems(s) = [i \in DOMAIN t |-> OutputItem(t[i].id, ResponsesOutput(t[i]))]
    BY DEF OutputItems, MapSeq, OfKind
  <2> HIDE DEF t
  <2>3. \A i \in DOMAIN t : t[i] \in ResultC
    BY <2>1, ElementOfSeq, LenProperties
  <2>4. [i \in DOMAIN t |-> OutputItem(t[i].id, ResponsesOutput(t[i]))] = [i \in DOMAIN t |-> OutF[t[i]]]
    BY <1>1, <2>3
  <2>. QED
    BY <2>1, <2>2, <2>4 DEF t, Each
<1>5. \A t \in Seq(ResultC) : Each(OutF, t) \in Seq(RItems)
  BY <1>3, EachFacts
<1>6. \A t \in Seq(ResultC) : Mapped(HearI, Each(OutF, t)) = Mapped(HearC, t)
  <2>1. \A c \in ResultC : HearC[c] = HearI[OutF[c]]
    BY <1>2
  <2>. QED
    BY <1>3, <2>1, EachThenMapped
<1>7. \A s \in Seq(IRBlocks) :
          /\ OutputItems(s) = Each(OutF, OfKinds({"tool_result"}, s))
          /\ OutputItems(s) \in Seq(RItems)
          /\ Mapped(HearI, OutputItems(s)) = Mapped(HearC, OfKinds({"tool_result"}, s))
  BY <1>4, <1>5, <1>6
<1>. QED
  BY <1>1, <1>2, <1>7

RMFromIR == [m \in IRMessages |-> IRMessageToItems(m)]

(* responsesRequest.FromIR for a user: the outputs before the words, all   *)
(* of both;                                                                *)
LEMMA UserToItems ==
    \A s \in Seq(UserC) :
       /\ IRUserToItems(s) \in Seq(RItems)
       /\ SameThings(Mapped(HearI, IRUserToItems(s)), Mapped(HearC, s))
<1> TAKE s \in Seq(UserC)
<1> DEFINE words   == OfKinds(WordKinds, s)
           outs    == OfKinds({"tool_result"}, s)
           parts   == MapSeq(LAMBDA c : IF c.kind = "image" THEN [type |-> "input_image"]
                                        ELSE [type |-> "input_text", text |-> c.text], words)
           results == OutputItems(s)
           heard    == MessageItems("user", parts)
<1>1. IRUserToItems(s) = results \o heard
  BY DEF IRUserToItems, WordKinds
<1>2. s \in Seq(IRBlocks)
  BY TypesFacts
<1>3. words \in Seq(TextC \cup ImageC) /\ OfKinds(ToolKinds, s) = outs
  BY <1>2, KindsFacts
<1>4. SameThings(Mapped(HearC, s), Mapped(HearC, outs) \o Mapped(HearC, words))
  BY <1>2, <1>3, HearKinds
<1>5. results \in Seq(RItems) /\ Mapped(HearI, results) = Mapped(HearC, outs)
  BY <1>2, OutputItemsFacts
<1> HIDE DEF words, outs, results
<1>6. parts \in Seq(TextR \cup ImageR) /\ Mapped(HearPR, parts) = Mapped(HearC, words)
  BY <1>3, ItemPartFacts
<1> HIDE DEF parts
<1>7. parts \in Seq(PartR) /\ MessageItem("user", parts) \in DevR \cup UserR \cup AsstR
  BY <1>6, MessageItemFacts, MorePartsR
<1>8. heard \in Seq(RItems) /\ Mapped(HearI, heard) = Mapped(HearC, words)
  BY <1>6, <1>7, MessageItemsHeard
<1> HIDE DEF heard
<1>9. results \o heard \in Seq(RItems)
  BY <1>5, <1>8, ConcatProperties
<1>10. \A x, y \in Seq(RItems) : Mapped(HearI, x \o y) = Mapped(HearI, x) \o Mapped(HearI, y)
  BY HearIFacts, MappedConcat
<1>11. Mapped(HearI, results \o heard) = Mapped(HearC, outs) \o Mapped(HearC, words)
  BY <1>5, <1>8, <1>10
<1>. QED
  BY <1>1, <1>4, <1>9, <1>11, SameFacts

(* for every role.                                                         *)
LEMMA RMFromIRFacts ==
    /\ IsMap(RMFromIR, IRMessages, RItems)
    /\ \A m \in IRMessages : /\ RMFromIR[m] = IRMessageToItems(m)
                             /\ SameThings(Mapped(HearI, RMFromIR[m]), HearM[m])
<1>1. \A m \in IRMessages : RMFromIR[m] = IRMessageToItems(m)
  BY DEF RMFromIR
<1>2. ASSUME NEW m \in IRMessages
      PROVE  IRMessageToItems(m) \in Seq(RItems) /\ SameThings(Mapped(HearI, IRMessageToItems(m)), HearM[m])
  <2> DEFINE c == m.content
  <2>1. HearM[m] = Mapped(HearC, c)
    BY IRMessageCases, HearMFacts
  <2>2. CASE m.role = "system"
    <3>1. c \in Seq(TextC)
      BY <2>2, IRMessageCases
    <3> DEFINE p == MapSeq(LAMBDA b : [type |-> "input_text", text |-> b.text], c)
    <3>2. OfKinds({"text"}, c) = c
      <4>1. \A b \in TextC : b.kind \in {"text"}
        BY DEF TextC
      <4>. QED
        BY <3>1, <4>1, KeepAll
    <3>3. IRMessageToItems(m) = MessageItems("developer", p)
      <4>1. TextParts("input_text", c) = p
        BY <3>2 DEF TextParts, OfKind
      <4>. QED
        BY <2>2, <4>1 DEF IRMessageToItems
    <3>4. p \in Seq(TextR) /\ Mapped(HearPR, p) = Mapped(HearC, c)
      BY <3>1, ItemPartFacts
    <3> HIDE DEF p
    <3>5. p \in Seq(PartR) /\ MessageItem("developer", p) \in DevR \cup UserR \cup AsstR
      BY <3>4, MessageItemFacts, MorePartsR
    <3>6. /\ MessageItems("developer", p) \in Seq(RItems)
          /\ Mapped(HearI, MessageItems("developer", p)) = Mapped(HearC, c)
      BY <3>4, <3>5, MessageItemsHeard
    <3>. QED
      BY <2>1, <3>3, <3>6, SameFacts
  <2>3. CASE m.role = "user"
    <3>1. c \in Seq(UserC)
      BY <2>3, IRMessageCases
    <3>2. IRMessageToItems(m) = IRUserToItems(c)
      BY <2>3 DEF IRMessageToItems
    <3>. QED
      BY <2>1, <3>1, <3>2, UserToItems
  <2>4. CASE m.role = "tool"
    <3>1. c \in Seq(ResultC) /\ c \in Seq(IRBlocks)
      BY <2>4, IRMessageCases, TypesFacts
    <3>2. IRMessageToItems(m) = OutputItems(c)
      BY <2>4 DEF IRMessageToItems
    <3>3. OfKinds({"tool_result"}, c) = c
      <4>1. \A b \in ResultC : b.kind \in {"tool_result"}
        BY DEF ResultC
      <4>. QED
        BY <3>1, <4>1, KeepAll
    <3>. QED
      BY <2>1, <3>1, <3>2, <3>3, OutputItemsFacts, SameFacts
  <2>5. CASE m.role = "assistant"
    <3>1. c \in Seq(AssistantC)
      BY <2>5, IRMessageCases
    <3>2. IRMessageToItems(m) = Flush(FoldLeft(AddBlock, NoItems, c))
      BY <2>5 DEF IRMessageToItems, IRAssistantToItems, NoItems
    <3>. QED
      BY <2>1, <3>1, <3>2, BlocksGathered, SameFacts, HearIFacts
  <2>. QED
    BY <2>2, <2>3, <2>4, <2>5, IRMessageCases
<1>3. IsMap(RMFromIR, IRMessages, RItems)
  BY <1>1, <1>2 DEF IsMap
<1>. QED
  BY <1>1, <1>2, <1>3

(* A map of messages that keeps what each of them says keeps what all say. *)
LEMMA SameThroughout ==
    ASSUME NEW A, NEW f, IsMap(f, IRMessages, A), NEW g, IsMap(g, A, Things),
           \A m \in IRMessages : SameThings(Mapped(g, f[m]), HearM[m])
    PROVE  \A s \in Seq(IRMessages) : SameThings(Mapped(g, Mapped(f, s)), Mapped(HearM, s))
<1> DEFINE k == [m \in IRMessages |-> Mapped(g, f[m])]
<1>1. \A m \in IRMessages : k[m] = Mapped(g, f[m])
  OBVIOUS
<1>2. \A m \in IRMessages : f[m] \in Seq(A)
  BY DEF IsMap
<1>3. \A x \in Seq(A) : Mapped(g, x) \in Seq(Things)
  BY MappedFacts
<1>4. IsMap(k, IRMessages, Things)
  BY <1>1, <1>2, <1>3 DEF IsMap
<1>5. \A m \in IRMessages : SameThings(k[m], HearM[m])
  BY <1>1
<1>6. IsMap(HearM, IRMessages, Things)
  <2>1. \A m \in IRMessages : HearM[m] \in Seq(Things)
    BY HearMFacts, TypesFacts DEF IsMap
  <2>. QED
    BY <2>1 DEF IsMap
<1> HIDE DEF k
<1>7. \A s \in Seq(IRMessages) : Mapped(g, Mapped(f, s)) = Mapped(k, s)
  BY <1>1, <1>4, MappedTwice
<1>8. \A s \in Seq(IRMessages) : SameThings(Mapped(k, s), Mapped(HearM, s))
  BY <1>4, <1>5, <1>6, SameMapped
<1>. QED
  BY <1>7, <1>8

(* responsesRequest.FromIR: what the IR says is heard in the request.      *)
LEMMA RFromIRRequest ==
    ASSUME NEW r, r.system \in Seq(TextC), r.messages \in Seq(IRMessages)
    PROVE  LET w == ResponsesRequestFromIR(r)
           IN  /\ w.input = Mapped(RMFromIR, r.messages)
               /\ w.input \in Seq(RItems)
               /\ w.instructions = JoinText(r.system)
               /\ w.instructions \in Texts
               /\ SameThings(Heard("openai_responses", w), HeardIR(r))
<1> DEFINE w == ResponsesRequestFromIR(r)
           c == r.system
           h == r.messages
           g == Mapped(RMFromIR, h)
           t == JoinText(c)
<1>1. w.input = g /\ w.instructions = t
  <2>1. \A i \in DOMAIN h : h[i] \in IRMessages
    BY ElementOfSeq, LenProperties
  <2>2. [i \in DOMAIN h |-> IRMessageToItems(h[i])] = [i \in DOMAIN h |-> RMFromIR[h[i]]]
    BY <2>1, RMFromIRFacts
  <2>3. FlatMap(IRMessageToItems, h) = g
    BY <2>2 DEF FlatMap, MapSeq, Mapped
  <2>. QED
    BY <2>3 DEF ResponsesRequestFromIR
<1>2. t \in Texts /\ Words(t) = Mapped(HearC, c) /\ Mapped(HearC, c) \in Seq(Things)
  <2>1. c \in Seq(IRBlocks)
    BY TypesFacts
  <2>2. OfKinds({"text"}, c) = c
    <3>1. \A b \in TextC : b.kind \in {"text"}
      BY DEF TextC
    <3>. QED
      BY <3>1, KeepAll
  <2>3. Mapped(HearC, c) \in Seq(Things)
    BY <2>1, HearCFacts, MappedFacts
  <2>. QED
    BY <2>1, <2>2, <2>3, JoinFacts
<1>3. g \in Seq(RItems)
  BY RMFromIRFacts, MappedFacts
<1>4. SameThings(Mapped(HearI, g), Mapped(HearM, h))
  BY RMFromIRFacts, HearIFacts, SameThroughout
<1>5. Mapped(HearI, g) \in Seq(Things)
  BY <1>3, HearIFacts, MappedFacts
<1>6. Mapped(HearM, h) \in Seq(Things)
  BY HearMFacts, MappedFacts, TypesFacts
<1>7. HeardIR(r) = Mapped(HearC, c) \o Mapped(HearM, h)
  BY DEF HeardIR
<1>8. Heard("openai_responses", w) = Words(t) \o Mapped(HearI, g)
  BY <1>1, <1>3, RHeard
<1> HIDE DEF w, c, h, g, t
<1>9. SameThings(Mapped(HearC, c) \o Mapped(HearI, g), Mapped(HearC, c) \o Mapped(HearM, h))
  BY <1>2, <1>4, <1>5, <1>6, SameFacts
<1>10. SameThings(Heard("openai_responses", w), HeardIR(r))
  BY <1>2, <1>7, <1>8, <1>9
<1>. QED
  BY <1>1, <1>2, <1>3, <1>10 DEF w, c, h, g, t

-----------------------------------------------------------------------------
(***************************************************************************)
(* Answers.                                                                *)
(***************************************************************************)

(* Short sequences.                                                        *)
LEMMA Tuples ==
    ASSUME NEW A
    PROVE  /\ <<>> \in Seq(A)
           /\ \A a \in A : <<a>> \in Seq(A) /\ Len(<<a>>) = 1 /\ <<a>>[1] = a
           /\ \A a, b \in A : <<a, b>> \in Seq(A)
           /\ \A a, b, c \in A : <<a, b, c>> \in Seq(A)
           /\ \A a, b, c, d \in A : <<a, b, c, d>> \in Seq(A)
           /\ \A a, b, c, d, e \in A : <<a, b, c, d, e>> \in Seq(A)
  OBVIOUS

(* An assistant's blocks stay an assistant's.                              *)
LEMMA AFromIRAnswers ==
    IsMap(AFromIR, AssistantC, AssistantA)
<1>1. \A c \in AssistantC : AFromIR[c] = IRBlockToAnthropic(c)
  BY AFromIRFacts, TypesFacts
<1>2. ASSUME NEW c \in TextC PROVE AFromIR[c] \in Seq(AssistantA)
  <2> DEFINE b == [type |-> "text", text |-> c.text]
  <2>1. c \in AssistantC /\ c.kind = "text" /\ c.text \in Texts
    BY DEF TextC, AssistantC
  <2>2. AFromIR[c] = <<b>>
    BY <1>1, <2>1 DEF IRBlockToAnthropic
  <2>3. b \in AssistantA
    BY <2>1 DEF TextA, AssistantA
  <2>. QED
    BY <2>2, <2>3, OneThing
<1>3. ASSUME NEW c \in CallC PROVE AFromIR[c] \in Seq(AssistantA)
  <2> DEFINE b == [type |-> "tool_use", id |-> c.id, input |-> c.input]
  <2>1. c \in AssistantC /\ c.kind = "tool_use" /\ c.id \in Nat /\ c.input \in Args
    BY DEF CallC, AssistantC
  <2>2. AFromIR[c] = <<b>>
    BY <1>1, <2>1 DEF IRBlockToAnthropic
  <2>3. b \in AssistantA
    BY <2>1 DEF UseA, AssistantA
  <2>. QED
    BY <2>2, <2>3, OneThing
<1>4. ASSUME NEW c \in ThinkC PROVE AFromIR[c] \in Seq(AssistantA)
  <2> DEFINE h == [type |-> "redacted_thinking", data |-> c.raw.data]
             b == [type |-> "thinking", text |-> c.text, signature |-> c.signature]
  <2>1. /\ c \in AssistantC /\ c.kind = "thinking" /\ c.text \in Texts /\ c.signature \in Marks
        /\ c.raw \in Raws
    BY DEF ThinkC, AssistantC
  <2>2. AFromIR[c] = IRThinkingToAnthropic(c)
    BY <1>1, <2>1 DEF IRBlockToAnthropic
  <2>3. c.raw.type = "redacted_thinking" => h \in AssistantA
    BY <2>1 DEF Raws, HiddenA, AssistantA
  <2>4. c.signature # "" => b \in AssistantA
    BY <2>1 DEF ThinkA, AssistantA
  <2>5. \/ IRThinkingToAnthropic(c) = <<>>
        \/ IRThinkingToAnthropic(c) = <<h>> /\ c.raw.type = "redacted_thinking"
        \/ IRThinkingToAnthropic(c) = <<b>> /\ c.signature # ""
    BY DEF IRThinkingToAnthropic
  <2> HIDE DEF h, b
  <2>6. <<>> \in Seq(AssistantA)
    OBVIOUS
  <2>. QED
    BY <2>2, <2>3, <2>4, <2>5, <2>6, OneThing
<1>. QED
  BY <1>2, <1>3, <1>4 DEF IsMap, AssistantC

(* anthropicResponse.ToIR: what the upstream answered is in the IR.        *)
LEMMA AAnswerToIR ==
    ASSUME NEW w, w.content \in Seq(AssistantA)
    PROVE  LET r == AnthropicResponseToIR(w)
           IN  /\ r.content \in Seq(AssistantC) /\ r.stop = AnthropicStopToIR(w.stop_reason)
               /\ InAnswer("anthropic", w) = Mapped(HearA, w.content)
               /\ Mapped(HearC, r.content) = InAnswer("anthropic", w)
<1> DEFINE s == w.content
           c == MapSeq(AnthropicBlockToIR, s)
<1>1. s \in Seq(ABlocks)
  BY TypesFacts
<1>2. c = Each(AToIR, s)
  BY <1>1, BlocksToIR
<1>3. InAnswer("anthropic", w) = Mapped(HearA, s)
  BY <1>1, BlocksHeard DEF InAnswer
<1>4. AnthropicResponseToIR(w) = [content |-> c, stop |-> AnthropicStopToIR(w.stop_reason)]
  BY DEF AnthropicResponseToIR, IRResponse
<1> HIDE DEF c, s
<1>5. Each(AToIR, s) \in Seq(AssistantC)
  <2>1. IsFcn(AToIR, AssistantA, AssistantC) /\ s \in Seq(AssistantA)
    BY AToIRHeard DEF s
  <2>. QED
    BY <2>1, EachFacts
<1>6. Mapped(HearC, Each(AToIR, s)) = Mapped(HearA, s)
  <2>1. IsFcn(AToIR, ABlocks, IRBlocks) /\ \A b \in ABlocks : HearA[b] = HearC[AToIR[b]]
    BY AToIRHeard
  <2>. QED
    BY <1>1, <2>1, EachThenMapped
<1>. QED
  BY <1>2, <1>3, <1>4, <1>5, <1>6 DEF s

KeptF == [tc \in CallU |-> ToolUse(tc.id, Kept(tc.arguments))]

(* chatResponse.ToIR keeps every call, its arguments lawful or not.        *)
LEMMA KeptFacts ==
    /\ IsFcn(KeptF, CallU, CallC)
    /\ \A s \in Seq(CallU) :
          LET c == MapSeq(LAMBDA tc : ToolUse(tc.id, Kept(tc.arguments)), s)
          IN  c = Each(KeptF, s) /\ c \in Seq(CallC) /\ Mapped(HearC, c) = Each(HearCall, s)
<1>1. \A tc \in CallU : KeptF[tc] = ToolUse(tc.id, Kept(tc.arguments))
  BY DEF KeptF
<1>2. ASSUME NEW tc \in CallU
      PROVE  KeptF[tc] \in CallC /\ HearC[KeptF[tc]] = <<HearCall[tc]>>
  <2> DEFINE a == Kept(tc.arguments)
             c == ToolUse(tc.id, a)
  <2>1. tc.id \in Nat /\ tc.arguments \in Args
    BY DEF CallU
  <2>2. a \in Args
    BY <2>1 DEF Kept, ArgumentsOr, Args
  <2>3. KeptF[tc] = c
    BY <1>1
  <2> HIDE DEF a
  <2>4. c \in CallC /\ c.id = tc.id
    BY <2>1, <2>2, BlocksAre
  <2> HIDE DEF c
  <2>. QED
    BY <2>3, <2>4, HearCFacts, CallFacts
<1>3. IsFcn(KeptF, CallU, CallC)
  BY <1>2 DEF IsFcn
<1>4. ASSUME NEW s \in Seq(CallU)
      PROVE  MapSeq(LAMBDA tc : ToolUse(tc.id, Kept(tc.arguments)), s) = Each(KeptF, s)
  <2>1. \A i \in DOMAIN s : s[i] \in CallU
    BY ElementOfSeq, LenProperties
  <2>2. [i \in DOMAIN s |-> ToolUse(s[i].id, Kept(s[i].arguments))] = [i \in DOMAIN s |-> KeptF[s[i]]]
    BY <1>1, <2>1
  <2>. QED
    BY <2>2 DEF MapSeq, Each
<1>5. \A s \in Seq(CallU) : Each(KeptF, s) \in Seq(CallC)
  BY <1>3, EachFacts
<1>6. \A s \in Seq(CallU) : Mapped(HearC, Each(KeptF, s)) = Each(HearCall, s)
  <2> DEFINE h == Singly(HearCall, CallU)
  <2>0. IsFcn(HearCall, CallU, Tooly)
    BY CallFacts
  <2>1. \A s \in Seq(CallU) : Each(HearCall, s) = Mapped(h, s)
    BY <2>0, EachIsMapped
  <2>2. \A tc \in CallU : h[tc] = <<HearCall[tc]>>
    BY <2>0, SinglyIsMap
  <2> HIDE DEF h
  <2>3. \A tc \in CallU : h[tc] = HearC[KeptF[tc]]
    BY <1>2, <2>2
  <2>4. \A s \in Seq(CallU) : Mapped(HearC, Each(KeptF, s)) = Mapped(h, s)
    BY <1>3, <2>3, EachThenMapped
  <2>. QED
    BY <2>1, <2>4
<1>. QED
  BY <1>3, <1>4, <1>5, <1>6

(* chatResponse.ToIR: what the upstream answered is in the IR.             *)
LEMMA UAnswerToIR ==
    ASSUME NEW w, w.content \in Texts, w.tool_calls \in Seq(CallU), w.reasoning \in Texts
    PROVE  LET r == ChatResponseToIR(w)
           IN  /\ r.content \in Seq(AssistantC)
               /\ r.stop = ChatFinishToIR(w.finish_reason, w.tool_calls # <<>>)
               /\ InAnswer("openai_chat", w) = Words(w.content) \o Each(HearCall, w.tool_calls)
               /\ Mapped(HearC, r.content) = InAnswer("openai_chat", w)
<1> DEFINE a == IF w.reasoning = <<>> THEN <<>> ELSE <<Thinking(w.reasoning, "", NoRaw)>>
           b == IF w.content = <<>> THEN <<>> ELSE <<Text(w.content)>>
           c == MapSeq(LAMBDA tc : ToolUse(tc.id, Kept(tc.arguments)), w.tool_calls)
           h == Each(HearCall, w.tool_calls)
<1>0. Mapped(HearC, <<>>) = <<>> /\ \A x \in IRBlocks : Mapped(HearC, <<x>>) = HearC[x]
  BY HearCFacts, MappedFacts
<1>1. a \in Seq(AssistantC) /\ Mapped(HearC, a) = <<>>
  <2>1. CASE w.reasoning = <<>>
    <3>1. a = <<>> /\ <<>> \in Seq(AssistantC)
      BY <2>1
    <3>. QED
      BY <1>0, <3>1
  <2>2. CASE w.reasoning # <<>>
    <3> DEFINE raw == NoRaw
               t == w.reasoning
               sig == ""
               x == Thinking(t, sig, raw)
    <3>1. a = <<x>>
      BY <2>2
    <3>2. raw \in Raws /\ t \in Texts /\ sig \in Marks
      BY DEF NoRaw, Raw, Raws, Marks
    <3> HIDE DEF raw, t, sig
    <3>3. x \in ThinkC
      BY <3>2, BlocksAre
    <3> HIDE DEF x
    <3>4. x \in AssistantC /\ x \in IRBlocks /\ HearC[x] = <<>>
      BY <3>3, HearCFacts DEF AssistantC, IRBlocks
    <3>. QED
      BY <1>0, <3>1, <3>4, OneThing
  <2>. QED
    BY <2>1, <2>2
<1>2. b \in Seq(AssistantC) /\ Mapped(HearC, b) = Words(w.content)
  <2>1. CASE w.content = <<>>
    <3>1. b = <<>> /\ <<>> \in Seq(AssistantC)
      BY <2>1
    <3>2. Words(<<>>) = <<>>
      BY DEF Words, MapSeq
    <3>. QED
      BY <1>0, <2>1, <3>1, <3>2
  <2>2. CASE w.content # <<>>
    <3> DEFINE x == Text(w.content)
    <3>1. b = <<x>>
      BY <2>2
    <3>2. x \in TextC /\ x.text = w.content
      BY BlocksAre
    <3> HIDE DEF x
    <3>3. x \in AssistantC /\ x \in IRBlocks /\ HearC[x] = Words(w.content)
      BY <3>2, HearCFacts DEF AssistantC, IRBlocks
    <3>. QED
      BY <1>0, <3>1, <3>3, OneThing
  <2>. QED
    BY <2>1, <2>2
<1>3. c \in Seq(CallC) /\ Mapped(HearC, c) = h
  BY KeptFacts
<1>4. ChatResponseToIR(w) = [content |-> a \o b \o c,
                             stop |-> ChatFinishToIR(w.finish_reason, w.tool_calls # <<>>)]
  BY DEF ChatResponseToIR, IRResponse
<1>5. InAnswer("openai_chat", w) = Words(w.content) \o h
  <2>1. MapSeq(LAMBDA tc : Called(tc.id), w.tool_calls) = h
    BY CallsToIR
  <2>. QED
    BY <2>1 DEF InAnswer
<1> HIDE DEF a, b, c, h
<1>6. c \in Seq(AssistantC)
  BY <1>3, MoreTypes
<1>7. a \o b \in Seq(AssistantC) /\ (a \o b) \o c \in Seq(AssistantC)
  BY <1>1, <1>2, <1>6, ConcatProperties
<1>8. IsMap(HearC, AssistantC, Things)
  <2>1. \A x \in AssistantC : HearC[x] \in Seq(Things)
    BY HearCFacts, TypesFacts DEF IsMap
  <2>. QED
    BY <2>1 DEF IsMap
<1>9. \A s, t \in Seq(AssistantC) : Mapped(HearC, s \o t) = Mapped(HearC, s) \o Mapped(HearC, t)
  BY <1>8, MappedConcat
<1>10. Mapped(HearC, (a \o b) \o c) = (Mapped(HearC, a) \o Mapped(HearC, b)) \o Mapped(HearC, c)
  BY <1>1, <1>2, <1>6, <1>7, <1>9
<1>11. <<>> \o Words(w.content) = Words(w.content)
  BY WordsFacts, ConcatEmptySeq
<1>12. Mapped(HearC, (a \o b) \o c) = Words(w.content) \o h
  BY <1>1, <1>2, <1>3, <1>10, <1>11
<1> DEFINE d == (a \o b) \o c
           f == ChatFinishToIR(w.finish_reason, w.tool_calls # <<>>)
<1>13. /\ ChatResponseToIR(w) = [content |-> d, stop |-> f] /\ d \in Seq(AssistantC)
       /\ Mapped(HearC, d) = Words(w.content) \o h
  BY <1>4, <1>7, <1>12
<1> HIDE DEF d, f
<1>14. ChatResponseToIR(w).content = d /\ ChatResponseToIR(w).stop = f
  BY <1>13
<1>. QED
  BY <1>5, <1>13, <1>14 DEF h, f

OutputToIR == [it \in AnsR |-> ResponsesOutputToIR(it)]

(* responsesResponse.ToIR, item by item,                                   *)
LEMMA OutputToIRFacts ==
    /\ IsMap(OutputToIR, AnsR, AssistantC)
    /\ \A it \in AnsR : /\ OutputToIR[it] = ResponsesOutputToIR(it)
                        /\ Mapped(HearC, OutputToIR[it]) = HearI[it]
    /\ AnsR \subseteq RItems
<1>0. /\ \A x \in IRBlocks : Mapped(HearC, <<x>>) = HearC[x]
      /\ AnsR \subseteq RItems
  <2>1. \A x \in IRBlocks : Mapped(HearC, <<x>>) = HearC[x]
    <3>1. IsMap(HearC, IRBlocks, Things)
      BY HearCFacts
    <3>. QED
      BY <3>1, MappedFacts
  <2>2. AnsR \subseteq RItems
    BY DEF AnsR, RItems
  <2>. QED
    BY <2>1, <2>2
<1>1. \A it \in AnsR : OutputToIR[it] = ResponsesOutputToIR(it)
  BY DEF OutputToIR
<1>2. ASSUME NEW it \in AsstR
      PROVE  ResponsesOutputToIR(it) \in Seq(AssistantC) /\ Mapped(HearC, ResponsesOutputToIR(it)) = HearI[it]
  <2>1. it.type = "message" /\ it.content \in Seq(SaidR) /\ it.content \in Seq(PartR)
    BY MessageItemFacts, MorePartsR
  <2>2. ResponsesOutputToIR(it) = ResponsesContentToIR(it.content)
    BY <2>1 DEF ResponsesOutputToIR
  <2>. QED
    BY <2>1, <2>2, ContentRToIR, HearIFacts, MoreTypes
<1>3. ASSUME NEW it \in CallR
      PROVE  ResponsesOutputToIR(it) \in Seq(AssistantC) /\ Mapped(HearC, ResponsesOutputToIR(it)) = HearI[it]
  <2> DEFINE a == Kept(it.arguments)
             b == ToolUse(it.call, a)
  <2>1. it.type = "function_call" /\ it.call \in Nat /\ it.arguments \in Args
    BY DEF CallR
  <2>2. ResponsesOutputToIR(it) = <<b>>
    BY <2>1 DEF ResponsesOutputToIR
  <2>3. a \in Args
    BY <2>1 DEF Kept, ArgumentsOr, Args
  <2> HIDE DEF a
  <2>4. b \in CallC /\ b.id = it.call
    BY <2>1, <2>3, BlocksAre
  <2> HIDE DEF b
  <2>5. b \in AssistantC /\ b \in IRBlocks /\ HearC[b] = HearI[it]
    BY <2>4, HearCFacts, HearIFacts DEF AssistantC, IRBlocks
  <2>. QED
    BY <1>0, <2>2, <2>5, OneThing
<1>4. ASSUME NEW it \in Reasonings
      PROVE  ResponsesOutputToIR(it) \in Seq(AssistantC) /\ Mapped(HearC, ResponsesOutputToIR(it)) = HearI[it]
  <2> DEFINE raw == Raw("reasoning", it)
             t == it.summary
             sig == ""
             b == Thinking(t, sig, raw)
  <2>1. it.type = "reasoning" /\ t \in Texts
    BY DEF Reasonings
  <2>2. ResponsesOutputToIR(it) = <<b>>
    BY <2>1 DEF ResponsesOutputToIR, ReasoningToIR
  <2>3. raw \in Raws /\ sig \in Marks
    BY DEF Raw, Raws, Marks
  <2> HIDE DEF raw, t, sig
  <2>4. b \in ThinkC
    BY <2>1, <2>3, BlocksAre
  <2> HIDE DEF b
  <2>5. b \in AssistantC /\ b \in IRBlocks /\ HearC[b] = HearI[it]
    BY <2>4, HearCFacts, HearIFacts DEF AssistantC, IRBlocks
  <2>. QED
    BY <1>0, <2>2, <2>5, OneThing
<1>5. \A it \in AnsR : /\ ResponsesOutputToIR(it) \in Seq(AssistantC)
                       /\ Mapped(HearC, ResponsesOutputToIR(it)) = HearI[it]
  BY <1>2, <1>3, <1>4 DEF AnsR
<1>6. IsMap(OutputToIR, AnsR, AssistantC)
  BY <1>1, <1>5 DEF IsMap
<1>. QED
  BY <1>0, <1>1, <1>5, <1>6

(* and of the whole answer.                                                *)
LEMMA RAnswerToIR ==
    ASSUME NEW w, w.output \in Seq(AnsR)
    PROVE  LET r == ResponsesResponseToIR(w)
           IN  /\ r.content = Mapped(OutputToIR, w.output)
               /\ r.content \in Seq(AssistantC)
               /\ r.stop = ResponsesStatusToIR(w.status, HasKind("tool_use", r.content))
               /\ InAnswer("openai_responses", w) = Mapped(HearI, w.output)
               /\ Mapped(HearC, r.content) = InAnswer("openai_responses", w)
<1> DEFINE h == w.output
           c == FlatMap(ResponsesOutputToIR, h)
<1>1. \A i \in DOMAIN h : h[i] \in AnsR /\ h[i] \in RItems
  BY ElementOfSeq, LenProperties, OutputToIRFacts
<1>2. c = Mapped(OutputToIR, h)
  <2>1. [i \in DOMAIN h |-> ResponsesOutputToIR(h[i])] = [i \in DOMAIN h |-> OutputToIR[h[i]]]
    BY <1>1, OutputToIRFacts
  <2>. QED
    BY <2>1 DEF FlatMap, MapSeq, Mapped
<1>3. InAnswer("openai_responses", w) = Mapped(HearI, h)
  <2>1. [i \in DOMAIN h |-> InItem(h[i])] = [i \in DOMAIN h |-> HearI[h[i]]]
    BY <1>1, HearIFacts
  <2>. QED
    BY <2>1 DEF InAnswer, FlatMap, MapSeq, Mapped
<1>4. ResponsesResponseToIR(w) = [content |-> c, stop |-> ResponsesStatusToIR(w.status, HasKind("tool_use", c))]
  BY DEF ResponsesResponseToIR, IRResponse
<1> HIDE DEF c
<1>5. Mapped(OutputToIR, h) \in Seq(AssistantC)
  BY OutputToIRFacts, MappedFacts
<1>6. Mapped(HearC, Mapped(OutputToIR, h)) = Mapped(HearI, h)
  <2>1. \A x \in AssistantC : HearC[x] \in Seq(Things)
    BY HearCFacts, TypesFacts DEF IsMap
  <2>2. IsMap(HearC, AssistantC, Things)
    BY <2>1 DEF IsMap
  <2>3. \A it \in AnsR : HearI[it] \in Seq(Things)
    BY HearIFacts, OutputToIRFacts DEF IsMap
  <2>4. IsMap(HearI, AnsR, Things)
    BY <2>3 DEF IsMap
  <2>5. \A it \in AnsR : HearI[it] = Mapped(HearC, OutputToIR[it])
    BY OutputToIRFacts
  <2>6. IsMap(OutputToIR, AnsR, AssistantC)
    BY OutputToIRFacts
  <2>. QED
    BY <2>2, <2>4, <2>5, <2>6, MappedTwice
<1>. QED
  BY <1>2, <1>3, <1>4, <1>5, <1>6

(* anthropicResponse.FromIR: the client is told what the IR says;          *)
LEMMA AAnswerFromIR ==
    ASSUME NEW r, r.content \in Seq(AssistantC)
    PROVE  LET w == AnthropicResponseFromIR(r)
           IN  /\ w.content \in Seq(AssistantA) /\ w.stop_reason = AnthropicStopFromIR(r.stop)
               /\ InAnswer("anthropic", w) = Mapped(HearC, r.content)
<1> DEFINE s == r.content
           c == IRContentToAnthropic(s)
<1>1. AnthropicResponseFromIR(r) = [content |-> c, stop_reason |-> AnthropicStopFromIR(r.stop)]
  BY DEF AnthropicResponseFromIR
<1>2. s \in Seq(IRBlocks)
  BY TypesFacts
<1>3. c = Mapped(AFromIR, s)
  <2>1. \A i \in DOMAIN s : s[i] \in IRBlocks
    BY <1>2, ElementOfSeq, LenProperties
  <2>2. [i \in DOMAIN s |-> IRBlockToAnthropic(s[i])] = [i \in DOMAIN s |-> AFromIR[s[i]]]
    BY <2>1, AFromIRFacts
  <2>. QED
    BY <2>2 DEF IRContentToAnthropic, FlatMap, MapSeq, Mapped
<1> HIDE DEF c
<1>4. Mapped(AFromIR, s) \in Seq(AssistantA)
  BY AFromIRAnswers, MappedFacts
<1>5. Mapped(AFromIR, s) \in Seq(ABlocks)
  BY <1>4, TypesFacts
<1>6. Mapped(HearA, Mapped(AFromIR, s)) = Mapped(HearC, s)
  <2>1. IsMap(AFromIR, IRBlocks, ABlocks) /\ IsMap(HearA, ABlocks, Things) /\ IsMap(HearC, IRBlocks, Things)
    BY AFromIRFacts, HearAFacts, HearCFacts
  <2>2. \A x \in IRBlocks : HearC[x] = Mapped(HearA, AFromIR[x])
    BY AFromIRFacts
  <2>. QED
    BY <1>2, <2>1, <2>2, MappedTwice
<1>7. FlatMap(InBlock, c) = Mapped(HearA, c)
  BY <1>3, <1>5, BlocksHeard
<1>8. AnthropicResponseFromIR(r).content = c /\ AnthropicResponseFromIR(r).stop_reason = AnthropicStopFromIR(r.stop)
  BY <1>1
<1>9. InAnswer("anthropic", AnthropicResponseFromIR(r)) = Mapped(HearA, c)
  BY <1>7, <1>8 DEF InAnswer
<1>. QED
  BY <1>3, <1>4, <1>6, <1>8, <1>9

(* so it is by chatResponse.FromIR, its words before its calls,            *)
LEMMA UAnswerFromIR ==
    ASSUME NEW r, r.content \in Seq(AssistantC)
    PROVE  LET w == ChatResponseFromIR(r)
           IN  /\ w.content \in Texts /\ w.tool_calls \in Seq(CallU)
               /\ w.finish_reason = ChatFinishFromIR(r.stop, OfKinds({"tool_use"}, r.content) # <<>>)
               /\ InAnswer("openai_chat", w) = Words(w.content) \o Each(HearCall, w.tool_calls)
               /\ SameThings(InAnswer("openai_chat", w), Mapped(HearC, r.content))
<1> DEFINE s == r.content
           cs == OfKinds({"tool_use"}, s)
           calls == MapSeq(LAMBDA c : [id |-> c.id, arguments |-> ArgumentsOr(c.input, "{}")], cs)
           t == JoinText(s)
           w == ChatResponseFromIR(r)
<1>1. w.content = t /\ w.tool_calls = calls /\ w.finish_reason = ChatFinishFromIR(r.stop, cs # <<>>)
  BY DEF ChatResponseFromIR, OfKind
<1>2. s \in Seq(IRBlocks)
  BY TypesFacts
<1>3. t \in Texts /\ Words(t) = Mapped(HearC, OfKinds({"text"}, s))
  BY <1>2, JoinFacts
<1>4. cs \in Seq(CallC)
  BY <1>2, KindsFacts
<1>5. calls \in Seq(CallU) /\ Each(HearCall, calls) = Mapped(HearC, cs)
  BY <1>4, CallsFromIR
<1>6. SameThings(Mapped(HearC, s),
                 Mapped(HearC, OfKinds(WordKinds, s)) \o Mapped(HearC, OfKinds(ToolKinds, s)))
  BY <1>2, HearKinds
<1>7. OfKinds(ToolKinds, s) = cs /\ OfKinds(WordKinds, s) = OfKinds({"text"}, s)
  BY KindsFacts
<1> HIDE DEF t, cs, calls, s, w
<1>8. SameThings(Mapped(HearC, s), Words(t) \o Each(HearCall, calls))
  BY <1>3, <1>5, <1>6, <1>7
<1>9. MapSeq(LAMBDA tc : Called(tc.id), w.tool_calls) = Each(HearCall, calls)
  BY <1>1, <1>5, CallsToIR
<1>10. InAnswer("openai_chat", w) = Words(t) \o Each(HearCall, calls)
  BY <1>1, <1>9 DEF InAnswer
<1>11. SameThings(InAnswer("openai_chat", w), Mapped(HearC, s))
  BY <1>8, <1>10, SameFacts
<1>. QED
  BY <1>1, <1>3, <1>5, <1>10, <1>11 DEF w, s, cs

(* and by responsesResponse.FromIR.                                        *)
LEMMA RAnswerFromIR ==
    ASSUME NEW r, r.content \in Seq(AssistantC)
    PROVE  LET w == ResponsesResponseFromIR(r)
           IN  /\ w.output \in Seq(AnsR) /\ w.status = ResponsesStatusFromIR(r.stop)
               /\ InAnswer("openai_responses", w) = Mapped(HearI, w.output)
               /\ InAnswer("openai_responses", w) = Mapped(HearC, r.content)
<1> DEFINE w == ResponsesResponseFromIR(r)
           h == Flush(FoldLeft(AddOutput, NoItems, r.content))
<1>1. w.output = h /\ w.status = ResponsesStatusFromIR(r.stop)
  BY DEF ResponsesResponseFromIR, NoItems
<1>2. h \in Seq(AnsR) /\ Mapped(HearI, h) = Mapped(HearC, r.content)
  BY OutputsGathered
<1> HIDE DEF h, w
<1>3. InAnswer("openai_responses", w) = FlatMap(InItem, h)
  BY <1>1 DEF InAnswer
<1>4. FlatMap(InItem, h) = Mapped(HearI, h)
  <2>1. h \in Seq(RItems)
    BY <1>2, HearIFacts
  <2>2. InHistory("openai_responses", h) = FlatMap(InItem, h)
    BY DEF InHistory
  <2>. QED
    BY <2>1, <2>2, RHistoryHeard
<1>. QED
  BY <1>1, <1>2, <1>3, <1>4 DEF w

-----------------------------------------------------------------------------
(***************************************************************************)
(* The answers each protocol knows, and the histories.                     *)
(***************************************************************************)
IsAnswer(p, w) ==
    CASE p = "anthropic"        -> w.content \in Seq(AssistantA)
      [] p = "openai_chat"      -> w.content \in Texts /\ w.tool_calls \in Seq(CallU)
      [] p = "openai_responses" -> w.output \in Seq(AnsR)

Past(p) ==
    CASE p = "anthropic"        -> Seq(AMessages)
      [] p = "openai_chat"      -> Seq(ChatMs)
      [] p = "openai_responses" -> Seq(RItems)

(* In every protocol, then.                                                *)
LEMMA AnswerFromIR ==
    ASSUME NEW p \in Protocols, NEW r, r.content \in Seq(AssistantC)
    PROVE  LET w == ResponseFromIR(p, r)
           IN  IsAnswer(p, w) /\ SameThings(InAnswer(p, w), Mapped(HearC, r.content))
<1>1. CASE p = "anthropic"
  <2>1. ResponseFromIR(p, r) = AnthropicResponseFromIR(r)
    BY <1>1 DEF ResponseFromIR
  <2>. QED
    BY <1>1, <2>1, AAnswerFromIR, SameFacts DEF IsAnswer
<1>2. CASE p = "openai_chat"
  <2>1. ResponseFromIR(p, r) = ChatResponseFromIR(r)
    BY <1>2 DEF ResponseFromIR
  <2>. QED
    BY <1>2, <2>1, UAnswerFromIR DEF IsAnswer
<1>3. CASE p = "openai_responses"
  <2>1. ResponseFromIR(p, r) = ResponsesResponseFromIR(r)
    BY <1>3 DEF ResponseFromIR
  <2>. QED
    BY <1>3, <2>1, RAnswerFromIR, SameFacts DEF IsAnswer
<1>. QED
  BY <1>1, <1>2, <1>3 DEF Protocols

Readable(A, p) ==
    /\ <<>> \in Seq(A) /\ InHistory(p, <<>>) = <<>>
    /\ \A h, k \in Seq(A) : /\ h \o k \in Seq(A)
                            /\ InHistory(p, h) \in Seq(Things)
                            /\ InHistory(p, h \o k) = InHistory(p, h) \o InHistory(p, k)

(* A history that is heard element by element is heard in parts.           *)
LEMMA HistoryReadable ==
    ASSUME NEW f, NEW A, NEW p, IsMap(f, A, Things), \A h \in Seq(A) : InHistory(p, h) = Mapped(f, h)
    PROVE  Readable(A, p)
<1>1. <<>> \in Seq(A) /\ \A h, k \in Seq(A) : h \o k \in Seq(A)
  BY ConcatProperties
<1>2. \A h, k \in Seq(A) : Mapped(f, h \o k) = Mapped(f, h) \o Mapped(f, k)
  BY MappedConcat
<1>3. Mapped(f, <<>>) = <<>> /\ \A h \in Seq(A) : Mapped(f, h) \in Seq(Things)
  BY MappedFacts
<1>. QED
  BY <1>1, <1>2, <1>3 DEF Readable

(* The histories of all three protocols are such histories.                *)
LEMMA PastFacts ==
    /\ Past("anthropic") = Seq(AMessages) /\ Past("openai_chat") = Seq(ChatMs)
    /\ Past("openai_responses") = Seq(RItems)
    /\ \A p \in Protocols : <<>> \in Past(p) /\ InHistory(p, <<>>) = <<>>
    /\ \A p \in Protocols : \A h, k \in Past(p) :
          /\ h \o k \in Past(p)
          /\ InHistory(p, h) \in Seq(Things)
          /\ InHistory(p, h \o k) = InHistory(p, h) \o InHistory(p, k)
<1>2. Past("anthropic") = Seq(AMessages) /\ Past("openai_chat") = Seq(ChatMs)
      /\ Past("openai_responses") = Seq(RItems)
  BY DEF Past
<1>3. Readable(AMessages, "anthropic")
  <2>1. AMessages \subseteq AnyA /\ Seq(AMessages) \subseteq Seq(AnyA)
    BY TypesFacts, SeqOfMore
  <2>2. IsMap(HearAM, AMessages, Things)
    <3>1. \A m \in AMessages : HearAM[m] \in Seq(Things)
      BY <2>1, HearMFacts DEF IsMap
    <3>. QED
      BY <3>1 DEF IsMap
  <2>3. \A h \in Seq(AMessages) : InHistory("anthropic", h) = Mapped(HearAM, h)
    BY <2>1, AHistoryHeard
  <2>. QED
    BY <2>2, <2>3, HistoryReadable
<1>4. Readable(ChatMs, "openai_chat")
  <2>1. \A m \in ChatMs : HearUM[m] \in Seq(Things)
    BY ChatTypes, InChat
  <2>2. IsMap(HearUM, ChatMs, Things)
    BY <2>1 DEF IsMap
  <2>. QED
    BY <2>2, UHistoryHeard, HistoryReadable
<1>5. Readable(RItems, "openai_responses")
  <2>1. IsMap(HearI, RItems, Things) /\ \A h \in Seq(RItems) : InHistory("openai_responses", h) = Mapped(HearI, h)
    BY HearIFacts, RHistoryHeard
  <2>. QED
    BY <2>1, HistoryReadable
<1>6. \A p \in Protocols : <<>> \in Past(p) /\ InHistory(p, <<>>) = <<>>
  BY <1>2, <1>3, <1>4, <1>5 DEF Protocols, Readable
<1>7. ASSUME NEW p \in Protocols, NEW h \in Past(p), NEW k \in Past(p)
      PROVE  /\ h \o k \in Past(p)
             /\ InHistory(p, h) \in Seq(Things)
             /\ InHistory(p, h \o k) = InHistory(p, h) \o InHistory(p, k)
  <2>1. CASE p = "anthropic"
    BY <1>2, <1>3, <2>1 DEF Readable
  <2>2. CASE p = "openai_chat"
    BY <1>2, <1>4, <2>2 DEF Readable
  <2>3. CASE p = "openai_responses"
    BY <1>2, <1>5, <2>3 DEF Readable
  <2>. QED
    BY <2>1, <2>2, <2>3 DEF Protocols
<1>. QED
  BY <1>2, <1>6, <1>7

-----------------------------------------------------------------------------
(***************************************************************************)
(* The answer in the client's history.                                     *)
(***************************************************************************)

(* What is heard of an answer, by protocol.                                *)
LEMMA AnswersHeard ==
    /\ \A w : IsAnswer("anthropic", w) =>
          w.content \in Seq(AssistantA) /\ InAnswer("anthropic", w) = Mapped(HearA, w.content)
    /\ \A w : IsAnswer("openai_chat", w) =>
          /\ w.content \in Texts /\ w.tool_calls \in Seq(CallU)
          /\ InAnswer("openai_chat", w) = Words(w.content) \o Each(HearCall, w.tool_calls)
    /\ \A w : IsAnswer("openai_responses", w) =>
          w.output \in Seq(AnsR) /\ InAnswer("openai_responses", w) = Mapped(HearI, w.output)
<1>1. ASSUME NEW w, IsAnswer("anthropic", w)
      PROVE  w.content \in Seq(AssistantA) /\ InAnswer("anthropic", w) = Mapped(HearA, w.content)
  <2>1. w.content \in Seq(AssistantA)
    BY <1>1 DEF IsAnswer
  <2>. QED
    BY <2>1, AAnswerToIR
<1>2. ASSUME NEW w, IsAnswer("openai_chat", w)
      PROVE  /\ w.content \in Texts /\ w.tool_calls \in Seq(CallU)
             /\ InAnswer("openai_chat", w) = Words(w.content) \o Each(HearCall, w.tool_calls)
  <2>1. w.content \in Texts /\ w.tool_calls \in Seq(CallU)
    BY <1>2 DEF IsAnswer
  <2>2. MapSeq(LAMBDA tc : Called(tc.id), w.tool_calls) = Each(HearCall, w.tool_calls)
    BY <2>1, CallsToIR
  <2>. QED
    BY <2>1, <2>2 DEF InAnswer
<1>3. ASSUME NEW w, IsAnswer("openai_responses", w)
      PROVE  w.output \in Seq(AnsR) /\ InAnswer("openai_responses", w) = Mapped(HearI, w.output)
  <2>1. w.output \in Seq(AnsR)
    BY <1>3 DEF IsAnswer
  <2>. QED
    BY <2>1, RAnswerToIR
<1>. QED
  BY <1>1, <1>2, <1>3

(* The client puts into its history what it was answered.                  *)
LEMMA RememberedFacts ==
    ASSUME NEW p \in Protocols, NEW w, IsAnswer(p, w)
    PROVE  /\ Remembered(p, w) \in Past(p)
           /\ InHistory(p, Remembered(p, w)) = InAnswer(p, w)
           /\ InAnswer(p, w) \in Seq(Things)
<1>1. CASE p = "anthropic"
  <2> DEFINE c == w.content
             m == Message("assistant", c)
  <2>1. c \in Seq(AssistantA) /\ InAnswer(p, w) = Mapped(HearA, c) /\ c \in Seq(ABlocks)
    BY <1>1, AnswersHeard, TypesFacts
  <2>2. Remembered(p, w) = IF c = <<>> THEN <<>> ELSE <<m>>
    BY <1>1 DEF Remembered
  <2>3. InAnswer(p, w) \in Seq(Things)
    BY <2>1, HearAFacts, MappedFacts
  <2>4. m \in AMessages /\ m.content = c
    <3> DEFINE S == Seq(AssistantA)
    <3>1. c \in S
      BY <2>1
    <3>2. [role : {"assistant"}, content : S] \subseteq AMessages
      BY DEF AMessages
    <3> HIDE DEF S, c
    <3>. QED
      BY <3>1, <3>2 DEF Message
  <2> HIDE DEF m, c
  <2>5. m \in AnyA /\ HearAM[m] = Mapped(HearA, c)
    BY <2>4, HearMFacts, TypesFacts
  <2>6. Mapped(HearAM, <<m>>) = HearAM[m] /\ Mapped(HearAM, <<>>) = <<>>
    <3>1. IsMap(HearAM, AnyA, Things)
      BY HearMFacts
    <3>. QED
      BY <2>5, <3>1, MappedFacts
  <2>7. CASE c = <<>>
    <3>1. Remembered(p, w) = <<>>
      BY <2>2, <2>7
    <3>2. Mapped(HearA, <<>>) = <<>>
      BY HearAFacts, MappedFacts
    <3>. QED
      BY <2>1, <2>3, <2>7, <3>1, <3>2, PastFacts
  <2>8. CASE c # <<>>
    <3>1. Remembered(p, w) = <<m>> /\ <<m>> \in Seq(AMessages) /\ <<m>> \in Seq(AnyA)
      BY <2>2, <2>4, <2>5, <2>8, OneThing
    <3>2. InHistory("anthropic", <<m>>) = Mapped(HearAM, <<m>>)
      BY <3>1, AHistoryHeard
    <3>. QED
      BY <1>1, <2>1, <2>3, <2>5, <2>6, <3>1, <3>2, PastFacts
  <2>. QED
    BY <2>7, <2>8
<1>2. CASE p = "openai_chat"
  <2> DEFINE t == w.content
             k == w.tool_calls
             c == IF t = <<>> /\ k # <<>> THEN <<>> ELSE AsString(t)
             m == [role |-> "assistant", tool_calls |-> k, call |-> 0, content |-> c]
  <2>1. t \in Texts /\ k \in Seq(CallU) /\ InAnswer(p, w) = Words(t) \o Each(HearCall, k)
    BY <1>2, AnswersHeard
  <2>2. Remembered(p, w) = <<m>>
    BY <1>2 DEF Remembered
  <2>3. c \in Seq(TextA) /\ Mapped(HearU, c) = Words(t)
    <3>1. AsString(t) \in Seq(TextA) /\ Mapped(HearU, AsString(t)) = Words(t)
      BY <2>1, StringFacts
    <3>2. Words(<<>>) = <<>>
      BY DEF Words, MapSeq
    <3>3. <<>> \in Seq(TextA) /\ Mapped(HearU, <<>>) = <<>>
      BY PartFacts, MappedFacts
    <3>. QED
      BY <3>1, <3>2, <3>3
  <2> HIDE DEF t, k, c
  <2>4. m \in ChatMs /\ HearUM[m] = Mapped(HearU, c) \o Each(HearCall, k)
    BY <2>1, <2>3, ChatMsgFacts
  <2> HIDE DEF m
  <2>5. <<m>> \in Seq(ChatMs)
    BY <2>4, OneThing
  <2>6. InHistory("openai_chat", <<m>>) = Mapped(HearUM, <<m>>)
    BY <2>5, UHistoryHeard
  <2>7. Mapped(HearUM, <<m>>) = HearUM[m]
    <3>1. \A x \in ChatMs : HearUM[x] \in Seq(Things)
      BY ChatTypes, InChat
    <3>2. IsMap(HearUM, ChatMs, Things)
      BY <3>1 DEF IsMap
    <3>. QED
      BY <2>4, <3>2, MappedFacts
  <2>8. HearUM[m] \in Seq(Things)
    BY <2>4, ChatTypes, InChat
  <2>. QED
    BY <1>2, <2>1, <2>2, <2>3, <2>4, <2>5, <2>6, <2>7, <2>8, PastFacts
<1>3. CASE p = "openai_responses"
  <2>1. w.output \in Seq(AnsR) /\ InAnswer(p, w) = Mapped(HearI, w.output) /\ w.output \in Seq(RItems)
    BY <1>3, AnswersHeard, HearIFacts
  <2>2. Remembered(p, w) = w.output
    BY <1>3 DEF Remembered
  <2>3. Mapped(HearI, w.output) \in Seq(Things)
    BY <2>1, HearIFacts, MappedFacts
  <2>. QED
    BY <1>3, <2>1, <2>2, <2>3, RHistoryHeard, PastFacts
<1>. QED
  BY <1>1, <1>2, <1>3 DEF Protocols

-----------------------------------------------------------------------------
(***************************************************************************)
(* The calls the client finds in an answer.                                *)
(***************************************************************************)
IdF   == [x \in Things |-> x.n]
BlockId == [b \in UseA |-> b.id]
ItemId  == [it \in CallR |-> it.call]
ChatId  == [tc \in CallU |-> tc.id]

(* The ids of the calls heard.                                             *)
LEMMA IdFacts ==
    /\ IsFcn(IdF, Things, Nat) /\ IsFcn(IdF, Tooly, Nat)
    /\ \A n \in Nat : IdF[Called(n)] = n /\ Called(n) \in Tooly
    /\ \A s \in Seq(Things) : /\ Each(IdF, OnlyTools(s)) \in Seq(Nat)
                              /\ (Each(IdF, OnlyTools(s)) = <<>>) = (OnlyTools(s) = <<>>)
<1>1. \A x \in Things : IdF[x] = x.n /\ x.n \in Nat
  BY DEF IdF, Things
<1>2. IsFcn(IdF, Things, Nat)
  BY <1>1 DEF IsFcn
<1>3. IsFcn(IdF, Tooly, Nat)
  BY <1>1 DEF IsFcn, Tooly
<1>4. \A n \in Nat : IdF[Called(n)] = n /\ Called(n) \in Tooly
  <2>1. \A n \in Nat : Called(n) \in Things /\ Called(n).n = n /\ Called(n).kind = "tool"
    BY ThingsAre DEF Called
  <2>. QED
    BY <1>1, <2>1 DEF Tooly
<1>5. \A s \in Seq(Things) : /\ Each(IdF, OnlyTools(s)) \in Seq(Nat)
                             /\ (Each(IdF, OnlyTools(s)) = <<>>) = (OnlyTools(s) = <<>>)
  BY <1>2, EachFacts, OnlyFacts
<1>. QED
  BY <1>2, <1>3, <1>4, <1>5

CallsOf(f, id, t, A) ==
    /\ \A b \in A : b.type = t => id[b] \in Nat /\ OnlyTools(f[b]) = <<Called(id[b])>>
    /\ \A b \in A : b.type # t => OnlyTools(f[b]) = <<>>

SameCalls(f, id, t, A) == \A s \in Seq(A) : Each(id, OfType(t, s)) = Each(IdF, OnlyTools(Mapped(f, s)))

(* Ids selected from an answer are ids of the calls heard in it.           *)
LEMMA CallsFound ==
    ASSUME NEW A, NEW t, NEW f, IsMap(f, A, Things), NEW id, CallsOf(f, id, t, A)
    PROVE  /\ \A s \in Seq(A) : \A i \in DOMAIN OfType(t, s) : OfType(t, s)[i] \in A /\ OfType(t, s)[i].type = t
           /\ SameCalls(f, id, t, A)
<1> DEFINE U  == {b \in A : b.type = t}
           k  == KeepType(A, t)
           ft == OnlyT(f, A)
           h  == [b \in A |-> IF b.type = t THEN <<id[b]>> ELSE <<>>]
<1>0. /\ \A b \in A : b.type = t => id[b] \in Nat /\ OnlyTools(f[b]) = <<Called(id[b])>>
      /\ \A b \in A : b.type # t => OnlyTools(f[b]) = <<>>
  BY DEF CallsOf
<1>1. \A b \in U : b \in A /\ id[b] \in Nat
  BY <1>0
<1>2. IsFcn(id, U, Nat)
  BY <1>1 DEF IsFcn
<1>3. IsMap(k, A, U)
  BY OfTypeIsMapped
<1>4. \A b \in A : k[b] = IF b.type = t THEN <<b>> ELSE <<>>
  BY OfTypeIsMapped
<1>5. \A s \in Seq(A) : OfType(t, s) = Mapped(k, s)
  BY OfTypeIsMapped
<1>6. \A b \in A : h[b] = IF b.type = t THEN <<id[b]>> ELSE <<>>
  OBVIOUS
<1>7. \A b \in A : ft[b] = OnlyTools(f[b]) /\ ft[b] \in Seq(Things)
  BY OnlyFacts DEF OnlyT, IsMap
<1> HIDE DEF U, k, ft, h
<1>8. IsMap(h, A, Nat)
  <2>1. (\A n \in Nat : <<n>> \in Seq(Nat)) /\ <<>> \in Seq(Nat)
    OBVIOUS
  <2>2. \A b \in A : h[b] \in Seq(Nat)
    BY <1>0, <1>6, <2>1
  <2>. QED
    BY <2>2 DEF IsMap
<1>9. \A b \in A : h[b] = Each(id, k[b])
  <2>1. Each(id, <<>>) = <<>> /\ \A x : Each(id, <<x>>) = <<id[x]>>
    BY DEF Each
  <2>. QED
    BY <1>4, <1>6, <2>1
<1>10. \A s \in Seq(A) : Each(id, Mapped(k, s)) = Mapped(h, s)
  BY <1>2, <1>3, <1>8, <1>9, MappedThenEach
<1>11. \A b \in A : h[b] = Each(IdF, ft[b])
  <2>1. Each(IdF, <<>>) = <<>> /\ \A x : Each(IdF, <<x>>) = <<IdF[x]>>
    BY DEF Each
  <2>2. \A b \in A : b.type = t => ft[b] = <<Called(id[b])>> /\ IdF[Called(id[b])] = id[b]
    BY <1>0, <1>7, IdFacts
  <2>3. \A b \in A : b.type # t => ft[b] = <<>>
    BY <1>0, <1>7
  <2>. QED
    BY <1>6, <2>1, <2>2, <2>3
<1>12. IsMap(ft, A, Things)
  BY <1>7 DEF IsMap
<1>13. \A s \in Seq(A) : Each(IdF, Mapped(ft, s)) = Mapped(h, s)
  BY <1>8, <1>11, <1>12, IdFacts, MappedThenEach
<1>14. \A s \in Seq(A) : OnlyTools(Mapped(f, s)) = Mapped(ft, s)
  BY OnlyMapped DEF ft
<1>15. \A s \in Seq(A) : Mapped(k, s) \in Seq(U)
  BY <1>3, MappedFacts
<1>16. ASSUME NEW s \in Seq(A), NEW i \in DOMAIN OfType(t, s)
       PROVE  OfType(t, s)[i] \in A /\ OfType(t, s)[i].type = t
  <2>1. OfType(t, s) \in Seq(U)
    BY <1>5, <1>15
  <2>2. OfType(t, s)[i] \in U
    BY <2>1, ElementOfSeq, LenProperties
  <2>. QED
    BY <2>2 DEF U
<1>. QED
  BY <1>5, <1>10, <1>13, <1>14, <1>16 DEF SameCalls

(* Only the blocks for them are heard as calls.                            *)
LEMMA OnlyCalls ==
    /\ IsMap(HearA, AssistantA, Things)
    /\ \A b \in AssistantA : /\ b.type = "tool_use" => b \in UseA /\ OnlyTools(HearA[b]) = <<Called(b.id)>>
                             /\ b.type # "tool_use" => OnlyTools(HearA[b]) = <<>>
    /\ \A it \in AnsR : /\ it.type = "function_call" => it \in CallR /\ OnlyTools(HearI[it]) = <<Called(it.call)>>
                        /\ it.type # "function_call" => OnlyTools(HearI[it]) = <<>>
<1>0. /\ \A n \in Nat : OnlyTools(<<Called(n)>>) = <<Called(n)>> /\ <<Called(n)>> \in Seq(Things)
      /\ OnlyTools(<<>>) = <<>> /\ <<>> \in Seq(Things)
  <2>1. ASSUME NEW n \in Nat
        PROVE  OnlyTools(<<Called(n)>>) = <<Called(n)>> /\ <<Called(n)>> \in Seq(Things)
    <3>1. <<Called(n)>> \in Seq(Tooly)
      BY IdFacts, OneThing
    <3>. QED
      BY <3>1, OnlyFacts
  <2>2. <<>> \in Seq(Things)
    OBVIOUS
  <2>. QED
    BY <2>1, <2>2, OnlyFacts
<1>1. ASSUME NEW b \in UseA
      PROVE  HearA[b] \in Seq(Things) /\ b.type = "tool_use" /\ OnlyTools(HearA[b]) = <<Called(b.id)>>
  <2>1. b.type = "tool_use" /\ b.id \in Nat
    BY DEF UseA
  <2>. QED
    BY <1>0, <2>1, HearAFacts
<1>2. ASSUME NEW b \in TextA
      PROVE  HearA[b] \in Seq(Things) /\ b.type # "tool_use" /\ OnlyTools(HearA[b]) = <<>>
  <2>1. HearA[b] = Words(b.text) /\ b.type # "tool_use" /\ b.text \in Texts
    BY HearAFacts DEF TextA
  <2>2. Words(b.text) \in Seq(Wordy)
    BY <2>1, HearKinds
  <2>. QED
    BY <2>1, <2>2, OnlyFacts
<1>3. ASSUME NEW b \in ThinkA \cup HiddenA
      PROVE  HearA[b] \in Seq(Things) /\ b.type # "tool_use" /\ OnlyTools(HearA[b]) = <<>>
  <2>1. b.type # "tool_use"
    BY DEF ThinkA, HiddenA
  <2>2. HearA[b] = <<>>
    BY HearAFacts
  <2>. QED
    BY <1>0, <2>1, <2>2
<1>4. \A b \in AssistantA : b \in UseA \/ b \in TextA \/ b \in ThinkA \cup HiddenA
  BY DEF AssistantA
<1>5. IsMap(HearA, AssistantA, Things)
  BY <1>1, <1>2, <1>3, <1>4 DEF IsMap
<1>6. \A b \in AssistantA : /\ b.type = "tool_use" => b \in UseA /\ OnlyTools(HearA[b]) = <<Called(b.id)>>
                            /\ b.type # "tool_use" => OnlyTools(HearA[b]) = <<>>
  BY <1>1, <1>2, <1>3, <1>4
<1>7. ASSUME NEW it \in CallR
      PROVE  it.type = "function_call" /\ OnlyTools(HearI[it]) = <<Called(it.call)>>
  <2>1. it.type = "function_call" /\ it.call \in Nat
    BY DEF CallR
  <2>. QED
    BY <1>0, <2>1, HearIFacts
<1>8. ASSUME NEW it \in AsstR
      PROVE  it.type # "function_call" /\ OnlyTools(HearI[it]) = <<>>
  <2>1. it.type = "message" /\ it.content \in Seq(SaidR)
    BY MessageItemFacts
  <2>2. HearI[it] = Mapped(HearPR, it.content)
    BY HearIFacts
  <2>3. \A p \in SaidR : HearPR[p] \in Seq(Wordy)
    <3>1. \A p \in SaidR : p \in PartR
      BY DEF PartR
    <3>2. ASSUME NEW p \in TextR PROVE HearPR[p] \in Seq(Wordy)
      <4>1. HearPR[p] = Words(p.text) /\ p.text \in Texts
        BY PartRFacts DEF TextR
      <4>. QED
        BY <4>1, HearKinds
    <3>3. ASSUME NEW p \in RefusalR PROVE HearPR[p] \in Seq(Wordy)
      <4>1. p \in PartR /\ p.type = "refusal" /\ p.refusal \in Texts
        BY <3>1 DEF RefusalR, SaidR
      <4>2. HearPR[p] = Words(p.refusal)
        BY <4>1 DEF HearPR, InPart
      <4>. QED
        BY <4>1, <4>2, HearKinds
    <3>. QED
      BY <3>2, <3>3 DEF SaidR
  <2>4. IsMap(HearPR, SaidR, Wordy)
    BY <2>3 DEF IsMap
  <2>5. Mapped(HearPR, it.content) \in Seq(Wordy)
    BY <2>1, <2>4, MappedFacts
  <2>. QED
    BY <2>1, <2>2, <2>5, OnlyFacts
<1>9. ASSUME NEW it \in Reasonings
      PROVE  it.type # "function_call" /\ OnlyTools(HearI[it]) = <<>>
  <2>1. it.type = "reasoning"
    BY DEF Reasonings
  <2>. QED
    BY <1>0, <2>1, HearIFacts
<1>10. \A it \in AnsR : it \in CallR \/ it \in AsstR \/ it \in Reasonings
  BY DEF AnsR
<1>. QED
  BY <1>5, <1>6, <1>7, <1>8, <1>9, <1>10

(* The calls the client runs are the calls it hears.                       *)
LEMMA CallsInAnswer ==
    ASSUME NEW p \in Protocols, NEW w, IsAnswer(p, w)
    PROVE  CallsIn(p, w) = Each(IdF, OnlyTools(InAnswer(p, w)))
<1>1. CASE p = "anthropic"
  <2> DEFINE t == "tool_use"
             U == {b \in AssistantA : b.type = t}
             s == w.content
             o == OfType(t, s)
  <2>1. s \in Seq(AssistantA) /\ InAnswer(p, w) = Mapped(HearA, s)
    BY <1>1, AnswersHeard
  <2>2. \A b \in AssistantA : b.type = t => b \in UseA /\ BlockId[b] = b.id /\ b.id \in Nat
    BY OnlyCalls DEF BlockId, UseA
  <2>3. \A b \in AssistantA : b.type = t => BlockId[b] \in Nat /\ OnlyTools(HearA[b]) = <<Called(BlockId[b])>>
    BY <2>2, OnlyCalls
  <2>4. \A b \in AssistantA : b.type # t => OnlyTools(HearA[b]) = <<>>
    BY OnlyCalls
  <2>5. CallsIn(p, w) = MapSeq(LAMBDA b : b.id, o)
    BY <1>1 DEF CallsIn
  <2>6. \A b \in U : BlockId[b] = b.id
    BY <2>2
  <2>7. IsMap(HearA, AssistantA, Things)
    BY OnlyCalls
  <2> HIDE DEF t, s
  <2>8. (\A i \in DOMAIN o : o[i] \in U) /\ Each(BlockId, o) = Each(IdF, OnlyTools(Mapped(HearA, s)))
    <3> DEFINE A == AssistantA
               f == HearA
               id == BlockId
    <3>1. IsMap(f, A, Things)
      BY <2>7
    <3>2. CallsOf(f, id, t, A)
      BY <2>3, <2>4 DEF CallsOf
    <3>4. s \in Seq(A)
      BY <2>1
    <3> HIDE DEF A, f, id
    <3>5. \A q \in Seq(A) : \A i \in DOMAIN OfType(t, q) : OfType(t, q)[i] \in A /\ OfType(t, q)[i].type = t
      BY <3>1, <3>2, CallsFound
    <3>6. SameCalls(f, id, t, A)
      BY <3>1, <3>2, CallsFound
    <3>7. Each(id, OfType(t, s)) = Each(IdF, OnlyTools(Mapped(f, s)))
      BY <3>4, <3>6 DEF SameCalls
    <3>. QED
      BY <3>4, <3>5, <3>7 DEF A, f, id
  <2> HIDE DEF U, o
  <2>9. \A i \in DOMAIN o : o[i] \in U
    BY <2>8
  <2>10. [i \in DOMAIN o |-> o[i].id] = [i \in DOMAIN o |-> BlockId[o[i]]]
    BY <2>6, <2>9
  <2>11. MapSeq(LAMBDA b : b.id, o) = Each(BlockId, o)
    BY <2>10 DEF MapSeq, Each
  <2>. QED
    BY <2>1, <2>5, <2>8, <2>11
<1>2. CASE p = "openai_chat"
  <2> DEFINE s == w.tool_calls
  <2>1. s \in Seq(CallU) /\ InAnswer(p, w) = Words(w.content) \o Each(HearCall, s) /\ w.content \in Texts
    BY <1>2, AnswersHeard
  <2>2. CallsIn(p, w) = MapSeq(LAMBDA tc : tc.id, s)
    BY <1>2 DEF CallsIn
  <2> HIDE DEF s
  <2>3. \A i \in DOMAIN s : s[i] \in CallU
    BY <2>1, ElementOfSeq, LenProperties
  <2>4. [i \in DOMAIN s |-> s[i].id] = [i \in DOMAIN s |-> ChatId[s[i]]]
    BY <2>3 DEF ChatId
  <2>5. MapSeq(LAMBDA tc : tc.id, s) = Each(ChatId, s)
    BY <2>4 DEF MapSeq, Each
  <2>6. Words(w.content) \in Seq(Wordy) /\ Each(HearCall, s) \in Seq(Tooly)
    BY <2>1, HearKinds, CallsToIR
  <2>7. OnlyTools(InAnswer(p, w)) = Each(HearCall, s)
    <3> DEFINE a == Words(w.content)
               b == Each(HearCall, s)
    <3>1. a \in Seq(Things) /\ b \in Seq(Things) /\ OnlyTools(a) = <<>> /\ OnlyTools(b) = b
      BY <2>6, OnlyFacts
    <3> HIDE DEF a, b
    <3>2. OnlyTools(a \o b) = OnlyTools(a) \o OnlyTools(b) /\ <<>> \o b = b
      BY <3>1, OnlyFacts, ConcatEmptySeq
    <3>. QED
      BY <2>1, <3>1, <3>2 DEF a, b
  <2>8. \A tc \in CallU : ChatId[tc] = IdF[HearCall[tc]]
    <3>1. \A tc \in CallU : tc.id \in Nat /\ ChatId[tc] = tc.id /\ HearCall[tc] = Called(tc.id)
      BY CallFacts DEF ChatId, CallU
    <3>. QED
      BY <3>1, IdFacts
  <2>9. IsFcn(HearCall, CallU, Tooly)
    BY CallFacts
  <2>10. Each(IdF, Each(HearCall, s)) = Each(ChatId, s)
    BY <2>1, <2>8, <2>9, EachTwice
  <2>. QED
    BY <2>2, <2>5, <2>7, <2>10
<1>3. CASE p = "openai_responses"
  <2> DEFINE t == "function_call"
             U == {it \in AnsR : it.type = t}
             s == w.output
             o == OfType(t, s)
  <2>1. s \in Seq(AnsR) /\ InAnswer(p, w) = Mapped(HearI, s)
    BY <1>3, AnswersHeard
  <2>2. \A it \in AnsR : it.type = t => it \in CallR /\ ItemId[it] = it.call /\ it.call \in Nat
    BY OnlyCalls DEF ItemId, CallR
  <2>3. \A it \in AnsR : it.type = t => ItemId[it] \in Nat /\ OnlyTools(HearI[it]) = <<Called(ItemId[it])>>
    BY <2>2, OnlyCalls
  <2>4. \A it \in AnsR : it.type # t => OnlyTools(HearI[it]) = <<>>
    BY OnlyCalls
  <2>5. CallsIn(p, w) = MapSeq(LAMBDA it : it.call, o)
    BY <1>3 DEF CallsIn
  <2>6. \A it \in U : ItemId[it] = it.call
    BY <2>2
  <2>7. IsMap(HearI, AnsR, Things)
    BY HearIFacts
  <2> HIDE DEF t, s
  <2>8. (\A i \in DOMAIN o : o[i] \in U) /\ Each(ItemId, o) = Each(IdF, OnlyTools(Mapped(HearI, s)))
    <3> DEFINE A == AnsR
               f == HearI
               id == ItemId
    <3>1. IsMap(f, A, Things)
      BY <2>7
    <3>2. CallsOf(f, id, t, A)
      BY <2>3, <2>4 DEF CallsOf
    <3>4. s \in Seq(A)
      BY <2>1
    <3> HIDE DEF A, f, id
    <3>5. \A q \in Seq(A) : \A i \in DOMAIN OfType(t, q) : OfType(t, q)[i] \in A /\ OfType(t, q)[i].type = t
      BY <3>1, <3>2, CallsFound
    <3>6. SameCalls(f, id, t, A)
      BY <3>1, <3>2, CallsFound
    <3>7. Each(id, OfType(t, s)) = Each(IdF, OnlyTools(Mapped(f, s)))
      BY <3>4, <3>6 DEF SameCalls
    <3>. QED
      BY <3>4, <3>5, <3>7 DEF A, f, id
  <2> HIDE DEF U, o
  <2>9. \A i \in DOMAIN o : o[i] \in U
    BY <2>8
  <2>10. [i \in DOMAIN o |-> o[i].call] = [i \in DOMAIN o |-> ItemId[o[i]]]
    BY <2>6, <2>9
  <2>11. MapSeq(LAMBDA it : it.call, o) = Each(ItemId, o)
    BY <2>10 DEF MapSeq, Each
  <2>. QED
    BY <2>1, <2>5, <2>8, <2>11
<1>. QED
  BY <1>1, <1>2, <1>3 DEF Protocols

Silent(f, s) == \A i \in DOMAIN s : f[s[i]] = <<>>

(* A mapping that gives nothing of any element gives nothing of the        *)
(* sequence.                                                               *)
LEMMA MappedEmpty ==
    ASSUME NEW A, NEW B, NEW f, IsMap(f, A, B)
    PROVE  \A s \in Seq(A) : Mapped(f, s) = <<>> <=> Silent(f, s)
<1> DEFINE P == {s \in Seq(A) : (Mapped(f, s) = <<>>) = (\A i \in DOMAIN s : f[s[i]] = <<>>)}
<1>1. <<>> \in P
  <2>1. Mapped(f, <<>>) = <<>>
    BY MappedFacts
  <2>2. <<>> \in Seq(A) /\ DOMAIN <<>> = {}
    OBVIOUS
  <2>. QED
    BY <2>1, <2>2
<1>2. ASSUME NEW s \in Seq(A), s \in P, NEW x \in A PROVE Append(s, x) \in P
  <2>1. Mapped(f, Append(s, x)) = Mapped(f, s) \o f[x] /\ Mapped(f, s) \in Seq(B) /\ f[x] \in Seq(B)
    <3>1. f[x] \in Seq(B)
      BY DEF IsMap
    <3>2. Mapped(f, Append(s, x)) = Mapped(f, s) \o f[x] /\ Mapped(f, s) \in Seq(B)
      BY MappedFacts
    <3>. QED
      BY <3>1, <3>2
  <2>2. (Mapped(f, s) \o f[x] = <<>>) = (Mapped(f, s) = <<>> /\ f[x] = <<>>)
    BY <2>1, ConcatProperties, EmptySeq
  <2>3. (Mapped(f, s) = <<>>) = (\A i \in DOMAIN s : f[s[i]] = <<>>)
    BY <1>2
  <2>4. Append(s, x) \in Seq(A)
    BY AppendProperties
  <2>5. /\ DOMAIN s = 1..Len(s) /\ Len(s) \in Nat /\ DOMAIN Append(s, x) = 1..Len(s) + 1
        /\ Append(s, x)[Len(s) + 1] = x /\ \A i \in 1..Len(s) : Append(s, x)[i] = s[i]
    BY AppendProperties, LenProperties
  <2>6. (\A i \in DOMAIN Append(s, x) : f[Append(s, x)[i]] = <<>>)
        = ((\A i \in DOMAIN s : f[s[i]] = <<>>) /\ f[x] = <<>>)
    <3>1. ASSUME \A i \in DOMAIN Append(s, x) : f[Append(s, x)[i]] = <<>>
          PROVE  (\A i \in DOMAIN s : f[s[i]] = <<>>) /\ f[x] = <<>>
      <4>1. \A i \in 1..Len(s) : i \in 1..Len(s) + 1
        BY <2>5
      <4>2. Len(s) + 1 \in 1..Len(s) + 1
        BY <2>5
      <4>. QED
        BY <2>5, <3>1, <4>1, <4>2
    <3>2. ASSUME \A i \in DOMAIN s : f[s[i]] = <<>>, f[x] = <<>>, NEW i \in DOMAIN Append(s, x)
          PROVE  f[Append(s, x)[i]] = <<>>
      <4>1. i \in 1..Len(s) \/ i = Len(s) + 1
        BY <2>5
      <4>. QED
        BY <2>5, <3>2, <4>1
    <3>. QED
      BY <3>1, <3>2
  <2>. QED
    BY <2>1, <2>2, <2>3, <2>4, <2>6
<1> HIDE DEF P
<1>3. Seq(A) \subseteq P
  BY <1>1, <1>2, SeqInduction
<1>. QED
  BY <1>3 DEF P, Silent

(* A Chat message is heard to call tools iff it has tool calls.            *)
LEMMA AnswersCall ==
    \A c \in Texts, s \in Seq(CallU) :
       (OnlyTools(Words(c) \o Each(HearCall, s)) = <<>>) = (s = <<>>)
<1>1. ASSUME NEW c \in Texts, NEW s \in Seq(CallU)
      PROVE  (OnlyTools(Words(c) \o Each(HearCall, s)) = <<>>) = (s = <<>>)
  <2> DEFINE a == Words(c)
             b == Each(HearCall, s)
  <2>1. a \in Seq(Wordy) /\ b \in Seq(Tooly)
    BY HearKinds, CallsToIR
  <2>2. (b = <<>>) = (s = <<>>)
    <3>1. IsFcn(HearCall, CallU, Tooly)
      BY CallFacts
    <3>. QED
      BY <3>1, EachFacts
  <2> HIDE DEF a, b
  <2>3. a \in Seq(Things) /\ b \in Seq(Things) /\ OnlyTools(a) = <<>> /\ OnlyTools(b) = b
    BY <2>1, OnlyFacts
  <2>4. OnlyTools(a \o b) = OnlyTools(a) \o OnlyTools(b) /\ <<>> \o b = b
    BY <2>3, OnlyFacts, ConcatEmptySeq
  <2>. QED
    BY <2>2, <2>3, <2>4 DEF a, b
<1>. QED
  BY <1>1

(* The IR is heard to call tools iff it has a block for a call.            *)
LEMMA CallsInIR ==
    \A c \in Seq(AssistantC) :
       /\ OnlyTools(Mapped(HearC, c)) = Mapped(HearC, OfKinds({"tool_use"}, c))
       /\ (OnlyTools(Mapped(HearC, c)) = <<>>) = (OfKinds({"tool_use"}, c) = <<>>)
<1> TAKE c \in Seq(AssistantC)
<1> DEFINE k == OfKinds({"tool_use"}, c)
<1>1. c \in Seq(IRBlocks)
  BY TypesFacts
<1>2. OfKinds(ToolKinds, c) = k
  BY KindsFacts
<1>3. OnlyTools(Mapped(HearC, c)) = Mapped(HearC, k)
  BY <1>1, <1>2, HearKinds
<1>4. k \in Seq(CallC)
  BY <1>1, KindsFacts
<1> HIDE DEF k
<1>5. CallC \subseteq IRBlocks /\ IsMap(HearC, IRBlocks, Things)
  BY HearCFacts DEF IRBlocks, AssistantC
<1>6. IsMap(HearC, CallC, Things)
  BY <1>5 DEF IsMap
<1>7. Mapped(HearC, k) = <<>> <=> Silent(HearC, k)
  BY <1>4, <1>6, MappedEmpty
<1>8. \A i \in DOMAIN k : k[i] \in CallC
  BY <1>4, ElementOfSeq, LenProperties
<1>9. \A i \in DOMAIN k : HearC[k[i]] # <<>>
  <2>1. \A x : <<x>> # <<>>
    OBVIOUS
  <2>. QED
    BY <1>8, <2>1, HearCFacts
<1>10. (\A i \in DOMAIN k : HearC[k[i]] = <<>>) = (k = <<>>)
  <2>1. k # <<>> => 1 \in DOMAIN k
    BY <1>4, EmptySeq, LenProperties
  <2>2. k = <<>> => DOMAIN k = {}
    OBVIOUS
  <2>. QED
    BY <1>9, <2>1, <2>2
<1>. QED
  BY <1>3, <1>7, <1>10 DEF k, Silent

-----------------------------------------------------------------------------
(***************************************************************************)
(* The answers of the upstreams.                                           *)
(***************************************************************************)

(* The numbers of a turn's utterances.                                     *)
LEMMA Numbers ==
    \A t \in Nat, k \in Nat : 10 * t + k \in Nat /\ <<10 * t + k>> \in Texts
<1>1. \A t \in Nat, k \in Nat : 10 * t + k \in Nat
  OBVIOUS
<1>. QED
  BY <1>1, OneThing DEF Texts

(* What Anthropic answers, with any reason to stop,                        *)
LEMMA AAnswersAre ==
    \A t \in Nat : \A w \in AnthropicAnswers(t) :
       w.content \in Seq(AssistantA) /\ w.stop_reason \in AnthropicStops
<1> TAKE t \in Nat
<1> DEFINE say(k)  == [type |-> "text", text |-> <<10 * t + k>>]
           call(k) == [type |-> "tool_use", id |-> 10 * t + k, input |-> "object"]
           think   == [type |-> "thinking", text |-> <<10 * t + 9>>, signature |-> "signed"]
           hidden  == [type |-> "redacted_thinking", data |-> t]
           s1 == say(1)
           s2 == say(2)
           c1 == call(1)
           c2 == call(2)
           none == <<>>
           o1 == <<s1>>
           o2 == <<think, s1>>
           o3 == <<think, s1, c1, c2>>
           o4 == <<hidden, c1, s2>>
<1>1. AnthropicAnswers(t) = [content : {none, o1, o2, o3, o4}, stop_reason : AnthropicStops]
  BY DEF AnthropicAnswers
<1>2. s1 \in AssistantA /\ s2 \in AssistantA /\ c1 \in AssistantA /\ c2 \in AssistantA
  <2>1. \A k \in Nat : say(k) \in AssistantA
    BY Numbers DEF AssistantA, TextA
  <2>2. \A k \in Nat : call(k) \in AssistantA
    BY Numbers DEF AssistantA, UseA, Args
  <2>. QED
    BY <2>1, <2>2
<1>3. think \in AssistantA /\ hidden \in AssistantA
  <2>1. think \in AssistantA
    BY Numbers DEF AssistantA, ThinkA, Marks
  <2>2. hidden \in AssistantA
    BY DEF AssistantA, HiddenA
  <2>. QED
    BY <2>1, <2>2
<1> HIDE DEF s1, s2, c1, c2, think, hidden, say, call
<1>4. /\ none \in Seq(AssistantA) /\ o1 \in Seq(AssistantA) /\ o2 \in Seq(AssistantA)
      /\ o3 \in Seq(AssistantA) /\ o4 \in Seq(AssistantA)
  BY <1>2, <1>3, Tuples
<1> HIDE DEF none, o1, o2, o3, o4
<1>5. ASSUME NEW w \in [content : {none, o1, o2, o3, o4}, stop_reason : AnthropicStops]
      PROVE  w.content \in Seq(AssistantA) /\ w.stop_reason \in AnthropicStops
  BY <1>4
<1>. QED
  BY <1>1, <1>5

(* what Chat does,                                                         *)
LEMMA UAnswersAre ==
    \A t \in Nat : \A w \in ChatAnswers(t) :
       /\ w.content \in Texts /\ w.tool_calls \in Seq(CallU) /\ w.reasoning \in Texts
       /\ w.finish_reason \in ChatFinishes
<1> TAKE t \in Nat
<1> DEFINE call(k, args) == [id |-> 10 * t + k, arguments |-> args]
           none  == <<>>
           say   == <<10 * t + 1>>
           think == <<10 * t + 9>>
           one   == <<call(1, "object")>>
           two   == <<call(1, "invalid"), call(2, "none")>>
<1>1. ChatAnswers(t) = [content : {none, say}, tool_calls : {none, one, two}, reasoning : {none, think},
                        finish_reason : ChatFinishes]
  BY DEF ChatAnswers
<1>2. say \in Texts /\ think \in Texts /\ none \in Texts /\ none \in Seq(CallU)
  BY Numbers DEF Texts
<1>3. \A k \in Nat, a \in Args : call(k, a) \in CallU
  BY Numbers DEF CallU
<1>4. call(1, "object") \in CallU /\ call(1, "invalid") \in CallU /\ call(2, "none") \in CallU
  BY <1>3 DEF Args
<1> HIDE DEF call
<1>5. one \in Seq(CallU) /\ two \in Seq(CallU)
  BY <1>4
<1> HIDE DEF say, think, one, two, none
<1>6. ASSUME NEW w \in [content : {none, say}, tool_calls : {none, one, two}, reasoning : {none, think},
                        finish_reason : ChatFinishes]
      PROVE  /\ w.content \in Texts /\ w.tool_calls \in Seq(CallU) /\ w.reasoning \in Texts
             /\ w.finish_reason \in ChatFinishes
  BY <1>2, <1>5
<1>. QED
  BY <1>1, <1>6

(* and Responses.                                                          *)
LEMMA RAnswersAre ==
    \A t \in Nat : \A w \in ResponsesAnswers(t) :
       w.output \in Seq(AnsR) /\ w.status \in ResponsesStatus
<1> TAKE t \in Nat
<1> DEFINE part(k, type) == [type |-> type, text |-> <<10 * t + k>>]
           refusal(k)    == [type |-> "refusal", refusal |-> <<10 * t + k>>]
           say(k, type)  == MessageItem("assistant", <<part(k, type)>>)
           no(k)         == MessageItem("assistant", <<refusal(k)>>)
           call(k, args) == CallItem(10 * t + k, args)
           think         == ReasoningItem(<<10 * t + 9>>, t)
           s == say(1, "output_text")
           n == no(1)
           c == call(1, "object")
           d == call(2, "invalid")
           none == <<>>
           o1 == <<think, s>>
           o2 == <<n>>
           o3 == <<s>>
           o4 == <<think, s, c, think, d>>
<1>1. ResponsesAnswers(t) = [output : {none, o1, o2, o3, o4}, status : ResponsesStatus]
  BY DEF ResponsesAnswers
<1>2. s \in AnsR
  <2> DEFINE p == part(1, "output_text")
  <2>1. p \in SaidR
    BY Numbers DEF SaidR, TextR
  <2> HIDE DEF p, part
  <2>2. <<p>> \in Seq(SaidR)
    BY <2>1
  <2>3. s = MessageItem("assistant", <<p>>)
    BY DEF p
  <2> HIDE DEF s
  <2>. QED
    BY <2>2, <2>3, MessageItemFacts DEF AnsR
<1>3. n \in AnsR
  <2> DEFINE p == refusal(1)
  <2>1. p \in SaidR
    BY Numbers DEF SaidR, RefusalR
  <2> HIDE DEF p, refusal
  <2>2. <<p>> \in Seq(SaidR)
    BY <2>1
  <2>3. n = MessageItem("assistant", <<p>>)
    BY DEF p
  <2> HIDE DEF n
  <2>. QED
    BY <2>2, <2>3, MessageItemFacts DEF AnsR
<1>4. c \in AnsR /\ d \in AnsR /\ think \in AnsR
  <2>1. 10 * t + 1 \in Nat /\ 10 * t + 2 \in Nat /\ <<10 * t + 9>> \in Texts
    BY Numbers
  <2>2. "object" \in Args /\ "invalid" \in Args
    BY DEF Args
  <2>. QED
    BY <2>1, <2>2, ItemsAre
<1> HIDE DEF s, n, c, d, think, say, no, call
<1>5. /\ none \in Seq(AnsR) /\ o1 \in Seq(AnsR) /\ o2 \in Seq(AnsR) /\ o3 \in Seq(AnsR)
      /\ o4 \in Seq(AnsR)
  BY <1>2, <1>3, <1>4, Tuples
<1> HIDE DEF none, o1, o2, o3, o4
<1>6. ASSUME NEW w \in [output : {none, o1, o2, o3, o4}, status : ResponsesStatus]
      PROVE  w.output \in Seq(AnsR) /\ w.status \in ResponsesStatus
  BY <1>5
<1>. QED
  BY <1>1, <1>6

(* Why generation ended, from the upstream's word o for it to the IR's r   *)
(* and to the client's e, beside calls (has) or none.                      *)
IRStops == {"end_turn", "max_tokens", "tool_use", "stop_sequence", "content_filter", "other"}

Heeded(p, r, o, has) ==
    /\ r \in IRStops /\ Cut(r) = Cut(o)
    /\ r = "tool_use" => has \/ o \in RunTools
    /\ p # "anthropic" /\ has /\ Cut(o) = "no" => r = "tool_use" \/ o \in NoReason

Told(q, e, o, has) ==
    /\ Cut(e) = Cut(o)
    /\ e \in RunTools => has \/ o \in RunTools
    /\ has /\ Cut(o) = "no" =>
          /\ q = "openai_responses" => e = "completed"
          /\ q = "openai_chat"      => e = "tool_calls"
          /\ q = "anthropic"        => e = "tool_use" \/ o \in NoReason

(* The three codecs read what the upstream says,                           *)
LEMMA StopsToIR ==
    /\ \A o \in AnthropicStops, has \in BOOLEAN : Heeded("anthropic", AnthropicStopToIR(o), o, has)
    /\ \A o \in ChatFinishes, has \in BOOLEAN : Heeded("openai_chat", ChatFinishToIR(o, has), o, has)
    /\ \A o \in ResponsesStatus, has \in BOOLEAN :
          Heeded("openai_responses", ResponsesStatusToIR(o, has), o, has)
<1>1. ASSUME NEW o \in AnthropicStops, NEW has \in BOOLEAN
      PROVE  Heeded("anthropic", AnthropicStopToIR(o), o, has)
  BY DEF Heeded, AnthropicStops, AnthropicStopToIR, IRStops, Cut, RunTools
<1>2. ASSUME NEW o \in ChatFinishes, NEW has \in BOOLEAN
      PROVE  Heeded("openai_chat", ChatFinishToIR(o, has), o, has)
  BY DEF Heeded, ChatFinishes, ChatFinishToIR, IRStops, Cut, RunTools, NoReason
<1>3. ASSUME NEW o \in ResponsesStatus, NEW has \in BOOLEAN
      PROVE  Heeded("openai_responses", ResponsesStatusToIR(o, has), o, has)
  BY DEF Heeded, ResponsesStatus, ResponsesStatusToIR, IRStops, Cut, RunTools, NoReason
<1>. QED
  BY <1>1, <1>2, <1>3

(* and the three say it to the client.                                     *)
LEMMA StopsFromIR ==
    ASSUME NEW p \in Protocols, NEW r, NEW o, NEW has \in BOOLEAN, Heeded(p, r, o, has)
    PROVE  /\ p # "anthropic" => Told("anthropic", AnthropicStopFromIR(r), o, has)
           /\ Told("openai_chat", ChatFinishFromIR(r, has), o, has)
           /\ Told("openai_responses", ResponsesStatusFromIR(r), o, has)
<1>1. p # "anthropic" => Told("anthropic", AnthropicStopFromIR(r), o, has)
  BY DEF Heeded, Told, AnthropicStopFromIR, IRStops, Cut, RunTools, NoReason
<1>2. Told("openai_chat", ChatFinishFromIR(r, has), o, has)
  BY DEF Heeded, Told, ChatFinishFromIR, IRStops, Cut, RunTools, NoReason
<1>3. Told("openai_responses", ResponsesStatusFromIR(r), o, has)
  BY DEF Heeded, Told, ResponsesStatusFromIR, IRStops, Cut, RunTools, NoReason
<1>. QED
  BY <1>1, <1>2, <1>3

(* Every answer of every upstream, in the IR: its content and its end.     *)
LEMMA AnswersToIR ==
    ASSUME NEW p \in Protocols, NEW t \in Nat, NEW w \in Answers(p, t)
    PROVE  LET r == ResponseToIR(p, w)
           IN  /\ IsAnswer(p, w)
               /\ r.content \in Seq(AssistantC) /\ Mapped(HearC, r.content) = InAnswer(p, w)
               /\ Heeded(p, r.stop, EndIn(p, w), OnlyTools(InAnswer(p, w)) # <<>>)
<1> DEFINE r   == ResponseToIR(p, w)
           has == OnlyTools(InAnswer(p, w)) # <<>>
<1>0. has \in BOOLEAN
  OBVIOUS
<1>1. CASE p = "anthropic"
  <2>1. w \in AnthropicAnswers(t) /\ r = AnthropicResponseToIR(w)
    BY <1>1 DEF Answers, ResponseToIR
  <2>2. w.content \in Seq(AssistantA) /\ w.stop_reason \in AnthropicStops
    BY <2>1, AAnswersAre
  <2>3. /\ r.content \in Seq(AssistantC) /\ r.stop = AnthropicStopToIR(w.stop_reason)
        /\ Mapped(HearC, r.content) = InAnswer("anthropic", w)
    BY <2>1, <2>2, AAnswerToIR
  <2>4. IsAnswer(p, w) /\ EndIn(p, w) = w.stop_reason
    BY <1>1, <2>2 DEF IsAnswer, EndIn
  <2> HIDE DEF r, has
  <2>5. Heeded(p, r.stop, EndIn(p, w), has)
    BY <1>0, <1>1, <2>2, <2>3, <2>4, StopsToIR
  <2>. QED
    BY <1>1, <2>3, <2>4, <2>5 DEF r, has
<1>2. CASE p = "openai_chat"
  <2> DEFINE some == w.tool_calls # <<>>
  <2>1. w \in ChatAnswers(t) /\ r = ChatResponseToIR(w)
    BY <1>2 DEF Answers, ResponseToIR
  <2>2. /\ w.content \in Texts /\ w.tool_calls \in Seq(CallU) /\ w.reasoning \in Texts
        /\ w.finish_reason \in ChatFinishes
    BY <2>1, UAnswersAre
  <2>3. /\ r.content \in Seq(AssistantC) /\ r.stop = ChatFinishToIR(w.finish_reason, some)
        /\ InAnswer("openai_chat", w) = Words(w.content) \o Each(HearCall, w.tool_calls)
        /\ Mapped(HearC, r.content) = InAnswer("openai_chat", w)
    BY <2>1, <2>2, UAnswerToIR
  <2>4. some = has
    <3>1. (OnlyTools(Words(w.content) \o Each(HearCall, w.tool_calls)) = <<>>) = (w.tool_calls = <<>>)
      BY <2>2, AnswersCall
    <3>. QED
      BY <1>2, <2>3, <3>1
  <2>5. IsAnswer(p, w) /\ EndIn(p, w) = w.finish_reason
    BY <1>2, <2>2 DEF IsAnswer, EndIn
  <2> HIDE DEF r, has, some
  <2>6. Heeded(p, r.stop, EndIn(p, w), has)
    BY <1>0, <1>2, <2>2, <2>3, <2>4, <2>5, StopsToIR
  <2>. QED
    BY <1>2, <2>3, <2>5, <2>6 DEF r, has
<1>3. CASE p = "openai_responses"
  <2> DEFINE some == HasKind("tool_use", r.content)
  <2>1. w \in ResponsesAnswers(t) /\ r = ResponsesResponseToIR(w)
    BY <1>3 DEF Answers, ResponseToIR
  <2>2. w.output \in Seq(AnsR) /\ w.status \in ResponsesStatus
    BY <2>1, RAnswersAre
  <2>3. /\ r.content \in Seq(AssistantC) /\ r.stop = ResponsesStatusToIR(w.status, some)
        /\ Mapped(HearC, r.content) = InAnswer("openai_responses", w)
    BY <2>1, <2>2, RAnswerToIR
  <2>4. some = has
    <3>1. some = (OfKinds({"tool_use"}, r.content) # <<>>)
      BY DEF HasKind, OfKind
    <3>2. (OnlyTools(Mapped(HearC, r.content)) = <<>>) = (OfKinds({"tool_use"}, r.content) = <<>>)
      BY <2>3, CallsInIR
    <3>. QED
      BY <1>3, <2>3, <3>1, <3>2
  <2>5. IsAnswer(p, w) /\ EndIn(p, w) = w.status
    BY <1>3, <2>2 DEF IsAnswer, EndIn
  <2> HIDE DEF r, has, some
  <2>6. Heeded(p, r.stop, EndIn(p, w), has)
    BY <1>0, <1>3, <2>2, <2>3, <2>4, <2>5, StopsToIR
  <2>. QED
    BY <1>3, <2>3, <2>5, <2>6 DEF r, has
<1>. QED
  BY <1>1, <1>2, <1>3 DEF Protocols

(* What the client finds in a translated answer.                           *)
LEMMA AnswerTranslated ==
    ASSUME NEW p \in Protocols, NEW q \in Protocols, p # q, NEW t \in Nat, NEW w \in Answers(p, t)
    PROVE  LET s == TranslateResponse(q, p, w)
           IN  /\ IsAnswer(q, s)
               /\ SameThings(InAnswer(q, s), InAnswer(p, w))
               /\ CallsIn(q, s) \in Seq(Nat)
               /\ Told(q, EndIn(q, s), EndIn(p, w), CallsIn(q, s) # <<>>)
<1> DEFINE r == ResponseToIR(p, w)
           s == ResponseFromIR(q, r)
           has == OnlyTools(InAnswer(p, w)) # <<>>
           o == EndIn(p, w)
<1>0. has \in BOOLEAN
  OBVIOUS
<1>1. /\ r.content \in Seq(AssistantC) /\ Mapped(HearC, r.content) = InAnswer(p, w)
      /\ Heeded(p, r.stop, o, has)
  BY AnswersToIR
<1>2. TranslateResponse(q, p, w) = s
  BY DEF TranslateResponse
<1>3. IsAnswer(q, s) /\ SameThings(InAnswer(q, s), InAnswer(p, w))
  <2> HIDE DEF r
  <2>. QED
    BY <1>1, AnswerFromIR
<1>4. CallsIn(q, s) = Each(IdF, OnlyTools(InAnswer(q, s)))
  BY <1>3, CallsInAnswer
<1>5. InAnswer(q, s) \in Seq(Things)
  BY <1>3, RememberedFacts
<1>6. OnlyTools(InAnswer(q, s)) = OnlyTools(InAnswer(p, w))
  BY <1>3 DEF SameThings
<1>7. CallsIn(q, s) \in Seq(Nat) /\ (CallsIn(q, s) # <<>>) = has
  <2>1. CallsIn(q, s) \in Seq(Nat) /\ (CallsIn(q, s) = <<>>) = ~has
    BY <1>4, <1>5, <1>6, IdFacts
  <2>. QED
    BY <2>1
<1>8. (OfKinds({"tool_use"}, r.content) # <<>>) = has
  <2> HIDE DEF r
  <2>1. (OnlyTools(Mapped(HearC, r.content)) = <<>>) = (OfKinds({"tool_use"}, r.content) = <<>>)
    BY <1>1, CallsInIR
  <2>. QED
    BY <1>1, <2>1
<1>9. CASE q = "anthropic"
  <2>1. EndIn(q, s) = AnthropicStopFromIR(r.stop)
    <3> HIDE DEF r
    <3>1. s.stop_reason = AnthropicStopFromIR(r.stop)
      BY <1>1, <1>9, AAnswerFromIR DEF ResponseFromIR
    <3>. QED
      BY <1>9, <3>1 DEF EndIn
  <2> HIDE DEF r, s, has, o
  <2>2. Told(q, EndIn(q, s), o, has)
    BY <1>0, <1>1, <1>9, <2>1, StopsFromIR
  <2>. QED
    BY <1>2, <1>3, <1>7, <2>2 DEF o
<1>10. CASE q = "openai_chat"
  <2>1. EndIn(q, s) = ChatFinishFromIR(r.stop, has)
    <3> DEFINE some == OfKinds({"tool_use"}, r.content) # <<>>
    <3>1. s.finish_reason = ChatFinishFromIR(r.stop, some)
      <4> HIDE DEF r
      <4>. QED
        BY <1>1, <1>10, UAnswerFromIR DEF ResponseFromIR
    <3>2. some = has
      BY <1>8
    <3> HIDE DEF r, s, has, some
    <3>. QED
      BY <1>10, <3>1, <3>2 DEF EndIn
  <2> HIDE DEF r, s, has, o
  <2>2. Told(q, EndIn(q, s), o, has)
    BY <1>0, <1>1, <1>10, <2>1, StopsFromIR
  <2>. QED
    BY <1>2, <1>3, <1>7, <2>2 DEF o
<1>11. CASE q = "openai_responses"
  <2>1. EndIn(q, s) = ResponsesStatusFromIR(r.stop)
    <3> HIDE DEF r
    <3>1. s.status = ResponsesStatusFromIR(r.stop)
      BY <1>1, <1>11, RAnswerFromIR DEF ResponseFromIR
    <3>. QED
      BY <1>11, <3>1 DEF EndIn
  <2> HIDE DEF r, s, has, o
  <2>2. Told(q, EndIn(q, s), o, has)
    BY <1>0, <1>1, <1>11, <2>1, StopsFromIR
  <2>. QED
    BY <1>2, <1>3, <1>7, <2>2 DEF o
<1>. QED
  BY <1>9, <1>10, <1>11 DEF Protocols

-----------------------------------------------------------------------------
(***************************************************************************)
(* The requests a client with the settings s composes.                     *)
(***************************************************************************)
Reqs(p, s) ==
    CASE p = "anthropic" ->
            [system : Seq(TextA), messages : Seq(AMessages),
             tools : {s.tools}, choice : {s.choice}, max : {s.max}, stream : {s.stream}]
      [] p = "openai_chat" ->
            [messages : Seq(ChatMs),
             tools : {s.tools}, choice : {s.choice}, max : {s.max}, stream : {s.stream}]
      [] p = "openai_responses" ->
            [instructions : Texts, input : Seq(RItems),
             tools : {s.tools}, choice : {s.choice}, max : {s.max}, stream : {s.stream},
             previous : BOOLEAN]

(* The parts of a request in its type,                                     *)
LEMMA RequestTyped ==
    ASSUME NEW p \in Protocols, NEW s, NEW w \in Reqs(p, s)
    PROVE  /\ History(p, w) \in Past(p)
           /\ p = "anthropic" => w.system \in Seq(TextA) /\ w.messages \in Seq(AMessages)
           /\ p = "openai_chat" => w.messages \in Seq(ChatMs)
           /\ p = "openai_responses" => /\ w.instructions \in Texts /\ w.input \in Seq(RItems)
                                        /\ w.previous \in BOOLEAN
           /\ w.tools = s.tools /\ w.choice = s.choice /\ w.max = s.max /\ w.stream = s.stream
<1> DEFINE A == Seq(TextA)
           B == Seq(AMessages)
           C == Seq(ChatMs)
           D == Seq(RItems)
<1>1. CASE p = "anthropic"
  <2>1. w \in [system : A, messages : B,
               tools : {s.tools}, choice : {s.choice}, max : {s.max}, stream : {s.stream}]
    BY <1>1 DEF Reqs
  <2>2. History(p, w) = w.messages /\ Past(p) = B
    BY <1>1 DEF History, Past
  <2> HIDE DEF A, B
  <2>3. /\ w.system \in A /\ w.messages \in B
        /\ w.tools = s.tools /\ w.choice = s.choice /\ w.max = s.max /\ w.stream = s.stream
    BY <2>1
  <2>. QED
    BY <1>1, <2>2, <2>3 DEF A, B
<1>2. CASE p = "openai_chat"
  <2>1. w \in [messages : C, tools : {s.tools}, choice : {s.choice}, max : {s.max}, stream : {s.stream}]
    BY <1>2 DEF Reqs
  <2>2. History(p, w) = w.messages /\ Past(p) = C
    BY <1>2 DEF History, Past
  <2> HIDE DEF C
  <2>3. /\ w.messages \in C
        /\ w.tools = s.tools /\ w.choice = s.choice /\ w.max = s.max /\ w.stream = s.stream
    BY <2>1
  <2>. QED
    BY <1>2, <2>2, <2>3 DEF C
<1>3. CASE p = "openai_responses"
  <2>1. w \in [instructions : Texts, input : D,
               tools : {s.tools}, choice : {s.choice}, max : {s.max}, stream : {s.stream},
               previous : BOOLEAN]
    BY <1>3 DEF Reqs
  <2>2. History(p, w) = w.input /\ Past(p) = D
    BY <1>3 DEF History, Past
  <2> HIDE DEF D
  <2>3. /\ w.instructions \in Texts /\ w.input \in D /\ w.previous \in BOOLEAN
        /\ w.tools = s.tools /\ w.choice = s.choice /\ w.max = s.max /\ w.stream = s.stream
    BY <2>1
  <2>. QED
    BY <1>3, <2>2, <2>3 DEF D
<1>. QED
  BY <1>1, <1>2, <1>3 DEF Protocols

(* with another history,                                                   *)
LEMMA HistoryReplaced ==
    ASSUME NEW p \in Protocols, NEW s, NEW w \in Reqs(p, s), NEW h \in Past(p)
    PROVE  LET v == WithHistory(p, w, h)
           IN  /\ v \in Reqs(p, s) /\ History(p, v) = h /\ InSystem(p, v) = InSystem(p, w)
               /\ p = "openai_responses" => v.previous = w.previous
<1> DEFINE A == Seq(TextA)
           B == Seq(AMessages)
           C == Seq(ChatMs)
           D == Seq(RItems)
           v == WithHistory(p, w, h)
<1>1. CASE p = "anthropic"
  <2> DEFINE R == [system : A, messages : B,
                   tools : {s.tools}, choice : {s.choice}, max : {s.max}, stream : {s.stream}]
  <2>1. w \in R /\ Reqs(p, s) = R
    BY <1>1 DEF Reqs
  <2>2. v = [w EXCEPT !.messages = h] /\ History(p, v) = v.messages /\ h \in B
    BY <1>1 DEF WithHistory, History, Past
  <2>3. InSystem(p, v) = FlatMap(InBlock, v.system) /\ InSystem(p, w) = FlatMap(InBlock, w.system)
    BY <1>1 DEF InSystem
  <2> HIDE DEF A, B, v
  <2>4. v \in R /\ v.messages = h /\ v.system = w.system
    BY <2>1, <2>2
  <2>. QED
    BY <1>1, <2>1, <2>2, <2>3, <2>4 DEF v
<1>2. CASE p = "openai_chat"
  <2> DEFINE R == [messages : C, tools : {s.tools}, choice : {s.choice}, max : {s.max}, stream : {s.stream}]
  <2>1. w \in R /\ Reqs(p, s) = R
    BY <1>2 DEF Reqs
  <2>2. v = [w EXCEPT !.messages = h] /\ History(p, v) = v.messages /\ h \in C
    BY <1>2 DEF WithHistory, History, Past
  <2>3. InSystem(p, v) = InSystem(p, w)
    BY <1>2 DEF InSystem
  <2> HIDE DEF C, v
  <2>4. v \in R /\ v.messages = h
    BY <2>1, <2>2
  <2>. QED
    BY <1>2, <2>1, <2>2, <2>3, <2>4 DEF v
<1>3. CASE p = "openai_responses"
  <2> DEFINE R == [instructions : Texts, input : D,
                   tools : {s.tools}, choice : {s.choice}, max : {s.max}, stream : {s.stream},
                   previous : BOOLEAN]
  <2>1. w \in R /\ Reqs(p, s) = R
    BY <1>3 DEF Reqs
  <2>2. v = [w EXCEPT !.input = h] /\ History(p, v) = v.input /\ h \in D
    BY <1>3 DEF WithHistory, History, Past
  <2>3. InSystem(p, v) = Words(v.instructions) /\ InSystem(p, w) = Words(w.instructions)
    BY <1>3 DEF InSystem
  <2> HIDE DEF D, v
  <2>4. v \in R /\ v.input = h /\ v.instructions = w.instructions /\ v.previous = w.previous
    BY <2>1, <2>2
  <2>. QED
    BY <1>3, <2>1, <2>2, <2>3, <2>4 DEF v
<1>. QED
  BY <1>1, <1>2, <1>3 DEF Protocols

(* and as one that continues a stored response.                            *)
LEMMA Continued ==
    ASSUME NEW s, NEW w \in Reqs("openai_responses", s)
    PROVE  LET v == [w EXCEPT !.previous = TRUE]
           IN  v \in Reqs("openai_responses", s) /\ v.previous
<1> DEFINE D == Seq(RItems)
           R == [instructions : Texts, input : D,
                 tools : {s.tools}, choice : {s.choice}, max : {s.max}, stream : {s.stream},
                 previous : BOOLEAN]
<1>1. w \in R /\ Reqs("openai_responses", s) = R
  BY DEF Reqs
<1> HIDE DEF D
<1>. QED
  BY <1>1

(* What is heard of a request is of its type.                              *)
LEMMA SystemHeard ==
    ASSUME NEW p \in Protocols, NEW s, NEW w \in Reqs(p, s)
    PROVE  InSystem(p, w) \in Seq(Things) /\ Heard(p, w) \in Seq(Things)
<1>1. CASE p = "anthropic"
  <2>1. w.system \in Seq(TextA)
    BY <1>1, RequestTyped
  <2>2. w.system \in Seq(ABlocks)
    BY <2>1, TypesFacts
  <2>3. InSystem(p, w) = Mapped(HearA, w.system)
    BY <1>1, <2>2, BlocksHeard DEF InSystem
  <2>4. InSystem(p, w) \in Seq(Things)
    BY <2>2, <2>3, HearAFacts, MappedFacts
  <2>. QED
    BY <2>4, RequestTyped, PastFacts, ConcatProperties DEF Heard
<1>2. CASE p = "openai_chat"
  <2>1. InSystem(p, w) = <<>> /\ <<>> \in Seq(Things)
    BY <1>2 DEF InSystem
  <2>. QED
    BY <2>1, RequestTyped, PastFacts, ConcatProperties DEF Heard
<1>3. CASE p = "openai_responses"
  <2>1. w.instructions \in Texts /\ InSystem(p, w) = Words(w.instructions)
    BY <1>3, RequestTyped DEF InSystem
  <2>2. InSystem(p, w) \in Seq(Things)
    BY <2>1, WordsFacts
  <2>. QED
    BY <2>2, RequestTyped, PastFacts, ConcatProperties DEF Heard
<1>. QED
  BY <1>1, <1>2, <1>3 DEF Protocols

(* More history: more is heard.                                            *)
LEMMA MoreIsHeard ==
    ASSUME NEW p \in Protocols, NEW s, NEW w \in Reqs(p, s), NEW k \in Past(p)
    PROVE  LET v == WithHistory(p, w, History(p, w) \o k)
           IN  v \in Reqs(p, s) /\ Heard(p, v) = Heard(p, w) \o InHistory(p, k)
<1> DEFINE h == History(p, w)
           v == WithHistory(p, w, h \o k)
<1>1. h \in Past(p)
  BY RequestTyped
<1>2. /\ h \o k \in Past(p) /\ InHistory(p, h) \in Seq(Things) /\ InHistory(p, k) \in Seq(Things)
      /\ InHistory(p, h \o k) = InHistory(p, h) \o InHistory(p, k)
  BY <1>1, PastFacts
<1>3. v \in Reqs(p, s) /\ History(p, v) = h \o k /\ InSystem(p, v) = InSystem(p, w)
  BY <1>2, HistoryReplaced
<1>4. InSystem(p, w) \in Seq(Things)
  BY SystemHeard
<1> DEFINE a == InSystem(p, w)
           b == InHistory(p, h)
           c == InHistory(p, k)
<1>5. a \in Seq(Things) /\ b \in Seq(Things) /\ c \in Seq(Things)
  BY <1>2, <1>4
<1>6. Heard(p, v) = a \o (b \o c) /\ Heard(p, w) = a \o b
  BY <1>2, <1>3 DEF Heard
<1> HIDE DEF a, b, c
<1>7. a \o (b \o c) = (a \o b) \o c
  BY <1>5, ConcatAssociative
<1>. QED
  BY <1>3, <1>6, <1>7 DEF c

-----------------------------------------------------------------------------
(***************************************************************************)
(* What is translated is heard.                                            *)
(***************************************************************************)

(* What the client's request says, the IR says.                            *)
LEMMA RequestsToIR ==
    ASSUME NEW q \in Protocols, NEW s, NEW w \in Reqs(q, s)
    PROVE  LET r == RequestToIR(q, w)
           IN  r.system \in Seq(TextC) /\ r.messages \in Seq(IRMessages) /\ HeardIR(r) = Heard(q, w)
<1> DEFINE r == RequestToIR(q, w)
<1>1. CASE q = "anthropic"
  <2>1. r = AnthropicRequestToIR(w) /\ w.messages \in Seq(AMessages) /\ w.system \in Seq(TextA)
    BY <1>1, RequestTyped DEF RequestToIR
  <2>2. w.messages \in Seq(AnyA)
    BY <2>1, TypesFacts, SeqOfMore
  <2>3. /\ r.messages = Each(AMToIR, w.messages) /\ r.system \in Seq(TextC)
        /\ HeardIR(r) = Heard("anthropic", w)
    <3>1. LET x == AnthropicRequestToIR(w)
          IN  /\ x.messages = Each(AMToIR, w.messages) /\ x.system \in Seq(TextC)
              /\ HeardIR(x) = Heard("anthropic", w)
      BY <2>1, <2>2, AToIRRequest
    <3> HIDE DEF r
    <3>. QED
      BY <2>1, <3>1
  <2>4. Each(AMToIR, w.messages) \in Seq(IRMessages)
    BY <2>1, <2>2, AMessagesToIR
  <2>. QED
    BY <1>1, <2>3, <2>4
<1>2. CASE q = "openai_chat"
  <2>1. r = ChatRequestToIR(w) /\ w.messages \in Seq(ChatMs)
    BY <1>2, RequestTyped DEF RequestToIR
  <2> HIDE DEF r
  <2>. QED
    BY <1>2, <2>1, UToIRRequest DEF r
<1>3. CASE q = "openai_responses"
  <2>1. r = ResponsesRequestToIR(w) /\ w.input \in Seq(RItems) /\ w.instructions \in Texts
    BY <1>3, RequestTyped DEF RequestToIR
  <2> HIDE DEF r
  <2>. QED
    BY <1>3, <2>1, RToIRRequest DEF r
<1>. QED
  BY <1>1, <1>2, <1>3 DEF Protocols

(* And what the IR says is heard by every upstream.                        *)
LEMMA RequestsFromIR ==
    ASSUME NEW p \in Protocols, NEW r, r.system \in Seq(TextC), r.messages \in Seq(IRMessages)
    PROVE  SameThings(Heard(p, RequestFromIR(p, r)), HeardIR(r))
<1>1. CASE p = "anthropic"
  BY <1>1, AFromIRRequest, SameFacts DEF RequestFromIR
<1>2. CASE p = "openai_chat"
  BY <1>2, UFromIRRequest DEF RequestFromIR
<1>3. CASE p = "openai_responses"
  BY <1>3, RFromIRRequest DEF RequestFromIR
<1>. QED
  BY <1>1, <1>2, <1>3 DEF Protocols

(* Translator.Request: the upstream hears what the client sent.            *)
LEMMA RequestTranslated ==
    ASSUME NEW p \in Protocols, NEW q \in Protocols, NEW s, NEW w \in Reqs(q, s)
    PROVE  SameThings(Heard(p, TranslateRequest(q, p, w)), Heard(q, w))
<1> DEFINE r == RequestToIR(q, w)
<1>1. r.system \in Seq(TextC) /\ r.messages \in Seq(IRMessages) /\ HeardIR(r) = Heard(q, w)
  BY RequestsToIR
<1>2. TranslateRequest(q, p, w) = RequestFromIR(p, r)
  BY DEF TranslateRequest
<1> HIDE DEF r
<1>3. SameThings(Heard(p, RequestFromIR(p, r)), HeardIR(r))
  BY <1>1, RequestsFromIR
<1>. QED
  BY <1>1, <1>2, <1>3

-----------------------------------------------------------------------------
(***************************************************************************)
(* What the client writes itself.                                          *)
(***************************************************************************)

(* Messages of one block or of several, in each protocol.                  *)
LEMMA OneMessage ==
    /\ \A c \in Seq(TextA) : /\ <<Message("system", c)>> \in Seq(AMessages)
                             /\ <<ChatMsg("system", c)>> \in Seq(ChatMs)
                             /\ ChatMsg("system", c) \in ChatMs /\ ChatMsg("developer", c) \in ChatMs
    /\ \A c \in Seq(UserA) : <<Message("user", c)>> \in Seq(AMessages)
    /\ \A c \in Seq(PartU) : <<ChatMsg("user", c)>> \in Seq(ChatMs)
    /\ \A c \in Seq(TextR) : MessageItem("developer", c) \in RItems
    /\ \A c \in Seq(TextR \cup ImageR) : MessageItem("user", c) \in RItems
<1>1. ASSUME NEW c \in Seq(TextA)
      PROVE  /\ <<Message("system", c)>> \in Seq(AMessages)
             /\ <<ChatMsg("system", c)>> \in Seq(ChatMs)
             /\ ChatMsg("system", c) \in ChatMs /\ ChatMsg("developer", c) \in ChatMs
  <2> DEFINE S == Seq(TextA)
             m == Message("system", c)
  <2>1. [role : {"system"}, content : S] \subseteq AMessages /\ c \in S
    BY DEF AMessages
  <2> HIDE DEF S
  <2>2. m \in AMessages
    BY <2>1 DEF Message
  <2>3. c \in Seq(PartU)
    BY ChatTypes
  <2> DEFINE sys == "system"
             dev == "developer"
  <2>4. sys \in Roles /\ dev \in Roles
    BY DEF Roles
  <2> HIDE DEF sys, dev, m
  <2>5. ChatMsg(sys, c) \in ChatMs /\ ChatMsg(dev, c) \in ChatMs
    BY <2>3, <2>4, ChatMsgFacts
  <2>. QED
    BY <2>2, <2>5, OneThing DEF sys, dev, m
<1>2. ASSUME NEW c \in Seq(UserA) PROVE <<Message("user", c)>> \in Seq(AMessages)
  <2> DEFINE S == Seq(UserA)
             m == Message("user", c)
  <2>1. [role : {"user"}, content : S] \subseteq AMessages /\ c \in S
    BY DEF AMessages
  <2> HIDE DEF S
  <2>2. m \in AMessages
    BY <2>1 DEF Message
  <2> HIDE DEF m
  <2>. QED
    BY <2>2, OneThing DEF m
<1>3. ASSUME NEW c \in Seq(PartU) PROVE <<ChatMsg("user", c)>> \in Seq(ChatMs)
  <2> DEFINE u == "user"
             m == ChatMsg(u, c)
  <2>1. u \in Roles /\ ~(u # "user")
    BY DEF Roles
  <2>2. m \in ChatMs
    BY <2>1, ChatMsgFacts
  <2> HIDE DEF m
  <2>. QED
    BY <2>2, OneThing DEF m
<1>4. ASSUME NEW c \in Seq(TextR) PROVE MessageItem("developer", c) \in RItems
  BY MessageItemFacts DEF RItems
<1>5. ASSUME NEW c \in Seq(TextR \cup ImageR) PROVE MessageItem("user", c) \in RItems
  BY MessageItemFacts DEF RItems
<1>. QED
  BY <1>1, <1>2, <1>3, <1>4, <1>5

(* A client's texts,                                                       *)
LEMMA TextBlocks ==
    \A n \in Nat :
       /\ <<n>> \in Texts
       /\ [type |-> "text", text |-> <<n>>] \in TextA
       /\ [type |-> "input_text", text |-> <<n>>] \in TextR
       /\ AsString(<<n>>) \in Seq(TextA) /\ AsString(<<n>>) \in Seq(PartU)
       /\ <<[type |-> "text", text |-> <<n>>]>> \in Seq(TextA)
       /\ <<[type |-> "text", text |-> <<n>>]>> \in Seq(UserA)
       /\ <<[type |-> "input_text", text |-> <<n>>]>> \in Seq(TextR)
       /\ <<[type |-> "input_text", text |-> <<n>>]>> \in Seq(TextR \cup ImageR)
<1> TAKE n \in Nat
<1> DEFINE a == [type |-> "text", text |-> <<n>>]
           b == [type |-> "input_text", text |-> <<n>>]
<1>1. <<n>> \in Texts
  BY OneThing DEF Texts
<1>2. a \in TextA /\ b \in TextR
  BY <1>1 DEF TextA, TextR
<1>3. a \in UserA /\ b \in TextR \cup ImageR
  BY <1>2 DEF UserA
<1> HIDE DEF a, b
<1>4. <<a>> \in Seq(TextA) /\ <<a>> \in Seq(UserA) /\ <<b>> \in Seq(TextR) /\ <<b>> \in Seq(TextR \cup ImageR)
  BY <1>2, <1>3, OneThing
<1>5. AsString(<<n>>) \in Seq(TextA) /\ AsString(<<n>>) \in Seq(PartU)
  BY <1>1, StringFacts
<1>. QED
  BY <1>1, <1>2, <1>4, <1>5 DEF a, b

(* words for the system,                                                   *)
LEMMA SystemSaysFacts ==
    \A p \in Protocols, n \in Nat : SystemSays(p, n) \in Past(p)
<1> TAKE p \in Protocols, n \in Nat
<1>1. CASE p = "anthropic"
  <2> DEFINE c == <<[type |-> "text", text |-> <<n>>]>>
  <2>1. c \in Seq(TextA)
    BY TextBlocks
  <2>2. SystemSays(p, n) = <<Message("system", c)>> /\ Past(p) = Seq(AMessages)
    BY <1>1 DEF SystemSays, Past
  <2> HIDE DEF c
  <2>. QED
    BY <2>1, <2>2, OneMessage
<1>2. CASE p = "openai_chat"
  <2> DEFINE c == AsString(<<n>>)
  <2>1. c \in Seq(TextA)
    BY TextBlocks
  <2>2. SystemSays(p, n) = <<ChatMsg("system", c)>> /\ Past(p) = Seq(ChatMs)
    BY <1>2 DEF SystemSays, Past
  <2> HIDE DEF c
  <2>. QED
    BY <2>1, <2>2, OneMessage
<1>3. CASE p = "openai_responses"
  <2> DEFINE c == <<[type |-> "input_text", text |-> <<n>>]>>
             m == MessageItem("developer", c)
  <2>1. c \in Seq(TextR)
    BY TextBlocks
  <2>2. SystemSays(p, n) = <<m>> /\ Past(p) = Seq(RItems)
    BY <1>3 DEF SystemSays, Past
  <2> HIDE DEF c
  <2>3. m \in RItems
    BY <2>1, OneMessage
  <2> HIDE DEF m
  <2>. QED
    BY <2>2, <2>3, OneThing
<1>. QED
  BY <1>1, <1>2, <1>3 DEF Protocols

OneUser == {<<>>} \cup {<<Message("user", c)>> : c \in Seq(UserA)}

(* the user's words                                                        *)
LEMMA UserSaysFacts ==
    \A p \in Protocols, n \in Nat, picture \in BOOLEAN :
       UserSays(p, n, picture) \in Past(p) /\ (p = "anthropic" => UserSays(p, n, picture) \in OneUser)
<1> TAKE p \in Protocols, n \in Nat, picture \in BOOLEAN
<1>1. CASE p = "anthropic"
  <2> DEFINE i == [type |-> "image"]
             a == IF picture THEN <<i>> ELSE <<>>
             b == <<[type |-> "text", text |-> <<n>>]>>
             c == a \o b
  <2>1. b \in Seq(UserA)
    BY TextBlocks
  <2>2. i \in UserA
    BY DEF UserA, ImageA
  <2>3. UserSays(p, n, picture) = <<Message("user", c)>> /\ Past(p) = Seq(AMessages)
    BY <1>1 DEF UserSays, Past
  <2> HIDE DEF i
  <2>4. a \in Seq(UserA)
    BY <2>2, OneThing
  <2> HIDE DEF a, b
  <2>5. c \in Seq(UserA)
    BY <2>1, <2>4, ConcatProperties
  <2> HIDE DEF c
  <2>. QED
    BY <2>3, <2>5, OneMessage DEF OneUser
<1>2. CASE p = "openai_chat"
  <2> DEFINE i == [type |-> "image_url"]
             a == IF picture THEN <<i>> ELSE <<>>
             b == AsString(<<n>>)
             c == a \o b
  <2>1. b \in Seq(PartU)
    BY TextBlocks
  <2>2. i \in PartU
    BY DEF PartU, ImageU
  <2>3. UserSays(p, n, picture) = <<ChatMsg("user", c)>> /\ Past(p) = Seq(ChatMs)
    BY <1>2 DEF UserSays, Past
  <2> HIDE DEF i
  <2>4. a \in Seq(PartU)
    BY <2>2, OneThing
  <2> HIDE DEF a, b
  <2>5. c \in Seq(PartU)
    BY <2>1, <2>4, ConcatProperties
  <2> HIDE DEF c
  <2>. QED
    BY <1>2, <2>3, <2>5, OneMessage
<1>3. CASE p = "openai_responses"
  <2> DEFINE S == TextR \cup ImageR
             i == [type |-> "input_image"]
             a == IF picture THEN <<i>> ELSE <<>>
             b == <<[type |-> "input_text", text |-> <<n>>]>>
             c == a \o b
             m == MessageItem("user", c)
  <2>1. b \in Seq(S)
    BY TextBlocks
  <2>2. i \in S
    BY DEF ImageR
  <2>3. UserSays(p, n, picture) = <<m>> /\ Past(p) = Seq(RItems)
    BY <1>3 DEF UserSays, Past
  <2>4. a \in Seq(S)
    <3> HIDE DEF i, S
    <3>. QED
      BY <2>2, OneThing
  <2>5. c \in Seq(S)
    <3> HIDE DEF a, b, S
    <3>. QED
      BY <2>1, <2>4, ConcatProperties
  <2>6. m \in RItems
    <3> HIDE DEF c
    <3>. QED
      BY <2>5, OneMessage
  <2> HIDE DEF m
  <2>. QED
    BY <1>3, <2>3, <2>6, OneThing
<1>. QED
  BY <1>1, <1>2, <1>3 DEF Protocols

ResultBlock(bad) == [id \in Nat |-> [type |-> "tool_result", id |-> id, is_error |-> id \in bad,
                                     content |-> [json |-> id \notin bad, text |-> <<>>]]]
ResultText(bad)  == [id \in Nat |-> ToolMsg(id, AsString(IF id \in bad THEN <<ErrorWord>> ELSE <<>>))]
ResultOut(bad)   == [id \in Nat |-> OutputItem(id, [json |-> FALSE, text |-> IF id \in bad THEN <<ErrorWord>>
                                                                            ELSE <<>>])]

(* and results, in its protocol's own form,                                *)
LEMMA ResultsFacts ==
    \A p \in Protocols : \A ids \in Seq(Nat) : \A bad :
       Results(p, ids, bad) \in Past(p) /\ (p = "anthropic" => Results(p, ids, bad) \in OneUser)
<1> TAKE p \in Protocols
<1> TAKE ids \in Seq(Nat)
<1> TAKE bad
<1>0. \A i \in DOMAIN ids : ids[i] \in Nat
  BY ElementOfSeq, LenProperties
<1>1. CASE p = "anthropic"
  <2> DEFINE f == ResultBlock(bad)
             c == Each(f, ids)
  <2>1. \A id \in Nat : f[id] = [type |-> "tool_result", id |-> id, is_error |-> id \in bad,
                                 content |-> [json |-> id \notin bad, text |-> <<>>]]
    BY DEF ResultBlock
  <2>2. ASSUME NEW id \in Nat PROVE f[id] \in UserA
    <3> DEFINE o == [json |-> id \notin bad, text |-> <<>>]
               e == id \in bad
    <3>1. <<>> \in Texts
      BY DEF Texts
    <3> DEFINE j == id \notin bad
    <3>10. j \in BOOLEAN /\ e \in BOOLEAN /\ (e => ~j)
      OBVIOUS
    <3>11. o = [json |-> j, text |-> <<>>]
      OBVIOUS
    <3>2. o \in Outs /\ e \in BOOLEAN /\ (e => ~o.json)
      <4> HIDE DEF o, e, j
      <4>. QED
        BY <3>1, <3>10, <3>11 DEF Outs
    <3>3. f[id] = [type |-> "tool_result", id |-> id, is_error |-> e, content |-> o]
      BY <2>1
    <3> HIDE DEF o, e, f
    <3>. QED
      BY <3>2, <3>3 DEF UserA, ResultA
  <2>3. Results(p, ids, bad)
        = <<Message("user", [i \in DOMAIN ids |-> [type |-> "tool_result", id |-> ids[i], is_error |-> ids[i] \in bad,
                                                   content |-> [json |-> ids[i] \notin bad, text |-> <<>>]]])>>
    BY <1>1 DEF Results, MapSeq
  <2> HIDE DEF f
  <2>4. [i \in DOMAIN ids |-> [type |-> "tool_result", id |-> ids[i], is_error |-> ids[i] \in bad,
                               content |-> [json |-> ids[i] \notin bad, text |-> <<>>]]]
        = [i \in DOMAIN ids |-> f[ids[i]]]
    BY <1>0, <2>1
  <2>5. Results(p, ids, bad) = <<Message("user", c)>>
    BY <2>3, <2>4 DEF Each
  <2>6. IsFcn(f, Nat, UserA)
    BY <2>2 DEF IsFcn
  <2>7. c \in Seq(UserA)
    BY <2>6, EachFacts
  <2> HIDE DEF c
  <2>8. Past(p) = Seq(AMessages)
    BY <1>1 DEF Past
  <2>. QED
    BY <2>5, <2>7, <2>8, OneMessage DEF OneUser
<1>2. CASE p = "openai_chat"
  <2> DEFINE f == ResultText(bad)
             c == Each(f, ids)
  <2>1. \A id \in Nat : f[id] = ToolMsg(id, AsString(IF id \in bad THEN <<ErrorWord>> ELSE <<>>))
    BY DEF ResultText
  <2>2. ASSUME NEW id \in Nat PROVE f[id] \in ChatMs
    <3> DEFINE t == IF id \in bad THEN <<ErrorWord>> ELSE <<>>
    <3>1. t \in Texts
      BY DEF Texts, ErrorWord
    <3>2. f[id] = ToolMsg(id, AsString(t))
      BY <2>1
    <3> HIDE DEF t, f
    <3>3. AsString(t) \in Seq(TextA)
      BY <3>1, StringFacts
    <3>. QED
      BY <3>2, <3>3, ChatMsgFacts
  <2>3. Results(p, ids, bad)
        = [i \in DOMAIN ids |-> ToolMsg(ids[i], AsString(IF ids[i] \in bad THEN <<ErrorWord>> ELSE <<>>))]
    BY <1>2 DEF Results, MapSeq
  <2> HIDE DEF f
  <2>4. [i \in DOMAIN ids |-> ToolMsg(ids[i], AsString(IF ids[i] \in bad THEN <<ErrorWord>> ELSE <<>>))]
        = [i \in DOMAIN ids |-> f[ids[i]]]
    BY <1>0, <2>1
  <2>5. Results(p, ids, bad) = c
    BY <2>3, <2>4 DEF Each
  <2>6. IsFcn(f, Nat, ChatMs)
    BY <2>2 DEF IsFcn
  <2>7. c \in Seq(ChatMs) /\ Past(p) = Seq(ChatMs)
    BY <1>2, <2>6, EachFacts DEF Past
  <2> HIDE DEF c
  <2>. QED
    BY <1>2, <2>5, <2>7
<1>3. CASE p = "openai_responses"
  <2> DEFINE f == ResultOut(bad)
             c == Each(f, ids)
  <2>1. \A id \in Nat : f[id] = OutputItem(id, [json |-> FALSE, text |-> IF id \in bad THEN <<ErrorWord>> ELSE <<>>])
    BY DEF ResultOut
  <2>2. ASSUME NEW id \in Nat PROVE f[id] \in RItems
    <3> DEFINE t == IF id \in bad THEN <<ErrorWord>> ELSE <<>>
               o == [json |-> FALSE, text |-> t]
    <3>1. t \in Texts
      BY DEF Texts, ErrorWord
    <3>2. f[id] = OutputItem(id, o)
      BY <2>1
    <3> HIDE DEF t, f
    <3>3. o \in Outs
      BY <3>1 DEF Outs
    <3> HIDE DEF o
    <3>. QED
      BY <3>2, <3>3, ItemsAre
  <2>3. Results(p, ids, bad)
        = [i \in DOMAIN ids |-> OutputItem(ids[i], [json |-> FALSE, text |-> IF ids[i] \in bad THEN <<ErrorWord>> ELSE <<>>])]
    BY <1>3 DEF Results, MapSeq
  <2> HIDE DEF f
  <2>4. [i \in DOMAIN ids |-> OutputItem(ids[i], [json |-> FALSE, text |-> IF ids[i] \in bad THEN <<ErrorWord>> ELSE <<>>])]
        = [i \in DOMAIN ids |-> f[ids[i]]]
    BY <1>0, <2>1
  <2>5. Results(p, ids, bad) = c
    BY <2>3, <2>4 DEF Each
  <2>6. IsFcn(f, Nat, RItems)
    BY <2>2 DEF IsFcn
  <2>7. c \in Seq(RItems) /\ Past(p) = Seq(RItems)
    BY <1>3, <2>6, EachFacts DEF Past
  <2> HIDE DEF c
  <2>. QED
    BY <1>3, <2>5, <2>7
<1>. QED
  BY <1>1, <1>2, <1>3 DEF Protocols

(* are histories in that protocol.                                         *)
LEMMA TogetherFacts ==
    \A p \in Protocols : \A a, b \in Past(p) :
       (p = "anthropic" => a \in OneUser /\ b \in OneUser) => Together(p, a, b) \in Past(p)
<1> TAKE p \in Protocols
<1> TAKE a \in Past(p), b \in Past(p)
<1> SUFFICES ASSUME p = "anthropic" => a \in OneUser /\ b \in OneUser
             PROVE  Together(p, a, b) \in Past(p)
  OBVIOUS
<1>1. CASE p = "anthropic" /\ a # <<>> /\ b # <<>>
  <2>1. PICK c \in Seq(UserA) : a = <<Message("user", c)>>
    BY <1>1 DEF OneUser
  <2>2. PICK d \in Seq(UserA) : b = <<Message("user", d)>>
    BY <1>1 DEF OneUser
  <2>3. a[1].content = c /\ b[1].content = d
    BY <2>1, <2>2 DEF Message
  <2>4. Together(p, a, b) = <<Message("user", c \o d)>>
    BY <1>1, <2>3 DEF Together
  <2> DEFINE e == c \o d
  <2>5. e \in Seq(UserA)
    BY ConcatProperties
  <2> HIDE DEF e
  <2>6. <<Message("user", e)>> \in Seq(AMessages)
    BY <2>5, OneMessage
  <2>. QED
    BY <1>1, <2>4, <2>6, PastFacts DEF e
<1>2. CASE ~(p = "anthropic" /\ a # <<>> /\ b # <<>>)
  <2>1. Together(p, a, b) = a \o b
    BY <1>2 DEF Together
  <2>. QED
    BY <2>1, PastFacts
<1>. QED
  BY <1>1, <1>2

(* A request made of parts of the right types.                             *)
LEMMA RequestBuilt ==
    /\ \A s : \A a \in Seq(TextA), b \in Seq(AMessages) :
          [system |-> a, messages |-> b, tools |-> s.tools, choice |-> s.choice, max |-> s.max,
           stream |-> s.stream] \in Reqs("anthropic", s)
    /\ \A s : \A a \in Seq(ChatMs) :
          [messages |-> a, tools |-> s.tools, choice |-> s.choice, max |-> s.max,
           stream |-> s.stream] \in Reqs("openai_chat", s)
    /\ \A s : \A a \in Texts, b \in Seq(RItems), c \in BOOLEAN :
          [instructions |-> a, input |-> b, tools |-> s.tools, choice |-> s.choice, max |-> s.max,
           stream |-> s.stream, previous |-> c] \in Reqs("openai_responses", s)
<1> DEFINE A == Seq(TextA)
           B == Seq(AMessages)
           C == Seq(ChatMs)
           D == Seq(RItems)
<1>1. \A s : \A a \in A, b \in B :
         [system |-> a, messages |-> b, tools |-> s.tools, choice |-> s.choice, max |-> s.max,
          stream |-> s.stream] \in Reqs("anthropic", s)
  <2>1. \A s : Reqs("anthropic", s) = [system : A, messages : B,
             tools : {s.tools}, choice : {s.choice}, max : {s.max}, stream : {s.stream}]
    BY DEF Reqs
  <2> HIDE DEF A, B
  <2>. QED
    BY <2>1
<1>2. \A s : \A a \in C :
         [messages |-> a, tools |-> s.tools, choice |-> s.choice, max |-> s.max,
          stream |-> s.stream] \in Reqs("openai_chat", s)
  <2>1. \A s : Reqs("openai_chat", s) = [messages : C,
             tools : {s.tools}, choice : {s.choice}, max : {s.max}, stream : {s.stream}]
    BY DEF Reqs
  <2> HIDE DEF C
  <2>. QED
    BY <2>1
<1>3. \A s : \A a \in Texts, b \in D, c \in BOOLEAN :
         [instructions |-> a, input |-> b, tools |-> s.tools, choice |-> s.choice, max |-> s.max,
          stream |-> s.stream, previous |-> c] \in Reqs("openai_responses", s)
  <2>1. \A s : Reqs("openai_responses", s) = [instructions : Texts, input : D,
             tools : {s.tools}, choice : {s.choice}, max : {s.max}, stream : {s.stream},
             previous : BOOLEAN]
    BY DEF Reqs
  <2> HIDE DEF D
  <2>. QED
    BY <2>1
<1>. QED
  BY <1>1, <1>2, <1>3

(* The first request is well formed, in every protocol.                    *)
LEMMA FirstFacts ==
    \A p \in Protocols : \A s : FirstRequest(p, s) \in Reqs(p, s)
<1> TAKE p \in Protocols
<1> TAKE s
<1>0. 1 \in Nat /\ 2 \in Nat /\ 3 \in Nat
  OBVIOUS
<1>1. CASE p = "anthropic"
  <2> DEFINE x == [type |-> "text", text |-> <<1>>]
             y == [type |-> "text", text |-> <<2>>]
             c == <<[type |-> "text", text |-> <<3>>]>>
             a == <<x, y>>
             b == <<Message("user", c)>>
  <2>1. x \in TextA /\ y \in TextA /\ c \in Seq(UserA)
    BY <1>0, TextBlocks
  <2>2. FirstRequest(p, s) = [system |-> a, messages |-> b, tools |-> s.tools, choice |-> s.choice,
                              max |-> s.max, stream |-> s.stream]
    BY <1>1 DEF FirstRequest
  <2> HIDE DEF x, y, c
  <2>3. a \in Seq(TextA) /\ b \in Seq(AMessages)
    BY <2>1, OneMessage, Tuples
  <2> HIDE DEF a, b
  <2>. QED
    BY <1>1, <2>2, <2>3, RequestBuilt
<1>2. CASE p = "openai_chat"
  <2> DEFINE x == ChatMsg("system", AsString(<<1>>))
             y == ChatMsg("developer", AsString(<<2>>))
             z == ChatMsg("user", AsString(<<3>>))
             a == <<x, y, z>>
  <2>1. x \in ChatMs /\ y \in ChatMs
    BY <1>0, TextBlocks, OneMessage
  <2>2. z \in ChatMs
    <3> DEFINE u == "user"
    <3>1. u \in Roles /\ ~(u # "user") /\ AsString(<<3>>) \in Seq(PartU)
      BY <1>0, TextBlocks DEF Roles
    <3>. QED
      BY <3>1, ChatMsgFacts
  <2>3. FirstRequest(p, s) = [messages |-> a, tools |-> s.tools, choice |-> s.choice,
                              max |-> s.max, stream |-> s.stream]
    BY <1>2 DEF FirstRequest
  <2> HIDE DEF x, y, z
  <2>4. a \in Seq(ChatMs)
    BY <2>1, <2>2, Tuples
  <2> HIDE DEF a
  <2>. QED
    BY <1>2, <2>3, <2>4, RequestBuilt
<1>3. CASE p = "openai_responses"
  <2> DEFINE c == <<[type |-> "input_text", text |-> <<2>>]>>
             d == <<[type |-> "input_text", text |-> <<3>>]>>
             x == MessageItem("developer", c)
             y == MessageItem("user", d)
             a == <<1>>
             b == <<x, y>>
             n == FALSE
  <2>1. c \in Seq(TextR) /\ d \in Seq(TextR \cup ImageR) /\ a \in Texts /\ n \in BOOLEAN
    BY <1>0, TextBlocks
  <2>2. FirstRequest(p, s) = [instructions |-> a, input |-> b, tools |-> s.tools, choice |-> s.choice,
                              max |-> s.max, stream |-> s.stream, previous |-> n]
    BY <1>3 DEF FirstRequest
  <2> HIDE DEF c, d
  <2>3. x \in RItems /\ y \in RItems
    BY <2>1, OneMessage
  <2> HIDE DEF x, y
  <2>4. b \in Seq(RItems)
    BY <2>3, Tuples
  <2> HIDE DEF a, b, n
  <2>. QED
    BY <1>3, <2>1, <2>2, <2>4, RequestBuilt
<1>. QED
  BY <1>1, <1>2, <1>3 DEF Protocols
=============================================================================
