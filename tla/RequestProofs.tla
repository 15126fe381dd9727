---- MODULE RequestProofs ----
(***************************************************************************)
(* Proofs about what goes into an LLM request, over every input:           *)
(*                                                                         *)
(*  - what BuildContextMessages (ContextBuilder) keeps of each turn, for   *)
(*    any stored messages, any history rows and any context mode.  The     *)
(*    sequences are built with FlattenSeq; its recursion is reasoned about *)
(*    by induction over prefixes, on sets of natural numbers;              *)
(*  - that what it builds is a dialogue whenever the messages it shows in  *)
(*    full are one, and that a dialogue, whatever is said in it, becomes a *)
(*    request that both kinds of API accept: the calls a response makes    *)
(*    are owed until their results have come, one by one, and the entries  *)
(*    that Merge folds are followed along the calls that are owed;         *)
(*  - for which models of a registry (LlmRequest), whatever their numbers, *)
(*    the options the clients compute are accepted.  TLC evaluates         *)
(*    EveryModelServed for the models there are today.                     *)
(***************************************************************************)
EXTENDS ContextBuilder, LlmRequest, FiniteSetTheorems, SequenceTheorems, TLAPS

----
\* Induction, and concatenations.

\* Every nonempty set of natural numbers has a least element.
LEMMA Least ==
    ASSUME NEW T \in SUBSET Nat, T # {}
    PROVE  \E m \in T : \A k \in T : m <= k
<1> DEFINE R == {ss \in Nat \X Nat : ss[1] < ss[2]}
<1>1. IsWellFoundedOn(R, Nat)
  BY NatLessThanWellFounded DEF OpToRel
<1>2. PICK m \in T : \A k \in T : ~(<<k, m>> \in R)
  <2> HIDE DEF R
  <2> QED
    BY <1>1, WFMin
<1>3. \A k \in T : m <= k
  <2> TAKE k \in T
  <2>1. k \in Nat /\ m \in Nat /\ ~(<<k, m>> \in R)
    BY <1>2
  <2>2. ~(k < m)
    BY <2>1
  <2> QED
    BY <2>1, <2>2
<1> QED
  BY <1>2, <1>3

\* Induction up to n, for a set in the place of a predicate.
LEMMA Induct ==
    ASSUME NEW n \in Nat, NEW T, 0 \in T, \A i \in 0 .. n - 1 : i \in T => i + 1 \in T
    PROVE  \A i \in 0 .. n : i \in T
<1> DEFINE U == {i \in 0 .. n : i \notin T}
<1> SUFFICES ASSUME U # {} PROVE FALSE
  OBVIOUS
<1>1. U \in SUBSET Nat
  OBVIOUS
<1>2. PICK m \in U : \A k \in U : m <= k
  <2> HIDE DEF U
  <2> QED
    BY <1>1, Least
<1>3. m \in 0 .. n /\ m \notin T /\ m # 0
  BY <1>2
<1>4. m - 1 \in 0 .. n - 1 /\ m - 1 \notin U
  BY <1>2, <1>3
<1>5. m - 1 \in T
  BY <1>4
<1>6. (m - 1) + 1 \in T
  BY <1>4, <1>5
<1> QED
  BY <1>3, <1>6

\* h[i] is the concatenation of the first i elements of s.
RunningConcat(h, s) ==
    /\ DOMAIN h = 0 .. Len(s)
    /\ h[0] = <<>>
    /\ \A i \in 1 .. Len(s) : h[i] = h[i - 1] \o s[i]

\* The recursion in FlattenSeq has a solution, the concatenations of the prefixes.
LEMMA FlattenRuns ==
    ASSUME NEW S, NEW s \in Seq(Seq(S))
    PROVE  \E h : /\ RunningConcat(h, s) /\ FlattenSeq(s) = h[Len(s)]
                  /\ \A i \in 0 .. Len(s) : h[i] \in Seq(S)
<1> DEFINE n == Len(s)
           Step(g, m) == g = [i \in 1 .. m |-> IF i = 1 THEN s[i] ELSE g[i - 1] \o s[i]]
           T == {m \in Nat : \E g : Step(g, m)}
<1>0. n \in Nat /\ \A i \in 1 .. n : s[i] \in Seq(S)
  OBVIOUS
<1>1. \A m \in 0 .. n : m \in T
  <2>1. 0 \in T
    <3> DEFINE g == [i \in 1 .. 0 |-> <<>>]
    <3>1. Step(g, 0)
      OBVIOUS
    <3> QED
      BY <3>1
  <2>2. ASSUME NEW m \in 0 .. n - 1, m \in T PROVE m + 1 \in T
    <3>1. PICK g : Step(g, m)
      BY <2>2
    <3> DEFINE k == [i \in 1 .. m + 1 |-> IF i <= m THEN g[i]
                                          ELSE IF i = 1 THEN s[i] ELSE g[i - 1] \o s[i]]
    <3>2. m \in Nat
      BY <1>0
    <3>3. \A i \in 1 .. m : g[i] = IF i = 1 THEN s[i] ELSE g[i - 1] \o s[i]
      BY <3>1
    <3>4. \A i \in 1 .. m + 1 : k[i] = IF i = 1 THEN s[i] ELSE k[i - 1] \o s[i]
      <4> TAKE i \in 1 .. m + 1
      <4>1. CASE i <= m
        BY <4>1, <3>2, <3>3
      <4>2. CASE i = m + 1
        BY <4>2, <3>2
      <4> QED
        BY <4>1, <4>2, <3>2
    <3>5. Step(k, m + 1)
      BY <3>4
    <3>6. \E e : Step(e, m + 1)
      <4> HIDE DEF k
      <4> QED
        BY <3>5
    <3>7. m + 1 \in Nat
      BY <3>2
    <3> QED
      BY <3>6, <3>7, Zenon
  <2> QED
    <3> HIDE DEF T
    <3> QED
      BY <2>1, <2>2, <1>0, Induct
<1>2. CASE n = 0
  <2>1. s = <<>> /\ FlattenSeq(s) = <<>>
    BY <1>2 DEF FlattenSeq
  <2> DEFINE h == [i \in 0 .. 0 |-> <<>>]
  <2>2. RunningConcat(h, s) /\ FlattenSeq(s) = h[Len(s)] /\ \A i \in 0 .. Len(s) : h[i] \in Seq(S)
    BY <2>1, <1>2 DEF RunningConcat
  <2> QED
    BY <2>2
<1>3. CASE n # 0
  <2> DEFINE f == CHOOSE g : Step(g, n)
             h == [i \in 0 .. n |-> IF i = 0 THEN <<>> ELSE f[i]]
  <2>0. \E g : Step(g, n)
    <3>1. n \in 0 .. n
      BY <1>0
    <3> QED
      BY <3>1, <1>1, Zenon
  <2>1. Step(f, n)
    BY <2>0, Zenon
  <2>2. FlattenSeq(s) = f[n]
    BY <1>3 DEF FlattenSeq
  <2>3. \A i \in 1 .. n : f[i] = IF i = 1 THEN s[i] ELSE f[i - 1] \o s[i]
    BY <2>1
  <2> HIDE DEF f
  <2>4. DOMAIN h = 0 .. n /\ h[0] = <<>>
    BY <1>0
  <2>5. \A i \in 1 .. n : h[i] = h[i - 1] \o s[i]
    <3> TAKE i \in 1 .. n
    <3>1. CASE i = 1
      <4>1. h[i] = s[1] /\ h[i - 1] = <<>> /\ s[i] \in Seq(S) /\ i = 1
        BY <3>1, <2>3, <1>0
      <4>2. <<>> \o s[i] = s[i]
        BY <4>1
      <4> QED
        BY <4>1, <4>2
    <3>2. CASE i # 1
      <4>1. i - 1 \in 1 .. n /\ i \in 1 .. n
        BY <3>2, <1>0
      <4>2. f[i] = f[i - 1] \o s[i]
        BY <4>1, <3>2, <2>3
      <4>3. h[i] = f[i] /\ h[i - 1] = f[i - 1]
        BY <4>1
      <4> QED
        BY <4>2, <4>3
    <3> QED
      BY <3>1, <3>2
  <2>6. \A i \in 0 .. n : i \in {j \in 0 .. n : h[j] \in Seq(S)}
    <3> DEFINE V == {j \in 0 .. n : h[j] \in Seq(S)}
    <3>1. 0 \in V
      BY <2>4, <1>0
    <3>2. ASSUME NEW i \in 0 .. n - 1, i \in V PROVE i + 1 \in V
      <4>1. i + 1 \in 1 .. n /\ (i + 1) - 1 = i
        BY <1>0
      <4>2. h[i + 1] = h[i] \o s[i + 1] /\ h[i] \in Seq(S) /\ s[i + 1] \in Seq(S)
        BY <4>1, <2>5, <3>2, <1>0
      <4>3. h[i + 1] \in Seq(S)
        <5> HIDE DEF h
        <5> QED
          BY <4>2
      <4> QED
        BY <4>1, <4>3, <1>0
    <3> HIDE DEF V
    <3>3. \A i \in 0 .. n : i \in V
      BY <3>1, <3>2, <1>0, Induct
    <3> QED
      BY <3>3 DEF V
  <2>7. FlattenSeq(s) = h[n]
    BY <2>2, <1>0, <1>3
  <2> HIDE DEF h
  <2> QED
    BY <2>4, <2>5, <2>6, <2>7 DEF RunningConcat
<1> QED
  BY <1>2, <1>3

\* The concatenation of sequences over S is one.
LEMMA FlattenType ==
    ASSUME NEW S, NEW s \in Seq(Seq(S))
    PROVE  FlattenSeq(s) \in Seq(S)
<1>1. PICK h : FlattenSeq(s) = h[Len(s)] /\ \A i \in 0 .. Len(s) : h[i] \in Seq(S)
  BY FlattenRuns
<1>2. Len(s) \in 0 .. Len(s)
  OBVIOUS
<1> QED
  BY <1>1, <1>2

\* It has the elements of all of them.
LEMMA FlattenElements ==
    ASSUME NEW S, NEW s \in Seq(Seq(S)), NEW x
    PROVE  x \in ToSet(FlattenSeq(s)) <=> \E i \in DOMAIN s : x \in ToSet(s[i])
<1> DEFINE n == Len(s)
<1>1. PICK h : /\ RunningConcat(h, s) /\ FlattenSeq(s) = h[n]
               /\ \A i \in 0 .. n : h[i] \in Seq(S)
  BY FlattenRuns
<1>2. n \in Nat /\ DOMAIN s = 1 .. n /\ \A i \in 1 .. n : s[i] \in Seq(S)
  OBVIOUS
<1> DEFINE T == {i \in 0 .. n : x \in ToSet(h[i]) <=> \E j \in 1 .. i : x \in ToSet(s[j])}
<1>3. 0 \in T
  <2>1. h[0] = <<>> /\ 0 \in 0 .. n /\ 1 .. 0 = {}
    BY <1>1, <1>2 DEF RunningConcat
  <2>2. ToSet(<<>>) = {}
    BY DEF ToSet
  <2> QED
    BY <2>1, <2>2
<1>4. ASSUME NEW i \in 0 .. n - 1, i \in T PROVE i + 1 \in T
  <2>1. i \in Nat /\ i + 1 \in 1 .. n /\ i + 1 \in 0 .. n /\ (i + 1) - 1 = i /\ i \in 0 .. n
    BY <1>2
  <2>2. h[i + 1] = h[i] \o s[i + 1] /\ h[i] \in Seq(S) /\ s[i + 1] \in Seq(S)
    BY <2>1, <1>1, <1>2 DEF RunningConcat
  <2>3. x \in ToSet(h[i + 1]) <=> x \in ToSet(h[i]) \/ x \in ToSet(s[i + 1])
    <3>1. \A a, b \in Seq(S) : x \in ToSet(a \o b) <=> x \in ToSet(a) \/ x \in ToSet(b)
      <4> TAKE a, b \in Seq(S)
      <4>1. /\ Len(a) \in Nat /\ Len(b) \in Nat
            /\ DOMAIN a = 1 .. Len(a) /\ DOMAIN b = 1 .. Len(b)
            /\ DOMAIN (a \o b) = 1 .. Len(a) + Len(b)
            /\ \A k \in 1 .. Len(a) + Len(b) :
                  (a \o b)[k] = IF k <= Len(a) THEN a[k] ELSE b[k - Len(a)]
        OBVIOUS
      <4>2. ASSUME x \in ToSet(a \o b) PROVE x \in ToSet(a) \/ x \in ToSet(b)
        BY <4>1, <4>2 DEF ToSet
      <4>3. ASSUME x \in ToSet(a) PROVE x \in ToSet(a \o b)
        BY <4>1, <4>3 DEF ToSet
      <4>4. ASSUME x \in ToSet(b) PROVE x \in ToSet(a \o b)
        <5>1. PICK k \in 1 .. Len(b) : x = b[k]
          BY <4>1, <4>4 DEF ToSet
        <5>2. k + Len(a) \in 1 .. Len(a) + Len(b) /\ ~(k + Len(a) <= Len(a))
              /\ (k + Len(a)) - Len(a) = k
          BY <4>1
        <5>3. x = (a \o b)[k + Len(a)]
          BY <5>1, <5>2, <4>1
        <5> QED
          BY <5>2, <5>3, <4>1 DEF ToSet
      <4> QED
        BY <4>2, <4>3, <4>4
    <3> QED
      BY <3>1, <2>2
  <2>4. (\E j \in 1 .. i + 1 : x \in ToSet(s[j]))
            <=> (\E j \in 1 .. i : x \in ToSet(s[j])) \/ x \in ToSet(s[i + 1])
    <3>1. \A j : j \in 1 .. i + 1 <=> j \in 1 .. i \/ j = i + 1
      BY <2>1
    <3> QED
      BY <3>1
  <2>5. x \in ToSet(h[i]) <=> \E j \in 1 .. i : x \in ToSet(s[j])
    BY <1>4
  <2> QED
    BY <2>1, <2>3, <2>4, <2>5
<1>5. n \in T
  <2> HIDE DEF T
  <2>1. \A i \in 0 .. n : i \in T
    BY <1>2, <1>3, <1>4, Induct
  <2> QED
    BY <1>2, <2>1
<1> QED
  BY <1>1, <1>2, <1>5

\* Concatenations concatenate.
LEMMA FlattenConcat ==
    ASSUME NEW S, NEW s \in Seq(Seq(S)), NEW r \in Seq(Seq(S))
    PROVE  FlattenSeq(s \o r) = FlattenSeq(s) \o FlattenSeq(r)
<1> DEFINE m == Len(s)
           n == Len(r)
           c == s \o r
<1>1. PICK hs : RunningConcat(hs, s) /\ FlattenSeq(s) = hs[m] /\ \A i \in 0 .. m : hs[i] \in Seq(S)
  BY FlattenRuns
<1>2. PICK hr : RunningConcat(hr, r) /\ FlattenSeq(r) = hr[n] /\ \A i \in 0 .. n : hr[i] \in Seq(S)
  BY FlattenRuns
<1>3. /\ m \in Nat /\ n \in Nat /\ c \in Seq(Seq(S)) /\ Len(c) = m + n
      /\ \A i \in 1 .. m : c[i] = s[i] /\ s[i] \in Seq(S)
      /\ \A i \in 1 .. n : c[m + i] = r[i] /\ r[i] \in Seq(S)
  OBVIOUS
<1>4. PICK hc : RunningConcat(hc, c) /\ FlattenSeq(c) = hc[m + n]
  <2> HIDE DEF c
  <2> QED
    BY <1>3, FlattenRuns, ZenonT(40)
<1> HIDE DEF c
<1>5. hc[m] = hs[m]
  <2> DEFINE T == {i \in 0 .. m : hc[i] = hs[i]}
  <2>1. 0 \in T
    BY <1>1, <1>3, <1>4 DEF RunningConcat
  <2>2. ASSUME NEW i \in 0 .. m - 1, i \in T PROVE i + 1 \in T
    <3>1. i + 1 \in 1 .. m /\ i + 1 \in 1 .. m + n /\ (i + 1) - 1 = i /\ i + 1 \in 0 .. m
      BY <1>3
    <3>2. hs[i + 1] = hs[i] \o s[i + 1]
      BY <3>1, <1>1 DEF RunningConcat
    <3>3. hc[i + 1] = hc[i] \o c[i + 1]
      BY <3>1, <1>3, <1>4 DEF RunningConcat
    <3> QED
      BY <3>1, <3>2, <3>3, <1>3, <2>2
  <2> HIDE DEF T
  <2>3. \A i \in 0 .. m : i \in T
    BY <1>3, <2>1, <2>2, Induct
  <2> QED
    BY <1>3, <2>3 DEF T
<1>6. hc[m + n] = hs[m] \o hr[n]
  <2> DEFINE T == {i \in 0 .. n : hc[m + i] = hs[m] \o hr[i]}
  <2>0. hs[m] \in Seq(S)
    BY <1>1, <1>3
  <2>1. 0 \in T
    <3>1. hr[0] = <<>> /\ m + 0 = m
      BY <1>2, <1>3 DEF RunningConcat
    <3>2. hs[m] \o <<>> = hs[m]
      BY <2>0
    <3>3. hc[m + 0] = hs[m] \o hr[0]
      BY <3>1, <3>2, <1>5
    <3>4. 0 \in 0 .. n
      BY <1>3
    <3> QED
      BY <3>3, <3>4
  <2>2. ASSUME NEW i \in 0 .. n - 1, i \in T PROVE i + 1 \in T
    <3>1. /\ i + 1 \in 1 .. n /\ m + (i + 1) \in 1 .. m + n /\ (m + (i + 1)) - 1 = m + i
          /\ (i + 1) - 1 = i /\ i + 1 \in 0 .. n /\ i \in 0 .. n
      BY <1>3
    <3>2. hr[i + 1] = hr[i] \o r[i + 1] /\ hr[i] \in Seq(S) /\ r[i + 1] \in Seq(S)
      BY <3>1, <1>2, <1>3 DEF RunningConcat
    <3>3. hc[m + (i + 1)] = hc[m + i] \o c[m + (i + 1)]
      BY <3>1, <1>3, <1>4 DEF RunningConcat
    <3>4. hc[m + i] = hs[m] \o hr[i] /\ c[m + (i + 1)] = r[i + 1]
      BY <2>2, <3>1, <1>3
    <3>5. (hs[m] \o hr[i]) \o r[i + 1] = hs[m] \o (hr[i] \o r[i + 1])
      <4>1. \A a, b, d \in Seq(S) : (a \o b) \o d = a \o (b \o d)
        BY ConcatAssociative, SMTT(30)
      <4> QED
        BY <4>1, <2>0, <3>2, Zenon
    <3>6. hc[m + (i + 1)] = hs[m] \o hr[i + 1]
      BY <3>2, <3>3, <3>4, <3>5, Zenon
    <3> QED
      BY <3>1, <3>6
  <2> HIDE DEF T
  <2>3. \A i \in 0 .. n : i \in T
    BY <1>3, <2>1, <2>2, Induct
  <2>4. n \in T
    BY <1>3, <2>3
  <2> QED
    BY <2>4 DEF T
<1> QED
  BY <1>1, <1>2, <1>4, <1>5, <1>6 DEF c

\* Of sequences that are empty but for one, it is that one.
LEMMA FlattenOne ==
    ASSUME NEW S, NEW s \in Seq(Seq(S)), NEW k \in DOMAIN s,
           \A i \in DOMAIN s \ {k} : s[i] = <<>>
    PROVE  FlattenSeq(s) = s[k]
<1> DEFINE n == Len(s)
<1>1. PICK h : /\ RunningConcat(h, s) /\ FlattenSeq(s) = h[n]
               /\ \A i \in 0 .. n : h[i] \in Seq(S)
  BY FlattenRuns
<1>2. n \in Nat /\ DOMAIN s = 1 .. n /\ k \in 1 .. n /\ \A i \in 1 .. n : s[i] \in Seq(S)
  OBVIOUS
<1> DEFINE T == {i \in 0 .. n : h[i] = IF i < k THEN <<>> ELSE s[k]}
<1>3. 0 \in T
  BY <1>1, <1>2 DEF RunningConcat
<1>4. ASSUME NEW i \in 0 .. n - 1, i \in T PROVE i + 1 \in T
  <2>1. i \in Nat /\ i + 1 \in 1 .. n /\ i + 1 \in 0 .. n /\ (i + 1) - 1 = i /\ i \in 0 .. n
    BY <1>2
  <2>2. h[i + 1] = h[i] \o s[i + 1] /\ h[i] \in Seq(S) /\ s[i + 1] \in Seq(S)
    BY <2>1, <1>1, <1>2 DEF RunningConcat
  <2>3. h[i] = IF i < k THEN <<>> ELSE s[k]
    BY <1>4
  <2>4. CASE i + 1 = k
    <3>1. h[i] = <<>> /\ s[i + 1] = s[k]
      BY <2>1, <2>3, <2>4
    <3>2. <<>> \o s[k] = s[k]
      BY <1>2
    <3> QED
      BY <2>1, <2>2, <2>4, <3>1, <3>2
  <2>5. CASE i + 1 # k
    <3>1. s[i + 1] = <<>>
      BY <2>1, <2>5, <1>2
    <3>2. h[i + 1] = h[i]
      BY <2>2, <3>1
    <3> QED
      BY <2>1, <2>3, <2>5, <3>2, <1>2
  <2> QED
    BY <2>4, <2>5
<1>5. n \in T
  <2> HIDE DEF T
  <2>1. \A i \in 0 .. n : i \in T
    BY <1>2, <1>3, <1>4, Induct
  <2> QED
    BY <1>2, <2>1
<1> QED
  BY <1>1, <1>2, <1>5

\* Of empty sequences it is the empty one.
LEMMA FlattenNone ==
    ASSUME NEW S, NEW s \in Seq(Seq(S)), \A i \in DOMAIN s : s[i] = <<>>
    PROVE  FlattenSeq(s) = <<>>
<1>1. CASE s = <<>>
  BY <1>1 DEF FlattenSeq
<1>2. CASE s # <<>>
  <2>1. 1 \in DOMAIN s
    BY <1>2
  <2> QED
    BY <2>1, FlattenOne
<1> QED
  BY <1>1, <1>2

----
\* The messages of one turn in a context.

\* OfTurn flattens these.
Only(messages, t) ==
    [i \in DOMAIN messages |-> IF messages[i].turn = t THEN <<messages[i]>> ELSE <<>>]

LEMMA OfTurnIs ==
    ASSUME NEW M, NEW a \in Seq(M), NEW t
    PROVE  OfTurn(a, t) = FlattenSeq(Only(a, t)) /\ Only(a, t) \in Seq(Seq(M))
<1>1. OfTurn(a, t) = FlattenSeq(Only(a, t))
  BY DEF OfTurn, Where, Only
<1>2. /\ Len(a) \in Nat /\ DOMAIN a = 1 .. Len(a)
      /\ \A i \in DOMAIN a : <<a[i]>> \in Seq(M) /\ <<>> \in Seq(M)
  OBVIOUS
<1> QED
  BY <1>1, <1>2 DEF Only

LEMMA OfTurnType ==
    ASSUME NEW M, NEW a \in Seq(M), NEW t PROVE OfTurn(a, t) \in Seq(M)
  BY OfTurnIs, FlattenType

\* It is empty when the turn has no message, and only then.
LEMMA OfTurnNone ==
    ASSUME NEW M, NEW a \in Seq(M), NEW t, \A i \in DOMAIN a : a[i].turn # t
    PROVE  OfTurn(a, t) = <<>>
<1>1. \A i \in DOMAIN Only(a, t) : Only(a, t)[i] = <<>>
  BY DEF Only
<1> QED
  BY <1>1, OfTurnIs, FlattenNone

LEMMA OfTurnOne ==
    ASSUME NEW M, NEW m \in M, NEW t
    PROVE  OfTurn(<<m>>, t) = IF m.turn = t THEN <<m>> ELSE <<>>
<1>1. <<m>> \in Seq(M) /\ DOMAIN <<m>> = {1} /\ <<m>>[1] = m
  OBVIOUS
<1>2. DOMAIN Only(<<m>>, t) = {1} /\ Only(<<m>>, t)[1] = IF m.turn = t THEN <<m>> ELSE <<>>
  BY <1>1 DEF Only
<1>3. \A i \in DOMAIN Only(<<m>>, t) \ {1} : Only(<<m>>, t)[i] = <<>>
  BY <1>2
<1> HIDE <1>1
<1>4. Only(<<m>>, t) \in Seq(Seq(M)) /\ OfTurn(<<m>>, t) = FlattenSeq(Only(<<m>>, t))
  BY <1>1, OfTurnIs
<1> QED
  BY <1>2, <1>3, <1>4, FlattenOne

LEMMA OfTurnConcat ==
    ASSUME NEW M, NEW a \in Seq(M), NEW b \in Seq(M), NEW t
    PROVE  OfTurn(a \o b, t) = OfTurn(a, t) \o OfTurn(b, t)
<1>1. a \o b \in Seq(M)
  OBVIOUS
<1>2. Only(a \o b, t) = Only(a, t) \o Only(b, t)
  <2>1. /\ Len(a) \in Nat /\ Len(b) \in Nat
        /\ DOMAIN a = 1 .. Len(a) /\ DOMAIN b = 1 .. Len(b)
        /\ DOMAIN (a \o b) = 1 .. Len(a) + Len(b)
        /\ \A i \in 1 .. Len(a) + Len(b) :
              (a \o b)[i] = IF i <= Len(a) THEN a[i] ELSE b[i - Len(a)]
    OBVIOUS
  <2>2. /\ Only(a, t) \in Seq(Seq(M)) /\ Only(b, t) \in Seq(Seq(M))
        /\ Only(a \o b, t) \in Seq(Seq(M))
    BY <1>1, OfTurnIs
  <2>3. /\ Len(Only(a, t)) = Len(a) /\ Len(Only(b, t)) = Len(b)
        /\ Len(Only(a \o b, t)) = Len(a) + Len(b)
    <3>1. DOMAIN Only(a, t) = 1 .. Len(a) /\ DOMAIN Only(b, t) = 1 .. Len(b)
          /\ DOMAIN Only(a \o b, t) = 1 .. Len(a) + Len(b)
      BY <2>1 DEF Only
    <3> QED
      BY <3>1, <2>1, <2>2
  <2>4. \A i \in 1 .. Len(a) + Len(b) :
           Only(a \o b, t)[i] = (Only(a, t) \o Only(b, t))[i]
    <3> TAKE i \in 1 .. Len(a) + Len(b)
    <3>1. (Only(a, t) \o Only(b, t))[i] =
             IF i <= Len(a) THEN Only(a, t)[i] ELSE Only(b, t)[i - Len(a)]
      BY <2>1, <2>2, <2>3, SMTT(30)
    <3>2. Only(a \o b, t)[i] = IF (a \o b)[i].turn = t THEN <<(a \o b)[i]>> ELSE <<>>
      BY <2>1 DEF Only
    <3>3. CASE i <= Len(a)
      <4>1. i \in DOMAIN a /\ (a \o b)[i] = a[i]
        BY <3>3, <2>1
      <4>2. Only(a, t)[i] = IF a[i].turn = t THEN <<a[i]>> ELSE <<>>
        BY <4>1 DEF Only
      <4> QED
        BY <3>1, <3>2, <3>3, <4>1, <4>2
    <3>4. CASE ~(i <= Len(a))
      <4>1. i - Len(a) \in DOMAIN b /\ (a \o b)[i] = b[i - Len(a)]
        BY <3>4, <2>1
      <4>2. Only(b, t)[i - Len(a)] = IF b[i - Len(a)].turn = t THEN <<b[i - Len(a)]>> ELSE <<>>
        BY <4>1 DEF Only
      <4> QED
        BY <3>1, <3>2, <3>4, <4>1, <4>2
    <3> QED
      BY <3>3, <3>4
  <2>5. Only(a, t) \o Only(b, t) \in Seq(Seq(M))
        /\ Len(Only(a, t) \o Only(b, t)) = Len(a) + Len(b)
    <3>1. \A x, y \in Seq(Seq(M)) : x \o y \in Seq(Seq(M)) /\ Len(x \o y) = Len(x) + Len(y)
      OBVIOUS
    <3> QED
      BY <3>1, <2>2, <2>3
  <2>6. \A x, y \in Seq(Seq(M)) :
           Len(x) = Len(y) /\ (\A i \in 1 .. Len(x) : x[i] = y[i]) => x = y
    BY SeqEqual
  <2> QED
    BY <2>2, <2>3, <2>4, <2>5, <2>6
<1>3. Only(a, t) \in Seq(Seq(M)) /\ Only(b, t) \in Seq(Seq(M))
  BY OfTurnIs
<1>4. FlattenSeq(Only(a, t) \o Only(b, t)) = FlattenSeq(Only(a, t)) \o FlattenSeq(Only(b, t))
  BY <1>3, FlattenConcat
<1> QED
  BY <1>1, <1>2, <1>4, OfTurnIs

\* What appending a message does to the messages of a turn.
LEMMA OfTurnAppend ==
    ASSUME NEW M, NEW a \in Seq(M), NEW m \in M, NEW t
    PROVE  OfTurn(Append(a, m), t) = IF m.turn = t THEN Append(OfTurn(a, t), m) ELSE OfTurn(a, t)
<1>1. /\ <<m>> \in Seq(M) /\ Append(a, m) = a \o <<m>>
      /\ \A b \in Seq(M) : Append(b, m) = b \o <<m>> /\ b \o <<>> = b
  OBVIOUS
<1>2. OfTurn(a, t) \in Seq(M)
  BY OfTurnType
<1>3. OfTurn(<<m>>, t) = IF m.turn = t THEN <<m>> ELSE <<>>
  BY OfTurnOne
<1>4. \A b \in Seq(M) : OfTurn(a \o b, t) = OfTurn(a, t) \o OfTurn(b, t)
  BY OfTurnConcat
<1>5. OfTurn(Append(a, m), t) = OfTurn(a, t) \o OfTurn(<<m>>, t)
  BY <1>1, <1>4, Zenon
<1> QED
  BY <1>1, <1>2, <1>3, <1>5

\* Of a concatenation it is the concatenation of what each part has of the turn.
LEMMA OfTurnFlatten ==
    ASSUME NEW M, NEW s \in Seq(Seq(M)), NEW t
    PROVE  LET parts == [i \in DOMAIN s |-> OfTurn(s[i], t)]
           IN  parts \in Seq(Seq(M)) /\ OfTurn(FlattenSeq(s), t) = FlattenSeq(parts)
<1> DEFINE n == Len(s)
           parts == [i \in DOMAIN s |-> OfTurn(s[i], t)]
<1>1. PICK h : /\ RunningConcat(h, s) /\ FlattenSeq(s) = h[n]
               /\ \A i \in 0 .. n : h[i] \in Seq(M)
  BY FlattenRuns
<1>2. n \in Nat /\ DOMAIN s = 1 .. n /\ \A i \in 1 .. n : s[i] \in Seq(M)
  OBVIOUS
<1>3. \A i \in 1 .. n : OfTurn(s[i], t) \in Seq(M)
  BY <1>2, OfTurnType
<1>4. parts \in Seq(Seq(M)) /\ Len(parts) = n /\ \A i \in 1 .. n : parts[i] = OfTurn(s[i], t)
  BY <1>2, <1>3
<1> HIDE DEF parts
<1>5. PICK g : RunningConcat(g, parts) /\ FlattenSeq(parts) = g[n]
  BY <1>4, FlattenRuns
<1> DEFINE T == {i \in 0 .. n : OfTurn(h[i], t) = g[i]}
<1>6. 0 \in T
  <2>1. h[0] = <<>> /\ g[0] = <<>>
    BY <1>1, <1>5 DEF RunningConcat
  <2>2. <<>> \in Seq(M) /\ \A i \in DOMAIN <<>> : <<>>[i].turn # t
    OBVIOUS
  <2>3. OfTurn(<<>>, t) = <<>>
    BY <2>2, OfTurnNone
  <2> QED
    BY <2>1, <2>3, <1>2
<1>7. ASSUME NEW i \in 0 .. n - 1, i \in T PROVE i + 1 \in T
  <2>1. i + 1 \in 1 .. n /\ i + 1 \in 0 .. n /\ (i + 1) - 1 = i /\ i \in 0 .. n
    BY <1>2
  <2>2. h[i + 1] = h[i] \o s[i + 1] /\ h[i] \in Seq(M) /\ s[i + 1] \in Seq(M)
    BY <2>1, <1>1, <1>2 DEF RunningConcat
  <2>3. g[i + 1] = g[i] \o OfTurn(s[i + 1], t)
    BY <2>1, <1>4, <1>5 DEF RunningConcat
  <2>4. OfTurn(h[i + 1], t) = OfTurn(h[i], t) \o OfTurn(s[i + 1], t)
    <3>1. \A a, b \in Seq(M) : OfTurn(a \o b, t) = OfTurn(a, t) \o OfTurn(b, t)
      BY OfTurnConcat, SMTT(30)
    <3> QED
      BY <3>1, <2>2, Zenon
  <2> QED
    BY <2>1, <2>3, <2>4, <1>7
<1>8. n \in T
  <2> HIDE DEF T
  <2>1. \A i \in 0 .. n : i \in T
    BY <1>2, <1>6, <1>7, Induct
  <2> QED
    BY <1>2, <2>1
<1>9. OfTurn(FlattenSeq(s), t) = FlattenSeq(parts)
  BY <1>1, <1>5, <1>8
<1> QED
  BY <1>4, <1>9 DEF parts

----
\* What BuildContextMessages makes of a turn, for messages in M and history rows in
\* R whose summaries are messages too.
Summarises(M, R) ==
    \A r \in R : UserMessage(r.turn) \in M /\ AssistantMessage(r.turn, <<>>) \in M

\* A turn has at most one row.
OneRowEach(rows) == \A i, j \in DOMAIN rows : rows[i].turn = rows[j].turn => i = j

LEMMA SummaryOfTurn ==
    ASSUME NEW M, NEW R, Summarises(M, R), NEW r \in R, NEW t
    PROVE  /\ Summary(r) \in Seq(M)
           /\ \A i \in DOMAIN Summary(r) : Summary(r)[i].turn = r.turn
           /\ OfTurn(Summary(r), t) = IF r.turn = t THEN Summary(r) ELSE <<>>
<1> DEFINE q == UserMessage(r.turn)
           a == AssistantMessage(r.turn, <<>>)
<1>1. q \in M /\ a \in M /\ q.turn = r.turn /\ a.turn = r.turn
  BY DEF Summarises, UserMessage, AssistantMessage
<1>2. Summary(r) = IF r.answer THEN <<q>> \o <<a>> ELSE <<q>> \o <<>>
  BY DEF Summary
<1> HIDE DEF q, a
<1>3. <<q>> \in Seq(M) /\ <<a>> \in Seq(M) /\ <<q>> \o <<>> = <<q>>
  BY <1>1
<1>4. OfTurn(<<q>>, t) = (IF r.turn = t THEN <<q>> ELSE <<>>)
      /\ OfTurn(<<a>>, t) = (IF r.turn = t THEN <<a>> ELSE <<>>)
  BY <1>1, OfTurnOne
<1>5. CASE r.answer
  <2>1. OfTurn(<<q>> \o <<a>>, t) = OfTurn(<<q>>, t) \o OfTurn(<<a>>, t)
    <3>1. \A x, y \in Seq(M) : OfTurn(x \o y, t) = OfTurn(x, t) \o OfTurn(y, t)
      BY OfTurnConcat
    <3> QED
      BY <3>1, <1>3, Zenon
  <2>2. /\ <<q>> \o <<a>> \in Seq(M) /\ DOMAIN (<<q>> \o <<a>>) = 1 .. 2
        /\ (<<q>> \o <<a>>)[1] = q /\ (<<q>> \o <<a>>)[2] = a
    BY <1>1
  <2>3. <<>> \o <<>> = <<>>
    OBVIOUS
  <2>4. Summary(r) = <<q>> \o <<a>>
    BY <1>2, <1>5
  <2>5. \A i \in DOMAIN (<<q>> \o <<a>>) : (<<q>> \o <<a>>)[i].turn = r.turn
    BY <1>1, <2>2
  <2>6. OfTurn(<<q>> \o <<a>>, t) = IF r.turn = t THEN <<q>> \o <<a>> ELSE <<>>
    BY <1>4, <2>1, <2>3, Zenon
  <2> QED
    BY <2>2, <2>4, <2>5, <2>6, Zenon
<1>6. CASE ~r.answer
  <2>1. Summary(r) = <<q>>
    BY <1>2, <1>3, <1>6
  <2>2. DOMAIN <<q>> = {1} /\ <<q>>[1] = q
    OBVIOUS
  <2> QED
    BY <1>1, <1>3, <1>4, <2>1, <2>2
<1> QED
  BY <1>5, <1>6

\* Summaries of some of the rows: a turn's own summary, if it is one of them.
LEMMA SummariesOfTurn ==
    ASSUME NEW M, NEW R, Summarises(M, R), NEW rows \in Seq(R), NEW s, NEW t,
           DOMAIN s = DOMAIN rows,
           \A i \in DOMAIN rows : s[i] = <<>> \/ s[i] = Summary(rows[i]),
           s = [i \in DOMAIN s |-> s[i]]
    PROVE  /\ s \in Seq(Seq(M)) /\ FlattenSeq(s) \in Seq(M)
           /\ (\A i \in DOMAIN rows : rows[i].turn = t => s[i] = <<>>)
                  => OfTurn(FlattenSeq(s), t) = <<>>
           /\ \A k \in DOMAIN rows : rows[k].turn = t /\ OneRowEach(rows)
                  => OfTurn(FlattenSeq(s), t) = s[k]
<1> DEFINE parts == [i \in DOMAIN s |-> OfTurn(s[i], t)]
<1>1. \A i \in DOMAIN rows : rows[i] \in R
  OBVIOUS
<1>2. <<>> \in Seq(M) /\ OfTurn(<<>>, t) = <<>>
  <2>1. <<>> \in Seq(M) /\ \A i \in DOMAIN <<>> : <<>>[i].turn # t
    OBVIOUS
  <2> QED
    BY <2>1, OfTurnNone
<1>3. \A i \in DOMAIN rows :
         s[i] \in Seq(M) /\ OfTurn(s[i], t) = IF rows[i].turn = t THEN s[i] ELSE <<>>
  <2>1. \A r \in R : /\ Summary(r) \in Seq(M)
                    /\ OfTurn(Summary(r), t) = IF r.turn = t THEN Summary(r) ELSE <<>>
    BY SummaryOfTurn
  <2> TAKE i \in DOMAIN rows
  <2>2. CASE s[i] = <<>>
    BY <2>2, <1>2
  <2>3. CASE s[i] = Summary(rows[i])
    BY <2>1, <2>3, <1>1
  <2> QED
    BY <2>2, <2>3
<1>4. s \in Seq(Seq(M))
  <2>1. Len(rows) \in Nat /\ DOMAIN s = 1 .. Len(rows) /\ \A i \in 1 .. Len(rows) : s[i] \in Seq(M)
    BY <1>3
  <2> QED
    BY <2>1
<1>5. parts \in Seq(Seq(M)) /\ OfTurn(FlattenSeq(s), t) = FlattenSeq(parts)
  BY <1>4, OfTurnFlatten
<1>6. DOMAIN parts = DOMAIN rows
      /\ \A i \in DOMAIN rows : parts[i] = IF rows[i].turn = t THEN s[i] ELSE <<>>
  BY <1>3
<1> HIDE DEF parts
<1>7. ASSUME \A i \in DOMAIN rows : rows[i].turn = t => s[i] = <<>>
      PROVE  OfTurn(FlattenSeq(s), t) = <<>>
  <2>1. \A i \in DOMAIN parts : parts[i] = <<>>
    BY <1>6, <1>7
  <2> QED
    BY <1>5, <2>1, FlattenNone
<1>8. ASSUME NEW k \in DOMAIN rows, rows[k].turn = t, OneRowEach(rows)
      PROVE  OfTurn(FlattenSeq(s), t) = s[k]
  <2>1. parts[k] = s[k] /\ k \in DOMAIN parts
    BY <1>6, <1>8
  <2>2. \A i \in DOMAIN parts \ {k} : parts[i] = <<>>
    BY <1>6, <1>8 DEF OneRowEach
  <2> QED
    BY <1>5, <2>1, <2>2, FlattenOne
<1>9. FlattenSeq(s) \in Seq(M)
  BY <1>4, FlattenType
<1> QED
  BY <1>4, <1>7, <1>8, <1>9

\* The first part of a context: the summaries of the turns that are not shown in full.
LEMMA HistoryPart ==
    ASSUME NEW M, NEW R, Summarises(M, R), NEW rows \in Seq(R), NEW detailed, NEW current, NEW t
    PROVE  LET part == historyTurnsAsMessages(rows, detailed, current)
           IN  /\ part \in Seq(M)
               /\ t \in detailed \cup {current} => OfTurn(part, t) = <<>>
               /\ (\A i \in DOMAIN rows : rows[i].turn # t) => OfTurn(part, t) = <<>>
               /\ \A k \in DOMAIN rows :
                     rows[k].turn = t /\ t \notin detailed \cup {current} /\ OneRowEach(rows)
                         => OfTurn(part, t) = Summary(rows[k])
<1> DEFINE s == [i \in DOMAIN rows |->
                    IF rows[i].turn \in detailed \cup {current} THEN <<>> ELSE Summary(rows[i])]
<1>1. historyTurnsAsMessages(rows, detailed, current) = FlattenSeq(s)
  BY DEF historyTurnsAsMessages
<1>2. /\ DOMAIN s = DOMAIN rows /\ s = [i \in DOMAIN s |-> s[i]]
      /\ \A i \in DOMAIN rows :
            s[i] = IF rows[i].turn \in detailed \cup {current} THEN <<>> ELSE Summary(rows[i])
  OBVIOUS
<1> HIDE DEF s
<1>3. \A i \in DOMAIN rows : s[i] = <<>> \/ s[i] = Summary(rows[i])
  BY <1>2
<1>4. /\ FlattenSeq(s) \in Seq(M)
      /\ (\A i \in DOMAIN rows : rows[i].turn = t => s[i] = <<>>)
             => OfTurn(FlattenSeq(s), t) = <<>>
      /\ \A k \in DOMAIN rows : rows[k].turn = t /\ OneRowEach(rows)
             => OfTurn(FlattenSeq(s), t) = s[k]
  BY <1>2, <1>3, SummariesOfTurn
<1>5. t \in detailed \cup {current} => \A i \in DOMAIN rows : rows[i].turn = t => s[i] = <<>>
  BY <1>2
<1>6. \A k \in DOMAIN rows : rows[k].turn = t /\ t \notin detailed \cup {current}
          => s[k] = Summary(rows[k])
  BY <1>2
<1> QED
  BY <1>1, <1>4, <1>5, <1>6

\* Its last part: the messages of the turns that are, as they are stored.
LEMMA DetailedPart ==
    ASSUME NEW M, NEW messages \in Seq(M), NEW detailed, NEW t
    PROVE  LET part == appendDetailedMessages(messages, detailed)
           IN  /\ part \in Seq(M)
               /\ t \in detailed => OfTurn(part, t) = OfTurn(messages, t)
               /\ t \notin detailed /\ t # NoTurn => OfTurn(part, t) = <<>>
<1> DEFINE kept(i) == messages[i].turn = NoTurn \/ messages[i].turn \in detailed
           s == [i \in DOMAIN messages |-> IF kept(i) THEN <<messages[i]>> ELSE <<>>]
           parts == [i \in DOMAIN s |-> OfTurn(s[i], t)]
<1>1. appendDetailedMessages(messages, detailed) = FlattenSeq(s)
  BY DEF appendDetailedMessages, Where
<1>2. /\ DOMAIN s = DOMAIN messages /\ Len(messages) \in Nat /\ DOMAIN messages = 1 .. Len(messages)
      /\ \A i \in DOMAIN messages :
            messages[i] \in M /\ s[i] = IF kept(i) THEN <<messages[i]>> ELSE <<>>
  OBVIOUS
<1>3. s \in Seq(Seq(M))
  <2>1. \A i \in 1 .. Len(messages) : s[i] \in Seq(M)
    BY <1>2
  <2> QED
    BY <1>2, <2>1
<1> HIDE DEF s
<1>4. <<>> \in Seq(M) /\ OfTurn(<<>>, t) = <<>>
  <2>1. <<>> \in Seq(M) /\ \A i \in DOMAIN <<>> : <<>>[i].turn # t
    OBVIOUS
  <2> QED
    BY <2>1, OfTurnNone
<1>5. \A i \in DOMAIN messages :
         OfTurn(s[i], t) = IF kept(i) /\ messages[i].turn = t THEN <<messages[i]>> ELSE <<>>
  BY <1>2, <1>4, OfTurnOne
<1>6. parts \in Seq(Seq(M)) /\ OfTurn(FlattenSeq(s), t) = FlattenSeq(parts)
  BY <1>3, OfTurnFlatten
<1>7. ASSUME t \in detailed PROVE OfTurn(FlattenSeq(s), t) = OfTurn(messages, t)
  <2>1. parts = Only(messages, t)
    BY <1>2, <1>5, <1>7 DEF Only
  <2> QED
    BY <1>6, <2>1, OfTurnIs
<1>8. ASSUME t \notin detailed, t # NoTurn PROVE OfTurn(FlattenSeq(s), t) = <<>>
  <2>1. \A i \in DOMAIN parts : parts[i] = <<>>
    BY <1>2, <1>5, <1>8
  <2> HIDE DEF parts
  <2> QED
    BY <1>6, <2>1, FlattenNone
<1>9. FlattenSeq(s) \in Seq(M)
  BY <1>3, FlattenType
<1> QED
  BY <1>1, <1>7, <1>8, <1>9

\* Whatever has no message in OfTurn has none at all.
LEMMA OfTurnEmpty ==
    ASSUME NEW M, NEW a \in Seq(M), NEW t, OfTurn(a, t) = <<>>
    PROVE  \A i \in DOMAIN a : a[i].turn # t
<1> SUFFICES ASSUME NEW i \in DOMAIN a, a[i].turn = t PROVE FALSE
  OBVIOUS
<1>1. a[i] \in ToSet(Only(a, t)[i]) /\ i \in DOMAIN Only(a, t)
  <2>1. Only(a, t)[i] = <<a[i]>> /\ i \in DOMAIN Only(a, t)
    BY DEF Only
  <2>2. a[i] \in ToSet(<<a[i]>>)
    BY DEF ToSet
  <2> QED
    BY <2>1, <2>2
<1>2. Only(a, t) \in Seq(Seq(M)) /\ OfTurn(a, t) = FlattenSeq(Only(a, t))
  BY OfTurnIs
<1>3. \A s \in Seq(Seq(M)) :
         (\E j \in DOMAIN s : a[i] \in ToSet(s[j])) => a[i] \in ToSet(FlattenSeq(s))
  BY FlattenElements
<1>4. a[i] \in ToSet(<<>>)
  BY <1>1, <1>2, <1>3
<1> QED
  BY <1>4 DEF ToSet

LEMMA ToSetFinite == ASSUME NEW R, NEW rows \in Seq(R) PROVE IsFiniteSet(ToSet(rows))
<1>1. Len(rows) \in Nat /\ DOMAIN rows = 1 .. Len(rows) /\ rows = [i \in DOMAIN rows |-> rows[i]]
  OBVIOUS
<1>2. IsFiniteSet(DOMAIN rows)
  <2>1. \A n \in Nat : IsFiniteSet(1 .. n)
    BY FS_Interval
  <2> QED
    BY <1>1, <2>1
<1>3. rows \in Surjection(DOMAIN rows, ToSet(rows))
  BY <1>1 DEF Surjection, ToSet
<1> QED
  BY <1>2, <1>3, FS_Surjection

\* An order of a finite set has each of its elements once.
LEMMA OrderOf ==
    ASSUME NEW A, IsFiniteSet(A), NEW order \in SetToSeqs(A)
    PROVE  /\ order \in Seq(A)
           /\ \A x \in A : \E i \in DOMAIN order : order[i] = x
           /\ \A i, j \in DOMAIN order : order[i] = order[j] => i = j
<1> DEFINE n == Cardinality(A)
<1>1. n \in Nat
  BY FS_CardinalityType
<1>2. order \in [1 .. n -> A] /\ \A i, j \in 1 .. n : i # j => order[i] # order[j]
  BY DEF SetToSeqs
<1>3. IsFiniteSet(1 .. n) /\ Cardinality(1 .. n) = n
  BY <1>1, FS_Interval
<1>4. order \in Injection(1 .. n, A)
  BY <1>2 DEF Injection, IsInjective
<1>5. order \in Surjection(1 .. n, A)
  BY <1>3, <1>4, FS_Injection
<1> HIDE DEF n
<1>6. \A x \in A : \E i \in 1 .. n : order[i] = x
  BY <1>5 DEF Surjection
<1> QED
  BY <1>1, <1>2, <1>6

\* The part in the middle: the summaries of turns that should be shown in full and
\* have no message.
LEMMA FallbackPart ==
    ASSUME NEW M, NEW R, Summarises(M, R), NEW rows \in Seq(R), NEW detailed, NEW available,
           NEW current, NEW part \in appendFallbackSummaries(rows, detailed, available, current),
           NEW t
    PROVE  /\ part \in Seq(M)
           /\ t \notin detailed \ (available \cup {current}) => OfTurn(part, t) = <<>>
           /\ (\A i \in DOMAIN rows : rows[i].turn # t) => OfTurn(part, t) = <<>>
           /\ \A k \in DOMAIN rows :
                 rows[k].turn = t /\ t \in detailed \ (available \cup {current}) /\ OneRowEach(rows)
                     => OfTurn(part, t) = Summary(rows[k])
<1> DEFINE missing == {r \in ToSet(rows) : r.turn \in detailed \ (available \cup {current})}
<1>1. PICK order \in SetToSeqs(missing) : part = Summaries(order)
  BY DEF appendFallbackSummaries
<1>2. IsFiniteSet(missing) /\ missing \subseteq R
  <2>1. missing \subseteq ToSet(rows)
    OBVIOUS
  <2>2. ToSet(rows) \subseteq R
    BY DEF ToSet
  <2> QED
    BY <2>1, <2>2, ToSetFinite, FS_Subset
<1>3. /\ order \in Seq(missing)
      /\ \A x \in missing : \E i \in DOMAIN order : order[i] = x
      /\ \A i, j \in DOMAIN order : order[i] = order[j] => i = j
  <2> HIDE DEF missing
  <2> QED
    BY <1>1, <1>2, OrderOf
<1>4. order \in Seq(R) /\ \A i \in DOMAIN order : order[i] \in missing
  BY <1>2, <1>3
<1> DEFINE s == [i \in DOMAIN order |-> Summary(order[i])]
<1>5. part = FlattenSeq(s)
  BY <1>1 DEF Summaries
<1>6. DOMAIN s = DOMAIN order /\ s = [i \in DOMAIN s |-> s[i]]
      /\ \A i \in DOMAIN order : s[i] = Summary(order[i])
  OBVIOUS
<1> HIDE DEF s
<1>7. /\ FlattenSeq(s) \in Seq(M)
      /\ (\A i \in DOMAIN order : order[i].turn = t => s[i] = <<>>)
             => OfTurn(FlattenSeq(s), t) = <<>>
      /\ \A k \in DOMAIN order : order[k].turn = t /\ OneRowEach(order)
             => OfTurn(FlattenSeq(s), t) = s[k]
  BY <1>4, <1>6, SummariesOfTurn, SMTT(30)
<1>8. \A i \in DOMAIN order :
         /\ order[i].turn \in detailed \ (available \cup {current})
         /\ \E k \in DOMAIN rows : order[i] = rows[k]
  BY <1>4 DEF ToSet
<1>9. ASSUME NEW k \in DOMAIN rows, rows[k].turn = t, OneRowEach(rows),
             t \in detailed \ (available \cup {current})
      PROVE  OfTurn(FlattenSeq(s), t) = Summary(rows[k])
  <2>1. rows[k] \in missing
    BY <1>9 DEF ToSet
  <2>2. PICK i \in DOMAIN order : order[i] = rows[k]
    BY <1>3, <2>1
  <2>3. OneRowEach(order)
    BY <1>3, <1>8, <1>9 DEF OneRowEach
  <2> QED
    BY <1>6, <1>7, <1>9, <2>2, <2>3
<1> HIDE DEF missing
<1> QED
  BY <1>5, <1>7, <1>8, <1>9

\* A context has the current turn as it is stored, and of every other recorded turn
\* its summary or its messages; a lean one has nothing of any other turn.
THEOREM ContextOfTurn ==
    ASSUME NEW M, NEW R, Summarises(M, R), NEW messages \in Seq(M), NEW rows \in Seq(R),
           NEW current, NEW full, ~(full < 0),
           NEW c \in BuildContextMessages(messages, rows, current, full), NEW t
    PROVE  /\ c \in Seq(M)
           /\ OfTurn(c, current) = OfTurn(messages, current)
           /\ \A k \in DOMAIN rows :
                 t = rows[k].turn /\ t \notin {current, NoTurn} /\ OneRowEach(rows)
                     => OfTurn(c, t) \in {Summary(rows[k]), OfTurn(messages, t)}
           /\ full = 0 /\ t \notin {current, NoTurn} /\ (\A k \in DOMAIN rows : rows[k].turn # t)
                  => OfTurn(c, t) = <<>>
<1> DEFINE detailed == selectDetailedTurnIDs(messages, rows, current, full)
           available == buildAvailableDetailedSet(messages, detailed)
           first == historyTurnsAsMessages(rows, detailed, current)
           last == appendDetailedMessages(messages, detailed)
<1>1. PICK middle \in appendFallbackSummaries(rows, detailed, available, current) :
         c = first \o middle \o last
  BY DEF BuildContextMessages
<1>2. current \in detailed
  BY DEF selectDetailedTurnIDs
<1>3. ASSUME full = 0, t \notin {current, NoTurn}, \A k \in DOMAIN rows : rows[k].turn # t
      PROVE  t \notin detailed
  BY <1>3 DEF selectDetailedTurnIDs, ToSet
<1>4. ASSUME t # NoTurn, t \in detailed, t \notin available PROVE OfTurn(messages, t) = <<>>
  <2>1. \A i \in DOMAIN messages : messages[i].turn # t
    BY <1>4 DEF buildAvailableDetailedSet, ToSet
  <2> QED
    BY <2>1, OfTurnNone
<1> HIDE DEF detailed, available
<1>5. /\ first \in Seq(M)
      /\ OfTurn(first, current) = <<>>
      /\ t \in detailed \cup {current} => OfTurn(first, t) = <<>>
      /\ (\A i \in DOMAIN rows : rows[i].turn # t) => OfTurn(first, t) = <<>>
      /\ \A k \in DOMAIN rows :
            rows[k].turn = t /\ t \notin detailed \cup {current} /\ OneRowEach(rows)
                => OfTurn(first, t) = Summary(rows[k])
  BY <1>2, HistoryPart
<1>6. /\ middle \in Seq(M)
      /\ OfTurn(middle, current) = <<>>
      /\ t \notin detailed \ (available \cup {current}) => OfTurn(middle, t) = <<>>
      /\ (\A i \in DOMAIN rows : rows[i].turn # t) => OfTurn(middle, t) = <<>>
      /\ \A k \in DOMAIN rows :
            rows[k].turn = t /\ t \in detailed \ (available \cup {current}) /\ OneRowEach(rows)
                => OfTurn(middle, t) = Summary(rows[k])
  BY <1>1, FallbackPart
<1>7. /\ last \in Seq(M)
      /\ OfTurn(last, current) = OfTurn(messages, current)
      /\ t \in detailed => OfTurn(last, t) = OfTurn(messages, t)
      /\ t \notin detailed /\ t # NoTurn => OfTurn(last, t) = <<>>
  <2>1. last \in Seq(M)
    BY DetailedPart
  <2>2. ASSUME NEW u, u \in detailed PROVE OfTurn(last, u) = OfTurn(messages, u)
    BY <2>2, DetailedPart
  <2>3. ASSUME t \notin detailed, t # NoTurn PROVE OfTurn(last, t) = <<>>
    BY <2>3, DetailedPart
  <2> HIDE DEF last
  <2> QED
    BY <1>2, <2>1, <2>2, <2>3
<1> HIDE DEF first, last
<1>8. \A u : OfTurn(c, u) = OfTurn(first, u) \o OfTurn(middle, u) \o OfTurn(last, u)
  <2>1. first \o middle \in Seq(M)
    BY <1>5, <1>6
  <2>2. \A u, x, y : x \in Seq(M) /\ y \in Seq(M) => OfTurn(x \o y, u) = OfTurn(x, u) \o OfTurn(y, u)
    BY OfTurnConcat
  <2> TAKE u
  <2>3. OfTurn(c, u) = OfTurn(first \o middle, u) \o OfTurn(last, u)
    BY <1>1, <1>7, <2>1, <2>2, Zenon
  <2>4. OfTurn(first \o middle, u) = OfTurn(first, u) \o OfTurn(middle, u)
    BY <1>5, <1>6, <2>2, Zenon
  <2> QED
    BY <2>3, <2>4, Zenon
<1>9. ASSUME NEW u, NEW x \in Seq(M)
      PROVE  /\ OfTurn(first, u) = <<>> /\ OfTurn(middle, u) = <<>> /\ OfTurn(last, u) = x
                     => OfTurn(c, u) = x
             /\ OfTurn(first, u) = <<>> /\ OfTurn(middle, u) = x /\ OfTurn(last, u) = <<>>
                     => OfTurn(c, u) = x
             /\ OfTurn(first, u) = x /\ OfTurn(middle, u) = <<>> /\ OfTurn(last, u) = <<>>
                     => OfTurn(c, u) = x
  <2>1. <<>> \o <<>> \o x = x /\ <<>> \o x \o <<>> = x /\ x \o <<>> \o <<>> = x
    OBVIOUS
  <2> QED
    BY <1>8, <2>1, Zenon
<1>10. <<>> \in Seq(M) /\ OfTurn(messages, current) \in Seq(M) /\ OfTurn(messages, t) \in Seq(M)
  BY OfTurnType
<1>11. c \in Seq(M)
  BY <1>1, <1>5, <1>6, <1>7
<1>12. OfTurn(c, current) = OfTurn(messages, current)
  BY <1>5, <1>6, <1>7, <1>9, <1>10
<1>13. ASSUME full = 0, t \notin {current, NoTurn}, \A k \in DOMAIN rows : rows[k].turn # t
       PROVE  OfTurn(c, t) = <<>>
  <2>1. OfTurn(first, t) = <<>> /\ OfTurn(middle, t) = <<>> /\ OfTurn(last, t) = <<>>
    BY <1>3, <1>5, <1>6, <1>7, <1>13
  <2> QED
    BY <1>9, <1>10, <2>1
<1>14. ASSUME NEW k \in DOMAIN rows, t = rows[k].turn, t \notin {current, NoTurn}, OneRowEach(rows)
       PROVE  OfTurn(c, t) \in {Summary(rows[k]), OfTurn(messages, t)}
  <2> DEFINE x == Summary(rows[k])
  <2>1. x \in Seq(M)
    <3>1. \A r \in R : Summary(r) \in Seq(M)
      BY SummaryOfTurn
    <3> QED
      BY <3>1
  <2>2. /\ t \notin detailed => OfTurn(first, t) = x
        /\ t \in detailed => OfTurn(first, t) = <<>>
        /\ t \in detailed /\ t \notin available => OfTurn(middle, t) = x
        /\ t \notin detailed \/ t \in available => OfTurn(middle, t) = <<>>
        /\ t \in detailed => OfTurn(last, t) = OfTurn(messages, t)
        /\ t \notin detailed => OfTurn(last, t) = <<>>
        /\ t \in detailed /\ t \notin available => OfTurn(messages, t) = <<>>
    BY <1>4, <1>5, <1>6, <1>7, <1>14
  <2> HIDE DEF x
  <2>3. OfTurn(c, t) = x \/ OfTurn(c, t) = OfTurn(messages, t)
    BY <1>9, <1>10, <2>1, <2>2
  <2> QED
    BY <2>3 DEF x
<1> QED
  BY <1>11, <1>12, <1>13, <1>14

----
\* The order of a context.

\* Two elements of a concatenation come from parts in that order.
LEMMA FlattenOrder ==
    ASSUME NEW S, NEW s \in Seq(Seq(S)), NEW i \in DOMAIN FlattenSeq(s), NEW j \in DOMAIN FlattenSeq(s),
           i < j
    PROVE  \E a, b \in DOMAIN s : /\ a <= b
                                  /\ FlattenSeq(s)[i] \in ToSet(s[a])
                                  /\ FlattenSeq(s)[j] \in ToSet(s[b])
<1> DEFINE n == Len(s)
<1>1. PICK h : /\ RunningConcat(h, s) /\ FlattenSeq(s) = h[n]
               /\ \A k \in 0 .. n : h[k] \in Seq(S)
  BY FlattenRuns
<1>2. n \in Nat /\ DOMAIN s = 1 .. n /\ \A k \in 1 .. n : s[k] \in Seq(S)
  OBVIOUS
<1> DEFINE From(k, p) == \E a \in 1 .. k : h[k][p] \in ToSet(s[a])
           InOrder(k, p, q) == \E a, b \in 1 .. k :
                                  a <= b /\ h[k][p] \in ToSet(s[a]) /\ h[k][q] \in ToSet(s[b])
           T == {k \in 0 .. n : \A p \in DOMAIN h[k] :
                                   From(k, p) /\ \A q \in DOMAIN h[k] : p < q => InOrder(k, p, q)}
<1>3. 0 \in T
  BY <1>1, <1>2 DEF RunningConcat
<1>4. ASSUME NEW k \in 0 .. n - 1, k \in T PROVE k + 1 \in T
  <2>1. k \in Nat /\ k + 1 \in 1 .. n /\ k + 1 \in 0 .. n /\ (k + 1) - 1 = k /\ k \in 0 .. n
    BY <1>2
  <2>2. h[k + 1] = h[k] \o s[k + 1] /\ h[k] \in Seq(S) /\ s[k + 1] \in Seq(S)
    BY <2>1, <1>1, <1>2 DEF RunningConcat
  <2> DEFINE m == Len(h[k])
             l == Len(s[k + 1])
             g == h[k + 1]
  <2>3. /\ m \in Nat /\ l \in Nat /\ DOMAIN g = 1 .. m + l /\ DOMAIN h[k] = 1 .. m
        /\ \A p \in 1 .. m : g[p] = h[k][p]
        /\ \A p \in (m + 1) .. (m + l) : g[p] = s[k + 1][p - m] /\ p - m \in 1 .. l
        /\ DOMAIN s[k + 1] = 1 .. l
    <3>1. \A x, y \in Seq(S) :
             /\ Len(x) \in Nat /\ Len(y) \in Nat /\ DOMAIN (x \o y) = 1 .. Len(x) + Len(y)
             /\ DOMAIN x = 1 .. Len(x) /\ DOMAIN y = 1 .. Len(y)
             /\ \A p \in 1 .. Len(x) + Len(y) :
                   (x \o y)[p] = IF p <= Len(x) THEN x[p] ELSE y[p - Len(x)]
      OBVIOUS
    <3>2. /\ m \in Nat /\ l \in Nat /\ DOMAIN g = 1 .. m + l
          /\ DOMAIN h[k] = 1 .. m /\ DOMAIN s[k + 1] = 1 .. l
          /\ \A p \in 1 .. m + l : g[p] = IF p <= m THEN h[k][p] ELSE s[k + 1][p - m]
      <4> DEFINE x == h[k]
                 y == s[k + 1]
      <4>1. x \in Seq(S) /\ y \in Seq(S) /\ h[k + 1] = x \o y
        BY <2>2
      <4> HIDE DEF x, y
      <4>2. /\ Len(x) \in Nat /\ Len(y) \in Nat /\ DOMAIN (x \o y) = 1 .. Len(x) + Len(y)
            /\ DOMAIN x = 1 .. Len(x) /\ DOMAIN y = 1 .. Len(y)
            /\ \A p \in 1 .. Len(x) + Len(y) :
                  (x \o y)[p] = IF p <= Len(x) THEN x[p] ELSE y[p - Len(x)]
        BY <3>1, <4>1
      <4> QED
        BY <4>1, <4>2 DEF x, y
    <3> HIDE DEF m, l, g
    <3>3. /\ \A p \in 1 .. m : p \in 1 .. m + l /\ p <= m
          /\ \A p \in (m + 1) .. (m + l) : p \in 1 .. m + l /\ ~(p <= m) /\ p - m \in 1 .. l
      BY <3>2
    <3> QED
      BY <3>2, <3>3
  <2>4. \A p \in (m + 1) .. (m + l) : g[p] \in ToSet(s[k + 1])
    BY <2>3 DEF ToSet
  <2>5. \A p \in 1 .. m : From(k, p) /\ \A q \in 1 .. m : p < q => InOrder(k, p, q)
    BY <1>4, <2>3, ZenonT(40)
  <2> HIDE DEF m, l, g, T
  <2>6. \A p \in 1 .. m : \E a \in 1 .. k : g[p] \in ToSet(s[a])
    BY <2>3, <2>5
  <2>7. \A p, q \in 1 .. m : p < q =>
           \E a, b \in 1 .. k : a <= b /\ g[p] \in ToSet(s[a]) /\ g[q] \in ToSet(s[b])
    BY <2>3, <2>5
  <2>8. /\ \A a \in 1 .. k : a \in 1 .. k + 1 /\ a <= k + 1
        /\ k + 1 \in 1 .. k + 1 /\ k + 1 <= k + 1
        /\ \A p \in 1 .. m + l : p \in 1 .. m \/ p \in (m + 1) .. (m + l)
        /\ \A p \in (m + 1) .. (m + l), q \in 1 .. m : ~(p < q)
    BY <2>1, <2>3
  <2>9. ASSUME NEW p \in 1 .. m + l PROVE \E a \in 1 .. k + 1 : g[p] \in ToSet(s[a])
    BY <2>4, <2>6, <2>8
  <2>10. ASSUME NEW p \in 1 .. m + l, NEW q \in 1 .. m + l, p < q
         PROVE  \E a, b \in 1 .. k + 1 : a <= b /\ g[p] \in ToSet(s[a]) /\ g[q] \in ToSet(s[b])
    <3>1. CASE p \in 1 .. m /\ q \in 1 .. m
      <4>1. PICK a \in 1 .. k, b \in 1 .. k : a <= b /\ g[p] \in ToSet(s[a]) /\ g[q] \in ToSet(s[b])
        BY <2>7, <2>10, <3>1
      <4> QED
        BY <2>8, <4>1
    <3>2. CASE p \in 1 .. m /\ q \in (m + 1) .. (m + l)
      <4>1. PICK a \in 1 .. k : g[p] \in ToSet(s[a])
        BY <2>6, <3>2
      <4> QED
        BY <2>4, <2>8, <3>2, <4>1
    <3>3. CASE p \in (m + 1) .. (m + l) /\ q \in (m + 1) .. (m + l)
      BY <2>4, <2>8, <3>3
    <3> QED
      BY <2>8, <2>10, <3>1, <3>2, <3>3
  <2>11. ASSUME NEW p \in DOMAIN h[k + 1]
         PROVE  From(k + 1, p) /\ \A q \in DOMAIN h[k + 1] : p < q => InOrder(k + 1, p, q)
    BY <2>3, <2>9, <2>10 DEF g
  <2> HIDE DEF From, InOrder
  <2> QED
    BY <2>1, <2>11 DEF T
<1>5. n \in T
  <2> HIDE DEF T
  <2>1. \A k \in 0 .. n : k \in T
    BY <1>2, <1>3, <1>4, Induct
  <2> QED
    BY <1>2, <2>1
<1>6. InOrder(n, i, j)
  BY <1>1, <1>5
<1> QED
  BY <1>1, <1>2, <1>6

\* The elements of c that belong to a turn of T follow the clock.
FollowsClock(c, T, when) ==
    \A i, j \in DOMAIN c :
        i < j /\ c[i].turn \in T /\ c[j].turn \in T => when[c[i].turn] <= when[c[j].turn]

\* A concatenation does if its parts belong to a turn each and follow it.
LEMMA FlattenFollows ==
    ASSUME NEW M, NEW s \in Seq(Seq(M)), NEW T, NEW when, NEW turn,
           \A a \in DOMAIN s : \A x \in ToSet(s[a]) : x.turn = turn[a],
           \A a, b \in DOMAIN s :
               a <= b /\ turn[a] \in T /\ turn[b] \in T => when[turn[a]] <= when[turn[b]]
    PROVE  FollowsClock(FlattenSeq(s), T, when)
<1> DEFINE c == FlattenSeq(s)
<1> SUFFICES ASSUME NEW i \in DOMAIN c, NEW j \in DOMAIN c, i < j, c[i].turn \in T, c[j].turn \in T
             PROVE  when[c[i].turn] <= when[c[j].turn]
  BY DEF FollowsClock
<1>1. PICK a \in DOMAIN s, b \in DOMAIN s : a <= b /\ c[i] \in ToSet(s[a]) /\ c[j] \in ToSet(s[b])
  BY FlattenOrder
<1> HIDE DEF c
<1>2. c[i].turn = turn[a] /\ c[j].turn = turn[b]
  BY <1>1
<1> QED
  BY <1>1, <1>2

LEMMA HistoryFollows ==
    ASSUME NEW M, NEW R, Summarises(M, R), NEW rows \in Seq(R), NEW detailed, NEW current,
           NEW T, NEW when,
           \A i, j \in DOMAIN rows :
               i <= j /\ rows[i].turn \in T /\ rows[j].turn \in T
                   => when[rows[i].turn] <= when[rows[j].turn]
    PROVE  FollowsClock(historyTurnsAsMessages(rows, detailed, current), T, when)
<1> DEFINE s == [i \in DOMAIN rows |->
                    IF rows[i].turn \in detailed \cup {current} THEN <<>> ELSE Summary(rows[i])]
           turn == [i \in DOMAIN rows |-> rows[i].turn]
<1>1. historyTurnsAsMessages(rows, detailed, current) = FlattenSeq(s)
  BY DEF historyTurnsAsMessages
<1>2. /\ DOMAIN s = DOMAIN rows /\ s = [i \in DOMAIN s |-> s[i]]
      /\ \A i \in DOMAIN rows : s[i] = <<>> \/ s[i] = Summary(rows[i])
      /\ \A i \in DOMAIN rows : turn[i] = rows[i].turn /\ rows[i] \in R
  OBVIOUS
<1> HIDE DEF s, turn
<1>3. s \in Seq(Seq(M))
  BY <1>2, SummariesOfTurn
<1>4. ASSUME NEW a \in DOMAIN s, NEW x \in ToSet(s[a]) PROVE x.turn = turn[a]
  <2>1. \A r \in R : \A i \in DOMAIN Summary(r) : Summary(r)[i].turn = r.turn
    BY SummaryOfTurn
  <2>2. ToSet(<<>>) = {}
    BY DEF ToSet
  <2>3. s[a] = Summary(rows[a])
    BY <1>2, <1>4, <2>2
  <2>4. PICK i \in DOMAIN Summary(rows[a]) : x = Summary(rows[a])[i]
    BY <1>4, <2>3 DEF ToSet
  <2> QED
    BY <1>2, <2>1, <2>4
<1>5. \A a, b \in DOMAIN s :
         a <= b /\ turn[a] \in T /\ turn[b] \in T => when[turn[a]] <= when[turn[b]]
  BY <1>2
<1> QED
  BY <1>1, <1>3, <1>4, <1>5, FlattenFollows

LEMMA DetailedFollows ==
    ASSUME NEW M, NEW messages \in Seq(M), NEW detailed, NEW T, NEW when,
           \A i, j \in DOMAIN messages :
               i <= j /\ messages[i].turn \in T /\ messages[j].turn \in T
                   => when[messages[i].turn] <= when[messages[j].turn]
    PROVE  FollowsClock(appendDetailedMessages(messages, detailed), T, when)
<1> DEFINE kept(i) == messages[i].turn = NoTurn \/ messages[i].turn \in detailed
           s == [i \in DOMAIN messages |-> IF kept(i) THEN <<messages[i]>> ELSE <<>>]
           turn == [i \in DOMAIN messages |-> messages[i].turn]
<1>1. appendDetailedMessages(messages, detailed) = FlattenSeq(s)
  BY DEF appendDetailedMessages, Where
<1>2. /\ DOMAIN s = DOMAIN messages /\ Len(messages) \in Nat /\ DOMAIN messages = 1 .. Len(messages)
      /\ \A i \in DOMAIN messages :
            /\ messages[i] \in M /\ turn[i] = messages[i].turn
            /\ s[i] = <<messages[i]>> \/ s[i] = <<>>
      /\ s = [i \in 1 .. Len(messages) |-> s[i]]
  OBVIOUS
<1> HIDE DEF s, turn
<1>3. s \in Seq(Seq(M))
  <2>1. <<>> \in Seq(M) /\ \A m \in M : <<m>> \in Seq(M)
    OBVIOUS
  <2>2. \A i \in 1 .. Len(messages) : s[i] \in Seq(M)
    BY <1>2, <2>1
  <2> QED
    BY <1>2, <2>2
<1>4. ASSUME NEW a \in DOMAIN s, NEW x \in ToSet(s[a]) PROVE x.turn = turn[a]
  <2>1. ToSet(<<>>) = {} /\ ToSet(<<messages[a]>>) = {messages[a]}
    BY DEF ToSet
  <2> QED
    BY <1>2, <1>4, <2>1
<1>5. \A a, b \in DOMAIN s :
         a <= b /\ turn[a] \in T /\ turn[b] \in T => when[turn[a]] <= when[turn[b]]
  BY <1>2
<1> QED
  BY <1>1, <1>3, <1>4, <1>5, FlattenFollows

LEMMA ConcatFollows ==
    ASSUME NEW M, NEW a \in Seq(M), NEW b \in Seq(M), NEW T, NEW when,
           FollowsClock(a, T, when), FollowsClock(b, T, when),
           \A i \in DOMAIN a, j \in DOMAIN b :
               a[i].turn \in T /\ b[j].turn \in T => when[a[i].turn] <= when[b[j].turn]
    PROVE  FollowsClock(a \o b, T, when)
<1> DEFINE c == a \o b
           l == Len(a)
           n == Len(b)
<1>1. /\ l \in Nat /\ n \in Nat /\ DOMAIN a = 1 .. l /\ DOMAIN b = 1 .. n /\ DOMAIN c = 1 .. l + n
      /\ \A i \in 1 .. l + n : c[i] = IF i <= l THEN a[i] ELSE b[i - l]
  OBVIOUS
<1> HIDE DEF c, l, n
<1> SUFFICES ASSUME NEW i \in DOMAIN c, NEW j \in DOMAIN c, i < j, c[i].turn \in T, c[j].turn \in T
             PROVE  when[c[i].turn] <= when[c[j].turn]
  BY DEF FollowsClock, c
<1>2. CASE i <= l /\ j <= l
  BY <1>1, <1>2 DEF FollowsClock
<1>3. CASE i <= l /\ ~(j <= l)
  <2>1. c[i] = a[i] /\ c[j] = b[j - l] /\ i \in 1 .. l /\ j - l \in 1 .. n
    BY <1>1, <1>3
  <2> QED
    BY <1>1, <2>1
<1>4. CASE ~(i <= l)
  <2>1. c[i] = b[i - l] /\ c[j] = b[j - l] /\ i - l \in 1 .. n /\ j - l \in 1 .. n /\ i - l < j - l
    BY <1>1, <1>4, SMTT(30)
  <2> QED
    BY <1>1, <2>1 DEF FollowsClock
<1> QED
  BY <1>2, <1>3, <1>4

\* A turn that is not among the last n was asked before each of them.
LEMMA LastTurnsAreLast ==
    ASSUME NEW M, NEW messages \in Seq(M), NEW current, NEW n \in Nat,
           NEW v \in lastNTurnIDs(messages, current, n),
           NEW u, u \notin lastNTurnIDs(messages, current, n),
           NEW q \in DOMAIN messages, messages[q].turn = u, isPreviousUserTurn(messages[q], current)
    PROVE  \E i, j \in DOMAIN messages : i < j /\ messages[i].turn = u /\ messages[j].turn = v
<1> DEFINE asked == {i \in DOMAIN messages : isPreviousUserTurn(messages[i], current)}
           opens == {i \in asked : \A j \in asked : messages[j].turn = messages[i].turn => i <= j}
           after(k) == {j \in opens : j > k}
<1>1. lastNTurnIDs(messages, current, n) =
         {messages[i].turn : i \in {k \in opens : Cardinality(after(k)) < n}}
  BY DEF lastNTurnIDs
<1>2. PICK j \in opens : v = messages[j].turn /\ Cardinality(after(j)) < n
  BY <1>1
<1>3. Len(messages) \in Nat /\ DOMAIN messages = 1 .. Len(messages)
  OBVIOUS
<1>4. PICK i \in opens : messages[i].turn = u
  <2> DEFINE Q == {p \in asked : messages[p].turn = u}
  <2>1. Q \in SUBSET Nat /\ Q # {}
    BY <1>3
  <2>2. PICK p \in Q : \A k \in Q : p <= k
    <3> HIDE DEF Q
    <3> QED
      BY <2>1, Least
  <2>3. p \in opens
    BY <2>2
  <2> QED
    BY <2>2, <2>3
<1>5. i \in 1 .. Len(messages) /\ j \in 1 .. Len(messages) /\ opens \subseteq 1 .. Len(messages)
  BY <1>2, <1>3, <1>4
<1>6. ~(Cardinality(after(i)) < n)
  BY <1>1, <1>4
<1> HIDE DEF asked, opens
<1>7. ASSUME j <= i PROVE FALSE
  <2>1. after(i) \subseteq after(j)
    <3>1. ASSUME NEW p \in after(i) PROVE p \in after(j)
      <4>1. p \in opens /\ p > i /\ p \in Nat /\ i \in Nat /\ j \in Nat
        BY <1>3, <1>5, <3>1
      <4>2. p > j
        BY <1>7, <4>1
      <4> QED
        BY <4>1, <4>2
    <3> QED
      BY <3>1
  <2>2. IsFiniteSet(opens)
    <3>1. IsFiniteSet(1 .. Len(messages))
      BY <1>3, FS_Interval
    <3> QED
      BY <1>5, <3>1, FS_Subset
  <2>3. IsFiniteSet(after(j)) /\ IsFiniteSet(after(i))
    BY <2>2, FS_Subset
  <2>4. Cardinality(after(i)) <= Cardinality(after(j))
    BY <2>1, <2>3, FS_Subset
  <2>5. Cardinality(after(i)) \in Nat /\ Cardinality(after(j)) \in Nat
    BY <2>3, FS_CardinalityType
  <2> QED
    BY <1>2, <1>6, <2>4, <2>5
<1> QED
  BY <1>2, <1>3, <1>4, <1>5, <1>7

\* The order of a context: turns that are recorded, as complete, and asked before the
\* current one follow the clock, if the stored messages and the rows do.
THEOREM ContextInOrder ==
    ASSUME NEW M, NEW R, Summarises(M, R), NEW messages \in Seq(M), NEW rows \in Seq(R),
           NEW current, NEW full \in Nat,
           NEW c \in BuildContextMessages(messages, rows, current, full), NEW T, NEW when,
           \A u \in T :
               /\ u \notin {NoTurn, current}
               /\ \E q \in DOMAIN messages : messages[q].turn = u /\ messages[q].role = "user"
               /\ \A k \in DOMAIN rows : rows[k].turn = u => rows[k].status # "incomplete",
           \A i, j \in DOMAIN messages :
               i <= j /\ messages[i].turn \in T /\ messages[j].turn \in T
                   => when[messages[i].turn] <= when[messages[j].turn],
           \A i, j \in DOMAIN rows :
               i <= j /\ rows[i].turn \in T /\ rows[j].turn \in T
                   => when[rows[i].turn] <= when[rows[j].turn]
    PROVE  FollowsClock(c, T, when)
<1> DEFINE detailed == selectDetailedTurnIDs(messages, rows, current, full)
           available == buildAvailableDetailedSet(messages, detailed)
           first == historyTurnsAsMessages(rows, detailed, current)
           last == appendDetailedMessages(messages, detailed)
<1>0. ~(full < 0)
  OBVIOUS
<1>1. PICK middle \in appendFallbackSummaries(rows, detailed, available, current) :
         c = first \o middle \o last
  BY <1>0 DEF BuildContextMessages
<1>2. ASSUME NEW u \in T PROVE u \in detailed <=> full > 0 /\ u \in lastNTurnIDs(messages, current, full)
  BY DEF selectDetailedTurnIDs, ToSet
<1>3. ASSUME NEW u \in T, u \in detailed PROVE u \in available
  BY <1>3 DEF buildAvailableDetailedSet, ToSet
<1>4. ASSUME NEW u \in T, NEW v \in T, u \notin detailed, v \in detailed
      PROVE  when[u] <= when[v]
  <2>1. u \notin lastNTurnIDs(messages, current, full) /\ v \in lastNTurnIDs(messages, current, full)
    BY <1>2, <1>4
  <2>2. PICK q \in DOMAIN messages : messages[q].turn = u /\ isPreviousUserTurn(messages[q], current)
    BY DEF isPreviousUserTurn
  <2>3. PICK i \in DOMAIN messages, j \in DOMAIN messages :
           i < j /\ messages[i].turn = u /\ messages[j].turn = v
    BY <2>1, <2>2, LastTurnsAreLast
  <2>4. i <= j
    BY <2>3
  <2> QED
    BY <1>4, <2>3, <2>4
<1> HIDE DEF detailed, available
<1>5. /\ first \in Seq(M) /\ FollowsClock(first, T, when)
      /\ \A i \in DOMAIN first : first[i].turn \notin detailed
  <2>1. \A t : /\ first \in Seq(M)
               /\ t \in detailed \cup {current} => OfTurn(first, t) = <<>>
    BY HistoryPart
  <2>2. FollowsClock(first, T, when)
    BY HistoryFollows
  <2> HIDE DEF first
  <2>3. \A t : OfTurn(first, t) = <<>> => \A i \in DOMAIN first : first[i].turn # t
    BY <2>1, OfTurnEmpty
  <2> QED
    BY <2>1, <2>2, <2>3
<1>6. middle \in Seq(M) /\ \A i \in DOMAIN middle : middle[i].turn \notin T
  <2>1. \A t : /\ middle \in Seq(M)
               /\ t \notin detailed \ (available \cup {current}) => OfTurn(middle, t) = <<>>
    BY <1>1, FallbackPart
  <2>2. \A t : OfTurn(middle, t) = <<>> => \A i \in DOMAIN middle : middle[i].turn # t
    BY <2>1, OfTurnEmpty
  <2> QED
    BY <1>3, <2>1, <2>2
<1>7. /\ last \in Seq(M) /\ FollowsClock(last, T, when)
      /\ \A i \in DOMAIN last : last[i].turn \in T => last[i].turn \in detailed
  <2>0. last \in Seq(M)
    BY DetailedPart
  <2>1. ASSUME NEW t, t \notin detailed, t # NoTurn PROVE OfTurn(last, t) = <<>>
    BY <2>1, DetailedPart
  <2>2. FollowsClock(last, T, when)
    BY DetailedFollows
  <2> HIDE DEF last
  <2>3. \A t : OfTurn(last, t) = <<>> => \A i \in DOMAIN last : last[i].turn # t
    BY <2>0, OfTurnEmpty
  <2>4. \A u \in T : u # NoTurn
    OBVIOUS
  <2> QED
    BY <2>0, <2>1, <2>2, <2>3, <2>4
<1> HIDE DEF first, last
<1> DEFINE start == first \o middle
<1>8. /\ start \in Seq(M) /\ FollowsClock(start, T, when)
      /\ \A i \in DOMAIN start : start[i].turn \in T => start[i].turn \notin detailed
  <2>1. FollowsClock(middle, T, when)
    BY <1>6 DEF FollowsClock
  <2>2. start \in Seq(M) /\ FollowsClock(start, T, when)
    BY <1>5, <1>6, <2>1, ConcatFollows
  <2>3. ASSUME NEW i \in DOMAIN start
        PROVE  (\E k \in DOMAIN first : start[i] = first[k]) \/ \E k \in DOMAIN middle : start[i] = middle[k]
    <3>1. /\ Len(first) \in Nat /\ Len(middle) \in Nat /\ i \in 1 .. Len(first) + Len(middle)
          /\ DOMAIN first = 1 .. Len(first) /\ DOMAIN middle = 1 .. Len(middle)
          /\ start[i] = IF i <= Len(first) THEN first[i] ELSE middle[i - Len(first)]
      BY <1>5, <1>6, <2>3
    <3>2. CASE i <= Len(first)
      BY <3>1, <3>2
    <3>3. CASE ~(i <= Len(first))
      <4>1. i - Len(first) \in DOMAIN middle /\ start[i] = middle[i - Len(first)]
        BY <3>1, <3>3
      <4> QED
        BY <4>1
    <3> QED
      BY <3>2, <3>3
  <2> QED
    BY <1>5, <1>6, <2>2, <2>3
<1>9. c = start \o last
  BY <1>1
<1> HIDE DEF start
<1>10. \A i \in DOMAIN start, j \in DOMAIN last :
          start[i].turn \in T /\ last[j].turn \in T => when[start[i].turn] <= when[last[j].turn]
  BY <1>4, <1>7, <1>8
<1> QED
  BY <1>7, <1>8, <1>9, <1>10, ConcatFollows

----
\* Dialogues: which contexts make a request.

\* The messages of M speak of calls of C.
SpeakOf(M, C) == \A m \in M : m.role \in {"user", "assistant", "tool"} /\ m.calls \in Seq(C)

\* The i-th message of c may come when the calls before are owed, and then after are:
\* a question and a response when none is, a response not behind another one, and
\* the result of the first of them.
Follows(c, i, before, after) ==
    \/ c[i].role = "user" /\ before = <<>> /\ after = <<>>
    \/ /\ c[i].role = "assistant" /\ before = <<>> /\ after = c[i].calls
       /\ i > 1 /\ c[i - 1].role # "assistant"
    \/ c[i].role = "tool" /\ before # <<>> /\ c[i].calls = <<Head(before)>> /\ after = Tail(before)

\* Each message of c may come, p[i] being the calls owed behind the i-th.
Dialogue(p, c, C) ==
    /\ p \in [0 .. Len(c) -> Seq(C)]
    /\ p[0] = <<>>
    /\ \A i \in 1 .. Len(c) : Follows(c, i, p[i - 1], p[i])

\* The conversation c is a dialogue whose last calls, owed, have no result yet.
Owes(c, C, owed) == \E p : Dialogue(p, c, C) /\ p[Len(c)] = owed

\* Nothing said, nothing owed.
LEMMA OwesNothing == ASSUME NEW C PROVE Owes(<<>>, C, <<>>)
<1> DEFINE p == [i \in 0 .. 0 |-> <<>>]
<1>1. Dialogue(p, <<>>, C) /\ p[Len(<<>>)] = <<>>
  BY DEF Dialogue
<1> HIDE DEF p
<1> QED
  BY <1>1 DEF Owes

\* One message more.
LEMMA OwesAppend ==
    ASSUME NEW M, NEW C, SpeakOf(M, C), NEW c \in Seq(M), NEW m \in M,
           NEW p, Dialogue(p, c, C), NEW after \in Seq(C),
           Follows(Append(c, m), Len(c) + 1, p[Len(c)], after)
    PROVE  Owes(Append(c, m), C, after)
<1> DEFINE n == Len(c)
           d == Append(c, m)
           q == [i \in 0 .. n + 1 |-> IF i <= n THEN p[i] ELSE after]
<1>1. /\ n \in Nat /\ Len(d) = n + 1 /\ d \in Seq(M) /\ d[n + 1] = m
      /\ \A i \in 1 .. n : d[i] = c[i]
  OBVIOUS
<1>2. p \in [0 .. n -> Seq(C)] /\ p[0] = <<>> /\ \A i \in 1 .. n : Follows(c, i, p[i - 1], p[i])
  BY DEF Dialogue
<1>3. Follows(d, n + 1, p[n], after)
  OBVIOUS
<1> HIDE DEF d, n
<1>4. q \in [0 .. n + 1 -> Seq(C)] /\ q[0] = <<>> /\ q[n + 1] = after
  BY <1>1, <1>2
<1>5. \A i \in 1 .. n + 1 : Follows(d, i, q[i - 1], q[i])
  <2> TAKE i \in 1 .. n + 1
  <2>1. CASE i = n + 1
    <3>1. q[i - 1] = p[n] /\ q[i] = after
      BY <1>1, <2>1
    <3> HIDE DEF q
    <3> QED
      BY <1>3, <2>1, <3>1
  <2>2. CASE i # n + 1
    <3>1. i \in 1 .. n /\ q[i - 1] = p[i - 1] /\ q[i] = p[i] /\ d[i] = c[i]
          /\ (i > 1 => d[i - 1] = c[i - 1])
      BY <1>1, <2>2
    <3>2. Follows(c, i, p[i - 1], p[i])
      BY <1>2, <3>1
    <3> HIDE DEF q
    <3> QED
      BY <3>1, <3>2 DEF Follows
  <2> QED
    BY <2>1, <2>2
<1> HIDE DEF q
<1> QED
  BY <1>1, <1>4, <1>5 DEF Owes, Dialogue, d

\* A question, a response and a result, where they may come.
LEMMA OwesQuestion ==
    ASSUME NEW M, NEW C, SpeakOf(M, C), NEW c \in Seq(M), NEW m \in M,
           Owes(c, C, <<>>), m.role = "user"
    PROVE  Owes(Append(c, m), C, <<>>)
<1>1. PICK p : Dialogue(p, c, C) /\ p[Len(c)] = <<>>
  BY DEF Owes
<1>2. Append(c, m)[Len(c) + 1] = m
  OBVIOUS
<1>3. Follows(Append(c, m), Len(c) + 1, p[Len(c)], <<>>) /\ <<>> \in Seq(C)
  BY <1>1, <1>2 DEF Follows
<1> QED
  BY <1>1, <1>3, OwesAppend

LEMMA OwesResponse ==
    ASSUME NEW M, NEW C, SpeakOf(M, C), NEW c \in Seq(M), NEW m \in M,
           Owes(c, C, <<>>), c # <<>>, Last(c).role # "assistant", m.role = "assistant"
    PROVE  Owes(Append(c, m), C, m.calls)
<1>1. PICK p : Dialogue(p, c, C) /\ p[Len(c)] = <<>>
  BY DEF Owes
<1>2. /\ Append(c, m)[Len(c) + 1] = m /\ Len(c) + 1 > 1
      /\ Append(c, m)[(Len(c) + 1) - 1] = Last(c)
  BY DEF Last
<1>3. Follows(Append(c, m), Len(c) + 1, p[Len(c)], m.calls) /\ m.calls \in Seq(C)
  BY <1>1, <1>2 DEF Follows, SpeakOf
<1> QED
  BY <1>1, <1>3, OwesAppend

LEMMA OwesResult ==
    ASSUME NEW M, NEW C, SpeakOf(M, C), NEW c \in Seq(M), NEW m \in M,
           NEW owed \in Seq(C), owed # <<>>, Owes(c, C, owed),
           m.role = "tool", m.calls = <<Head(owed)>>
    PROVE  Owes(Append(c, m), C, Tail(owed))
<1>1. PICK p : Dialogue(p, c, C) /\ p[Len(c)] = owed
  BY DEF Owes
<1>2. Append(c, m)[Len(c) + 1] = m
  OBVIOUS
<1>3. Follows(Append(c, m), Len(c) + 1, p[Len(c)], Tail(owed)) /\ Tail(owed) \in Seq(C)
  BY <1>1, <1>2 DEF Follows
<1> QED
  BY <1>1, <1>3, OwesAppend

\* What follows a dialogue that owes nothing may be any dialogue.
LEMMA OwesConcat ==
    ASSUME NEW M, NEW C, NEW a \in Seq(M), NEW b \in Seq(M), NEW owed,
           Owes(a, C, <<>>), Owes(b, C, owed)
    PROVE  Owes(a \o b, C, owed)
<1> DEFINE m == Len(a)
           n == Len(b)
           c == a \o b
<1>1. PICK p : Dialogue(p, a, C) /\ p[m] = <<>>
  BY DEF Owes
<1>2. PICK q : Dialogue(q, b, C) /\ q[n] = owed
  BY DEF Owes
<1> DEFINE r == [i \in 0 .. m + n |-> IF i <= m THEN p[i] ELSE q[i - m]]
<1>3. /\ m \in Nat /\ n \in Nat /\ Len(c) = m + n
      /\ \A i \in 1 .. m : c[i] = a[i]
      /\ \A i \in (m + 1) .. (m + n) : c[i] = b[i - m]
  OBVIOUS
<1>4. p \in [0 .. m -> Seq(C)] /\ p[0] = <<>> /\ \A i \in 1 .. m : Follows(a, i, p[i - 1], p[i])
  BY <1>1 DEF Dialogue
<1>5. q \in [0 .. n -> Seq(C)] /\ q[0] = <<>> /\ \A i \in 1 .. n : Follows(b, i, q[i - 1], q[i])
  BY <1>2 DEF Dialogue
<1> HIDE DEF c, m, n
<1>6. \A i \in m .. m + n : r[i] = q[i - m]
  <2> TAKE i \in m .. m + n
  <2>1. CASE i = m
    <3>1. i \in 0 .. m + n /\ i <= m /\ i - m = 0
      BY <2>1, <1>3
    <3> QED
      BY <3>1, <2>1, <1>1, <1>5
  <2>2. CASE i # m
    BY <2>2, <1>3
  <2> QED
    BY <2>1, <2>2
<1>7. r \in [0 .. m + n -> Seq(C)] /\ r[0] = <<>> /\ r[m + n] = owed
  <2>1. r[m + n] = q[n]
    <3>1. m + n \in m .. m + n /\ (m + n) - m = n
      BY <1>3
    <3> HIDE DEF r
    <3> QED
      BY <3>1, <1>6
  <2>2. \A i \in 0 .. m + n : (i <= m => i \in 0 .. m) /\ (~(i <= m) => i - m \in 0 .. n)
    BY <1>3
  <2> QED
    BY <1>2, <1>3, <1>4, <1>5, <2>1, <2>2, SMTT(30)
<1>8. \A i \in 1 .. m + n : Follows(c, i, r[i - 1], r[i])
  <2> TAKE i \in 1 .. m + n
  <2>1. CASE i <= m
    <3>0. /\ i \in 1 .. m /\ i \in 0 .. m + n /\ i - 1 \in 0 .. m + n /\ i - 1 <= m
          /\ (i > 1 => i - 1 \in 1 .. m)
      BY <1>3, <2>1
    <3>1. i \in 1 .. m /\ r[i - 1] = p[i - 1] /\ r[i] = p[i] /\ c[i] = a[i]
          /\ (i > 1 => c[i - 1] = a[i - 1])
      BY <1>3, <2>1, <3>0
    <3>2. Follows(a, i, p[i - 1], p[i])
      BY <1>4, <3>1
    <3> HIDE DEF r
    <3> QED
      BY <3>1, <3>2 DEF Follows
  <2>2. CASE ~(i <= m)
    <3>0. /\ i - m \in 1 .. n /\ i \in (m + 1) .. (m + n) /\ i \in m .. m + n
          /\ i - 1 \in m .. m + n /\ (i - m) - 1 = (i - 1) - m
          /\ (i - m > 1 => i > 1 /\ i - 1 \in (m + 1) .. (m + n))
      BY <1>3, <2>2
    <3> HIDE DEF r
    <3>1. r[i] = q[i - m] /\ c[i] = b[i - m] /\ (i - m > 1 => c[i - 1] = b[(i - m) - 1])
      BY <1>3, <1>6, <3>0
    <3>2. r[i - 1] = q[(i - m) - 1]
      BY <1>6, <3>0
    <3>3. Follows(b, i - m, q[(i - m) - 1], q[i - m])
      BY <1>5, <3>0
    <3> QED
      BY <3>0, <3>1, <3>2, <3>3 DEF Follows
  <2> QED
    BY <2>1, <2>2
<1> HIDE DEF r
<1> QED
  BY <1>3, <1>7, <1>8 DEF Owes, Dialogue, c

\* A sequence of dialogues that owe nothing is one.
LEMMA OwesFlatten ==
    ASSUME NEW M, NEW C, NEW s \in Seq(Seq(M)), \A i \in DOMAIN s : Owes(s[i], C, <<>>)
    PROVE  Owes(FlattenSeq(s), C, <<>>)
<1> DEFINE n == Len(s)
<1>1. PICK h : /\ RunningConcat(h, s) /\ FlattenSeq(s) = h[n]
               /\ \A i \in 0 .. n : h[i] \in Seq(M)
  BY FlattenRuns
<1>2. n \in Nat /\ DOMAIN s = 1 .. n /\ \A i \in 1 .. n : s[i] \in Seq(M)
  OBVIOUS
<1> DEFINE T == {i \in 0 .. n : Owes(h[i], C, <<>>)}
<1>3. 0 \in T
  BY <1>1, <1>2, OwesNothing DEF RunningConcat
<1>4. ASSUME NEW i \in 0 .. n - 1, i \in T PROVE i + 1 \in T
  <2>1. i \in Nat /\ i + 1 \in 1 .. n /\ i + 1 \in 0 .. n /\ (i + 1) - 1 = i /\ i \in 0 .. n
    BY <1>2
  <2>2. h[i + 1] = h[i] \o s[i + 1] /\ h[i] \in Seq(M) /\ s[i + 1] \in Seq(M)
    BY <2>1, <1>1, <1>2 DEF RunningConcat
  <2>3. Owes(h[i], C, <<>>) /\ Owes(s[i + 1], C, <<>>)
    BY <1>2, <1>4, <2>1
  <2>4. Owes(h[i + 1], C, <<>>)
    BY <2>2, <2>3, OwesConcat
  <2> QED
    BY <2>1, <2>4
<1>5. n \in T
  <2> HIDE DEF T
  <2>1. \A i \in 0 .. n : i \in T
    BY <1>2, <1>3, <1>4, Induct
  <2> QED
    BY <1>2, <2>1
<1> QED
  BY <1>1, <1>5

\* The summary of a turn is a dialogue: a question, and a response that makes no call.
LEMMA OwesSummary ==
    ASSUME NEW M, NEW C, NEW R, SpeakOf(M, C), Summarises(M, R), NEW r \in R
    PROVE  Owes(Summary(r), C, <<>>)
<1> DEFINE q == UserMessage(r.turn)
           a == AssistantMessage(r.turn, <<>>)
<1>1. /\ q \in M /\ q.role = "user"
      /\ a \in M /\ a.role = "assistant" /\ a.calls = <<>>
  BY DEF Summarises, UserMessage, AssistantMessage
<1>2. Summary(r) = IF r.answer THEN <<q>> \o <<a>> ELSE <<q>> \o <<>>
  BY DEF Summary
<1> HIDE DEF q, a
<1>3. /\ <<>> \in Seq(M) /\ <<q>> \in Seq(M) /\ <<q>> = Append(<<>>, q)
      /\ <<q>> \o <<a>> = Append(<<q>>, a) /\ <<q>> \o <<>> = <<q>>
      /\ <<q>> # <<>> /\ Last(<<q>>) = q
  BY <1>1 DEF Last
<1>4. Owes(<<q>>, C, <<>>)
  BY <1>1, <1>3, OwesNothing, OwesQuestion
<1>5. Owes(Append(<<q>>, a), C, <<>>)
  <2>1. Last(<<q>>).role # "assistant"
    BY <1>1, <1>3
  <2>2. Owes(Append(<<q>>, a), C, a.calls)
    BY <1>1, <1>3, <1>4, <2>1, OwesResponse
  <2> QED
    BY <1>1, <2>2
<1> QED
  BY <1>2, <1>3, <1>4, <1>5

\* The parts of a context that are made of summaries owe nothing.
LEMMA OwesSummaries ==
    ASSUME NEW M, NEW C, NEW R, SpeakOf(M, C), Summarises(M, R), NEW rows \in Seq(R), NEW s,
           DOMAIN s = DOMAIN rows, s = [i \in DOMAIN s |-> s[i]],
           \A i \in DOMAIN rows : s[i] = <<>> \/ s[i] = Summary(rows[i])
    PROVE  FlattenSeq(s) \in Seq(M) /\ Owes(FlattenSeq(s), C, <<>>)
<1>1. s \in Seq(Seq(M)) /\ FlattenSeq(s) \in Seq(M)
  BY SummariesOfTurn
<1>2. \A i \in DOMAIN rows : rows[i] \in R
  OBVIOUS
<1>3. \A r \in R : Owes(Summary(r), C, <<>>)
  BY OwesSummary
<1>4. Owes(<<>>, C, <<>>)
  BY OwesNothing
<1>5. \A i \in DOMAIN s : Owes(s[i], C, <<>>)
  BY <1>2, <1>3, <1>4
<1> QED
  BY <1>1, <1>5, OwesFlatten

\* A context is a dialogue that owes nothing if the messages of the turns it shows in
\* full are one.
THEOREM ContextOwes ==
    ASSUME NEW M, NEW C, NEW R, SpeakOf(M, C), Summarises(M, R),
           NEW messages \in Seq(M), NEW rows \in Seq(R), NEW current, NEW full, ~(full < 0),
           LET detailed == selectDetailedTurnIDs(messages, rows, current, full)
           IN  Owes(appendDetailedMessages(messages, detailed), C, <<>>),
           NEW c \in BuildContextMessages(messages, rows, current, full)
    PROVE  Owes(c, C, <<>>)
<1> DEFINE detailed == selectDetailedTurnIDs(messages, rows, current, full)
           available == buildAvailableDetailedSet(messages, detailed)
           first == historyTurnsAsMessages(rows, detailed, current)
           last == appendDetailedMessages(messages, detailed)
<1>1. PICK middle \in appendFallbackSummaries(rows, detailed, available, current) :
         c = first \o middle \o last
  BY DEF BuildContextMessages
<1>2. Owes(last, C, <<>>)
  OBVIOUS
<1> HIDE DEF detailed, available
<1>3. last \in Seq(M)
  BY DetailedPart
<1>4. first \in Seq(M) /\ Owes(first, C, <<>>)
  <2> DEFINE s == [i \in DOMAIN rows |->
                    IF rows[i].turn \in detailed \cup {current} THEN <<>> ELSE Summary(rows[i])]
  <2>1. first = FlattenSeq(s)
    BY DEF historyTurnsAsMessages
  <2>2. /\ DOMAIN s = DOMAIN rows /\ s = [i \in DOMAIN s |-> s[i]]
        /\ \A i \in DOMAIN rows : s[i] = <<>> \/ s[i] = Summary(rows[i])
    OBVIOUS
  <2> HIDE DEF s
  <2>3. FlattenSeq(s) \in Seq(M) /\ Owes(FlattenSeq(s), C, <<>>)
    BY <2>2, OwesSummaries
  <2> QED
    BY <2>1, <2>3
<1>5. middle \in Seq(M) /\ Owes(middle, C, <<>>)
  <2> DEFINE missing == {r \in ToSet(rows) : r.turn \in detailed \ (available \cup {current})}
  <2>1. PICK order \in SetToSeqs(missing) : middle = Summaries(order)
    BY <1>1 DEF appendFallbackSummaries
  <2>2. IsFiniteSet(missing) /\ missing \subseteq R
    <3>1. missing \subseteq ToSet(rows)
      OBVIOUS
    <3>2. ToSet(rows) \subseteq R
      BY DEF ToSet
    <3> QED
      BY <3>1, <3>2, ToSetFinite, FS_Subset
  <2>3. order \in Seq(missing)
    <3> HIDE DEF missing
    <3> QED
      BY <2>1, <2>2, OrderOf
  <2> HIDE DEF missing
  <2>4. order \in Seq(R)
    BY <2>2, <2>3
  <2> DEFINE s == [i \in DOMAIN order |-> Summary(order[i])]
  <2>5. middle = FlattenSeq(s)
    BY <2>1 DEF Summaries
  <2>6. /\ DOMAIN s = DOMAIN order /\ s = [i \in DOMAIN s |-> s[i]]
        /\ \A i \in DOMAIN order : s[i] = <<>> \/ s[i] = Summary(order[i])
    OBVIOUS
  <2> HIDE DEF s
  <2>7. FlattenSeq(s) \in Seq(M) /\ Owes(FlattenSeq(s), C, <<>>)
    BY <2>4, <2>6, OwesSummaries
  <2> QED
    BY <2>5, <2>7
<1> HIDE DEF first, last
<1>6. \A x, y \in Seq(M) : Owes(x, C, <<>>) /\ Owes(y, C, <<>>) => Owes(x \o y, C, <<>>)
  BY OwesConcat
<1>7. first \o middle \in Seq(M) /\ Owes(first \o middle, C, <<>>)
  BY <1>4, <1>5, <1>6
<1> QED
  BY <1>1, <1>2, <1>3, <1>6, <1>7

\* One message more, in the messages of some turns.
LEMMA DetailedAppend ==
    ASSUME NEW M, NEW messages \in Seq(M), NEW m \in M, NEW detailed
    PROVE  LET part == appendDetailedMessages(messages, detailed)
           IN  appendDetailedMessages(Append(messages, m), detailed) =
                   IF m.turn = NoTurn \/ m.turn \in detailed THEN Append(part, m) ELSE part
<1> DEFINE n == Len(messages)
           e == Append(messages, m)
           kept(x) == x.turn = NoTurn \/ x.turn \in detailed
           one(x) == IF kept(x) THEN <<x>> ELSE <<>>
           s == [i \in DOMAIN messages |-> one(messages[i])]
           d == [i \in DOMAIN e |-> one(e[i])]
<1>1. /\ appendDetailedMessages(messages, detailed) = FlattenSeq(s)
      /\ appendDetailedMessages(e, detailed) = FlattenSeq(d)
  BY DEF appendDetailedMessages, Where
<1>2. /\ n \in Nat /\ DOMAIN messages = 1 .. n /\ DOMAIN e = 1 .. n + 1 /\ e[n + 1] = m
      /\ \A i \in 1 .. n : e[i] = messages[i] /\ messages[i] \in M
  OBVIOUS
<1>3. \A x \in M : one(x) \in Seq(M)
  OBVIOUS
<1> HIDE DEF e, n
<1>4. /\ s \in Seq(Seq(M)) /\ Len(s) = n
      /\ d \in Seq(Seq(M)) /\ Len(d) = n + 1 /\ d[n + 1] = one(m)
      /\ \A i \in 1 .. n : d[i] = s[i]
  <2>1. /\ \A i \in 1 .. n : one(messages[i]) \in Seq(M)
        /\ \A i \in 1 .. n + 1 : one(e[i]) \in Seq(M)
    <3>1. \A i \in 1 .. n + 1 : e[i] \in M
      BY <1>2
    <3> HIDE DEF one
    <3> QED
      BY <1>2, <1>3, <3>1
  <2> HIDE DEF one
  <2>2. s \in Seq(Seq(M)) /\ Len(s) = n
    BY <1>2, <2>1
  <2>3. d \in Seq(Seq(M)) /\ Len(d) = n + 1
    BY <1>2, <2>1
  <2>4. d[n + 1] = one(m) /\ \A i \in 1 .. n : d[i] = s[i]
    <3>1. n + 1 \in 1 .. n + 1 /\ \A i \in 1 .. n : i \in 1 .. n + 1
      BY <1>2
    <3> QED
      BY <1>2, <3>1
  <2> QED
    BY <2>2, <2>3, <2>4
<1> DEFINE l == one(m)
<1>5. l \in Seq(M) /\ l = IF kept(m) THEN <<m>> ELSE <<>>
  OBVIOUS
<1> HIDE DEF s, d, one, l
<1>6. d = s \o <<l>> /\ <<l>> \in Seq(Seq(M))
  <2>1. /\ <<l>> \in Seq(Seq(M)) /\ Len(s \o <<l>>) = n + 1 /\ s \o <<l>> \in Seq(Seq(M))
        /\ (s \o <<l>>)[n + 1] = l /\ \A i \in 1 .. n : (s \o <<l>>)[i] = s[i]
    <3> DEFINE o == <<l>>
    <3>1. o \in Seq(Seq(M)) /\ Len(o) = 1 /\ o[1] = l
      BY <1>5
    <3> HIDE DEF o
    <3>2. /\ s \o o \in Seq(Seq(M)) /\ Len(s \o o) = Len(s) + Len(o)
          /\ \A i \in 1 .. Len(s) + Len(o) :
                (s \o o)[i] = IF i <= Len(s) THEN s[i] ELSE o[i - Len(s)]
      <4>1. s \in Seq(Seq(M))
        BY <1>4
      <4> QED
        BY <3>1, <4>1, ConcatProperties
    <3>3. Len(s) + Len(o) = n + 1 /\ ~(n + 1 <= n) /\ (n + 1) - n = 1 /\ n + 1 \in 1 .. n + 1
          /\ Len(s) = n /\ \A i \in 1 .. n : i <= n /\ i \in 1 .. n + 1
      BY <1>2, <1>4, <3>1
    <3> QED
      BY <3>1, <3>2, <3>3 DEF o
  <2>2. d[n + 1] = l
    BY <1>4 DEF l
  <2>3. \A i \in 1 .. n + 1 : d[i] = (s \o <<l>>)[i]
    BY <1>2, <1>4, <2>1, <2>2
  <2> DEFINE o == s \o <<l>>
  <2>4. /\ d \in Seq(Seq(M)) /\ o \in Seq(Seq(M)) /\ Len(d) = Len(o)
        /\ \A i \in 1 .. Len(d) : d[i] = o[i]
    BY <1>4, <2>1, <2>3
  <2>5. d = o
    <3> HIDE DEF o
    <3> QED
      BY <2>4, SeqEqual
  <2> QED
    BY <2>1, <2>5
<1>7. FlattenSeq(<<l>>) = l
  <2>1. 1 \in DOMAIN <<l>> /\ (\A i \in DOMAIN <<l>> \ {1} : <<l>>[i] = <<>>) /\ <<l>>[1] = l
    OBVIOUS
  <2> QED
    BY <1>6, <2>1, FlattenOne
<1>8. FlattenSeq(d) = FlattenSeq(s) \o l
  BY <1>4, <1>6, <1>7, FlattenConcat
<1>9. FlattenSeq(s) \in Seq(M)
  BY <1>4, FlattenType
<1>10. FlattenSeq(s) \o <<m>> = Append(FlattenSeq(s), m) /\ FlattenSeq(s) \o <<>> = FlattenSeq(s)
  BY <1>9
<1> QED
  BY <1>1, <1>5, <1>8, <1>10 DEF e

\* When every turn is shown in full, so is everything.
LEMMA DetailedAll ==
    ASSUME NEW M, NEW messages \in Seq(M), NEW detailed,
           \A i \in DOMAIN messages : messages[i].turn \in detailed
    PROVE  appendDetailedMessages(messages, detailed) = messages
<1> DEFINE n == Len(messages)
           s == [i \in DOMAIN messages |-> <<messages[i]>>]
<1>1. appendDetailedMessages(messages, detailed) = FlattenSeq(s)
  <2>1. s = [i \in DOMAIN messages |->
               IF messages[i].turn = NoTurn \/ messages[i].turn \in detailed
               THEN <<messages[i]>> ELSE <<>>]
    OBVIOUS
  <2> HIDE DEF s
  <2> QED
    BY <2>1 DEF appendDetailedMessages, Where
<1>2. n \in Nat /\ DOMAIN messages = 1 .. n /\ \A i \in 1 .. n : messages[i] \in M
  OBVIOUS
<1>3. s \in Seq(Seq(M)) /\ Len(s) = n /\ \A i \in 1 .. n : s[i] = <<messages[i]>>
  <2>1. \A i \in 1 .. n : <<messages[i]>> \in Seq(M)
    BY <1>2
  <2> QED
    BY <1>2, <2>1
<1> HIDE DEF s
<1>4. PICK h : /\ RunningConcat(h, s) /\ FlattenSeq(s) = h[n]
               /\ \A i \in 0 .. n : h[i] \in Seq(M)
  BY <1>3, FlattenRuns
<1> HIDE DEF n
<1> DEFINE T == {i \in 0 .. n : Len(h[i]) = i /\ \A j \in 1 .. i : h[i][j] = messages[j]}
<1>5. 0 \in T
  <2>1. h[0] = <<>> /\ 0 \in 0 .. n
    BY <1>2, <1>4 DEF RunningConcat
  <2> QED
    BY <2>1
<1>6. ASSUME NEW i \in 0 .. n - 1, i \in T PROVE i + 1 \in T
  <2>1. i \in Nat /\ i + 1 \in 1 .. n /\ i + 1 \in 0 .. n /\ (i + 1) - 1 = i /\ i \in 0 .. n
    BY <1>2
  <2>2. h[i + 1] = h[i] \o <<messages[i + 1]>> /\ h[i] \in Seq(M) /\ messages[i + 1] \in M
    BY <2>1, <1>2, <1>3, <1>4 DEF RunningConcat
  <2>3. Len(h[i]) = i /\ \A j \in 1 .. i : h[i][j] = messages[j]
    BY <1>6
  <2>4. Len(h[i + 1]) = i + 1
    BY <2>1, <2>2, <2>3
  <2>5. ASSUME NEW j \in 1 .. i + 1 PROVE h[i + 1][j] = messages[j]
    <3>1. CASE j = i + 1
      <4>1. \A x \in Seq(M), y \in M : (x \o <<y>>)[Len(x) + 1] = y
        OBVIOUS
      <4>2. (h[i] \o <<messages[i + 1]>>)[Len(h[i]) + 1] = messages[i + 1]
        BY <2>2, <4>1
      <4> QED
        BY <2>2, <2>3, <3>1, <4>2
    <3>2. CASE j # i + 1
      <4>1. j \in 1 .. i
        BY <2>1, <3>2
      <4> QED
        BY <2>1, <2>2, <2>3, <4>1
    <3> QED
      BY <3>1, <3>2
  <2> QED
    BY <2>1, <2>4, <2>5
<1>7. n \in T
  <2> HIDE DEF T
  <2>1. \A i \in 0 .. n : i \in T
    BY <1>2, <1>5, <1>6, Induct
  <2> QED
    BY <1>2, <2>1
<1>8. h[n] \in Seq(M) /\ Len(h[n]) = n /\ \A j \in 1 .. n : h[n][j] = messages[j]
  BY <1>2, <1>4, <1>7
<1>9. h[n] = messages
  BY <1>2, <1>8 DEF n
<1> QED
  BY <1>1, <1>4, <1>9

----
\* What the OpenAI client makes of a dialogue.

\* Behind a response there are the results of its calls, one by one.
LEMMA ResultsFollow ==
    ASSUME NEW M, NEW C, SpeakOf(M, C), NEW c \in Seq(M), NEW p, Dialogue(p, c, C),
           p[Len(c)] = <<>>, NEW i \in 1 .. Len(c), c[i].role = "assistant",
           NEW k \in 0 .. Len(c[i].calls)
    PROVE  /\ i + k <= Len(c)
           /\ Len(p[i + k]) = Len(c[i].calls) - k
           /\ \A j \in 1 .. Len(c[i].calls) - k : p[i + k][j] = c[i].calls[k + j]
           /\ k > 0 => c[i + k].role = "tool" /\ c[i + k].calls = <<c[i].calls[k]>>
<1> DEFINE l == Len(c)
           a == c[i].calls
           n == Len(a)
           Goal(q) == /\ i + q <= l
                      /\ Len(p[i + q]) = n - q
                      /\ \A j \in 1 .. n - q : p[i + q][j] = a[q + j]
                      /\ q > 0 => c[i + q].role = "tool" /\ c[i + q].calls = <<a[q]>>
           T == {q \in 0 .. n : Goal(q)}
<1>1. l \in Nat /\ i \in 1 .. l /\ a \in Seq(C) /\ n \in Nat
  BY DEF SpeakOf
<1>2. /\ p \in [0 .. l -> Seq(C)] /\ \A j \in 1 .. l : Follows(c, j, p[j - 1], p[j])
      /\ p[l] = <<>>
  BY DEF Dialogue
<1>3. 0 \in T
  <2>1. Follows(c, i, p[i - 1], p[i])
    BY <1>1, <1>2
  <2>2. p[i] = a
    BY <2>1 DEF Follows
  <2>3. i + 0 = i /\ n - 0 = n /\ \A j \in 1 .. n : 0 + j = j
    BY <1>1
  <2> QED
    BY <1>1, <2>2, <2>3
<1>4. ASSUME NEW q \in 0 .. n - 1, q \in T PROVE q + 1 \in T
  <2> HIDE DEF l, a, n
  <2>1. /\ i + q <= l /\ Len(p[i + q]) = n - q
        /\ \A j \in 1 .. n - q : p[i + q][j] = a[q + j]
    BY <1>4
  <2>2. q \in Nat /\ q + 1 \in 0 .. n /\ n - q > 0
    BY <1>1
  <2>3. p[i + q] # <<>>
    BY <2>1, <2>2
  <2>4. i + q # l
    BY <1>2, <2>3
  <2>5. i + (q + 1) \in 1 .. l /\ (i + (q + 1)) - 1 = i + q /\ i + q \in 0 .. l
    BY <1>1, <2>1, <2>2, <2>4
  <2>6. Follows(c, i + (q + 1), p[i + q], p[i + (q + 1)])
    BY <1>2, <2>5
  <2>7. /\ c[i + (q + 1)].role = "tool" /\ c[i + (q + 1)].calls = <<Head(p[i + q])>>
        /\ p[i + (q + 1)] = Tail(p[i + q])
    BY <2>3, <2>6 DEF Follows
  <2> DEFINE o == p[i + q]
  <2>8. o \in Seq(C) /\ Len(o) = n - q /\ (\A j \in 1 .. n - q : o[j] = a[q + j])
    BY <1>2, <2>1, <2>5
  <2>9. Head(o) = a[q + 1] /\ Len(Tail(o)) = n - (q + 1)
    <3> HIDE DEF o
    <3>1. 1 \in 1 .. n - q /\ o # <<>>
      BY <1>1, <2>2, <2>8
    <3> QED
      BY <1>1, <2>2, <2>8, <3>1
  <2>10. \A j \in 1 .. n - (q + 1) : Tail(o)[j] = a[(q + 1) + j]
    <3> HIDE DEF o
    <3> TAKE j \in 1 .. n - (q + 1)
    <3>1. j + 1 \in 1 .. n - q /\ q + (j + 1) = (q + 1) + j /\ j \in 1 .. Len(o) - 1
      BY <1>1, <2>2, <2>8
    <3>2. Tail(o)[j] = o[j + 1]
      BY <2>8, <3>1
    <3> QED
      BY <2>8, <3>1, <3>2
  <2>11. Goal(q + 1)
    BY <2>5, <2>7, <2>9, <2>10
  <2> QED
    BY <2>2, <2>11
<1>5. k \in T
  <2> HIDE DEF T
  <2>1. \A q \in 0 .. n : q \in T
    BY <1>1, <1>3, <1>4, Induct
  <2> QED
    BY <2>1
<1> QED
  BY <1>5

\* Whatever is owed is a call of an earlier response.
LEMMA OwedWasCalled ==
    ASSUME NEW M, NEW C, SpeakOf(M, C), NEW c \in Seq(M), NEW p, Dialogue(p, c, C),
           NEW i \in 0 .. Len(c), NEW x \in ToSet(p[i])
    PROVE  \E j \in 1 .. i : x \in ToSet(c[j].calls)
<1> DEFINE l == Len(c)
           T == {n \in 0 .. l : \A y \in ToSet(p[n]) : \E j \in 1 .. n : y \in ToSet(c[j].calls)}
<1>1. l \in Nat
  OBVIOUS
<1>2. /\ p \in [0 .. l -> Seq(C)] /\ \A j \in 1 .. l : Follows(c, j, p[j - 1], p[j])
      /\ p[0] = <<>>
  BY DEF Dialogue
<1>3. 0 \in T
  <2>1. ToSet(p[0]) = {}
    BY <1>2 DEF ToSet
  <2> QED
    BY <1>1, <2>1
<1>4. ASSUME NEW n \in 0 .. l - 1, n \in T PROVE n + 1 \in T
  <2>1. n \in Nat /\ n + 1 \in 1 .. l /\ n + 1 \in 0 .. l /\ (n + 1) - 1 = n /\ n \in 0 .. l
    BY <1>1
  <2>2. Follows(c, n + 1, p[n], p[n + 1])
    BY <1>2, <2>1
  <2>3. ASSUME NEW y \in ToSet(p[n + 1])
        PROVE  y \in ToSet(p[n]) \/ y \in ToSet(c[n + 1].calls)
    <3>1. CASE p[n + 1] = <<>>
      BY <2>3, <3>1 DEF ToSet
    <3>2. CASE p[n + 1] = c[n + 1].calls
      BY <2>3, <3>2
    <3>3. CASE p[n] # <<>> /\ p[n + 1] = Tail(p[n])
      <4> DEFINE o == p[n]
      <4>1. o \in Seq(C) /\ o # <<>>
        BY <1>2, <2>1, <3>3
      <4>2. PICK k \in DOMAIN Tail(o) : y = Tail(o)[k]
        BY <2>3, <3>3 DEF ToSet
      <4> HIDE DEF o
      <4>3. k + 1 \in DOMAIN o /\ y = o[k + 1]
        BY <4>1, <4>2
      <4> QED
        BY <4>3 DEF ToSet, o
    <3> QED
      BY <2>2, <3>1, <3>2, <3>3 DEF Follows
  <2>4. \A y \in ToSet(p[n]) : \E j \in 1 .. n : y \in ToSet(c[j].calls)
    BY <1>4
  <2>5. n + 1 \in 1 .. n + 1 /\ \A j \in 1 .. n : j \in 1 .. n + 1
    BY <2>1
  <2> QED
    BY <2>1, <2>3, <2>4, <2>5
<1>5. i \in T
  <2> HIDE DEF T
  <2>1. \A n \in 0 .. l : n \in T
    BY <1>1, <1>3, <1>4, Induct
  <2> QED
    BY <2>1
<1> QED
  BY <1>5

\* A dialogue that owes nothing makes a request the chat completions API accepts.
THEOREM DialogueForOpenAI ==
    ASSUME NEW M, NEW C, SpeakOf(M, C), NEW c \in Seq(M), c # <<>>, Owes(c, C, <<>>)
    PROVE  OpenAIAccepts(toOpenAIMessages(c))
<1> DEFINE request == toOpenAIMessages(c)
           l == Len(c)
<1>1. PICK p : Dialogue(p, c, C) /\ p[l] = <<>>
  BY DEF Owes
<1>2. l \in Nat \ {0} /\ DOMAIN c = 1 .. l /\ \A i \in 1 .. l : c[i] \in M
  OBVIOUS
<1>3. request = [i \in 1 .. l |-> [role |-> c[i].role, calls |-> c[i].calls]]
  BY <1>2 DEF toOpenAIMessages
<1> HIDE DEF request
<1>4. /\ request # <<>> /\ DOMAIN request = 1 .. l /\ Len(request) = l
      /\ \A i \in 1 .. l : request[i].role = c[i].role /\ request[i].calls = c[i].calls
  BY <1>2, <1>3
<1>5. ASSUME NEW i \in 1 .. l, c[i].role = "assistant"
      PROVE  LET n == Len(request[i].calls)
             IN  /\ i + n <= l
                 /\ {request[i + k].calls : k \in 1 .. n} = {<<x>> : x \in ToSet(request[i].calls)}
                 /\ \A k \in 1 .. n : request[i + k].role = "tool"
  <2> DEFINE a == c[i].calls
             n == Len(a)
  <2>1. a \in Seq(C) /\ n \in Nat /\ DOMAIN a = 1 .. n /\ request[i].calls = a
    BY <1>2, <1>4 DEF SpeakOf
  <2>2. \A k \in 0 .. n : /\ i + k <= l
                          /\ k > 0 => c[i + k].role = "tool" /\ c[i + k].calls = <<a[k]>>
    BY <1>1, <1>5, ResultsFollow, SMTT(30)
  <2> HIDE DEF a, n, l
  <2>3. n \in 0 .. n /\ \A k \in 1 .. n : k \in 0 .. n /\ k > 0
    BY <2>1
  <2>4. \A k \in 1 .. n : i + k \in 1 .. l
    BY <1>2, <2>1, <2>2, <2>3
  <2>5. \A k \in 1 .. n : request[i + k].role = "tool" /\ request[i + k].calls = <<a[k]>>
    BY <1>4, <2>2, <2>3, <2>4
  <2>6. {request[i + k].calls : k \in 1 .. n} = {<<x>> : x \in ToSet(a)}
    <3>1. ToSet(a) = {a[k] : k \in 1 .. n}
      BY <2>1 DEF ToSet
    <3>2. \A k \in 1 .. n : request[i + k].calls = <<a[k]>> /\ a[k] \in ToSet(a)
      BY <2>5, <3>1
    <3>3. \A x \in ToSet(a) : \E k \in 1 .. n : x = a[k]
      BY <3>1
    <3>4. ASSUME NEW k \in 1 .. n PROVE \E x \in ToSet(a) : request[i + k].calls = <<x>>
      BY <3>2
    <3>5. ASSUME NEW x \in ToSet(a) PROVE \E k \in 1 .. n : <<x>> = request[i + k].calls
      BY <3>2, <3>3
    <3> DEFINE got(k) == request[i + k].calls
               one(x) == <<x>>
    <3>6. /\ \A k \in 1 .. n : \E x \in ToSet(a) : got(k) = one(x)
          /\ \A x \in ToSet(a) : \E k \in 1 .. n : one(x) = got(k)
      BY <3>4, <3>5
    <3> HIDE DEF got, one
    <3>7. {got(k) : k \in 1 .. n} = {one(x) : x \in ToSet(a)}
      BY <3>6
    <3> QED
      BY <3>7 DEF got, one
  <2>7. Len(request[i].calls) = n
    BY <2>1 DEF n
  <2> QED
    BY <2>1, <2>2, <2>3, <2>5, <2>6, <2>7
<1>6. ASSUME NEW i \in 1 .. l, c[i].role = "tool"
      PROVE  \E j \in 1 .. (i - 1) : request[i].calls[1] \in ToSet(request[j].calls)
  <2> DEFINE o == p[i - 1]
  <2>1. Follows(c, i, p[i - 1], p[i]) /\ p \in [0 .. l -> Seq(C)] /\ i - 1 \in 0 .. l
    BY <1>1, <1>2 DEF Dialogue
  <2>2. o \in Seq(C) /\ o # <<>> /\ c[i].calls = <<Head(o)>>
    BY <1>6, <2>1 DEF Follows
  <2>3. Head(o) \in ToSet(o)
    <3> HIDE DEF o
    <3>1. 1 \in DOMAIN o /\ Head(o) = o[1]
      BY <2>2
    <3> QED
      BY <3>1 DEF ToSet
  <2>4. PICK j \in 1 .. (i - 1) : Head(o) \in ToSet(c[j].calls)
    BY <1>1, <2>1, <2>3, OwedWasCalled
  <2> HIDE DEF o
  <2>5. j \in 1 .. l
    BY <1>2
  <2> QED
    BY <1>4, <2>2, <2>4, <2>5
<1>7. \A i \in 1 .. l : c[i].role \in {"user", "assistant", "tool"}
  BY <1>2 DEF SpeakOf
<1> HIDE DEF l
<1> QED
  BY <1>4, <1>5, <1>6, <1>7 DEF OpenAIAccepts, request

----
\* What the Anthropic client makes of a dialogue.

\* The number of a set that is no less than the others.
LEMMA MaxIs ==
    ASSUME NEW s \in SUBSET Nat, NEW x \in s, \A y \in s : y <= x
    PROVE  Max(s) = x
<1>1. \A z \in s : (\A y \in s : z >= y) => z = x
  OBVIOUS
<1>2. \A y \in s : x >= y
  OBVIOUS
<1> QED
  BY <1>1, <1>2 DEF Max

\* h[i] is what Merge has made of the first i messages of q.
Merges(h, q) ==
    /\ DOMAIN h = 0 .. Len(q)
    /\ h[0] = <<>>
    /\ \A i \in 1 .. Len(q) : h[i] = Merge(h[i - 1], q[i])

\* f is a solution of the recursion of the fold on the subsets of D.
MergeStep(f, q, D) ==
    f = [s \in SUBSET D |-> IF s = {} THEN <<>> ELSE Merge(f[s \ {Max(s)}], q[Max(s)])]

\* That recursion has a solution, what Merge makes of the prefixes.
LEMMA MergeRuns ==
    ASSUME NEW q, Len(q) \in Nat, DOMAIN q = 1 .. Len(q)
    PROVE  \E h : Merges(h, q) /\ FoldLeft(Merge, <<>>, q) = h[Len(q)]
<1> DEFINE n == Len(q)
           T == {k \in Nat : \E f : MergeStep(f, q, 1 .. k)}
<1>1. 0 \in T
  <2> DEFINE f == [s \in SUBSET (1 .. 0) |-> <<>>]
  <2>1. \A s \in SUBSET (1 .. 0) : s = {}
    OBVIOUS
  <2>2. MergeStep(f, q, 1 .. 0)
    BY <2>1 DEF MergeStep
  <2> HIDE DEF f
  <2> QED
    BY <2>2
<1>2. ASSUME NEW k \in 0 .. n - 1, k \in T PROVE k + 1 \in T
  <2>0. k \in Nat
    OBVIOUS
  <2>1. PICK f : MergeStep(f, q, 1 .. k)
    BY <1>2
  <2> DEFINE e == [s \in SUBSET (1 .. k + 1) |->
                      IF k + 1 \in s THEN Merge(f[s \ {k + 1}], q[k + 1]) ELSE f[s]]
  <2>2. ASSUME NEW s \in SUBSET (1 .. k + 1)
        PROVE  e[s] = IF s = {} THEN <<>> ELSE Merge(e[s \ {Max(s)}], q[Max(s)])
    <3>1. CASE k + 1 \in s
      <4>1. Max(s) = k + 1
        <5>1. s \in SUBSET Nat /\ k + 1 \in s /\ \A y \in s : y <= k + 1
          BY <2>0, <3>1
        <5> QED
          BY <5>1, MaxIs
      <4> DEFINE r == s \ {k + 1}
      <4>2. r \in SUBSET (1 .. k + 1) /\ ~(k + 1 \in r)
        OBVIOUS
      <4>3. e[r] = f[r]
        BY <4>2
      <4>4. e[s] = Merge(f[r], q[k + 1])
        BY <3>1
      <4> HIDE DEF e, r
      <4>5. s # {}
        BY <3>1
      <4> QED
        BY <4>1, <4>3, <4>4, <4>5 DEF r
    <3>2. CASE k + 1 \notin s
      <4>1. s \in SUBSET (1 .. k)
        <5> SUFFICES ASSUME NEW y \in s PROVE y \in 1 .. k
          OBVIOUS
        <5>1. y \in 1 .. k + 1 /\ y # k + 1
          BY <3>2
        <5> QED
          BY <5>1, <2>0
      <4>2. f[s] = IF s = {} THEN <<>> ELSE Merge(f[s \ {Max(s)}], q[Max(s)])
        BY <2>1, <4>1 DEF MergeStep
      <4> DEFINE r == s \ {Max(s)}
      <4>3. r \in SUBSET (1 .. k + 1) /\ ~(k + 1 \in r)
        BY <3>2
      <4>4. e[s] = f[s] /\ e[r] = f[r]
        BY <3>2, <4>3
      <4> HIDE DEF e, r
      <4> QED
        BY <4>2, <4>4 DEF r
    <3> QED
      BY <3>1, <3>2
  <2>3. MergeStep(e, q, 1 .. k + 1)
    BY <2>2 DEF MergeStep
  <2> HIDE DEF e
  <2> QED
    BY <2>0, <2>3
<1>3. n \in T
  <2> HIDE DEF T
  <2>1. n \in Nat /\ n \in 0 .. n
    OBVIOUS
  <2>2. \A i \in 0 .. n : i \in T
    BY <1>1, <1>2, <2>1, Induct
  <2> QED
    BY <2>1, <2>2
<1> DEFINE f == CHOOSE g : MergeStep(g, q, 1 .. n)
           h == [i \in 0 .. n |-> f[1 .. i]]
<1>4. MergeStep(f, q, 1 .. n)
  BY <1>3, Zenon
<1>5. FoldLeft(Merge, <<>>, q) = f[1 .. n]
  BY DEF FoldLeft, MapThenFoldSet, MergeStep
<1> HIDE DEF f
<1>6. h[0] = <<>> /\ h[n] = f[1 .. n] /\ DOMAIN h = 0 .. n
  <2>1. 1 .. 0 = {} /\ {} \in SUBSET (1 .. n)
    OBVIOUS
  <2>2. f[{}] = <<>>
    BY <1>4, <2>1 DEF MergeStep
  <2> QED
    BY <2>1, <2>2
<1>7. ASSUME NEW i \in 1 .. n PROVE h[i] = Merge(h[i - 1], q[i])
  <2> DEFINE s == 1 .. i
  <2>1. s \in SUBSET (1 .. n) /\ s # {} /\ s \in SUBSET Nat /\ i \in s /\ \A y \in s : y <= i
    OBVIOUS
  <2>2. Max(s) = i
    BY <2>1, MaxIs
  <2>3. s \ {i} = 1 .. i - 1
    OBVIOUS
  <2>4. h[i] = f[s] /\ h[i - 1] = f[1 .. i - 1]
    OBVIOUS
  <2> HIDE DEF h, s
  <2>5. f[s] = Merge(f[s \ {Max(s)}], q[Max(s)])
    BY <1>4, <2>1 DEF MergeStep
  <2> QED
    BY <2>2, <2>3, <2>4, <2>5
<1> HIDE DEF h
<1>8. Merges(h, q)
  BY <1>6, <1>7 DEF Merges
<1> QED
  BY <1>5, <1>6, <1>8

\* The blocks and the entries of a request about the calls of C.
Block(C) == [type : {"text", "tool_use", "tool_result"}, call : C \cup {<<>>}]
Entry(C) == [role : {"user", "assistant"}, blocks : Seq(Block(C))]
Uses(p) == CallsOf(p, "tool_use")
Results(p) == CallsOf(p, "tool_result")

\* The elements of a concatenation.
LEMMA ToSetConcat ==
    ASSUME NEW S, NEW a \in Seq(S), NEW b \in Seq(S)
    PROVE  ToSet(a \o b) = ToSet(a) \cup ToSet(b)
<1> DEFINE c == a \o b
           m == Len(a)
           n == Len(b)
<1>1. /\ m \in Nat /\ n \in Nat /\ Len(c) = m + n
      /\ DOMAIN c = 1 .. m + n /\ DOMAIN a = 1 .. m /\ DOMAIN b = 1 .. n
      /\ \A i \in 1 .. m : c[i] = a[i]
      /\ \A i \in (m + 1) .. (m + n) : c[i] = b[i - m]
  OBVIOUS
<1> HIDE DEF c, m, n
<1>2. ASSUME NEW x \in ToSet(c) PROVE x \in ToSet(a) \/ x \in ToSet(b)
  <2>1. PICK i \in 1 .. m + n : x = c[i]
    BY <1>1, <1>2 DEF ToSet
  <2>2. CASE i <= m
    <3>1. i \in 1 .. m
      BY <1>1, <2>2
    <3> QED
      BY <1>1, <2>1, <3>1 DEF ToSet
  <2>3. CASE ~(i <= m)
    <3>1. i \in (m + 1) .. (m + n) /\ i - m \in 1 .. n
      BY <1>1, <2>3
    <3> QED
      BY <1>1, <2>1, <3>1 DEF ToSet
  <2> QED
    BY <2>2, <2>3
<1>3. ASSUME NEW x \in ToSet(a) PROVE x \in ToSet(c)
  <2>1. PICK i \in 1 .. m : x = a[i]
    BY <1>1, <1>3 DEF ToSet
  <2>2. i \in 1 .. m + n
    BY <1>1
  <2> QED
    BY <1>1, <2>1, <2>2 DEF ToSet
<1>4. ASSUME NEW x \in ToSet(b) PROVE x \in ToSet(c)
  <2>1. PICK i \in 1 .. n : x = b[i]
    BY <1>1, <1>4 DEF ToSet
  <2>2. i + m \in (m + 1) .. (m + n) /\ i + m \in 1 .. m + n /\ (i + m) - m = i
    BY <1>1
  <2> QED
    BY <1>1, <2>1, <2>2 DEF ToSet
<1> QED
  BY <1>2, <1>3, <1>4 DEF c

\* e has the blocks of l and then those of q.
Blocks(e, l, q) == e.blocks = l.blocks \o q.blocks

\* An entry speaks of the calls of both its parts.
LEMMA CallsConcat ==
    ASSUME NEW C, NEW p \in Entry(C), NEW q \in Entry(C), NEW r, Blocks(r, p, q)
    PROVE  Uses(r) = Uses(p) \cup Uses(q) /\ Results(r) = Results(p) \cup Results(q)
<1>1. p.blocks \in Seq(Block(C)) /\ q.blocks \in Seq(Block(C))
  BY DEF Entry
<1>2. ToSet(r.blocks) = ToSet(p.blocks) \cup ToSet(q.blocks)
  BY <1>1, ToSetConcat DEF Blocks
<1> QED
  BY <1>2 DEF Uses, Results, CallsOf

\* The entry q speaks in a role, using the tools of U and bringing the results of R.
Says(q, C, role, U, R) == q \in Entry(C) /\ q.role = role /\ Uses(q) = U /\ Results(q) = R

Asks(m) == m.role = "user"
Resolves(m, x) == m.role = "tool" /\ m.calls = <<x>>
Responds(m, a) == m.role = "assistant" /\ m.calls = a

\* What the entries of single messages say.
LEMMA SaysUser ==
    ASSUME NEW C, NEW m, NEW empty, Asks(m)
    PROVE  /\ Says(toSDKMessage(m, empty), C, "user", {}, {})
           /\ toSDKMessage(m, empty).blocks # <<>>
<1> DEFINE q == toSDKMessage(m, empty)
<1>1. q = [role |-> "user", blocks |-> <<Text>>]
  BY DEF toSDKMessage, Asks
<1>2. ToSet(<<Text>>) = {Text}
  BY DEF ToSet
<1>3. Text.type = "text" /\ Text \in Block(C)
  BY DEF Text, Block
<1>4. q.blocks = <<Text>>
  BY <1>1
<1>5. Uses(q) = {} /\ Results(q) = {}
  BY <1>2, <1>3, <1>4 DEF Uses, Results, CallsOf
<1>6. <<Text>> \in Seq(Block(C)) /\ <<Text>> # <<>>
  BY <1>3
<1>7. q \in Entry(C) /\ q.role = "user" /\ q.blocks # <<>>
  BY <1>1, <1>6 DEF Entry
<1> HIDE DEF q
<1>8. Says(q, C, "user", {}, {}) /\ q.blocks # <<>>
  BY <1>5, <1>7 DEF Says
<1> QED
  BY <1>8 DEF q

LEMMA SaysResult ==
    ASSUME NEW C, NEW m, NEW empty, NEW x \in C, Resolves(m, x)
    PROVE  /\ Says(toSDKMessage(m, empty), C, "user", {}, {x})
           /\ toSDKMessage(m, empty).blocks # <<>>
<1> DEFINE q == toSDKMessage(m, empty)
           b == ToolResult(x)
<1>1. q = [role |-> "user", blocks |-> <<b>>]
  BY DEF toSDKMessage, Resolves
<1>2. ToSet(<<b>>) = {b}
  BY DEF ToSet
<1>3. b.type = "tool_result" /\ b.call = x /\ b \in Block(C)
  BY DEF ToolResult, Block
<1>4. q.blocks = <<b>>
  BY <1>1
<1> HIDE DEF b
<1>5. Uses(q) = {} /\ Results(q) = {x}
  BY <1>2, <1>3, <1>4 DEF Uses, Results, CallsOf
<1>6. <<b>> \in Seq(Block(C)) /\ <<b>> # <<>>
  BY <1>3
<1>7. q \in Entry(C) /\ q.role = "user" /\ q.blocks # <<>>
  BY <1>1, <1>6 DEF Entry
<1> HIDE DEF q
<1>8. Says(q, C, "user", {}, {x}) /\ q.blocks # <<>>
  BY <1>5, <1>7 DEF Says
<1> QED
  BY <1>8 DEF q

LEMMA SaysResponse ==
    ASSUME NEW C, NEW m, NEW empty, NEW a \in Seq(C), Responds(m, a)
    PROVE  /\ Says(toSDKMessage(m, empty), C, "assistant", ToSet(a), {})
           /\ toSDKMessage(m, empty).blocks = <<>> => m \in empty /\ a = <<>>
<1> DEFINE q == toSDKMessage(m, empty)
           n == Len(a)
           words == IF m \in empty THEN <<>> ELSE <<Text>>
           uses == [k \in DOMAIN a |-> ToolUse(a[k])]
           B == Block(C)
<1>1. q = [role |-> "assistant", blocks |-> words \o uses]
  BY DEF toSDKMessage, toAssistantParam, Responds
<1>2. n \in Nat /\ DOMAIN a = 1 .. n /\ \A k \in 1 .. n : a[k] \in C
  OBVIOUS
<1>3. \A x \in C : ToolUse(x) \in B /\ ToolUse(x).type = "tool_use" /\ ToolUse(x).call = x
  BY DEF ToolUse, Block
<1>4. Text \in B /\ Text.type = "text"
  BY DEF Text, Block
<1>5. words \in Seq(B) /\ uses \in Seq(B) /\ Len(uses) = n
  <2>1. words \in Seq(B)
    BY <1>4
  <2>2. uses \in [1 .. n -> B]
    BY <1>2, <1>3
  <2> HIDE DEF uses
  <2>3. uses \in Seq(B) /\ Len(uses) = n
    BY <1>2, <2>2
  <2> QED
    BY <2>1, <2>3
<1>6. \A b \in ToSet(words) : b.type = "text"
  BY <1>4 DEF ToSet
<1>7. /\ \A b \in ToSet(uses) : b.type = "tool_use" /\ b.call \in ToSet(a)
      /\ \A x \in ToSet(a) : \E b \in ToSet(uses) : b.call = x
  <2>1. DOMAIN uses = 1 .. n /\ \A k \in 1 .. n : uses[k] = ToolUse(a[k])
    BY <1>2
  <2> HIDE DEF uses, n
  <2>2. ASSUME NEW b \in ToSet(uses) PROVE b.type = "tool_use" /\ b.call \in ToSet(a)
    <3>1. PICK k \in 1 .. n : b = ToolUse(a[k])
      BY <2>1, <2>2 DEF ToSet
    <3> QED
      BY <1>2, <1>3, <3>1 DEF ToSet
  <2>3. ASSUME NEW x \in ToSet(a) PROVE \E b \in ToSet(uses) : b.call = x
    <3>1. PICK k \in 1 .. n : x = a[k]
      BY <1>2, <2>3 DEF ToSet
    <3>2. uses[k] \in ToSet(uses) /\ uses[k].call = x
      BY <1>2, <1>3, <2>1, <3>1 DEF ToSet
    <3> QED
      BY <3>2
  <2> QED
    BY <2>2, <2>3
<1> HIDE DEF words, uses, n, B
<1>8. ToSet(words \o uses) = ToSet(words) \cup ToSet(uses)
  BY <1>5, ToSetConcat
<1>9. q.role = "assistant" /\ q.blocks = words \o uses /\ words \o uses \in Seq(B)
  BY <1>1, <1>5
<1>10. q \in Entry(C)
  BY <1>1, <1>9 DEF Entry, B
<1> HIDE DEF q
<1>11. Uses(q) = ToSet(a) /\ Results(q) = {}
  <2> DEFINE W == ToSet(words)
             U == ToSet(uses)
  <2>1. ToSet(q.blocks) = W \cup U
    BY <1>8, <1>9
  <2>2. {b \in W \cup U : b.type = "tool_use"} = U
    BY <1>6, <1>7
  <2>3. {b \in W \cup U : b.type = "tool_result"} = {}
    BY <1>6, <1>7
  <2>4. {b.call : b \in U} = ToSet(a)
    BY <1>7
  <2> HIDE DEF W, U
  <2>5. Uses(q) = {b.call : b \in U}
    BY <2>1, <2>2 DEF Uses, CallsOf
  <2>6. Results(q) = {b.call : b \in {}}
    BY <2>1, <2>3 DEF Results, CallsOf
  <2>7. Results(q) = {}
    BY <2>6
  <2> QED
    BY <2>4, <2>5, <2>7
<1>12. words \o uses = <<>> => words = <<>> /\ a = <<>>
  BY <1>2, <1>5 DEF n
<1>13. words = <<>> => m \in empty
  BY DEF words
<1>14. Says(q, C, "assistant", ToSet(a), {})
  BY <1>9, <1>10, <1>11 DEF Says
<1> QED
  BY <1>9, <1>12, <1>13, <1>14 DEF q

\* Roles that alternate, the user's first; only the assistant uses tools and only the
\* user has results.
Alternates(r) ==
    \A j \in 1 .. Len(r) :
        IF j % 2 = 1 THEN r[j].role = "user" /\ Uses(r[j]) = {}
        ELSE r[j].role = "assistant" /\ Results(r[j]) = {}

\* The tools that are used right before the j-th entry.
Before(r, j) == IF j = 1 THEN {} ELSE Uses(r[j - 1])

\* The request so far has all the results but those of the calls in O.
Progress(r, C, O) ==
    /\ r \in Seq(Entry(C))
    /\ Alternates(r)
    /\ \A j \in 1 .. Len(r) - 1 : Results(r[j]) = Before(r, j)
    /\ r # <<>> => IF Last(r).role = "user" THEN Results(Last(r)) \cup O = Before(r, Len(r))
                   ELSE Uses(Last(r)) = O
    /\ r = <<>> => O = {}

\* d is r with e in the place of the last.
Instead(d, r, e) ==
    /\ Len(d) = Len(r) /\ d # <<>> /\ Last(d) = e /\ d[Len(d)] = e
    /\ \A j \in 1 .. Len(r) - 1 : d[j] = r[j]

\* e speaks of what l and q speak of.
Joint(e, l, q) == /\ e.role = q.role
                  /\ Uses(e) = Uses(l) \cup Uses(q)
                  /\ Results(e) = Results(l) \cup Results(q)

\* Merging q into the last of r.
LEMMA Merged ==
    ASSUME NEW C, NEW r \in Seq(Entry(C)), NEW q \in Entry(C), q.blocks # <<>>,
           r # <<>>, Last(r).role = q.role
    PROVE  /\ Merge(r, q) \in Seq(Entry(C))
           /\ \E e \in Entry(C) : Instead(Merge(r, q), r, e) /\ Joint(e, Last(r), q)
<1> DEFINE E == Entry(C)
           n == Len(r)
           l == Last(r)
           b == l.blocks \o q.blocks
           e == [l EXCEPT !.blocks = b]
           f == Front(r)
           d == Append(f, e)
<1>1. n \in Nat \ {0} /\ l \in E /\ l = r[n] /\ \A j \in 1 .. n : r[j] \in E
  BY DEF Last
<1>2. e \in E /\ e.role = q.role /\ e.blocks = b
  <2>1. b \in Seq(Block(C))
    BY <1>1 DEF Entry
  <2>2. l.role = q.role
    OBVIOUS
  <2> HIDE DEF l, b
  <2>3. l \in [role : {"user", "assistant"}, blocks : Seq(Block(C))]
    BY <1>1 DEF Entry
  <2>4. e \in [role : {"user", "assistant"}, blocks : Seq(Block(C))] /\ e.role = l.role /\ e.blocks = b
    BY <2>1, <2>3
  <2> HIDE DEF e
  <2> QED
    BY <2>2, <2>4 DEF Entry
<1>3. Merge(r, q) = d
  BY DEF Merge
<1>4. f \in Seq(E) /\ Len(f) = n - 1 /\ \A j \in 1 .. n - 1 : f[j] = r[j]
  <2>1. f = SubSeq(r, 1, n - 1) /\ 1 \in Int /\ n - 1 \in Int /\ \A j \in 1 .. n - 1 : r[j] \in E
    BY <1>1 DEF Front
  <2> HIDE DEF f, n, l, E
  <2>2. /\ f \in Seq(E) /\ Len(f) = IF 1 <= n - 1 THEN (n - 1) - 1 + 1 ELSE 0
        /\ \A i \in 1 .. (n - 1) - 1 + 1 : f[i] = r[1 + i - 1]
    BY <2>1, SubSeqProperties
  <2>3. (n - 1) - 1 + 1 = n - 1 /\ \A i \in 1 .. n - 1 : 1 + i - 1 = i
    BY <1>1
  <2>4. ~(1 <= n - 1) => n - 1 = 0
    BY <1>1
  <2> QED
    BY <2>2, <2>3, <2>4
<1> HIDE DEF e
<1>5. Joint(e, l, q)
  <2>1. Uses(e) = Uses(l) \cup Uses(q) /\ Results(e) = Results(l) \cup Results(q)
    <3> HIDE DEF l
    <3>1. l \in Entry(C) /\ Blocks(e, l, q)
      BY <1>1, <1>2 DEF Blocks
    <3> QED
      BY <3>1, CallsConcat
  <2> QED
    BY <1>2, <2>1 DEF Joint
<1> HIDE DEF f, l, n, E
<1>6. d \in Seq(E) /\ Instead(d, r, e)
  <2>1. /\ d \in Seq(E) /\ d # <<>> /\ Len(d) = Len(f) + 1 /\ d[Len(f) + 1] = e
        /\ \A j \in 1 .. Len(f) : d[j] = f[j]
    BY <1>2, <1>4, AppendProperties
  <2> HIDE DEF d
  <2>2. Len(d) = n /\ d[n] = e /\ \A j \in 1 .. n - 1 : d[j] = r[j]
    BY <1>1, <1>4, <2>1
  <2> QED
    BY <2>1, <2>2 DEF Instead, Last, n
<1> HIDE DEF d
<1> QED
  BY <1>2, <1>3, <1>5, <1>6 DEF l, E

\* Adding q behind r.
LEMMA Added ==
    ASSUME NEW C, NEW r \in Seq(Entry(C)), NEW q \in Entry(C), q.blocks # <<>>,
           r = <<>> \/ Last(r).role # q.role
    PROVE  \E d \in Seq(Entry(C)) :
              /\ Merge(r, q) = d /\ Len(d) = Len(r) + 1 /\ d # <<>> /\ Last(d) = q
              /\ d[Len(d)] = q /\ \A j \in 1 .. Len(r) : d[j] = r[j]
<1> DEFINE d == Append(r, q)
<1>1. Merge(r, q) = d
  BY DEF Merge
<1>2. d \in Seq(Entry(C)) /\ Len(d) = Len(r) + 1 /\ d # <<>> /\ d[Len(r) + 1] = q
      /\ \A j \in 1 .. Len(r) : d[j] = r[j]
  OBVIOUS
<1> HIDE DEF d
<1>3. Last(d) = q /\ d[Len(d)] = q
  BY <1>2 DEF Last
<1> QED
  BY <1>1, <1>2, <1>3

\* Who spoke last, by the number of entries.
LEMMA Parity ==
    ASSUME NEW r, Len(r) \in Nat \ {0}, Alternates(r)
    PROVE  Last(r).role = "user" <=> Len(r) % 2 = 1
<1>1. Len(r) \in 1 .. Len(r)
  OBVIOUS
<1> QED
  BY <1>1 DEF Alternates, Last

\* An entry behind one that speaks for the user has the results it must have.
LEMMA BehindUser ==
    ASSUME NEW C, NEW O, NEW r, Progress(r, C, O), r # <<>>, Last(r).role # "user"
    PROVE  Results(r[Len(r)]) = Before(r, Len(r))
<1> DEFINE n == Len(r)
<1>1. n \in Nat \ {0} /\ Alternates(r)
  BY DEF Progress
<1>2. n % 2 # 1
  BY <1>1, Parity
<1>3. n # 1 /\ n \in 1 .. n /\ n - 1 \in 1 .. n /\ (n - 1) % 2 = 1
  <2> HIDE DEF n
  <2>1. n # 1
    BY <1>2
  <2>2. (n - 1) % 2 = 1
    BY <1>1, <1>2
  <2> QED
    BY <1>1, <2>1, <2>2
<1>4. Results(r[n]) = {} /\ Uses(r[n - 1]) = {}
  BY <1>1, <1>2, <1>3 DEF Alternates
<1> QED
  BY <1>3, <1>4 DEF Before

\* An entry that speaks for the user.
LEMMA ProgressUser ==
    ASSUME NEW C, NEW O, NEW r, Progress(r, C, O), NEW q \in Entry(C), NEW N,
           q.role = "user", q.blocks # <<>>, Uses(q) = {}, Results(q) \cup N = O
    PROVE  Progress(Merge(r, q), C, N) /\ Merge(r, q) # <<>> /\ Last(Merge(r, q)).role = "user"
<1> DEFINE n == Len(r)
<1>1. r \in Seq(Entry(C)) /\ n \in Nat /\ (r # <<>> => n # 0)
  BY DEF Progress
<1>2. CASE r # <<>> /\ Last(r).role = "user"
  <2> DEFINE d == Merge(r, q)
  <2>0. d \in Seq(Entry(C)) /\ \E e \in Entry(C) : Instead(d, r, e) /\ Joint(e, Last(r), q)
    <3>1. r # <<>> /\ Last(r).role = q.role
      BY <1>2
    <3> QED
      BY <1>1, <3>1, Merged
  <2> HIDE DEF d
  <2>1. PICK e \in Entry(C) :
              /\ Len(d) = n /\ d # <<>> /\ Last(d) = e
              /\ d[Len(d)] = e /\ \A j \in 1 .. n - 1 : d[j] = r[j]
              /\ e.role = "user"
              /\ Uses(e) = Uses(Last(r)) \cup Uses(q)
              /\ Results(e) = Results(Last(r)) \cup Results(q)
    BY <2>0 DEF Instead, Joint
  <2>2. n \in 1 .. n /\ n % 2 = 1
    BY <1>1, <1>2, Parity DEF Progress
  <2>3. Uses(Last(r)) = {}
    BY <2>2 DEF Progress, Alternates, Last
  <2>4. Alternates(d)
    <3> SUFFICES ASSUME NEW j \in 1 .. n
                 PROVE  IF j % 2 = 1 THEN d[j].role = "user" /\ Uses(d[j]) = {}
                        ELSE d[j].role = "assistant" /\ Results(d[j]) = {}
      BY <2>1 DEF Alternates
    <3>1. CASE j = n
      BY <2>1, <2>2, <2>3, <3>1
    <3>2. CASE j # n
      <4>1. j \in 1 .. n - 1
        BY <1>1, <3>2
      <4> QED
        BY <2>1, <4>1 DEF Progress, Alternates
    <3> QED
      BY <3>1, <3>2
  <2>5. \A j \in 1 .. n : Before(d, j) = Before(r, j)
    <3> TAKE j \in 1 .. n
    <3>1. j = 1 \/ j - 1 \in 1 .. n - 1
      BY <1>1
    <3> QED
      BY <2>1, <3>1 DEF Before
  <2>6. \A j \in 1 .. n - 1 : Results(d[j]) = Before(d, j)
    BY <1>1, <2>1, <2>5 DEF Progress
  <2>7. Results(e) \cup N = Before(d, n)
    <3>1. Results(Last(r)) \cup O = Before(r, n)
      BY <1>2 DEF Progress
    <3>2. Before(d, n) = Before(r, n)
      BY <2>2, <2>5
    <3> QED
      BY <2>1, <3>1, <3>2
  <2> QED
    BY <2>0, <2>1, <2>4, <2>6, <2>7 DEF Progress, d
<1>3. CASE ~(r # <<>> /\ Last(r).role = "user")
  <2>1. PICK d \in Seq(Entry(C)) :
              /\ Merge(r, q) = d /\ Len(d) = n + 1 /\ d # <<>> /\ Last(d) = q
              /\ d[Len(d)] = q /\ \A j \in 1 .. n : d[j] = r[j]
    BY <1>1, <1>3, Added
  <2>2. n % 2 = 0 /\ (n + 1) % 2 = 1
    <3>1. CASE r = <<>>
      BY <3>1
    <3>2. CASE r # <<>>
      <4>1. n % 2 # 1
        BY <1>1, <1>3, <3>2, Parity DEF Progress
      <4> QED
        BY <1>1, <4>1
    <3> QED
      BY <3>1, <3>2
  <2>3. Alternates(d)
    <3> SUFFICES ASSUME NEW j \in 1 .. n + 1
                 PROVE  IF j % 2 = 1 THEN d[j].role = "user" /\ Uses(d[j]) = {}
                        ELSE d[j].role = "assistant" /\ Results(d[j]) = {}
      BY <2>1 DEF Alternates
    <3>1. CASE j = n + 1
      BY <2>1, <2>2, <3>1
    <3>2. CASE j # n + 1
      <4>1. j \in 1 .. n
        BY <1>1, <3>2
      <4> QED
        BY <2>1, <4>1 DEF Progress, Alternates
    <3> QED
      BY <3>1, <3>2
  <2>4. \A j \in 1 .. n : Results(d[j]) = Before(d, j)
    <3> TAKE j \in 1 .. n
    <3>1. j = 1 \/ j - 1 \in 1 .. n
      BY <1>1
    <3>2. Before(d, j) = Before(r, j)
      BY <2>1, <3>1 DEF Before
    <3>3. Results(r[j]) = Before(r, j)
      <4>1. CASE j = n
        <5>1. r # <<>>
          BY <4>1, <1>1
        <5> QED
          BY <1>3, <4>1, <5>1, BehindUser
      <4>2. CASE j # n
        BY <1>1, <4>2 DEF Progress
      <4> QED
        BY <4>1, <4>2
    <3> QED
      BY <2>1, <3>2, <3>3
  <2>5. Before(d, n + 1) = O
    <3>1. CASE r = <<>>
      BY <3>1 DEF Before, Progress
    <3>2. CASE r # <<>>
      <4>1. Uses(Last(r)) = O
        BY <1>3, <3>2 DEF Progress
      <4>2. n \in 1 .. n /\ n + 1 # 1 /\ (n + 1) - 1 = n /\ Last(r) = r[n]
        BY <1>1, <3>2 DEF Last
      <4> QED
        BY <2>1, <4>1, <4>2 DEF Before
    <3> QED
      BY <3>1, <3>2
  <2>6. Len(d) - 1 = n
    BY <1>1, <2>1
  <2> QED
    BY <2>1, <2>3, <2>4, <2>5, <2>6 DEF Progress
<1> QED
  BY <1>2, <1>3

\* An entry that speaks for the assistant.
LEMMA ProgressAssistant ==
    ASSUME NEW C, NEW r, Progress(r, C, {}), r # <<>>, Last(r).role = "user",
           NEW q \in Entry(C), q.role = "assistant", q.blocks # <<>>, Results(q) = {}
    PROVE  Progress(Merge(r, q), C, Uses(q)) /\ Merge(r, q) # <<>>
<1> DEFINE n == Len(r)
<1>1. r \in Seq(Entry(C)) /\ n \in Nat \ {0}
  BY DEF Progress
<1>2. PICK d \in Seq(Entry(C)) :
            /\ Merge(r, q) = d /\ Len(d) = n + 1 /\ d # <<>> /\ Last(d) = q
            /\ d[Len(d)] = q /\ \A j \in 1 .. n : d[j] = r[j]
  BY <1>1, Added
<1>3. n % 2 = 1 /\ (n + 1) % 2 # 1
  <2>1. n % 2 = 1
    BY <1>1, Parity DEF Progress
  <2> QED
    BY <1>1, <2>1
<1>4. Alternates(d)
  <2> SUFFICES ASSUME NEW j \in 1 .. n + 1
               PROVE  IF j % 2 = 1 THEN d[j].role = "user" /\ Uses(d[j]) = {}
                      ELSE d[j].role = "assistant" /\ Results(d[j]) = {}
    BY <1>2 DEF Alternates
  <2>1. CASE j = n + 1
    BY <1>2, <1>3, <2>1
  <2>2. CASE j # n + 1
    <3>1. j \in 1 .. n
      BY <1>1, <2>2
    <3> QED
      BY <1>2, <3>1 DEF Progress, Alternates
  <2> QED
    BY <2>1, <2>2
<1>5. \A j \in 1 .. n : Results(d[j]) = Before(d, j)
  <2> TAKE j \in 1 .. n
  <2>1. j = 1 \/ j - 1 \in 1 .. n
    BY <1>1
  <2>2. Before(d, j) = Before(r, j)
    BY <1>2, <2>1 DEF Before
  <2>3. Results(r[j]) = Before(r, j)
    <3>1. CASE j = n
      <4>1. Results(Last(r)) \cup {} = Before(r, n)
        BY DEF Progress
      <4> QED
        BY <3>1, <4>1 DEF Last
    <3>2. CASE j # n
      BY <1>1, <3>2 DEF Progress
    <3> QED
      BY <3>1, <3>2
  <2> QED
    BY <1>2, <2>2, <2>3
<1>6. Len(d) - 1 = n
  BY <1>1, <1>2
<1> QED
  BY <1>2, <1>4, <1>5, <1>6 DEF Progress

\* The entries so far, r, are those of the first i messages of a dialogue.
SoFar(r, C, c, p, i) ==
    /\ Progress(r, C, ToSet(p[i]))
    /\ i > 0 => r # <<>>
    /\ i > 0 /\ c[i].role # "assistant" => Last(r).role = "user"

\* One message of a dialogue more.
LEMMA ProgressStep ==
    ASSUME NEW M, NEW C, SpeakOf(M, C), NEW c \in Seq(M), NEW p, Dialogue(p, c, C),
           NEW empty,
           NEW i \in 1 .. Len(c), NEW r, SoFar(r, C, c, p, i - 1)
    PROVE  SoFar(Merge(r, toSDKMessage(c[i], empty)), C, c, p, i)
<1> DEFINE m == c[i]
           q == toSDKMessage(m, empty)
           d == Merge(r, q)
           before == p[i - 1]
           after == p[i]
<1>1. i - 1 \in 0 .. Len(c) /\ i \in 0 .. Len(c) /\ m \in M
  OBVIOUS
<1>2. before \in Seq(C) /\ after \in Seq(C) /\ Follows(c, i, before, after)
  BY <1>1 DEF Dialogue
<1>3. ToSet(<<>>) = {}
  BY DEF ToSet
<1>4. Progress(r, C, ToSet(before))
  BY DEF SoFar
<1> SUFFICES /\ Progress(d, C, ToSet(after)) /\ d # <<>>
             /\ m.role # "assistant" => Last(d).role = "user"
  BY DEF SoFar
<1> HIDE DEF before, after, q, d, m
<1>5. CASE m.role = "user" /\ before = <<>> /\ after = <<>>
  <2>0. Asks(m)
    BY <1>5 DEF Asks
  <2>1. Says(q, C, "user", {}, {}) /\ q.blocks # <<>>
    BY <2>0, SaysUser DEF q
  <2>2. {} \cup ToSet(after) = ToSet(before)
    BY <1>5
  <2> QED
    BY <1>4, <2>1, <2>2, ProgressUser DEF d, Says
<1>6. CASE m.role = "assistant" /\ before = <<>> /\ after = m.calls /\ i > 1 /\ c[i - 1].role # "assistant"
  <2>0. Responds(m, after)
    BY <1>6 DEF Responds
  <2>1. /\ Says(q, C, "assistant", ToSet(after), {})
        /\ q.blocks = <<>> => m \in empty /\ after = <<>>
    BY <1>2, <2>0, SaysResponse DEF q
  <2>2. r # <<>> /\ Last(r).role = "user"
    BY <1>6 DEF SoFar
  <2>3. Progress(r, C, {})
    BY <1>3, <1>4, <1>6
  <2>4. Progress(d, C, ToSet(after)) /\ d # <<>>
    <3>1. CASE q.blocks = <<>>
      <4>1. d = r
        BY <3>1 DEF Merge, d
      <4>2. ToSet(after) = {}
        BY <1>3, <2>1, <3>1
      <4> QED
        BY <2>2, <2>3, <4>1, <4>2
    <3>2. CASE q.blocks # <<>>
      BY <2>1, <2>2, <2>3, <3>2, ProgressAssistant DEF d, Says
    <3> QED
      BY <3>1, <3>2
  <2> QED
    BY <1>6, <2>4
<1>7. CASE m.role = "tool" /\ before # <<>> /\ m.calls = <<Head(before)>> /\ after = Tail(before)
  <2> DEFINE x == Head(before)
             one == <<x>>
  <2>1. x \in C /\ before = one \o after /\ after \in Seq(C)
    BY <1>2, <1>7
  <2>2. Resolves(m, x)
    BY <1>7 DEF Resolves
  <2> HIDE DEF x
  <2>3. one \in Seq(C) /\ ToSet(one) = {x}
    BY <2>1 DEF ToSet
  <2> HIDE DEF one
  <2>4. ToSet(one \o after) = ToSet(one) \cup ToSet(after)
    BY <2>1, <2>3, ToSetConcat
  <2>5. Says(q, C, "user", {}, {x}) /\ q.blocks # <<>>
    BY <2>1, <2>2, SaysResult DEF q
  <2>6. {x} \cup ToSet(after) = ToSet(before)
    BY <2>1, <2>3, <2>4
  <2> QED
    BY <1>4, <2>5, <2>6, ProgressUser DEF d, Says
<1> QED
  BY <1>2, <1>5, <1>6, <1>7 DEF Follows, m

\* A dialogue that owes nothing makes a request the Messages API accepts, whichever of
\* the responses have no text.
THEOREM DialogueForAnthropic ==
    ASSUME NEW M, NEW C, SpeakOf(M, C), NEW c \in Seq(M), c # <<>>, Owes(c, C, <<>>),
           NEW empty
    PROVE  AnthropicAccepts(toAnthropicMessages(c, empty))
<1> DEFINE n == Len(c)
           q == [i \in DOMAIN c |-> toSDKMessage(c[i], empty)]
<1>1. n \in Nat \ {0} /\ DOMAIN c = 1 .. n
  OBVIOUS
<1>2. Len(q) = n /\ DOMAIN q = 1 .. n /\ \A i \in 1 .. n : q[i] = toSDKMessage(c[i], empty)
  BY <1>1
<1> HIDE DEF q
<1>3. PICK p : Dialogue(p, c, C) /\ p[n] = <<>>
  BY DEF Owes
<1>4. PICK h : Merges(h, q) /\ FoldLeft(Merge, <<>>, q) = h[n]
  BY <1>1, <1>2, MergeRuns
<1> DEFINE T == {i \in 0 .. n : SoFar(h[i], C, c, p, i)}
<1>5. 0 \in T
  <2>1. h[0] = <<>> /\ ToSet(p[0]) = {}
    BY <1>3, <1>4 DEF Merges, Dialogue, ToSet
  <2>2. Progress(<<>>, C, {})
    <3>1. Len(<<>>) = 0 /\ <<>> \in Seq(Entry(C)) /\ \A j \in 1 .. 0 : FALSE
      OBVIOUS
    <3> QED
      BY <3>1 DEF Progress, Alternates
  <2>3. SoFar(h[0], C, c, p, 0)
    BY <2>1, <2>2 DEF SoFar
  <2> QED
    BY <1>1, <2>3
<1>6. ASSUME NEW i \in 0 .. n - 1, i \in T PROVE i + 1 \in T
  <2> DEFINE k == i + 1
  <2>1. k \in 1 .. n /\ k \in 0 .. n /\ k - 1 = i
    BY <1>1
  <2>2. SoFar(h[k - 1], C, c, p, k - 1)
    BY <1>6, <2>1
  <2>3. h[k] = Merge(h[k - 1], toSDKMessage(c[k], empty))
    BY <1>2, <1>4, <2>1 DEF Merges
  <2> HIDE DEF k
  <2>4. SoFar(h[k], C, c, p, k)
    BY <1>3, <2>1, <2>2, <2>3, ProgressStep
  <2> QED
    BY <2>1, <2>4 DEF k
<1>7. SoFar(h[n], C, c, p, n)
  <2> HIDE DEF T
  <2>1. \A i \in 0 .. n : i \in T
    BY <1>1, <1>5, <1>6, Induct
  <2> QED
    BY <1>1, <2>1 DEF T
<1> DEFINE r == h[n]
           l == Len(r)
<1>8. Progress(r, C, {}) /\ r # <<>>
  <2>1. ToSet(p[n]) = {}
    BY <1>3 DEF ToSet
  <2>2. Progress(r, C, ToSet(p[n])) /\ (n > 0 => r # <<>>)
    BY <1>7 DEF SoFar
  <2> QED
    BY <1>1, <2>1, <2>2
<1>9. r = toAnthropicMessages(c, empty)
  BY <1>4 DEF toAnthropicMessages, q
<1> HIDE DEF r
<1>10. l \in Nat \ {0} /\ DOMAIN r = 1 .. l /\ Alternates(r)
  BY <1>8 DEF Progress
<1>11. Results(r[l]) = Before(r, l) /\ Uses(r[l]) = {}
  <2>1. CASE Last(r).role = "user"
    <3>1. l % 2 = 1 /\ l \in 1 .. l
      BY <1>10, <2>1, Parity
    <3>2. Uses(r[l]) = {}
      BY <1>10, <3>1 DEF Alternates
    <3>3. Results(Last(r)) \cup {} = Before(r, l)
      BY <1>8, <2>1 DEF Progress
    <3> QED
      BY <3>2, <3>3 DEF Last
  <2>2. CASE Last(r).role # "user"
    <3>1. Results(r[l]) = Before(r, l)
      BY <1>8, <2>2, BehindUser
    <3>2. Uses(Last(r)) = {}
      BY <1>8, <2>2 DEF Progress
    <3> QED
      BY <3>1, <3>2 DEF Last
  <2> QED
    BY <2>1, <2>2
<1>12. \A j \in 1 .. l : Results(r[j]) = Before(r, j)
  <2>0. \A j \in 1 .. l - 1 : Results(r[j]) = Before(r, j)
    BY <1>8 DEF Progress
  <2> TAKE j \in 1 .. l
  <2> HIDE DEF l
  <2>1. CASE j = l
    BY <1>11, <2>1
  <2>2. CASE j # l
    <3>1. j \in 1 .. l - 1
      BY <1>10, <2>2
    <3> QED
      BY <2>0, <3>1
  <2> QED
    BY <2>1, <2>2
<1>13. \A j \in 1 .. l : r[j].role = (IF j % 2 = 1 THEN "user" ELSE "assistant")
  BY <1>10 DEF Alternates
<1>14. Uses(Last(r)) = {}
  BY <1>11 DEF Last
<1> QED
  BY <1>8, <1>9, <1>10, <1>12, <1>13, <1>14 DEF AnthropicAccepts, Before, Uses, Results

----
\* The options of a request.

\* A model as the registry may describe it.
IsModel(m) ==
    m.api \in {"anthropic", "openai"} /\ m.provider \in Nat /\ m.ceiling \in Nat

\* A model of Anthropic needs a documented limit and room for the smallest budget;
\* one that reasons takes its limit as max_completion_tokens.
Serviceable(m) ==
    /\ m.api = "anthropic" => m.provider > 1024 /\ m.ceiling \notin 1..1024
    /\ m.style = "effort" => m.field # "max_tokens"

\* A share is less than the whole, and at least a quarter of it.
LEMMA ShareFacts ==
    ASSUME NEW n \in Nat, NEW percent \in {25, 50, 75}
    PROVE  /\ (n * percent) \div 100 \in Nat
           /\ n > 0 => (n * percent) \div 100 < n
<1>1. CASE percent = 25
  BY <1>1
<1>2. CASE percent = 50
  BY <1>2
<1>3. CASE percent = 75
  BY <1>3
<1> QED
  BY <1>1, <1>2, <1>3

\* The thinking budget leaves room for the answer under exactly the output limits
\* above its minimum of 1024: thinkingBudget itself does not look at it.
THEOREM BudgetFits ==
    ASSUME NEW n \in Nat, NEW effort
    PROVE  thinkingBudget(effort, n) \in 1024..(n - 1) <=> n > 1024
<1> DEFINE percent == CASE effort = "high" -> 75 [] effort = "medium" -> 50 [] OTHER -> 25
           share == (n * percent) \div 100
<1>1. percent \in {25, 50, 75}
  OBVIOUS
<1>2. thinkingBudget(effort, n) = IF share < 1024 THEN 1024 ELSE share
  BY DEF thinkingBudget
<1> HIDE DEF percent
<1>3. share \in Nat /\ (n > 0 => share < n)
  BY <1>1, ShareFacts
<1> HIDE DEF share
<1> QED
  BY <1>2, <1>3

\* The limit is never above what the provider documents, and it is one of the two.
LEMMA LimitFacts ==
    ASSUME NEW m, IsModel(m)
    PROVE  /\ EffectiveOutputLimit(m) \in {m.provider, m.ceiling} /\ EffectiveOutputLimit(m) \in Nat
           /\ m.provider > 0 => EffectiveOutputLimit(m) <= m.provider
           /\ m.provider > 1024 /\ m.ceiling \notin 1..1024 => EffectiveOutputLimit(m) > 1024
<1> DEFINE p == m.provider
           c == m.ceiling
           e == EffectiveOutputLimit(m)
<1>1. p \in Nat /\ c \in Nat
  BY DEF IsModel
<1>2. e = IF p > 0 THEN IF c > 0 /\ c <= p THEN c ELSE p ELSE c
  BY DEF EffectiveOutputLimit
<1> HIDE DEF p, c, e
<1>3. e \in {p, c} /\ e \in Nat /\ (p > 0 => e <= p) /\ (p > 1024 /\ c \notin 1..1024 => e > 1024)
  BY <1>1, <1>2
<1> QED
  BY <1>3 DEF p, c, e

\* Every serviceable model is served at every level of thinking, including those
\* the UI forwards: the options its client computes are accepted by its API.
THEOREM ModelServed ==
    ASSUME NEW m, IsModel(m), Serviceable(m), NEW effort \in Efforts
    PROVE  OptionsAccepted(m, Options(m, effort))
<1>1. CASE m.api = "anthropic"
  <2> DEFINE o == AnthropicOptions(m, effort)
  <2>1. m.provider > 1024 /\ m.ceiling \notin 1..1024
    BY <1>1 DEF Serviceable
  <2>2. EffectiveOutputLimit(m) \in Nat /\ EffectiveOutputLimit(m) > 1024
    BY <2>1, LimitFacts
  <2>3. MaxTokens(m) = EffectiveOutputLimit(m)
    BY <2>2 DEF MaxTokens
  <2>4. o.max_tokens = MaxTokens(m) /\ MaxTokens(m) <= m.provider
    <3>0. m.provider \in Nat
      BY DEF IsModel
    <3>1. m.provider > 0
      BY <2>1, <3>0
    <3>2. o.max_tokens = MaxTokens(m)
      BY DEF AnthropicOptions
    <3> QED
      BY <2>3, <3>1, <3>2, LimitFacts
  <2>5. ASSUME o.thinking = "enabled" PROVE o.budget_tokens \in 1024..(o.max_tokens - 1)
    <3>1. Thinks(effort) /\ m.style = "budget"
      <4>1. o.thinking = IF ~Thinks(effort) THEN "none"
                         ELSE CASE m.style = "adaptive" -> "adaptive"
                                [] m.style = "budget" -> "enabled"
                                [] OTHER -> "none"
        BY DEF AnthropicOptions
      <4> QED
        BY <2>5, <4>1
    <3>2. o.budget_tokens = thinkingBudget(effort, MaxTokens(m))
      BY <3>1 DEF AnthropicOptions
    <3> QED
      BY <2>2, <2>3, <2>4, <3>2, BudgetFits
  <2> QED
    BY <1>1, <2>4, <2>5 DEF OptionsAccepted, Options
<1>2. CASE m.api = "openai"
  <2> DEFINE o == OpenAIOptions(m, effort)
  <2>1. /\ DOMAIN o.limit = {"max_tokens", "max_completion_tokens"}
        /\ \A f \in DOMAIN o.limit : o.limit[f] = IF f = m.field THEN EffectiveOutputLimit(m) ELSE 0
        /\ o.effort # "" => m.style = "effort"
    BY DEF OpenAIOptions, applyOutputLimit, reasoning_effort
  <2>2. m.style = "effort" => o.limit["max_tokens"] = 0
    BY <2>1 DEF Serviceable
  <2>3. \A f \in DOMAIN o.limit : m.provider > 0 => o.limit[f] <= m.provider
    <3>1. m.provider \in Nat
      BY DEF IsModel
    <3>2. m.provider > 0 => EffectiveOutputLimit(m) <= m.provider /\ 0 <= m.provider
      BY <3>1, LimitFacts
    <3> QED
      BY <2>1, <3>2
  <2> QED
    BY <1>2, <2>1, <2>2, <2>3 DEF OptionsAccepted, Options
<1> QED
  BY <1>1, <1>2 DEF IsModel

\* So every model of today's registry is served.
THEOREM RegistryServed == EveryModelServed
<1>1. ASSUME NEW m \in Registry PROVE IsModel(m) /\ Serviceable(m)
  <2>1. \/ m.api = "anthropic" /\ m.provider \in {64000, 128000} /\ m.ceiling \in {8192, 16384}
           /\ m.style # "effort"
        \/ m.api = "openai" /\ m.provider \in {0, 16384, 100000} /\ m.ceiling \in {8192, 16384}
           /\ (m.style = "effort" => m.field = "max_completion_tokens")
    BY DEF Registry
  <2>2. m.provider \in Nat /\ m.ceiling \in Nat /\ m.ceiling \notin 1..1024
    <3>1. m.ceiling \in {8192, 16384}
      BY <2>1
    <3>2. m.provider \in {0, 16384, 64000, 100000, 128000}
      BY <2>1
    <3> QED
      BY <3>1, <3>2, SMTT(30)
  <2>3. m.api = "anthropic" => m.provider > 1024
    BY <2>1
  <2>4. m.api \in {"anthropic", "openai"} /\ (m.style = "effort" => m.field # "max_tokens")
    BY <2>1
  <2> QED
    BY <2>2, <2>3, <2>4 DEF IsModel, Serviceable
<1> QED
  BY <1>1, ModelServed DEF EveryModelServed
====
