------------------------- MODULE Subsequences_proofs -------------------------
(***************************************************************************)
(* What Kept returns, and the facts of arithmetic that its proofs and      *)
(* those of other modules rest on.                                         *)
(*                                                                         *)
(* The induction theorems of the library take an operator as a parameter.  *)
(* Here induction is over sets: that strict inclusion is well founded on   *)
(* the subsets of a finite set gives every set of naturals a least         *)
(* element, and that gives NaturalsFrom and SequencesFrom.                 *)
(***************************************************************************)
EXTENDS Subsequences, Integers, TLAPS, FiniteSetTheorems, WellFoundedInduction,
        SequenceTheorems, FiniteSetsExt

\* A set of naturals has a least element.
LEMMA LeastNatural ==
  ASSUME NEW T, T \subseteq Nat, T # {}
  PROVE  \E m \in T : \A k \in T : m <= k
<1>1. PICK n \in T : TRUE
  OBVIOUS
<1> DEFINE S == 0 .. n
           Q == {0 .. m : m \in T \cap S}
<1>2. IsFiniteSet(S)
  BY <1>1, FS_Interval
<1>3. IsWellFoundedOn(StrictSubsetOrdering(S), SUBSET S)
  BY <1>2, FS_StrictSubsetOrderingWellFounded, FS_FiniteSubsetsOfFinite, Zenon
<1>4. Q \subseteq SUBSET S /\ Q # {}
  BY <1>1
<1> HIDE DEF Q
<1>5. PICK x \in Q : \A y \in Q : ~ (<<y, x>> \in StrictSubsetOrdering(S))
  BY <1>3, <1>4, WFMin, Zenon
<1>6. PICK m \in T \cap S : x = 0 .. m
  BY <1>5 DEF Q
<1>7. ASSUME NEW k \in T, k < m
      PROVE  FALSE
  <2>1. 0 .. k \in Q
    BY <1>6, <1>7 DEF Q
  <2>2. 0 .. k \subseteq 0 .. m /\ 0 .. k # 0 .. m
    BY <1>6, <1>7
  <2>3. <<0 .. k, x>> \in StrictSubsetOrdering(S)
    BY <1>4, <1>5, <1>6, <2>1, <2>2 DEF StrictSubsetOrdering
  <2> QED
    BY <1>5, <2>1, <2>3
<1> QED
  BY <1>6, <1>7

\* Induction: a set that has 0, and with n the next, has all naturals.
LEMMA NaturalsFrom ==
  ASSUME NEW T, 0 \in T, \A n \in Nat : n \in T => n + 1 \in T
  PROVE  Nat \subseteq T
<1> DEFINE M == Nat \ T
<1>1. SUFFICES ASSUME M # {} PROVE FALSE
  OBVIOUS
<1>2. PICK m \in M : \A k \in M : m <= k
  BY <1>1, LeastNatural, Zenon
<1>3. m # 0 /\ m - 1 \in Nat
  BY <1>2
<1>4. m - 1 \in T
  BY <1>2, <1>3
<1> QED
  BY <1>2, <1>3, <1>4

\* The maximum of a set of naturals below a bound.
LEMMA MaxOfNaturals ==
  ASSUME NEW S, S \subseteq Nat, S # {}, NEW b \in Nat, \A x \in S : x <= b
  PROVE  Max(S) \in S /\ \A x \in S : x <= Max(S)
<1> DEFINE T == {b - x : x \in S}
<1>1. PICK m \in T : \A k \in T : m <= k
  <2>1. \A x \in S : b - x \in Nat
    OBVIOUS
  <2>2. T \subseteq Nat /\ T # {}
    BY <2>1
  <2> QED
    BY <2>2, LeastNatural, Zenon
<1>2. PICK x \in S : m = b - x
  BY <1>1
<1>3. \A y \in S : b - x <= b - y
  BY <1>1, <1>2
<1>4. ASSUME NEW y \in S PROVE x >= y
  <2>1. x \in Nat /\ y \in Nat /\ b - x <= b - y
    BY <1>3
  <2> HIDE DEF T
  <2> QED
    BY <2>1
<1> QED
  BY <1>4, Zenon DEF Max

\* The minimum of a set of naturals.
LEMMA MinOfNaturals ==
  ASSUME NEW S, S \subseteq Nat, S # {}
  PROVE  Min(S) \in S /\ \A x \in S : Min(S) <= x
<1>1. PICK m \in S : \A k \in S : m <= k
  BY LeastNatural, Zenon
<1> QED
  BY <1>1 DEF Min

\* The recursive function of Kept, and what it is at i.
KeptStep(s, K, f, i) ==
  IF i = 0 THEN <<>>
  ELSE IF s[i] \in K THEN Append(f[i - 1], s[i]) ELSE f[i - 1]

KeptFcn(s, K) == CHOOSE f : f = [i \in 0 .. Len(s) |-> IF i = 0 THEN <<>>
  ELSE IF s[i] \in K THEN Append(f[i - 1], s[i]) ELSE f[i - 1]]

\* Kept is the last value of its function.
LEMMA KeptIs == \A s, K : Kept(s, K) = KeptFcn(s, K)[Len(s)]
BY DEF Kept, KeptFcn

\* There is a function as the definition of Kept says, built up from 0.
LEMMA KeptFcnExists ==
  ASSUME NEW S, NEW s \in Seq(S), NEW K
  PROVE  \E f : f = [i \in 0 .. Len(s) |-> KeptStep(s, K, f, i)]
<1> DEFINE G(n, f) == f = [i \in 0 .. n |-> KeptStep(s, K, f, i)]
           T == {n \in Nat : n <= Len(s) => \E f : G(n, f)}
<1>1. 0 \in T
  <2>1. G(0, [i \in 0 .. 0 |-> <<>>])
    BY DEF KeptStep
  <2> QED
    BY <2>1
<1>2. ASSUME NEW n \in Nat, n \in T
      PROVE  n + 1 \in T
  <2> SUFFICES ASSUME n + 1 <= Len(s) PROVE \E f : G(n + 1, f)
    OBVIOUS
  <2>1. PICK f : G(n, f)
    BY <1>2
  <2> DEFINE g == [i \in 0 .. n + 1 |-> IF i = n + 1 THEN KeptStep(s, K, f, i) ELSE f[i]]
  <2>2. \A i \in 0 .. n : g[i] = f[i]
    OBVIOUS
  <2>3. \A i \in 0 .. n + 1 : KeptStep(s, K, g, i) = KeptStep(s, K, f, i)
    BY <2>2 DEF KeptStep
  <2>4. \A i \in 0 .. n : f[i] = KeptStep(s, K, f, i)
    BY <2>1
  <2>5. G(n + 1, g)
    <3>1. \A i \in 0 .. n + 1 : g[i] = KeptStep(s, K, g, i)
      BY <2>3, <2>4
    <3> HIDE DEF g
    <3>2. g = [i \in 0 .. n + 1 |-> g[i]]
      BY DEF g
    <3> QED
      BY <3>1, <3>2
  <2> QED
    BY <2>5
<1>3. Nat \subseteq T
  <2> HIDE DEF T
  <2> QED
    BY <1>1, <1>2, NaturalsFrom, ZenonT(60)
<1> QED
  BY <1>3

\* So the function chosen is one.
LEMMA KeptFcnDef ==
  ASSUME NEW S, NEW s \in Seq(S), NEW K
  PROVE  KeptFcn(s, K) = [i \in 0 .. Len(s) |-> KeptStep(s, K, KeptFcn(s, K), i)]
<1>1. PICK f : f = [i \in 0 .. Len(s) |-> KeptStep(s, K, f, i)]
  BY KeptFcnExists
<1> QED
  BY <1>1 DEF KeptFcn, KeptStep

\* Its value at 0, and at n + 1 from that at n.
LEMMA KeptFcnRec ==
  ASSUME NEW S, NEW s \in Seq(S), NEW K
  PROVE  /\ KeptFcn(s, K)[0] = <<>>
         /\ \A n \in Nat : n < Len(s) =>
              KeptFcn(s, K)[n + 1] = IF s[n + 1] \in K THEN Append(KeptFcn(s, K)[n], s[n + 1])
                                     ELSE KeptFcn(s, K)[n]
<1> DEFINE f == KeptFcn(s, K)
<1>1. f = [i \in 0 .. Len(s) |-> KeptStep(s, K, f, i)]
  BY KeptFcnDef
<1> HIDE DEF f
<1>2. f[0] = <<>>
  <2>1. f[0] = KeptStep(s, K, f, 0)
    BY <1>1
  <2> QED
    BY <2>1 DEF KeptStep
<1>3. ASSUME NEW n \in Nat, n < Len(s)
      PROVE  f[n + 1] = IF s[n + 1] \in K THEN Append(f[n], s[n + 1]) ELSE f[n]
  <2>1. n + 1 \in 0 .. Len(s) /\ n + 1 # 0 /\ (n + 1) - 1 = n
    BY <1>3
  <2>2. f[n + 1] = KeptStep(s, K, f, n + 1)
    BY <1>1, <2>1
  <2>3. f[n + 1] = IF s[n + 1] \in K THEN Append(f[(n + 1) - 1], s[n + 1]) ELSE f[(n + 1) - 1]
    BY <2>1, <2>2, Zenon DEF KeptStep
  <2> QED
    BY <2>1, <2>3, Zenon
<1> QED
  BY <1>2, <1>3 DEF f

\* It does not depend on what comes later in the sequence.
LEMMA KeptFcnPrefix ==
  ASSUME NEW S, NEW s \in Seq(S), NEW e \in S, NEW K
  PROVE  KeptFcn(Append(s, e), K)[Len(s)] = KeptFcn(s, K)[Len(s)]
<1> DEFINE f == KeptFcn(s, K)
           r == Append(s, e)
           g == KeptFcn(r, K)
           T == {n \in Nat : n <= Len(s) => g[n] = f[n]}
<1>1. r \in Seq(S) /\ Len(r) = Len(s) + 1 /\ \A n \in Nat : n < Len(s) => r[n + 1] = s[n + 1]
  OBVIOUS
<1> HIDE DEF r
<1>2. /\ f[0] = <<>>
      /\ \A n \in Nat : n < Len(s) =>
           f[n + 1] = IF s[n + 1] \in K THEN Append(f[n], s[n + 1]) ELSE f[n]
  BY KeptFcnRec
<1>3. /\ g[0] = <<>>
      /\ \A n \in Nat : n < Len(r) =>
           g[n + 1] = IF r[n + 1] \in K THEN Append(g[n], r[n + 1]) ELSE g[n]
  BY <1>1, KeptFcnRec
<1> HIDE DEF f, g
<1>4. 0 \in T
  BY <1>2, <1>3
<1>5. ASSUME NEW n \in Nat, n \in T
      PROVE  n + 1 \in T
  <2>1. CASE n < Len(s)
    BY <1>1, <1>2, <1>3, <1>5, <2>1
  <2>2. CASE ~ (n < Len(s))
    BY <2>2
  <2> QED
    BY <2>1, <2>2
<1>6. Nat \subseteq T
  <2> HIDE DEF T
  <2> QED
    BY <1>4, <1>5, NaturalsFrom, Zenon
<1> QED
  BY <1>6 DEF f, g, r

\* Nothing is kept of the empty sequence.
LEMMA KeptEmpty ==
  ASSUME NEW K
  PROVE  Kept(<<>>, K) = <<>>
<1>1. <<>> \in Seq({}) /\ Len(<<>>) = 0
  OBVIOUS
<1>2. KeptFcn(<<>>, K)[0] = <<>>
  BY <1>1, KeptFcnRec
<1> QED
  BY <1>1, <1>2, KeptIs

\* A last element is kept when it is in the set.
LEMMA KeptAppend ==
  ASSUME NEW S, NEW s \in Seq(S), NEW e \in S, NEW K
  PROVE  Kept(Append(s, e), K) = IF e \in K THEN Append(Kept(s, K), e) ELSE Kept(s, K)
<1> DEFINE r == Append(s, e)
           g == KeptFcn(r, K)
<1>1. r \in Seq(S) /\ Len(r) = Len(s) + 1 /\ r[Len(s) + 1] = e /\ Len(s) \in Nat
  OBVIOUS
<1>2. g[Len(s)] = KeptFcn(s, K)[Len(s)]
  BY KeptFcnPrefix
<1> HIDE DEF r
<1>3. \A n \in Nat : n < Len(r) =>
           g[n + 1] = IF r[n + 1] \in K THEN Append(g[n], r[n + 1]) ELSE g[n]
  BY <1>1, KeptFcnRec
<1> HIDE DEF g
<1>4. g[Len(s) + 1] = IF e \in K THEN Append(g[Len(s)], e) ELSE g[Len(s)]
  BY <1>1, <1>3
<1>5. Kept(r, K) = g[Len(s) + 1] /\ Kept(s, K) = g[Len(s)]
  BY <1>1, <1>2, KeptIs DEF g
<1> QED
  BY <1>4, <1>5 DEF r

\* Induction over sequences: a set that has the empty one, and with a sequence each that is
\* one longer, has them all.
LEMMA SequencesFrom ==
  ASSUME NEW S, NEW T, <<>> \in T,
         \A s \in Seq(S), e \in S : s \in T => Append(s, e) \in T
  PROVE  Seq(S) \subseteq T
<1> DEFINE N == {n \in Nat : \A s \in Seq(S) : Len(s) = n => s \in T}
<1>1. 0 \in N
  BY EmptySeq
<1>2. ASSUME NEW n \in Nat, n \in N
      PROVE  n + 1 \in N
  <2> SUFFICES ASSUME NEW s \in Seq(S), Len(s) = n + 1 PROVE s \in T
    OBVIOUS
  <2> DEFINE r == SubSeq(s, 1, n)
  <2>1. r \in Seq(S) /\ Len(r) = n /\ s[n + 1] \in S
    OBVIOUS
  <2>2. s = Append(r, s[n + 1])
    OBVIOUS
  <2>3. r \in T
    BY <1>2, <2>1
  <2> HIDE DEF r
  <2> QED
    BY <2>1, <2>2, <2>3
<1>3. Nat \subseteq N
  <2> HIDE DEF N
  <2> QED
    BY <1>1, <1>2, NaturalsFrom, Zenon
<1> QED
  BY <1>3

\* What is kept: every element that is in the set and no other, and no element twice when none
\* was there twice.
LEMMA KeptFacts ==
  ASSUME NEW S, NEW s \in Seq(S), NEW K
  PROVE  /\ Kept(s, K) \in Seq(S)
         /\ \A i \in 1 .. Len(s) : s[i] \in K => \E j \in 1 .. Len(Kept(s, K)) : Kept(s, K)[j] = s[i]
         /\ \A j \in 1 .. Len(Kept(s, K)) : \E i \in 1 .. Len(s) : Kept(s, K)[j] = s[i] /\ s[i] \in K
         /\ (\A i, j \in 1 .. Len(s) : s[i] = s[j] => i = j)
               => \A i, j \in 1 .. Len(Kept(s, K)) : Kept(s, K)[i] = Kept(s, K)[j] => i = j
<1> DEFINE A(t, u) == \A i \in 1 .. Len(t) : t[i] \in K => \E j \in 1 .. Len(u) : u[j] = t[i]
           C(t, u) == \A j \in 1 .. Len(u) : \E i \in 1 .. Len(t) : u[j] = t[i] /\ t[i] \in K
           D(t) == \A i, j \in 1 .. Len(t) : t[i] = t[j] => i = j
           F(t, u) == u \in Seq(S) /\ A(t, u) /\ C(t, u) /\ (D(t) => D(u))
           T == {t \in Seq(S) : F(t, Kept(t, K))}
<1>1. <<>> \in T
  <2>1. <<>> \in Seq(S) /\ Len(<<>>) = 0
    OBVIOUS
  <2>2. F(<<>>, <<>>)
    BY <2>1
  <2> HIDE DEF F
  <2>3. F(<<>>, Kept(<<>>, K))
    BY <2>2, KeptEmpty
  <2> QED
    BY <2>1, <2>3
<1>2. ASSUME NEW t \in Seq(S), NEW e \in S, t \in T
      PROVE  Append(t, e) \in T
  <2> DEFINE u == Kept(t, K)
             v == Kept(Append(t, e), K)
             w == Append(t, e)
  <2>1. F(t, u)
    BY <1>2
  <2>2. v = IF e \in K THEN Append(u, e) ELSE u
    BY KeptAppend
  <2> HIDE DEF u, v
  <2>3. /\ w \in Seq(S) /\ Len(w) = Len(t) + 1 /\ w[Len(t) + 1] = e
        /\ \A i \in 1 .. Len(t) : w[i] = t[i]
    OBVIOUS
  <2> HIDE DEF w
  <2>4. CASE e \notin K
    <3>1. v = u
      BY <2>2, <2>4
    <3>2. A(w, u)
      <4> SUFFICES ASSUME NEW i \in 1 .. Len(w), w[i] \in K
                   PROVE  \E j \in 1 .. Len(u) : u[j] = w[i]
        OBVIOUS
      <4>1. i \in 1 .. Len(t)
        BY <2>3, <2>4
      <4> QED
        BY <2>1, <2>3, <4>1
    <3>3. C(w, u)
      BY <2>1, <2>3
    <3>4. D(w) => D(t)
      BY <2>3
    <3> HIDE DEF A, C, D
    <3>5. F(w, v)
      BY <2>1, <3>1, <3>2, <3>3, <3>4
    <3> QED
      BY <2>3, <3>5 DEF v, w
  <2>5. CASE e \in K
    <3>1. /\ v \in Seq(S) /\ Len(v) = Len(u) + 1 /\ v[Len(u) + 1] = e
          /\ \A i \in 1 .. Len(u) : v[i] = u[i]
      BY <2>1, <2>2, <2>5
    <3>2. A(w, v)
      <4> SUFFICES ASSUME NEW i \in 1 .. Len(w), w[i] \in K
                   PROVE  \E j \in 1 .. Len(v) : v[j] = w[i]
        OBVIOUS
      <4>1. CASE i = Len(t) + 1
        BY <2>1, <2>3, <3>1, <4>1
      <4>2. CASE i \in 1 .. Len(t)
        <5>1. PICK j \in 1 .. Len(u) : u[j] = t[i]
          BY <2>1, <2>3, <4>2
        <5> QED
          BY <2>1, <2>3, <3>1, <4>2, <5>1
      <4> QED
        BY <2>3, <4>1, <4>2
    <3>3. C(w, v)
      <4> SUFFICES ASSUME NEW j \in 1 .. Len(v)
                   PROVE  \E i \in 1 .. Len(w) : v[j] = w[i] /\ w[i] \in K
        OBVIOUS
      <4>1. CASE j = Len(u) + 1
        <5>1. Len(t) \in Nat /\ Len(t) + 1 \in 1 .. Len(w)
          BY <2>3
        <5>2. v[j] = w[Len(t) + 1]
          BY <2>3, <3>1, <4>1
        <5> QED
          BY <2>3, <2>5, <5>1, <5>2
      <4>2. CASE j \in 1 .. Len(u)
        <5>1. PICK i \in 1 .. Len(t) : u[j] = t[i] /\ t[i] \in K
          BY <2>1, <4>2
        <5>2. i \in 1 .. Len(w) /\ w[i] = t[i]
          BY <2>3
        <5>3. v[j] = w[i] /\ w[i] \in K
          BY <3>1, <4>2, <5>1, <5>2
        <5> QED
          BY <5>2, <5>3
      <4> QED
        BY <2>1, <3>1, <4>1, <4>2
    <3>4. ASSUME D(w) PROVE D(v)
      <4>1. Len(t) \in Nat /\ \A i \in 1 .. Len(t) : i \in 1 .. Len(w) /\ i # Len(t) + 1 /\ w[i] = t[i]
        BY <2>3
      <4>2. Len(t) + 1 \in 1 .. Len(w) /\ w[Len(t) + 1] = e
        BY <2>3, <4>1
      <4>3. D(t)
        BY <3>4, <4>1
      <4>4. D(t) /\ \A i \in 1 .. Len(t) : t[i] # e
        BY <3>4, <4>1, <4>2, <4>3
      <4>5. D(u) /\ \A i \in 1 .. Len(u) : u[i] # e
        <5>1. \A j \in 1 .. Len(u) : \E i \in 1 .. Len(t) : u[j] = t[i]
          BY <2>1
        <5> QED
          BY <2>1, <4>4, <5>1
      <4> SUFFICES ASSUME NEW i \in 1 .. Len(v), NEW j \in 1 .. Len(v), v[i] = v[j]
                   PROVE  i = j
        OBVIOUS
      <4>6. Len(u) \in Nat
        BY <2>1
      <4>7. i \in 1 .. Len(u) \/ i = Len(u) + 1
        BY <3>1, <4>6
      <4>8. j \in 1 .. Len(u) \/ j = Len(u) + 1
        BY <3>1, <4>6
      <4> QED
        BY <3>1, <4>5, <4>7, <4>8
    <3> HIDE DEF A, C, D
    <3>5. F(w, v)
      BY <3>1, <3>2, <3>3, <3>4
    <3> QED
      BY <2>3, <3>5 DEF v, w
  <2> QED
    BY <2>4, <2>5
<1>3. Seq(S) \subseteq T
  <2> HIDE DEF T
  <2> QED
    BY <1>1, <1>2, SequencesFrom, Zenon
<1> QED
  BY <1>3

\* Opaque, so that the provers do not unfold what they need only instantiate.
AppendsLast(x, y, e) == Append(x \o y, e) = x \o Append(y, e)

\* Appending to the second of two sequences appends to both in a row.
LEMMA AppendConcat == \A S : \A x, y \in Seq(S) : \A e \in S : AppendsLast(x, y, e)
BY DEF AppendsLast

\* What is kept of two sequences in a row is kept of each.
LEMMA KeptConcat ==
  ASSUME NEW S, NEW r \in Seq(S), NEW s \in Seq(S), NEW K
  PROVE  Kept(r \o s, K) = Kept(r, K) \o Kept(s, K)
<1> DEFINE T == {t \in Seq(S) : Kept(r \o t, K) = Kept(r, K) \o Kept(t, K)}
<1>1. Kept(r, K) \in Seq(S)
  BY KeptFacts
<1>2. <<>> \in T
  <2>1. <<>> \in Seq(S) /\ r \o <<>> = r /\ Kept(r, K) \o <<>> = Kept(r, K)
    BY <1>1
  <2> QED
    BY <2>1, KeptEmpty
<1>3. ASSUME NEW t \in Seq(S), NEW e \in S, t \in T
      PROVE  Append(t, e) \in T
  <2>1. Kept(t, K) \in Seq(S)
    BY KeptFacts
  <2>2. r \o t \in Seq(S) /\ r \o Append(t, e) = Append(r \o t, e) /\ Append(t, e) \in Seq(S)
    OBVIOUS
  <2>3. Kept(r \o Append(t, e), K)
          = IF e \in K THEN Append(Kept(r \o t, K), e) ELSE Kept(r \o t, K)
    BY <2>2, KeptAppend
  <2>4. Kept(Append(t, e), K) = IF e \in K THEN Append(Kept(t, K), e) ELSE Kept(t, K)
    BY KeptAppend
  <2>5. Append(Kept(r, K) \o Kept(t, K), e) = Kept(r, K) \o Append(Kept(t, K), e)
    <3> PICK x \in Seq(S) : x = Kept(r, K)
      BY <1>1
    <3> PICK y \in Seq(S) : y = Kept(t, K)
      BY <2>1
    <3>1. AppendsLast(x, y, e)
      BY AppendConcat
    <3> QED
      BY ONLY <3>1, x = Kept(r, K), y = Kept(t, K) DEF AppendsLast
  <2>6. Kept(r \o t, K) = Kept(r, K) \o Kept(t, K)
    BY <1>3
  <2>7. Kept(r \o Append(t, e), K) = Kept(r, K) \o Kept(Append(t, e), K)
    BY ONLY <2>3, <2>4, <2>5, <2>6
  <2> QED
    BY <2>2, <2>7
<1>4. Seq(S) \subseteq T
  <2> HIDE DEF T
  <2> QED
    BY <1>2, <1>3, SequencesFrom
<1> QED
  BY <1>4

\* All is kept of a sequence that has nothing else.
LEMMA KeptAll ==
  ASSUME NEW K, NEW s \in Seq(K)
  PROVE  Kept(s, K) = s
<1> DEFINE T == {t \in Seq(K) : Kept(t, K) = t}
<1>1. <<>> \in T
  BY KeptEmpty
<1>2. ASSUME NEW t \in Seq(K), NEW e \in K, t \in T
      PROVE  Append(t, e) \in T
  <2>1. Kept(Append(t, e), K) = Append(Kept(t, K), e)
    BY KeptAppend
  <2>2. Kept(t, K) = t /\ Append(t, e) \in Seq(K)
    BY <1>2
  <2> QED
    BY <2>1, <2>2
<1>3. Seq(K) \subseteq T
  <2> HIDE DEF T
  <2> QED
    BY <1>1, <1>2, SequencesFrom
<1> QED
  BY <1>3

\* Nothing is kept of a sequence that has nothing in the set.
LEMMA KeptNone ==
  ASSUME NEW S, NEW s \in Seq(S), NEW K, \A i \in 1 .. Len(s) : s[i] \notin K
  PROVE  Kept(s, K) = <<>>
<1>1. Kept(s, K) \in Seq(S)
  BY KeptFacts
<1>2. \A j \in 1 .. Len(Kept(s, K)) : \E i \in 1 .. Len(s) : Kept(s, K)[j] = s[i] /\ s[i] \in K
  BY KeptFacts
<1>3. \A j \in 1 .. Len(Kept(s, K)) : FALSE
  BY <1>2
<1> PICK u \in Seq(S) : u = Kept(s, K)
  BY <1>1
<1> QED
  BY <1>3
=============================================================================
