------------------------- MODULE Propagators_proofs -------------------------
(***************************************************************************)
(* No solution is lost, nothing else is accepted, and what may still fail  *)
(* is watched, for any program.                                            *)
(*                                                                         *)
(* Bodies are looked at one by one, with the assignments that satisfy a    *)
(* constraint as a set (Sat): each keeps them (Sound), and kills its frame *)
(* only if nothing else is left (BodyOf).  The machine keeps chain, words  *)
(* and listeners in agreement (MachineOk).  Between the two, every         *)
(* constraint that is not Entailed is Covered: it is heard of, and will be *)
(* looked at.                                                              *)
(***************************************************************************)
EXTENDS Propagators, Subsequences_proofs

-----------------------------------------------------------------------------
(* Finite sets of integers.                                                *)

\* A finite set of integers has a least and a greatest element.
LEMMA Extremes ==
  ASSUME NEW S, S \subseteq Int, IsFiniteSet(S), S # {}
  PROVE  /\ Min(S) \in S /\ Max(S) \in S
         /\ \A y \in S : Min(S) <= y /\ y <= Max(S)
<1> DEFINE Has(Q) == \E l, u \in Q : \A y \in Q : l <= y /\ y <= u
           T == {n \in Nat : \A Q \in SUBSET S : Cardinality(Q) = n /\ Q # {} => Has(Q)}
<1>1. \A Q \in SUBSET S : IsFiniteSet(Q) /\ Cardinality(Q) \in Nat
  BY FS_Subset, FS_CardinalityType
<1>2. 0 \in T
  BY <1>1, FS_EmptySet
<1>3. ASSUME NEW n \in Nat, n \in T
      PROVE  n + 1 \in T
  <2> SUFFICES ASSUME NEW Q \in SUBSET S, Cardinality(Q) = n + 1, Q # {} PROVE Has(Q)
    OBVIOUS
  <2>1. PICK e \in Q : TRUE
    OBVIOUS
  <2> DEFINE R == Q \ {e}
  <2>2. R \in SUBSET S /\ Cardinality(R) = n
    BY <1>1, <2>1, FS_RemoveElement
  <2>3. CASE R = {}
    <3>1. \A y \in Q : y = e /\ e <= e
      BY <2>1, <2>3
    <3> QED
      BY <2>1, <3>1
  <2>4. CASE R # {}
    <3>1. PICK l, u \in R : \A y \in R : l <= y /\ y <= u
      BY <1>3, <2>2, <2>4
    <3>2. \A y \in Q : y = e \/ (l <= y /\ y <= u)
      BY <3>1
    <3>3. e \in Int /\ l \in Int /\ u \in Int /\ l \in Q /\ u \in Q
      BY <2>1, <3>1
    <3> DEFINE l1 == IF e < l THEN e ELSE l
               u1 == IF e > u THEN e ELSE u
    <3>4. l1 \in Q /\ u1 \in Q
      BY <2>1, <3>3
    <3>5. \A y \in Q : l1 <= y /\ y <= u1
      <4> SUFFICES ASSUME NEW y \in Q PROVE l1 <= y /\ y <= u1
        OBVIOUS
      <4>1. y \in Int /\ l <= u
        BY <3>1, <3>3
      <4> QED
        BY <3>2, <3>3, <4>1
    <3> HIDE DEF l1, u1
    <3> QED
      BY <3>4, <3>5
  <2> QED
    BY <2>3, <2>4
<1>4. Nat \subseteq T
  <2> HIDE DEF T
  <2> QED
    BY <1>2, <1>3, NaturalsFrom, Zenon
<1>5. Has(S)
  BY <1>1, <1>4
<1> QED
  BY <1>5, Zenon DEF Max, Min

\* A set of one integer.
LEMMA OneElement ==
  ASSUME NEW S, S \subseteq Int, IsFiniteSet(S), Cardinality(S) = 1
  PROVE  S = {Min(S)} /\ Min(S) \in Int /\ Max(S) = Min(S)
<1>1. PICK v : S = {v}
  BY FS_Singleton
<1>2. Min(S) \in S /\ Max(S) \in S
  BY <1>1, Extremes
<1> QED
  BY <1>1, <1>2

\* A set of one value: that value is its minimum and its maximum.
LEMMA OneElementIs ==
  ASSUME NEW S, NEW v \in Int, S = {v}
  PROVE  IsFiniteSet(S) /\ Cardinality(S) = 1 /\ Min(S) = v /\ Max(S) = v
<1>1. IsFiniteSet(S) /\ Cardinality(S) = 1
  BY FS_Singleton
<1> QED
  BY <1>1, Extremes

\* More than one: some two differ.
LEMMA NotOneElement ==
  ASSUME NEW S, S \subseteq Int, IsFiniteSet(S), S # {}, Cardinality(S) # 1
  PROVE  \A v : \E w \in S : w # v
<1> SUFFICES ASSUME NEW v, \A w \in S : w = v PROVE FALSE
  OBVIOUS
<1>1. S = {v}
  OBVIOUS
<1> QED
  BY <1>1, FS_Singleton

-----------------------------------------------------------------------------
(* Recursive functions over 0 .. n.                                        *)

IsRecursion(A, b, n, F, f) ==
  /\ f = [i \in 0 .. n |-> IF i = 0 THEN b ELSE F[<<f[i - 1], i>>]]
  /\ \A i \in 0 .. n : f[i] \in A

\* The function that starts with b and goes on by F exists.
LEMMA Recursion ==
  ASSUME NEW A, NEW b \in A, NEW n \in Nat, NEW F,
         \A a \in A, i \in 1 .. n : F[<<a, i>>] \in A
  PROVE  \E f : IsRecursion(A, b, n, F, f)
<1> DEFINE Next1(f, i) == IF i = 0 THEN b ELSE F[<<f[i - 1], i>>]
           G(m, f) == f = [i \in 0 .. m |-> Next1(f, i)] /\ \A i \in 0 .. m : f[i] \in A
           T == {m \in Nat : m <= n => \E f : G(m, f)}
<1>1. 0 \in T
  <2> DEFINE f == [i \in 0 .. 0 |-> b]
  <2>1. G(0, f)
    OBVIOUS
  <2> HIDE DEF f
  <2> QED
    BY <2>1
<1>2. ASSUME NEW m \in Nat, m \in T
      PROVE  m + 1 \in T
  <2> SUFFICES ASSUME m + 1 <= n PROVE \E f : G(m + 1, f)
    OBVIOUS
  <2>1. PICK f : G(m, f)
    BY <1>2
  <2> DEFINE g == [i \in 0 .. m + 1 |-> IF i = m + 1 THEN Next1(f, i) ELSE f[i]]
  <2>2. \A i \in 0 .. m : g[i] = f[i]
    OBVIOUS
  <2>3. \A i \in 0 .. m + 1 : Next1(g, i) = Next1(f, i)
    BY <2>2
  <2>4. \A i \in 0 .. m : f[i] = Next1(f, i) /\ f[i] \in A
    BY <2>1
  <2>5. m \in 0 .. m /\ m + 1 \in 1 .. n /\ (m + 1) - 1 = m /\ m + 1 # 0
    OBVIOUS
  <2>6. Next1(f, m + 1) = F[<<f[m], m + 1>>]
    BY <2>5
  <2>7. Next1(f, m + 1) \in A
    BY <2>4, <2>5, <2>6
  <2>8. \A i \in 0 .. m + 1 : i = m + 1 \/ i \in 0 .. m
    OBVIOUS
  <2>9. g = [i \in 0 .. m + 1 |-> g[i]] /\ \A i \in 0 .. m + 1 : g[i] = IF i = m + 1 THEN Next1(f, i) ELSE f[i]
    OBVIOUS
  <2> HIDE DEF g, Next1
  <2>10. \A i \in 0 .. m + 1 : g[i] = Next1(g, i) /\ g[i] \in A
    BY <2>3, <2>4, <2>7, <2>8, <2>9
  <2>11. G(m + 1, g)
    BY <2>9, <2>10
  <2> QED
    BY <2>11
<1>3. Nat \subseteq T
  <2> HIDE DEF T
  <2> QED
    BY <1>1, <1>2, NaturalsFrom, ZenonT(60)
<1> QED
  BY <1>3 DEF IsRecursion

\* What each step keeps, the whole function keeps.
LEMMA StaysIn ==
  ASSUME NEW A, NEW n \in Nat, NEW g, g[0] \in A,
         \A i \in 1 .. n : g[i - 1] \in A => g[i] \in A
  PROVE  \A i \in 0 .. n : g[i] \in A
<1> DEFINE T == {m \in Nat : m <= n => g[m] \in A}
<1>1. 0 \in T
  OBVIOUS
<1>2. ASSUME NEW m \in Nat, m \in T
      PROVE  m + 1 \in T
  BY <1>2
<1>3. Nat \subseteq T
  <2> HIDE DEF T
  <2> QED
    BY <1>1, <1>2, NaturalsFrom, ZenonT(60)
<1> QED
  BY <1>3

-----------------------------------------------------------------------------
(* Sums.                                                                   *)

\* The sum of c and the first i numbers.
Partial(c, f, i) == Total(c, [j \in 1 .. i |-> f[j]])

IsSum(c, s, sum) ==
  /\ Total(c, s) = sum[Len(s)]
  /\ sum[0] = c
  /\ \A i \in 1 .. Len(s) : sum[i] = sum[i - 1] + s[i]
  /\ \A i \in 0 .. Len(s) : sum[i] \in Int

\* The recursive function of Total exists.
LEMMA TotalFcn ==
  ASSUME NEW c \in Int, NEW s \in Seq(Int)
  PROVE  \E sum : IsSum(c, s, sum)
<1> DEFINE n == Len(s)
           F == [p \in Int \X (1 .. n) |-> p[1] + s[p[2]]]
           G(f) == f = [i \in 0 .. n |-> IF i = 0 THEN c ELSE f[i - 1] + s[i]]
           S == CHOOSE f : G(f)
<1>1. n \in Nat /\ \A i \in 1 .. n : s[i] \in Int
  OBVIOUS
<1>2. \A a \in Int, i \in 1 .. n : F[<<a, i>>] = a + s[i]
  OBVIOUS
<1> HIDE DEF F, n
<1>3. \A a \in Int, i \in 1 .. n : F[<<a, i>>] \in Int
  <2> TAKE a \in Int, i \in 1 .. n
  <2>1. F[<<a, i>>] = a + s[i] /\ s[i] \in Int
    BY <1>1, <1>2
  <2> QED
    BY <2>1
<1>12. PICK f : IsRecursion(Int, c, n, F, f)
  BY <1>1, <1>3, Recursion
<1>4. /\ f = [i \in 0 .. n |-> IF i = 0 THEN c ELSE F[<<f[i - 1], i>>]]
      /\ \A i \in 0 .. n : f[i] \in Int
  BY <1>12 DEF IsRecursion
<1>5. \A i \in 0 .. n : (IF i = 0 THEN c ELSE F[<<f[i - 1], i>>]) = IF i = 0 THEN c ELSE f[i - 1] + s[i]
  <2> SUFFICES ASSUME NEW i \in 0 .. n, i # 0 PROVE F[<<f[i - 1], i>>] = f[i - 1] + s[i]
    OBVIOUS
  <2>1. i \in 1 .. n /\ i - 1 \in 0 .. n
    BY <1>1
  <2> QED
    BY <1>2, <1>4, <2>1
<1>6. G(f)
  BY <1>4, <1>5
<1>7. G(S)
  BY <1>6
<1>8. Total(c, s) = S[n]
  BY DEF Total, n
<1> HIDE DEF S
<1>9. S[0] = c /\ \A i \in 1 .. n : S[i] = S[i - 1] + s[i]
  BY <1>1, <1>7
<1>10. \A i \in 1 .. n : S[i - 1] \in Int => S[i] \in Int
  BY <1>1, <1>9
<1>11. \A i \in 0 .. n : S[i] \in Int
  BY <1>1, <1>9, <1>10, StaysIn
<1> QED
  BY <1>8, <1>9, <1>11 DEF n, IsSum

\* Adding up the numbers one by one.
LEMMA PartialFcn ==
  ASSUME NEW c \in Int, NEW n \in Nat, NEW f \in [1 .. n -> Int]
  PROVE  \E sum : /\ sum[0] = c
                  /\ \A i \in 1 .. n : sum[i] = sum[i - 1] + f[i]
                  /\ \A i \in 0 .. n : sum[i] \in Int /\ Partial(c, f, i) = sum[i]
<1>1. f \in Seq(Int) /\ Len(f) = n
  OBVIOUS
<1>4. PICK sum : IsSum(c, f, sum)
  BY <1>1, TotalFcn
<1>2. /\ sum[0] = c
      /\ \A i \in 1 .. n : sum[i] = sum[i - 1] + f[i]
      /\ \A i \in 0 .. n : sum[i] \in Int
  BY <1>1, <1>4 DEF IsSum
<1>3. ASSUME NEW m \in 0 .. n
      PROVE  Partial(c, f, m) = sum[m]
  <2> DEFINE r == [j \in 1 .. m |-> f[j]]
  <2>1. r \in Seq(Int) /\ Len(r) = m /\ \A j \in 1 .. m : r[j] = f[j]
    OBVIOUS
  <2> HIDE DEF r
  <2>7. PICK own : IsSum(c, r, own)
    BY <2>1, TotalFcn
  <2>2. /\ Total(c, r) = own[m]
        /\ own[0] = c
        /\ \A i \in 1 .. m : own[i] = own[i - 1] + r[i]
    BY <2>1, <2>7 DEF IsSum
  <2> DEFINE A == {i \in Nat : i <= m => own[i] = sum[i]}
  <2>3. 0 \in A
    BY <1>2, <2>2
  <2>4. ASSUME NEW i \in Nat, i \in A PROVE i + 1 \in A
    <3> SUFFICES ASSUME i + 1 <= m PROVE own[i + 1] = sum[i + 1]
      OBVIOUS
    <3>1. i + 1 \in 1 .. m /\ i + 1 \in 1 .. n /\ (i + 1) - 1 = i /\ own[i] = sum[i]
      BY <2>4
    <3> QED
      BY <1>2, <2>1, <2>2, <3>1
  <2>5. Nat \subseteq A
    <3> HIDE DEF A
    <3> QED
      BY <2>3, <2>4, NaturalsFrom, ZenonT(60)
  <2>6. own[m] = sum[m]
    BY <2>5
  <2> QED
    BY <2>2, <2>6 DEF Partial, r
<1> QED
  BY <1>2, <1>3

\* Sums of the first i numbers: empty, with one more, and of their type.
LEMMA PartialStep ==
  ASSUME NEW c \in Int, NEW n \in Nat, NEW f \in [1 .. n -> Int]
  PROVE  /\ Partial(c, f, 0) = c
         /\ \A i \in 1 .. n : Partial(c, f, i) = Partial(c, f, i - 1) + f[i]
         /\ \A i \in 0 .. n : Partial(c, f, i) \in Int
<1>1. PICK sum : /\ sum[0] = c
                 /\ \A i \in 1 .. n : sum[i] = sum[i - 1] + f[i]
                 /\ \A i \in 0 .. n : sum[i] \in Int /\ Partial(c, f, i) = sum[i]
  BY PartialFcn
<1>2. ASSUME NEW i \in 1 .. n
      PROVE  Partial(c, f, i) = Partial(c, f, i - 1) + f[i]
  <2>1. i - 1 \in 0 .. n /\ i \in 0 .. n
    OBVIOUS
  <2> QED
    BY <1>1, <2>1
<1>3. 0 \in 0 .. n
  OBVIOUS
<1> QED
  BY <1>1, <1>2, <1>3

\* The sum grows with every number, by at least as much.
LEMMA PartialGrows ==
  ASSUME NEW c \in Int, NEW n \in Nat, NEW f \in [1 .. n -> Int], NEW g \in [1 .. n -> Int],
         \A i \in 1 .. n : f[i] <= g[i]
  PROVE  /\ \A i \in 0 .. n : Partial(c, f, i) <= Partial(c, g, i)
         /\ \A j \in 1 .. n : g[j] - f[j] <= Partial(c, g, n) - Partial(c, f, n)
<1> DEFINE D(i) == Partial(c, g, i) - Partial(c, f, i)
           A == {i \in Nat : i <= n => 0 <= D(i) /\ \A j \in 1 .. i : g[j] - f[j] <= D(i)}
<1>1. /\ Partial(c, f, 0) = c
      /\ \A i \in 1 .. n : Partial(c, f, i) = Partial(c, f, i - 1) + f[i]
      /\ \A i \in 0 .. n : Partial(c, f, i) \in Int
  BY PartialStep
<1>2. /\ Partial(c, g, 0) = c
      /\ \A i \in 1 .. n : Partial(c, g, i) = Partial(c, g, i - 1) + g[i]
      /\ \A i \in 0 .. n : Partial(c, g, i) \in Int
  BY PartialStep
<1>3. 0 \in A
  BY <1>1, <1>2
<1>4. ASSUME NEW i \in Nat, i \in A PROVE i + 1 \in A
  <2> SUFFICES ASSUME i + 1 <= n
               PROVE  0 <= D(i + 1) /\ \A j \in 1 .. i + 1 : g[j] - f[j] <= D(i + 1)
    OBVIOUS
  <2>1. i + 1 \in 1 .. n /\ (i + 1) - 1 = i /\ i \in 0 .. n /\ i + 1 \in 0 .. n
    OBVIOUS
  <2>2. Partial(c, f, i + 1) = Partial(c, f, i) + f[i + 1] /\ Partial(c, g, i + 1) = Partial(c, g, i) + g[i + 1]
    BY <1>1, <1>2, <2>1
  <2>3. /\ Partial(c, f, i) \in Int /\ Partial(c, g, i) \in Int /\ f[i + 1] \in Int /\ g[i + 1] \in Int
        /\ f[i + 1] <= g[i + 1]
    BY <1>1, <1>2, <2>1
  <2>4. 0 <= D(i) /\ \A j \in 1 .. i : g[j] - f[j] <= D(i)
    BY <1>4, <2>1
  <2>5. D(i + 1) = D(i) + (g[i + 1] - f[i + 1])
    BY <2>2, <2>3
  <2>6. D(i) \in Int
    BY <2>3
  <2> HIDE DEF D
  <2>7. ASSUME NEW j \in 1 .. i + 1
        PROVE  g[j] - f[j] <= D(i + 1)
    <3>1. j \in 1 .. n /\ f[j] \in Int /\ g[j] \in Int
      OBVIOUS
    <3>2. CASE j = i + 1
      BY <2>3, <2>4, <2>5, <2>6, <3>2
    <3>3. CASE j \in 1 .. i
      <4> DEFINE gap == g[j] - f[j]
                 here == g[i + 1] - f[i + 1]
      <4>1. gap <= D(i) /\ gap \in Int
        BY <2>4, <3>1, <3>3
      <4>2. here \in Int /\ 0 <= here /\ D(i + 1) = D(i) + here
        BY <2>3, <2>5
      <4> HIDE DEF gap, here
      <4>3. gap <= D(i + 1)
        BY <2>6, <4>1, <4>2
      <4> QED
        BY <4>3 DEF gap
    <3> QED
      BY <3>2, <3>3
  <2> QED
    BY <2>3, <2>4, <2>5, <2>6, <2>7
<1>5. Nat \subseteq A
  <2> HIDE DEF A
  <2> QED
    BY <1>3, <1>4, NaturalsFrom, ZenonT(60)
<1>6. ASSUME NEW i \in 0 .. n PROVE Partial(c, f, i) <= Partial(c, g, i)
  <2>1. 0 <= D(i)
    BY <1>5
  <2> QED
    BY <1>1, <1>2, <2>1
<1>7. \A j \in 1 .. n : g[j] - f[j] <= D(n)
  BY <1>5
<1> QED
  BY <1>6, <1>7

\* Sums of two sequences add up.
LEMMA PartialPlus ==
  ASSUME NEW c \in Int, NEW n \in Nat, NEW f \in [1 .. n -> Int], NEW g \in [1 .. n -> Int],
         NEW h \in [1 .. n -> Int], \A i \in 1 .. n : h[i] = f[i] + g[i]
  PROVE  \A i \in 0 .. n : Partial(c, h, i) = Partial(c, f, i) + Partial(0, g, i)
<1> DEFINE A == {i \in Nat : i <= n => Partial(c, h, i) = Partial(c, f, i) + Partial(0, g, i)}
<1>1. /\ Partial(c, f, 0) = c
      /\ \A i \in 1 .. n : Partial(c, f, i) = Partial(c, f, i - 1) + f[i]
      /\ \A i \in 0 .. n : Partial(c, f, i) \in Int
  BY PartialStep
<1>2. /\ Partial(0, g, 0) = 0
      /\ \A i \in 1 .. n : Partial(0, g, i) = Partial(0, g, i - 1) + g[i]
      /\ \A i \in 0 .. n : Partial(0, g, i) \in Int
  <2>1. 0 \in Int
    OBVIOUS
  <2> QED
    BY <2>1, PartialStep, Zenon
<1>3. /\ Partial(c, h, 0) = c
      /\ \A i \in 1 .. n : Partial(c, h, i) = Partial(c, h, i - 1) + h[i]
  BY PartialStep
<1>4. 0 \in A
  BY <1>1, <1>2, <1>3
<1>5. ASSUME NEW i \in Nat, i \in A PROVE i + 1 \in A
  <2> SUFFICES ASSUME i + 1 <= n
               PROVE  Partial(c, h, i + 1) = Partial(c, f, i + 1) + Partial(0, g, i + 1)
    OBVIOUS
  <2>1. i + 1 \in 1 .. n /\ (i + 1) - 1 = i /\ i \in 0 .. n
    OBVIOUS
  <2>2. /\ Partial(c, h, i + 1) = Partial(c, h, i) + h[i + 1]
        /\ Partial(c, f, i + 1) = Partial(c, f, i) + f[i + 1]
        /\ Partial(0, g, i + 1) = Partial(0, g, i) + g[i + 1]
    BY <1>1, <1>2, <1>3, <2>1
  <2>3. Partial(c, f, i) \in Int /\ Partial(0, g, i) \in Int /\ f[i + 1] \in Int /\ g[i + 1] \in Int
    BY <1>1, <1>2, <2>1
  <2>4. Partial(c, h, i) = Partial(c, f, i) + Partial(0, g, i) /\ h[i + 1] = f[i + 1] + g[i + 1]
    BY <1>5, <2>1
  <2> QED
    BY <2>2, <2>3, <2>4
<1>6. Nat \subseteq A
  <2> HIDE DEF A
  <2> QED
    BY <1>4, <1>5, NaturalsFrom, ZenonT(60)
<1> QED
  BY <1>6

AddUp(n, f, g, h) ==
  /\ f \in [1 .. n -> Int] /\ g \in [1 .. n -> Int] /\ h \in [1 .. n -> Int]
  /\ \A i \in 1 .. n : h[i] = f[i] + g[i]

\* The sum of two sequences added up term by term.
LEMMA PartialAdds ==
  ASSUME NEW c \in Int, NEW n \in Nat, NEW f, NEW g, NEW h, AddUp(n, f, g, h)
  PROVE  Partial(c, h, n) = Partial(c, f, n) + Partial(0, g, n)
<1>1. /\ f \in [1 .. n -> Int] /\ g \in [1 .. n -> Int] /\ h \in [1 .. n -> Int]
      /\ \A i \in 1 .. n : h[i] = f[i] + g[i]
  BY DEF AddUp
<1>2. \A i \in 0 .. n : Partial(c, h, i) = Partial(c, f, i) + Partial(0, g, i)
  BY <1>1, PartialPlus
<1> QED
  BY <1>2

\* Equal numbers have equal sums.
LEMMA PartialSame ==
  ASSUME NEW c, NEW f, NEW g, NEW n \in Nat, \A i \in 1 .. n : f[i] = g[i]
  PROVE  \A i \in 0 .. n : Partial(c, f, i) = Partial(c, g, i)
<1> SUFFICES ASSUME NEW i \in 0 .. n PROVE Partial(c, f, i) = Partial(c, g, i)
  OBVIOUS
<1>1. [j \in 1 .. i |-> f[j]] = [j \in 1 .. i |-> g[j]]
  OBVIOUS
<1> QED
  BY <1>1 DEF Partial

\* Sums of zeroes and one other number.
LEMMA PartialOne ==
  ASSUME NEW c \in Int, NEW n \in Nat, NEW g \in [1 .. n -> Int], NEW k \in 1 .. n,
         \A i \in 1 .. n : i # k => g[i] = 0
  PROVE  Partial(c, g, n) = c + g[k]
<1> DEFINE A == {i \in Nat : i <= n => Partial(c, g, i) = IF i < k THEN c ELSE c + g[k]}
<1>1. /\ Partial(c, g, 0) = c
      /\ \A i \in 1 .. n : Partial(c, g, i) = Partial(c, g, i - 1) + g[i]
  BY PartialStep
<1>2. 0 \in A
  BY <1>1
<1>3. ASSUME NEW i \in Nat, i \in A PROVE i + 1 \in A
  <2> SUFFICES ASSUME i + 1 <= n
               PROVE  Partial(c, g, i + 1) = IF i + 1 < k THEN c ELSE c + g[k]
    OBVIOUS
  <2>1. i + 1 \in 1 .. n /\ (i + 1) - 1 = i /\ g[i + 1] \in Int /\ g[k] \in Int
    OBVIOUS
  <2>2. Partial(c, g, i + 1) = Partial(c, g, i) + g[i + 1]
    BY <1>1, <2>1
  <2>3. Partial(c, g, i) = IF i < k THEN c ELSE c + g[k]
    BY <1>3
  <2>4. CASE i + 1 = k
    BY <2>1, <2>2, <2>3, <2>4
  <2>5. CASE i + 1 # k
    <3>1. g[i + 1] = 0 /\ (i + 1 < k <=> i < k)
      BY <2>1, <2>5
    <3> QED
      BY <2>1, <2>2, <2>3, <3>1
  <2> QED
    BY <2>4, <2>5
<1>4. Nat \subseteq A
  <2> HIDE DEF A
  <2> QED
    BY <1>2, <1>3, NaturalsFrom, ZenonT(60)
<1> QED
  BY <1>4

Counts(n, K, d, g) ==
  /\ K \subseteq 1 .. n /\ d \in {1, -1} /\ g \in [1 .. n -> Int]
  /\ \A i \in 1 .. n : g[i] = IF i \in K THEN d ELSE 0

\* A sum of ones for the members of K is the number of them.
LEMMA PartialCount ==
  ASSUME NEW c \in Int, NEW n \in Nat, NEW K, NEW d, NEW g, Counts(n, K, d, g)
  PROVE  IsFiniteSet(K) /\ Cardinality(K) \in Nat /\ Partial(c, g, n) = c + d * Cardinality(K)
<1>9. K \subseteq 1 .. n /\ d \in {1, -1} /\ g \in [1 .. n -> Int]
  BY DEF Counts
<1>10. \A i \in 1 .. n : g[i] = IF i \in K THEN d ELSE 0
  BY DEF Counts
<1> DEFINE Q(i) == {j \in K : j <= i}
           A == {i \in Nat : i <= n => Partial(c, g, i) = c + d * Cardinality(Q(i))}
<1>1. /\ Partial(c, g, 0) = c
      /\ \A i \in 1 .. n : Partial(c, g, i) = Partial(c, g, i - 1) + g[i]
  BY <1>9, PartialStep
<1>2. IsFiniteSet(K) /\ \A i : IsFiniteSet(Q(i)) /\ Cardinality(Q(i)) \in Nat
  <2>1. IsFiniteSet(1 .. n)
    BY FS_Interval
  <2>2. IsFiniteSet(K)
    BY <1>9, <2>1, FS_Subset
  <2>3. \A i : Q(i) \in SUBSET K
    OBVIOUS
  <2> QED
    BY <2>2, <2>3, FS_Subset, FS_CardinalityType
<1>3. 0 \in A
  <2>1. Q(0) = {}
    <3>1. \A j \in K : j \in 1 .. n /\ ~ (j <= 0)
      BY <1>9
    <3> QED
      BY <3>1
  <2>2. Cardinality(Q(0)) = 0
    BY <2>1, FS_EmptySet
  <2>3. d * 0 = 0
    BY <1>9
  <2> QED
    BY <1>1, <2>2, <2>3
<1>4. ASSUME NEW i \in Nat, i \in A PROVE i + 1 \in A
  <2> SUFFICES ASSUME i + 1 <= n
               PROVE  Partial(c, g, i + 1) = c + d * Cardinality(Q(i + 1))
    OBVIOUS
  <2>1. i + 1 \in 1 .. n /\ (i + 1) - 1 = i
    OBVIOUS
  <2>2. Partial(c, g, i + 1) = Partial(c, g, i) + g[i + 1]
    BY <1>1, <2>1
  <2>6. i <= n
    OBVIOUS
  <2>3. Partial(c, g, i) = c + d * Cardinality(Q(i))
    BY <1>4, <2>6
  <2>7. IsFiniteSet(Q(i)) /\ Cardinality(Q(i)) \in Nat
    BY <1>2
  <2>8. \A j \in K : j \in Int /\ (j <= i + 1 <=> (j <= i \/ j = i + 1))
    BY <1>9
  <2>9. i + 1 \notin Q(i)
    OBVIOUS
  <2>4. CASE i + 1 \in K
    <3>1. Q(i + 1) = Q(i) \cup {i + 1}
      BY <2>4, <2>8
    <3> HIDE DEF Q
    <3>2. Cardinality(Q(i + 1)) = Cardinality(Q(i)) + 1
      BY <2>7, <2>9, <3>1, FS_AddElement
    <3>3. g[i + 1] = d
      BY <1>10, <2>1, <2>4
    <3>4. CASE d = 1
      BY <2>2, <2>3, <2>7, <3>2, <3>3, <3>4
    <3>5. CASE d = -1
      BY <2>2, <2>3, <2>7, <3>2, <3>3, <3>5
    <3> QED
      BY <1>9, <3>4, <3>5
  <2>5. CASE i + 1 \notin K
    <3>1. Q(i + 1) = Q(i)
      BY <2>5, <2>8
    <3>3. g[i + 1] = 0
      BY <1>10, <2>1, <2>5
    <3> HIDE DEF Q
    <3>4. CASE d = 1
      BY <2>2, <2>3, <2>7, <3>1, <3>3, <3>4
    <3>5. CASE d = -1
      BY <2>2, <2>3, <2>7, <3>1, <3>3, <3>5
    <3> QED
      BY <1>9, <3>4, <3>5
  <2> QED
    BY <2>4, <2>5
<1>5. Nat \subseteq A
  <2> HIDE DEF A
  <2> QED
    BY <1>3, <1>4, NaturalsFrom, ZenonT(60)
<1>6. Q(n) = K
  <2>1. \A j \in K : j \in 1 .. n /\ j <= n
    BY <1>9
  <2> QED
    BY <2>1
<1>7. Partial(c, g, n) = c + d * Cardinality(Q(n))
  BY <1>5
<1>8. Cardinality(K) \in Nat
  BY <1>2, <1>6
<1> QED
  BY <1>2, <1>6, <1>7, <1>8, Zenon

-----------------------------------------------------------------------------
(* Stores over the variables V, and what the operations do with them.      *)

Events(V) == [var : V, port : Ports, elm : Int \cup {NoElm}]

Stores(V) == [dom : [V -> SUBSET Int], bv : SUBSET V, cs : [V \X Ports -> Seq(Nat)],
              queue : Seq(Events(V)), seeds : [1 .. MaxTriggers -> Nat],
              state : {"ok", "failed", "quit", "overrun"}]

\* The value that a dom event names is out of the domain.
IsOut(s, event) == event.port = "dom" => event.elm \in Int /\ event.elm \notin s.dom[event.var]

\* A store between two operations.
IsStore(V, s) ==
  /\ s \in Stores(V)
  /\ \A x \in V : s.dom[x] # {} /\ IsFiniteSet(s.dom[x])
  /\ \A x \in V : IsHoled(s.dom[x]) => x \in s.bv
  /\ \A i \in 1 .. Len(s.queue) : HasSlot(i, s.queue[i].port) /\ IsOut(s, s.queue[i])

\* The instantiation of x is in the queue.
Instantiated(s, x) == \E i \in 1 .. Len(s.queue) : s.queue[i].var = x /\ s.queue[i].port = "ins"

\* The store t comes after s: domains have only shrunk, events have only been added, and a
\* variable that somebody listens to has not been instantiated in silence.
Follows(V, s, t) ==
  /\ IsStore(V, t)
  /\ t.cs = s.cs
  /\ \A x \in V : t.dom[x] \subseteq s.dom[x]
  /\ Len(s.queue) <= Len(t.queue) /\ \A i \in 1 .. Len(s.queue) : t.queue[i] = s.queue[i]
  /\ t.state = "ok" => s.state = "ok"
  /\ t.state = "ok" => \A x \in V : Bound(t, x) /\ ~Bound(s, x) /\ s.cs[<<x, "ins">>] # <<>> => Instantiated(t, x)

\* The assignment sol is still in the domains, and the run has not failed.
Admits(V, s, sol) == s.state # "failed" /\ \A x \in V : sol[x] \in s.dom[x]

\* What the types of a store say of its domains, queue and listeners.
LEMMA StoreFacts ==
  ASSUME NEW V, NEW s, IsStore(V, s)
  PROVE  /\ \A x \in V : s.dom[x] \subseteq Int /\ s.dom[x] # {} /\ IsFiniteSet(s.dom[x])
         /\ \A x \in V : Min(s.dom[x]) \in s.dom[x] /\ Max(s.dom[x]) \in s.dom[x]
         /\ \A x \in V : Min(s.dom[x]) \in Int /\ Max(s.dom[x]) \in Int
         /\ \A x \in V : \A y \in s.dom[x] : Min(s.dom[x]) <= y /\ y <= Max(s.dom[x])
         /\ s.queue \in Seq(Events(V)) /\ Len(s.queue) \in Nat
         /\ s.cs \in [V \X Ports -> Seq(Nat)]
         /\ s.state \in {"ok", "failed", "quit", "overrun"}
<1>1. s.dom \in [V -> SUBSET Int] /\ \A x \in V : s.dom[x] # {} /\ IsFiniteSet(s.dom[x])
  BY DEF IsStore, Stores
<1>2. ASSUME NEW x \in V
      PROVE  /\ s.dom[x] \subseteq Int /\ s.dom[x] # {} /\ IsFiniteSet(s.dom[x])
             /\ Min(s.dom[x]) \in s.dom[x] /\ Max(s.dom[x]) \in s.dom[x]
             /\ Min(s.dom[x]) \in Int /\ Max(s.dom[x]) \in Int
             /\ \A y \in s.dom[x] : Min(s.dom[x]) <= y /\ y <= Max(s.dom[x])
  <2>1. s.dom[x] \subseteq Int /\ s.dom[x] # {} /\ IsFiniteSet(s.dom[x])
    BY <1>1
  <2> QED
    BY <2>1, Extremes
<1>3. s.queue \in Seq(Events(V)) /\ Len(s.queue) \in Nat
  BY DEF IsStore, Stores
<1>4. s.cs \in [V \X Ports -> Seq(Nat)] /\ s.state \in {"ok", "failed", "quit", "overrun"}
  BY DEF IsStore, Stores
<1> QED
  BY <1>2, <1>3, <1>4

\* A bound variable has one value; what is below a singleton is it.
LEMMA BoundFacts ==
  ASSUME NEW V, NEW s, IsStore(V, s), NEW x \in V
  PROVE  /\ Bound(s, x) => s.dom[x] = {Min(s.dom[x])} /\ Max(s.dom[x]) = Min(s.dom[x])
         /\ \A v \in Int : s.dom[x] = {v} => Bound(s, x) /\ Min(s.dom[x]) = v /\ Max(s.dom[x]) = v
         /\ ~Bound(s, x) => \A v : \E w \in s.dom[x] : w # v
<1>1. s.dom[x] \subseteq Int /\ s.dom[x] # {} /\ IsFiniteSet(s.dom[x])
  BY StoreFacts
<1> QED
  BY <1>1, OneElement, OneElementIs, NotOneElement DEF Bound

\* A store follows itself.
LEMMA FollowsSelf ==
  ASSUME NEW V, NEW s, IsStore(V, s)
  PROVE  Follows(V, s, s)
BY StoreFacts DEF Follows

\* What follows a store is a store.
LEMMA FollowsStore ==
  ASSUME NEW V, NEW s, NEW t, Follows(V, s, t)
  PROVE  IsStore(V, t) /\ t \in Stores(V)
BY DEF Follows, IsStore

\* A bound variable keeps its value in every store that follows.
LEMMA StaysBound ==
  ASSUME NEW V, NEW s, NEW t, IsStore(V, s), Follows(V, s, t), NEW x \in V, Bound(s, x)
  PROVE  Bound(t, x) /\ t.dom[x] = s.dom[x]
<1>1. IsStore(V, t) /\ t.dom[x] \subseteq s.dom[x]
  BY DEF Follows
<1>2. s.dom[x] = {Min(s.dom[x])} /\ Min(s.dom[x]) \in Int
  <2>1. Min(s.dom[x]) \in Int
    BY StoreFacts
  <2>2. s.dom[x] = {Min(s.dom[x])}
    BY BoundFacts
  <2> QED
    BY <2>1, <2>2
<1>3. t.dom[x] # {}
  BY <1>1, StoreFacts
<1>4. t.dom[x] = {Min(s.dom[x])}
  BY <1>1, <1>2, <1>3
<1> QED
  BY <1>1, <1>2, <1>4, BoundFacts

\* Following is transitive.
LEMMA FollowsChain ==
  ASSUME NEW V, NEW s, NEW t, NEW u, IsStore(V, s), Follows(V, s, t), Follows(V, t, u)
  PROVE  Follows(V, s, u)
<1>1. /\ IsStore(V, t) /\ IsStore(V, u) /\ u.cs = s.cs /\ t.cs = s.cs
      /\ \A x \in V : u.dom[x] \subseteq s.dom[x]
      /\ u.state = "ok" => t.state = "ok" /\ s.state = "ok"
  BY DEF Follows
<1>2. /\ Len(s.queue) \in Nat /\ Len(t.queue) \in Nat /\ Len(u.queue) \in Nat
      /\ Len(s.queue) <= Len(t.queue) /\ Len(t.queue) <= Len(u.queue)
      /\ \A i \in 1 .. Len(s.queue) : t.queue[i] = s.queue[i]
      /\ \A i \in 1 .. Len(t.queue) : u.queue[i] = t.queue[i]
  BY <1>1, StoreFacts DEF Follows
<1>3. ASSUME u.state = "ok", NEW x \in V, Bound(u, x), ~Bound(s, x), s.cs[<<x, "ins">>] # <<>>
      PROVE  Instantiated(u, x)
  <2>1. CASE Bound(t, x)
    <3>1. Instantiated(t, x)
      BY <1>1, <1>3, <2>1 DEF Follows
    <3>2. PICK i \in 1 .. Len(t.queue) : t.queue[i].var = x /\ t.queue[i].port = "ins"
      BY <3>1 DEF Instantiated
    <3>3. i \in 1 .. Len(u.queue) /\ u.queue[i] = t.queue[i]
      BY <1>2
    <3> QED
      BY <3>2, <3>3 DEF Instantiated
  <2>2. CASE ~Bound(t, x)
    BY <1>1, <1>3, <2>2 DEF Follows
  <2> QED
    BY <2>1, <2>2
<1>4. Len(s.queue) <= Len(u.queue) /\ \A i \in 1 .. Len(s.queue) : u.queue[i] = s.queue[i]
  BY <1>2
<1> QED
  BY <1>1, <1>3, <1>4 DEF Follows

-----------------------------------------------------------------------------
(* Posting, assigning, narrowing, excluding.                               *)

\* What posting an event does.
Posted(V, s, x, port, t) ==
  /\ Follows(V, s, t) /\ t.dom = s.dom
  /\ s.state # "failed" => t.state # "failed"
  /\ t.state = "ok" /\ port = "ins" /\ s.cs[<<x, "ins">>] # <<>> => Instantiated(t, x)

\* INSERT_TRIGGER_*: an event changes no domain, and an ins event that somebody hears is in
\* the queue unless the program has ended.
LEMMA PostFacts ==
  ASSUME NEW V, NEW s, IsStore(V, s), NEW x \in V, NEW port \in Ports, NEW elm \in Int \cup {NoElm},
         port = "dom" => elm \in Int /\ elm \notin s.dom[x], NEW seed \in Nat
  PROVE  Posted(V, s, x, port, Post(s, x, port, elm, seed))
<1> DEFINE e == [var |-> x, port |-> port, elm |-> elm]
           n == Len(s.queue) + 1
           t == Post(s, x, port, elm, seed)
<1>1. s \in Stores(V) /\ s.queue \in Seq(Events(V)) /\ n \in Nat /\ e \in Events(V)
  <2>1. s \in Stores(V) /\ s.queue \in Seq(Events(V)) /\ Len(s.queue) \in Nat
    BY StoreFacts DEF IsStore
  <2>2. e \in Events(V)
    BY DEF Events
  <2> QED
    BY <2>1, <2>2
<1>2. e.var = x /\ e.port = port /\ e.elm = elm
  OBVIOUS
<1> HIDE DEF e
<1>3. t = IF s.cs[x, port] = <<>> THEN s
          ELSE IF n = MaxTriggers /\ port \notin Spare THEN [s EXCEPT !.state = "overrun"]
          ELSE IF HasSlot(n, port)
          THEN [s EXCEPT !.queue = Append(@, e),
                         !.seeds = IF port = "dom" THEN @ ELSE [@ EXCEPT ![n] = seed]]
          ELSE IF port = "dom" THEN s ELSE [s EXCEPT !.state = "quit"]
  BY DEF Post, e
<1> SUFFICES Posted(V, s, x, port, t)
  OBVIOUS
<1> HIDE DEF t
<1>4. CASE t = s /\ (s.cs[<<x, port>>] = <<>> \/ port = "dom")
  <2>1. Follows(V, s, t)
    BY <1>4, FollowsSelf
  <2>2. ~ (port = "ins" /\ s.cs[<<x, "ins">>] # <<>>)
    BY <1>4
  <2> QED
    BY <1>4, <2>1, <2>2 DEF Posted
<1>5. CASE t = [s EXCEPT !.state = "quit"] \/ t = [s EXCEPT !.state = "overrun"]
  <2>1. /\ t.dom = s.dom /\ t.bv = s.bv /\ t.cs = s.cs /\ t.queue = s.queue
        /\ t.state \in {"quit", "overrun"}
        /\ t \in Stores(V)
    BY <1>1, <1>5 DEF Stores
  <2>2. IsStore(V, t)
    BY <2>1 DEF IsStore, IsOut
  <2>3. Follows(V, s, t)
    BY <1>1, <2>1, <2>2 DEF Follows
  <2> QED
    BY <2>1, <2>3 DEF Posted
<1>6. CASE /\ HasSlot(n, port)
           /\ t = [s EXCEPT !.queue = Append(@, e),
                            !.seeds = IF port = "dom" THEN @ ELSE [@ EXCEPT ![n] = seed]]
  <2>1. (IF port = "dom" THEN s.seeds ELSE [s.seeds EXCEPT ![n] = seed]) \in [1 .. MaxTriggers -> Nat]
    <3>1. s.seeds \in [1 .. MaxTriggers -> Nat]
      BY <1>1 DEF Stores
    <3> QED
      BY <3>1
  <2>2. Append(s.queue, e) \in Seq(Events(V))
    BY <1>1
  <2>3. /\ t.dom = s.dom /\ t.bv = s.bv /\ t.cs = s.cs /\ t.queue = Append(s.queue, e) /\ t.state = s.state
        /\ t \in Stores(V)
    <3>1. t = [s EXCEPT !.queue = Append(s.queue, e),
                        !.seeds = IF port = "dom" THEN s.seeds ELSE [s.seeds EXCEPT ![n] = seed]]
      BY <1>1, <1>6 DEF Stores
    <3> QED
      BY <1>1, <2>1, <2>2, <3>1 DEF Stores
  <2>4. Len(t.queue) = n /\ t.queue[n] = e /\ \A i \in 1 .. Len(s.queue) : t.queue[i] = s.queue[i]
    BY <1>1, <2>3
  <2>5. ASSUME NEW i \in 1 .. Len(t.queue) PROVE HasSlot(i, t.queue[i].port) /\ IsOut(t, t.queue[i])
    <3>1. CASE i = n
      BY <1>2, <1>6, <2>3, <2>4, <3>1 DEF IsOut
    <3>2. CASE i # n
      <4>1. i \in 1 .. Len(s.queue) /\ t.queue[i] = s.queue[i]
        BY <1>1, <2>4, <3>2
      <4>2. HasSlot(i, s.queue[i].port) /\ IsOut(s, s.queue[i])
        BY <4>1 DEF IsStore
      <4> QED
        BY <2>3, <4>1, <4>2 DEF IsOut
    <3> QED
      BY <3>1, <3>2
  <2>6. IsStore(V, t)
    BY <2>3, <2>4, <2>5 DEF IsStore
  <2>7. Follows(V, s, t)
    <3>1. Len(s.queue) <= Len(t.queue)
      BY <1>1, <2>4
    <3>2. \A y \in V : ~ (Bound(t, y) /\ ~Bound(s, y))
      BY <2>3 DEF Bound
    <3> QED
      BY <2>3, <2>4, <2>6, <3>1, <3>2 DEF Follows
  <2>8. port = "ins" => Instantiated(t, x)
    <3>1. n \in 1 .. Len(t.queue)
      BY <1>1, <2>4
    <3> QED
      BY <1>2, <2>4, <3>1 DEF Instantiated
  <2> QED
    BY <2>3, <2>7, <2>8 DEF Posted
<1> QED
  BY <1>3, <1>4, <1>5, <1>6

\* The domain of x becomes left.
Cut(s, x, left, bv) == [s EXCEPT !.dom[x] = left, !.bv = bv]

IsCut(V, s, x, left, t) ==
  /\ IsStore(V, t) /\ t.cs = s.cs /\ t.queue = s.queue /\ t.state = s.state
  /\ t.dom[x] = left /\ \A y \in V : y # x => t.dom[y] = s.dom[y]
  /\ \A y \in V : t.dom[y] \subseteq s.dom[y]

\* A domain is replaced by a part of it that is not empty.
LEMMA CutFacts ==
  ASSUME NEW V, NEW s, IsStore(V, s), NEW x \in V, NEW left, left \subseteq s.dom[x], left # {},
         NEW bv \in SUBSET V, s.bv \subseteq bv, IsHoled(left) => x \in bv
  PROVE  IsCut(V, s, x, left, Cut(s, x, left, bv))
<1> DEFINE t == Cut(s, x, left, bv)
<1>1. s \in Stores(V) /\ s.dom \in [V -> SUBSET Int]
  BY DEF IsStore, Stores
<1>2. left \subseteq Int /\ IsFiniteSet(left)
  <2>1. s.dom[x] \subseteq Int /\ IsFiniteSet(s.dom[x])
    BY StoreFacts
  <2> QED
    BY <2>1, FS_Subset
<1>3. /\ t.dom = [s.dom EXCEPT ![x] = left] /\ t.bv = bv
      /\ t.cs = s.cs /\ t.queue = s.queue /\ t.state = s.state /\ t \in Stores(V)
  <2>1. [s.dom EXCEPT ![x] = left] \in [V -> SUBSET Int]
    BY <1>1, <1>2
  <2>2. t = [s EXCEPT !.dom = [s.dom EXCEPT ![x] = left], !.bv = bv]
    BY <1>1 DEF Stores, Cut
  <2> QED
    BY <1>1, <2>1, <2>2 DEF Stores
<1> HIDE DEF t
<1>4. t.dom[x] = left /\ \A y \in V : y # x => t.dom[y] = s.dom[y]
  BY <1>1, <1>3
<1>5. \A y \in V : t.dom[y] \subseteq s.dom[y]
  BY <1>4
<1>6. \A y \in V : t.dom[y] # {} /\ IsFiniteSet(t.dom[y]) /\ (IsHoled(t.dom[y]) => y \in t.bv)
  <2>1. \A y \in V : s.dom[y] # {} /\ IsFiniteSet(s.dom[y]) /\ (IsHoled(s.dom[y]) => y \in s.bv)
    BY DEF IsStore
  <2> QED
    BY <1>2, <1>3, <1>4, <2>1
<1>7. ASSUME NEW i \in 1 .. Len(t.queue) PROVE HasSlot(i, t.queue[i].port) /\ IsOut(t, t.queue[i])
  <2>1. HasSlot(i, s.queue[i].port) /\ IsOut(s, s.queue[i]) /\ i \in 1 .. Len(s.queue)
    BY <1>3 DEF IsStore
  <2>2. s.queue[i].var \in V
    <3>1. s.queue \in Seq(Events(V))
      BY StoreFacts
    <3>2. s.queue[i] \in Events(V)
      BY <2>1, <3>1
    <3> QED
      BY <3>2 DEF Events
  <2> QED
    BY <1>3, <1>5, <2>1, <2>2 DEF IsOut
<1>8. IsStore(V, t)
  BY <1>3, <1>6, <1>7 DEF IsStore
<1>9. IsCut(V, s, x, left, t)
  BY <1>3, <1>4, <1>5, <1>8 DEF IsCut
<1> QED
  BY <1>9 DEF t

\* Then what happened is posted.
IsNarrowed(V, s, x, left, t) ==
  /\ Follows(V, s, t)
  /\ t.dom[x] = left /\ \A y \in V : y # x => t.dom[y] = s.dom[y]

\* A domain is replaced by a part of it and the events are posted: if one value is left, who
\* listens will be told.
LEMMA NarrowFacts ==
  ASSUME NEW V, NEW s, NEW x \in V, NEW left,
         NEW r, IsCut(V, s, x, left, r),
         NEW t, Follows(V, r, t), t.dom = r.dom,
         Cardinality(left) = 1 => Instantiated(t, x) \/ s.cs[<<x, "ins">>] = <<>> \/ t.state # "ok"
  PROVE  IsNarrowed(V, s, x, left, t)
<1>1. /\ IsStore(V, r) /\ r.cs = s.cs /\ r.queue = s.queue /\ r.state = s.state
      /\ r.dom[x] = left /\ \A y \in V : y # x => r.dom[y] = s.dom[y]
      /\ \A y \in V : r.dom[y] \subseteq s.dom[y]
  BY DEF IsCut
<1>2. /\ IsStore(V, t) /\ t.cs = s.cs /\ \A y \in V : t.dom[y] \subseteq s.dom[y]
      /\ Len(s.queue) <= Len(t.queue) /\ \A i \in 1 .. Len(s.queue) : t.queue[i] = s.queue[i]
      /\ t.state = "ok" => s.state = "ok"
  BY <1>1 DEF Follows
<1>3. ASSUME t.state = "ok", NEW y \in V, Bound(t, y), ~Bound(s, y), s.cs[<<y, "ins">>] # <<>>
      PROVE  Instantiated(t, y)
  <2>1. y = x
    BY <1>1, <1>3 DEF Bound
  <2>2. Cardinality(left) = 1
    BY <1>1, <1>3, <2>1 DEF Bound
  <2> QED
    BY <1>3, <2>1, <2>2
<1>4. Follows(V, s, t)
  BY <1>2, <1>3 DEF Follows
<1> QED
  BY <1>1, <1>4 DEF IsNarrowed

\* A variable gets a value of its domain.
Assigned(V, s, x, v, t) ==
  /\ IsNarrowed(V, s, x, {v}, t)
  /\ Bound(t, x)
  /\ s.state # "failed" => t.state # "failed"
  /\ \A sol : Admits(V, s, sol) /\ sol[x] = v => Admits(V, t, sol)

\* ASSIGN_DVAR gives the variable the value and posts the event.
LEMMA AssignFacts ==
  ASSUME NEW V, NEW s, IsStore(V, s), NEW x \in V, NEW v \in s.dom[x]
  PROVE  Assigned(V, s, x, v, ASSIGN_DVAR(s, x, v))
<1> DEFINE r == Cut(s, x, {v}, s.bv)
           t == Post(r, x, "ins", NoElm, NoSeed)
<1>1. v \in Int
  BY StoreFacts
<1>2. ~IsHoled({v}) /\ Cardinality({v}) = 1
  <2>1. Min({v}) = v /\ Max({v}) = v /\ Cardinality({v}) = 1
    BY <1>1, OneElementIs
  <2> QED
    BY <1>1, <2>1 DEF IsHoled
<1>3. s \in Stores(V) /\ s.bv \in SUBSET V
  BY DEF IsStore, Stores
<1>4. ASSIGN_DVAR(s, x, v) = t
  <2>1. [s EXCEPT !.dom[x] = {v}] = r
    BY <1>3 DEF Stores, Cut
  <2> HIDE DEF r
  <2> QED
    BY <2>1 DEF ASSIGN_DVAR
<1>5. IsCut(V, s, x, {v}, r)
  BY <1>2, <1>3, CutFacts
<1> HIDE DEF r
<1>6. IsStore(V, r) /\ r.state = s.state /\ r.cs = s.cs
  BY <1>5 DEF IsCut
<1>7. Posted(V, r, x, "ins", t)
  <2>1. "ins" \in Ports /\ "ins" # "dom" /\ NoElm \in Int \cup {NoElm} /\ NoSeed \in Nat
    BY DEF Ports, NoSeed
  <2> QED
    BY <1>6, <2>1, PostFacts
<1> HIDE DEF t
<1>8. IsNarrowed(V, s, x, {v}, t)
  <2>1. Follows(V, r, t) /\ t.dom = r.dom
    BY <1>7 DEF Posted
  <2>2. Instantiated(t, x) \/ s.cs[<<x, "ins">>] = <<>> \/ t.state # "ok"
    BY <1>6, <1>7 DEF Posted
  <2> QED
    BY <1>5, <2>1, <2>2, NarrowFacts
<1>9. Bound(t, x)
  BY <1>1, <1>2, <1>8 DEF Bound, IsNarrowed
<1>10. s.state # "failed" => t.state # "failed"
  BY <1>6, <1>7 DEF Posted
<1>11. \A sol : Admits(V, s, sol) /\ sol[x] = v => Admits(V, t, sol)
  BY <1>8, <1>10 DEF Admits, IsNarrowed
<1>12. Assigned(V, s, x, v, t)
  BY <1>8, <1>9, <1>10, <1>11 DEF Assigned
<1> QED
  BY <1>4, <1>12

\* The values between lo and hi stay.
Regioned(V, s, x, lo, hi, t) ==
  /\ Follows(V, s, t)
  /\ \A sol : Admits(V, s, sol) /\ lo <= sol[x] /\ sol[x] <= hi => Admits(V, t, sol)

\* Failing changes nothing else.
LEMMA FailedFacts ==
  ASSUME NEW V, NEW s, IsStore(V, s)
  PROVE  Follows(V, s, Failed(s)) /\ Failed(s).state = "failed"
<1> DEFINE t == Failed(s)
<1>1. s \in Stores(V) /\ Len(s.queue) \in Nat
  BY StoreFacts DEF IsStore
<1>2. /\ t.dom = s.dom /\ t.bv = s.bv /\ t.cs = s.cs /\ t.queue = s.queue /\ t.state = "failed"
      /\ t \in Stores(V)
  BY <1>1 DEF Stores, Failed
<1>3. IsStore(V, t)
  BY <1>2 DEF IsStore, IsOut
<1> HIDE DEF t
<1>4. Follows(V, s, t)
  BY <1>1, <1>2, <1>3 DEF Follows
<1> QED
  BY <1>2, <1>4 DEF t

\* domain_region leaves exactly the values within the bounds, or fails if there are none.
LEMMA RegionFacts ==
  ASSUME NEW V, NEW s, IsStore(V, s), NEW x \in V, NEW lo \in Int, NEW hi \in Int, NEW seed \in Nat
  PROVE  Regioned(V, s, x, lo, hi, Region(s, x, lo, hi, seed))
<1> DEFINE left == {e \in s.dom[x] : lo <= e /\ e <= hi}
           r == Cut(s, x, left, s.bv)
           u == Post(r, x, "minmax", NoElm, NoSeed)
           w == Post(u, x, "minmax", NoElm, seed)
           t == Region(s, x, lo, hi, seed)
<1>1. s \in Stores(V) /\ s.bv \in SUBSET V
  BY DEF IsStore, Stores
<1>2. left \subseteq s.dom[x] /\ left \subseteq Int /\ IsFiniteSet(left)
  <2>1. s.dom[x] \subseteq Int /\ IsFiniteSet(s.dom[x])
    BY StoreFacts
  <2> QED
    BY <2>1, FS_Subset
<1>3. \A sol : Admits(V, s, sol) /\ lo <= sol[x] /\ sol[x] <= hi => sol[x] \in left
  BY DEF Admits
<1>4. t = IF left = {} THEN Failed(s)
          ELSE IF left = s.dom[x] THEN s
          ELSE IF Cardinality(left) = 1 THEN ASSIGN_DVAR(s, x, Min(left))
          ELSE w
  <2>1. [s EXCEPT !.dom[x] = left] = r
    BY <1>1 DEF Stores, Cut
  <2> HIDE DEF r
  <2> QED
    BY <2>1 DEF Region
<1> SUFFICES Regioned(V, s, x, lo, hi, t)
  OBVIOUS
<1> HIDE DEF t
<1>5. CASE left = {} /\ t = Failed(s)
  <2>1. Follows(V, s, t)
    BY <1>5, FailedFacts
  <2> QED
    BY <1>3, <1>5, <2>1 DEF Regioned
<1>6. CASE t = s
  BY <1>6, FollowsSelf DEF Regioned
<1>7. CASE Cardinality(left) = 1 /\ t = ASSIGN_DVAR(s, x, Min(left))
  <2>1. left = {Min(left)}
    BY <1>2, <1>7, OneElement
  <2>2. Min(left) \in s.dom[x]
    BY <1>2, <2>1
  <2>3. \A sol : sol[x] \in left => sol[x] = Min(left)
    BY <2>1
  <2>4. Assigned(V, s, x, Min(left), t)
    BY <1>7, <2>2, AssignFacts
  <2>5. Follows(V, s, t)
    BY <2>4 DEF Assigned, IsNarrowed
  <2> HIDE DEF left
  <2> QED
    BY <1>3, <2>3, <2>4, <2>5 DEF Assigned, Regioned
<1>8. CASE left # {} /\ Cardinality(left) # 1 /\ t = w
  <2>1. IsHoled(left) => x \in s.bv
    <3> SUFFICES ASSUME ~IsHoled(s.dom[x]) PROVE ~IsHoled(left)
      BY DEF IsStore
    <3>1. s.dom[x] = Min(s.dom[x]) .. Max(s.dom[x]) /\ Min(s.dom[x]) \in Int /\ Max(s.dom[x]) \in Int
      BY StoreFacts DEF IsHoled
    <3>2. Min(left) \in left /\ Max(left) \in left /\ \A y \in left : Min(left) <= y /\ y <= Max(left)
      BY <1>2, <1>8, Extremes
    <3>3. left = Min(left) .. Max(left)
      <4> DEFINE l == Min(left)
                 h == Max(left)
      <4>1. l \in Int /\ h \in Int /\ l \in s.dom[x] /\ h \in s.dom[x] /\ lo <= l /\ h <= hi
        BY <1>2, <3>2
      <4>2. ASSUME NEW y \in l .. h PROVE y \in left
        <5>1. Min(s.dom[x]) <= l /\ h <= Max(s.dom[x])
          BY <3>1, <4>1
        <5>2. y \in Int /\ l <= y /\ y <= h
          BY <4>1
        <5> HIDE DEF l, h
        <5>3. y \in Min(s.dom[x]) .. Max(s.dom[x]) /\ lo <= y /\ y <= hi
          BY <3>1, <4>1, <5>1, <5>2
        <5> QED
          BY <3>1, <5>3
      <4>3. \A y \in left : y \in l .. h
        BY <1>2, <3>2, <4>1
      <4> QED
        BY <4>2, <4>3
    <3> QED
      BY <3>3 DEF IsHoled
  <2> HIDE DEF left
  <2>2. IsCut(V, s, x, left, r)
    BY <1>1, <1>2, <1>8, <2>1, CutFacts
  <2> HIDE DEF r
  <2>3. IsStore(V, r) /\ r.state = s.state
    BY <2>2 DEF IsCut
  <2>4. "minmax" \in Ports /\ "minmax" # "dom" /\ NoElm \in Int \cup {NoElm} /\ NoSeed \in Nat
    BY DEF Ports, NoSeed
  <2>5. Posted(V, r, x, "minmax", u)
    BY <2>3, <2>4, PostFacts
  <2> HIDE DEF u
  <2>6. Follows(V, r, u) /\ IsStore(V, u) /\ u.dom = r.dom /\ (r.state # "failed" => u.state # "failed")
    BY <2>5 DEF Posted, Follows
  <2>7. Posted(V, u, x, "minmax", w)
    BY <2>4, <2>6, PostFacts
  <2> HIDE DEF w
  <2>8. Follows(V, u, w) /\ w.dom = u.dom /\ (u.state # "failed" => w.state # "failed")
    BY <2>7 DEF Posted
  <2>9. Follows(V, r, w)
    BY <2>3, <2>6, <2>8, FollowsChain
  <2>10. IsNarrowed(V, s, x, left, w)
    BY <1>8, <2>2, <2>6, <2>8, <2>9, NarrowFacts
  <2> QED
    BY <1>3, <1>8, <2>3, <2>6, <2>8, <2>10 DEF Admits, IsNarrowed, Regioned
<1> HIDE DEF left, w
<1> QED
  BY <1>4, <1>5, <1>6, <1>7, <1>8

\* A value goes out of a domain.
Excluded(V, s, x, v, t) ==
  /\ Follows(V, s, t)
  /\ \A y \in V : y # x => t.dom[y] = s.dom[y]
  /\ ~Bound(s, x) => t.dom[x] = s.dom[x] \ {v}
  /\ \A sol : Admits(V, s, sol) /\ sol[x] # v => Admits(V, t, sol)

\* domain_set_false takes out exactly the one value, and fails on no free variable.
LEMMA ExcludeFacts ==
  ASSUME NEW V, NEW s, IsStore(V, s), NEW x \in V, NEW v \in Int
  PROVE  Excluded(V, s, x, v, Exclude(s, x, v))
<1> DEFINE left == s.dom[x] \ {v}
           r == Cut(s, x, left, s.bv \cup {x})
           u == Post(r, x, "dom", v, NoSeed)
           q == Cut(s, x, left, s.bv)
           w == Post(q, x, "minmax", NoElm, NoSeed)
           t == Exclude(s, x, v)
<1>1. s \in Stores(V) /\ s.bv \in SUBSET V /\ s.bv \cup {x} \in SUBSET V
  BY DEF IsStore, Stores
<1>2. left \subseteq s.dom[x] /\ left \subseteq Int /\ IsFiniteSet(left)
  <2>1. s.dom[x] \subseteq Int /\ IsFiniteSet(s.dom[x])
    BY StoreFacts
  <2> QED
    BY <2>1, FS_Subset
<1>3. \A sol : Admits(V, s, sol) /\ sol[x] # v => sol[x] \in left
  BY DEF Admits
<1>4. t = IF left = s.dom[x] \/ Bound(s, x) THEN s
          ELSE IF Cardinality(left) = 1 THEN ASSIGN_DVAR(s, x, Min(left))
          ELSE IF v \in Min(left) .. Max(left) THEN u ELSE w
  <2>1. [s EXCEPT !.dom[x] = left] = q
    BY <1>1 DEF Stores, Cut
  <2>2. [s EXCEPT !.dom[x] = left, !.bv = @ \cup {x}] = r
    BY <1>1 DEF Stores, Cut
  <2> HIDE DEF r, q
  <2> QED
    BY <2>1, <2>2 DEF Exclude
<1> SUFFICES Excluded(V, s, x, v, t)
  OBVIOUS
<1> HIDE DEF t
<1>5. CASE (left = s.dom[x] \/ Bound(s, x)) /\ t = s
  BY <1>5, FollowsSelf DEF Excluded
<1>6. ~Bound(s, x) => left # {}
  BY BoundFacts
<1>7. CASE ~Bound(s, x) /\ Cardinality(left) = 1 /\ t = ASSIGN_DVAR(s, x, Min(left))
  <2>1. left = {Min(left)}
    BY <1>2, <1>7, OneElement
  <2>2. Min(left) \in s.dom[x]
    BY <1>2, <2>1
  <2>3. \A sol : sol[x] \in left => sol[x] = Min(left)
    BY <2>1
  <2>4. Assigned(V, s, x, Min(left), t)
    BY <1>7, <2>2, AssignFacts
  <2>5. Follows(V, s, t) /\ t.dom[x] = left /\ \A y \in V : y # x => t.dom[y] = s.dom[y]
    BY <2>1, <2>4 DEF Assigned, IsNarrowed
  <2>6. \A sol : Admits(V, s, sol) /\ sol[x] # v => Admits(V, t, sol)
    BY <1>3, <2>3, <2>4 DEF Assigned
  <2> QED
    BY <2>5, <2>6 DEF Excluded
<1>8. CASE ~Bound(s, x) /\ Cardinality(left) # 1 /\ v \in Min(left) .. Max(left) /\ t = u
  <2>1. v \notin left
    OBVIOUS
  <2>10. left # {}
    BY <1>6, <1>8
  <2>11. x \in s.bv \cup {x} /\ s.bv \subseteq s.bv \cup {x}
    OBVIOUS
  <2>12. \A sol : Admits(V, s, sol) /\ sol[x] # v => sol[x] \in left
    BY <1>3
  <2>13. left = s.dom[x] \ {v}
    OBVIOUS
  <2> HIDE DEF left
  <2>2. IsCut(V, s, x, left, r)
    BY <1>1, <1>2, <2>10, <2>11, CutFacts
  <2> HIDE DEF r
  <2>3. IsStore(V, r) /\ r.state = s.state /\ r.dom[x] = left
    BY <2>2 DEF IsCut
  <2>4. "dom" \in Ports /\ v \in Int \cup {NoElm} /\ NoSeed \in Nat
    BY DEF Ports, NoSeed
  <2>5. Posted(V, r, x, "dom", u)
    BY <2>1, <2>3, <2>4, PostFacts
  <2> HIDE DEF u
  <2>6. Follows(V, r, u) /\ u.dom = r.dom /\ (r.state # "failed" => u.state # "failed")
    BY <2>5 DEF Posted
  <2>7. IsNarrowed(V, s, x, left, u)
    BY <1>8, <2>2, <2>6, NarrowFacts
  <2> QED
    BY <1>8, <2>3, <2>6, <2>7, <2>12, <2>13 DEF Admits, IsNarrowed, Excluded
<1>9. CASE ~Bound(s, x) /\ Cardinality(left) # 1 /\ v \notin Min(left) .. Max(left) /\ t = w
  <2>1. IsHoled(left) => x \in s.bv
    <3> SUFFICES ASSUME ~IsHoled(s.dom[x]) PROVE ~IsHoled(left)
      BY DEF IsStore
    <3>1. s.dom[x] = Min(s.dom[x]) .. Max(s.dom[x]) /\ Min(s.dom[x]) \in Int /\ Max(s.dom[x]) \in Int
      BY StoreFacts DEF IsHoled
    <3>2. Min(left) \in left /\ Max(left) \in left /\ \A y \in left : Min(left) <= y /\ y <= Max(left)
      BY <1>2, <1>6, <1>9, Extremes
    <3>3. left = Min(left) .. Max(left)
      <4> DEFINE l == Min(left)
                 h == Max(left)
      <4>1. l \in Int /\ h \in Int /\ l \in s.dom[x] /\ h \in s.dom[x] /\ v \notin l .. h
        BY <1>2, <1>9, <3>2
      <4>2. ASSUME NEW y \in l .. h PROVE y \in left
        <5>1. Min(s.dom[x]) <= l /\ h <= Max(s.dom[x])
          BY <3>1, <4>1
        <5>2. y \in Int /\ l <= y /\ y <= h /\ y # v
          BY <4>1
        <5> HIDE DEF l, h
        <5>3. y \in Min(s.dom[x]) .. Max(s.dom[x])
          BY <3>1, <4>1, <5>1, <5>2
        <5> QED
          BY <3>1, <5>2, <5>3
      <4>3. \A y \in left : y \in l .. h
        BY <1>2, <3>2, <4>1
      <4> QED
        BY <4>2, <4>3
    <3> QED
      BY <3>3 DEF IsHoled
  <2>10. left # {}
    BY <1>6, <1>9
  <2>12. \A sol : Admits(V, s, sol) /\ sol[x] # v => sol[x] \in left
    BY <1>3
  <2>13. left = s.dom[x] \ {v}
    OBVIOUS
  <2> HIDE DEF left
  <2>2. IsCut(V, s, x, left, q)
    BY <1>1, <1>2, <2>1, <2>10, CutFacts
  <2> HIDE DEF q
  <2>3. IsStore(V, q) /\ q.state = s.state /\ q.dom[x] = left
    BY <2>2 DEF IsCut
  <2>4. "minmax" \in Ports /\ "minmax" # "dom" /\ NoElm \in Int \cup {NoElm} /\ NoSeed \in Nat
    BY DEF Ports, NoSeed
  <2>5. Posted(V, q, x, "minmax", w)
    BY <2>3, <2>4, PostFacts
  <2> HIDE DEF w
  <2>6. Follows(V, q, w) /\ w.dom = q.dom /\ (q.state # "failed" => w.state # "failed")
    BY <2>5 DEF Posted
  <2>7. IsNarrowed(V, s, x, left, w)
    BY <1>9, <2>2, <2>6, NarrowFacts
  <2> QED
    BY <1>9, <2>3, <2>6, <2>7, <2>12, <2>13 DEF Admits, IsNarrowed, Excluded
<1> HIDE DEF left, u, w
<1> QED
  BY <1>4, <1>5, <1>7, <1>8, <1>9

\* Steps of a loop: a free variable that is assigned is a boolean one.
Steps(V) == [x : V, v : Int, out : BOOLEAN]

Fits(s, step) == ~step.out /\ ~Bound(s, step.x) => s.dom[step.x] = {0, 1} /\ step.v \in {0, 1}

\* The assignment sol agrees with the step.
Suits(s, step, sol) == IF step.out THEN sol[step.x] # step.v ELSE Bound(s, step.x) \/ sol[step.x] = step.v

\* One step, in a store t that comes after s.
Done(V, s, step, t, u) ==
  /\ Follows(V, t, u)
  /\ \A y \in V : y # step.x => u.dom[y] = t.dom[y]
  /\ ~step.out /\ ~Bound(t, step.x) => u.dom[step.x] = {step.v}
  /\ \A sol : Admits(V, t, sol) /\ Suits(s, step, sol) => Admits(V, u, sol)

\* One step of a loop over variables.
LEMMA DoFacts ==
  ASSUME NEW V, NEW s, IsStore(V, s), NEW t, Follows(V, s, t), NEW step \in Steps(V), Fits(s, step)
  PROVE  Done(V, s, step, t, Do(t, step))
<1>1. IsStore(V, t) /\ step.x \in V /\ step.v \in Int /\ step.out \in BOOLEAN
  BY DEF Follows, Steps
<1>2. CASE Bound(t, step.x) \/ (step.out /\ t.state # "ok")
  <2>1. Do(t, step) = t
    BY <1>1, <1>2 DEF Do
  <2>2. Done(V, s, step, t, t)
    BY <1>1, <1>2, FollowsSelf DEF Done
  <2> QED
    BY <2>1, <2>2
<1>3. CASE ~Bound(t, step.x) /\ ~step.out
  <2>1. ~Bound(s, step.x)
    BY <1>1, <1>3, StaysBound
  <2>2. t.dom[step.x] \subseteq {0, 1} /\ step.v \in {0, 1}
    BY <1>1, <1>3, <2>1 DEF Fits, Follows
  <2>3. step.v \in t.dom[step.x]
    <3>1. \A v : \E w \in t.dom[step.x] : w # v
      BY <1>1, <1>3, BoundFacts
    <3>2. \E w \in t.dom[step.x] : w # 1 - step.v
      BY <3>1
    <3> QED
      BY <2>2, <3>2
  <2>4. Assigned(V, t, step.x, step.v, Do(t, step))
    <3>1. Do(t, step) = ASSIGN_DVAR(t, step.x, step.v)
      BY <1>3 DEF Do
    <3> QED
      BY <1>1, <2>3, <3>1, AssignFacts
  <2> QED
    BY <1>3, <2>1, <2>4 DEF Done, Suits, Assigned, IsNarrowed
<1>4. CASE ~Bound(t, step.x) /\ step.out /\ t.state = "ok"
  <2>1. Do(t, step) = Exclude(t, step.x, step.v)
    BY <1>4 DEF Do
  <2>2. Excluded(V, t, step.x, step.v, Do(t, step))
    BY <1>1, <2>1, ExcludeFacts
  <2> QED
    BY <1>4, <2>2 DEF Done, Suits, Excluded
<1> QED
  BY <1>1, <1>2, <1>3, <1>4

\* All the steps.
DoneAll(V, s, steps, t) ==
  /\ Follows(V, s, t)
  /\ \A sol : Admits(V, s, sol) /\ (\A i \in 1 .. Len(steps) : Suits(s, steps[i], sol)) => Admits(V, t, sol)
  /\ (\A i, j \in 1 .. Len(steps) : steps[i].x = steps[j].x => i = j)
       => \A i \in 1 .. Len(steps) : ~steps[i].out /\ ~Bound(s, steps[i].x) => t.dom[steps[i].x] = {steps[i].v}

\* The stores after each step.
IsRunOf(V, s, steps, g) ==
  /\ DoAll(s, steps) = g[Len(steps)]
  /\ g[0] = s
  /\ \A i \in 1 .. Len(steps) : g[i] = Do(g[i - 1], steps[i])
  /\ \A i \in 0 .. Len(steps) : Follows(V, s, g[i])

\* The recursive function of DoAll exists.
LEMMA DoAllFcn ==
  ASSUME NEW V, NEW s, IsStore(V, s), NEW steps \in Seq(Steps(V)),
         \A i \in 1 .. Len(steps) : Fits(s, steps[i])
  PROVE  \E g : IsRunOf(V, s, steps, g)
<1> DEFINE n == Len(steps)
           A == {t \in Stores(V) : Follows(V, s, t)}
           F == [p \in A \X (1 .. n) |-> Do(p[1], steps[p[2]])]
           G(f) == f = [i \in 0 .. n |-> IF i = 0 THEN s ELSE Do(f[i - 1], steps[i])]
           S == CHOOSE f : G(f)
<1>1. n \in Nat /\ \A i \in 1 .. n : steps[i] \in Steps(V) /\ Fits(s, steps[i])
  OBVIOUS
<1>2. \A a \in A, i \in 1 .. n : F[<<a, i>>] = Do(a, steps[i])
  OBVIOUS
<1>3. ASSUME NEW a, Follows(V, s, a), NEW i \in 1 .. n
      PROVE  Follows(V, s, Do(a, steps[i]))
  <2>1. Done(V, s, steps[i], a, Do(a, steps[i]))
    BY <1>1, <1>3, DoFacts
  <2>2. Follows(V, a, Do(a, steps[i]))
    BY <2>1 DEF Done
  <2> QED
    BY <1>3, <2>2, FollowsChain
<1>4. \A t : Follows(V, s, t) <=> t \in A
  BY DEF Follows, IsStore
<1> HIDE DEF F, n, A
<1>5. \A a \in A, i \in 1 .. n : F[<<a, i>>] \in A
  BY <1>2, <1>3, <1>4
<1>6. s \in A
  BY <1>4, FollowsSelf
<1>7. PICK f : IsRecursion(A, s, n, F, f)
  BY <1>1, <1>5, <1>6, Recursion
<1>8. /\ f = [i \in 0 .. n |-> IF i = 0 THEN s ELSE F[<<f[i - 1], i>>]]
      /\ \A i \in 0 .. n : f[i] \in A
  BY <1>7 DEF IsRecursion
<1>9. \A i \in 0 .. n : (IF i = 0 THEN s ELSE F[<<f[i - 1], i>>]) = IF i = 0 THEN s ELSE Do(f[i - 1], steps[i])
  <2> SUFFICES ASSUME NEW i \in 0 .. n, i # 0 PROVE F[<<f[i - 1], i>>] = Do(f[i - 1], steps[i])
    OBVIOUS
  <2>1. i \in 1 .. n /\ i - 1 \in 0 .. n
    BY <1>1
  <2> QED
    BY <1>2, <1>8, <2>1
<1>10. G(f)
  BY <1>8, <1>9
<1>11. G(S)
  BY <1>10
<1>12. DoAll(s, steps) = S[n]
  BY DEF DoAll, n
<1> HIDE DEF S
<1>13. S[0] = s /\ \A i \in 1 .. n : S[i] = Do(S[i - 1], steps[i])
  BY <1>1, <1>11
<1>14. \A i \in 1 .. n : S[i - 1] \in A => S[i] \in A
  BY <1>3, <1>4, <1>13
<1>15. \A i \in 0 .. n : S[i] \in A
  BY <1>1, <1>6, <1>13, <1>14, StaysIn
<1> QED
  BY <1>4, <1>12, <1>13, <1>15 DEF n, IsRunOf

\* A loop over variables: it narrows only, keeps every assignment that suits all its steps, and
\* does each of them.
LEMMA DoAllFacts ==
  ASSUME NEW V, NEW s, IsStore(V, s), NEW steps \in Seq(Steps(V)),
         \A i \in 1 .. Len(steps) : Fits(s, steps[i])
  PROVE  DoneAll(V, s, steps, DoAll(s, steps))
<1> DEFINE n == Len(steps)
<1>1. PICK g : IsRunOf(V, s, steps, g)
  BY DoAllFcn
<1>2. /\ n \in Nat /\ DoAll(s, steps) = g[n] /\ g[0] = s
      /\ \A i \in 1 .. n : g[i] = Do(g[i - 1], steps[i])
      /\ \A i \in 0 .. n : Follows(V, s, g[i])
  BY <1>1 DEF IsRunOf
<1>3. ASSUME NEW i \in 1 .. n
      PROVE  Done(V, s, steps[i], g[i - 1], g[i])
  <2>1. i - 1 \in 0 .. n /\ steps[i] \in Steps(V) /\ Fits(s, steps[i])
    OBVIOUS
  <2>2. Done(V, s, steps[i], g[i - 1], Do(g[i - 1], steps[i]))
    BY <1>2, <2>1, DoFacts
  <2> QED
    BY <1>2, <2>2
<1>4. ASSUME NEW sol, Admits(V, s, sol), \A i \in 1 .. n : Suits(s, steps[i], sol)
      PROVE  Admits(V, g[n], sol)
  <2> DEFINE T == {i \in Nat : i <= n => Admits(V, g[i], sol)}
  <2>1. 0 \in T
    BY <1>2, <1>4
  <2>2. ASSUME NEW i \in Nat, i \in T PROVE i + 1 \in T
    <3> SUFFICES ASSUME i + 1 <= n PROVE Admits(V, g[i + 1], sol)
      OBVIOUS
    <3>1. i + 1 \in 1 .. n /\ (i + 1) - 1 = i /\ Admits(V, g[i], sol)
      BY <1>2, <2>2
    <3>2. Done(V, s, steps[i + 1], g[i], g[i + 1])
      BY <1>3, <3>1
    <3> QED
      BY <1>4, <3>1, <3>2 DEF Done
  <2>3. Nat \subseteq T
    <3> HIDE DEF T
    <3> QED
      BY <2>1, <2>2, NaturalsFrom, ZenonT(60)
  <2> QED
    BY <1>2, <2>3
<1>5. ASSUME \A i, j \in 1 .. n : steps[i].x = steps[j].x => i = j,
             NEW k \in 1 .. n, ~steps[k].out, ~Bound(s, steps[k].x)
      PROVE  g[n].dom[steps[k].x] = {steps[k].v}
  <2> DEFINE x == steps[k].x
             T == {i \in Nat : i <= n => g[i].dom[x] = IF i < k THEN s.dom[x] ELSE {steps[k].v}}
  <2>0. x \in V
    <3>1. steps[k] \in Steps(V)
      OBVIOUS
    <3> QED
      BY <3>1 DEF Steps
  <2>1. 0 \in T
    BY <1>2
  <2>2. ASSUME NEW i \in Nat, i \in T PROVE i + 1 \in T
    <3> SUFFICES ASSUME i + 1 <= n
                 PROVE  g[i + 1].dom[x] = IF i + 1 < k THEN s.dom[x] ELSE {steps[k].v}
      OBVIOUS
    <3>1. i + 1 \in 1 .. n /\ (i + 1) - 1 = i
      OBVIOUS
    <3>2. Done(V, s, steps[i + 1], g[i], g[i + 1])
      BY <1>3, <3>1
    <3>3. g[i].dom[x] = IF i < k THEN s.dom[x] ELSE {steps[k].v}
      BY <1>2, <2>2
    <3>4. CASE i + 1 = k
      <4>1. g[i].dom[x] = s.dom[x]
        BY <3>3, <3>4
      <4>2. ~Bound(g[i], x)
        BY <1>5, <4>1 DEF Bound
      <4>3. g[i + 1].dom[x] = {steps[k].v}
        BY <1>5, <3>2, <3>4, <4>2 DEF Done
      <4> QED
        BY <3>4, <4>3
    <3>5. CASE i + 1 # k
      <4>1. steps[i + 1].x # x
        BY <1>5, <3>1, <3>5
      <4>2. g[i + 1].dom[x] = g[i].dom[x]
        BY <2>0, <3>2, <4>1 DEF Done
      <4>3. i + 1 < k <=> i < k
        BY <3>5
      <4> QED
        BY <3>3, <4>2, <4>3
    <3> QED
      BY <3>4, <3>5
  <2>3. Nat \subseteq T
    <3> HIDE DEF T
    <3> QED
      BY <2>1, <2>2, NaturalsFrom, ZenonT(60)
  <2> QED
    BY <1>2, <2>3
<1>6. Follows(V, s, g[n])
  BY <1>2
<1> QED
  BY <1>2, <1>4, <1>5, <1>6 DEF DoneAll

-----------------------------------------------------------------------------
(* Terms and constraints.                                                  *)

\* Multiplying with a positive or a negative number keeps or turns the order.
LEMMA Times ==
  ASSUME NEW a \in Int, NEW b \in Int, NEW c \in Int, b <= c
  PROVE  /\ a * b \in Int
         /\ a > 0 => a * b <= a * c
         /\ a < 0 => a * c <= a * b
OBVIOUS

\* UP_DIV is a lower bound and LOW_DIV an upper bound of what the product with a allows.
LEMMA Quotients ==
  ASSUME NEW a \in Int, a > 0, NEW y \in Int, NEW v \in Int
  PROVE  /\ UP_DIV(v, a) \in Int /\ LOW_DIV(v, a) \in Int
         /\ v <= a * y => UP_DIV(v, a) <= y
         /\ a * y <= v => y <= LOW_DIV(v, a)
BY DEF UP_DIV, LOW_DIV

Terms(V) == [a : Int \ {0}, x : V]

IsCon(V, con) ==
  /\ con \in [rel : {"eq", "ge"}, c : Int, terms : Seq(Terms(V))]
  /\ \A i, j \in 1 .. Len(con.terms) : con.terms[i].x = con.terms[j].x => i = j

\* The terms at their lowest, at their highest, and under an assignment.
Lows(s, con) == [i \in 1 .. Len(con.terms) |-> Low(s, con.terms[i])]
Ups(s, con) == [i \in 1 .. Len(con.terms) |-> Up(s, con.terms[i])]
Lefts(con, sol) == [i \in 1 .. Len(con.terms) |-> con.terms[i].a * sol[con.terms[i].x]]

ValueTo(con, sol, i) == Partial(con.c, Lefts(con, sol), i)

\* What the type of a constraint says of its terms.
LEMMA ConFacts ==
  ASSUME NEW V, NEW con, IsCon(V, con)
  PROVE  /\ con.c \in Int /\ con.terms \in Seq(Terms(V)) /\ con.rel \in {"eq", "ge"}
         /\ Len(con.terms) \in Nat /\ DOMAIN con.terms = 1 .. Len(con.terms)
         /\ \A i \in 1 .. Len(con.terms) :
              con.terms[i] \in Terms(V) /\ con.terms[i].a \in Int /\ con.terms[i].a # 0 /\ con.terms[i].x \in V
<1>1. con.c \in Int /\ con.terms \in Seq(Terms(V)) /\ con.rel \in {"eq", "ge"}
  BY DEF IsCon
<1>2. Len(con.terms) \in Nat /\ DOMAIN con.terms = 1 .. Len(con.terms)
  BY <1>1
<1>3. ASSUME NEW i \in 1 .. Len(con.terms)
      PROVE  con.terms[i] \in Terms(V) /\ con.terms[i].a \in Int /\ con.terms[i].a # 0 /\ con.terms[i].x \in V
  <2>1. con.terms[i] \in Terms(V)
    BY <1>1
  <2> QED
    BY <2>1 DEF Terms
<1> QED
  BY <1>1, <1>2, <1>3

\* Low and Up enclose a term, and are its value when the variable is bound.
LEMMA TermFacts ==
  ASSUME NEW V, NEW s, IsStore(V, s), NEW t \in Terms(V)
  PROVE  /\ Low(s, t) \in Int /\ Up(s, t) \in Int
         /\ \A v \in s.dom[t.x] : t.a * v \in Int /\ Low(s, t) <= t.a * v /\ t.a * v <= Up(s, t)
         /\ Bound(s, t.x) => Low(s, t) = Up(s, t) /\ Low(s, t) = t.a * Min(s.dom[t.x])
<1> DEFINE D == s.dom[t.x]
           l == Min(D)
           h == Max(D)
<1>1. t.a \in Int /\ t.a # 0 /\ t.x \in V
  BY DEF Terms
<1>2. D \subseteq Int /\ l \in Int /\ h \in Int /\ l \in D /\ h \in D /\ \A v \in D : l <= v /\ v <= h
  BY <1>1, StoreFacts
<1>3. Bound(s, t.x) => h = l
  BY <1>1, BoundFacts
<1>4. Low(s, t) = (IF t.a > 0 THEN t.a * l ELSE t.a * h) /\ Up(s, t) = IF t.a > 0 THEN t.a * h ELSE t.a * l
  BY DEF Low, Up
<1> HIDE DEF l, h, D
<1>5. t.a * l \in Int /\ t.a * h \in Int
  BY <1>1, <1>2, Times
<1>6. ASSUME NEW v \in D
      PROVE  t.a * v \in Int /\ Low(s, t) <= t.a * v /\ t.a * v <= Up(s, t)
  <2>1. v \in Int /\ l <= v /\ v <= h
    BY <1>2
  <2>2. /\ t.a * v \in Int
        /\ t.a > 0 => t.a * l <= t.a * v /\ t.a * v <= t.a * h
        /\ t.a < 0 => t.a * v <= t.a * l /\ t.a * h <= t.a * v
    BY <1>1, <1>2, <2>1, Times
  <2> QED
    BY <1>1, <1>4, <2>2
<1> QED
  BY <1>3, <1>4, <1>5, <1>6 DEF D, l

\* first <= a*x <= last
LEMMA NarrowTermFacts ==
  ASSUME NEW V, NEW s, IsStore(V, s), NEW t \in Terms(V), NEW first \in Int, NEW last \in Int, NEW seed \in Nat
  PROVE  /\ Follows(V, s, Narrow(s, t, first, last, seed))
         /\ \A sol : Admits(V, s, sol) /\ first <= t.a * sol[t.x] /\ t.a * sol[t.x] <= last
              => Admits(V, Narrow(s, t, first, last, seed), sol)
<1>1. t.a \in Int /\ t.a # 0 /\ t.x \in V
  BY DEF Terms
<1>2. ASSUME NEW sol, Admits(V, s, sol)
      PROVE  sol[t.x] \in Int
  BY <1>1, <1>2, StoreFacts DEF Admits
<1>3. CASE t.a > 0
  <2> DEFINE lo == UP_DIV(first, t.a)
             hi == LOW_DIV(last, t.a)
  <2>1. lo \in Int /\ hi \in Int
    BY <1>1, <1>3, Quotients
  <2>2. ASSUME NEW sol, Admits(V, s, sol), first <= t.a * sol[t.x], t.a * sol[t.x] <= last
        PROVE  lo <= sol[t.x] /\ sol[t.x] <= hi
    BY <1>1, <1>2, <1>3, <2>2, Quotients
  <2>3. Narrow(s, t, first, last, seed) = Region(s, t.x, lo, hi, seed)
    BY <1>3 DEF Narrow
  <2> HIDE DEF lo, hi
  <2>4. Regioned(V, s, t.x, lo, hi, Region(s, t.x, lo, hi, seed))
    BY <1>1, <2>1, RegionFacts
  <2> QED
    BY <2>2, <2>3, <2>4 DEF Regioned
<1>4. CASE t.a < 0
  <2> DEFINE lo == UP_DIV(-last, -t.a)
             hi == LOW_DIV(-first, -t.a)
  <2>0. -t.a \in Int /\ -t.a > 0 /\ -last \in Int /\ -first \in Int
    BY <1>1, <1>4
  <2>1. lo \in Int /\ hi \in Int
    BY <2>0, Quotients
  <2>2. ASSUME NEW sol, Admits(V, s, sol), first <= t.a * sol[t.x], t.a * sol[t.x] <= last
        PROVE  lo <= sol[t.x] /\ sol[t.x] <= hi
    <3>1. sol[t.x] \in Int
      BY <1>2, <2>2
    <3>2. (-t.a) * sol[t.x] = -(t.a * sol[t.x]) /\ t.a * sol[t.x] \in Int
      BY <1>1, <3>1
    <3>3. -last <= (-t.a) * sol[t.x] /\ (-t.a) * sol[t.x] <= -first
      BY <2>2, <3>2
    <3> QED
      BY <2>0, <3>1, <3>3, Quotients
  <2>3. Narrow(s, t, first, last, seed) = Region(s, t.x, lo, hi, seed)
    BY <1>1, <1>4 DEF Narrow
  <2> HIDE DEF lo, hi
  <2>4. Regioned(V, s, t.x, lo, hi, Region(s, t.x, lo, hi, seed))
    BY <1>1, <2>1, RegionFacts
  <2> QED
    BY <2>2, <2>3, <2>4 DEF Regioned
<1> QED
  BY <1>1, <1>3, <1>4

\* Bounds and values of constraints as sums.
LEMMA SumsAre ==
  ASSUME NEW V, NEW con, IsCon(V, con), NEW s, IsStore(V, s)
  PROVE  /\ Lows(s, con) \in [1 .. Len(con.terms) -> Int] /\ Ups(s, con) \in [1 .. Len(con.terms) -> Int]
         /\ \A i \in 0 .. Len(con.terms) :
              /\ LowTo(s, con, i) = Partial(con.c, Lows(s, con), i)
              /\ UpTo(s, con, i) = Partial(con.c, Ups(s, con), i)
<1> DEFINE n == Len(con.terms)
<1>1. \A i \in 1 .. n : Low(s, con.terms[i]) \in Int /\ Up(s, con.terms[i]) \in Int
  BY ConFacts, TermFacts
<1>2. n \in Nat
  BY ConFacts
<1>3. ASSUME NEW i \in 0 .. n
      PROVE  LowTo(s, con, i) = Partial(con.c, Lows(s, con), i) /\ UpTo(s, con, i) = Partial(con.c, Ups(s, con), i)
  <2>1. [j \in 1 .. i |-> Low(s, con.terms[j])] = [j \in 1 .. i |-> Lows(s, con)[j]]
    BY <1>2 DEF Lows
  <2>2. [j \in 1 .. i |-> Up(s, con.terms[j])] = [j \in 1 .. i |-> Ups(s, con)[j]]
    BY <1>2 DEF Ups
  <2> QED
    BY <2>1, <2>2 DEF LowTo, UpTo, Partial
<1> QED
  BY <1>1, <1>3 DEF Lows, Ups

\* An assignment within the domains.
LEMMA LeftsAre ==
  ASSUME NEW V, NEW con, IsCon(V, con), NEW s, IsStore(V, s), NEW sol, \A x \in V : sol[x] \in s.dom[x]
  PROVE  /\ Lefts(con, sol) \in [1 .. Len(con.terms) -> Int]
         /\ \A i \in 1 .. Len(con.terms) : Lows(s, con)[i] <= Lefts(con, sol)[i] /\ Lefts(con, sol)[i] <= Ups(s, con)[i]
<1>1. ASSUME NEW i \in 1 .. Len(con.terms)
      PROVE  /\ con.terms[i].a * sol[con.terms[i].x] \in Int
             /\ Low(s, con.terms[i]) <= con.terms[i].a * sol[con.terms[i].x]
             /\ con.terms[i].a * sol[con.terms[i].x] <= Up(s, con.terms[i])
  <2>1. con.terms[i] \in Terms(V) /\ con.terms[i].x \in V
    BY ConFacts
  <2> QED
    BY <2>1, TermFacts
<1> QED
  BY <1>1 DEF Lefts, Lows, Ups

\* Holds in terms of the sum of all terms.
LEMMA HoldsIs ==
  ASSUME NEW V, NEW con, IsCon(V, con), NEW sol
  PROVE  Holds(con, sol) <=> IF con.rel = "eq" THEN ValueTo(con, sol, Len(con.terms)) = 0
                             ELSE ValueTo(con, sol, Len(con.terms)) >= 0
<1>1. DOMAIN con.terms = 1 .. Len(con.terms) /\ Len(con.terms) \in Nat
  BY ConFacts
<1>2. [i \in DOMAIN con.terms |-> con.terms[i].a * sol[con.terms[i].x]]
        = [i \in 1 .. Len(con.terms) |-> Lefts(con, sol)[i]]
  BY <1>1 DEF Lefts
<1> QED
  BY <1>2 DEF Holds, ValueTo, Partial

\* The value is between the bounds, and away from them by at least what one term is.
LEMMA ValueBetween ==
  ASSUME NEW V, NEW con, IsCon(V, con), NEW s, IsStore(V, s), NEW sol, \A x \in V : sol[x] \in s.dom[x]
  PROVE  /\ \A i \in 0 .. Len(con.terms) :
              /\ LowTo(s, con, i) \in Int /\ UpTo(s, con, i) \in Int /\ ValueTo(con, sol, i) \in Int
              /\ LowTo(s, con, i) <= ValueTo(con, sol, i) /\ ValueTo(con, sol, i) <= UpTo(s, con, i)
         /\ \A i \in 1 .. Len(con.terms) :
              ValueTo(con, sol, i) = ValueTo(con, sol, i - 1) + con.terms[i].a * sol[con.terms[i].x]
         /\ \A i \in 1 .. Len(con.terms) :
              LET here == con.terms[i].a * sol[con.terms[i].x]
                  n == Len(con.terms)
              IN /\ here - Low(s, con.terms[i]) <= ValueTo(con, sol, n) - LowTo(s, con, n)
                 /\ Up(s, con.terms[i]) - here <= UpTo(s, con, n) - ValueTo(con, sol, n)
<1> DEFINE n == Len(con.terms)
           f == Lows(s, con)
           g == Lefts(con, sol)
           h == Ups(s, con)
<1>1. n \in Nat /\ con.c \in Int
  BY ConFacts
<1>2. f \in [1 .. n -> Int] /\ h \in [1 .. n -> Int] /\ g \in [1 .. n -> Int]
  BY SumsAre, LeftsAre
<1>3. \A i \in 1 .. n : f[i] <= g[i] /\ g[i] <= h[i]
  BY LeftsAre
<1>4. \A i \in 1 .. n : f[i] = Low(s, con.terms[i]) /\ h[i] = Up(s, con.terms[i]) /\ g[i] = con.terms[i].a * sol[con.terms[i].x]
  BY DEF Lows, Ups, Lefts
<1>5. \A i \in 0 .. n : LowTo(s, con, i) = Partial(con.c, f, i) /\ UpTo(s, con, i) = Partial(con.c, h, i)
  BY SumsAre
<1>6. \A i : ValueTo(con, sol, i) = Partial(con.c, g, i)
  BY DEF ValueTo
<1> HIDE DEF n, f, g, h
<1>7. \A i \in 0 .. n : Partial(con.c, f, i) \in Int /\ Partial(con.c, g, i) \in Int /\ Partial(con.c, h, i) \in Int
  BY <1>1, <1>2, PartialStep
<1>8. \A i \in 1 .. n : Partial(con.c, g, i) = Partial(con.c, g, i - 1) + g[i]
  BY <1>1, <1>2, PartialStep
<1>9. /\ \A i \in 0 .. n : Partial(con.c, f, i) <= Partial(con.c, g, i)
      /\ \A j \in 1 .. n : g[j] - f[j] <= Partial(con.c, g, n) - Partial(con.c, f, n)
  BY <1>1, <1>2, <1>3, PartialGrows
<1>10. /\ \A i \in 0 .. n : Partial(con.c, g, i) <= Partial(con.c, h, i)
       /\ \A j \in 1 .. n : h[j] - g[j] <= Partial(con.c, h, n) - Partial(con.c, g, n)
  BY <1>1, <1>2, <1>3, PartialGrows
<1>11. n \in 0 .. n
  BY <1>1
<1>12. \A i \in 0 .. n :
              /\ LowTo(s, con, i) \in Int /\ UpTo(s, con, i) \in Int /\ ValueTo(con, sol, i) \in Int
              /\ LowTo(s, con, i) <= ValueTo(con, sol, i) /\ ValueTo(con, sol, i) <= UpTo(s, con, i)
  BY <1>5, <1>6, <1>7, <1>9, <1>10
<1>13. \A i \in 1 .. n :
              ValueTo(con, sol, i) = ValueTo(con, sol, i - 1) + con.terms[i].a * sol[con.terms[i].x]
  BY <1>4, <1>6, <1>8
<1>14. \A i \in 1 .. n :
              /\ con.terms[i].a * sol[con.terms[i].x] - Low(s, con.terms[i]) <= ValueTo(con, sol, n) - LowTo(s, con, n)
              /\ Up(s, con.terms[i]) - con.terms[i].a * sol[con.terms[i].x] <= UpTo(s, con, n) - ValueTo(con, sol, n)
  BY <1>4, <1>5, <1>6, <1>9, <1>10, <1>11
<1> QED
  BY <1>12, <1>13, <1>14 DEF n

-----------------------------------------------------------------------------
(* Reducing the domains to the bounds of a sum.                            *)

\* Minimum and maximum of two numbers.
LEMMA OfTwo ==
  ASSUME NEW a \in Int, NEW b \in Int
  PROVE  /\ Min({a, b}) \in Int /\ Min({a, b}) <= a /\ Min({a, b}) <= b /\ Min({a, b}) \in {a, b}
         /\ Max({a, b}) \in Int /\ a <= Max({a, b}) /\ b <= Max({a, b}) /\ Max({a, b}) \in {a, b}
<1>1. IsFiniteSet({a}) /\ {a, b} = {a} \cup {b}
  BY FS_Singleton
<1>2. IsFiniteSet({a, b})
  BY <1>1, FS_AddElement
<1>3. {a, b} \subseteq Int /\ {a, b} # {}
  OBVIOUS
<1>4. /\ Min({a, b}) \in {a, b} /\ Max({a, b}) \in {a, b}
      /\ \A y \in {a, b} : Min({a, b}) <= y /\ y <= Max({a, b})
  BY <1>2, <1>3, Extremes
<1> QED
  BY <1>4

IsAcc(V, s, acc) ==
  acc \in [s : Stores(V), l : Int, u : Int, done : BOOLEAN] /\ Follows(V, s, acc.s)

\* The value of the first i terms is within the bounds kept.
Encloses(V, con, acc, i, sol) ==
  /\ Admits(V, acc.s, sol)
  /\ ~acc.done => acc.l <= ValueTo(con, sol, i) /\ ValueTo(con, sol, i) <= acc.u

\* REDUCE_DOMAIN: one term of the loop narrows only, and what encloses the sum of the first i
\* terms of a solution before encloses that of the first i - 1 after.
LEMMA ReduceEqFacts ==
  ASSUME NEW V, NEW con, IsCon(V, con), NEW before, IsStore(V, before), NEW acc, IsAcc(V, before, acc),
         NEW i \in 1 .. Len(con.terms), NEW seed \in Nat
  PROVE  /\ IsAcc(V, before, ReduceEq(con, before, seed, acc, i))
         /\ \A sol : Admits(V, before, sol) /\ Encloses(V, con, acc, i, sol)
              => Encloses(V, con, ReduceEq(con, before, seed, acc, i), i - 1, sol)
<1> DEFINE t == con.terms[i]
           l1 == LowTo(before, con, i - 1)
           u1 == UpTo(before, con, i - 1)
           s == Narrow(acc.s, t, acc.l - u1, acc.u - l1, seed)
           first == acc.l - Up(s, t)
           last == acc.u - Low(s, t)
           none == s.state = "ok" /\ Min({last, u1}) < Max({first, l1})
           new == [s |-> IF none THEN Failed(s) ELSE s,
                   l |-> Max({first, l1}), u |-> Min({last, u1}),
                   done |-> s.state /= "ok" \/ none \/ (first <= l1 /\ u1 <= last)]
           r == ReduceEq(con, before, seed, acc, i)
<1>1. r = IF acc.done THEN acc ELSE new
  BY DEF ReduceEq
<1> SUFFICES /\ IsAcc(V, before, r)
             /\ \A sol : Admits(V, before, sol) /\ Encloses(V, con, acc, i, sol) => Encloses(V, con, r, i - 1, sol)
  OBVIOUS
<1> HIDE DEF r
<1>2. t \in Terms(V) /\ t.x \in V /\ i - 1 \in 0 .. Len(con.terms) /\ i \in 0 .. Len(con.terms)
  BY ConFacts
<1>3. l1 \in Int /\ u1 \in Int
  <2>1. /\ Lows(before, con) \in [1 .. Len(con.terms) -> Int] /\ Ups(before, con) \in [1 .. Len(con.terms) -> Int]
        /\ LowTo(before, con, i - 1) = Partial(con.c, Lows(before, con), i - 1)
        /\ UpTo(before, con, i - 1) = Partial(con.c, Ups(before, con), i - 1)
    BY <1>2, SumsAre
  <2>2. Len(con.terms) \in Nat /\ con.c \in Int
    BY ConFacts
  <2>3. Partial(con.c, Lows(before, con), i - 1) \in Int
    BY <1>2, <2>1, <2>2, PartialStep
  <2>4. Partial(con.c, Ups(before, con), i - 1) \in Int
    BY <1>2, <2>1, <2>2, PartialStep
  <2> QED
    BY <2>1, <2>3, <2>4
<1>4. acc.l \in Int /\ acc.u \in Int /\ Follows(V, before, acc.s) /\ IsStore(V, acc.s) /\ acc.done \in BOOLEAN
  BY DEF IsAcc, Follows
<1>5. CASE acc.done
  BY <1>1, <1>5 DEF Encloses
<1>6. CASE ~acc.done
  <2>1. acc.l - u1 \in Int /\ acc.u - l1 \in Int
    BY <1>3, <1>4
  <2>2. /\ Follows(V, acc.s, s)
        /\ \A sol : Admits(V, acc.s, sol) /\ acc.l - u1 <= t.a * sol[t.x] /\ t.a * sol[t.x] <= acc.u - l1
              => Admits(V, s, sol)
    BY <1>2, <1>4, <2>1, NarrowTermFacts
  <2>3. Follows(V, before, s) /\ IsStore(V, s)
    <3> HIDE DEF s
    <3> QED
      BY <1>4, <2>2, FollowsChain, FollowsStore
  <2>4. Low(s, t) \in Int /\ Up(s, t) \in Int
    BY <1>2, <2>3, TermFacts
  <2>5. Follows(V, s, Failed(s))
    BY <2>3, FailedFacts
  <2>6. Follows(V, before, Failed(s)) /\ Failed(s) \in Stores(V) /\ s \in Stores(V)
    <3> HIDE DEF s
    <3> QED
      BY <2>3, <2>5, FollowsChain, FollowsStore
  <2> HIDE DEF s
  <2>7. first \in Int /\ last \in Int
    BY <1>4, <2>4
  <2> HIDE DEF first, last, l1, u1
  <2>8. /\ Min({last, u1}) \in Int /\ Max({first, l1}) \in Int
        /\ Min({last, u1}) \in {last, u1} /\ Max({first, l1}) \in {first, l1}
    BY <1>3, <2>7, OfTwo
  <2>9. IsAcc(V, before, new)
    BY <2>3, <2>6, <2>8 DEF IsAcc
  <2>10. ASSUME NEW sol, Admits(V, before, sol), Encloses(V, con, acc, i, sol)
         PROVE  Encloses(V, con, new, i - 1, sol)
    <3> DEFINE here == t.a * sol[t.x]
    <3>1. Admits(V, acc.s, sol) /\ acc.l <= ValueTo(con, sol, i) /\ ValueTo(con, sol, i) <= acc.u
      BY <1>6, <2>10 DEF Encloses
    <3>2. \A x \in V : sol[x] \in before.dom[x]
      BY <2>10 DEF Admits
    <3>3. /\ ValueTo(con, sol, i) = ValueTo(con, sol, i - 1) + here
          /\ ValueTo(con, sol, i) \in Int /\ ValueTo(con, sol, i - 1) \in Int
          /\ l1 <= ValueTo(con, sol, i - 1) /\ ValueTo(con, sol, i - 1) <= u1
      <4>1. ValueTo(con, sol, i) = ValueTo(con, sol, i - 1) + here
        BY <1>2, <3>2, ValueBetween
      <4>2. i \in 0 .. Len(con.terms) /\ i - 1 \in 0 .. Len(con.terms)
        BY <1>2
      <4>3. \A j \in 0 .. Len(con.terms) :
              /\ LowTo(before, con, j) \in Int /\ UpTo(before, con, j) \in Int /\ ValueTo(con, sol, j) \in Int
              /\ LowTo(before, con, j) <= ValueTo(con, sol, j) /\ ValueTo(con, sol, j) <= UpTo(before, con, j)
        BY <3>2, ValueBetween
      <4> QED
        BY <4>1, <4>2, <4>3 DEF l1, u1
    <3>4. here \in Int
      <4>1. sol[t.x] \in before.dom[t.x]
        BY <1>2, <3>2
      <4> QED
        BY <1>2, <4>1, TermFacts
    <3>5. acc.l - u1 <= here /\ here <= acc.u - l1
      <4> HIDE DEF here
      <4> QED
        BY <1>3, <1>4, <3>1, <3>3, <3>4
    <3>6. Admits(V, s, sol)
      BY <2>2, <3>1, <3>5
    <3>7. Low(s, t) <= here /\ here <= Up(s, t)
      <4>1. sol[t.x] \in s.dom[t.x]
        BY <1>2, <3>6 DEF Admits
      <4> QED
        BY <1>2, <2>3, <4>1, TermFacts
    <3> HIDE DEF here
    <3>8. first <= ValueTo(con, sol, i - 1) /\ ValueTo(con, sol, i - 1) <= last
      BY <1>4, <2>4, <3>1, <3>3, <3>4, <3>7 DEF first, last
    <3>9. Max({first, l1}) <= ValueTo(con, sol, i - 1) /\ ValueTo(con, sol, i - 1) <= Min({last, u1})
      BY <2>8, <3>3, <3>8
    <3>10. ~none
      BY <2>8, <3>3, <3>9
    <3> HIDE DEF none
    <3> QED
      BY <3>6, <3>9, <3>10 DEF Encloses
  <2> HIDE DEF new
  <2> QED
    BY <1>1, <1>6, <2>9, <2>10
<1> QED
  BY <1>4, <1>5, <1>6

\* The general case of an equation.
LEMMA IntervalEqFacts ==
  ASSUME NEW V, NEW con, IsCon(V, con), NEW s, IsStore(V, s), NEW seed \in Nat
  PROVE  /\ Follows(V, s, IntervalEq(s, con, seed).s)
         /\ IntervalEq(s, con, seed).exit = FALSE /\ IntervalEq(s, con, seed).todo = <<>>
         /\ \A sol : Admits(V, s, sol) /\ ValueTo(con, sol, Len(con.terms)) = 0
              => Admits(V, IntervalEq(s, con, seed).s, sol)
<1> DEFINE n == Len(con.terms)
           b == [s |-> s, l |-> 0, u |-> 0, done |-> FALSE]
           A == {acc \in [s : Stores(V), l : Int, u : Int, done : BOOLEAN] : IsAcc(V, s, acc)}
           F == [p \in A \X (1 .. n) |-> ReduceEq(con, s, seed, p[1], n + 1 - p[2])]
           G(f) == f = [k \in 0 .. n |-> IF k = 0 THEN b ELSE ReduceEq(con, s, seed, f[k - 1], n + 1 - k)]
           S == CHOOSE f : G(f)
<1>1. n \in Nat
  BY ConFacts
<1>2. \A a \in A, k \in 1 .. n : F[<<a, k>>] = ReduceEq(con, s, seed, a, n + 1 - k)
  OBVIOUS
<1>3. ASSUME NEW a, IsAcc(V, s, a), NEW k \in 1 .. n
      PROVE  /\ IsAcc(V, s, ReduceEq(con, s, seed, a, n + 1 - k))
             /\ \A sol : Admits(V, s, sol) /\ Encloses(V, con, a, n + 1 - k, sol)
                  => Encloses(V, con, ReduceEq(con, s, seed, a, n + 1 - k), n - k, sol)
  <2>1. n + 1 - k \in 1 .. n /\ (n + 1 - k) - 1 = n - k
    BY <1>1
  <2> QED
    BY <1>3, <2>1, ReduceEqFacts
<1>4. \A a : IsAcc(V, s, a) <=> a \in A
  BY DEF IsAcc
<1>5. IsAcc(V, s, b)
  <2>1. s \in Stores(V) /\ Follows(V, s, s)
    BY FollowsSelf, FollowsStore
  <2> QED
    BY <2>1 DEF IsAcc
<1>6. b \in A /\ b.s = s /\ b.l = 0 /\ b.u = 0
  BY <1>4, <1>5
<1> HIDE DEF F, n, A, b
<1>7. \A a \in A, k \in 1 .. n : F[<<a, k>>] \in A
  BY <1>2, <1>3, <1>4
<1>8. PICK f : IsRecursion(A, b, n, F, f)
  BY <1>1, <1>6, <1>7, Recursion
<1>9. /\ f = [k \in 0 .. n |-> IF k = 0 THEN b ELSE F[<<f[k - 1], k>>]]
      /\ \A k \in 0 .. n : f[k] \in A
  BY <1>8 DEF IsRecursion
<1>10. \A k \in 0 .. n : (IF k = 0 THEN b ELSE F[<<f[k - 1], k>>])
                          = IF k = 0 THEN b ELSE ReduceEq(con, s, seed, f[k - 1], n + 1 - k)
  <2> SUFFICES ASSUME NEW k \in 0 .. n, k # 0
               PROVE  F[<<f[k - 1], k>>] = ReduceEq(con, s, seed, f[k - 1], n + 1 - k)
    OBVIOUS
  <2>1. k \in 1 .. n /\ k - 1 \in 0 .. n
    BY <1>1
  <2> QED
    BY <1>2, <1>9, <2>1
<1>11. G(f)
  BY <1>9, <1>10
<1>12. G(S)
  BY <1>11
<1>13. IntervalEq(s, con, seed) = Result(S[n].s, FALSE)
  BY DEF IntervalEq, n, b
<1> HIDE DEF S
<1>14. S[0] = b /\ \A k \in 1 .. n : S[k] = ReduceEq(con, s, seed, S[k - 1], n + 1 - k)
  BY <1>1, <1>12
<1>15. \A k \in 1 .. n : S[k - 1] \in A => S[k] \in A
  BY <1>3, <1>4, <1>14
<1>16. \A k \in 0 .. n : S[k] \in A
  BY <1>1, <1>6, <1>14, <1>15, StaysIn
<1>17. ASSUME NEW sol, Admits(V, s, sol), ValueTo(con, sol, n) = 0
       PROVE  Admits(V, S[n].s, sol)
  <2> DEFINE T == {k \in Nat : k <= n => Encloses(V, con, S[k], n - k, sol)}
  <2>1. 0 \in T
    <3>1. n - 0 = n /\ 0 <= 0
      BY <1>1
    <3>2. Encloses(V, con, b, n - 0, sol)
      BY <1>6, <1>17, <3>1 DEF Encloses
    <3> QED
      BY <1>14, <3>2
  <2>2. ASSUME NEW k \in Nat, k \in T PROVE k + 1 \in T
    <3> SUFFICES ASSUME k + 1 <= n PROVE Encloses(V, con, S[k + 1], n - (k + 1), sol)
      OBVIOUS
    <3>1. k + 1 \in 1 .. n /\ (k + 1) - 1 = k /\ k \in 0 .. n /\ n + 1 - (k + 1) = n - k
      BY <1>1
    <3>2. Encloses(V, con, S[k], n - k, sol)
      BY <2>2, <3>1
    <3>3. IsAcc(V, s, S[k])
      BY <1>4, <1>16, <3>1
    <3>4. S[k + 1] = ReduceEq(con, s, seed, S[k], n - k)
      BY <1>14, <3>1
    <3>5. Encloses(V, con, S[k], n + 1 - (k + 1), sol) /\ S[k + 1] = ReduceEq(con, s, seed, S[k], n + 1 - (k + 1))
      BY <3>1, <3>2, <3>4
    <3> QED
      BY <1>3, <1>17, <3>1, <3>3, <3>5
  <2>3. Nat \subseteq T
    <3> HIDE DEF T
    <3> QED
      BY <2>1, <2>2, NaturalsFrom, ZenonT(60)
  <2>4. Encloses(V, con, S[n], n - n, sol)
    BY <1>1, <2>3
  <2> QED
    BY <2>4 DEF Encloses
<1>18. Follows(V, s, S[n].s)
  <2>1. IsAcc(V, s, S[n])
    BY <1>1, <1>4, <1>16
  <2> QED
    BY <2>1 DEF IsAcc
<1> QED
  BY <1>13, <1>17, <1>18 DEF Result, n

\* The same for an inequality, of which only the lower bound is kept.
IsAccGe(V, s, acc) ==
  acc \in [s : Stores(V), l : Int, done : BOOLEAN] /\ Follows(V, s, acc.s)

EnclosesGe(V, con, acc, i, sol) ==
  /\ Admits(V, acc.s, sol)
  /\ ~acc.done => acc.l <= ValueTo(con, sol, i)

\* REDUCE_DOMAIN_GE, in the same way.
LEMMA ReduceGeFacts ==
  ASSUME NEW V, NEW con, IsCon(V, con), NEW before, IsStore(V, before), NEW acc, IsAccGe(V, before, acc),
         NEW i \in 1 .. Len(con.terms), NEW seed \in Nat
  PROVE  /\ IsAccGe(V, before, ReduceGe(con, before, seed, acc, i))
         /\ \A sol : Admits(V, before, sol) /\ EnclosesGe(V, con, acc, i, sol)
              => EnclosesGe(V, con, ReduceGe(con, before, seed, acc, i), i - 1, sol)
<1> DEFINE t == con.terms[i]
           l1 == LowTo(before, con, i - 1)
           u1 == UpTo(before, con, i - 1)
           top == Up(acc.s, t)
           s == Narrow(acc.s, t, acc.l - u1, top, seed)
           first == acc.l - Up(s, t)
           new == [s |-> s, l |-> first, done |-> s.state /= "ok" \/ first < l1]
           r == ReduceGe(con, before, seed, acc, i)
<1>1. r = IF acc.done THEN acc ELSE new
  BY DEF ReduceGe
<1> SUFFICES /\ IsAccGe(V, before, r)
             /\ \A sol : Admits(V, before, sol) /\ EnclosesGe(V, con, acc, i, sol) => EnclosesGe(V, con, r, i - 1, sol)
  OBVIOUS
<1> HIDE DEF r
<1>2. t \in Terms(V) /\ t.x \in V /\ i - 1 \in 0 .. Len(con.terms) /\ i \in 0 .. Len(con.terms)
  BY ConFacts
<1>3. u1 \in Int
  <2>1. /\ Ups(before, con) \in [1 .. Len(con.terms) -> Int]
        /\ UpTo(before, con, i - 1) = Partial(con.c, Ups(before, con), i - 1)
    BY <1>2, SumsAre
  <2>2. Len(con.terms) \in Nat /\ con.c \in Int
    BY ConFacts
  <2>4. Partial(con.c, Ups(before, con), i - 1) \in Int
    BY <1>2, <2>1, <2>2, PartialStep
  <2> QED
    BY <2>1, <2>4
<1>4. acc.l \in Int /\ Follows(V, before, acc.s) /\ IsStore(V, acc.s) /\ acc.done \in BOOLEAN
  BY FollowsStore DEF IsAccGe
<1>5. CASE acc.done
  BY <1>1, <1>5 DEF EnclosesGe
<1>6. CASE ~acc.done
  <2>1. acc.l - u1 \in Int /\ top \in Int
    BY <1>2, <1>3, <1>4, TermFacts
  <2> HIDE DEF top
  <2>2. /\ Follows(V, acc.s, s)
        /\ \A sol : Admits(V, acc.s, sol) /\ acc.l - u1 <= t.a * sol[t.x] /\ t.a * sol[t.x] <= top
              => Admits(V, s, sol)
    BY <1>2, <1>4, <2>1, NarrowTermFacts
  <2>3. Follows(V, before, s) /\ IsStore(V, s) /\ s \in Stores(V)
    <3> HIDE DEF s
    <3> QED
      BY <1>4, <2>2, FollowsChain, FollowsStore
  <2>4. Up(s, t) \in Int
    BY <1>2, <2>3, TermFacts
  <2> HIDE DEF s
  <2>7. first \in Int
    BY <1>4, <2>4
  <2> HIDE DEF first, l1, u1
  <2>9. IsAccGe(V, before, new)
    BY <2>3, <2>7 DEF IsAccGe
  <2>10. ASSUME NEW sol, Admits(V, before, sol), EnclosesGe(V, con, acc, i, sol)
         PROVE  EnclosesGe(V, con, new, i - 1, sol)
    <3> DEFINE here == t.a * sol[t.x]
    <3>1. Admits(V, acc.s, sol) /\ acc.l <= ValueTo(con, sol, i)
      BY <1>6, <2>10 DEF EnclosesGe
    <3>2. \A x \in V : sol[x] \in before.dom[x]
      BY <2>10 DEF Admits
    <3>3. /\ ValueTo(con, sol, i) = ValueTo(con, sol, i - 1) + here
          /\ ValueTo(con, sol, i) \in Int /\ ValueTo(con, sol, i - 1) \in Int
          /\ ValueTo(con, sol, i - 1) <= u1
      BY <1>2, <3>2, ValueBetween DEF u1
    <3>4. here \in Int /\ here <= top
      <4>1. sol[t.x] \in acc.s.dom[t.x]
        BY <1>2, <3>1 DEF Admits
      <4> QED
        BY <1>2, <1>4, <4>1, TermFacts DEF top
    <3>5. acc.l - u1 <= here
      <4> HIDE DEF here
      <4> QED
        BY <1>3, <1>4, <3>1, <3>3, <3>4
    <3>6. Admits(V, s, sol)
      BY <2>2, <3>1, <3>4, <3>5
    <3>7. here <= Up(s, t)
      <4>1. sol[t.x] \in s.dom[t.x]
        BY <1>2, <3>6 DEF Admits
      <4> QED
        BY <1>2, <2>3, <4>1, TermFacts
    <3> HIDE DEF here
    <3>8. first <= ValueTo(con, sol, i - 1)
      BY <1>4, <2>4, <3>1, <3>3, <3>4, <3>7 DEF first
    <3> QED
      BY <3>6, <3>8 DEF EnclosesGe
  <2> HIDE DEF new
  <2> QED
    BY <1>1, <1>6, <2>9, <2>10
<1> QED
  BY <1>4, <1>5, <1>6

\* The whole loop of an inequality keeps each of its solutions.
LEMMA ReducedGeFacts ==
  ASSUME NEW V, NEW con, IsCon(V, con), NEW s, IsStore(V, s), NEW seed \in Nat
  PROVE  /\ Follows(V, s, ReducedGe(s, con, seed))
         /\ \A sol : Admits(V, s, sol) /\ ValueTo(con, sol, Len(con.terms)) >= 0
              => Admits(V, ReducedGe(s, con, seed), sol)
<1> DEFINE n == Len(con.terms)
           b == [s |-> s, l |-> 0, done |-> FALSE]
           A == {acc \in [s : Stores(V), l : Int, done : BOOLEAN] : IsAccGe(V, s, acc)}
           F == [p \in A \X (1 .. n) |-> ReduceGe(con, s, seed, p[1], n + 1 - p[2])]
           G(f) == f = [k \in 0 .. n |-> IF k = 0 THEN b ELSE ReduceGe(con, s, seed, f[k - 1], n + 1 - k)]
           S == CHOOSE f : G(f)
<1>1. n \in Nat /\ n \in 0 .. n
  BY ConFacts
<1>2. \A a \in A, k \in 1 .. n : F[<<a, k>>] = ReduceGe(con, s, seed, a, n + 1 - k)
  OBVIOUS
<1>3. ASSUME NEW a, IsAccGe(V, s, a), NEW k \in 1 .. n
      PROVE  /\ IsAccGe(V, s, ReduceGe(con, s, seed, a, n + 1 - k))
             /\ \A sol : Admits(V, s, sol) /\ EnclosesGe(V, con, a, n + 1 - k, sol)
                  => EnclosesGe(V, con, ReduceGe(con, s, seed, a, n + 1 - k), n - k, sol)
  <2>1. n + 1 - k \in 1 .. n /\ (n + 1 - k) - 1 = n - k
    BY <1>1
  <2> QED
    BY <1>3, <2>1, ReduceGeFacts
<1>4. \A a : IsAccGe(V, s, a) <=> a \in A
  BY DEF IsAccGe
<1>5. IsAccGe(V, s, b)
  <2>1. s \in Stores(V) /\ Follows(V, s, s)
    BY FollowsSelf, FollowsStore
  <2> QED
    BY <2>1 DEF IsAccGe
<1>6. b \in A /\ b.s = s /\ b.l = 0
  BY <1>4, <1>5
<1> HIDE DEF F, n, A, b
<1>7. \A a \in A, k \in 1 .. n : F[<<a, k>>] \in A
  BY <1>2, <1>3, <1>4
<1>8. PICK f : IsRecursion(A, b, n, F, f)
  BY <1>1, <1>6, <1>7, Recursion
<1>9. /\ f = [k \in 0 .. n |-> IF k = 0 THEN b ELSE F[<<f[k - 1], k>>]]
      /\ \A k \in 0 .. n : f[k] \in A
  BY <1>8 DEF IsRecursion
<1>10. \A k \in 0 .. n : (IF k = 0 THEN b ELSE F[<<f[k - 1], k>>])
                          = IF k = 0 THEN b ELSE ReduceGe(con, s, seed, f[k - 1], n + 1 - k)
  <2> SUFFICES ASSUME NEW k \in 0 .. n, k # 0
               PROVE  F[<<f[k - 1], k>>] = ReduceGe(con, s, seed, f[k - 1], n + 1 - k)
    OBVIOUS
  <2>1. k \in 1 .. n /\ k - 1 \in 0 .. n
    BY <1>1
  <2> QED
    BY <1>2, <1>9, <2>1
<1>11. G(f)
  BY <1>9, <1>10
<1>12. G(S)
  BY <1>11
<1>13. ReducedGe(s, con, seed) = S[n].s
  BY DEF ReducedGe, n, b
<1> HIDE DEF S
<1>14. S[0] = b /\ \A k \in 1 .. n : S[k] = ReduceGe(con, s, seed, S[k - 1], n + 1 - k)
  BY <1>1, <1>12
<1>15. \A k \in 1 .. n : S[k - 1] \in A => S[k] \in A
  BY <1>3, <1>4, <1>14
<1>16. \A k \in 0 .. n : S[k] \in A
  BY <1>1, <1>6, <1>14, <1>15, StaysIn
<1>17. ASSUME NEW sol, Admits(V, s, sol), ValueTo(con, sol, n) >= 0
       PROVE  Admits(V, S[n].s, sol)
  <2> DEFINE T == {k \in Nat : k <= n => EnclosesGe(V, con, S[k], n - k, sol)}
  <2>1. 0 \in T
    <3>1. n - 0 = n /\ 0 <= ValueTo(con, sol, n)
      <4>1. \A x \in V : sol[x] \in s.dom[x]
        BY <1>17 DEF Admits
      <4>2. ValueTo(con, sol, n) \in Int
        BY <1>1, <4>1, ValueBetween DEF n
      <4> QED
        BY <1>1, <1>17, <4>2
    <3>2. EnclosesGe(V, con, b, n - 0, sol)
      BY <1>6, <1>17, <3>1 DEF EnclosesGe
    <3> QED
      BY <1>14, <3>2
  <2>2. ASSUME NEW k \in Nat, k \in T PROVE k + 1 \in T
    <3> SUFFICES ASSUME k + 1 <= n PROVE EnclosesGe(V, con, S[k + 1], n - (k + 1), sol)
      OBVIOUS
    <3>1. k + 1 \in 1 .. n /\ (k + 1) - 1 = k /\ k \in 0 .. n /\ n + 1 - (k + 1) = n - k
      BY <1>1
    <3>2. EnclosesGe(V, con, S[k], n - k, sol)
      BY <2>2, <3>1
    <3>3. IsAccGe(V, s, S[k])
      BY <1>4, <1>16, <3>1
    <3>4. S[k + 1] = ReduceGe(con, s, seed, S[k], n - k)
      BY <1>14, <3>1
    <3>5. EnclosesGe(V, con, S[k], n + 1 - (k + 1), sol) /\ S[k + 1] = ReduceGe(con, s, seed, S[k], n + 1 - (k + 1))
      BY <3>1, <3>2, <3>4
    <3> QED
      BY <1>3, <1>17, <3>1, <3>3, <3>5
  <2>3. Nat \subseteq T
    <3> HIDE DEF T
    <3> QED
      BY <2>1, <2>2, NaturalsFrom, ZenonT(60)
  <2>4. EnclosesGe(V, con, S[n], n - n, sol)
    BY <1>1, <2>3
  <2> QED
    BY <2>4 DEF EnclosesGe
<1>18. Follows(V, s, S[n].s)
  <2>1. IsAccGe(V, s, S[n])
    BY <1>1, <1>4, <1>16
  <2> QED
    BY <2>1 DEF IsAccGe
<1> QED
  BY <1>13, <1>17, <1>18 DEF n

-----------------------------------------------------------------------------
(* Sums over what is bound and what is free.                               *)

BoundPart(s, con) ==
  [i \in 1 .. Len(con.terms) |-> IF Bound(s, con.terms[i].x) THEN Low(s, con.terms[i]) ELSE 0]

FreePart(s, con, sol) ==
  [i \in 1 .. Len(con.terms) |-> IF i \in Free(s, con) THEN con.terms[i].a * sol[con.terms[i].x] ELSE 0]

\* The free variables of a constraint, by sign, and the sum of the others.
LEMMA FreeFacts ==
  ASSUME NEW V, NEW con, IsCon(V, con), NEW s, IsStore(V, s)
  PROVE  /\ Free(s, con) \subseteq 1 .. Len(con.terms) /\ IsFiniteSet(Free(s, con))
         /\ \A i \in 1 .. Len(con.terms) : i \in Free(s, con) <=> ~Bound(s, con.terms[i].x)
         /\ Plus(s, con) \subseteq 1 .. Len(con.terms) /\ Minus(s, con) \subseteq 1 .. Len(con.terms)
         /\ \A i \in 1 .. Len(con.terms) : i \in Plus(s, con) <=> i \in Free(s, con) /\ con.terms[i].a > 0
         /\ \A i \in 1 .. Len(con.terms) : i \in Minus(s, con) <=> i \in Free(s, con) /\ ~ (con.terms[i].a > 0)
         /\ BoundPart(s, con) \in [1 .. Len(con.terms) -> Int]
         /\ BoundSum(s, con) = Partial(con.c, BoundPart(s, con), Len(con.terms))
         /\ BoundSum(s, con) \in Int
<1> DEFINE n == Len(con.terms)
<1>1. DOMAIN con.terms = 1 .. n /\ n \in Nat /\ con.c \in Int
  BY ConFacts
<1>2. Free(s, con) \subseteq 1 .. n /\ \A i \in 1 .. n : i \in Free(s, con) <=> ~Bound(s, con.terms[i].x)
  BY <1>1 DEF Free
<1>3. IsFiniteSet(Free(s, con))
  <2>1. n \in Int /\ 1 \in Int
    BY <1>1
  <2> HIDE DEF n
  <2>2. IsFiniteSet(1 .. n)
    BY <2>1, FS_Interval
  <2> QED
    BY <1>2, <2>2, FS_Subset
<1>4. /\ Plus(s, con) \subseteq 1 .. n /\ Minus(s, con) \subseteq 1 .. n
      /\ \A i \in 1 .. n : i \in Plus(s, con) <=> i \in Free(s, con) /\ con.terms[i].a > 0
      /\ \A i \in 1 .. n : i \in Minus(s, con) <=> i \in Free(s, con) /\ ~ (con.terms[i].a > 0)
  BY <1>2 DEF Plus, Minus
<1>5. BoundPart(s, con) \in [1 .. n -> Int]
  <2>1. \A i \in 1 .. n : Low(s, con.terms[i]) \in Int
    BY ConFacts, TermFacts
  <2> QED
    BY <2>1 DEF BoundPart
<1>6. BoundSum(s, con) = Partial(con.c, BoundPart(s, con), n)
  <2>1. [i \in DOMAIN con.terms |-> IF Bound(s, con.terms[i].x) THEN Low(s, con.terms[i]) ELSE 0]
          = [i \in 1 .. n |-> BoundPart(s, con)[i]]
    BY <1>1 DEF BoundPart
  <2> QED
    BY <2>1 DEF BoundSum, Partial
<1>7. BoundSum(s, con) \in Int
  <2>1. n \in 0 .. n
    BY <1>1
  <2> HIDE DEF n
  <2>2. \A i \in 0 .. n : Partial(con.c, BoundPart(s, con), i) \in Int
    BY <1>1, <1>5, PartialStep
  <2> QED
    BY <1>6, <2>1, <2>2
<1> QED
  BY <1>2, <1>3, <1>4, <1>5, <1>6, <1>7

\* The value of an assignment: what is bound, and the free terms.
LEMMA FreeValue ==
  ASSUME NEW V, NEW con, IsCon(V, con), NEW s, IsStore(V, s), NEW sol, \A x \in V : sol[x] \in s.dom[x]
  PROVE  /\ FreePart(s, con, sol) \in [1 .. Len(con.terms) -> Int]
         /\ ValueTo(con, sol, Len(con.terms)) = BoundSum(s, con) + Partial(0, FreePart(s, con, sol), Len(con.terms))
<1> DEFINE n == Len(con.terms)
           f == BoundPart(s, con)
           g == FreePart(s, con, sol)
           h == Lefts(con, sol)
<1>1. n \in Nat /\ con.c \in Int /\ n \in 0 .. n
  BY ConFacts
<1>2. f \in [1 .. n -> Int] /\ h \in [1 .. n -> Int]
  BY FreeFacts, LeftsAre
<1>3. \A i \in 1 .. n : h[i] = con.terms[i].a * sol[con.terms[i].x]
  BY DEF Lefts
<1>4. g \in [1 .. n -> Int] /\ \A i \in 1 .. n : g[i] = IF i \in Free(s, con) THEN h[i] ELSE 0
  BY <1>2, <1>3 DEF FreePart
<1>5. ASSUME NEW i \in 1 .. n PROVE h[i] = f[i] + g[i]
  <2>1. i \in Free(s, con) <=> ~Bound(s, con.terms[i].x)
    BY FreeFacts
  <2>2. CASE i \in Free(s, con)
    BY <1>2, <1>4, <2>1, <2>2 DEF BoundPart
  <2>3. CASE i \notin Free(s, con)
    <3>1. con.terms[i] \in Terms(V) /\ con.terms[i].x \in V
      BY ConFacts
    <3>2. /\ Low(s, con.terms[i]) <= h[i] /\ h[i] <= Up(s, con.terms[i])
          /\ Low(s, con.terms[i]) = Up(s, con.terms[i]) /\ Low(s, con.terms[i]) \in Int
      BY <1>3, <2>1, <2>3, <3>1, TermFacts
    <3>3. f[i] = Low(s, con.terms[i]) /\ g[i] = 0 /\ h[i] \in Int
      BY <1>2, <1>4, <2>1, <2>3 DEF BoundPart
    <3> QED
      BY <3>2, <3>3
  <2> QED
    BY <2>2, <2>3
<1>6. ValueTo(con, sol, n) = Partial(con.c, h, n) /\ BoundSum(s, con) = Partial(con.c, f, n)
  BY FreeFacts DEF ValueTo
<1> HIDE DEF f, g, h, n
<1>8. AddUp(n, f, g, h)
  BY <1>2, <1>4, <1>5 DEF AddUp
<1>7. Partial(con.c, h, n) = Partial(con.c, f, n) + Partial(0, g, n)
  BY <1>1, <1>8, PartialAdds
<1> QED
  BY <1>4, <1>6, <1>7 DEF g, n

\* With every variable bound, BoundSum is the value of the constraint.
LEMMA NoneFree ==
  ASSUME NEW V, NEW con, IsCon(V, con), NEW s, IsStore(V, s), NEW sol, \A x \in V : sol[x] \in s.dom[x],
         Free(s, con) = {}
  PROVE  ValueTo(con, sol, Len(con.terms)) = BoundSum(s, con)
<1> DEFINE n == Len(con.terms)
           g == FreePart(s, con, sol)
<1>1. n \in Nat /\ g \in [1 .. n -> Int] /\ 0 \in Int
  BY ConFacts, FreeValue
<1>6. \A i \in 1 .. n : g[i] = IF i \in {} THEN 1 ELSE 0
  BY DEF FreePart
<1>2. Counts(n, {}, 1, g)
  BY <1>1, <1>6 DEF Counts
<1> HIDE DEF g
<1>3. Partial(0, g, n) = 0 + 1 * Cardinality({})
  BY <1>1, <1>2, PartialCount
<1>4. Cardinality({}) = 0
  BY FS_EmptySet
<1>5. ValueTo(con, sol, n) = BoundSum(s, con) + Partial(0, g, n) /\ BoundSum(s, con) \in Int
  BY FreeValue, FreeFacts DEF g
<1> QED
  BY <1>3, <1>4, <1>5

\* With one free variable, BoundSum is the value but for its term.
LEMMA OneFree ==
  ASSUME NEW V, NEW con, IsCon(V, con), NEW s, IsStore(V, s), NEW sol, \A x \in V : sol[x] \in s.dom[x],
         NEW i \in 1 .. Len(con.terms), Free(s, con) = {i}
  PROVE  ValueTo(con, sol, Len(con.terms)) = BoundSum(s, con) + con.terms[i].a * sol[con.terms[i].x]
<1> DEFINE n == Len(con.terms)
           g == FreePart(s, con, sol)
<1>1. n \in Nat /\ g \in [1 .. n -> Int] /\ 0 \in Int
  BY ConFacts, FreeValue
<1>2. (\A j \in 1 .. n : j # i => g[j] = 0) /\ g[i] = con.terms[i].a * sol[con.terms[i].x]
  BY DEF FreePart
<1> HIDE DEF g
<1>3. Partial(0, g, n) = 0 + g[i] /\ g[i] \in Int
  BY <1>1, <1>2, PartialOne
<1>5. ValueTo(con, sol, n) = BoundSum(s, con) + Partial(0, g, n) /\ BoundSum(s, con) \in Int
  BY FreeValue, FreeFacts DEF g
<1> QED
  BY <1>2, <1>3, <1>5

\* With two free variables, BoundSum is the value but for their terms.
LEMMA TwoFree ==
  ASSUME NEW V, NEW con, IsCon(V, con), NEW s, IsStore(V, s), NEW sol, \A x \in V : sol[x] \in s.dom[x],
         NEW i \in 1 .. Len(con.terms), NEW j \in 1 .. Len(con.terms), i # j, Free(s, con) = {i, j}
  PROVE  ValueTo(con, sol, Len(con.terms))
           = BoundSum(s, con) + con.terms[i].a * sol[con.terms[i].x] + con.terms[j].a * sol[con.terms[j].x]
<1> DEFINE n == Len(con.terms)
           g == FreePart(s, con, sol)
           p == [k \in 1 .. n |-> IF k = i THEN g[k] ELSE 0]
           q == [k \in 1 .. n |-> IF k = j THEN g[k] ELSE 0]
<1>1. n \in Nat /\ g \in [1 .. n -> Int] /\ 0 \in Int /\ n \in 0 .. n
  BY ConFacts, FreeValue
<1>2. /\ \A k \in 1 .. n : k # i /\ k # j => g[k] = 0
      /\ g[i] = con.terms[i].a * sol[con.terms[i].x] /\ g[j] = con.terms[j].a * sol[con.terms[j].x]
  BY DEF FreePart
<1> HIDE DEF g
<1>3. /\ p \in [1 .. n -> Int] /\ q \in [1 .. n -> Int]
      /\ \A k \in 1 .. n : g[k] = p[k] + q[k]
      /\ \A k \in 1 .. n : k # i => p[k] = 0
      /\ \A k \in 1 .. n : k # j => q[k] = 0
      /\ p[i] = g[i] /\ q[j] = g[j]
  BY <1>1, <1>2
<1> HIDE DEF p, q
<1>4. Partial(0, p, n) = 0 + p[i] /\ p[i] \in Int
  BY <1>1, <1>3, PartialOne
<1>5. Partial(0, q, n) = 0 + q[j] /\ q[j] \in Int
  BY <1>1, <1>3, PartialOne
<1>6. Partial(0, g, n) = Partial(0, p, n) + Partial(0, q, n)
  <2>1. AddUp(n, p, q, g)
    BY <1>1, <1>3 DEF AddUp
  <2> HIDE DEF n
  <2> QED
    BY <1>1, <2>1, PartialAdds
<1>7. ValueTo(con, sol, n) = BoundSum(s, con) + Partial(0, g, n) /\ BoundSum(s, con) \in Int
  BY FreeValue, FreeFacts DEF g
<1> QED
  BY <1>2, <1>3, <1>4, <1>5, <1>6, <1>7

\* Boolean variables.
IsBoolean(s, con) == \A i \in 1 .. Len(con.terms) : s.dom[con.terms[i].x] \subseteq {0, 1}

\* A free boolean variable is 0 or 1.
LEMMA FreeBoolean ==
  ASSUME NEW V, NEW con, IsCon(V, con), NEW s, IsStore(V, s), IsBoolean(s, con), NEW i \in Free(s, con)
  PROVE  s.dom[con.terms[i].x] = {0, 1} /\ Min(s.dom[con.terms[i].x]) = 0 /\ Max(s.dom[con.terms[i].x]) = 1
<1> DEFINE x == con.terms[i].x
<1>1. i \in 1 .. Len(con.terms) /\ ~Bound(s, x) /\ x \in V
  BY FreeFacts, ConFacts
<1>2. s.dom[x] \subseteq {0, 1} /\ \A v : \E w \in s.dom[x] : w # v
  BY <1>1, BoundFacts DEF IsBoolean
<1>3. s.dom[x] = {0, 1}
  <2>1. \E w \in s.dom[x] : w # 0
    BY <1>2
  <2>2. \E w \in s.dom[x] : w # 1
    BY <1>2
  <2> QED
    BY <1>2, <2>1, <2>2
<1> QED
  BY <1>3, OfTwo

\* With coefficients 1 and -1 the counts of free variables give the bounds of the sum.
LEMMA BooleanBounds ==
  ASSUME NEW V, NEW con, IsCon(V, con), NEW s, IsStore(V, s), IsBoolean(s, con),
         \A i \in 1 .. Len(con.terms) : con.terms[i].a \in {1, -1}
  PROVE  /\ Cardinality(Minus(s, con)) \in Nat /\ Cardinality(Plus(s, con)) \in Nat
         /\ LowTo(s, con, Len(con.terms)) = BoundSum(s, con) - Cardinality(Minus(s, con))
         /\ UpTo(s, con, Len(con.terms)) = BoundSum(s, con) + Cardinality(Plus(s, con))
<1> DEFINE n == Len(con.terms)
           f == BoundPart(s, con)
           M == Minus(s, con)
           P == Plus(s, con)
           m == [i \in 1 .. n |-> IF i \in M THEN -1 ELSE 0]
           p == [i \in 1 .. n |-> IF i \in P THEN 1 ELSE 0]
           lows == Lows(s, con)
           ups == Ups(s, con)
<1>1. n \in Nat /\ con.c \in Int /\ n \in 0 .. n /\ 0 \in Int /\ 1 \in {1, -1} /\ -1 \in {1, -1}
  BY ConFacts
<1>2. f \in [1 .. n -> Int] /\ M \subseteq 1 .. n /\ P \subseteq 1 .. n
  BY FreeFacts
<1>3. /\ m \in [1 .. n -> Int] /\ p \in [1 .. n -> Int]
      /\ \A i \in 1 .. n : m[i] = (IF i \in M THEN -1 ELSE 0) /\ p[i] = (IF i \in P THEN 1 ELSE 0)
  OBVIOUS
<1>12. /\ lows \in [1 .. n -> Int] /\ ups \in [1 .. n -> Int]
       /\ LowTo(s, con, n) = Partial(con.c, lows, n) /\ UpTo(s, con, n) = Partial(con.c, ups, n)
  BY <1>1, SumsAre
<1>13. BoundSum(s, con) = Partial(con.c, f, n)
  BY FreeFacts
<1>4. /\ lows \in [1 .. n -> Int] /\ ups \in [1 .. n -> Int]
      /\ LowTo(s, con, n) = Partial(con.c, lows, n) /\ UpTo(s, con, n) = Partial(con.c, ups, n)
      /\ BoundSum(s, con) = Partial(con.c, f, n)
  BY <1>12, <1>13
<1>5. ASSUME NEW i \in 1 .. n
      PROVE  lows[i] = f[i] + m[i] /\ ups[i] = f[i] + p[i]
  <2>1. /\ lows[i] = Low(s, con.terms[i]) /\ ups[i] = Up(s, con.terms[i])
        /\ f[i] = IF Bound(s, con.terms[i].x) THEN Low(s, con.terms[i]) ELSE 0
    BY DEF Lows, Ups, BoundPart
  <2>2. i \in Free(s, con) <=> ~Bound(s, con.terms[i].x)
    BY FreeFacts
  <2>3. (i \in M <=> i \in Free(s, con) /\ ~ (con.terms[i].a > 0)) /\ (i \in P <=> i \in Free(s, con) /\ con.terms[i].a > 0)
    BY FreeFacts
  <2>4. con.terms[i] \in Terms(V) /\ con.terms[i].x \in V
    BY ConFacts
  <2>5. CASE i \notin Free(s, con)
    <3>1. Low(s, con.terms[i]) = Up(s, con.terms[i]) /\ Low(s, con.terms[i]) \in Int
      BY <2>2, <2>4, <2>5, TermFacts
    <3> QED
      BY <1>3, <2>1, <2>2, <2>3, <2>5, <3>1
  <2>6. CASE i \in Free(s, con)
    <3>1. Min(s.dom[con.terms[i].x]) = 0 /\ Max(s.dom[con.terms[i].x]) = 1
      BY <2>6, FreeBoolean
    <3>2. CASE con.terms[i].a = 1
      <4>1. lows[i] = 0 /\ ups[i] = 1
        BY <2>1, <3>1, <3>2 DEF Low, Up
      <4>2. f[i] = 0 /\ m[i] = 0 /\ p[i] = 1
        BY <1>3, <2>1, <2>2, <2>3, <2>6, <3>2
      <4> QED
        BY <4>1, <4>2
    <3>3. CASE con.terms[i].a = -1
      <4>1. lows[i] = -1 /\ ups[i] = 0
        BY <2>1, <3>1, <3>3 DEF Low, Up
      <4>2. f[i] = 0 /\ m[i] = -1 /\ p[i] = 0
        BY <1>3, <2>1, <2>2, <2>3, <2>6, <3>3
      <4> QED
        BY <4>1, <4>2
    <3> QED
      BY <3>2, <3>3
  <2> QED
    BY <2>5, <2>6
<1> HIDE DEF f, M, P, m, p, lows, ups, n
<1>14. \A i \in 1 .. n : m[i] = IF i \in M THEN -1 ELSE 0
  BY <1>3
<1>15. \A i \in 1 .. n : p[i] = IF i \in P THEN 1 ELSE 0
  BY <1>3
<1>17. Counts(n, M, -1, m) /\ Counts(n, P, 1, p)
  BY <1>1, <1>2, <1>3, <1>14, <1>15 DEF Counts
<1>6. Cardinality(M) \in Nat /\ Partial(0, m, n) = 0 + (-1) * Cardinality(M)
  <2> DEFINE d == -1
  <2>1. 0 \in Int /\ n \in Nat /\ Counts(n, M, d, m)
    BY <1>1, <1>17
  <2> HIDE DEF d
  <2>2. Cardinality(M) \in Nat /\ Partial(0, m, n) = 0 + d * Cardinality(M)
    BY <2>1, PartialCount
  <2> QED
    BY <2>2 DEF d
<1>7. Cardinality(P) \in Nat /\ Partial(0, p, n) = 0 + 1 * Cardinality(P)
  <2> DEFINE d == 1
  <2>1. 0 \in Int /\ n \in Nat /\ Counts(n, P, d, p)
    BY <1>1, <1>17
  <2> HIDE DEF d
  <2>2. Cardinality(P) \in Nat /\ Partial(0, p, n) = 0 + d * Cardinality(P)
    BY <2>1, PartialCount
  <2> QED
    BY <2>2 DEF d
<1>16. AddUp(n, f, m, lows) /\ AddUp(n, f, p, ups)
  BY <1>2, <1>3, <1>4, <1>5 DEF AddUp
<1>8. Partial(con.c, lows, n) = Partial(con.c, f, n) + Partial(0, m, n)
  BY <1>1, <1>16, PartialAdds
<1>9. Partial(con.c, ups, n) = Partial(con.c, f, n) + Partial(0, p, n)
  BY <1>1, <1>16, PartialAdds
<1>10. Partial(con.c, f, n) \in Int
  BY <1>13, FreeFacts
<1>11. LowTo(s, con, n) = BoundSum(s, con) - Cardinality(M) /\ UpTo(s, con, n) = BoundSum(s, con) + Cardinality(P)
  BY <1>4, <1>6, <1>7, <1>8, <1>9, <1>10
<1> QED
  BY <1>6, <1>7, <1>11 DEF n, M, P

\* Where all coefficients are negative, free boolean variables are at their highest 0.
LEMMA CapacityBounds ==
  ASSUME NEW V, NEW con, IsCon(V, con), NEW s, IsStore(V, s), IsBoolean(s, con),
         \A i \in 1 .. Len(con.terms) : con.terms[i].a < 0
  PROVE  /\ UpTo(s, con, Len(con.terms)) = BoundSum(s, con)
         /\ \A i \in Free(s, con) : Up(s, con.terms[i]) = 0
<1> DEFINE n == Len(con.terms)
           f == BoundPart(s, con)
           ups == Ups(s, con)
<1>1. n \in Nat /\ n \in 0 .. n
  BY ConFacts
<1>2. \A i \in Free(s, con) : Up(s, con.terms[i]) = 0
  <2> SUFFICES ASSUME NEW i \in Free(s, con) PROVE Up(s, con.terms[i]) = 0
    OBVIOUS
  <2>1. i \in 1 .. n
    BY FreeFacts
  <2>2. con.terms[i].a \in Int /\ con.terms[i].a < 0
    BY <2>1, ConFacts
  <2>3. Min(s.dom[con.terms[i].x]) = 0
    BY FreeBoolean
  <2> QED
    BY <2>2, <2>3 DEF Up
<1>3. ASSUME NEW i \in 1 .. n PROVE ups[i] = f[i]
  <2>1. ups[i] = Up(s, con.terms[i]) /\ f[i] = IF Bound(s, con.terms[i].x) THEN Low(s, con.terms[i]) ELSE 0
    BY DEF Ups, BoundPart
  <2>2. i \in Free(s, con) <=> ~Bound(s, con.terms[i].x)
    BY FreeFacts
  <2>3. CASE i \in Free(s, con)
    BY <1>2, <2>1, <2>2, <2>3
  <2>4. CASE i \notin Free(s, con)
    <3>1. con.terms[i] \in Terms(V)
      BY ConFacts
    <3>2. Low(s, con.terms[i]) = Up(s, con.terms[i])
      BY <2>2, <2>4, <3>1, TermFacts
    <3> QED
      BY <2>1, <2>2, <2>4, <3>2
  <2> QED
    BY <2>3, <2>4
<1>4. UpTo(s, con, n) = Partial(con.c, ups, n) /\ BoundSum(s, con) = Partial(con.c, f, n)
  BY <1>1, SumsAre, FreeFacts
<1> HIDE DEF f, ups
<1>5. Partial(con.c, ups, n) = Partial(con.c, f, n)
  BY <1>1, <1>3, PartialSame
<1> QED
  BY <1>2, <1>4, <1>5

-----------------------------------------------------------------------------
(* What a body does: it keeps every solution of what it propagates, and    *)
(* when it exits nothing else is left.                                     *)

\* The assignments that satisfy the constraint.
Sat(V, con) == {sol \in [V -> Int] : Holds(con, sol)}

\* All that the domains allow is in sat.
Entailed(V, s, sat) == \A sol \in [V -> Int] : (\A x \in V : sol[x] \in s.dom[x]) => sol \in sat

\* From s to t no assignment of sat has been lost.
Sound(V, sat, s, t) ==
  /\ Follows(V, s, t)
  /\ \A sol \in [V -> Int] : Admits(V, s, sol) /\ sol \in sat => Admits(V, t, sol)

\* The agent of the constraint with the solutions sat, which depends on the variables xs.
BodyOf(V, xs, sat, s, r) ==
  /\ Sound(V, sat, s, r.s)
  /\ r.todo = <<>> /\ r.exit \in BOOLEAN
  /\ r.s.state = "ok" /\ (r.exit \/ \A x \in xs : Bound(s, x)) => Entailed(V, r.s, sat)

\* The assignments that satisfy a constraint, in terms of the sum of all terms.
LEMMA SatIs ==
  ASSUME NEW V, NEW con, IsCon(V, con), NEW sol \in [V -> Int]
  PROVE  sol \in Sat(V, con) <=> IF con.rel = "eq" THEN ValueTo(con, sol, Len(con.terms)) = 0
                                 ELSE ValueTo(con, sol, Len(con.terms)) >= 0
BY HoldsIs DEF Sat

\* Doing nothing is sound.
LEMMA SoundSelf ==
  ASSUME NEW V, NEW sat, NEW s, IsStore(V, s)
  PROVE  Sound(V, sat, s, s)
BY FollowsSelf DEF Sound

\* Failing is sound when no solution is left.
LEMMA SoundFailed ==
  ASSUME NEW V, NEW sat, NEW s, IsStore(V, s),
         \A sol \in [V -> Int] : (\A x \in V : sol[x] \in s.dom[x]) => sol \notin sat
  PROVE  Sound(V, sat, s, Failed(s)) /\ Failed(s).state # "ok"
BY FailedFacts DEF Sound, Admits

\* What is entailed stays so when domains shrink.
LEMMA EntailedStays ==
  ASSUME NEW V, NEW sat, NEW s, NEW t, Follows(V, s, t), Entailed(V, s, sat)
  PROVE  Entailed(V, t, sat)
BY DEF Entailed, Follows

\* When the variables of a constraint are bound, its lowest value is its highest.
LEMMA AllBound ==
  ASSUME NEW V, NEW con, IsCon(V, con), NEW s, IsStore(V, s), \A x \in VarsOf(con) : Bound(s, x)
  PROVE  /\ LowTo(s, con, Len(con.terms)) = UpTo(s, con, Len(con.terms))
         /\ Free(s, con) = {}
<1> DEFINE n == Len(con.terms)
           f == Lows(s, con)
           g == Ups(s, con)
<1>1. n \in Nat /\ DOMAIN con.terms = 1 .. n /\ n \in 0 .. n
  BY ConFacts
<1>2. \A i \in 1 .. n : Bound(s, con.terms[i].x)
  BY <1>1 DEF VarsOf
<1>3. \A i \in 1 .. n : f[i] = g[i]
  <2> SUFFICES ASSUME NEW i \in 1 .. n PROVE f[i] = g[i]
    OBVIOUS
  <2>1. con.terms[i] \in Terms(V)
    BY ConFacts
  <2>2. Low(s, con.terms[i]) = Up(s, con.terms[i])
    BY <1>2, <2>1, TermFacts
  <2> QED
    BY <2>2 DEF Lows, Ups
<1>4. LowTo(s, con, n) = Partial(con.c, f, n) /\ UpTo(s, con, n) = Partial(con.c, g, n)
  BY <1>1, SumsAre
<1> HIDE DEF f, g
<1>5. Partial(con.c, f, n) = Partial(con.c, g, n)
  BY <1>1, <1>3, PartialSame
<1>6. Free(s, con) = {}
  BY <1>1, <1>2, FreeFacts
<1> QED
  BY <1>4, <1>5, <1>6

\* nary_interval_consistent_eq
LEMMA IntervalEqBody ==
  ASSUME NEW V, NEW con, IsCon(V, con), con.rel = "eq", NEW s, IsStore(V, s), NEW seed \in Nat,
         Free(s, con) # {}
  PROVE  BodyOf(V, VarsOf(con), Sat(V, con), s, IntervalEq(s, con, seed))
<1> DEFINE r == IntervalEq(s, con, seed)
<1>1. /\ Follows(V, s, r.s) /\ r.exit = FALSE /\ r.todo = <<>>
      /\ \A sol : Admits(V, s, sol) /\ ValueTo(con, sol, Len(con.terms)) = 0 => Admits(V, r.s, sol)
  BY IntervalEqFacts
<1> SUFFICES BodyOf(V, VarsOf(con), Sat(V, con), s, r)
  OBVIOUS
<1> HIDE DEF r
<1>2. Sound(V, Sat(V, con), s, r.s)
  <2>1. \A sol \in [V -> Int] : sol \in Sat(V, con) => ValueTo(con, sol, Len(con.terms)) = 0
    BY SatIs
  <2> QED
    BY <1>1, <2>1 DEF Sound
<1>3. ~ \A x \in VarsOf(con) : Bound(s, x)
  BY AllBound
<1> QED
  BY <1>1, <1>2, <1>3 DEF BodyOf

\* nary_interval_consistent_ge
LEMMA IntervalGeBody ==
  ASSUME NEW V, NEW con, IsCon(V, con), con.rel = "ge", NEW s, IsStore(V, s), NEW seed \in Nat
  PROVE  BodyOf(V, VarsOf(con), Sat(V, con), s, IntervalGe(s, con, seed))
<1> DEFINE n == Len(con.terms)
           sat == Sat(V, con)
           r == IntervalGe(s, con, seed)
<1>1. n \in 0 .. n
  BY ConFacts
<1>2. \A sol \in [V -> Int] : sol \in sat <=> ValueTo(con, sol, n) >= 0
  BY SatIs
<1>3. \A sol \in [V -> Int] : (\A x \in V : sol[x] \in s.dom[x])
        => /\ LowTo(s, con, n) \in Int /\ UpTo(s, con, n) \in Int /\ ValueTo(con, sol, n) \in Int
           /\ LowTo(s, con, n) <= ValueTo(con, sol, n) /\ ValueTo(con, sol, n) <= UpTo(s, con, n)
  BY <1>1, ValueBetween
<1> HIDE DEF sat
<1>4. CASE LowTo(s, con, n) >= 0
  <2>1. r.s = s /\ r.exit = TRUE /\ r.todo = <<>>
    BY <1>4 DEF IntervalGe, Result
  <2>2. Entailed(V, s, sat)
    BY <1>2, <1>3, <1>4 DEF Entailed
  <2> QED
    BY <2>1, <2>2, SoundSelf DEF BodyOf, sat
<1>5. CASE ~ (LowTo(s, con, n) >= 0) /\ UpTo(s, con, n) < 0
  <2>1. r.s = Failed(s) /\ r.exit = FALSE /\ r.todo = <<>>
    BY <1>5 DEF IntervalGe, Result
  <2>2. \A sol \in [V -> Int] : (\A x \in V : sol[x] \in s.dom[x]) => sol \notin sat
    BY <1>2, <1>3, <1>5
  <2>3. Sound(V, sat, s, Failed(s)) /\ Failed(s).state # "ok"
    BY <2>2, SoundFailed
  <2> QED
    BY <2>1, <2>3 DEF BodyOf, sat
<1>6. CASE ~ (LowTo(s, con, n) >= 0) /\ ~ (UpTo(s, con, n) < 0)
  <2>1. r.s = ReducedGe(s, con, seed) /\ r.exit = FALSE /\ r.todo = <<>>
    BY <1>6 DEF IntervalGe, Result
  <2>2. /\ Follows(V, s, r.s)
        /\ \A sol : Admits(V, s, sol) /\ ValueTo(con, sol, n) >= 0 => Admits(V, r.s, sol)
    BY <2>1, ReducedGeFacts
  <2>3. ~ \A x \in VarsOf(con) : Bound(s, x)
    <3>1. LowTo(s, con, n) \in Int /\ UpTo(s, con, n) \in Int
      <4> DEFINE w == [x \in V |-> Min(s.dom[x])]
      <4>1. w \in [V -> Int] /\ \A x \in V : w[x] \in s.dom[x]
        BY StoreFacts
      <4> QED
        BY <1>3, <4>1
    <3>2. LowTo(s, con, n) # UpTo(s, con, n)
      BY <1>6, <3>1
    <3> QED
      BY <3>2, AllBound
  <2>4. Sound(V, sat, s, r.s)
    BY <1>2, <2>2 DEF Sound
  <2> QED
    BY <2>1, <2>3, <2>4 DEF BodyOf, sat
<1> QED
  BY <1>4, <1>5, <1>6

-----------------------------------------------------------------------------
(* The bodies for boolean variables.                                       *)

\* The free variables are 1 at the indices ones, and 0 at the others.
AreOnes(s, con, ones, sol) ==
  \A i \in 1 .. Len(con.terms) : i \in Free(s, con) => sol[con.terms[i].x] = IF i \in ones THEN 1 ELSE 0

IsUnits(con) == \A i \in 1 .. Len(con.terms) : con.terms[i].a \in {1, -1}

\* The value is the lowest exactly when the terms that subtract are 1.
LEMMA AtLow ==
  ASSUME NEW V, NEW con, IsCon(V, con), NEW s, IsStore(V, s), IsBoolean(s, con), IsUnits(con),
         NEW sol, \A x \in V : sol[x] \in s.dom[x]
  PROVE  ValueTo(con, sol, Len(con.terms)) = LowTo(s, con, Len(con.terms)) <=> AreOnes(s, con, Minus(s, con), sol)
<1> DEFINE n == Len(con.terms)
           here(i) == con.terms[i].a * sol[con.terms[i].x]
<1>1. n \in Nat /\ n \in 0 .. n
  BY ConFacts
<1>2. /\ LowTo(s, con, n) \in Int /\ ValueTo(con, sol, n) \in Int
      /\ \A i \in 1 .. n : here(i) - Low(s, con.terms[i]) <= ValueTo(con, sol, n) - LowTo(s, con, n)
  BY <1>1, ValueBetween
<1>3. ASSUME NEW i \in 1 .. n
      PROVE  /\ Low(s, con.terms[i]) \in Int /\ here(i) \in Int /\ Low(s, con.terms[i]) <= here(i)
             /\ i \notin Free(s, con) => here(i) = Low(s, con.terms[i])
             /\ i \in Free(s, con) =>
                  (here(i) = Low(s, con.terms[i]) <=> sol[con.terms[i].x] = IF i \in Minus(s, con) THEN 1 ELSE 0)
  <2>1. con.terms[i] \in Terms(V) /\ con.terms[i].x \in V
    BY ConFacts
  <2>2. i \in Free(s, con) <=> ~Bound(s, con.terms[i].x)
    BY FreeFacts
  <2>3. /\ Low(s, con.terms[i]) \in Int /\ Up(s, con.terms[i]) \in Int /\ here(i) \in Int
        /\ Low(s, con.terms[i]) <= here(i) /\ here(i) <= Up(s, con.terms[i])
        /\ Bound(s, con.terms[i].x) => Low(s, con.terms[i]) = Up(s, con.terms[i])
    BY <2>1, TermFacts
  <2>4. i \notin Free(s, con) => here(i) = Low(s, con.terms[i])
    BY <2>2, <2>3
  <2>5. ASSUME i \in Free(s, con)
        PROVE  here(i) = Low(s, con.terms[i]) <=> sol[con.terms[i].x] = IF i \in Minus(s, con) THEN 1 ELSE 0
    <3>1. Min(s.dom[con.terms[i].x]) = 0 /\ Max(s.dom[con.terms[i].x]) = 1
      BY <2>5, FreeBoolean
    <3>2. sol[con.terms[i].x] \in {0, 1}
      BY <2>1 DEF IsBoolean
    <3>3. i \in Minus(s, con) <=> ~ (con.terms[i].a > 0)
      BY <2>5, FreeFacts
    <3>4. CASE con.terms[i].a = 1
      BY <3>1, <3>2, <3>3, <3>4 DEF Low
    <3>5. CASE con.terms[i].a = -1
      BY <3>1, <3>2, <3>3, <3>5 DEF Low
    <3> QED
      BY <3>4, <3>5 DEF IsUnits
  <2> QED
    BY <2>3, <2>4, <2>5
<1>4. ASSUME ValueTo(con, sol, n) = LowTo(s, con, n)
      PROVE  AreOnes(s, con, Minus(s, con), sol)
  <2>1. \A i \in 1 .. n : here(i) = Low(s, con.terms[i])
    <3> SUFFICES ASSUME NEW i \in 1 .. n PROVE here(i) = Low(s, con.terms[i])
      OBVIOUS
    <3>1. here(i) - Low(s, con.terms[i]) <= 0
      BY <1>2, <1>4
    <3>2. Low(s, con.terms[i]) \in Int /\ here(i) \in Int /\ Low(s, con.terms[i]) <= here(i)
      BY <1>3
    <3> QED
      BY <3>1, <3>2
  <2> QED
    BY <1>3, <2>1 DEF AreOnes
<1>5. ASSUME AreOnes(s, con, Minus(s, con), sol)
      PROVE  ValueTo(con, sol, n) = LowTo(s, con, n)
  <2> DEFINE f == Lefts(con, sol)
             g == Lows(s, con)
  <2>1. \A i \in 1 .. n : f[i] = g[i]
    BY <1>3, <1>5 DEF AreOnes, Lefts, Lows
  <2>2. LowTo(s, con, n) = Partial(con.c, g, n)
    BY <1>1, SumsAre
  <2> HIDE DEF f, g
  <2>3. Partial(con.c, f, n) = Partial(con.c, g, n)
    BY <1>1, <2>1, PartialSame
  <2> QED
    BY <2>2, <2>3 DEF ValueTo, f
<1> QED
  BY <1>4, <1>5

\* The value is the highest exactly when the terms that add are 1.
LEMMA AtUp ==
  ASSUME NEW V, NEW con, IsCon(V, con), NEW s, IsStore(V, s), IsBoolean(s, con), IsUnits(con),
         NEW sol, \A x \in V : sol[x] \in s.dom[x]
  PROVE  ValueTo(con, sol, Len(con.terms)) = UpTo(s, con, Len(con.terms)) <=> AreOnes(s, con, Plus(s, con), sol)
<1> DEFINE n == Len(con.terms)
           here(i) == con.terms[i].a * sol[con.terms[i].x]
<1>1. n \in Nat /\ n \in 0 .. n
  BY ConFacts
<1>2. /\ UpTo(s, con, n) \in Int /\ ValueTo(con, sol, n) \in Int
      /\ \A i \in 1 .. n : Up(s, con.terms[i]) - here(i) <= UpTo(s, con, n) - ValueTo(con, sol, n)
  BY <1>1, ValueBetween
<1>3. ASSUME NEW i \in 1 .. n
      PROVE  /\ Up(s, con.terms[i]) \in Int /\ here(i) \in Int /\ here(i) <= Up(s, con.terms[i])
             /\ i \notin Free(s, con) => here(i) = Up(s, con.terms[i])
             /\ i \in Free(s, con) =>
                  (here(i) = Up(s, con.terms[i]) <=> sol[con.terms[i].x] = IF i \in Plus(s, con) THEN 1 ELSE 0)
  <2>1. con.terms[i] \in Terms(V) /\ con.terms[i].x \in V
    BY ConFacts
  <2>2. i \in Free(s, con) <=> ~Bound(s, con.terms[i].x)
    BY FreeFacts
  <2>3. /\ Low(s, con.terms[i]) \in Int /\ Up(s, con.terms[i]) \in Int /\ here(i) \in Int
        /\ Low(s, con.terms[i]) <= here(i) /\ here(i) <= Up(s, con.terms[i])
        /\ Bound(s, con.terms[i].x) => Low(s, con.terms[i]) = Up(s, con.terms[i])
    BY <2>1, TermFacts
  <2>4. i \notin Free(s, con) => here(i) = Up(s, con.terms[i])
    BY <2>2, <2>3
  <2>5. ASSUME i \in Free(s, con)
        PROVE  here(i) = Up(s, con.terms[i]) <=> sol[con.terms[i].x] = IF i \in Plus(s, con) THEN 1 ELSE 0
    <3>1. Min(s.dom[con.terms[i].x]) = 0 /\ Max(s.dom[con.terms[i].x]) = 1
      BY <2>5, FreeBoolean
    <3>2. sol[con.terms[i].x] \in {0, 1}
      BY <2>1 DEF IsBoolean
    <3>3. i \in Plus(s, con) <=> con.terms[i].a > 0
      BY <2>5, FreeFacts
    <3>4. CASE con.terms[i].a = 1
      BY <3>1, <3>2, <3>3, <3>4 DEF Up
    <3>5. CASE con.terms[i].a = -1
      BY <3>1, <3>2, <3>3, <3>5 DEF Up
    <3> QED
      BY <3>4, <3>5 DEF IsUnits
  <2> QED
    BY <2>3, <2>4, <2>5
<1>4. ASSUME ValueTo(con, sol, n) = UpTo(s, con, n)
      PROVE  AreOnes(s, con, Plus(s, con), sol)
  <2>1. \A i \in 1 .. n : here(i) = Up(s, con.terms[i])
    <3> SUFFICES ASSUME NEW i \in 1 .. n PROVE here(i) = Up(s, con.terms[i])
      OBVIOUS
    <3>1. Up(s, con.terms[i]) - here(i) <= 0
      BY <1>2, <1>4
    <3>2. Up(s, con.terms[i]) \in Int /\ here(i) \in Int /\ here(i) <= Up(s, con.terms[i])
      BY <1>3
    <3> QED
      BY <3>1, <3>2
  <2> QED
    BY <1>3, <2>1 DEF AreOnes
<1>5. ASSUME AreOnes(s, con, Plus(s, con), sol)
      PROVE  ValueTo(con, sol, n) = UpTo(s, con, n)
  <2> DEFINE f == Lefts(con, sol)
             g == Ups(s, con)
  <2>1. \A i \in 1 .. n : f[i] = g[i]
    BY <1>3, <1>5 DEF AreOnes, Lefts, Ups
  <2>2. UpTo(s, con, n) = Partial(con.c, g, n)
    BY <1>1, SumsAre
  <2> HIDE DEF f, g
  <2>3. Partial(con.c, f, n) = Partial(con.c, g, n)
    BY <1>1, <2>1, PartialSame
  <2> QED
    BY <2>2, <2>3 DEF ValueTo, f
<1> QED
  BY <1>4, <1>5

\* Binding all free variables leaves exactly the assignments that agree.
LEMMA BindAllFacts ==
  ASSUME NEW V, NEW con, IsCon(V, con), NEW s, IsStore(V, s), IsBoolean(s, con), NEW ones
  PROVE  /\ Follows(V, s, BindAll(s, con, ones))
         /\ \A sol : Admits(V, s, sol) /\ AreOnes(s, con, ones, sol) => Admits(V, BindAll(s, con, ones), sol)
         /\ \A sol : (\A x \in V : sol[x] \in BindAll(s, con, ones).dom[x]) => AreOnes(s, con, ones, sol)
<1> DEFINE n == Len(con.terms)
           steps == [i \in DOMAIN con.terms |-> Assign(con.terms[i].x, IF i \in ones THEN 1 ELSE 0)]
           t == BindAll(s, con, ones)
<1> DEFINE one(i) == IF i \in ones THEN 1 ELSE 0
<1>1. n \in Nat /\ DOMAIN con.terms = 1 .. n /\ \A i \in 1 .. n : con.terms[i].x \in V
  BY ConFacts
<1>13. \A i \in 1 .. n : one(i) \in Int
  OBVIOUS
<1>14. steps = [i \in 1 .. n |-> Assign(con.terms[i].x, one(i))]
  BY <1>1
<1>15. \A i \in 1 .. n : one(i) = IF i \in ones THEN 1 ELSE 0
  OBVIOUS
<1>5. t = DoAll(s, steps)
  BY DEF BindAll
<1> HIDE DEF one, steps
<1>2. \A i \in 1 .. n : steps[i] = [x |-> con.terms[i].x, v |-> one(i), out |-> FALSE]
  BY <1>14 DEF Assign
<1>3. steps \in Seq(Steps(V)) /\ Len(steps) = n
  <2>1. \A i \in 1 .. n : Assign(con.terms[i].x, one(i)) \in Steps(V)
    BY <1>1, <1>13 DEF Steps, Assign
  <2> QED
    BY <1>1, <1>14, <2>1
<1>16. \A i \in 1 .. n : steps[i].x = con.terms[i].x /\ steps[i].out = FALSE /\ steps[i].v = one(i)
  <2> SUFFICES ASSUME NEW i \in 1 .. n
               PROVE  steps[i].x = con.terms[i].x /\ steps[i].out = FALSE /\ steps[i].v = one(i)
    OBVIOUS
  <2>1. steps[i] = [x |-> con.terms[i].x, v |-> one(i), out |-> FALSE]
    BY <1>2
  <2> QED
    BY <2>1
<1>4. /\ \A i \in 1 .. n : steps[i].x = con.terms[i].x /\ steps[i].out = FALSE
      /\ \A i \in 1 .. n : steps[i].v = IF i \in ones THEN 1 ELSE 0
  BY <1>15, <1>16
<1> SUFFICES /\ Follows(V, s, t)
             /\ \A sol : Admits(V, s, sol) /\ AreOnes(s, con, ones, sol) => Admits(V, t, sol)
             /\ \A sol : (\A x \in V : sol[x] \in t.dom[x]) => AreOnes(s, con, ones, sol)
  OBVIOUS
<1> HIDE DEF t
<1>6. \A i \in 1 .. Len(steps) : Fits(s, steps[i])
  <2> SUFFICES ASSUME NEW i \in 1 .. n, ~Bound(s, con.terms[i].x)
               PROVE  s.dom[con.terms[i].x] = {0, 1}
    BY <1>3, <1>4 DEF Fits
  <2>1. i \in Free(s, con)
    BY FreeFacts
  <2> QED
    BY <2>1, FreeBoolean
<1>7. DoneAll(V, s, steps, t)
  BY <1>3, <1>5, <1>6, DoAllFacts
<1>8. \A i, j \in 1 .. Len(steps) : steps[i].x = steps[j].x => i = j
  BY <1>3, <1>4 DEF IsCon
<1>9. /\ Follows(V, s, t)
      /\ \A sol : Admits(V, s, sol) /\ (\A i \in 1 .. n : Suits(s, steps[i], sol)) => Admits(V, t, sol)
      /\ \A i \in 1 .. n : ~Bound(s, con.terms[i].x) => t.dom[con.terms[i].x] = {steps[i].v}
  BY <1>3, <1>4, <1>7, <1>8 DEF DoneAll
<1>10. \A i \in 1 .. n : i \in Free(s, con) <=> ~Bound(s, con.terms[i].x)
  BY FreeFacts
<1>11. \A sol : AreOnes(s, con, ones, sol) => \A i \in 1 .. n : Suits(s, steps[i], sol)
  BY <1>4, <1>10 DEF AreOnes, Suits
<1>12. ASSUME NEW sol, \A x \in V : sol[x] \in t.dom[x] PROVE AreOnes(s, con, ones, sol)
  <2>1. \A i \in 1 .. n : i \in Free(s, con) => sol[con.terms[i].x] \in {steps[i].v}
    BY <1>1, <1>9, <1>10, <1>12
  <2> QED
    BY <1>4, <2>1 DEF AreOnes
<1> QED
  BY <1>9, <1>11, <1>12

\* Binding the free variables is all that is left when the solutions are what it leaves.
LEMMA BindAllBody ==
  ASSUME NEW V, NEW con, IsCon(V, con), NEW s, IsStore(V, s), IsBoolean(s, con), NEW ones, NEW xs, NEW sat,
         \A sol \in [V -> Int] : (\A x \in V : sol[x] \in s.dom[x]) => (sol \in sat <=> AreOnes(s, con, ones, sol))
  PROVE  BodyOf(V, xs, sat, s, Result(BindAll(s, con, ones), TRUE))
<1> DEFINE t == BindAll(s, con, ones)
<1>1. /\ Follows(V, s, t)
      /\ \A sol : Admits(V, s, sol) /\ AreOnes(s, con, ones, sol) => Admits(V, t, sol)
      /\ \A sol : (\A x \in V : sol[x] \in t.dom[x]) => AreOnes(s, con, ones, sol)
  BY BindAllFacts
<1>4. \A x \in V : t.dom[x] \subseteq s.dom[x]
  BY <1>1 DEF Follows
<1> HIDE DEF t
<1>2. Sound(V, sat, s, t)
  BY <1>1 DEF Sound, Admits
<1>3. Entailed(V, t, sat)
  BY <1>1, <1>4 DEF Entailed
<1> QED
  BY <1>2, <1>3 DEF BodyOf, Result, t

\* A body that finds no solution left fails.
LEMMA FailedBody ==
  ASSUME NEW V, NEW s, IsStore(V, s), NEW xs, NEW sat, NEW exit \in BOOLEAN,
         \A sol \in [V -> Int] : (\A x \in V : sol[x] \in s.dom[x]) => sol \notin sat
  PROVE  BodyOf(V, xs, sat, s, Result(Failed(s), exit))
<1>1. Sound(V, sat, s, Failed(s)) /\ Failed(s).state # "ok"
  BY SoundFailed
<1> HIDE DEF Failed
<1> QED
  BY <1>1 DEF BodyOf, Result

\* A body that finds nothing to be done, and says whether anything may be left.
LEMMA IdleBody ==
  ASSUME NEW V, NEW s, IsStore(V, s), NEW xs, NEW sat, NEW exit \in BOOLEAN,
         exit \/ (\A x \in xs : Bound(s, x)) => Entailed(V, s, sat)
  PROVE  BodyOf(V, xs, sat, s, Result(s, exit))
BY SoundSelf DEF BodyOf, Result

\* The value of every assignment that the domains allow.
InRange(V, con, s) ==
  /\ LowTo(s, con, Len(con.terms)) \in Int /\ UpTo(s, con, Len(con.terms)) \in Int
  /\ \A sol \in [V -> Int] : (\A x \in V : sol[x] \in s.dom[x])
       => /\ ValueTo(con, sol, Len(con.terms)) \in Int
          /\ LowTo(s, con, Len(con.terms)) <= ValueTo(con, sol, Len(con.terms))
          /\ ValueTo(con, sol, Len(con.terms)) <= UpTo(s, con, Len(con.terms))

\* Every assignment within the domains has a value between the bounds of the sum.
LEMMA InRangeFacts ==
  ASSUME NEW V, NEW con, IsCon(V, con), NEW s, IsStore(V, s)
  PROVE  InRange(V, con, s)
<1> DEFINE n == Len(con.terms)
           w == [x \in V |-> Min(s.dom[x])]
<1>1. n \in 0 .. n
  BY ConFacts
<1>2. \A sol : (\A x \in V : sol[x] \in s.dom[x])
        => /\ LowTo(s, con, n) \in Int /\ UpTo(s, con, n) \in Int /\ ValueTo(con, sol, n) \in Int
           /\ LowTo(s, con, n) <= ValueTo(con, sol, n) /\ ValueTo(con, sol, n) <= UpTo(s, con, n)
  BY <1>1, ValueBetween
<1>3. \A x \in V : w[x] \in s.dom[x]
  BY StoreFacts
<1> HIDE DEF w
<1> QED
  BY <1>2, <1>3 DEF InRange

\* bool_sum_eq and the like: sums of booleans that equal 0
LEMMA BooleanEqBody ==
  ASSUME NEW V, NEW con, IsCon(V, con), con.rel = "eq", NEW s, IsStore(V, s), IsBoolean(s, con), IsUnits(con)
  PROVE  BodyOf(V, VarsOf(con), Sat(V, con), s, BooleanEq(s, con))
<1> DEFINE n == Len(con.terms)
           sat == Sat(V, con)
           xs == VarsOf(con)
           v == BoundSum(s, con)
           P == Cardinality(Plus(s, con))
           M == Cardinality(Minus(s, con))
           low == LowTo(s, con, n)
           up == UpTo(s, con, n)
           r == BooleanEq(s, con)
<1>1. P \in Nat /\ M \in Nat /\ v \in Int /\ low = v - M /\ up = v + P
  <2>1. \A i \in 1 .. Len(con.terms) : con.terms[i].a \in {1, -1}
    BY DEF IsUnits
  <2> QED
    BY <2>1, BooleanBounds, FreeFacts
<1>2. \A sol \in [V -> Int] : sol \in sat <=> ValueTo(con, sol, n) = 0
  BY SatIs
<1>3. /\ low \in Int /\ up \in Int
      /\ \A sol \in [V -> Int] : (\A x \in V : sol[x] \in s.dom[x])
           => ValueTo(con, sol, n) \in Int /\ low <= ValueTo(con, sol, n) /\ ValueTo(con, sol, n) <= up
  BY InRangeFacts DEF InRange
<1>4. \A sol \in [V -> Int] : (\A x \in V : sol[x] \in s.dom[x])
        => /\ ValueTo(con, sol, n) = low <=> AreOnes(s, con, Minus(s, con), sol)
           /\ ValueTo(con, sol, n) = up <=> AreOnes(s, con, Plus(s, con), sol)
  BY AtLow, AtUp
<1>5. (\A x \in xs : Bound(s, x)) => low = up
  BY AllBound
<1>6. r = IF v >= M
          THEN IF v > M THEN Result(Failed(s), FALSE) ELSE Result(BindAll(s, con, Minus(s, con)), TRUE)
          ELSE IF v <= -P
          THEN IF v < -P THEN Result(Failed(s), FALSE) ELSE Result(BindAll(s, con, Plus(s, con)), TRUE)
          ELSE Result(s, FALSE)
  BY DEF BooleanEq
<1> SUFFICES BodyOf(V, xs, sat, s, r)
  OBVIOUS
<1> HIDE DEF n, sat, xs, v, P, M, low, up, r
<1>7. CASE v > M \/ v < -P
  <2>1. \A sol \in [V -> Int] : (\A x \in V : sol[x] \in s.dom[x]) => sol \notin sat
    BY <1>1, <1>2, <1>3, <1>7
  <2>2. r = Result(Failed(s), FALSE)
    <3>1. (v >= M /\ v > M) \/ (~ (v >= M) /\ v <= -P /\ v < -P)
      BY <1>1, <1>3, <1>7
    <3> QED
      BY <1>6, <3>1, Zenon
  <2> QED
    BY <2>1, <2>2, FailedBody
<1>8. CASE v = M
  <2>1. \A sol \in [V -> Int] : (\A x \in V : sol[x] \in s.dom[x])
          => (sol \in sat <=> AreOnes(s, con, Minus(s, con), sol))
    BY <1>1, <1>2, <1>4, <1>8
  <2>2. r = Result(BindAll(s, con, Minus(s, con)), TRUE)
    <3>1. v >= M /\ ~ (v > M)
      BY <1>1, <1>3, <1>8
    <3> QED
      BY <1>6, <3>1, Zenon
  <2> QED
    BY <2>1, <2>2, BindAllBody
<1>9. CASE v = -P /\ v # M
  <2>1. \A sol \in [V -> Int] : (\A x \in V : sol[x] \in s.dom[x])
          => (sol \in sat <=> AreOnes(s, con, Plus(s, con), sol))
    BY <1>1, <1>2, <1>4, <1>9
  <2>2. r = Result(BindAll(s, con, Plus(s, con)), TRUE)
    <3>1. ~ (v >= M) /\ v <= -P /\ ~ (v < -P)
      BY <1>1, <1>3, <1>9
    <3> QED
      BY <1>6, <3>1, Zenon
  <2> QED
    BY <2>1, <2>2, BindAllBody
<1>10. CASE v < M /\ v > -P
  <2>1. r = Result(s, FALSE)
    <3>1. ~ (v >= M) /\ ~ (v <= -P)
      BY <1>1, <1>10
    <3> QED
      BY <1>6, <3>1, Zenon
  <2>2. ~ \A x \in xs : Bound(s, x)
    BY <1>1, <1>5, <1>10
  <2> QED
    BY <2>1, <2>2, IdleBody
<1> QED
  BY <1>1, <1>7, <1>8, <1>9, <1>10

\* The body for sums of booleans with one sign.
LEMMA BooleanSumGeBody ==
  ASSUME NEW V, NEW con, IsCon(V, con), con.rel = "ge", NEW s, IsStore(V, s), IsBoolean(s, con), IsUnits(con)
  PROVE  BodyOf(V, VarsOf(con), Sat(V, con), s, BooleanSumGe(s, con))
<1> DEFINE n == Len(con.terms)
           sat == Sat(V, con)
           xs == VarsOf(con)
           v == BoundSum(s, con)
           P == Cardinality(Plus(s, con))
           M == Cardinality(Minus(s, con))
           low == LowTo(s, con, n)
           up == UpTo(s, con, n)
           r == BooleanSumGe(s, con)
<1>1. P \in Nat /\ M \in Nat /\ v \in Int /\ low = v - M /\ up = v + P
  <2>1. \A i \in 1 .. Len(con.terms) : con.terms[i].a \in {1, -1}
    BY DEF IsUnits
  <2> QED
    BY <2>1, BooleanBounds, FreeFacts
<1>2. \A sol \in [V -> Int] : sol \in sat <=> ValueTo(con, sol, n) >= 0
  BY SatIs
<1>3. /\ low \in Int /\ up \in Int
      /\ \A sol \in [V -> Int] : (\A x \in V : sol[x] \in s.dom[x])
           => ValueTo(con, sol, n) \in Int /\ low <= ValueTo(con, sol, n) /\ ValueTo(con, sol, n) <= up
  BY InRangeFacts DEF InRange
<1>4. \A sol \in [V -> Int] : (\A x \in V : sol[x] \in s.dom[x])
        => (ValueTo(con, sol, n) = up <=> AreOnes(s, con, Plus(s, con), sol))
  BY AtUp
<1>5. (\A x \in xs : Bound(s, x)) => low = up
  BY AllBound
<1>6. r = IF v - M >= 0 THEN Result(s, TRUE)
          ELSE IF v + P < 0 THEN Result(Failed(s), FALSE)
          ELSE IF v + P = 0 THEN Result(BindAll(s, con, Plus(s, con)), TRUE)
          ELSE Result(s, FALSE)
  BY DEF BooleanSumGe
<1> SUFFICES BodyOf(V, xs, sat, s, r)
  OBVIOUS
<1> HIDE DEF n, sat, xs, v, P, M, low, up, r
<1>7. CASE low >= 0
  <2>1. Entailed(V, s, sat)
    BY <1>2, <1>3, <1>7 DEF Entailed
  <2>2. r = Result(s, TRUE)
    BY <1>1, <1>6, <1>7
  <2> QED
    BY <2>1, <2>2, IdleBody
<1>8. CASE low < 0 /\ up < 0
  <2>1. \A sol \in [V -> Int] : (\A x \in V : sol[x] \in s.dom[x]) => sol \notin sat
    BY <1>2, <1>3, <1>8
  <2>2. r = Result(Failed(s), FALSE)
    <3>1. ~ (v - M >= 0) /\ v + P < 0
      BY <1>1, <1>3, <1>8
    <3> QED
      BY <1>6, <3>1, Zenon
  <2> QED
    BY <2>1, <2>2, FailedBody
<1>9. CASE low < 0 /\ up = 0
  <2>1. \A sol \in [V -> Int] : (\A x \in V : sol[x] \in s.dom[x])
          => (sol \in sat <=> AreOnes(s, con, Plus(s, con), sol))
    BY <1>2, <1>3, <1>4, <1>9
  <2>2. r = Result(BindAll(s, con, Plus(s, con)), TRUE)
    <3>1. ~ (v - M >= 0) /\ ~ (v + P < 0) /\ v + P = 0
      BY <1>1, <1>3, <1>9
    <3> QED
      BY <1>6, <3>1, Zenon
  <2> QED
    BY <2>1, <2>2, BindAllBody
<1>10. CASE low < 0 /\ up > 0
  <2>1. r = Result(s, FALSE)
    <3>1. ~ (v - M >= 0) /\ ~ (v + P < 0) /\ ~ (v + P = 0)
      BY <1>1, <1>3, <1>10
    <3> QED
      BY <1>6, <3>1, Zenon
  <2>2. ~ \A x \in xs : Bound(s, x)
    BY <1>3, <1>5, <1>10
  <2> QED
    BY <2>1, <2>2, IdleBody
<1> QED
  BY <1>3, <1>7, <1>8, <1>9, <1>10

\* What would exceed the capacity is 0 in every solution.
LEMMA CapacityGeBody ==
  ASSUME NEW V, NEW con, IsCon(V, con), con.rel = "ge", NEW s, IsStore(V, s), IsBoolean(s, con),
         \A i \in 1 .. Len(con.terms) : con.terms[i].a < 0
  PROVE  BodyOf(V, VarsOf(con), Sat(V, con), s, CapacityGe(s, con))
<1> DEFINE n == Len(con.terms)
           sat == Sat(V, con)
           xs == VarsOf(con)
           v == BoundSum(s, con)
           big == {i \in Free(s, con) : v + con.terms[i].a < 0}
           all == [i \in DOMAIN con.terms |-> i]
           over == Kept(all, big)
           step(k) == Assign(con.terms[over[k]].x, 0)
           steps == [k \in DOMAIN over |-> step(k)]
           r == CapacityGe(s, con)
<1>1. n \in Nat /\ DOMAIN con.terms = 1 .. n /\ n \in 0 .. n /\ v \in Int
  BY ConFacts, FreeFacts
<1>2. UpTo(s, con, n) = v /\ \A i \in Free(s, con) : Up(s, con.terms[i]) = 0
  BY CapacityBounds
<1>3. \A sol \in [V -> Int] : sol \in sat <=> ValueTo(con, sol, n) >= 0
  BY SatIs
<1>4. \A sol \in [V -> Int] : (\A x \in V : sol[x] \in s.dom[x])
           => /\ ValueTo(con, sol, n) \in Int /\ LowTo(s, con, n) <= ValueTo(con, sol, n)
              /\ ValueTo(con, sol, n) <= v
  BY <1>2, InRangeFacts DEF InRange
<1>5. all \in Seq(1 .. n) /\ Len(all) = n
  <2>1. all = [i \in 1 .. n |-> i]
    BY <1>1
  <2> HIDE DEF n
  <2> QED
    BY <1>1, <2>1
<1>6. r = IF v < 0 THEN Result(Failed(s), FALSE) ELSE Result(DoAll(s, steps), FALSE)
  BY DEF CapacityGe
<1>7. \A i \in big : i \in 1 .. n /\ i \in Free(s, con) /\ v + con.terms[i].a < 0
  BY FreeFacts
<1> SUFFICES BodyOf(V, xs, sat, s, r)
  OBVIOUS
<1> HIDE DEF sat, xs, v, big, all, over, steps, r
<1>8. over \in Seq(1 .. n) /\ \A k \in 1 .. Len(over) : over[k] \in big
  <2>1. /\ over \in Seq(1 .. n)
        /\ \A j \in 1 .. Len(over) : \E i \in 1 .. Len(all) : over[j] = all[i] /\ all[i] \in big
    BY <1>5, KeptFacts DEF over
  <2> QED
    BY <2>1
<1>9. CASE v < 0
  <2>1. \A sol \in [V -> Int] : (\A x \in V : sol[x] \in s.dom[x]) => sol \notin sat
    BY <1>1, <1>3, <1>4, <1>9
  <2>2. r = Result(Failed(s), FALSE)
    BY <1>6, <1>9, Zenon
  <2> QED
    BY <2>1, <2>2, FailedBody
<1>10. CASE ~ (v < 0)
  <2>1. r = Result(DoAll(s, steps), FALSE)
    BY <1>6, <1>10, Zenon
  <2>2. DOMAIN over = 1 .. Len(over) /\ Len(over) \in Nat
    BY <1>8
  <2>3. \A k \in 1 .. Len(over) : over[k] \in 1 .. n /\ con.terms[over[k]].x \in V /\ con.terms[over[k]].a \in Int
    BY <1>7, <1>8, ConFacts
  <2>4. \A k \in 1 .. Len(over) : step(k) = [x |-> con.terms[over[k]].x, v |-> 0, out |-> FALSE]
    BY DEF Assign
  <2>5. \A k \in 1 .. Len(over) : step(k) \in Steps(V)
    <3>1. \A x \in V : Assign(x, 0) \in Steps(V)
      BY DEF Steps, Assign
    <3> QED
      BY <2>3, <3>1
  <2>6. /\ steps \in Seq(Steps(V)) /\ Len(steps) = Len(over)
        /\ \A k \in 1 .. Len(over) : steps[k] = step(k)
    <3>1. steps = [k \in 1 .. Len(over) |-> step(k)]
      BY <2>2 DEF steps
    <3> HIDE DEF step
    <3> QED
      BY <2>2, <2>5, <3>1
  <2>7. \A k \in 1 .. Len(over) : steps[k].x = con.terms[over[k]].x /\ steps[k].v = 0 /\ steps[k].out = FALSE
    <3> SUFFICES ASSUME NEW k \in 1 .. Len(over)
                 PROVE  steps[k].x = con.terms[over[k]].x /\ steps[k].v = 0 /\ steps[k].out = FALSE
      OBVIOUS
    <3>1. steps[k] = [x |-> con.terms[over[k]].x, v |-> 0, out |-> FALSE]
      BY <2>4, <2>6
    <3> QED
      BY <3>1
  <2> HIDE DEF step
  <2>8. \A k \in 1 .. Len(steps) : Fits(s, steps[k])
    <3> SUFFICES ASSUME NEW k \in 1 .. Len(over) PROVE s.dom[con.terms[over[k]].x] = {0, 1}
      BY <2>6, <2>7 DEF Fits
    <3>1. over[k] \in Free(s, con)
      BY <1>7, <1>8
    <3> QED
      BY <3>1, FreeBoolean
  <2> DEFINE t == DoAll(s, steps)
  <2>9. DoneAll(V, s, steps, t)
    BY <2>6, <2>8, DoAllFacts
  <2> HIDE DEF t
  <2>10. /\ Follows(V, s, t)
         /\ \A sol : Admits(V, s, sol) /\ (\A k \in 1 .. Len(over) : Suits(s, steps[k], sol)) => Admits(V, t, sol)
    BY <2>6, <2>9 DEF DoneAll
  <2>11. ASSUME NEW sol \in [V -> Int], \A x \in V : sol[x] \in s.dom[x], sol \in sat, NEW k \in 1 .. Len(over)
         PROVE  Suits(s, steps[k], sol)
    <3> DEFINE i == over[k]
               a == con.terms[i].a
               w == sol[con.terms[i].x]
    <3>1. i \in 1 .. n /\ i \in Free(s, con) /\ v + a < 0 /\ a \in Int /\ con.terms[i].x \in V
      BY <1>7, <1>8, <2>3
    <3>2. w \in {0, 1}
      BY <2>11, <3>1 DEF IsBoolean
    <3>3. Up(s, con.terms[i]) - a * w <= UpTo(s, con, n) - ValueTo(con, sol, n)
      BY <2>11, <3>1, ValueBetween
    <3>4. ValueTo(con, sol, n) \in Int /\ ValueTo(con, sol, n) >= 0
      BY <1>3, <1>4, <2>11
    <3>5. 0 - a * w <= v
      BY <1>1, <1>2, <3>1, <3>2, <3>3, <3>4
    <3>6. w = 0
      <4>1. CASE w = 1
        BY <1>1, <3>1, <3>5, <4>1
      <4> QED
        BY <3>2, <4>1
    <3> QED
      BY <2>7, <3>6 DEF Suits
  <2>12. Sound(V, sat, s, t)
    BY <2>10, <2>11 DEF Sound, Admits
  <2>13. ASSUME \A x \in xs : Bound(s, x)
         PROVE  Entailed(V, t, sat)
    <3>1. LowTo(s, con, n) = v
      BY <1>2, <2>13, AllBound DEF xs
    <3>2. Entailed(V, s, sat)
      BY <1>1, <1>3, <1>4, <1>10, <3>1 DEF Entailed
    <3> QED
      BY <2>10, <3>2, EntailedStays
  <2> QED
    BY <2>1, <2>12, <2>13 DEF BodyOf, Result, t
<1> QED
  BY <1>9, <1>10

-----------------------------------------------------------------------------
(* The bodies of a binary equation.                                        *)

Eqns(V) == {e \in [a : Int, x : V, c : Int, b : Int, y : V] : e.a > 0 /\ e.b # 0 /\ e.x # e.y}

EqnSat(V, e) == {sol \in [V -> Int] : Supports(e, sol[e.x], sol[e.y])}

\* What the type of a binary equation says of its parts.
LEMMA EqnFacts ==
  ASSUME NEW V, NEW e \in Eqns(V)
  PROVE  e.a \in Int /\ e.a > 0 /\ e.b \in Int /\ e.b # 0 /\ e.c \in Int /\ e.x \in V /\ e.y \in V /\ e.x # e.y
BY DEF Eqns

\* The assignments that satisfy a binary equation.
LEMMA EqnSatIs ==
  ASSUME NEW V, NEW e \in Eqns(V), NEW sol \in [V -> Int]
  PROVE  /\ sol[e.x] \in Int /\ sol[e.y] \in Int
         /\ sol \in EqnSat(V, e) <=> e.a * sol[e.x] = e.c - e.b * sol[e.y]
<1>1. e.x \in V /\ e.y \in V
  BY EqnFacts
<1> QED
  BY <1>1 DEF EqnSat, Supports

\* A factor other than 0 can be cancelled.
LEMMA Cancel ==
  ASSUME NEW a \in Int, a # 0, NEW v \in Int, NEW w \in Int, a * v = a * w
  PROVE  v = w
<1>1. a * (v - w) = 0
  OBVIOUS
<1> DEFINE d == v - w
<1>2. d \in Int /\ a * d = 0
  BY <1>1
<1> HIDE DEF d
<1>3. d = 0
  BY <1>2
<1> QED
  BY <1>3 DEF d

\* Mirror solves the equation for the other variable.
LEMMA MirrorFacts ==
  ASSUME NEW V, NEW e \in Eqns(V)
  PROVE  /\ Mirror(e) \in Eqns(V) /\ Mirror(e).x = e.y /\ Mirror(e).y = e.x
         /\ EqnSat(V, Mirror(e)) = EqnSat(V, e)
<1> DEFINE m == Mirror(e)
<1>1. e.a \in Int /\ e.a > 0 /\ e.b \in Int /\ e.b # 0 /\ e.c \in Int /\ e.x \in V /\ e.y \in V /\ e.x # e.y
  BY EqnFacts
<1>2. CASE e.b > 0
  <2>1. m = [a |-> e.b, x |-> e.y, c |-> e.c, b |-> e.a, y |-> e.x]
    BY <1>2 DEF Mirror, Equation
  <2>2. m \in Eqns(V) /\ m.x = e.y /\ m.y = e.x /\ m.a = e.b /\ m.b = e.a /\ m.c = e.c
    BY <1>1, <1>2, <2>1 DEF Eqns
  <2> HIDE DEF m
  <2>3. ASSUME NEW sol \in [V -> Int]
        PROVE  sol \in EqnSat(V, m) <=> sol \in EqnSat(V, e)
    <3> DEFINE u == e.a * sol[e.x]
               w == e.b * sol[e.y]
    <3>1. u \in Int /\ w \in Int
      BY <1>1
    <3>2. sol \in EqnSat(V, m) <=> w = e.c - u
      BY <2>2 DEF EqnSat, Supports
    <3>3. sol \in EqnSat(V, e) <=> u = e.c - w
      BY DEF EqnSat, Supports
    <3> HIDE DEF u, w
    <3> QED
      BY <1>1, <3>1, <3>2, <3>3
  <2> QED
    BY <2>2, <2>3 DEF EqnSat, m
<1>3. CASE ~ (e.b > 0)
  <2>1. m = [a |-> -e.b, x |-> e.y, c |-> -e.c, b |-> -e.a, y |-> e.x]
    BY <1>3 DEF Mirror, Equation
  <2>2. m \in Eqns(V) /\ m.x = e.y /\ m.y = e.x /\ m.a = -e.b /\ m.b = -e.a /\ m.c = -e.c
    BY <1>1, <1>3, <2>1 DEF Eqns
  <2> HIDE DEF m
  <2>3. ASSUME NEW sol \in [V -> Int]
        PROVE  sol \in EqnSat(V, m) <=> sol \in EqnSat(V, e)
    <3> DEFINE u == e.a * sol[e.x]
               w == e.b * sol[e.y]
    <3>1. u \in Int /\ w \in Int /\ (-e.b) * sol[e.y] = -w /\ (-e.a) * sol[e.x] = -u
      BY <1>1
    <3>4. sol \in EqnSat(V, m) <=> (-e.b) * sol[e.y] = (-e.c) - (-e.a) * sol[e.x]
      BY <2>2 DEF EqnSat, Supports
    <3>2. sol \in EqnSat(V, m) <=> -w = (-e.c) - (-u)
      BY <3>1, <3>4
    <3>3. sol \in EqnSat(V, e) <=> u = e.c - w
      BY DEF EqnSat, Supports
    <3>5. u \in Int /\ w \in Int /\ e.c \in Int
      BY <1>1
    <3> HIDE DEF u, w
    <3>6. -w = (-e.c) - (-u) <=> u = e.c - w
      BY <3>5
    <3> QED
      BY <3>2, <3>3, <3>6
  <2> QED
    BY <2>2, <2>3 DEF EqnSat, m
<1> QED
  BY <1>2, <1>3

\* A free variable that is given its only value leaves nothing else.
LEMMA AssignBody ==
  ASSUME NEW V, NEW s, IsStore(V, s), NEW xs, NEW sat, NEW x \in V, NEW v \in s.dom[x],
         \A sol \in [V -> Int] : (\A y \in V : sol[y] \in s.dom[y]) => (sol \in sat <=> sol[x] = v)
  PROVE  BodyOf(V, xs, sat, s, Result(ASSIGN_DVAR(s, x, v), TRUE))
<1> DEFINE t == ASSIGN_DVAR(s, x, v)
<1>1. Assigned(V, s, x, v, t)
  BY AssignFacts
<1> HIDE DEF t
<1>2. /\ Follows(V, s, t) /\ t.dom[x] = {v}
      /\ \A sol : Admits(V, s, sol) /\ sol[x] = v => Admits(V, t, sol)
  BY <1>1 DEF Assigned, IsNarrowed
<1>3. Sound(V, sat, s, t)
  BY <1>2 DEF Sound, Admits
<1>4. \A y \in V : t.dom[y] \subseteq s.dom[y]
  BY <1>2 DEF Follows
<1>5. Entailed(V, t, sat)
  BY <1>2, <1>4 DEF Entailed
<1> QED
  BY <1>3, <1>5 DEF BodyOf, Result, t

\* v_in_cv_int and the like: the bounds of x follow those of y, and once y is bound x is it.
LEMMA BoundsStepBody ==
  ASSUME NEW V, NEW e \in Eqns(V), NEW s, IsStore(V, s)
  PROVE  BodyOf(V, {e.y}, EqnSat(V, e), s, BoundsStep(s, e))
<1> DEFINE D == s.dom[e.y]
           lo == e.c - e.b * Min(D)
           hi == e.c - e.b * Max(D)
           ends == {lo, hi}
           values == {v \in s.dom[e.x] : Supports(e, v, Min(D))}
           sat == EqnSat(V, e)
           r == BoundsStep(s, e)
<1>1. e.a \in Int /\ e.a > 0 /\ e.b \in Int /\ e.b # 0 /\ e.c \in Int /\ e.x \in V /\ e.y \in V /\ e.x # e.y
  BY EqnFacts
<1>2. \A sol \in [V -> Int] : sol[e.x] \in Int /\ sol[e.y] \in Int
                              /\ (sol \in sat <=> e.a * sol[e.x] = e.c - e.b * sol[e.y])
  BY EqnSatIs
<1>3. Min(D) \in Int /\ Max(D) \in Int /\ \A w \in D : w \in Int /\ Min(D) <= w /\ w <= Max(D)
  BY <1>1, StoreFacts
<1>4. lo \in Int /\ hi \in Int
  BY <1>1, <1>3
<1>5. r = IF ~Bound(s, e.y)
          THEN Result(Region(s, e.x, UP_DIV(Min(ends), e.a), LOW_DIV(Max(ends), e.a), NoSeed), FALSE)
          ELSE Result(IF values = {} THEN Failed(s)
                      ELSE IF Bound(s, e.x) THEN s ELSE ASSIGN_DVAR(s, e.x, Min(values)), TRUE)
  BY DEF BoundsStep
<1> SUFFICES BodyOf(V, {e.y}, sat, s, r)
  OBVIOUS
<1> HIDE DEF sat, r
<1>6. CASE ~Bound(s, e.y)
  <2> DEFINE first == UP_DIV(Min(ends), e.a)
             last == LOW_DIV(Max(ends), e.a)
             t == Region(s, e.x, first, last, NoSeed)
  <2>1. r = Result(t, FALSE)
    BY <1>5, <1>6
  <2>2. /\ Min(ends) \in Int /\ Min(ends) <= lo /\ Min(ends) <= hi
        /\ Max(ends) \in Int /\ lo <= Max(ends) /\ hi <= Max(ends)
    BY <1>4, OfTwo
  <2>3. ASSUME NEW w \in D
        PROVE  Min(ends) <= e.c - e.b * w /\ e.c - e.b * w <= Max(ends)
    <3> HIDE DEF ends
    <3>1. w \in Int /\ Min(D) <= w /\ w <= Max(D)
      BY <1>3
    <3>2. /\ e.b * w \in Int /\ e.b * Min(D) \in Int /\ e.b * Max(D) \in Int
          /\ e.b > 0 => e.b * Min(D) <= e.b * w /\ e.b * w <= e.b * Max(D)
          /\ e.b < 0 => e.b * w <= e.b * Min(D) /\ e.b * Max(D) <= e.b * w
      BY <1>1, <1>3, <3>1, Times
    <3> QED
      BY <1>1, <2>2, <3>2
  <2> HIDE DEF ends
  <2>4. first \in Int /\ last \in Int
    BY <1>1, <2>2 DEF UP_DIV, LOW_DIV
  <2>5. ASSUME NEW sol \in [V -> Int], sol \in sat, sol[e.y] \in D
        PROVE  first <= sol[e.x] /\ sol[e.x] <= last
    <3>1. /\ sol[e.x] \in Int
          /\ Min(ends) <= e.a * sol[e.x] /\ e.a * sol[e.x] <= Max(ends)
      BY <1>2, <2>3, <2>5
    <3> QED
      BY <1>1, <2>2, <3>1, Quotients
  <2>6. Regioned(V, s, e.x, first, last, t)
    <3>1. NoSeed \in Nat
      BY DEF NoSeed
    <3> HIDE DEF first, last
    <3> QED
      BY <1>1, <2>4, <3>1, RegionFacts
  <2> HIDE DEF t, first, last
  <2>7. Sound(V, sat, s, t)
    BY <1>1, <2>5, <2>6 DEF Regioned, Sound, Admits
  <2> QED
    BY <1>6, <2>1, <2>7 DEF BodyOf, Result
<1>7. CASE Bound(s, e.y)
  <2> DEFINE w == Min(D)
  <2>1. D = {w} /\ w \in Int
    BY <1>1, <1>3, <1>7, BoundFacts
  <2>2. \A sol \in [V -> Int] : (\A x \in V : sol[x] \in s.dom[x])
          => sol[e.x] \in s.dom[e.x] /\ (sol \in sat <=> sol[e.x] \in values)
    BY <1>1, <1>2, <2>1 DEF Supports
  <2>3. \A v1, v2 \in values : v1 = v2
    <3> SUFFICES ASSUME NEW v1 \in values, NEW v2 \in values PROVE v1 = v2
      OBVIOUS
    <3>1. v1 \in Int /\ v2 \in Int /\ e.a * v1 = e.a * v2
      BY <1>1, StoreFacts DEF Supports
    <3> QED
      BY <1>1, <3>1, Cancel
  <2>4. values \subseteq s.dom[e.x]
    OBVIOUS
  <2>9. r = Result(IF values = {} THEN Failed(s)
                   ELSE IF Bound(s, e.x) THEN s ELSE ASSIGN_DVAR(s, e.x, Min(values)), TRUE)
    BY <1>5, <1>7
  <2> HIDE DEF values
  <2>5. CASE values = {}
    <3>1. r = Result(Failed(s), TRUE)
      BY <2>5, <2>9
    <3>2. \A sol \in [V -> Int] : (\A x \in V : sol[x] \in s.dom[x]) => sol \notin sat
      BY <2>2, <2>5
    <3> QED
      BY <3>1, <3>2, FailedBody
  <2>6. CASE values # {} /\ Bound(s, e.x)
    <3>1. r = Result(s, TRUE)
      BY <2>6, <2>9
    <3>2. s.dom[e.x] = {Min(s.dom[e.x])}
      BY <1>1, <2>6, BoundFacts
    <3>3. values = s.dom[e.x]
      BY <2>4, <2>6, <3>2
    <3>4. Entailed(V, s, sat)
      BY <2>2, <3>3 DEF Entailed
    <3> QED
      BY <3>1, <3>4, IdleBody
  <2>7. CASE values # {} /\ ~Bound(s, e.x)
    <3>1. r = Result(ASSIGN_DVAR(s, e.x, Min(values)), TRUE)
      BY <2>7, <2>9
    <3>2. Min(values) \in values
      <4>1. values \subseteq Int /\ IsFiniteSet(values)
        BY <1>1, <2>4, StoreFacts, FS_Subset
      <4> QED
        BY <2>7, <4>1, Extremes
    <3>3. \A sol \in [V -> Int] : (\A x \in V : sol[x] \in s.dom[x]) => (sol \in sat <=> sol[e.x] = Min(values))
      BY <2>2, <2>3, <3>2
    <3> QED
      BY <1>1, <2>4, <3>1, <3>2, <3>3, AssignBody
  <2> QED
    BY <2>5, <2>6, <2>7
<1> QED
  BY <1>6, <1>7

\* Soundness is transitive.
LEMMA SoundChain ==
  ASSUME NEW V, NEW sat, NEW s, NEW t, NEW u, IsStore(V, s), Sound(V, sat, s, t), Sound(V, sat, t, u)
  PROVE  Sound(V, sat, s, u)
<1>1. Follows(V, s, t) /\ Follows(V, t, u)
  BY DEF Sound
<1>2. Follows(V, s, u)
  BY <1>1, FollowsChain
<1> QED
  BY <1>2 DEF Sound

\* domain_set_false_yy and the like: x loses what only the lost value of y allowed.
LEMMA ElementStepSound ==
  ASSUME NEW V, NEW e \in Eqns(V), NEW s, IsStore(V, s), NEW elm \in Int, elm \notin s.dom[e.y]
  PROVE  /\ Sound(V, EqnSat(V, e), s, ElementStep(s, e, elm).s)
         /\ ElementStep(s, e, elm).exit \in BOOLEAN /\ ElementStep(s, e, elm).todo = <<>>
<1> DEFINE values == {v \in s.dom[e.x] : Supports(e, v, elm)}
           sat == EqnSat(V, e)
           r == ElementStep(s, e, elm)
<1>1. e.a \in Int /\ e.a > 0 /\ e.b \in Int /\ e.b # 0 /\ e.c \in Int /\ e.x \in V /\ e.y \in V /\ e.x # e.y
  BY EqnFacts
<1>2. \A sol \in [V -> Int] : sol[e.x] \in Int /\ sol[e.y] \in Int
                              /\ (sol \in sat <=> e.a * sol[e.x] = e.c - e.b * sol[e.y])
  BY EqnSatIs
<1>3. r = IF Bound(s, e.y) THEN Result(s, TRUE)
          ELSE IF values = {} THEN Result(s, FALSE)
          ELSE IF ~Bound(s, e.x) THEN Result(Exclude(s, e.x, Min(values)), FALSE)
          ELSE Result(IF IsUnit(e) THEN Failed(s) ELSE s, FALSE)
  BY DEF ElementStep
<1>4. ASSUME NEW v \in values, NEW sol \in [V -> Int], \A x \in V : sol[x] \in s.dom[x], sol \in sat
      PROVE  sol[e.x] # v
  <2> SUFFICES ASSUME sol[e.x] = v PROVE FALSE
    OBVIOUS
  <2>1. sol[e.y] \in Int /\ v \in Int /\ sol[e.y] # elm
    BY <1>1, <1>2, <1>4
  <2> DEFINE p == e.b * sol[e.y]
             q == e.b * elm
             u == e.a * v
  <2>2. p \in Int /\ q \in Int
    BY <1>1, <2>1
  <2>3. u = e.c - p /\ u = e.c - q
    BY <1>2, <1>4 DEF Supports
  <2>4. p = q
    <3> HIDE DEF p, q, u
    <3> QED
      BY <1>1, <2>2, <2>3
  <2> QED
    BY <1>1, <2>1, <2>4, Cancel
<1>5. Sound(V, sat, s, s)
  BY SoundSelf
<1>6. values \subseteq s.dom[e.x]
  OBVIOUS
<1> SUFFICES Sound(V, sat, s, r.s) /\ r.exit \in BOOLEAN /\ r.todo = <<>>
  OBVIOUS
<1> HIDE DEF sat, r, values
<1>7. CASE Bound(s, e.y) \/ values = {}
  BY <1>3, <1>5, <1>7 DEF Result
<1>8. CASE ~Bound(s, e.y) /\ values # {} /\ ~Bound(s, e.x)
  <2> DEFINE v == Min(values)
             t == Exclude(s, e.x, v)
  <2>1. r = Result(t, FALSE)
    BY <1>3, <1>8
  <2>2. v \in values
    <3>1. values \subseteq Int /\ IsFiniteSet(values)
      BY <1>1, <1>6, StoreFacts, FS_Subset
    <3> QED
      BY <1>8, <3>1, Extremes
  <2>3. v \in Int
    BY <1>1, <1>6, <2>2, StoreFacts
  <2> HIDE DEF v
  <2>4. Excluded(V, s, e.x, v, t)
    BY <1>1, <2>3, ExcludeFacts
  <2> HIDE DEF t
  <2>5. Sound(V, sat, s, t)
    BY <1>4, <2>2, <2>4 DEF Sound, Excluded, Admits
  <2> QED
    BY <2>1, <2>5 DEF Result
<1>9. CASE ~Bound(s, e.y) /\ values # {} /\ Bound(s, e.x)
  <2>1. r = Result(IF IsUnit(e) THEN Failed(s) ELSE s, FALSE)
    BY <1>3, <1>9
  <2>2. PICK v \in values : TRUE
    BY <1>9
  <2>3. \A w \in s.dom[e.x] : w = v
    <3>1. s.dom[e.x] = {Min(s.dom[e.x])}
      BY <1>1, <1>9, BoundFacts
    <3> QED
      BY <1>6, <2>2, <3>1
  <2>4. \A sol \in [V -> Int] : (\A x \in V : sol[x] \in s.dom[x]) => sol \notin sat
    BY <1>1, <1>4, <2>2, <2>3
  <2>5. Sound(V, sat, s, Failed(s))
    BY <2>4, SoundFailed
  <2> HIDE DEF Failed
  <2>6. Sound(V, sat, s, IF IsUnit(e) THEN Failed(s) ELSE s)
    BY <1>5, <2>5
  <2> QED
    BY <2>1, <2>6 DEF Result
<1> QED
  BY <1>7, <1>8, <1>9

\* c_V_EQ_VC_CON_aux and the like: x loses what no value of y allows.
LEMMA SupportSound ==
  ASSUME NEW V, NEW e \in Eqns(V), NEW s, IsStore(V, s)
  PROVE  Sound(V, EqnSat(V, e), s, Support(s, e))
<1> DEFINE D == s.dom[e.x]
           n == Max(D) - Min(D) + 1
           bad == {v \in D : \A w \in s.dom[e.y] : ~Supports(e, v, w)}
           lost == Kept(Ascending(D), bad)
           step(k) == Drop(e.x, lost[k])
           steps == [k \in DOMAIN lost |-> step(k)]
           sat == EqnSat(V, e)
           t == Support(s, e)
<1>1. e.x \in V /\ e.y \in V
  BY EqnFacts
<1>2. Min(D) \in Int /\ Max(D) \in Int /\ Min(D) <= Max(D) /\ D \subseteq Int
  BY <1>1, StoreFacts
<1>3. Ascending(D) \in Seq(Int)
  <2>1. n \in Nat
    BY <1>2
  <2>2. Ascending(D) = [i \in 1 .. n |-> Min(D) + i - 1]
    BY DEF Ascending
  <2> DEFINE low == Min(D)
  <2>3. low \in Int /\ Ascending(D) = [i \in 1 .. n |-> low + i - 1]
    BY <1>2, <2>2
  <2> HIDE DEF n, low
  <2>4. \A i \in 1 .. n : low + i - 1 \in Int
    BY <2>1, <2>3
  <2> QED
    BY <2>1, <2>3, <2>4
<1>4. t = DoAll(s, steps)
  BY DEF Support
<1>5. bad \subseteq D /\ \A v \in bad : \A w \in s.dom[e.y] : ~Supports(e, v, w)
  OBVIOUS
<1> SUFFICES Sound(V, sat, s, t)
  OBVIOUS
<1> HIDE DEF bad, lost, steps, t
<1>6. /\ lost \in Seq(Int) /\ Len(lost) \in Nat /\ DOMAIN lost = 1 .. Len(lost)
      /\ \A k \in 1 .. Len(lost) : lost[k] \in bad /\ lost[k] \in Int
  <2>1. /\ lost \in Seq(Int)
        /\ \A j \in 1 .. Len(lost) : \E i \in 1 .. Len(Ascending(D)) : lost[j] = Ascending(D)[i] /\ Ascending(D)[i] \in bad
    BY <1>3, KeptFacts DEF lost
  <2> QED
    BY <2>1
<1>7. \A k \in 1 .. Len(lost) : step(k) = [x |-> e.x, v |-> lost[k], out |-> TRUE]
  BY DEF Drop
<1>8. \A k \in 1 .. Len(lost) : step(k) \in Steps(V)
  <2>1. \A v \in Int : Drop(e.x, v) \in Steps(V)
    BY <1>1 DEF Steps, Drop
  <2> QED
    BY <1>6, <2>1
<1>9. /\ steps \in Seq(Steps(V)) /\ Len(steps) = Len(lost)
      /\ \A k \in 1 .. Len(lost) : steps[k] = step(k)
  <2>1. steps = [k \in 1 .. Len(lost) |-> step(k)]
    BY <1>6 DEF steps
  <2> HIDE DEF step
  <2> QED
    BY <1>6, <1>8, <2>1
<1>10. \A k \in 1 .. Len(lost) : steps[k].x = e.x /\ steps[k].v = lost[k] /\ steps[k].out = TRUE
  <2> SUFFICES ASSUME NEW k \in 1 .. Len(lost)
               PROVE  steps[k].x = e.x /\ steps[k].v = lost[k] /\ steps[k].out = TRUE
    OBVIOUS
  <2>1. steps[k] = [x |-> e.x, v |-> lost[k], out |-> TRUE]
    BY <1>7, <1>9
  <2> QED
    BY <2>1
<1> HIDE DEF step
<1>11. \A k \in 1 .. Len(steps) : Fits(s, steps[k])
  BY <1>9, <1>10 DEF Fits
<1>12. DoneAll(V, s, steps, t)
  BY <1>4, <1>9, <1>11, DoAllFacts
<1>13. /\ Follows(V, s, t)
       /\ \A sol : Admits(V, s, sol) /\ (\A k \in 1 .. Len(lost) : Suits(s, steps[k], sol)) => Admits(V, t, sol)
  BY <1>9, <1>12 DEF DoneAll
<1>14. ASSUME NEW sol \in [V -> Int], \A x \in V : sol[x] \in s.dom[x], sol \in sat, NEW k \in 1 .. Len(lost)
       PROVE  Suits(s, steps[k], sol)
  <2>1. Supports(e, sol[e.x], sol[e.y]) /\ sol[e.y] \in s.dom[e.y]
    BY <1>1, <1>14 DEF EqnSat
  <2>2. sol[e.x] # lost[k]
    BY <1>5, <1>6, <2>1
  <2> QED
    BY <1>10, <2>2 DEF Suits
<1> QED
  BY <1>13, <1>14 DEF Sound, Admits

\* c_V_EQ_VC_CON and the like keep every solution of the equation.
LEMMA SupportBothSound ==
  ASSUME NEW V, NEW e \in Eqns(V), NEW s, IsStore(V, s)
  PROVE  Sound(V, EqnSat(V, e), s, SupportBoth(s, e))
<1> DEFINE s1 == IF e.y \in s.bv \/ e.b \notin {1, -1} THEN Support(s, e) ELSE s
           sat == EqnSat(V, e)
           t == SupportBoth(s, e)
<1>1. Sound(V, sat, s, s) /\ Sound(V, sat, s, Support(s, e))
  BY SoundSelf, SupportSound
<1>2. Sound(V, sat, s, s1)
  BY <1>1
<1>3. t = IF Bound(s, e.x) \/ Bound(s, e.y) THEN s
          ELSE IF s1.state # "ok" \/ Bound(s1, e.x) THEN s1
          ELSE IF e.x \in s1.bv \/ e.a # 1 THEN Support(s1, Mirror(e)) ELSE s1
  BY DEF SupportBoth
<1> SUFFICES Sound(V, sat, s, t)
  OBVIOUS
<1> HIDE DEF s1, t
<1>4. Sound(V, sat, s1, Support(s1, Mirror(e)))
  <2>1. IsStore(V, s1)
    BY <1>2, FollowsStore DEF Sound
  <2>2. Mirror(e) \in Eqns(V) /\ EqnSat(V, Mirror(e)) = sat
    BY MirrorFacts
  <2>3. Sound(V, EqnSat(V, Mirror(e)), s1, Support(s1, Mirror(e)))
    BY <2>1, <2>2, SupportSound
  <2> QED
    BY <2>2, <2>3
<1> HIDE DEF sat
<1>5. Sound(V, sat, s, Support(s1, Mirror(e)))
  BY <1>2, <1>4, SoundChain
<1> QED
  BY <1>1, <1>2, <1>3, <1>5

\* The calls that stand in for an equation of two free variables.
Calls(e) ==
  <<[call |-> "bounds", eqn |-> e], [call |-> "bounds", eqn |-> Mirror(e)], [call |-> "support", eqn |-> e],
    [call |-> "element", eqn |-> e], [call |-> "element", eqn |-> Mirror(e)]>>

\* Two sets of assignments agree as far as the domains allow them.
Equivalent(V, s, sat1, sat2) ==
  \A sol \in [V -> Int] : (\A x \in V : sol[x] \in s.dom[x]) => (sol \in sat1 <=> sol \in sat2)

\* The constraint is replaced by the equation e between its free variables.
SplitsInto(V, con, s, r, e) ==
  /\ e \in Eqns(V) /\ e.x \in VarsOf(con) /\ e.y \in VarsOf(con)
  /\ Equivalent(V, s, Sat(V, con), EqnSat(V, e))
  /\ ~Bound(s, e.x) /\ ~Bound(s, e.y) /\ \A x \in VarsOf(con) : Bound(s, x) \/ x = e.x \/ x = e.y
  /\ r.s = s /\ r.exit = TRUE /\ r.todo = Calls(e)

\* Of two terms, which of them is solved for.
LEMMA SplitFacts ==
  ASSUME NEW V, NEW con, IsCon(V, con), con.rel = "eq", NEW s, IsStore(V, s),
         NEW p \in Terms(V), NEW q \in Terms(V), p.x # q.x, p.x \in VarsOf(con), q.x \in VarsOf(con),
         ~Bound(s, p.x), ~Bound(s, q.x), \A x \in VarsOf(con) : Bound(s, x) \/ x = p.x \/ x = q.x,
         \A sol \in [V -> Int] : (\A x \in V : sol[x] \in s.dom[x])
           => ValueTo(con, sol, Len(con.terms)) = BoundSum(s, con) + p.a * sol[p.x] + q.a * sol[q.x],
         NEW e, e = (IF p.a > 0 THEN Equation(p.a, p.x, -BoundSum(s, con), q.a, q.x)
                     ELSE Equation(-p.a, p.x, BoundSum(s, con), -q.a, q.x))
  PROVE  /\ e \in Eqns(V) /\ e.x = p.x /\ e.y = q.x
         /\ Equivalent(V, s, Sat(V, con), EqnSat(V, e))
<1> DEFINE c == BoundSum(s, con)
<1>1. /\ p.a \in Int /\ p.a # 0 /\ q.a \in Int /\ q.a # 0 /\ p.x \in V /\ q.x \in V
  BY DEF Terms
<1>2. c \in Int
  BY FreeFacts
<1>3. \A sol \in [V -> Int] : sol \in Sat(V, con) <=> ValueTo(con, sol, Len(con.terms)) = 0
  BY SatIs
<1> HIDE DEF c
<1>4. e = IF p.a > 0 THEN Equation(p.a, p.x, -c, q.a, q.x) ELSE Equation(-p.a, p.x, c, -q.a, q.x)
  BY DEF c
<1>5. ASSUME NEW sol \in [V -> Int], \A x \in V : sol[x] \in s.dom[x]
      PROVE  /\ p.a * sol[p.x] \in Int /\ q.a * sol[q.x] \in Int
             /\ sol \in Sat(V, con) <=> c + p.a * sol[p.x] + q.a * sol[q.x] = 0
  BY <1>1, <1>3, <1>5, SMTT(60) DEF c
<1>6. CASE p.a > 0
  <2>1. e = [a |-> p.a, x |-> p.x, c |-> -c, b |-> q.a, y |-> q.x]
    BY <1>4, <1>6 DEF Equation
  <2>2. e.a = p.a /\ e.x = p.x /\ e.c = -c /\ e.b = q.a /\ e.y = q.x
    BY <2>1
  <2>3. e \in Eqns(V)
    BY <1>1, <1>2, <1>6, <2>1 DEF Eqns
  <2>4. ASSUME NEW sol \in [V -> Int], \A x \in V : sol[x] \in s.dom[x]
        PROVE  sol \in Sat(V, con) <=> sol \in EqnSat(V, e)
    <3> DEFINE u == p.a * sol[p.x]
               w == q.a * sol[q.x]
    <3>1. u \in Int /\ w \in Int /\ (sol \in Sat(V, con) <=> c + u + w = 0)
      BY <1>5, <2>4
    <3>2. sol \in EqnSat(V, e) <=> u = (-c) - w
      BY <2>2 DEF EqnSat, Supports
    <3> HIDE DEF u, w
    <3>3. c + u + w = 0 <=> u = (-c) - w
      BY <1>2, <3>1
    <3> QED
      BY <3>1, <3>2, <3>3
  <2> QED
    BY <2>2, <2>3, <2>4 DEF Equivalent
<1>7. CASE ~ (p.a > 0)
  <2>1. e = [a |-> -p.a, x |-> p.x, c |-> c, b |-> -q.a, y |-> q.x]
    BY <1>4, <1>7 DEF Equation
  <2>2. e.a = -p.a /\ e.x = p.x /\ e.c = c /\ e.b = -q.a /\ e.y = q.x
    BY <2>1
  <2>3. e \in Eqns(V)
    BY <1>1, <1>2, <1>7, <2>1 DEF Eqns
  <2>4. ASSUME NEW sol \in [V -> Int], \A x \in V : sol[x] \in s.dom[x]
        PROVE  sol \in Sat(V, con) <=> sol \in EqnSat(V, e)
    <3> DEFINE u == p.a * sol[p.x]
               w == q.a * sol[q.x]
    <3>1. u \in Int /\ w \in Int /\ (sol \in Sat(V, con) <=> c + u + w = 0)
      BY <1>5, <2>4
    <3>2. sol \in EqnSat(V, e) <=> (-p.a) * sol[p.x] = c - (-q.a) * sol[q.x]
      BY <2>2 DEF EqnSat, Supports
    <3>4. sol[p.x] \in Int /\ sol[q.x] \in Int
      BY <1>1
    <3>5. (-p.a) * sol[p.x] = -u /\ (-q.a) * sol[q.x] = -w
      BY <1>1, <3>4
    <3>6. sol \in EqnSat(V, e) <=> -u = c - (-w)
      BY <3>2, <3>5
    <3> HIDE DEF u, w
    <3>3. c + u + w = 0 <=> -u = c - (-w)
      BY <1>2, <3>1
    <3> QED
      BY <3>1, <3>3, <3>6
  <2> QED
    BY <2>2, <2>3, <2>4 DEF Equivalent
<1> QED
  BY <1>6, <1>7

\* call_binary_constr_eq
LEMMA BinaryEquationBody ==
  ASSUME NEW V, NEW con, IsCon(V, con), con.rel = "eq", NEW s, IsStore(V, s), Cardinality(Free(s, con)) <= 2
  PROVE  \/ BodyOf(V, VarsOf(con), Sat(V, con), s, BinaryEquation(s, con))
         \/ \E e \in Eqns(V) : SplitsInto(V, con, s, BinaryEquation(s, con), e)
<1> DEFINE n == Len(con.terms)
           sat == Sat(V, con)
           xs == VarsOf(con)
           free == Free(s, con)
           i == Min(free)
           j == Max(free)
           p == IF con.terms[i].a > 0 /\ con.terms[j].a < 0 THEN con.terms[j] ELSE con.terms[i]
           q == IF p = con.terms[i] THEN con.terms[j] ELSE con.terms[i]
           c == BoundSum(s, con)
           e == IF p.a > 0 THEN Equation(p.a, p.x, -c, q.a, q.x) ELSE Equation(-p.a, p.x, c, -q.a, q.x)
           values == {v \in s.dom[p.x] : p.a * v = -c}
           r == BinaryEquation(s, con)
<1>1. n \in Nat /\ DOMAIN con.terms = 1 .. n /\ c \in Int
  BY ConFacts, FreeFacts
<1>2. \A sol \in [V -> Int] : sol \in sat <=> ValueTo(con, sol, n) = 0
  BY SatIs
<1>3. free \subseteq 1 .. n /\ IsFiniteSet(free) /\ \A k \in 1 .. n : k \in free <=> ~Bound(s, con.terms[k].x)
  BY FreeFacts
<1>4. r = IF free = {} THEN IF c = 0 THEN Result(s, TRUE) ELSE Result(Failed(s), TRUE)
          ELSE IF i = j
          THEN Result(IF values = {} THEN Failed(s) ELSE ASSIGN_DVAR(s, p.x, Min(values)), TRUE)
          ELSE [Result(s, TRUE) EXCEPT !.todo = Calls(e)]
  BY DEF BinaryEquation, Calls
<1>5. free # {} => i \in free /\ j \in free /\ \A k \in free : i <= k /\ k <= j
  <2>1. free \subseteq Int
    BY <1>1, <1>3
  <2> QED
    BY <1>3, <2>1, Extremes
<1> SUFFICES BodyOf(V, xs, sat, s, r) \/ \E e1 \in Eqns(V) : SplitsInto(V, con, s, r, e1)
  OBVIOUS
<1> HIDE DEF i, j, r, sat
<1>6. CASE free = {}
  <2>1. \A sol \in [V -> Int] : (\A x \in V : sol[x] \in s.dom[x]) => ValueTo(con, sol, n) = c
    BY <1>6, NoneFree
  <2>2. CASE c = 0
    <3>1. r = Result(s, TRUE)
      BY <1>4, <1>6, <2>2
    <3>2. Entailed(V, s, sat)
      BY <1>2, <2>1, <2>2 DEF Entailed
    <3> QED
      BY <3>1, <3>2, IdleBody
  <2>3. CASE c # 0
    <3>1. r = Result(Failed(s), TRUE)
      BY <1>4, <1>6, <2>3
    <3>2. \A sol \in [V -> Int] : (\A x \in V : sol[x] \in s.dom[x]) => sol \notin sat
      BY <1>2, <2>1, <2>3
    <3> QED
      BY <3>1, <3>2, FailedBody
  <2> QED
    BY <2>2, <2>3
<1>7. CASE free # {} /\ i = j
  <2> DEFINE a == con.terms[i].a
             y == con.terms[i].x
             vals == {v \in s.dom[y] : a * v = -c}
  <2>1. i \in 1 .. n /\ i \in Int /\ a \in Int /\ a # 0 /\ y \in V
    BY <1>1, <1>3, <1>5, <1>7, ConFacts
  <2>2. p = con.terms[i]
    BY <1>7
  <2>3. r = Result(IF vals = {} THEN Failed(s) ELSE ASSIGN_DVAR(s, y, Min(vals)), TRUE)
    BY <1>4, <1>7, <2>2
  <2>4. free = {i}
    <3>1. \A k \in free : k \in Int /\ i <= k /\ k <= i
      BY <1>1, <1>3, <1>5, <1>7
    <3> QED
      BY <1>5, <1>7, <2>1, <3>1
  <2>5. \A sol \in [V -> Int] : (\A x \in V : sol[x] \in s.dom[x]) => ValueTo(con, sol, n) = c + a * sol[y]
    BY <2>1, <2>4, OneFree
  <2>6. \A sol \in [V -> Int] : (\A x \in V : sol[x] \in s.dom[x]) => (sol \in sat <=> sol[y] \in vals)
    <3> SUFFICES ASSUME NEW sol \in [V -> Int], \A x \in V : sol[x] \in s.dom[x]
                 PROVE  sol \in sat <=> a * sol[y] = -c
      BY <2>1
    <3> DEFINE u == a * sol[y]
    <3>1. u \in Int /\ (sol \in sat <=> c + u = 0)
      BY <1>2, <2>1, <2>5
    <3> HIDE DEF u
    <3>2. c + u = 0 <=> u = -c
      BY <1>1, <3>1
    <3> QED
      BY <3>1, <3>2 DEF u
  <2>7. \A v1, v2 \in vals : v1 = v2
    <3> SUFFICES ASSUME NEW v1 \in vals, NEW v2 \in vals PROVE v1 = v2
      OBVIOUS
    <3>1. v1 \in Int /\ v2 \in Int /\ a * v1 = a * v2
      BY <2>1, StoreFacts
    <3> QED
      BY <2>1, <3>1, Cancel
  <2>8. vals \subseteq s.dom[y]
    OBVIOUS
  <2> HIDE DEF vals
  <2>9. CASE vals = {}
    <3>1. r = Result(Failed(s), TRUE)
      BY <2>3, <2>9
    <3>2. \A sol \in [V -> Int] : (\A x \in V : sol[x] \in s.dom[x]) => sol \notin sat
      <4> HIDE DEF sat
      <4> QED
        BY <2>6, <2>9
    <3> QED
      BY <3>1, <3>2, FailedBody
  <2>10. CASE vals # {}
    <3>1. r = Result(ASSIGN_DVAR(s, y, Min(vals)), TRUE)
      BY <2>3, <2>10
    <3>2. Min(vals) \in vals
      <4>2. s.dom[y] \subseteq Int /\ IsFiniteSet(s.dom[y])
        BY <2>1, StoreFacts, ZenonT(60)
      <4>1. vals \subseteq Int /\ IsFiniteSet(vals)
        BY <2>8, <4>2, FS_Subset
      <4> QED
        BY <2>10, <4>1, Extremes
    <3>3. \A sol \in [V -> Int] : (\A x \in V : sol[x] \in s.dom[x]) => (sol \in sat <=> sol[y] = Min(vals))
      BY <2>6, <2>7, <3>2
    <3>4. BodyOf(V, xs, sat, s, Result(ASSIGN_DVAR(s, y, Min(vals)), TRUE))
      <4> HIDE DEF y, xs
      <4> QED
        BY <2>1, <2>8, <3>2, <3>3, AssignBody
    <3> QED
      BY <3>1, <3>4
  <2> QED
    BY <2>9, <2>10
<1>8. CASE free # {} /\ i # j
  <2>1. i \in 1 .. n /\ j \in 1 .. n /\ i \in free /\ j \in free
    BY <1>3, <1>5, <1>8
  <2>2. free = {i, j}
    <3>1. IsFiniteSet({i}) /\ Cardinality({i}) = 1
      BY FS_Singleton
    <3>2. {i, j} = {i} \cup {j} /\ j \notin {i}
      BY <1>8
    <3>3. Cardinality({i, j}) = 2
      <4> HIDE DEF i, j
      <4>1. Cardinality({i} \cup {j}) = IF j \in {i} THEN Cardinality({i}) ELSE Cardinality({i}) + 1
        BY <3>1, FS_AddElement
      <4>2. Cardinality({i} \cup {j}) = Cardinality({i}) + 1
        BY <3>2, <4>1
      <4> QED
        BY <3>1, <3>2, <4>2
    <3>4. {i, j} \in SUBSET free
      BY <2>1
    <3>5. Cardinality({i, j}) <= Cardinality(free) /\ (Cardinality(free) = Cardinality({i, j}) => free = {i, j})
      BY <1>3, <3>4, FS_Subset
    <3>6. Cardinality(free) \in Nat
      BY <1>3, FS_CardinalityType
    <3> QED
      BY <3>3, <3>5, <3>6
  <2>3. con.terms[i] \in Terms(V) /\ con.terms[j] \in Terms(V) /\ con.terms[i].x # con.terms[j].x
    BY <1>8, <2>1, ConFacts DEF IsCon
  <2>4. \A sol \in [V -> Int] : (\A x \in V : sol[x] \in s.dom[x])
          => ValueTo(con, sol, n) = c + con.terms[i].a * sol[con.terms[i].x] + con.terms[j].a * sol[con.terms[j].x]
    BY <1>8, <2>1, <2>2, TwoFree
  <2>5. (p = con.terms[i] /\ q = con.terms[j]) \/ (p = con.terms[j] /\ q = con.terms[i])
    BY <2>3
  <2>6. \A x \in xs : Bound(s, x) \/ x = con.terms[i].x \/ x = con.terms[j].x
    BY <1>1, <1>3, <2>2 DEF VarsOf
  <2>7. ~Bound(s, con.terms[i].x) /\ ~Bound(s, con.terms[j].x) /\ con.terms[i].x \in xs /\ con.terms[j].x \in xs
    BY <1>1, <1>3, <2>1 DEF VarsOf
  <2>8. r = [Result(s, TRUE) EXCEPT !.todo = Calls(e)]
    BY <1>4, <1>8
  <2>9. e = IF p.a > 0 THEN Equation(p.a, p.x, -c, q.a, q.x) ELSE Equation(-p.a, p.x, c, -q.a, q.x)
    OBVIOUS
  <2> HIDE DEF p, q, e, xs, c
  <2>10. /\ p \in Terms(V) /\ q \in Terms(V) /\ p.x # q.x /\ p.x \in xs /\ q.x \in xs
         /\ ~Bound(s, p.x) /\ ~Bound(s, q.x)
    BY <2>3, <2>5, <2>7
  <2>11. \A x \in xs : Bound(s, x) \/ x = p.x \/ x = q.x
    BY <2>5, <2>6
  <2>12. \A sol \in [V -> Int] : (\A x \in V : sol[x] \in s.dom[x])
           => ValueTo(con, sol, n) = c + p.a * sol[p.x] + q.a * sol[q.x]
    <3> SUFFICES ASSUME NEW sol \in [V -> Int], \A x \in V : sol[x] \in s.dom[x]
                 PROVE  ValueTo(con, sol, n) = c + p.a * sol[p.x] + q.a * sol[q.x]
      OBVIOUS
    <3> DEFINE u == con.terms[i].a * sol[con.terms[i].x]
               w == con.terms[j].a * sol[con.terms[j].x]
    <3>1. u \in Int /\ w \in Int
      BY <2>3 DEF Terms
    <3>2. ValueTo(con, sol, n) = c + u + w
      BY <2>4
    <3>3. (p.a * sol[p.x] = u /\ q.a * sol[q.x] = w) \/ (p.a * sol[p.x] = w /\ q.a * sol[q.x] = u)
      BY <2>5
    <3> HIDE DEF u, w
    <3>4. c + u + w = c + w + u
      BY <1>1, <3>1
    <3> QED
      BY <3>2, <3>3, <3>4
  <2>13. /\ e \in Eqns(V) /\ e.x = p.x /\ e.y = q.x
         /\ Equivalent(V, s, Sat(V, con), EqnSat(V, e))
    BY <2>9, <2>10, <2>11, <2>12, SplitFacts DEF xs, c
  <2>14. r.s = s /\ r.exit = TRUE /\ r.todo = Calls(e)
    BY <2>8 DEF Result
  <2>15. SplitsInto(V, con, s, r, e)
    BY <2>10, <2>11, <2>13, <2>14 DEF SplitsInto, xs
  <2> QED
    BY <2>13, <2>15
<1> QED
  BY <1>6, <1>7, <1>8

-----------------------------------------------------------------------------
(* The agents: what each propagates stands for a constraint posted.        *)

Kinds == {"bounds", "element", "IntervalEq", "IntervalGe", "BooleanEq", "BooleanSumGe", "CapacityGe"}

\* As far as the domains go, the equation e says what the constraint says.
StandsFor(V, s, con, e) ==
  /\ e \in Eqns(V) /\ e.x \in VarsOf(con) /\ e.y \in VarsOf(con)
  /\ Equivalent(V, s, Sat(V, con), EqnSat(V, e))

Suited(s, con, rel) == con.rel = rel /\ IsBoolean(s, con)

JobFor(V, s, con, job) ==
  /\ job.kind \in Kinds
  /\ job.kind \in {"bounds", "element"} => StandsFor(V, s, con, job.eqn)
  /\ job.kind = "IntervalEq" => con.rel = "eq"
  /\ job.kind = "IntervalGe" => con.rel = "ge"
  /\ job.kind = "BooleanEq" => Suited(s, con, "eq") /\ IsUnits(con)
  /\ job.kind = "BooleanSumGe" => Suited(s, con, "ge") /\ IsUnits(con)
  /\ job.kind = "CapacityGe" => Suited(s, con, "ge") /\ \A i \in 1 .. Len(con.terms) : con.terms[i].a < 0

BodyFor(con, s, job, f, elm) ==
  CASE job.kind = "bounds" -> BoundsStep(s, job.eqn)
    [] job.kind = "element" -> ElementStep(s, job.eqn, elm)
    [] job.kind = "IntervalEq" -> IF Cardinality(Free(s, con)) > 2 THEN IntervalEq(s, con, f)
                                  ELSE BinaryEquation(s, con)
    [] job.kind = "IntervalGe" -> IntervalGe(s, con, f)
    [] job.kind = "BooleanEq" -> BooleanEq(s, con)
    [] job.kind = "BooleanSumGe" -> BooleanSumGe(s, con)
    [] OTHER -> CapacityGe(s, con)

\* A value that an element agent is woken with is out of the domain.
ElmFor(s, job, elm) == job.kind = "element" => elm \in Int /\ elm \notin s.dom[job.eqn.y]

\* What the body of an agent does for the constraint that it stands for.
Serves(V, con, s, job, r) ==
  /\ Sound(V, Sat(V, con), s, r.s) /\ r.exit \in BOOLEAN
  /\ r.todo = <<>> /\ job.kind # "element" /\ r.s.state = "ok" /\ (r.exit \/ \A x \in VarsOf(con) : Bound(s, x))
       => Entailed(V, r.s, Sat(V, con))
  /\ job.kind = "bounds" /\ r.s.state = "ok" /\ Bound(s, job.eqn.y) => Entailed(V, r.s, Sat(V, con))
  /\ r.todo # <<>> => /\ job.kind = "IntervalEq" /\ ~ (Cardinality(Free(s, con)) > 2)
                      /\ \E e \in Eqns(V) : SplitsInto(V, con, s, r, e)

\* An equation that stands for a constraint in a store does so in what follows.
LEMMA StandsForStays ==
  ASSUME NEW V, NEW s, NEW t, Follows(V, s, t), NEW con, NEW e, StandsFor(V, s, con, e)
  PROVE  StandsFor(V, t, con, e)
BY DEF StandsFor, Equivalent, Follows

\* An agent that serves a constraint in a store does so in what follows.
LEMMA JobStays ==
  ASSUME NEW V, NEW s, NEW t, Follows(V, s, t), NEW con, IsCon(V, con), NEW job, JobFor(V, s, con, job)
  PROVE  JobFor(V, t, con, job)
<1>1. IsBoolean(s, con) => IsBoolean(t, con)
  <2>1. \A i \in 1 .. Len(con.terms) : con.terms[i].x \in V
    BY ConFacts
  <2>2. \A x \in V : t.dom[x] \subseteq s.dom[x]
    BY DEF Follows
  <2> QED
    BY <2>1, <2>2 DEF IsBoolean
<1>2. job.kind \in {"bounds", "element"} => StandsFor(V, t, con, job.eqn)
  BY StandsForStays DEF JobFor
<1> QED
  BY <1>1, <1>2 DEF JobFor, Suited

\* Solutions of the equation are solutions of the constraint.
LEMMA SoundFor ==
  ASSUME NEW V, NEW s, NEW t, NEW sat1, NEW sat2, Equivalent(V, s, sat1, sat2), Sound(V, sat2, s, t)
  PROVE  Sound(V, sat1, s, t)
BY DEF Sound, Equivalent, Admits

\* Of two constraints that agree within the domains, one is entailed with the other.
LEMMA EntailedFor ==
  ASSUME NEW V, NEW s, NEW t, NEW sat1, NEW sat2, Equivalent(V, s, sat1, sat2), Follows(V, s, t), Entailed(V, t, sat2)
  PROVE  Entailed(V, t, sat1)
BY DEF Entailed, Equivalent, Follows

\* A body that is right for its constraint serves it, unless it is of a binary equation.
LEMMA ServesBody ==
  ASSUME NEW V, NEW con, NEW s, NEW job, job.kind # "bounds", NEW r, BodyOf(V, VarsOf(con), Sat(V, con), s, r)
  PROVE  Serves(V, con, s, job, r)
BY DEF BodyOf, Serves

\* The body of every agent serves the constraint that the agent was posted for.
LEMMA BodyForServes ==
  ASSUME NEW V, NEW con, IsCon(V, con), NEW s, IsStore(V, s), NEW job, JobFor(V, s, con, job),
         NEW f \in Nat, NEW elm, ElmFor(s, job, elm)
  PROVE  Serves(V, con, s, job, BodyFor(con, s, job, f, elm))
<1> DEFINE r == BodyFor(con, s, job, f, elm)
<1> SUFFICES Serves(V, con, s, job, r)
  OBVIOUS
<1>1. CASE job.kind = "bounds"
  <2> DEFINE e == job.eqn
  <2>1. e \in Eqns(V) /\ e.y \in VarsOf(con) /\ Equivalent(V, s, Sat(V, con), EqnSat(V, e))
    BY <1>1 DEF JobFor, StandsFor
  <2>2. r = BoundsStep(s, e)
    BY <1>1 DEF BodyFor
  <2> HIDE DEF r, e
  <2>3. BodyOf(V, {e.y}, EqnSat(V, e), s, r)
    BY <2>1, <2>2, BoundsStepBody
  <2>4. /\ Sound(V, EqnSat(V, e), s, r.s) /\ r.todo = <<>> /\ r.exit \in BOOLEAN
        /\ r.s.state = "ok" /\ (r.exit \/ Bound(s, e.y)) => Entailed(V, r.s, EqnSat(V, e))
    BY <2>3 DEF BodyOf
  <2>5. Sound(V, Sat(V, con), s, r.s)
    BY <2>1, <2>4, SoundFor
  <2>6. Follows(V, s, r.s)
    BY <2>4 DEF Sound
  <2>7. Entailed(V, r.s, EqnSat(V, e)) => Entailed(V, r.s, Sat(V, con))
    BY <2>1, <2>6, EntailedFor
  <2> QED
    BY <2>1, <2>4, <2>5, <2>7 DEF Serves, e
<1>2. CASE job.kind = "element"
  <2> DEFINE e == job.eqn
  <2>1. e \in Eqns(V) /\ Equivalent(V, s, Sat(V, con), EqnSat(V, e))
    BY <1>2 DEF JobFor, StandsFor
  <2>2. r = ElementStep(s, e, elm)
    BY <1>2 DEF BodyFor
  <2>3. elm \in Int /\ elm \notin s.dom[e.y]
    BY <1>2 DEF ElmFor
  <2> HIDE DEF r, e
  <2>4. Sound(V, EqnSat(V, e), s, r.s) /\ r.exit \in BOOLEAN /\ r.todo = <<>>
    BY <2>1, <2>2, <2>3, ElementStepSound
  <2>5. Sound(V, Sat(V, con), s, r.s)
    BY <2>1, <2>4, SoundFor
  <2> QED
    BY <1>2, <2>4, <2>5 DEF Serves
<1>3. CASE job.kind = "IntervalEq" /\ Cardinality(Free(s, con)) > 2
  <2>1. r = IntervalEq(s, con, f) /\ con.rel = "eq"
    BY <1>3 DEF BodyFor, JobFor
  <2>2. Free(s, con) # {}
    <3>1. Cardinality({}) = 0
      BY FS_EmptySet
    <3> QED
      BY <1>3, <3>1
  <2> HIDE DEF r
  <2>3. BodyOf(V, VarsOf(con), Sat(V, con), s, r)
    BY <2>1, <2>2, IntervalEqBody
  <2> QED
    BY <1>3, <2>3, ServesBody
<1>4. CASE job.kind = "IntervalEq" /\ ~ (Cardinality(Free(s, con)) > 2)
  <2>1. r = BinaryEquation(s, con) /\ con.rel = "eq"
    BY <1>4 DEF BodyFor, JobFor
  <2>2. Cardinality(Free(s, con)) <= 2
    <3>1. Cardinality(Free(s, con)) \in Nat
      BY FreeFacts, FS_CardinalityType
    <3> QED
      BY <1>4, <3>1
  <2> HIDE DEF r
  <2>3. CASE BodyOf(V, VarsOf(con), Sat(V, con), s, r)
    BY <1>4, <2>3, ServesBody
  <2>4. CASE \E e \in Eqns(V) : SplitsInto(V, con, s, r, e)
    <3>1. r.s = s /\ r.exit = TRUE /\ r.todo # <<>>
      <4>1. PICK e \in Eqns(V) : SplitsInto(V, con, s, r, e)
        BY <2>4
      <4> QED
        BY <4>1 DEF SplitsInto, Calls
    <3>2. Sound(V, Sat(V, con), s, s)
      BY SoundSelf
    <3> QED
      BY <1>4, <2>4, <3>1, <3>2 DEF Serves
  <2> QED
    BY <2>1, <2>2, <2>3, <2>4, BinaryEquationBody
<1>5. CASE job.kind = "IntervalGe"
  <2>1. r = IntervalGe(s, con, f) /\ con.rel = "ge"
    BY <1>5 DEF BodyFor, JobFor
  <2> HIDE DEF r
  <2>3. BodyOf(V, VarsOf(con), Sat(V, con), s, r)
    BY <2>1, IntervalGeBody
  <2> QED
    BY <1>5, <2>3, ServesBody
<1>6. CASE job.kind = "BooleanEq"
  <2>1. r = BooleanEq(s, con) /\ con.rel = "eq" /\ IsBoolean(s, con) /\ IsUnits(con)
    BY <1>6 DEF BodyFor, JobFor, Suited
  <2> HIDE DEF r
  <2>3. BodyOf(V, VarsOf(con), Sat(V, con), s, r)
    BY <2>1, BooleanEqBody
  <2> QED
    BY <1>6, <2>3, ServesBody
<1>7. CASE job.kind = "BooleanSumGe"
  <2>1. r = BooleanSumGe(s, con) /\ con.rel = "ge" /\ IsBoolean(s, con) /\ IsUnits(con)
    BY <1>7 DEF BodyFor, JobFor, Suited
  <2> HIDE DEF r
  <2>3. BodyOf(V, VarsOf(con), Sat(V, con), s, r)
    BY <2>1, BooleanSumGeBody
  <2> QED
    BY <1>7, <2>3, ServesBody
<1>8. CASE job.kind = "CapacityGe"
  <2>1. /\ r = CapacityGe(s, con) /\ con.rel = "ge" /\ IsBoolean(s, con)
        /\ \A i \in 1 .. Len(con.terms) : con.terms[i].a < 0
    BY <1>8 DEF BodyFor, JobFor, Suited
  <2> HIDE DEF r
  <2>3. BodyOf(V, VarsOf(con), Sat(V, con), s, r)
    BY <2>1, CapacityGeBody
  <2> QED
    BY <1>8, <2>3, ServesBody
<1> QED
  BY <1>1, <1>2, <1>3, <1>4, <1>5, <1>6, <1>7, <1>8 DEF JobFor, Kinds

-----------------------------------------------------------------------------
(* Agents, statuses and the chain.                                         *)

Jobs(V) == [kind : Kinds, post : Nat] \cup [kind : Kinds, post : Nat, eqn : Eqns(V)]

CallsOf(V) == [call : {"bounds", "support", "element"}, eqn : Eqns(V)]

Entries(V) == [agent : Nat, elm : Int \cup {NoElm}, clone : BOOLEAN, post : Nat, todo : Seq(CallsOf(V))]

Words == {"sleep", "run", "reent", "exit"}

\* The agent f is among the listeners of the port.
Hears(s, x, port, f) == \E i \in 1 .. Len(s.cs[<<x, port>>]) : s.cs[<<x, port>>][i] = f

\* The first m constraints are posted; cons[k] is the constraint k.
JobsOk(V, cons, m, s, jobsNow) ==
  /\ jobsNow \in Seq(Jobs(V))
  /\ \A f \in 1 .. Len(jobsNow) : jobsNow[f].post \in 1 .. m /\ JobFor(V, s, cons[jobsNow[f].post], jobsNow[f])

ListenersOk(V, s, jobsNow) ==
  \A x \in V, port \in Ports, f \in Nat : Hears(s, x, port, f) =>
    /\ f \in 1 .. Len(jobsNow)
    /\ port = "dom" => jobsNow[f].kind = "element" /\ jobsNow[f].eqn.y = x
    /\ port # "dom" => jobsNow[f].kind # "element"

\* A predicate in the middle of its calls, or an activation.
EntryOk(V, cons, m, s, jobsNow, entry) ==
  /\ entry.agent = 0 => /\ entry.post \in 1 .. m /\ entry.todo # <<>>
                        /\ \A i \in 1 .. Len(entry.todo) : StandsFor(V, s, cons[entry.post], entry.todo[i].eqn)
  /\ entry.agent # 0 => /\ entry.agent \in 1 .. Len(jobsNow) /\ ElmFor(s, jobsNow[entry.agent], entry.elm)
                        /\ entry.clone => jobsNow[entry.agent].kind = "element"

ChainOk(V, cons, m, s, jobsNow, chainNow) ==
  /\ chainNow \in Seq(Entries(V))
  /\ \A i \in 1 .. Len(chainNow) : EntryOk(V, cons, m, s, jobsNow, chainNow[i])

Activated(chainNow, f, i) == chainNow[i].agent = f /\ ~chainNow[i].clone

\* An agent that is running has one activation that is no clone, and no other has any.
WordsOk(jobsNow, words, chainNow) ==
  /\ words \in Seq(Words) /\ Len(words) = Len(jobsNow)
  /\ \A f \in 1 .. Len(jobsNow) :
       /\ jobsNow[f].kind = "element" => words[f] # "reent"
       /\ words[f] \in {"run", "reent"} => \E i \in 1 .. Len(chainNow) : Activated(chainNow, f, i)
       /\ \A i \in 1 .. Len(chainNow) : Activated(chainNow, f, i) => words[f] \in {"run", "reent"}
       /\ \A i, j \in 1 .. Len(chainNow) : Activated(chainNow, f, i) /\ Activated(chainNow, f, j) => i = j

AreCons(V, cons, m) == m \in Nat /\ \A k \in 1 .. m : IsCon(V, cons[k])

\* The store, the agents, their AR_STATUS words and the active chain fit together.
MachineOk(V, cons, m, s, jobsNow, words, chainNow) ==
  /\ AreCons(V, cons, m) /\ IsStore(V, s)
  /\ JobsOk(V, cons, m, s, jobsNow) /\ ListenersOk(V, s, jobsNow)
  /\ ChainOk(V, cons, m, s, jobsNow, chainNow) /\ WordsOk(jobsNow, words, chainNow)

\* All of it stays when domains shrink.
LEMMA MachineStays ==
  ASSUME NEW V, NEW cons, NEW m, NEW s, NEW t, NEW jobsNow, NEW words, NEW chainNow,
         MachineOk(V, cons, m, s, jobsNow, words, chainNow), Follows(V, s, t)
  PROVE  MachineOk(V, cons, m, t, jobsNow, words, chainNow)
<1>1. /\ AreCons(V, cons, m) /\ IsStore(V, s)
      /\ JobsOk(V, cons, m, s, jobsNow) /\ ListenersOk(V, s, jobsNow)
      /\ ChainOk(V, cons, m, s, jobsNow, chainNow) /\ WordsOk(jobsNow, words, chainNow)
  BY DEF MachineOk
<1>2. IsStore(V, t) /\ t.cs = s.cs /\ \A x \in V : t.dom[x] \subseteq s.dom[x]
  BY DEF Follows
<1>3. JobsOk(V, cons, m, t, jobsNow)
  <2>1. ASSUME NEW f \in 1 .. Len(jobsNow)
        PROVE  jobsNow[f].post \in 1 .. m /\ JobFor(V, t, cons[jobsNow[f].post], jobsNow[f])
    <3>1. jobsNow[f].post \in 1 .. m /\ JobFor(V, s, cons[jobsNow[f].post], jobsNow[f])
      BY <1>1 DEF JobsOk
    <3>2. IsCon(V, cons[jobsNow[f].post])
      BY <1>1, <3>1 DEF AreCons
    <3> QED
      BY <3>1, <3>2, JobStays
  <2> QED
    BY <1>1, <2>1 DEF JobsOk
<1>4. ListenersOk(V, t, jobsNow)
  BY <1>1, <1>2 DEF ListenersOk, Hears
<1>5. ChainOk(V, cons, m, t, jobsNow, chainNow)
  <2>1. ASSUME NEW i \in 1 .. Len(chainNow)
        PROVE  EntryOk(V, cons, m, t, jobsNow, chainNow[i])
    <3> DEFINE entry == chainNow[i]
    <3>1. EntryOk(V, cons, m, s, jobsNow, entry)
      BY <1>1 DEF ChainOk
    <3> HIDE DEF entry
    <3>2. entry.agent = 0 => /\ entry.post \in 1 .. m /\ entry.todo # <<>>
                             /\ \A j \in 1 .. Len(entry.todo) : StandsFor(V, t, cons[entry.post], entry.todo[j].eqn)
      BY <3>1, StandsForStays DEF EntryOk
    <3>3. entry.agent # 0 => /\ entry.agent \in 1 .. Len(jobsNow) /\ ElmFor(t, jobsNow[entry.agent], entry.elm)
                             /\ entry.clone => jobsNow[entry.agent].kind = "element"
      <4> SUFFICES ASSUME entry.agent # 0
                   PROVE  /\ entry.agent \in 1 .. Len(jobsNow) /\ ElmFor(t, jobsNow[entry.agent], entry.elm)
                          /\ entry.clone => jobsNow[entry.agent].kind = "element"
        OBVIOUS
      <4>1. /\ entry.agent \in 1 .. Len(jobsNow) /\ ElmFor(s, jobsNow[entry.agent], entry.elm)
            /\ entry.clone => jobsNow[entry.agent].kind = "element"
        BY <3>1 DEF EntryOk
      <4> DEFINE job == jobsNow[entry.agent]
      <4>2. JobFor(V, s, cons[job.post], job)
        BY <1>1, <4>1 DEF JobsOk
      <4> HIDE DEF job
      <4>3. job.kind = "element" => job.eqn.y \in V
        BY <4>2, EqnFacts DEF JobFor, StandsFor
      <4>4. ElmFor(s, job, entry.elm) => ElmFor(t, job, entry.elm)
        BY <1>2, <4>3 DEF ElmFor
      <4> QED
        BY <4>1, <4>4 DEF job
    <3> QED
      BY <3>2, <3>3 DEF EntryOk, entry
  <2> QED
    BY <1>1, <2>1 DEF ChainOk
<1> QED
  BY <1>1, <1>2, <1>3, <1>4, <1>5 DEF MachineOk

\* Taking the last entry off a chain, and putting another in its place.
Pops(chainNow, next) ==
  /\ Len(next) = Len(chainNow) - 1
  /\ \A i \in 1 .. Len(chainNow) - 1 : next[i] = chainNow[i]

Swaps(chainNow, next, entry) ==
  /\ Len(next) = Len(chainNow)
  /\ \A i \in 1 .. Len(chainNow) - 1 : next[i] = chainNow[i]
  /\ next[Len(chainNow)] = entry

\* The active chain without its last activation, and with another in its place.
LEMMA FrontFacts ==
  ASSUME NEW S, NEW c \in Seq(S), c # <<>>
  PROVE  /\ Len(c) \in Nat \ {0} /\ Last(c) = c[Len(c)] /\ Last(c) \in S
         /\ Front(c) \in Seq(S) /\ Pops(c, Front(c))
         /\ Front(c) \o <<>> = Front(c)
         /\ \A e \in S : Append(Front(c), e) \in Seq(S) /\ Swaps(c, Append(Front(c), e), e)
         /\ \A e \in S : Front(c) \o <<e>> = Append(Front(c), e)
<1>1. Len(c) \in Nat /\ Len(c) # 0
  OBVIOUS
<1> DEFINE n == Len(c)
           f == Front(c)
<1>2. Last(c) = c[n] /\ c[n] \in S
  BY <1>1 DEF Last
<1>3. f \in Seq(S) /\ Len(f) = n - 1 /\ \A i \in 1 .. n - 1 : f[i] = c[i]
  <2>1. f = SubSeq(c, 1, n - 1)
    BY DEF Front
  <2>2. c \in Seq(S) /\ n \in Nat /\ n >= 1 /\ n = Len(c)
    BY <1>1
  <2> HIDE DEF f, n
  <2>3. SubSeq(c, 1, n - 1) = [i \in 1 .. n - 1 |-> c[i]]
    BY <2>2
  <2>4. \A i \in 1 .. n - 1 : c[i] \in S
    BY <2>2
  <2>5. n - 1 \in Nat
    BY <2>2
  <2> QED
    BY <2>1, <2>3, <2>4, <2>5
<1> HIDE DEF f
<1>4. f \o <<>> = f
  BY <1>3
<1>5. \A e \in S : Append(f, e) \in Seq(S) /\ Swaps(c, Append(f, e), e)
  <2> SUFFICES ASSUME NEW e \in S PROVE Append(f, e) \in Seq(S) /\ Swaps(c, Append(f, e), e)
    OBVIOUS
  <2> QED
    BY <1>1, <1>3 DEF Swaps
<1>6. \A e \in S : f \o <<e>> = Append(f, e)
  BY <1>3
<1> QED
  BY <1>1, <1>2, <1>3, <1>4, <1>5, <1>6 DEF f, Pops

-----------------------------------------------------------------------------
(* An agent is attached.                                                   *)

Attached(s, W, f) ==
  [s EXCEPT !.cs = [w \in DOMAIN @ |-> IF w \in W THEN <<f>> \o @[w] ELSE @[w]]]

\* The store t is s with f among the listeners of W.
Attaches(V, s, W, f, t) ==
  /\ IsStore(V, t)
  /\ t.dom = s.dom /\ t.queue = s.queue /\ t.state = s.state
  /\ \A x \in V, port \in Ports, g \in Nat : Hears(t, x, port, g) <=> Hears(s, x, port, g) \/ (g = f /\ <<x, port>> \in W)

\* INSERT_SUSP_CALL adds the agent to the lists it is to be on, and to no other.
LEMMA AttachFacts ==
  ASSUME NEW V, NEW s, IsStore(V, s), NEW W, NEW f \in Nat
  PROVE  Attaches(V, s, W, f, Attached(s, W, f))
<1> DEFINE cs == [w \in V \X Ports |-> IF w \in W THEN <<f>> \o s.cs[w] ELSE s.cs[w]]
           t == [s EXCEPT !.cs = cs]
<1>1. s \in Stores(V) /\ s.cs \in [V \X Ports -> Seq(Nat)]
  BY DEF IsStore, Stores
<1>2. t = Attached(s, W, f)
  BY <1>1 DEF Attached
<1>3. cs \in [V \X Ports -> Seq(Nat)]
  <2>1. \A w \in V \X Ports : s.cs[w] \in Seq(Nat) /\ <<f>> \o s.cs[w] \in Seq(Nat)
    BY <1>1
  <2> QED
    BY <2>1
<1>4. ASSUME NEW x \in V, NEW port \in Ports, NEW g \in Nat
      PROVE  (\E i \in 1 .. Len(cs[<<x, port>>]) : cs[<<x, port>>][i] = g) <=> Hears(s, x, port, g) \/ (g = f /\ <<x, port>> \in W)
  <2> DEFINE w == <<x, port>>
             c == s.cs[w]
  <2>1. w \in V \X Ports /\ c \in Seq(Nat)
    BY <1>1
  <2>2. CASE w \in W
    <3> DEFINE d == <<f>> \o c
    <3>1. cs[w] = d
      BY <2>1, <2>2
    <3>2. Len(d) = Len(c) + 1 /\ d[1] = f /\ \A i \in 1 .. Len(c) : d[i + 1] = c[i]
      <4> HIDE DEF c
      <4> QED
        BY <2>1
    <3> HIDE DEF d, c, cs
    <3>3. Len(c) \in Nat
      BY <2>1
    <3>4. (\E i \in 1 .. Len(d) : d[i] = g) <=> g = f \/ \E i \in 1 .. Len(c) : c[i] = g
      <4>1. ASSUME NEW i \in 1 .. Len(d), d[i] = g PROVE g = f \/ \E j \in 1 .. Len(c) : c[j] = g
        <5>1. CASE i = 1
          BY <3>2, <4>1, <5>1
        <5>2. CASE i # 1
          <6>1. i - 1 \in 1 .. Len(c) /\ d[(i - 1) + 1] = c[i - 1] /\ (i - 1) + 1 = i
            BY <3>2, <3>3, <4>1, <5>2
          <6> QED
            BY <4>1, <6>1
        <5> QED
          BY <5>1, <5>2
      <4>2. ASSUME g = f PROVE \E i \in 1 .. Len(d) : d[i] = g
        <5>1. 1 \in 1 .. Len(d)
          BY <3>2, <3>3
        <5> QED
          BY <3>2, <4>2, <5>1
      <4>3. ASSUME NEW j \in 1 .. Len(c), c[j] = g PROVE \E i \in 1 .. Len(d) : d[i] = g
        <5>1. j + 1 \in 1 .. Len(d) /\ d[j + 1] = g
          BY <3>2, <3>3, <4>3
        <5> QED
          BY <5>1
      <4> QED
        BY <4>1, <4>2, <4>3
    <3> QED
      BY <2>2, <3>1, <3>4 DEF Hears, c
  <2>3. CASE w \notin W
    <3>1. cs[w] = c
      BY <2>1, <2>3
    <3> HIDE DEF cs
    <3> QED
      BY <2>3, <3>1 DEF Hears
  <2> QED
    BY <2>2, <2>3
<1> HIDE DEF cs
<1>5. /\ t.cs = cs /\ t.dom = s.dom /\ t.queue = s.queue /\ t.state = s.state /\ t.bv = s.bv /\ t \in Stores(V)
  BY <1>1, <1>3 DEF Stores
<1>6. IsStore(V, t)
  BY <1>5 DEF IsStore, IsOut
<1> HIDE DEF t
<1> QED
  BY <1>2, <1>4, <1>5, <1>6 DEF Attaches, Hears

\* What only looks at domains is the same for two stores with the same domains.
LEMMA SameDomains ==
  ASSUME NEW V, NEW s, NEW t, t.dom = s.dom
  PROVE  /\ \A x : Bound(t, x) = Bound(s, x)
         /\ \A con : Free(t, con) = Free(s, con)
         /\ \A con, e : StandsFor(V, s, con, e) => StandsFor(V, t, con, e)
         /\ \A con, job : JobFor(V, s, con, job) => JobFor(V, t, con, job)
         /\ \A job, elm : ElmFor(s, job, elm) => ElmFor(t, job, elm)
         /\ \A sat : Entailed(V, s, sat) => Entailed(V, t, sat)
<1>1. \A x : Bound(t, x) = Bound(s, x)
  BY DEF Bound
<1>2. \A con : Free(t, con) = Free(s, con)
  BY <1>1 DEF Free
<1>3. \A con, e : StandsFor(V, s, con, e) => StandsFor(V, t, con, e)
  BY DEF StandsFor, Equivalent
<1>4. \A con : IsBoolean(s, con) => IsBoolean(t, con)
  BY DEF IsBoolean
<1>5. \A con, job : JobFor(V, s, con, job) => JobFor(V, t, con, job)
  BY <1>3, <1>4 DEF JobFor, Suited
<1>6. \A job, elm : ElmFor(s, job, elm) => ElmFor(t, job, elm)
  BY DEF ElmFor
<1>7. \A sat : Entailed(V, s, sat) => Entailed(V, t, sat)
  BY DEF Entailed
<1> QED
  BY <1>1, <1>2, <1>3, <1>5, <1>6, <1>7

\* The ports that an agent may listen to.
Ears(V, job, W) ==
  /\ W \subseteq V \X Ports
  /\ \A x \in V, port \in Ports : <<x, port>> \in W =>
       /\ port = "dom" => job.kind = "element" /\ job.eqn.y = x
       /\ port # "dom" => job.kind # "element"

\* A new agent, asleep or done, fits in.
LEMMA AttachMachine ==
  ASSUME NEW V, NEW cons, NEW m, NEW s, NEW jobsNow, NEW words, NEW chainNow,
         MachineOk(V, cons, m, s, jobsNow, words, chainNow),
         NEW job \in Jobs(V), job.post \in 1 .. m, JobFor(V, s, cons[job.post], job),
         NEW W, Ears(V, job, W), NEW t, Attaches(V, s, W, Len(jobsNow) + 1, t), NEW word \in {"sleep", "exit"}
  PROVE  MachineOk(V, cons, m, t, Append(jobsNow, job), Append(words, word), chainNow)
<1> DEFINE n == Len(jobsNow)
           jobs2 == Append(jobsNow, job)
           words2 == Append(words, word)
<1>1. /\ AreCons(V, cons, m) /\ IsStore(V, s)
      /\ JobsOk(V, cons, m, s, jobsNow) /\ ListenersOk(V, s, jobsNow)
      /\ ChainOk(V, cons, m, s, jobsNow, chainNow) /\ WordsOk(jobsNow, words, chainNow)
  BY DEF MachineOk
<1>2. /\ IsStore(V, t) /\ t.dom = s.dom
      /\ \A x \in V, port \in Ports, g \in Nat : Hears(t, x, port, g) <=> Hears(s, x, port, g) \/ (g = n + 1 /\ <<x, port>> \in W)
  BY DEF Attaches
<1>3. /\ jobsNow \in Seq(Jobs(V)) /\ n \in Nat /\ jobs2 \in Seq(Jobs(V)) /\ Len(jobs2) = n + 1
      /\ jobs2[n + 1] = job /\ \A f \in 1 .. n : jobs2[f] = jobsNow[f]
  BY <1>1 DEF JobsOk
<1>4. /\ words \in Seq(Words) /\ Len(words) = n
  BY <1>1 DEF WordsOk
<1>5. /\ words2 \in Seq(Words) /\ Len(words2) = n + 1
      /\ words2[n + 1] = word /\ \A f \in 1 .. n : words2[f] = words[f]
  <2>1. word \in Words
    BY DEF Words
  <2> HIDE DEF n
  <2> QED
    BY <1>4, <2>1
<1>6. \A f \in 1 .. n + 1 : f \in 1 .. n \/ f = n + 1
  BY <1>3
<1> HIDE DEF jobs2, words2
<1>7. JobsOk(V, cons, m, t, jobs2)
  <2>1. ASSUME NEW f \in 1 .. Len(jobs2)
        PROVE  jobs2[f].post \in 1 .. m /\ JobFor(V, t, cons[jobs2[f].post], jobs2[f])
    <3>1. CASE f \in 1 .. n
      <4>1. jobsNow[f].post \in 1 .. m /\ JobFor(V, s, cons[jobsNow[f].post], jobsNow[f])
        BY <1>1, <3>1 DEF JobsOk
      <4> QED
        BY <1>2, <1>3, <3>1, <4>1, SameDomains
    <3>2. CASE f = n + 1
      BY <1>2, <1>3, <3>2, SameDomains
    <3> QED
      BY <1>3, <1>6, <3>1, <3>2
  <2> QED
    BY <1>3, <2>1 DEF JobsOk
<1>8. ListenersOk(V, t, jobs2)
  <2> SUFFICES ASSUME NEW x \in V, NEW port \in Ports, NEW f \in Nat, Hears(t, x, port, f)
               PROVE  /\ f \in 1 .. Len(jobs2)
                      /\ port = "dom" => jobs2[f].kind = "element" /\ jobs2[f].eqn.y = x
                      /\ port # "dom" => jobs2[f].kind # "element"
    BY DEF ListenersOk
  <2>1. CASE Hears(s, x, port, f)
    <3>1. /\ f \in 1 .. n
          /\ port = "dom" => jobsNow[f].kind = "element" /\ jobsNow[f].eqn.y = x
          /\ port # "dom" => jobsNow[f].kind # "element"
      BY <1>1, <2>1 DEF ListenersOk
    <3>2. jobs2[f] = jobsNow[f] /\ f \in 1 .. Len(jobs2)
      BY <1>3, <3>1
    <3> QED
      BY <3>1, <3>2
  <2>2. CASE f = n + 1 /\ <<x, port>> \in W
    <3>1. jobs2[f] = job /\ f \in 1 .. Len(jobs2)
      BY <1>3, <2>2
    <3>2. /\ port = "dom" => job.kind = "element" /\ job.eqn.y = x
          /\ port # "dom" => job.kind # "element"
      BY <2>2 DEF Ears
    <3> QED
      BY <3>1, <3>2
  <2> QED
    BY <1>2, <2>1, <2>2
<1>9. \A i \in 1 .. Len(chainNow) : chainNow[i].agent # 0 => chainNow[i].agent \in 1 .. n
  BY <1>1 DEF ChainOk, EntryOk
<1>10. ChainOk(V, cons, m, t, jobs2, chainNow)
  <2>1. ASSUME NEW i \in 1 .. Len(chainNow)
        PROVE  EntryOk(V, cons, m, t, jobs2, chainNow[i])
    <3> DEFINE entry == chainNow[i]
    <3>1. EntryOk(V, cons, m, s, jobsNow, entry)
      BY <1>1 DEF ChainOk
    <3>2. entry.agent # 0 => entry.agent \in 1 .. n /\ entry.agent \in 1 .. Len(jobs2) /\ jobs2[entry.agent] = jobsNow[entry.agent]
      BY <1>3, <1>9
    <3> HIDE DEF entry
    <3>3. entry.agent = 0 => /\ entry.post \in 1 .. m /\ entry.todo # <<>>
                             /\ \A j \in 1 .. Len(entry.todo) : StandsFor(V, t, cons[entry.post], entry.todo[j].eqn)
      BY <1>2, <3>1, SameDomains DEF EntryOk
    <3>4. entry.agent # 0 => /\ entry.agent \in 1 .. Len(jobs2) /\ ElmFor(t, jobs2[entry.agent], entry.elm)
                             /\ entry.clone => jobs2[entry.agent].kind = "element"
      BY <1>2, <3>1, <3>2, SameDomains DEF EntryOk
    <3> QED
      BY <3>3, <3>4 DEF EntryOk, entry
  <2> QED
    BY <1>1, <2>1 DEF ChainOk
<1>11. WordsOk(jobs2, words2, chainNow)
  <2>1. ASSUME NEW f \in 1 .. Len(jobs2)
        PROVE  /\ jobs2[f].kind = "element" => words2[f] # "reent"
               /\ words2[f] \in {"run", "reent"} => \E i \in 1 .. Len(chainNow) : Activated(chainNow, f, i)
               /\ \A i \in 1 .. Len(chainNow) : Activated(chainNow, f, i) => words2[f] \in {"run", "reent"}
               /\ \A i, j \in 1 .. Len(chainNow) : Activated(chainNow, f, i) /\ Activated(chainNow, f, j) => i = j
    <3>1. CASE f \in 1 .. n
      <4>1. jobs2[f] = jobsNow[f] /\ words2[f] = words[f]
        BY <1>3, <1>5, <3>1
      <4> QED
        BY <1>1, <3>1, <4>1 DEF WordsOk
    <3>2. CASE f = n + 1
      <4>1. \A i \in 1 .. Len(chainNow) : ~Activated(chainNow, f, i)
        BY <1>3, <1>9, <3>2 DEF Activated
      <4> QED
        BY <1>5, <3>2, <4>1
    <3> QED
      BY <1>3, <1>6, <3>1, <3>2
  <2> QED
    BY <1>3, <1>5, <2>1 DEF WordsOk
<1> QED
  BY <1>1, <1>2, <1>7, <1>8, <1>10, <1>11 DEF MachineOk, jobs2, words2

-----------------------------------------------------------------------------
(* Constraints that are not entailed yet are watched.                      *)

\* An agent of the constraint k that is alive.
Guardian(jobsNow, words, k, f) ==
  f \in 1 .. Len(jobsNow) /\ jobsNow[f].kind # "element" /\ jobsNow[f].post = k /\ words[f] # "exit"

Listened(s, jobsNow, words, k, x) == \E f \in Nat : Guardian(jobsNow, words, k, f) /\ Hears(s, x, "ins", f)

\* A predicate is about to call an agent of k that will listen to x.
ToPost(chainNow, k, x) ==
  \E i \in 1 .. Len(chainNow) :
    /\ chainNow[i].agent = 0 /\ chainNow[i].post = k
    /\ \E j \in 1 .. Len(chainNow[i].todo) : chainNow[i].todo[j].call = "bounds" /\ chainNow[i].todo[j].eqn.y = x

OnChain(chainNow, f) == \E i \in 1 .. Len(chainNow) : Activated(chainNow, f, i)

Wakes(s, f) == \E i \in 1 .. Len(s.queue) : s.queue[i].port = "ins" /\ Hears(s, s.queue[i].var, "ins", f)

\* A live agent hears of each free variable of the constraint, or will when it is posted.
Heeded(con, k, s, jobsNow, words, chainNow) ==
  \A x \in VarsOf(con) : Bound(s, x) \/ Listened(s, jobsNow, words, k, x) \/ ToPost(chainNow, k, x)

\* Once no variable is free, an agent of the constraint is still to run or to be posted.
Moving(con, k, s, jobsNow, words, chainNow) ==
  \/ \E x \in VarsOf(con) : ~Bound(s, x)
  \/ \E f \in Nat : Guardian(jobsNow, words, k, f) /\ (OnChain(chainNow, f) \/ Wakes(s, f))
  \/ \E x : ToPost(chainNow, k, x)

\* Whatever the domains become, the constraint will be looked at again, or need not.
Covered(V, con, k, s, jobsNow, words, chainNow) ==
  \/ Entailed(V, s, Sat(V, con))
  \/ Heeded(con, k, s, jobsNow, words, chainNow) /\ Moving(con, k, s, jobsNow, words, chainNow)

\* The variables of a constraint are variables.
LEMMA VarsOfFacts ==
  ASSUME NEW V, NEW con, IsCon(V, con)
  PROVE  VarsOf(con) \subseteq V
BY ConFacts DEF VarsOf

\* A variable that becomes bound is either listened to, and its listener is woken, or an
\* agent of the constraint is still to come.
LEMMA DomainStep ==
  ASSUME NEW V, NEW con, IsCon(V, con), NEW k, NEW s, IsStore(V, s), NEW jobsNow, NEW words, NEW chainNow,
         NEW t, Follows(V, s, t), t.state = "ok",
         Heeded(con, k, s, jobsNow, words, chainNow), Moving(con, k, s, jobsNow, words, chainNow)
  PROVE  Heeded(con, k, t, jobsNow, words, chainNow) /\ Moving(con, k, t, jobsNow, words, chainNow)
<1>1. VarsOf(con) \subseteq V /\ t.cs = s.cs
  BY VarsOfFacts DEF Follows
<1>2. \A x, port, f : Hears(s, x, port, f) <=> Hears(t, x, port, f)
  BY <1>1 DEF Hears
<1>3. \A x : Listened(s, jobsNow, words, k, x) => Listened(t, jobsNow, words, k, x)
  BY <1>2 DEF Listened
<1>4. Heeded(con, k, t, jobsNow, words, chainNow)
  <2>1. \A x \in VarsOf(con) : Bound(s, x) => Bound(t, x)
    BY <1>1, StaysBound
  <2> QED
    BY <1>3, <2>1 DEF Heeded
<1>5. \A f : Wakes(s, f) => Wakes(t, f)
  <2>1. \A i \in 1 .. Len(s.queue) : i \in 1 .. Len(t.queue) /\ t.queue[i] = s.queue[i]
    <3>1. Len(s.queue) <= Len(t.queue) /\ IsStore(V, t)
      BY DEF Follows
    <3>2. Len(s.queue) \in Nat /\ Len(t.queue) \in Nat
      BY <3>1, StoreFacts
    <3>3. \A i \in 1 .. Len(s.queue) : t.queue[i] = s.queue[i]
      BY DEF Follows
    <3> QED
      BY <3>1, <3>2, <3>3
  <2> QED
    BY <1>2, <2>1 DEF Wakes
<1>6. ASSUME NEW x \in VarsOf(con), ~Bound(s, x) PROVE Moving(con, k, t, jobsNow, words, chainNow)
  <2>1. CASE ToPost(chainNow, k, x)
    BY <2>1 DEF Moving
  <2>2. CASE Listened(s, jobsNow, words, k, x)
    <3>1. PICK f \in Nat : Guardian(jobsNow, words, k, f) /\ Hears(s, x, "ins", f)
      BY <2>2 DEF Listened
    <3>2. CASE ~Bound(t, x)
      BY <1>6, <3>2 DEF Moving
    <3>3. CASE Bound(t, x)
      <4>1. s.cs[<<x, "ins">>] # <<>>
        BY <3>1 DEF Hears
      <4>2. Instantiated(t, x)
        BY <1>1, <1>6, <3>3, <4>1 DEF Follows
      <4>3. Wakes(t, f)
        BY <1>2, <3>1, <4>2 DEF Instantiated, Wakes
      <4> QED
        BY <3>1, <4>3 DEF Moving
    <3> QED
      BY <3>2, <3>3
  <2> QED
    BY <1>6, <2>1, <2>2 DEF Heeded
<1>7. Moving(con, k, t, jobsNow, words, chainNow)
  <2>1. CASE \E x \in VarsOf(con) : ~Bound(s, x)
    BY <1>6, <2>1
  <2>2. CASE \E f \in Nat : Guardian(jobsNow, words, k, f) /\ (OnChain(chainNow, f) \/ Wakes(s, f))
    BY <1>5, <2>2 DEF Moving
  <2>3. CASE \E x : ToPost(chainNow, k, x)
    BY <2>3 DEF Moving
  <2> QED
    BY <2>1, <2>2, <2>3 DEF Moving
<1> QED
  BY <1>4, <1>7

\* A covered constraint stays covered when domains shrink and nothing else changes.
LEMMA CoveredStays ==
  ASSUME NEW V, NEW con, IsCon(V, con), NEW k, NEW s, IsStore(V, s), NEW jobsNow, NEW words, NEW chainNow,
         NEW t, Follows(V, s, t), t.state = "ok", Covered(V, con, k, s, jobsNow, words, chainNow)
  PROVE  Covered(V, con, k, t, jobsNow, words, chainNow)
BY DomainStep, EntailedStays DEF Covered

\* The agents of k, and what is going to wake them, are all still there.
Keeps(V, k, s, jobsNow, words, chainNow, t, jobs2, words2, chain2) ==
  /\ t.dom = s.dom
  /\ \A f \in Nat : Guardian(jobsNow, words, k, f) => Guardian(jobs2, words2, k, f)
  /\ \A f \in Nat, x \in V : Guardian(jobsNow, words, k, f) /\ Hears(s, x, "ins", f) => Hears(t, x, "ins", f)
  /\ \A x : ToPost(chainNow, k, x) => ToPost(chain2, k, x)
  /\ \A f \in Nat : Guardian(jobsNow, words, k, f) /\ (OnChain(chainNow, f) \/ Wakes(s, f))
                      => OnChain(chain2, f) \/ Wakes(t, f)

\* A covered constraint stays covered by a step that loses none of its agents, activations and
\* calls to be made.
LEMMA CoveredKept ==
  ASSUME NEW V, NEW con, IsCon(V, con), NEW k, NEW s, NEW jobsNow, NEW words, NEW chainNow,
         NEW t, NEW jobs2, NEW words2, NEW chain2,
         Keeps(V, k, s, jobsNow, words, chainNow, t, jobs2, words2, chain2),
         Covered(V, con, k, s, jobsNow, words, chainNow)
  PROVE  Covered(V, con, k, t, jobs2, words2, chain2)
<1>1. t.dom = s.dom /\ VarsOf(con) \subseteq V
  BY VarsOfFacts DEF Keeps
<1>2. Entailed(V, s, Sat(V, con)) => Entailed(V, t, Sat(V, con))
  BY <1>1, SameDomains
<1>3. \A x : Bound(t, x) = Bound(s, x)
  BY <1>1, SameDomains
<1>4. \A x \in V : Listened(s, jobsNow, words, k, x) => Listened(t, jobs2, words2, k, x)
  BY DEF Listened, Keeps
<1>5. Heeded(con, k, s, jobsNow, words, chainNow) => Heeded(con, k, t, jobs2, words2, chain2)
  <2>1. \A x : ToPost(chainNow, k, x) => ToPost(chain2, k, x)
    BY DEF Keeps
  <2> QED
    BY <1>1, <1>3, <1>4, <2>1 DEF Heeded
<1>6. Moving(con, k, s, jobsNow, words, chainNow) => Moving(con, k, t, jobs2, words2, chain2)
  <2>1. /\ \A x : ToPost(chainNow, k, x) => ToPost(chain2, k, x)
        /\ \A f \in Nat : Guardian(jobsNow, words, k, f) => Guardian(jobs2, words2, k, f)
        /\ \A f \in Nat : Guardian(jobsNow, words, k, f) /\ (OnChain(chainNow, f) \/ Wakes(s, f))
                            => OnChain(chain2, f) \/ Wakes(t, f)
    BY DEF Keeps
  <2> QED
    BY <1>3, <2>1 DEF Moving
<1> QED
  BY <1>2, <1>5, <1>6 DEF Covered

\* Attaching a new agent loses none of the others.
LEMMA AttachKeeps ==
  ASSUME NEW V, NEW cons, NEW m, NEW s, NEW jobsNow, NEW words, NEW chainNow,
         MachineOk(V, cons, m, s, jobsNow, words, chainNow),
         NEW job \in Jobs(V), NEW W, NEW t, Attaches(V, s, W, Len(jobsNow) + 1, t), NEW word \in Words, NEW k
  PROVE  Keeps(V, k, s, jobsNow, words, chainNow, t, Append(jobsNow, job), Append(words, word), chainNow)
<1> DEFINE n == Len(jobsNow)
           jobs2 == Append(jobsNow, job)
           words2 == Append(words, word)
<1>1. jobsNow \in Seq(Jobs(V)) /\ n \in Nat /\ words \in Seq(Words) /\ Len(words) = n /\ IsStore(V, s)
  BY DEF MachineOk, JobsOk, WordsOk
<1>2. Len(jobs2) = n + 1 /\ \A f \in 1 .. n : jobs2[f] = jobsNow[f]
  BY <1>1
<1>3. \A f \in 1 .. n : words2[f] = words[f]
  <2> HIDE DEF n
  <2> QED
    BY <1>1
<1>4. /\ t.dom = s.dom /\ t.queue = s.queue
      /\ \A x \in V, port \in Ports, g \in Nat : Hears(s, x, port, g) => Hears(t, x, port, g)
  BY DEF Attaches
<1>5. \A f \in 1 .. n : f \in 1 .. Len(jobs2)
  BY <1>1, <1>2
<1> HIDE DEF jobs2, words2
<1>6. \A f \in Nat : Guardian(jobsNow, words, k, f) => Guardian(jobs2, words2, k, f)
  BY <1>2, <1>3, <1>5 DEF Guardian
<1>7. \A f \in Nat : Wakes(s, f) => Wakes(t, f)
  <2>1. \A i \in 1 .. Len(s.queue) : s.queue[i].var \in V
    <3>1. s.queue \in Seq(Events(V))
      BY <1>1, StoreFacts
    <3>2. \A i \in 1 .. Len(s.queue) : s.queue[i] \in Events(V)
      BY <3>1
    <3> QED
      BY <3>2 DEF Events
  <2>2. "ins" \in Ports
    BY DEF Ports
  <2> QED
    BY <1>4, <2>1, <2>2 DEF Wakes
<1>8. \A x \in V, f \in Nat : Hears(s, x, "ins", f) => Hears(t, x, "ins", f)
  BY <1>4 DEF Ports
<1> QED
  BY <1>4, <1>6, <1>7, <1>8 DEF Keeps, jobs2, words2

-----------------------------------------------------------------------------
(* Statuses and entries of the chain change.                               *)

\* The words after the agent f has got a new one.
LEMMA WordFacts ==
  ASSUME NEW words \in Seq(Words), NEW f \in 1 .. Len(words), NEW w \in Words
  PROVE  /\ [words EXCEPT ![f] = w] \in Seq(Words) /\ Len([words EXCEPT ![f] = w]) = Len(words)
         /\ [words EXCEPT ![f] = w][f] = w
         /\ \A g \in 1 .. Len(words) : g # f => [words EXCEPT ![f] = w][g] = words[g]
         /\ \A v : [[words EXCEPT ![f] = v] EXCEPT ![f] = w] = [words EXCEPT ![f] = w]
         /\ words[f] = w => [words EXCEPT ![f] = w] = words
<1>1. words \in [1 .. Len(words) -> Words] /\ Len(words) \in Nat
  OBVIOUS
<1> DEFINE n == Len(words)
           u == [words EXCEPT ![f] = w]
<1>2. u \in [1 .. n -> Words]
  BY <1>1
<1>3. u \in Seq(Words) /\ Len(u) = n
  <2> HIDE DEF u, n
  <2>1. n \in Nat
    BY <1>1 DEF n
  <2> QED
    BY <1>2, <2>1
<1>4. u[f] = w /\ \A g \in 1 .. n : g # f => u[g] = words[g]
  BY <1>1
<1>5. \A v : [[words EXCEPT ![f] = v] EXCEPT ![f] = w] = u
  BY <1>1
<1>6. words[f] = w => u = words
  BY <1>1
<1> QED
  BY <1>3, <1>4, <1>5, <1>6

\* The word of the agent that an activation has run for.
Retired(words, top, w) == IF top.agent = 0 \/ top.clone THEN words ELSE [words EXCEPT ![top.agent] = w]

\* The last entry goes.
LEMMA PopMachine ==
  ASSUME NEW V, NEW cons, NEW m, NEW s, NEW jobsNow, NEW words, NEW chainNow,
         MachineOk(V, cons, m, s, jobsNow, words, chainNow), chainNow # <<>>, NEW w \in {"sleep", "exit"}
  PROVE  MachineOk(V, cons, m, s, jobsNow, Retired(words, Last(chainNow), w), Front(chainNow))
<1> DEFINE n == Len(chainNow)
           top == Last(chainNow)
           f == top.agent
           next == Front(chainNow)
           words2 == Retired(words, top, w)
<1>1. /\ AreCons(V, cons, m) /\ IsStore(V, s)
      /\ JobsOk(V, cons, m, s, jobsNow) /\ ListenersOk(V, s, jobsNow)
      /\ ChainOk(V, cons, m, s, jobsNow, chainNow) /\ WordsOk(jobsNow, words, chainNow)
  BY DEF MachineOk
<1>2. /\ n \in Nat \ {0} /\ top = chainNow[n] /\ next \in Seq(Entries(V))
      /\ Len(next) = n - 1 /\ \A i \in 1 .. n - 1 : next[i] = chainNow[i]
  BY <1>1, FrontFacts DEF ChainOk, Pops
<1>3. \A i \in 1 .. n - 1 : i \in 1 .. n /\ i # n
  BY <1>2
<1>4. words \in Seq(Words) /\ Len(words) = Len(jobsNow)
  BY <1>1 DEF WordsOk
<1>5. f # 0 => f \in 1 .. Len(jobsNow)
  BY <1>1, <1>2 DEF ChainOk, EntryOk
<1>6. w \in Words
  BY DEF Words
<1> HIDE DEF n, top, next
<1>7. ChainOk(V, cons, m, s, jobsNow, next)
  <2>1. \A i \in 1 .. n : EntryOk(V, cons, m, s, jobsNow, chainNow[i])
    BY <1>1 DEF ChainOk, n
  <2> QED
    BY <1>2, <1>3, <2>1 DEF ChainOk
<1>8. \A g, i : i \in 1 .. n - 1 => (Activated(next, g, i) <=> Activated(chainNow, g, i))
  BY <1>2 DEF Activated
<1>9. WordsOk(jobsNow, words2, next)
  <2>1. /\ words2 \in Seq(Words) /\ Len(words2) = Len(jobsNow)
        /\ \A g \in 1 .. Len(jobsNow) : words2[g] = words[g] \/ (g = f /\ ~top.clone /\ words2[g] = w)
        /\ f # 0 /\ ~top.clone => words2[f] = w
    <3>1. CASE f = 0 \/ top.clone
      BY <1>4, <3>1 DEF Retired
    <3>2. CASE ~(f = 0 \/ top.clone)
      <4>1. words2 = [words EXCEPT ![f] = w]
        BY <3>2 DEF Retired
      <4> HIDE DEF words2, f
      <4> QED
        BY <1>4, <1>5, <1>6, <3>2, <4>1, WordFacts DEF f
    <3> QED
      BY <3>1, <3>2
  <2> HIDE DEF words2
  <2>2. ASSUME NEW g \in 1 .. Len(jobsNow)
        PROVE  /\ jobsNow[g].kind = "element" => words2[g] # "reent"
               /\ words2[g] \in {"run", "reent"} => \E i \in 1 .. Len(next) : Activated(next, g, i)
               /\ \A i \in 1 .. Len(next) : Activated(next, g, i) => words2[g] \in {"run", "reent"}
               /\ \A i, j \in 1 .. Len(next) : Activated(next, g, i) /\ Activated(next, g, j) => i = j
    <3>1. /\ jobsNow[g].kind = "element" => words[g] # "reent"
          /\ words[g] \in {"run", "reent"} => \E i \in 1 .. n : Activated(chainNow, g, i)
          /\ \A i \in 1 .. n : Activated(chainNow, g, i) => words[g] \in {"run", "reent"}
          /\ \A i, j \in 1 .. n : Activated(chainNow, g, i) /\ Activated(chainNow, g, j) => i = j
      BY <1>1 DEF WordsOk, n
    <3>2. \A i, j \in 1 .. Len(next) : Activated(next, g, i) /\ Activated(next, g, j) => i = j
      BY <1>2, <1>3, <1>8, <3>1
    <3>3. Activated(chainNow, g, n) <=> g = f /\ ~top.clone
      BY <1>2 DEF Activated
    <3>4. n \in 1 .. n /\ \A i \in 1 .. n : i = n \/ i \in 1 .. n - 1
      BY <1>2
    <3>5. CASE g = f /\ ~top.clone
      <4>1. words2[g] = w
        BY <2>1, <3>5
      <4>2. \A i \in 1 .. Len(next) : ~Activated(next, g, i)
        BY <1>2, <1>3, <1>8, <3>1, <3>3, <3>4, <3>5
      <4> QED
        BY <3>2, <4>1, <4>2
    <3>6. CASE ~(g = f /\ ~top.clone)
      <4>1. words2[g] = words[g]
        BY <2>1, <3>6
      <4>2. words[g] \in {"run", "reent"} => \E i \in 1 .. Len(next) : Activated(next, g, i)
        BY <1>2, <1>8, <3>1, <3>3, <3>4, <3>6
      <4>3. \A i \in 1 .. Len(next) : Activated(next, g, i) => words[g] \in {"run", "reent"}
        BY <1>2, <1>3, <1>8, <3>1
      <4> QED
        BY <3>1, <3>2, <4>1, <4>2, <4>3
    <3> QED
      BY <3>5, <3>6
  <2> QED
    BY <2>1, <2>2 DEF WordsOk
<1> QED
  BY <1>1, <1>7, <1>9 DEF MachineOk, top, next

\* A sequence with one more element.
LEMMA AppendFacts ==
  ASSUME NEW S, NEW c \in Seq(S), NEW e \in S
  PROVE  /\ Append(c, e) \in Seq(S) /\ Len(Append(c, e)) = Len(c) + 1 /\ Len(c) \in Nat
         /\ Append(c, e)[Len(c) + 1] = e /\ \A i \in 1 .. Len(c) : Append(c, e)[i] = c[i]
         /\ \A i \in 1 .. Len(c) + 1 : i \in 1 .. Len(c) \/ i = Len(c) + 1
OBVIOUS

\* An entry is added: its agent, if it has one and is no clone, was asleep.
LEMMA PushMachine ==
  ASSUME NEW V, NEW cons, NEW m, NEW s, NEW jobsNow, NEW words, NEW chainNow,
         MachineOk(V, cons, m, s, jobsNow, words, chainNow),
         NEW entry \in Entries(V), EntryOk(V, cons, m, s, jobsNow, entry),
         entry.agent # 0 /\ ~entry.clone => words[entry.agent] = "sleep"
  PROVE  MachineOk(V, cons, m, s, jobsNow, Retired(words, entry, "run"), Append(chainNow, entry))
<1> DEFINE n == Len(chainNow)
           f == entry.agent
           next == Append(chainNow, entry)
           words2 == Retired(words, entry, "run")
<1>1. /\ AreCons(V, cons, m) /\ IsStore(V, s)
      /\ JobsOk(V, cons, m, s, jobsNow) /\ ListenersOk(V, s, jobsNow)
      /\ ChainOk(V, cons, m, s, jobsNow, chainNow) /\ WordsOk(jobsNow, words, chainNow)
  BY DEF MachineOk
<1>2. /\ n \in Nat /\ next \in Seq(Entries(V)) /\ Len(next) = n + 1
      /\ next[n + 1] = entry /\ \A i \in 1 .. n : next[i] = chainNow[i]
      /\ \A i \in 1 .. n + 1 : i \in 1 .. n \/ i = n + 1
  BY <1>1, AppendFacts DEF ChainOk
<1>3. words \in Seq(Words) /\ Len(words) = Len(jobsNow)
  BY <1>1 DEF WordsOk
<1>4. f # 0 => f \in 1 .. Len(jobsNow)
  BY DEF EntryOk
<1>5. "run" \in Words
  BY DEF Words
<1> HIDE DEF n, f, next
<1>6. ChainOk(V, cons, m, s, jobsNow, next)
  <2>1. \A i \in 1 .. n : EntryOk(V, cons, m, s, jobsNow, chainNow[i])
    BY <1>1 DEF ChainOk, n
  <2> QED
    BY <1>2, <2>1 DEF ChainOk
<1>7. \A g, i : i \in 1 .. n => (Activated(next, g, i) <=> Activated(chainNow, g, i))
  BY <1>2 DEF Activated
<1>8. \A g : Activated(next, g, n + 1) <=> g = f /\ ~entry.clone
  BY <1>2 DEF Activated, f
<1>9. WordsOk(jobsNow, words2, next)
  <2>1. /\ words2 \in Seq(Words) /\ Len(words2) = Len(jobsNow)
        /\ \A g \in 1 .. Len(jobsNow) : ~(g = f /\ ~entry.clone) => words2[g] = words[g]
        /\ f # 0 /\ ~entry.clone => words2[f] = "run"
    <3>1. CASE f = 0 \/ entry.clone
      <4>1. words2 = words
        BY <3>1 DEF Retired, f
      <4>2. \A g \in 1 .. Len(jobsNow) : g # 0
        BY <1>2
      <4> QED
        BY <1>3, <3>1, <4>1, <4>2
    <3>2. CASE ~(f = 0 \/ entry.clone)
      <4>1. words2 = [words EXCEPT ![f] = "run"]
        BY <3>2 DEF Retired, f
      <4> HIDE DEF words2
      <4> QED
        BY <1>3, <1>4, <1>5, <3>2, <4>1, WordFacts
    <3> QED
      BY <3>1, <3>2
  <2> HIDE DEF words2
  <2>2. ASSUME NEW g \in 1 .. Len(jobsNow)
        PROVE  /\ jobsNow[g].kind = "element" => words2[g] # "reent"
               /\ words2[g] \in {"run", "reent"} => \E i \in 1 .. Len(next) : Activated(next, g, i)
               /\ \A i \in 1 .. Len(next) : Activated(next, g, i) => words2[g] \in {"run", "reent"}
               /\ \A i, j \in 1 .. Len(next) : Activated(next, g, i) /\ Activated(next, g, j) => i = j
    <3>1. /\ jobsNow[g].kind = "element" => words[g] # "reent"
          /\ words[g] \in {"run", "reent"} => \E i \in 1 .. n : Activated(chainNow, g, i)
          /\ \A i \in 1 .. n : Activated(chainNow, g, i) => words[g] \in {"run", "reent"}
          /\ \A i, j \in 1 .. n : Activated(chainNow, g, i) /\ Activated(chainNow, g, j) => i = j
      BY <1>1 DEF WordsOk, n
    <3>2. n + 1 \in 1 .. n + 1 /\ \A i \in 1 .. n : i \in 1 .. n + 1
      BY <1>2
    <3>3. g # 0
      BY <1>2
    <3>5. CASE g = f /\ ~entry.clone
      <4>1. words2[g] = "run"
        BY <2>1, <3>3, <3>5
      <4>2. \A i \in 1 .. n : ~Activated(chainNow, g, i)
        <5>1. words[g] = "sleep"
          BY <3>3, <3>5 DEF f
        <5> QED
          BY <3>1, <5>1
      <4>3. \A i \in 1 .. Len(next) : Activated(next, g, i) <=> i = n + 1
        BY <1>2, <1>7, <1>8, <3>5, <4>2
      <4> QED
        BY <1>2, <3>2, <4>1, <4>3
    <3>6. CASE ~(g = f /\ ~entry.clone)
      <4>1. words2[g] = words[g]
        BY <2>1, <3>6
      <4>2. \A i \in 1 .. Len(next) : Activated(next, g, i) <=> i \in 1 .. n /\ Activated(chainNow, g, i)
        BY <1>2, <1>7, <1>8, <3>6
      <4> QED
        BY <1>2, <3>1, <3>2, <4>1, <4>2
    <3> QED
      BY <3>5, <3>6
  <2> QED
    BY <2>1, <2>2 DEF WordsOk
<1> QED
  BY <1>1, <1>6, <1>9 DEF MachineOk, next

\* A running agent that is no element agent is marked for re-entry.
LEMMA ReenterMachine ==
  ASSUME NEW V, NEW cons, NEW m, NEW s, NEW jobsNow, NEW words, NEW chainNow,
         MachineOk(V, cons, m, s, jobsNow, words, chainNow),
         NEW f \in 1 .. Len(jobsNow), jobsNow[f].kind # "element", words[f] \in {"run", "reent"}
  PROVE  MachineOk(V, cons, m, s, jobsNow, [words EXCEPT ![f] = "reent"], chainNow)
<1> DEFINE words2 == [words EXCEPT ![f] = "reent"]
<1>1. WordsOk(jobsNow, words, chainNow)
  BY DEF MachineOk
<1>2. words \in Seq(Words) /\ Len(words) = Len(jobsNow) /\ "reent" \in Words
  BY <1>1 DEF WordsOk, Words
<1>3. /\ words2 \in Seq(Words) /\ Len(words2) = Len(jobsNow) /\ words2[f] = "reent"
      /\ \A g \in 1 .. Len(jobsNow) : g # f => words2[g] = words[g]
  BY <1>2, WordFacts
<1> HIDE DEF words2
<1>4. WordsOk(jobsNow, words2, chainNow)
  BY <1>1, <1>3 DEF WordsOk
<1> QED
  BY <1>4 DEF MachineOk, words2

-----------------------------------------------------------------------------
(* Events are handled.                                                     *)

Accs(V) == [status : Seq(Words), chain : Seq(Entries(V))]

\* No agent dies or comes to life, nothing leaves the chain.
Goes(a1, a2) ==
  /\ Len(a2.status) = Len(a1.status)
  /\ \A f \in 1 .. Len(a1.status) : a2.status[f] = "exit" <=> a1.status[f] = "exit"
  /\ \A f : OnChain(a1.chain, f) => OnChain(a2.chain, f)
  /\ \A k, x : ToPost(a1.chain, k, x) => ToPost(a2.chain, k, x)

\* Another activation on the chain takes none away.
LEMMA AppendGoes ==
  ASSUME NEW S, NEW c \in Seq(S), NEW e \in S
  PROVE  /\ \A f : OnChain(c, f) => OnChain(Append(c, e), f)
         /\ \A k, x : ToPost(c, k, x) => ToPost(Append(c, e), k, x)
         /\ ~e.clone => OnChain(Append(c, e), e.agent)
<1> DEFINE d == Append(c, e)
<1>1. \A i \in 1 .. Len(c) : i \in 1 .. Len(d) /\ d[i] = c[i]
  BY AppendFacts
<1>2. Len(c) + 1 \in 1 .. Len(d) /\ d[Len(c) + 1] = e
  BY AppendFacts
<1> HIDE DEF d
<1>3. \A f : OnChain(c, f) => OnChain(d, f)
  BY <1>1 DEF OnChain, Activated
<1>4. \A k, x : ToPost(c, k, x) => ToPost(d, k, x)
  BY <1>1 DEF ToPost
<1>5. ~e.clone => OnChain(d, e.agent)
  BY <1>2 DEF OnChain, Activated
<1> QED
  BY <1>3, <1>4, <1>5 DEF d

\* An agent that an event wakes: it is asleep, or it runs already and gets a clone.
WokenBy(acc, f, elm, clone) ==
  [status |-> [acc.status EXCEPT ![f] = "run"], chain |-> Append(acc.chain, Activation(f, elm, clone))]

MayWake(V, cons, m, s, jobsNow, acc, f, elm, clone) ==
  /\ acc \in Accs(V) /\ MachineOk(V, cons, m, s, jobsNow, acc.status, acc.chain)
  /\ f \in 1 .. Len(jobsNow) /\ elm \in Int \cup {NoElm} /\ ElmFor(s, jobsNow[f], elm)
  /\ acc.status[f] = (IF clone THEN "run" ELSE "sleep") /\ (clone => jobsNow[f].kind = "element")

IsWoken(V, cons, m, s, jobsNow, acc, a2, f, clone) ==
  /\ a2 \in Accs(V) /\ MachineOk(V, cons, m, s, jobsNow, a2.status, a2.chain) /\ Goes(acc, a2)
  /\ ~clone => OnChain(a2.chain, f)

\* A frame that sleeps is put on the chain and marked as running; one that runs may have a clone
\* put there.
LEMMA WokenFacts ==
  ASSUME NEW V, NEW cons, NEW m, NEW s, NEW jobsNow, NEW acc, NEW f, NEW elm, NEW clone \in BOOLEAN,
         MayWake(V, cons, m, s, jobsNow, acc, f, elm, clone), NEW a2, a2 = WokenBy(acc, f, elm, clone)
  PROVE  IsWoken(V, cons, m, s, jobsNow, acc, a2, f, clone)
<1>0. /\ acc \in Accs(V) /\ MachineOk(V, cons, m, s, jobsNow, acc.status, acc.chain)
      /\ f \in 1 .. Len(jobsNow) /\ elm \in Int \cup {NoElm} /\ ElmFor(s, jobsNow[f], elm)
      /\ clone => acc.status[f] = "run"
      /\ ~clone => acc.status[f] = "sleep"
      /\ clone => jobsNow[f].kind = "element"
      /\ a2 = [status |-> [acc.status EXCEPT ![f] = "run"], chain |-> Append(acc.chain, Activation(f, elm, clone))]
  BY DEF MayWake, WokenBy
<1> USE <1>0
<1> DEFINE entry == Activation(f, elm, clone)
           words2 == [acc.status EXCEPT ![f] = "run"]
           chain2 == Append(acc.chain, entry)
<1>1. jobsNow \in Seq(Jobs(V)) /\ Len(jobsNow) \in Nat /\ Len(acc.status) = Len(jobsNow)
  BY DEF MachineOk, JobsOk, WordsOk
<1>2. acc.status \in Seq(Words) /\ acc.chain \in Seq(Entries(V)) /\ "run" \in Words
  BY DEF Accs, Words
<1>3. f \in Nat /\ f # 0 /\ f \in 1 .. Len(acc.status)
  BY <1>1
<1>4. entry \in Entries(V)
  <2>1. <<>> \in Seq(CallsOf(V)) /\ 0 \in Nat
    OBVIOUS
  <2> QED
    BY <1>3, <2>1 DEF Entries, Activation
<1>5. entry.agent = f /\ entry.clone = clone /\ entry.elm = elm
  BY DEF Activation
<1> HIDE DEF entry
<1>6. EntryOk(V, cons, m, s, jobsNow, entry)
  BY <1>3, <1>5 DEF EntryOk
<1>7. Retired(acc.status, entry, "run") = words2
  <2>1. CASE clone
    BY <1>2, <1>3, <1>5, <2>1, WordFacts DEF Retired
  <2>2. CASE ~clone
    BY <1>3, <1>5, <2>2 DEF Retired
  <2> QED
    BY <2>1, <2>2
<1>8. MachineOk(V, cons, m, s, jobsNow, words2, chain2)
  <2>1. entry.agent # 0 /\ ~entry.clone => acc.status[entry.agent] = "sleep"
    BY <1>5
  <2> QED
    BY <1>4, <1>6, <1>7, <2>1, PushMachine
<1>9. /\ words2 \in Seq(Words) /\ Len(words2) = Len(acc.status) /\ words2[f] = "run"
      /\ \A g \in 1 .. Len(acc.status) : g # f => words2[g] = acc.status[g]
  BY <1>2, <1>3, WordFacts
<1>10. chain2 \in Seq(Entries(V))
  BY <1>2, <1>4, AppendFacts
<1>11. /\ \A g : OnChain(acc.chain, g) => OnChain(chain2, g)
       /\ \A k, x : ToPost(acc.chain, k, x) => ToPost(chain2, k, x)
       /\ ~clone => OnChain(chain2, f)
  BY <1>2, <1>4, <1>5, AppendGoes
<1>12. a2.status = words2 /\ a2.chain = chain2
  BY DEF entry
<1>13. a2 \in Accs(V)
  BY <1>9, <1>10 DEF Accs, entry
<1> HIDE DEF words2, chain2
<1>14. Goes(acc, a2)
  <2>1. \A g \in 1 .. Len(acc.status) : words2[g] = "exit" <=> acc.status[g] = "exit"
    BY <1>9
  <2> QED
    BY <1>9, <1>11, <1>12, <2>1 DEF Goes
<1> QED
  BY <1>8, <1>11, <1>12, <1>13, <1>14 DEF IsWoken

\* CONNECT_WOKEN_FRAME_* keeps words and chain in agreement, and whoever hears of an
\* instantiation and lives is on the chain then.
LEMMA ConnectFacts ==
  ASSUME NEW V, NEW cons, NEW m, NEW s, NEW jobsNow, NEW acc \in Accs(V),
         MachineOk(V, cons, m, s, jobsNow, acc.status, acc.chain),
         NEW event \in Events(V), IsOut(s, event), NEW f \in Nat, Hears(s, event.var, event.port, f)
  PROVE  /\ Connect(acc, event, f) \in Accs(V)
         /\ MachineOk(V, cons, m, s, jobsNow, Connect(acc, event, f).status, Connect(acc, event, f).chain)
         /\ Goes(acc, Connect(acc, event, f))
         /\ event.port = "ins" /\ acc.status[f] # "exit" => OnChain(Connect(acc, event, f).chain, f)
<1> DEFINE a2 == Connect(acc, event, f)
           word == acc.status[f]
<1> SUFFICES /\ a2 \in Accs(V)
             /\ MachineOk(V, cons, m, s, jobsNow, a2.status, a2.chain)
             /\ Goes(acc, a2)
             /\ event.port = "ins" /\ word # "exit" => OnChain(a2.chain, f)
  OBVIOUS
<1>1. event.var \in V /\ event.port \in Ports /\ event.elm \in Int \cup {NoElm}
  BY DEF Events
<1>2. /\ f \in 1 .. Len(jobsNow)
      /\ event.port = "dom" => jobsNow[f].kind = "element" /\ jobsNow[f].eqn.y = event.var
      /\ event.port # "dom" => jobsNow[f].kind # "element"
  BY <1>1 DEF MachineOk, ListenersOk
<1>3. ElmFor(s, jobsNow[f], event.elm)
  BY <1>2 DEF ElmFor, IsOut
<1>4. acc.status \in Seq(Words) /\ Len(acc.status) = Len(jobsNow) /\ word \in Words
  BY <1>2 DEF Accs, MachineOk, WordsOk
<1>5. CASE word = "sleep" /\ (event.port = "dom" \/ event.port = "ins" \/ (event.port = "minmax" /\ f # store.seeds[Len(store.queue)]))
  <2>1. a2 = WokenBy(acc, f, event.elm, FALSE)
    BY <1>5 DEF Connect, WokenBy
  <2>2. MayWake(V, cons, m, s, jobsNow, acc, f, event.elm, FALSE)
    BY <1>1, <1>2, <1>3, <1>5 DEF MayWake
  <2> HIDE DEF a2
  <2>3. IsWoken(V, cons, m, s, jobsNow, acc, a2, f, FALSE)
    BY <2>1, <2>2, WokenFacts
  <2> QED
    BY <2>3 DEF IsWoken
<1>6. CASE word = "run" /\ event.port = "dom"
  <2>1. a2 = WokenBy(acc, f, event.elm, TRUE)
    BY <1>6 DEF Connect, WokenBy
  <2>2. MayWake(V, cons, m, s, jobsNow, acc, f, event.elm, TRUE)
    BY <1>1, <1>2, <1>3, <1>6 DEF MayWake
  <2> HIDE DEF a2
  <2>3. IsWoken(V, cons, m, s, jobsNow, acc, a2, f, TRUE)
    BY <2>1, <2>2, WokenFacts
  <2> QED
    BY <1>6, <2>3 DEF IsWoken
<1>7. CASE word \in {"run", "reent"} /\ event.port = "ins"
  <2>1. a2 = [acc EXCEPT !.status[f] = "reent"]
    BY <1>7 DEF Connect
  <2> DEFINE words2 == [acc.status EXCEPT ![f] = "reent"]
  <2>2. a2.status = words2 /\ a2.chain = acc.chain /\ a2 = [acc EXCEPT !.status = words2]
    BY <2>1 DEF Accs
  <2>3. /\ words2 \in Seq(Words) /\ Len(words2) = Len(acc.status) /\ words2[f] = "reent"
        /\ \A g \in 1 .. Len(acc.status) : g # f => words2[g] = acc.status[g]
    BY <1>2, <1>4, WordFacts DEF Words
  <2>4. MachineOk(V, cons, m, s, jobsNow, words2, acc.chain)
    BY <1>2, <1>7, ReenterMachine
  <2> HIDE DEF a2, words2
  <2>5. a2 \in Accs(V)
    BY <2>2, <2>3 DEF Accs
  <2>6. Goes(acc, a2)
    <3>1. \A g \in 1 .. Len(acc.status) : words2[g] = "exit" <=> acc.status[g] = "exit"
      BY <1>7, <2>3
    <3> QED
      BY <2>2, <2>3, <3>1 DEF Goes
  <2>7. OnChain(acc.chain, f)
    <3>1. \E i \in 1 .. Len(acc.chain) : Activated(acc.chain, f, i)
      BY <1>2, <1>7 DEF MachineOk, WordsOk
    <3> QED
      BY <3>1 DEF OnChain
  <2> QED
    BY <2>2, <2>4, <2>5, <2>6, <2>7
<1>8. CASE /\ ~(word = "sleep" /\ (event.port = "dom" \/ event.port = "ins" \/ (event.port = "minmax" /\ f # store.seeds[Len(store.queue)])))
           /\ ~(word = "run" /\ event.port = "dom") /\ ~(word \in {"run", "reent"} /\ event.port = "ins")
  <2>1. a2 = acc
    BY <1>8 DEF Connect
  <2>2. event.port = "ins" => word = "exit"
    BY <1>4, <1>8 DEF Words
  <2> HIDE DEF a2
  <2>3. Goes(acc, acc)
    BY DEF Goes
  <2> QED
    BY <2>1, <2>2, <2>3
<1> QED
  BY <1>5, <1>6, <1>7, <1>8

\* What each step adds, later steps keep.
LEMMA Gathers ==
  ASSUME NEW A, NEW n \in Nat, NEW g, NEW P, g[0] \in A,
         \A i \in 1 .. n : g[i - 1] \in A => g[i] \in A /\ <<i, g[i]>> \in P,
         \A i, j \in 1 .. n : g[i - 1] \in A /\ g[i] \in A /\ <<j, g[i - 1]>> \in P => <<j, g[i]>> \in P
  PROVE  g[n] \in A /\ \A i \in 1 .. n : <<i, g[n]>> \in P
<1> DEFINE T == {m \in Nat : m <= n => g[m] \in A /\ \A j \in 1 .. m : <<j, g[m]>> \in P}
<1>1. 0 \in T
  OBVIOUS
<1>2. ASSUME NEW m \in Nat, m \in T
      PROVE  m + 1 \in T
  <2> SUFFICES ASSUME m + 1 <= n PROVE g[m + 1] \in A /\ \A j \in 1 .. m + 1 : <<j, g[m + 1]>> \in P
    OBVIOUS
  <2>1. m + 1 \in 1 .. n /\ (m + 1) - 1 = m /\ \A j \in 1 .. m + 1 : j = m + 1 \/ (j \in 1 .. m /\ j \in 1 .. n)
    OBVIOUS
  <2>2. g[m] \in A /\ \A j \in 1 .. m : <<j, g[m]>> \in P
    BY <1>2
  <2>3. g[m + 1] \in A /\ <<m + 1, g[m + 1]>> \in P
    BY <2>1, <2>2
  <2>4. \A j \in 1 .. m : <<j, g[m + 1]>> \in P
    <3> SUFFICES ASSUME NEW j \in 1 .. m PROVE <<j, g[m + 1]>> \in P
      OBVIOUS
    <3>1. j \in 1 .. n /\ <<j, g[m]>> \in P
      BY <2>1, <2>2
    <3>2. g[(m + 1) - 1] = g[m]
      BY <2>1
    <3> QED
      BY <2>1, <2>2, <2>3, <3>1, <3>2
  <2> QED
    BY <2>1, <2>3, <2>4
<1>3. Nat \subseteq T
  <2> HIDE DEF T
  <2> QED
    BY <1>1, <1>2, NaturalsFrom, ZenonT(60)
<1> QED
  BY <1>3

\* What handling keeps.
Handled(V, cons, m, s, jobsNow, a1, a2) ==
  a2 \in Accs(V) /\ MachineOk(V, cons, m, s, jobsNow, a2.status, a2.chain) /\ Goes(a1, a2)

\* Keeping activations and words is transitive.
LEMMA GoesOn ==
  ASSUME NEW a1, NEW a2, NEW a3, Goes(a1, a2), Goes(a2, a3)
  PROVE  Goes(a1, a3)
BY DEF Goes

\* An agent that the instantiation of a variable wakes is on the chain afterwards.
Heard(s, event, words, chainNow) ==
  \A f \in Nat : event.port = "ins" /\ Hears(s, event.var, "ins", f) /\ words[f] # "exit" => OnChain(chainNow, f)

\* The walk along the listeners of one event reaches all of them.
LEMMA ToldFacts ==
  ASSUME NEW V, NEW cons, NEW m, NEW jobsNow, NEW acc \in Accs(V),
         MachineOk(V, cons, m, store, jobsNow, acc.status, acc.chain),
         NEW event \in Events(V), IsOut(store, event)
  PROVE  /\ Handled(V, cons, m, store, jobsNow, acc, Told(acc, event))
         /\ Heard(store, event, acc.status, Told(acc, event).chain)
<1> DEFINE cs == store.cs[<<event.var, event.port>>]
           n == Len(cs)
           H(a) == Handled(V, cons, m, store, jobsNow, acc, a)
           A == {a \in Accs(V) : H(a)}
           F == [p \in A \X (1 .. n) |-> Connect(p[1], event, cs[p[2]])]
           G(f) == f = [i \in 0 .. n |-> IF i = 0 THEN acc ELSE Connect(f[i - 1], event, cs[i])]
           S == CHOOSE f : G(f)
           On(i, a) == event.port = "ins" /\ acc.status[cs[i]] # "exit" => OnChain(a.chain, cs[i])
           P == {p \in (1 .. n) \X A : On(p[1], p[2])}
<1>1. n \in Nat /\ (\A i \in 1 .. n : cs[i] \in Nat) /\ IsStore(V, store) /\ cs \in Seq(Nat)
  <2>1. IsStore(V, store)
    BY DEF MachineOk
  <2>2. store.cs \in [V \X Ports -> Seq(Nat)] /\ <<event.var, event.port>> \in V \X Ports
    BY <2>1, StoreFacts DEF Events
  <2>3. cs \in Seq(Nat)
    BY <2>2
  <2> HIDE DEF cs
  <2> QED
    BY <2>1, <2>3
<1>2. \A i \in 1 .. n : Hears(store, event.var, event.port, cs[i])
  BY DEF Hears
<1>3. Len(acc.status) = Len(jobsNow) /\ Len(jobsNow) \in Nat
  BY DEF MachineOk, WordsOk, JobsOk
<1>4. \A a \in A, i \in 1 .. n : F[<<a, i>>] = Connect(a, event, cs[i])
  OBVIOUS
<1>5. \A i \in 1 .. n : cs[i] \in 1 .. Len(acc.status)
  <2>1. ListenersOk(V, store, jobsNow)
    BY DEF MachineOk
  <2>2. event.var \in V /\ event.port \in Ports
    BY DEF Events
  <2> HIDE DEF cs, n
  <2> QED
    BY <1>1, <1>2, <1>3, <2>1, <2>2 DEF ListenersOk
<1>6. \A a : H(a) <=> a \in A
  BY DEF Handled
<1>7. Handled(V, cons, m, store, jobsNow, acc, acc)
  BY DEF Handled, Goes
<1> HIDE DEF F, n, A, cs
<1>8. ASSUME NEW a, H(a), NEW i \in 1 .. n
      PROVE  H(Connect(a, event, cs[i])) /\ On(i, Connect(a, event, cs[i]))
  <2> DEFINE b == Connect(a, event, cs[i])
  <2>1. a \in Accs(V) /\ MachineOk(V, cons, m, store, jobsNow, a.status, a.chain) /\ Goes(acc, a)
    BY <1>8 DEF Handled
  <2>2. cs[i] \in Nat /\ Hears(store, event.var, event.port, cs[i])
    BY <1>1, <1>2
  <2>3. /\ b \in Accs(V) /\ MachineOk(V, cons, m, store, jobsNow, b.status, b.chain) /\ Goes(a, b)
        /\ event.port = "ins" /\ a.status[cs[i]] # "exit" => OnChain(b.chain, cs[i])
    BY <2>1, <2>2, ConnectFacts
  <2>4. a.status[cs[i]] = "exit" <=> acc.status[cs[i]] = "exit"
    BY <1>5, <2>1 DEF Goes
  <2> HIDE DEF b
  <2>5. Goes(acc, b)
    BY <2>1, <2>3, GoesOn
  <2> QED
    BY <2>3, <2>4, <2>5 DEF Handled, b
<1>9. \A a \in A, i \in 1 .. n : F[<<a, i>>] \in A
  BY <1>4, <1>6, <1>8
<1>10. acc \in A
  BY <1>6, <1>7
<1>11. PICK f : IsRecursion(A, acc, n, F, f)
  BY <1>1, <1>9, <1>10, Recursion
<1>12. /\ f = [i \in 0 .. n |-> IF i = 0 THEN acc ELSE F[<<f[i - 1], i>>]]
       /\ \A i \in 0 .. n : f[i] \in A
  BY <1>11 DEF IsRecursion
<1>13. \A i \in 0 .. n : (IF i = 0 THEN acc ELSE F[<<f[i - 1], i>>]) = IF i = 0 THEN acc ELSE Connect(f[i - 1], event, cs[i])
  <2> SUFFICES ASSUME NEW i \in 0 .. n, i # 0 PROVE F[<<f[i - 1], i>>] = Connect(f[i - 1], event, cs[i])
    OBVIOUS
  <2>1. i \in 1 .. n /\ i - 1 \in 0 .. n
    BY <1>1
  <2> QED
    BY <1>4, <1>12, <2>1
<1>14. G(f)
  BY <1>12, <1>13
<1>15. G(S)
  BY <1>14
<1>16. Told(acc, event) = S[n]
  BY DEF Told, n, cs
<1> HIDE DEF S
<1>17. S[0] = acc /\ \A i \in 1 .. n : S[i] = Connect(S[i - 1], event, cs[i])
  BY <1>1, <1>15
<1>18. \A i \in 1 .. n : S[i - 1] \in A => S[i] \in A /\ <<i, S[i]>> \in P
  <2> SUFFICES ASSUME NEW i \in 1 .. n, S[i - 1] \in A PROVE S[i] \in A /\ <<i, S[i]>> \in P
    OBVIOUS
  <2>1. S[i] \in A /\ On(i, S[i])
    BY <1>6, <1>8, <1>17
  <2> QED
    BY <2>1
<1>19. \A i, j \in 1 .. n : S[i - 1] \in A /\ S[i] \in A /\ <<j, S[i - 1]>> \in P => <<j, S[i]>> \in P
  <2> SUFFICES ASSUME NEW i \in 1 .. n, NEW j \in 1 .. n, S[i - 1] \in A, S[i] \in A, <<j, S[i - 1]>> \in P
               PROVE  <<j, S[i]>> \in P
    OBVIOUS
  <2>1. Goes(S[i - 1], S[i])
    <3>1. /\ S[i - 1] \in Accs(V)
          /\ MachineOk(V, cons, m, store, jobsNow, S[i - 1].status, S[i - 1].chain)
      BY <1>6 DEF Handled
    <3>2. S[i] = Connect(S[i - 1], event, cs[i])
      BY <1>17
    <3>3. cs[i] \in Nat /\ Hears(store, event.var, event.port, cs[i])
      BY <1>1, <1>2
    <3> DEFINE a == S[i - 1]
    <3> HIDE DEF a
    <3>4. Goes(a, Connect(a, event, cs[i]))
      BY <3>1, <3>3, ConnectFacts DEF a
    <3> QED
      BY <3>2, <3>4 DEF a
  <2>2. On(j, S[i - 1])
    OBVIOUS
  <2>3. On(j, S[i])
    BY <2>1, <2>2 DEF Goes
  <2> QED
    BY <2>3
<1> HIDE DEF P
<1>20. S[n] \in A /\ \A i \in 1 .. n : <<i, S[n]>> \in P
  BY <1>1, <1>10, <1>17, <1>18, <1>19, Gathers
<1>21. \A i \in 1 .. n : On(i, S[n])
  BY <1>20 DEF P
<1>22. Heard(store, event, acc.status, S[n].chain)
  <2> SUFFICES ASSUME NEW f2 \in Nat, event.port = "ins", Hears(store, event.var, "ins", f2), acc.status[f2] # "exit"
               PROVE  OnChain(S[n].chain, f2)
    BY DEF Heard
  <2>1. PICK i \in 1 .. n : cs[i] = f2
    BY DEF Hears, n, cs
  <2> QED
    BY <1>21, <2>1
<1> QED
  BY <1>6, <1>16, <1>20, <1>22

\* Handle: statuses and chain after all events.
AllTold(acc) ==
  LET n == Len(store.queue)
      all[i \in 0 .. n] == IF i = 0 THEN acc ELSE Told(all[i - 1], store.queue[n + 1 - i])
  IN all[n]

\* trigger_on_handler: every live agent that an instantiation in the queue concerns is on the
\* chain when the queue is done.
LEMMA AllToldFacts ==
  ASSUME NEW V, NEW cons, NEW m, NEW jobsNow, NEW acc \in Accs(V),
         MachineOk(V, cons, m, store, jobsNow, acc.status, acc.chain)
  PROVE  /\ Handled(V, cons, m, store, jobsNow, acc, AllTold(acc))
         /\ \A f \in 1 .. Len(jobsNow) : Wakes(store, f) /\ acc.status[f] # "exit" => OnChain(AllTold(acc).chain, f)
<1> DEFINE n == Len(store.queue)
           Event(i) == store.queue[n + 1 - i]
           H(a) == Handled(V, cons, m, store, jobsNow, acc, a)
           A == {a \in Accs(V) : H(a)}
           F == [p \in A \X (1 .. n) |-> Told(p[1], Event(p[2]))]
           G(f) == f = [i \in 0 .. n |-> IF i = 0 THEN acc ELSE Told(f[i - 1], Event(i))]
           S == CHOOSE f : G(f)
           On(i, a) == \A f \in 1 .. Len(jobsNow) :
                         Event(i).port = "ins" /\ Hears(store, Event(i).var, "ins", f) /\ acc.status[f] # "exit" => OnChain(a.chain, f)
           P == {p \in (1 .. n) \X A : On(p[1], p[2])}
<1>1. n \in Nat /\ \A i \in 1 .. n : Event(i) \in Events(V) /\ IsOut(store, Event(i))
  <2>1. IsStore(V, store)
    BY DEF MachineOk
  <2>2. store.queue \in Seq(Events(V)) /\ n \in Nat
    BY <2>1, StoreFacts
  <2>3. \A j \in 1 .. n : store.queue[j] \in Events(V) /\ IsOut(store, store.queue[j])
    BY <2>1, <2>2 DEF IsStore
  <2>4. \A i \in 1 .. n : n + 1 - i \in 1 .. n
    BY <2>2
  <2> QED
    BY <2>2, <2>3, <2>4
<1>3. Len(acc.status) = Len(jobsNow) /\ Len(jobsNow) \in Nat
  BY DEF MachineOk, WordsOk, JobsOk
<1>4. \A a \in A, i \in 1 .. n : F[<<a, i>>] = Told(a, Event(i))
  OBVIOUS
<1>6. \A a : H(a) <=> a \in A
  BY DEF Handled
<1>7. Handled(V, cons, m, store, jobsNow, acc, acc)
  BY DEF Handled, Goes
<1>16. AllTold(acc) = S[n]
  BY DEF AllTold
<1> HIDE DEF F, n, A, Event
<1>8. ASSUME NEW a, H(a), NEW i \in 1 .. n
      PROVE  H(Told(a, Event(i))) /\ Goes(a, Told(a, Event(i))) /\ On(i, Told(a, Event(i)))
  <2> DEFINE b == Told(a, Event(i))
             e == Event(i)
  <2>1. a \in Accs(V) /\ MachineOk(V, cons, m, store, jobsNow, a.status, a.chain) /\ Goes(acc, a)
    BY <1>8 DEF Handled
  <2>2. e \in Events(V) /\ IsOut(store, e)
    BY <1>1
  <2>3. Handled(V, cons, m, store, jobsNow, a, b) /\ Heard(store, e, a.status, b.chain)
    <3> HIDE DEF e
    <3> QED
      BY <2>1, <2>2, ToldFacts DEF e
  <2>4. \A f \in 1 .. Len(jobsNow) : a.status[f] = "exit" <=> acc.status[f] = "exit"
    BY <1>3, <2>1 DEF Goes
  <2> HIDE DEF b, e
  <2>5. Goes(a, b)
    BY <2>3 DEF Handled
  <2>6. Goes(acc, b)
    BY <2>1, <2>5, GoesOn
  <2>7. H(b)
    BY <2>3, <2>6 DEF Handled
  <2>8. \A f \in 1 .. Len(jobsNow) : f \in Nat
    OBVIOUS
  <2>9. On(i, b)
    BY <2>3, <2>4, <2>8 DEF Heard, e
  <2> QED
    BY <2>5, <2>7, <2>9 DEF b
<1>9. \A a \in A, i \in 1 .. n : F[<<a, i>>] \in A
  BY <1>4, <1>6, <1>8
<1>10. acc \in A
  BY <1>6, <1>7
<1>11. PICK f : IsRecursion(A, acc, n, F, f)
  BY <1>1, <1>9, <1>10, Recursion
<1>12. /\ f = [i \in 0 .. n |-> IF i = 0 THEN acc ELSE F[<<f[i - 1], i>>]]
       /\ \A i \in 0 .. n : f[i] \in A
  BY <1>11 DEF IsRecursion
<1>13. \A i \in 0 .. n : (IF i = 0 THEN acc ELSE F[<<f[i - 1], i>>]) = IF i = 0 THEN acc ELSE Told(f[i - 1], Event(i))
  <2> SUFFICES ASSUME NEW i \in 0 .. n, i # 0 PROVE F[<<f[i - 1], i>>] = Told(f[i - 1], Event(i))
    OBVIOUS
  <2>1. i \in 1 .. n /\ i - 1 \in 0 .. n
    BY <1>1
  <2> QED
    BY <1>4, <1>12, <2>1
<1>14. G(f)
  BY <1>12, <1>13
<1>15. G(S)
  BY <1>14
<1> HIDE DEF S
<1>17. S[0] = acc /\ \A i \in 1 .. n : S[i] = Told(S[i - 1], Event(i))
  BY <1>1, <1>15
<1>18. \A i \in 1 .. n : S[i - 1] \in A => S[i] \in A /\ <<i, S[i]>> \in P
  <2> SUFFICES ASSUME NEW i \in 1 .. n, S[i - 1] \in A PROVE S[i] \in A /\ <<i, S[i]>> \in P
    OBVIOUS
  <2>1. S[i] \in A /\ On(i, S[i])
    BY <1>6, <1>8, <1>17
  <2> HIDE DEF On
  <2> QED
    BY <2>1
<1>19. \A i, j \in 1 .. n : S[i - 1] \in A /\ S[i] \in A /\ <<j, S[i - 1]>> \in P => <<j, S[i]>> \in P
  <2> SUFFICES ASSUME NEW i \in 1 .. n, NEW j \in 1 .. n, S[i - 1] \in A, S[i] \in A, <<j, S[i - 1]>> \in P
               PROVE  <<j, S[i]>> \in P
    OBVIOUS
  <2>1. Goes(S[i - 1], S[i])
    BY <1>6, <1>8, <1>17
  <2>2. On(j, S[i - 1])
    <3> HIDE DEF On
    <3> QED
      OBVIOUS
  <2>3. On(j, S[i])
    BY <2>1, <2>2 DEF Goes
  <2> HIDE DEF On
  <2> QED
    BY <2>3
<1> HIDE DEF P
<1>20. S[n] \in A /\ \A i \in 1 .. n : <<i, S[n]>> \in P
  BY <1>1, <1>10, <1>17, <1>18, <1>19, Gathers
<1>21. \A i \in 1 .. n : On(i, S[n])
  <2> HIDE DEF On
  <2> QED
    BY <1>20 DEF P
<1>22. ASSUME NEW f2 \in 1 .. Len(jobsNow), Wakes(store, f2), acc.status[f2] # "exit"
       PROVE  OnChain(S[n].chain, f2)
  <2>1. PICK i \in 1 .. n : store.queue[i].port = "ins" /\ Hears(store, store.queue[i].var, "ins", f2)
    BY <1>22 DEF Wakes, n
  <2>2. n + 1 - i \in 1 .. n /\ n + 1 - (n + 1 - i) = i
    BY <1>1
  <2>3. Event(n + 1 - i) = store.queue[i]
    BY <2>2 DEF Event
  <2> QED
    BY <1>21, <1>22, <2>1, <2>2, <2>3
<1> QED
  BY <1>6, <1>16, <1>20, <1>22

\* The queue is emptied.
LEMMA EmptiedFacts ==
  ASSUME NEW V, NEW cons, NEW m, NEW s, NEW jobsNow, NEW words, NEW chainNow,
         MachineOk(V, cons, m, s, jobsNow, words, chainNow),
         NEW t, t = [s EXCEPT !.queue = <<>>]
  PROVE  /\ MachineOk(V, cons, m, t, jobsNow, words, chainNow)
         /\ t.dom = s.dom /\ t.state = s.state /\ t.cs = s.cs
<1>1. /\ AreCons(V, cons, m) /\ IsStore(V, s)
      /\ JobsOk(V, cons, m, s, jobsNow) /\ ListenersOk(V, s, jobsNow)
      /\ ChainOk(V, cons, m, s, jobsNow, chainNow) /\ WordsOk(jobsNow, words, chainNow)
  BY DEF MachineOk
<1>2. /\ t \in Stores(V) /\ t.dom = s.dom /\ t.state = s.state /\ t.cs = s.cs /\ t.bv = s.bv /\ t.queue = <<>>
  <2>1. s \in Stores(V)
    BY <1>1 DEF IsStore
  <2>2. <<>> \in Seq(Events(V))
    OBVIOUS
  <2> QED
    BY <2>1, <2>2 DEF Stores
<1>3. IsStore(V, t)
  BY <1>1, <1>2, PropagatorsAssumption DEF IsStore
<1>4. JobsOk(V, cons, m, t, jobsNow)
  BY <1>1, <1>2, SameDomains DEF JobsOk
<1>5. ListenersOk(V, t, jobsNow)
  BY <1>1, <1>2 DEF ListenersOk, Hears
<1>6. ChainOk(V, cons, m, t, jobsNow, chainNow)
  BY <1>1, <1>2, SameDomains DEF ChainOk, EntryOk
<1> QED
  BY <1>1, <1>2, <1>3, <1>4, <1>5, <1>6 DEF MachineOk

\* Handling a queue keeps the machine in order and every constraint covered.
LEMMA HandleStep ==
  ASSUME NEW V, NEW cons, NEW m, NEW jobsNow, NEW words, NEW chainNow,
         MachineOk(V, cons, m, store, jobsNow, words, chainNow),
         NEW a2, a2 = AllTold([status |-> words, chain |-> chainNow]),
         NEW t, t = [store EXCEPT !.queue = <<>>]
  PROVE  /\ MachineOk(V, cons, m, t, jobsNow, a2.status, a2.chain)
         /\ \A k : Keeps(V, k, store, jobsNow, words, chainNow, t, jobsNow, a2.status, a2.chain)
<1> DEFINE acc == [status |-> words, chain |-> chainNow]
<1>1. words \in Seq(Words) /\ chainNow \in Seq(Entries(V)) /\ Len(words) = Len(jobsNow)
  BY DEF MachineOk, WordsOk, ChainOk
<1>2. acc \in Accs(V) /\ acc.status = words /\ acc.chain = chainNow
  BY <1>1 DEF Accs
<1> HIDE DEF acc
<1>3. /\ Handled(V, cons, m, store, jobsNow, acc, a2)
      /\ \A f \in 1 .. Len(jobsNow) : Wakes(store, f) /\ acc.status[f] # "exit" => OnChain(a2.chain, f)
  BY <1>2, AllToldFacts DEF acc
<1>4. MachineOk(V, cons, m, store, jobsNow, a2.status, a2.chain) /\ Goes(acc, a2)
  BY <1>3 DEF Handled
<1>5. MachineOk(V, cons, m, t, jobsNow, a2.status, a2.chain) /\ t.dom = store.dom /\ t.cs = store.cs
  BY <1>4, EmptiedFacts
<1>6. ASSUME NEW k PROVE Keeps(V, k, store, jobsNow, words, chainNow, t, jobsNow, a2.status, a2.chain)
  <2>1. \A f \in 1 .. Len(jobsNow) : a2.status[f] = "exit" <=> words[f] = "exit"
    BY <1>1, <1>2, <1>4 DEF Goes
  <2>2. \A f \in Nat : Guardian(jobsNow, words, k, f) => Guardian(jobsNow, a2.status, k, f)
    BY <2>1 DEF Guardian
  <2>3. \A f, x : Hears(store, x, "ins", f) => Hears(t, x, "ins", f)
    BY <1>5 DEF Hears
  <2>4. \A x : ToPost(chainNow, k, x) => ToPost(a2.chain, k, x)
    BY <1>2, <1>4 DEF Goes
  <2>5. \A f : OnChain(chainNow, f) => OnChain(a2.chain, f)
    BY <1>2, <1>4 DEF Goes
  <2>6. \A f \in Nat : Guardian(jobsNow, words, k, f) /\ Wakes(store, f) => OnChain(a2.chain, f)
    BY <1>2, <1>3 DEF Guardian
  <2> QED
    BY <1>5, <2>2, <2>3, <2>4, <2>5, <2>6 DEF Keeps
<1> QED
  BY <1>5, <1>6

-----------------------------------------------------------------------------
(* What taking an entry off the chain, and adding one, keep.               *)

\* An activation that leaves the chain takes along only what it was itself.
LEMMA PopKeeps ==
  ASSUME NEW V, NEW cons, NEW m, NEW s, NEW jobsNow, NEW words, NEW chainNow,
         MachineOk(V, cons, m, s, jobsNow, words, chainNow), chainNow # <<>>, NEW w \in {"sleep", "exit"}, NEW k,
         NEW top, top = Last(chainNow)
  PROVE  /\ \A g \in Nat : Guardian(jobsNow, words, k, g) /\ (g # top.agent \/ top.clone \/ w # "exit")
                             => Guardian(jobsNow, Retired(words, top, w), k, g)
         /\ \A x : ToPost(chainNow, k, x) /\ (top.agent # 0 \/ top.post # k) => ToPost(Front(chainNow), k, x)
         /\ \A g : OnChain(chainNow, g) /\ (g # top.agent \/ top.clone) => OnChain(Front(chainNow), g)
<1> DEFINE n == Len(chainNow)
           f == top.agent
           next == Front(chainNow)
           words2 == Retired(words, top, w)
<1>1. /\ ChainOk(V, cons, m, s, jobsNow, chainNow) /\ WordsOk(jobsNow, words, chainNow)
  BY DEF MachineOk
<1>2. /\ n \in Nat \ {0} /\ top = chainNow[n]
      /\ Len(next) = n - 1 /\ \A i \in 1 .. n - 1 : next[i] = chainNow[i]
  BY <1>1, FrontFacts DEF ChainOk, Pops
<1>3. \A i \in 1 .. n : i = n \/ i \in 1 .. Len(next)
  BY <1>2
<1>4. words \in Seq(Words) /\ Len(words) = Len(jobsNow)
  BY <1>1 DEF WordsOk
<1>5. f # 0 => f \in 1 .. Len(jobsNow)
  BY <1>1, <1>2 DEF ChainOk, EntryOk
<1>6. w \in Words
  BY DEF Words
<1> HIDE DEF n, next, f
<1>7. \A g \in 1 .. Len(jobsNow) : words2[g] = words[g] \/ (g = f /\ ~top.clone /\ words2[g] = w)
  <2>1. CASE f = 0 \/ top.clone
    BY <1>4, <2>1 DEF Retired, f
  <2>2. CASE ~(f = 0 \/ top.clone)
    <3>1. words2 = [words EXCEPT ![f] = w]
      BY <2>2 DEF Retired, f
    <3> HIDE DEF words2
    <3> QED
      BY <1>4, <1>5, <1>6, <2>2, <3>1, WordFacts
  <2> QED
    BY <2>1, <2>2
<1> HIDE DEF words2
<1>8. \A g \in Nat : Guardian(jobsNow, words, k, g) /\ (g # f \/ top.clone \/ w # "exit") => Guardian(jobsNow, words2, k, g)
  BY <1>7 DEF Guardian
<1>9. \A x : ToPost(chainNow, k, x) /\ (f # 0 \/ top.post # k) => ToPost(next, k, x)
  <2> SUFFICES ASSUME NEW x, ToPost(chainNow, k, x), f # 0 \/ top.post # k PROVE ToPost(next, k, x)
    OBVIOUS
  <2>1. PICK i \in 1 .. n :
          /\ chainNow[i].agent = 0 /\ chainNow[i].post = k
          /\ \E j \in 1 .. Len(chainNow[i].todo) : chainNow[i].todo[j].call = "bounds" /\ chainNow[i].todo[j].eqn.y = x
    BY DEF ToPost, n
  <2>2. i # n
    BY <1>2, <2>1 DEF f
  <2>3. i \in 1 .. Len(next) /\ next[i] = chainNow[i]
    BY <1>2, <1>3, <2>2
  <2> QED
    BY <2>1, <2>3 DEF ToPost
<1>10. \A g : OnChain(chainNow, g) /\ (g # f \/ top.clone) => OnChain(next, g)
  <2> SUFFICES ASSUME NEW g, OnChain(chainNow, g), g # f \/ top.clone PROVE OnChain(next, g)
    OBVIOUS
  <2>1. PICK i \in 1 .. n : Activated(chainNow, g, i)
    BY DEF OnChain, n
  <2>2. i # n
    BY <1>2, <2>1 DEF f, Activated
  <2>3. i \in 1 .. Len(next) /\ next[i] = chainNow[i]
    BY <1>2, <1>3, <2>2
  <2> QED
    BY <2>1, <2>3 DEF OnChain, Activated
<1> QED
  BY <1>8, <1>9, <1>10 DEF next, f, words2

\* An activation that comes onto the chain takes nothing away.
LEMMA PushKeeps ==
  ASSUME NEW V, NEW cons, NEW m, NEW s, NEW jobsNow, NEW words, NEW chainNow,
         MachineOk(V, cons, m, s, jobsNow, words, chainNow),
         NEW entry \in Entries(V), EntryOk(V, cons, m, s, jobsNow, entry), NEW k
  PROVE  /\ \A g \in Nat : Guardian(jobsNow, words, k, g) => Guardian(jobsNow, Retired(words, entry, "run"), k, g)
         /\ \A x : ToPost(chainNow, k, x) => ToPost(Append(chainNow, entry), k, x)
         /\ \A g : OnChain(chainNow, g) => OnChain(Append(chainNow, entry), g)
<1> DEFINE words2 == Retired(words, entry, "run")
           f == entry.agent
<1>1. words \in Seq(Words) /\ Len(words) = Len(jobsNow) /\ chainNow \in Seq(Entries(V))
  BY DEF MachineOk, WordsOk, ChainOk
<1>2. f # 0 => f \in 1 .. Len(jobsNow)
  BY DEF EntryOk
<1>3. \A g \in 1 .. Len(jobsNow) : words2[g] = words[g] \/ words2[g] = "run"
  <2>1. CASE f = 0 \/ entry.clone
    BY <1>1, <2>1 DEF Retired
  <2>2. CASE ~(f = 0 \/ entry.clone)
    <3>1. words2 = [words EXCEPT ![f] = "run"]
      BY <2>2 DEF Retired
    <3> HIDE DEF words2, f
    <3>2. "run" \in Words
      BY DEF Words
    <3> QED
      BY <1>1, <1>2, <2>2, <3>1, <3>2, WordFacts
  <2> QED
    BY <2>1, <2>2
<1> HIDE DEF words2
<1>4. \A g \in Nat : Guardian(jobsNow, words, k, g) => Guardian(jobsNow, words2, k, g)
  BY <1>3 DEF Guardian
<1> QED
  BY <1>1, <1>4, AppendGoes DEF words2

-----------------------------------------------------------------------------
(* An equation of two free variables is split.                             *)

\* call_binary_constr_eq: the five calls, of the equation or of its mirror image.
LEMMA CallsFacts ==
  ASSUME NEW V, NEW e \in Eqns(V)
  PROVE  /\ Calls(e) \in Seq(CallsOf(V)) /\ Len(Calls(e)) = 5
         /\ \A i \in 1 .. 5 : Calls(e)[i].eqn = e \/ Calls(e)[i].eqn = Mirror(e)
         /\ Calls(e)[1] = [call |-> "bounds", eqn |-> e] /\ Calls(e)[2] = [call |-> "bounds", eqn |-> Mirror(e)]
<1> DEFINE c1 == [call |-> "bounds", eqn |-> e]
           c2 == [call |-> "bounds", eqn |-> Mirror(e)]
           c3 == [call |-> "support", eqn |-> e]
           c4 == [call |-> "element", eqn |-> e]
           c5 == [call |-> "element", eqn |-> Mirror(e)]
<1>1. c1 \in CallsOf(V) /\ c2 \in CallsOf(V) /\ c3 \in CallsOf(V) /\ c4 \in CallsOf(V) /\ c5 \in CallsOf(V)
  BY MirrorFacts DEF CallsOf
<1>2. c1.eqn = e /\ c2.eqn = Mirror(e) /\ c3.eqn = e /\ c4.eqn = e /\ c5.eqn = Mirror(e)
  OBVIOUS
<1>3. Calls(e) = <<c1, c2, c3, c4, c5>>
  BY DEF Calls
<1>4. c1 = [call |-> "bounds", eqn |-> e] /\ c2 = [call |-> "bounds", eqn |-> Mirror(e)]
  OBVIOUS
<1> HIDE DEF c1, c2, c3, c4, c5
<1>5. \A i \in 1 .. 5 : i = 1 \/ i = 2 \/ i = 3 \/ i = 4 \/ i = 5
  OBVIOUS
<1>6. /\ Len(Calls(e)) = 5 /\ Calls(e) \in Seq(CallsOf(V))
      /\ Calls(e)[1] = c1 /\ Calls(e)[2] = c2 /\ Calls(e)[3] = c3 /\ Calls(e)[4] = c4 /\ Calls(e)[5] = c5
  BY <1>1, <1>3
<1> QED
  BY <1>2, <1>4, <1>5, <1>6

\* A constraint that is about to be posted as a binary equation is covered by the calls to come.
LEMMA SplitPoster ==
  ASSUME NEW V, NEW cons, NEW m \in Nat, NEW s, NEW jobsNow, NEW k \in 1 .. m, NEW e \in Eqns(V), NEW r,
         SplitsInto(V, cons[k], s, r, e)
  PROVE  /\ Poster(k, r.todo) \in Entries(V) /\ EntryOk(V, cons, m, s, jobsNow, Poster(k, r.todo))
         /\ r.s = s /\ r.exit = TRUE /\ r.todo # <<>>
         /\ \A c \in Seq(Entries(V)) : \A words :
              /\ Heeded(cons[k], k, s, jobsNow, words, Append(c, Poster(k, r.todo)))
              /\ Moving(cons[k], k, s, jobsNow, words, Append(c, Poster(k, r.todo)))
<1> DEFINE p == Poster(k, r.todo)
           con == cons[k]
<1>1. /\ r.s = s /\ r.exit = TRUE /\ r.todo = Calls(e)
      /\ e.x \in VarsOf(con) /\ e.y \in VarsOf(con)
      /\ Equivalent(V, s, Sat(V, con), EqnSat(V, e))
      /\ \A x \in VarsOf(con) : Bound(s, x) \/ x = e.x \/ x = e.y
  BY DEF SplitsInto
<1>2. /\ r.todo \in Seq(CallsOf(V)) /\ Len(r.todo) = 5
      /\ \A i \in 1 .. 5 : r.todo[i].eqn = e \/ r.todo[i].eqn = Mirror(e)
      /\ r.todo[1].call = "bounds" /\ r.todo[1].eqn = e /\ r.todo[2].call = "bounds" /\ r.todo[2].eqn = Mirror(e)
  <2>1. r.todo = Calls(e)
    BY <1>1
  <2>2. /\ Calls(e) \in Seq(CallsOf(V)) /\ Len(Calls(e)) = 5
        /\ \A i \in 1 .. 5 : Calls(e)[i].eqn = e \/ Calls(e)[i].eqn = Mirror(e)
    BY CallsFacts
  <2>3. /\ Calls(e)[1] = [call |-> "bounds", eqn |-> e] /\ Calls(e)[2] = [call |-> "bounds", eqn |-> Mirror(e)]
    BY CallsFacts
  <2>4. /\ Calls(e)[1].call = "bounds" /\ Calls(e)[1].eqn = e
        /\ Calls(e)[2].call = "bounds" /\ Calls(e)[2].eqn = Mirror(e)
    BY <2>3
  <2> QED
    BY <2>1, <2>2, <2>4
<1>3. /\ p.agent = 0 /\ p.post = k /\ p.todo = r.todo /\ p.clone = FALSE
  BY DEF Poster
<1>4. p \in Entries(V)
  <2>1. k \in Nat /\ 0 \in Nat /\ FALSE \in BOOLEAN /\ NoElm \in Int \cup {NoElm}
    OBVIOUS
  <2> QED
    BY <1>2, <2>1 DEF Poster, Entries
<1> HIDE DEF p
<1>5. StandsFor(V, s, con, e) /\ StandsFor(V, s, con, Mirror(e))
  BY <1>1, MirrorFacts DEF StandsFor
<1>6. r.todo # <<>>
  BY <1>2
<1>7. EntryOk(V, cons, m, s, jobsNow, p)
  BY <1>2, <1>3, <1>5, <1>6 DEF EntryOk
<1>8. ASSUME NEW c \in Seq(Entries(V))
      PROVE  ToPost(Append(c, p), k, e.y) /\ ToPost(Append(c, p), k, e.x)
  <2> DEFINE d == Append(c, p)
  <2>1. Len(c) + 1 \in 1 .. Len(d) /\ d[Len(c) + 1] = p
    BY <1>4, AppendFacts
  <2> HIDE DEF d
  <2>2. 1 \in 1 .. Len(r.todo) /\ 2 \in 1 .. Len(r.todo)
    BY <1>2
  <2>5. r.todo[2].eqn.y = e.x
    <3>1. Mirror(e).y = e.x
      BY MirrorFacts
    <3> QED
      BY <1>2, <3>1
  <2>3. ToPost(d, k, e.y)
    BY <1>2, <1>3, <2>1, <2>2 DEF ToPost
  <2>4. ToPost(d, k, e.x)
    BY <1>2, <1>3, <2>1, <2>2, <2>5 DEF ToPost
  <2> QED
    BY <2>3, <2>4 DEF d
<1>9. \A c \in Seq(Entries(V)) : \A words :
        Heeded(con, k, s, jobsNow, words, Append(c, p)) /\ Moving(con, k, s, jobsNow, words, Append(c, p))
  BY <1>1, <1>8 DEF Heeded, Moving
<1> QED
  BY <1>1, <1>4, <1>6, <1>7, <1>9 DEF p

-----------------------------------------------------------------------------
(* An agent runs.                                                          *)

Again(words, top, r) == ~top.clone /\ ~r.exit /\ words[top.agent] = "reent"

RunWords(words, top, r) ==
  IF top.clone THEN words
  ELSE [words EXCEPT ![top.agent] = IF r.exit THEN "exit" ELSE IF Again(words, top, r) THEN "run" ELSE "sleep"]

RunChain(words, chainNow, top, k, r) ==
  Front(chainNow) \o (IF Again(words, top, r) THEN <<[top EXCEPT !.elm = NoElm]>>
                      ELSE IF r.todo /= <<>> THEN <<Poster(k, r.todo)>> ELSE <<>>)

\* What the other agents notice.
Ran(jobsNow, words, chainNow, f, exit, words2, chain2) ==
  /\ \A k : \A g \in Nat : Guardian(jobsNow, words, k, g) /\ (g # f \/ ~exit) => Guardian(jobsNow, words2, k, g)
  /\ \A k, x : ToPost(chainNow, k, x) => ToPost(chain2, k, x)
  /\ \A g : OnChain(chainNow, g) /\ g # f => OnChain(chain2, g)

\* An activation that returns leaves the machine in order.
LEMMA RunMachine ==
  ASSUME NEW V, NEW cons, NEW m, NEW s, NEW jobsNow, NEW words, NEW chainNow,
         MachineOk(V, cons, m, s, jobsNow, words, chainNow), chainNow # <<>>,
         NEW top, top = Last(chainNow), top.agent # 0, NEW job, job = jobsNow[top.agent],
         NEW r, Serves(V, cons[job.post], s, job, r),
         NEW words2, words2 = RunWords(words, top, r), NEW chain2, chain2 = RunChain(words, chainNow, top, job.post, r)
  PROVE  /\ MachineOk(V, cons, m, s, jobsNow, words2, chain2)
         /\ Ran(jobsNow, words, chainNow, top.agent, r.exit, words2, chain2)
         /\ r.todo # <<>> =>
              /\ \E e \in Eqns(V) : SplitsInto(V, cons[job.post], s, r, e)
              /\ Front(chainNow) \in Seq(Entries(V)) /\ chain2 = Append(Front(chainNow), Poster(job.post, r.todo))
<1> DEFINE f == top.agent
           c1 == Front(chainNow)
           w1 == IF r.exit THEN "exit" ELSE "sleep"
           words1 == Retired(words, top, w1)
           again == Again(words, top, r)
<1>1. /\ ChainOk(V, cons, m, s, jobsNow, chainNow) /\ WordsOk(jobsNow, words, chainNow) /\ m \in Nat
      /\ JobsOk(V, cons, m, s, jobsNow)
  BY DEF MachineOk, AreCons
<1>2. /\ c1 \in Seq(Entries(V)) /\ c1 \o <<>> = c1
      /\ \A e \in Entries(V) : c1 \o <<e>> = Append(c1, e)
      /\ top \in Entries(V) /\ Len(chainNow) \in Nat \ {0} /\ top = chainNow[Len(chainNow)]
  BY <1>1, FrontFacts DEF ChainOk
<1>3. EntryOk(V, cons, m, s, jobsNow, top)
  BY <1>1, <1>2 DEF ChainOk
<1>4. f \in 1 .. Len(jobsNow) /\ f \in Nat /\ (top.clone => job.kind = "element") /\ top.clone \in BOOLEAN
  <2>1. f \in 1 .. Len(jobsNow) /\ (top.clone => job.kind = "element")
    BY <1>3 DEF EntryOk
  <2>2. f \in Nat /\ top.clone \in BOOLEAN
    BY <1>2 DEF Entries
  <2> QED
    BY <2>1, <2>2
<1>5. words \in Seq(Words) /\ Len(words) = Len(jobsNow) /\ job.post \in 1 .. m
  BY <1>1, <1>4 DEF WordsOk, JobsOk
<1>6. MachineOk(V, cons, m, s, jobsNow, words1, c1)
  BY PopMachine
<1>7. ASSUME NEW k
      PROVE  /\ \A g \in Nat : Guardian(jobsNow, words, k, g) /\ (g # f \/ ~r.exit) => Guardian(jobsNow, words1, k, g)
             /\ \A x : ToPost(chainNow, k, x) => ToPost(c1, k, x)
             /\ \A g : OnChain(chainNow, g) /\ g # f => OnChain(c1, g)
  <2>1. w1 \in {"sleep", "exit"} /\ (~r.exit => w1 # "exit")
    OBVIOUS
  <2> HIDE DEF w1
  <2> QED
    BY <2>1, PopKeeps
<1>8. r.todo # <<>> => /\ r.exit = TRUE /\ ~top.clone
                       /\ \E e \in Eqns(V) : SplitsInto(V, cons[job.post], s, r, e)
  <2> SUFFICES ASSUME r.todo # <<>> PROVE /\ r.exit = TRUE /\ ~top.clone
                       /\ \E e \in Eqns(V) : SplitsInto(V, cons[job.post], s, r, e)
    OBVIOUS
  <2>1. job.kind = "IntervalEq" /\ \E e \in Eqns(V) : SplitsInto(V, cons[job.post], s, r, e)
    BY DEF Serves
  <2> QED
    BY <1>4, <2>1 DEF SplitsInto
<1>9. words1 = IF top.clone THEN words ELSE [words EXCEPT ![f] = w1]
  BY <1>4 DEF Retired
<1>10. CASE again
  <2> DEFINE entry == [top EXCEPT !.elm = NoElm]
  <2>1. ~top.clone /\ ~r.exit /\ words[f] = "reent" /\ r.todo = <<>>
    BY <1>8, <1>10 DEF Again
  <2>2. entry \in Entries(V) /\ entry.agent = f /\ entry.clone = top.clone /\ entry.elm = NoElm
    <3>1. NoElm \in Int \cup {NoElm}
      OBVIOUS
    <3> QED
      BY <1>2, <3>1 DEF Entries
  <2>3. chain2 = Append(c1, entry)
    <3>1. chain2 = c1 \o <<entry>>
      BY <1>10 DEF RunChain
    <3> HIDE DEF entry, c1
    <3> QED
      BY <1>2, <2>2, <3>1
  <2> HIDE DEF entry
  <2>4. jobsNow[f].kind # "element"
    BY <1>1, <1>4, <2>1 DEF WordsOk
  <2>5. EntryOk(V, cons, m, s, jobsNow, entry)
    BY <1>4, <2>1, <2>2, <2>4 DEF EntryOk, ElmFor
  <2>6. words1 = [words EXCEPT ![f] = "sleep"]
    BY <1>9, <2>1
  <2>7. words2 = [words EXCEPT ![f] = "run"]
    BY <1>10, <2>1 DEF RunWords
  <2>8. words1[f] = "sleep" /\ Retired(words1, entry, "run") = words2
    <3>1. /\ [words EXCEPT ![f] = "sleep"][f] = "sleep"
          /\ [[words EXCEPT ![f] = "sleep"] EXCEPT ![f] = "run"] = [words EXCEPT ![f] = "run"]
      BY <1>4, <1>5, WordFacts DEF Words
    <3>2. Retired(words1, entry, "run") = [words1 EXCEPT ![f] = "run"]
      BY <2>1, <2>2 DEF Retired
    <3> HIDE DEF words1
    <3> QED
      BY <2>6, <2>7, <3>1, <3>2
  <2> HIDE DEF words1, c1
  <2>9. MachineOk(V, cons, m, s, jobsNow, words2, chain2)
    BY <1>6, <2>2, <2>3, <2>5, <2>8, PushMachine
  <2>10. ASSUME NEW k
         PROVE  /\ \A g \in Nat : Guardian(jobsNow, words1, k, g) => Guardian(jobsNow, words2, k, g)
                /\ \A x : ToPost(c1, k, x) => ToPost(chain2, k, x)
                /\ \A g : OnChain(c1, g) => OnChain(chain2, g)
    BY <1>6, <2>2, <2>3, <2>5, <2>8, PushKeeps
  <2>11. Ran(jobsNow, words, chainNow, f, r.exit, words2, chain2)
    BY <1>7, <2>10 DEF Ran
  <2> QED
    BY <2>1, <2>9, <2>11
<1>11. CASE ~again /\ r.todo # <<>>
  <2> DEFINE entry == Poster(job.post, r.todo)
  <2>1. r.exit = TRUE /\ ~top.clone
    BY <1>8, <1>11
  <2>2. PICK e \in Eqns(V) : SplitsInto(V, cons[job.post], s, r, e)
    BY <1>8, <1>11
  <2>3. entry \in Entries(V) /\ EntryOk(V, cons, m, s, jobsNow, entry)
    BY <1>1, <1>5, <2>2, SplitPoster
  <2>4. entry.agent = 0
    BY DEF Poster
  <2>5. chain2 = Append(c1, entry)
    <3>1. chain2 = c1 \o <<entry>>
      BY <1>11 DEF RunChain
    <3> HIDE DEF entry, c1
    <3> QED
      BY <1>2, <2>3, <3>1
  <2>6. words1 = words2
    BY <1>9, <2>1 DEF RunWords
  <2> HIDE DEF entry, words1, c1
  <2>7. Retired(words1, entry, "run") = words2
    BY <2>4, <2>6 DEF Retired
  <2>9. MachineOk(V, cons, m, s, jobsNow, words2, chain2)
    BY <1>6, <2>3, <2>4, <2>5, <2>7, PushMachine
  <2>10. ASSUME NEW k
         PROVE  /\ \A g \in Nat : Guardian(jobsNow, words1, k, g) => Guardian(jobsNow, words2, k, g)
                /\ \A x : ToPost(c1, k, x) => ToPost(chain2, k, x)
                /\ \A g : OnChain(c1, g) => OnChain(chain2, g)
    BY <1>6, <2>3, <2>5, <2>7, PushKeeps
  <2>11. Ran(jobsNow, words, chainNow, f, r.exit, words2, chain2)
    BY <1>7, <2>10 DEF Ran
  <2> QED
    BY <1>2, <2>2, <2>5, <2>9, <2>11 DEF entry, c1
<1>12. CASE ~again /\ r.todo = <<>>
  <2>1. chain2 = c1
    <3>1. chain2 = c1 \o <<>>
      BY <1>12 DEF RunChain
    <3> QED
      BY <1>2, <3>1
  <2>2. words1 = words2
    BY <1>9, <1>12 DEF RunWords
  <2> HIDE DEF words1, c1
  <2>3. Ran(jobsNow, words, chainNow, f, r.exit, words2, chain2)
    BY <1>7, <2>1, <2>2 DEF Ran
  <2> QED
    BY <1>6, <1>12, <2>1, <2>2, <2>3
<1> QED
  BY <1>10, <1>11, <1>12

\* An activation that returns leaves every constraint covered: its own because the body did what
\* it could, listens on, or left the calls of a binary equation.
LEMMA RunCovers ==
  ASSUME NEW V, NEW cons, NEW m, NEW s, NEW jobsNow, NEW words, NEW chainNow,
         MachineOk(V, cons, m, s, jobsNow, words, chainNow), chainNow # <<>>,
         NEW top, top = Last(chainNow), top.agent # 0, NEW job, job = jobsNow[top.agent],
         NEW r, Serves(V, cons[job.post], s, job, r), r.s.state = "ok",
         NEW words2, words2 = RunWords(words, top, r), NEW chain2, chain2 = RunChain(words, chainNow, top, job.post, r),
         NEW k \in 1 .. m, Covered(V, cons[k], k, s, jobsNow, words, chainNow)
  PROVE  Covered(V, cons[k], k, r.s, jobsNow, words2, chain2)
<1> DEFINE f == top.agent
           con == cons[k]
<1>1. /\ MachineOk(V, cons, m, s, jobsNow, words2, chain2)
      /\ Ran(jobsNow, words, chainNow, f, r.exit, words2, chain2)
      /\ r.todo # <<>> =>
           /\ \E e \in Eqns(V) : SplitsInto(V, cons[job.post], s, r, e)
           /\ Front(chainNow) \in Seq(Entries(V)) /\ chain2 = Append(Front(chainNow), Poster(job.post, r.todo))
  BY RunMachine
<1>2. IsCon(V, con) /\ IsStore(V, s) /\ m \in Nat
  BY DEF MachineOk, AreCons
<1>3. Follows(V, s, r.s)
  BY DEF Serves, Sound
<1>4. CASE ~Guardian(jobsNow, words, k, f)
  <2>1. Keeps(V, k, s, jobsNow, words, chainNow, s, jobsNow, words2, chain2)
    BY <1>1, <1>4 DEF Keeps, Ran
  <2>2. Covered(V, con, k, s, jobsNow, words2, chain2)
    <3> HIDE DEF con
    <3> QED
      BY <1>2, <2>1, CoveredKept DEF con
  <2> QED
    BY <1>2, <1>3, <2>2, CoveredStays
<1>5. CASE Guardian(jobsNow, words, k, f)
  <2>1. job.post = k /\ job.kind # "element"
    BY <1>5 DEF Guardian
  <2>2. CASE Entailed(V, s, Sat(V, con))
    BY <1>3, <2>2, EntailedStays DEF Covered
  <2>3. CASE r.todo # <<>>
    <3>1. PICK e \in Eqns(V) : SplitsInto(V, con, s, r, e)
      BY <1>1, <2>1, <2>3
    <3>2. r.s = s
      BY <3>1 DEF SplitsInto
    <3>3. \A c \in Seq(Entries(V)) : \A words3 :
            /\ Heeded(cons[k], k, s, jobsNow, words3, Append(c, Poster(k, r.todo)))
            /\ Moving(cons[k], k, s, jobsNow, words3, Append(c, Poster(k, r.todo)))
      BY <1>2, <3>1, SplitPoster
    <3> DEFINE c == Front(chainNow)
    <3>4. c \in Seq(Entries(V)) /\ chain2 = Append(c, Poster(k, r.todo))
      BY <1>1, <2>1, <2>3
    <3> HIDE DEF c
    <3>5. Heeded(con, k, s, jobsNow, words2, chain2) /\ Moving(con, k, s, jobsNow, words2, chain2)
      BY <3>3, <3>4
    <3> QED
      BY <3>2, <3>5 DEF Covered
  <2>4. CASE r.todo = <<>> /\ (r.exit \/ \A x \in VarsOf(con) : Bound(s, x))
    BY <2>1, <2>4 DEF Serves, Covered
  <2>5. CASE ~Entailed(V, s, Sat(V, con)) /\ ~r.exit /\ \E x \in VarsOf(con) : ~Bound(s, x)
    <3>1. Heeded(con, k, s, jobsNow, words, chainNow)
      BY <2>5 DEF Covered
    <3>2. \A x : Listened(s, jobsNow, words, k, x) => Listened(s, jobsNow, words2, k, x)
      BY <1>1, <2>5 DEF Ran, Listened
    <3>3. Heeded(con, k, s, jobsNow, words2, chain2)
      BY <1>1, <3>1, <3>2 DEF Heeded, Ran
    <3>4. Moving(con, k, s, jobsNow, words2, chain2)
      BY <2>5 DEF Moving
    <3>5. Heeded(con, k, r.s, jobsNow, words2, chain2) /\ Moving(con, k, r.s, jobsNow, words2, chain2)
      <4> HIDE DEF con
      <4> QED
        BY <1>2, <1>3, <3>3, <3>4, DomainStep DEF con
    <3> QED
      BY <3>5 DEF Covered
  <2> QED
    BY <2>2, <2>3, <2>4, <2>5
<1> QED
  BY <1>4, <1>5

-----------------------------------------------------------------------------
(* An agent is created.                                                    *)

\* Watches, of the constraint con.
WatchesFor(con, s, job) ==
  LET ports == CASE job.kind = "bounds" -> {job.eqn.y} \X {"ins", "minmax"}
                 [] job.kind = "element" -> {job.eqn.y} \X {"dom"}
                 [] OTHER -> {con.terms[i].x : i \in DOMAIN con.terms} \X {"ins", "minmax"}
  IN {w \in ports : ~Bound(s, w[1])}

\* What a new agent listens to: the instantiation of each free variable that it has to hear of.
LEMMA WatchesFacts ==
  ASSUME NEW V, NEW con, IsCon(V, con), NEW s, NEW job, JobFor(V, s, con, job)
  PROVE  /\ Ears(V, job, WatchesFor(con, s, job))
         /\ job.kind = "bounds" /\ ~Bound(s, job.eqn.y) => <<job.eqn.y, "ins">> \in WatchesFor(con, s, job)
         /\ job.kind \notin {"bounds", "element"}
              => \A x \in VarsOf(con) : ~Bound(s, x) => <<x, "ins">> \in WatchesFor(con, s, job)
<1> DEFINE W == WatchesFor(con, s, job)
<1>1. CASE job.kind = "bounds"
  <2>1. W = {w \in {job.eqn.y} \X {"ins", "minmax"} : ~Bound(s, w[1])}
    BY <1>1 DEF WatchesFor
  <2>2. job.eqn.y \in V
    BY <1>1, EqnFacts DEF JobFor, StandsFor
  <2> HIDE DEF W
  <2>3. W \subseteq V \X Ports /\ \A x, port : <<x, port>> \in W => port # "dom"
    BY <2>1, <2>2 DEF Ports
  <2>4. ~Bound(s, job.eqn.y) => <<job.eqn.y, "ins">> \in W
    BY <2>1
  <2> QED
    BY <1>1, <2>3, <2>4 DEF Ears, W
<1>2. CASE job.kind = "element"
  <2>1. W = {w \in {job.eqn.y} \X {"dom"} : ~Bound(s, w[1])}
    BY <1>2 DEF WatchesFor
  <2>2. job.eqn.y \in V
    BY <1>2, EqnFacts DEF JobFor, StandsFor
  <2> HIDE DEF W
  <2>3. W \subseteq V \X Ports /\ \A x, port : <<x, port>> \in W => port = "dom" /\ x = job.eqn.y
    BY <2>1, <2>2 DEF Ports
  <2> QED
    BY <1>2, <2>3 DEF Ears, W
<1>3. CASE job.kind \notin {"bounds", "element"}
  <2>1. W = {w \in VarsOf(con) \X {"ins", "minmax"} : ~Bound(s, w[1])}
    BY <1>3 DEF WatchesFor, VarsOf
  <2>2. VarsOf(con) \subseteq V
    BY VarsOfFacts
  <2> HIDE DEF W
  <2>3. W \subseteq V \X Ports /\ \A x, port : <<x, port>> \in W => port # "dom"
    BY <2>1, <2>2 DEF Ports
  <2>4. \A x \in VarsOf(con) : ~Bound(s, x) => <<x, "ins">> \in W
    BY <2>1
  <2> QED
    BY <1>3, <2>3, <2>4 DEF Ears, W
<1> QED
  BY <1>1, <1>2, <1>3

AttachedFor(con, s, jobsNow, job) == Attached(s, WatchesFor(con, s, job), Len(jobsNow) + 1)

CreatedFor(con, att, jobsNow, job) ==
  IF job.kind = "element" THEN Result(att, FALSE) ELSE BodyFor(con, att, job, Len(jobsNow) + 1, NoElm)

NewWords(words, r) == Append(words, IF r.exit THEN "exit" ELSE "sleep")

\* What a new agent finds and does: att is the store when it is attached.
Creates(V, con, s, job, att, r) ==
  /\ IsStore(V, att) /\ att.dom = s.dom /\ att.state = s.state
  /\ Serves(V, con, att, job, r)

\* The agent may be created, and is.
Fit(V, cons, m, s, jobsNow, words, chainNow, job) ==
  /\ MachineOk(V, cons, m, s, jobsNow, words, chainNow)
  /\ job \in Jobs(V) /\ job.post \in 1 .. m /\ JobFor(V, s, cons[job.post], job)

IsCreate(cons, s, jobsNow, words, job, att, r, jobs2, words2) ==
  /\ att = AttachedFor(cons[job.post], s, jobsNow, job)
  /\ r = CreatedFor(cons[job.post], att, jobsNow, job)
  /\ jobs2 = Append(jobsNow, job) /\ words2 = NewWords(words, r)

Created(V, cons, m, s, jobsNow, words, chainNow, job, att, r, jobs2, words2) ==
  /\ Creates(V, cons[job.post], s, job, att, r)
  /\ MachineOk(V, cons, m, att, jobs2, words2, chainNow)
  /\ MachineOk(V, cons, m, r.s, jobs2, words2, chainNow)
  /\ \A x \in V, f \in Nat : Hears(s, x, "ins", f) => Hears(att, x, "ins", f)
  /\ \A x \in V : <<x, "ins">> \in WatchesFor(cons[job.post], s, job) => Hears(att, x, "ins", Len(jobsNow) + 1)
  /\ \A k : Keeps(V, k, s, jobsNow, words, chainNow, att, jobs2, words2, chainNow)

\* Calling the predicate of an agent keeps the machine in order and attaches the agent.
LEMMA CreateStep ==
  ASSUME NEW V, NEW cons, NEW m, NEW s, NEW jobsNow, NEW words, NEW chainNow,
         NEW job, Fit(V, cons, m, s, jobsNow, words, chainNow, job),
         NEW att, NEW r, NEW jobs2, NEW words2, IsCreate(cons, s, jobsNow, words, job, att, r, jobs2, words2)
  PROVE  Created(V, cons, m, s, jobsNow, words, chainNow, job, att, r, jobs2, words2)
<1> DEFINE con == cons[job.post]
           W == WatchesFor(con, s, job)
           f == Len(jobsNow) + 1
           word == IF r.exit THEN "exit" ELSE "sleep"
<1>0. /\ MachineOk(V, cons, m, s, jobsNow, words, chainNow)
      /\ job \in Jobs(V) /\ job.post \in 1 .. m /\ JobFor(V, s, con, job)
      /\ att = AttachedFor(con, s, jobsNow, job) /\ r = CreatedFor(con, att, jobsNow, job)
      /\ jobs2 = Append(jobsNow, job) /\ words2 = NewWords(words, r)
  BY DEF Fit, IsCreate
<1>1. IsCon(V, con) /\ IsStore(V, s) /\ f \in Nat
  BY <1>0 DEF MachineOk, AreCons, JobsOk
<1>2. Attaches(V, s, W, f, att)
  <2>1. att = Attached(s, W, f)
    BY <1>0 DEF AttachedFor
  <2> HIDE DEF W, f
  <2> QED
    BY <1>1, <2>1, AttachFacts
<1>3. /\ IsStore(V, att) /\ att.dom = s.dom /\ att.state = s.state
      /\ \A x \in V, port \in Ports, g \in Nat : Hears(att, x, port, g) <=> Hears(s, x, port, g) \/ (g = f /\ <<x, port>> \in W)
  BY <1>2 DEF Attaches
<1>4. JobFor(V, att, con, job)
  <2>1. att.dom = s.dom /\ JobFor(V, s, con, job)
    BY <1>0, <1>3
  <2> QED
    BY <2>1, SameDomains, Zenon
<1>5. Serves(V, con, att, job, r)
  <2>1. CASE job.kind = "element"
    <3>1. r.s = att /\ r.exit = FALSE /\ r.todo = <<>>
      BY <1>0, <2>1 DEF CreatedFor, Result
    <3>2. Sound(V, Sat(V, con), att, att)
      BY <1>3, SoundSelf
    <3> QED
      BY <2>1, <3>1, <3>2 DEF Serves
  <2>2. CASE job.kind # "element"
    <3>1. r = BodyFor(con, att, job, f, NoElm)
      BY <1>0, <2>2 DEF CreatedFor
    <3>2. ElmFor(att, job, NoElm)
      BY <2>2 DEF ElmFor
    <3> HIDE DEF con, f
    <3> QED
      BY <1>1, <1>3, <1>4, <3>1, <3>2, BodyForServes
  <2> QED
    BY <2>1, <2>2
<1>6. Creates(V, con, s, job, att, r)
  BY <1>3, <1>5 DEF Creates
<1>7. Ears(V, job, W)
  BY <1>0, <1>1, WatchesFacts
<1>8. word \in {"sleep", "exit"} /\ words2 = Append(words, word) /\ word \in Words
  BY <1>0 DEF Words, NewWords
<1> HIDE DEF word, W
<1>9. MachineOk(V, cons, m, att, jobs2, words2, chainNow)
  BY <1>0, <1>2, <1>7, <1>8, AttachMachine
<1>10. Follows(V, att, r.s)
  BY <1>5 DEF Serves, Sound
<1>11. MachineOk(V, cons, m, r.s, jobs2, words2, chainNow)
  BY <1>9, <1>10, MachineStays
<1>12. \A k : Keeps(V, k, s, jobsNow, words, chainNow, att, jobs2, words2, chainNow)
  BY <1>0, <1>2, <1>8, AttachKeeps
<1>13. "ins" \in Ports
  BY DEF Ports
<1> QED
  BY <1>1, <1>3, <1>6, <1>9, <1>11, <1>12, <1>13 DEF W, Created

\* Constraints that are covered stay so.
LEMMA CreateCovers ==
  ASSUME NEW V, NEW cons, NEW m, NEW s, NEW jobsNow, NEW words, NEW chainNow,
         NEW job, Fit(V, cons, m, s, jobsNow, words, chainNow, job),
         NEW att, NEW r, NEW jobs2, NEW words2, IsCreate(cons, s, jobsNow, words, job, att, r, jobs2, words2),
         r.s.state = "ok",
         NEW k \in 1 .. m, Covered(V, cons[k], k, s, jobsNow, words, chainNow)
  PROVE  Covered(V, cons[k], k, r.s, jobs2, words2, chainNow)
<1>1. /\ Creates(V, cons[job.post], s, job, att, r)
      /\ Keeps(V, k, s, jobsNow, words, chainNow, att, jobs2, words2, chainNow)
  BY CreateStep DEF Created
<1>2. IsCon(V, cons[k])
  BY DEF Fit, MachineOk, AreCons
<1>3. IsStore(V, att) /\ Follows(V, att, r.s)
  BY <1>1 DEF Creates, Serves, Sound
<1>4. Covered(V, cons[k], k, att, jobs2, words2, chainNow)
  BY <1>1, <1>2, CoveredKept
<1> QED
  BY <1>2, <1>3, <1>4, CoveredStays

\* The new agent covers its constraint, with those that listen already.
LEMMA CreateCoversOwn ==
  ASSUME NEW V, NEW cons, NEW m, NEW s, NEW jobsNow, NEW words, NEW chainNow,
         NEW job, Fit(V, cons, m, s, jobsNow, words, chainNow, job),
         NEW att, NEW r, NEW jobs2, NEW words2, IsCreate(cons, s, jobsNow, words, job, att, r, jobs2, words2),
         r.s.state = "ok",
         job.kind # "element", job.kind = "IntervalEq" => Cardinality(Free(s, cons[job.post])) > 2,
         job.kind = "bounds" => \A x \in VarsOf(cons[job.post]) :
           Bound(s, x) \/ x = job.eqn.y \/ Listened(s, jobsNow, words, job.post, x) \/ ToPost(chainNow, job.post, x)
  PROVE  Covered(V, cons[job.post], job.post, r.s, jobs2, words2, chainNow)
<1> DEFINE k == job.post
           con == cons[k]
           f == Len(jobsNow) + 1
<1>1. /\ Creates(V, con, s, job, att, r)
      /\ \A x \in V, g \in Nat : Hears(s, x, "ins", g) => Hears(att, x, "ins", g)
      /\ \A x \in V : <<x, "ins">> \in WatchesFor(con, s, job) => Hears(att, x, "ins", f)
      /\ \A j : Keeps(V, j, s, jobsNow, words, chainNow, att, jobs2, words2, chainNow)
  <2>1. Created(V, cons, m, s, jobsNow, words, chainNow, job, att, r, jobs2, words2)
    BY CreateStep
  <2> QED
    BY <2>1 DEF Created
<1>2. IsCon(V, con) /\ VarsOf(con) \subseteq V /\ JobFor(V, s, con, job)
  BY VarsOfFacts DEF Fit, MachineOk, AreCons
<1>3. /\ IsStore(V, att) /\ att.dom = s.dom /\ Serves(V, con, att, job, r) /\ Follows(V, att, r.s)
  BY <1>1 DEF Creates, Serves, Sound
<1>4. \A x : Bound(att, x) = Bound(s, x)
  BY <1>3, SameDomains
<1>5. Free(att, con) = Free(s, con)
  BY <1>3, SameDomains
<1>6. r.todo = <<>>
  BY <1>3, <1>5 DEF Serves
<1>7. CASE r.exit
  BY <1>3, <1>6, <1>7 DEF Serves, Covered
<1>8. CASE \A x \in VarsOf(con) : Bound(s, x)
  BY <1>3, <1>4, <1>6, <1>8 DEF Serves, Covered
<1>9. CASE job.kind = "bounds" /\ Bound(s, job.eqn.y)
  BY <1>3, <1>4, <1>9 DEF Serves, Covered
<1>10. CASE /\ ~r.exit /\ ~ \A x \in VarsOf(con) : Bound(s, x)
            /\ ~(job.kind = "bounds" /\ Bound(s, job.eqn.y))
  <2>1. jobsNow \in Seq(Jobs(V)) /\ words \in Seq(Words) /\ Len(words) = Len(jobsNow) /\ f \in Nat
    BY DEF Fit, MachineOk, JobsOk, WordsOk
  <2>2. f \in 1 .. Len(jobs2) /\ jobs2[f] = job /\ words2[f] = "sleep"
    <3>1. words2 = Append(words, "sleep")
      BY <1>10 DEF NewWords, IsCreate
    <3>2. jobs2 = Append(jobsNow, job) /\ job \in Jobs(V)
      BY DEF IsCreate, Fit
    <3> QED
      BY <2>1, <3>1, <3>2
  <2>3. Guardian(jobs2, words2, k, f)
    BY <2>2 DEF Guardian
  <2>4. \A x \in V : Listened(s, jobsNow, words, k, x) => Listened(att, jobs2, words2, k, x)
    BY <1>1 DEF Listened, Keeps
  <2>5. \A x \in V : <<x, "ins">> \in WatchesFor(con, s, job) => Listened(att, jobs2, words2, k, x)
    BY <1>1, <2>1, <2>3 DEF Listened
  <2>6. job.kind = "bounds" => <<job.eqn.y, "ins">> \in WatchesFor(con, s, job)
    BY <1>2, <1>10, WatchesFacts
  <2>7. job.kind \notin {"bounds", "element"} => \A x \in VarsOf(con) : ~Bound(s, x) => <<x, "ins">> \in WatchesFor(con, s, job)
    BY <1>2, WatchesFacts
  <2>8. Heeded(con, k, att, jobs2, words2, chainNow)
    BY <1>2, <1>4, <2>4, <2>5, <2>6, <2>7 DEF Heeded
  <2>9. Moving(con, k, att, jobs2, words2, chainNow)
    BY <1>4, <1>10 DEF Moving
  <2> HIDE DEF con
  <2>10. Heeded(con, k, r.s, jobs2, words2, chainNow) /\ Moving(con, k, r.s, jobs2, words2, chainNow)
    BY <1>2, <1>3, <2>8, <2>9, DomainStep
  <2> QED
    BY <2>10 DEF Covered, con
<1> QED
  BY <1>7, <1>8, <1>9, <1>10

-----------------------------------------------------------------------------
(* A predicate makes its next call.                                        *)

CallChain(chainNow, top) ==
  IF Tail(top.todo) = <<>> THEN Front(chainNow) ELSE Append(Front(chainNow), [top EXCEPT !.todo = Tail(top.todo)])

\* A sequence without its first element.
LEMMA TailFacts ==
  ASSUME NEW S, NEW c \in Seq(S), c # <<>>
  PROVE  /\ Head(c) = c[1] /\ Head(c) \in S /\ Tail(c) \in Seq(S) /\ Len(Tail(c)) = Len(c) - 1 /\ Len(c) \in Nat \ {0}
         /\ \A i \in 1 .. Len(c) - 1 : Tail(c)[i] = c[i + 1]
OBVIOUS

\* The next call of a binary equation is taken off; only that call is no longer to be made.
LEMMA CallMachine ==
  ASSUME NEW V, NEW cons, NEW m, NEW s, NEW jobsNow, NEW words, NEW chainNow,
         MachineOk(V, cons, m, s, jobsNow, words, chainNow), chainNow # <<>>,
         NEW top, top = Last(chainNow), top.agent = 0, NEW chain2, chain2 = CallChain(chainNow, top)
  PROVE  /\ Head(top.todo) \in CallsOf(V) /\ top.post \in 1 .. m /\ top.post \in Nat
         /\ StandsFor(V, s, cons[top.post], Head(top.todo).eqn)
         /\ MachineOk(V, cons, m, s, jobsNow, words, chain2)
         /\ \A k, x : ToPost(chainNow, k, x) =>
              \/ ToPost(chain2, k, x)
              \/ k = top.post /\ Head(top.todo).call = "bounds" /\ x = Head(top.todo).eqn.y
         /\ \A g : OnChain(chainNow, g) /\ g # 0 => OnChain(chain2, g)
<1> DEFINE n == Len(chainNow)
           c1 == Front(chainNow)
           todo == top.todo
           step == Head(todo)
           rest == Tail(todo)
           entry == [top EXCEPT !.todo = rest]
<1>1. ChainOk(V, cons, m, s, jobsNow, chainNow) /\ chainNow \in Seq(Entries(V))
  BY DEF MachineOk, ChainOk
<1>2. /\ n \in Nat \ {0} /\ top = chainNow[n] /\ top \in Entries(V) /\ c1 \in Seq(Entries(V))
      /\ Len(c1) = n - 1 /\ \A i \in 1 .. n - 1 : c1[i] = chainNow[i]
  BY <1>1, FrontFacts DEF Pops
<1>3. EntryOk(V, cons, m, s, jobsNow, top)
  BY <1>1, <1>2 DEF ChainOk
<1>4. /\ top.post \in 1 .. m /\ todo # <<>> /\ todo \in Seq(CallsOf(V)) /\ top.post \in Nat
      /\ \A i \in 1 .. Len(todo) : StandsFor(V, s, cons[top.post], todo[i].eqn)
  BY <1>2, <1>3 DEF EntryOk, Entries
<1>5. /\ step = todo[1] /\ step \in CallsOf(V) /\ rest \in Seq(CallsOf(V)) /\ Len(rest) = Len(todo) - 1 /\ Len(todo) \in Nat \ {0}
      /\ \A i \in 1 .. Len(todo) - 1 : rest[i] = todo[i + 1]
  <2> HIDE DEF todo
  <2> QED
    BY <1>4, TailFacts
<1>6. StandsFor(V, s, cons[top.post], step.eqn)
  BY <1>4, <1>5
<1>7. /\ entry \in Entries(V) /\ entry.agent = 0 /\ entry.post = top.post /\ entry.todo = rest /\ entry.clone = top.clone
  <2> HIDE DEF rest
  <2> QED
    BY <1>2, <1>5 DEF Entries
<1>8. MachineOk(V, cons, m, s, jobsNow, words, c1)
  <2>1. Retired(words, top, "sleep") = words
    BY DEF Retired
  <2> QED
    BY <2>1, PopMachine
<1> HIDE DEF n, c1, todo, step, rest, entry
<1>9. chain2 = IF rest = <<>> THEN c1 ELSE Append(c1, entry)
  BY DEF CallChain, todo, rest, c1, entry
<1>10. rest # <<>> => EntryOk(V, cons, m, s, jobsNow, entry)
  <2>1. \A i \in 1 .. Len(rest) : StandsFor(V, s, cons[top.post], rest[i].eqn)
    <3> TAKE i \in 1 .. Len(rest)
    <3>1. i + 1 \in 1 .. Len(todo) /\ rest[i] = todo[i + 1]
      BY <1>5
    <3> QED
      BY <1>4, <3>1
  <2> QED
    BY <1>4, <1>7, <2>1 DEF EntryOk
<1>11. MachineOk(V, cons, m, s, jobsNow, words, chain2)
  <2>1. CASE rest = <<>>
    BY <1>8, <1>9, <2>1
  <2>2. CASE rest # <<>>
    <3>1. Retired(words, entry, "run") = words
      BY <1>7 DEF Retired
    <3>2. chain2 = Append(c1, entry)
      BY <1>9, <2>2
    <3> QED
      BY <1>7, <1>8, <1>10, <2>2, <3>1, <3>2, PushMachine
  <2> QED
    BY <2>1, <2>2
<1>12. \A i \in 1 .. n - 1 : i \in 1 .. Len(chain2) /\ chain2[i] = chainNow[i]
  <2>1. CASE rest = <<>>
    BY <1>2, <1>9, <2>1
  <2>2. CASE rest # <<>>
    <3>1. chain2 = Append(c1, entry)
      BY <1>9, <2>2
    <3>2. /\ Len(Append(c1, entry)) = Len(c1) + 1 /\ Len(c1) \in Nat
          /\ \A i \in 1 .. Len(c1) : Append(c1, entry)[i] = c1[i]
      BY <1>2, <1>7, AppendFacts
    <3> QED
      BY <1>2, <3>1, <3>2
  <2> QED
    BY <2>1, <2>2
<1>13. rest # <<>> => n \in 1 .. Len(chain2) /\ chain2[n] = entry
  <2> SUFFICES ASSUME rest # <<>> PROVE n \in 1 .. Len(chain2) /\ chain2[n] = entry
    OBVIOUS
  <2>1. chain2 = Append(c1, entry)
    BY <1>9
  <2>2. Len(Append(c1, entry)) = Len(c1) + 1 /\ Append(c1, entry)[Len(c1) + 1] = entry
    BY <1>2, <1>7, AppendFacts
  <2> QED
    BY <1>2, <2>1, <2>2
<1>14. \A i \in 1 .. n : i = n \/ i \in 1 .. n - 1
  BY <1>2
<1>15. ASSUME NEW k, NEW x, ToPost(chainNow, k, x)
       PROVE  ToPost(chain2, k, x) \/ (k = top.post /\ step.call = "bounds" /\ x = step.eqn.y)
  <2>1. PICK i \in 1 .. n :
          /\ chainNow[i].agent = 0 /\ chainNow[i].post = k
          /\ \E j \in 1 .. Len(chainNow[i].todo) : chainNow[i].todo[j].call = "bounds" /\ chainNow[i].todo[j].eqn.y = x
    BY <1>15 DEF ToPost, n
  <2>2. CASE i \in 1 .. n - 1
    BY <1>12, <2>1, <2>2 DEF ToPost
  <2>3. CASE i = n
    <3>1. k = top.post /\ \E j \in 1 .. Len(todo) : todo[j].call = "bounds" /\ todo[j].eqn.y = x
      BY <1>2, <2>1, <2>3 DEF todo
    <3>2. PICK j \in 1 .. Len(todo) : todo[j].call = "bounds" /\ todo[j].eqn.y = x
      BY <3>1
    <3>3. CASE j = 1
      BY <1>5, <3>1, <3>2, <3>3
    <3>4. CASE j # 1
      <4>1. j - 1 \in 1 .. Len(rest) /\ rest[j - 1] = todo[j]
        <5>1. j - 1 \in 1 .. Len(todo) - 1 /\ (j - 1) + 1 = j
          BY <1>5, <3>4
        <5> QED
          BY <1>5, <5>1
      <4>2. rest # <<>>
        BY <4>1
      <4>3. /\ n \in 1 .. Len(chain2) /\ chain2[n].agent = 0 /\ chain2[n].post = k /\ chain2[n].todo = rest
        BY <1>7, <1>13, <3>1, <4>2
      <4> QED
        BY <3>2, <4>1, <4>3 DEF ToPost
    <3> QED
      BY <3>3, <3>4
  <2> QED
    BY <1>14, <2>2, <2>3
<1>16. ASSUME NEW g, OnChain(chainNow, g), g # 0 PROVE OnChain(chain2, g)
  <2>1. PICK i \in 1 .. n : Activated(chainNow, g, i)
    BY <1>16 DEF OnChain, n
  <2>2. CASE i \in 1 .. n - 1
    BY <1>12, <2>1, <2>2 DEF OnChain, Activated
  <2>3. CASE i = n
    BY <1>2, <1>16, <2>1, <2>3 DEF Activated
  <2> QED
    BY <1>14, <2>2, <2>3
<1> QED
  BY <1>4, <1>5, <1>6, <1>11, <1>15, <1>16 DEF step, todo

-----------------------------------------------------------------------------
(* Programs, and the agents of a constraint posted.                        *)

\* What the assumption says of a program.
LEMMA ProgramFacts ==
  ASSUME NEW p \in Programs
  PROVE  /\ p.dom \in [DOMAIN p.dom -> SUBSET Int]
         /\ \A x \in DOMAIN p.dom : p.dom[x] \subseteq Int /\ IsFiniteSet(p.dom[x]) /\ p.dom[x] # {}
         /\ Len(p.posts) \in Nat
         /\ \A k \in 1 .. Len(p.posts) : IsCon(DOMAIN p.dom, p.posts[k])
<1> DEFINE V == DOMAIN p.dom
           S == [rel : {"eq", "ge"}, c : Int, terms : Seq([a : Int \ {0}, x : V])]
<1>1. p.dom \in [V -> SUBSET Int] /\ p.posts \in Seq(S)
  BY PropagatorsAssumption
<1>2. \A x \in V : IsFiniteSet(p.dom[x]) /\ Cardinality(p.dom[x]) > 1
  BY PropagatorsAssumption
<1>3. \A k \in DOMAIN p.posts : \A i, j \in DOMAIN p.posts[k].terms : p.posts[k].terms[i].x = p.posts[k].terms[j].x => i = j
  BY PropagatorsAssumption
<1>4. \A x \in V : p.dom[x] \subseteq Int /\ IsFiniteSet(p.dom[x]) /\ p.dom[x] # {}
  <2> TAKE x \in V
  <2>1. p.dom[x] \subseteq Int
    BY <1>1
  <2>2. Cardinality({}) = 0
    BY FS_EmptySet
  <2> QED
    BY <1>2, <2>1, <2>2
<1>5. ASSUME NEW k \in 1 .. Len(p.posts)
      PROVE  IsCon(V, p.posts[k])
  <2> DEFINE con == p.posts[k]
  <2>1. k \in DOMAIN p.posts /\ con \in S
    <3> HIDE DEF S
    <3> QED
      BY <1>1
  <2>2. con.terms \in Seq([a : Int \ {0}, x : V]) /\ DOMAIN con.terms = 1 .. Len(con.terms)
    BY <2>1
  <2>3. con \in [rel : {"eq", "ge"}, c : Int, terms : Seq(Terms(V))]
    BY <2>1 DEF Terms
  <2>4. \A i, j \in 1 .. Len(con.terms) : con.terms[i].x = con.terms[j].x => i = j
    BY <1>3, <2>1, <2>2
  <2> HIDE DEF con
  <2> QED
    BY <2>3, <2>4 DEF IsCon, con
<1> QED
  BY <1>1, <1>4, <1>5

\* CONSTR_COES_TYPE gives an agent that suits the constraint.
LEMMA KindFacts ==
  ASSUME NEW V, NEW con, IsCon(V, con), NEW s, NEW k \in Nat, NEW job, job = [kind |-> CONSTR_COES_TYPE(s, con), post |-> k]
  PROVE  /\ job \in Jobs(V) /\ job.post = k /\ JobFor(V, s, con, job) /\ job.kind = CONSTR_COES_TYPE(s, con)
         /\ job.kind \notin {"bounds", "element"}
         /\ con.rel = "eq" /\ job.kind # "BooleanEq" <=> job.kind = "IntervalEq"
<1> DEFINE kind == CONSTR_COES_TYPE(s, con)
           coes == {con.terms[i].a : i \in DOMAIN con.terms}
           bool == \A i \in DOMAIN con.terms : s.dom[con.terms[i].x] = {0, 1}
<1>1. DOMAIN con.terms = 1 .. Len(con.terms) /\ con.rel \in {"eq", "ge"}
  BY ConFacts
<1>2. bool => IsBoolean(s, con)
  BY <1>1 DEF IsBoolean
<1>3. \A i \in 1 .. Len(con.terms) : con.terms[i].a \in coes
  BY <1>1
<1>4. kind = IF con.rel = "eq" THEN IF bool /\ coes \subseteq {1, -1} THEN "BooleanEq" ELSE "IntervalEq"
             ELSE IF bool /\ coes \in {{1}, {-1}} THEN "BooleanSumGe"
             ELSE IF bool /\ \A a \in coes : a < 0 THEN "CapacityGe"
             ELSE "IntervalGe"
  BY DEF CONSTR_COES_TYPE
<1>5. job.kind = kind /\ job.post = k
  OBVIOUS
<1> HIDE DEF kind, coes, bool
<1>6. kind \in {"BooleanEq", "IntervalEq", "BooleanSumGe", "CapacityGe", "IntervalGe"}
  BY <1>4
<1>7. con.rel = "eq" /\ kind # "BooleanEq" <=> kind = "IntervalEq"
  BY <1>4
<1>8. kind = "BooleanEq" => con.rel = "eq" /\ bool /\ coes \subseteq {1, -1}
  BY <1>4
<1>9. kind = "BooleanSumGe" => con.rel = "ge" /\ bool /\ coes \in {{1}, {-1}}
  BY <1>1, <1>4
<1>10. kind = "CapacityGe" => con.rel = "ge" /\ bool /\ \A a \in coes : a < 0
  BY <1>1, <1>4
<1>11. kind = "IntervalGe" => con.rel = "ge"
  BY <1>1, <1>4
<1>12. kind = "BooleanEq" \/ kind = "BooleanSumGe" => IsUnits(con)
  BY <1>3, <1>8, <1>9 DEF IsUnits
<1>13. kind = "CapacityGe" => \A i \in 1 .. Len(con.terms) : con.terms[i].a < 0
  BY <1>3, <1>10
<1>14. JobFor(V, s, con, job)
  BY <1>2, <1>5, <1>6, <1>7, <1>8, <1>9, <1>10, <1>11, <1>12, <1>13 DEF JobFor, Suited, Kinds
<1>15. job \in Jobs(V)
  BY <1>5, <1>6 DEF Jobs, Kinds, kind
<1> QED
  BY <1>5, <1>6, <1>7, <1>14, <1>15 DEF kind

\* The body, with the constraint as a parameter.
LEMMA BodyIs ==
  ASSUME NEW s, NEW job, NEW f, NEW elm
  PROVE  Body(s, job, f, elm) = BodyFor(program.posts[job.post], s, job, f, elm)
BY DEF Body, BodyFor

\* Create, with store, agents and words as parameters.
LEMMA CreateIs ==
  ASSUME NEW job, Create(job)
  PROVE  \E att, r : IsCreate(program.posts, store, jobs, status, job, att, r, jobs', status') /\ store' = r.s
<1> DEFINE f == Len(jobs) + 1
           con == program.posts[job.post]
           att == [store EXCEPT !.cs = [w \in DOMAIN @ |-> IF w \in Watches(store, job) THEN <<f>> \o @[w] ELSE @[w]]]
           r == IF job.kind = "element" THEN Result(att, FALSE) ELSE Body(att, job, f, NoElm)
<1>1. Watches(store, job) = WatchesFor(con, store, job)
  BY DEF Watches, WatchesFor
<1>2. att = AttachedFor(con, store, jobs, job)
  BY <1>1 DEF AttachedFor, Attached
<1>3. store' = r.s /\ jobs' = Append(jobs, job) /\ status' = Append(status, IF r.exit THEN "exit" ELSE "sleep")
  BY DEF Create
<1> HIDE DEF att, f
<1>4. r = IF job.kind = "element" THEN Result(att, FALSE) ELSE BodyFor(con, att, job, f, NoElm)
  BY BodyIs
<1> HIDE DEF r
<1>5. r = CreatedFor(con, att, jobs, job)
  BY <1>4 DEF CreatedFor, f
<1> QED
  BY <1>2, <1>3, <1>5 DEF IsCreate, NewWords

-----------------------------------------------------------------------------
(* The invariant.                                                          *)

\* Every solution that is remembered is still allowed, and satisfies what is posted.
Remembers(V, cons, m, s, sols) ==
  /\ sols \subseteq [V -> Int]
  /\ \A sol \in sols : Admits(V, s, sol) /\ \A k \in 1 .. m : sol \in Sat(V, cons[k])

\* No other assignment that the domains allow satisfies it.
Finds(V, cons, m, s, sols) ==
  \A sol \in [V -> Int] : (\A x \in V : sol[x] \in s.dom[x]) /\ (\A k \in 1 .. m : sol \in Sat(V, cons[k])) => sol \in sols

\* Every posted constraint is covered unless the run has ended.
AllCovered(V, cons, m, s, jobsNow, words, chainNow) ==
  s.state = "ok" => \A k \in 1 .. m : Covered(V, cons[k], k, s, jobsNow, words, chainNow)

\* The inductive invariant of the state whose variables are the parameters.
InvOf(p, m, ex, s, jobsNow, words, chainNow, sols) ==
  /\ p \in Programs /\ m \in 0 .. Len(p.posts) /\ ex \in 0 .. MaxExcludes
  /\ MachineOk(DOMAIN p.dom, p.posts, m, s, jobsNow, words, chainNow)
  /\ \A x \in DOMAIN p.dom : s.dom[x] \subseteq p.dom[x]
  /\ Remembers(DOMAIN p.dom, p.posts, m, s, sols) /\ Finds(DOMAIN p.dom, p.posts, m, s, sols)
  /\ AllCovered(DOMAIN p.dom, p.posts, m, s, jobsNow, words, chainNow)

IInv == InvOf(program, posted, excludes, store, jobs, status, chain, solutions)

\* The program starts with its domains, and nothing posted.
LEMMA InitInv ==
  ASSUME Init
  PROVE  IInv
<1> DEFINE V == DOMAIN program.dom
<1>1. /\ program \in Programs /\ posted = 0 /\ jobs = <<>> /\ status = <<>> /\ chain = <<>> /\ excludes = 0
      /\ store = [dom |-> program.dom, bv |-> {x \in V : IsHoled(program.dom[x])},
                  cs |-> [w \in V \X Ports |-> <<>>], queue |-> <<>>,
                  seeds |-> [i \in 1 .. MaxTriggers |-> NoSeed], state |-> "ok"]
      /\ solutions = {sol \in [V -> UNION Range(program.dom)] : \A x \in V : sol[x] \in program.dom[x]}
  BY DEF Init, Vars
<1>2. /\ program.dom \in [V -> SUBSET Int]
      /\ \A x \in V : program.dom[x] \subseteq Int /\ IsFiniteSet(program.dom[x]) /\ program.dom[x] # {}
      /\ Len(program.posts) \in Nat
  BY <1>1, ProgramFacts
<1>3. MaxExcludes \in Nat
  BY PropagatorsAssumption
<1>4. /\ store.dom = program.dom /\ store.bv = {x \in V : IsHoled(program.dom[x])}
      /\ store.cs = [w \in V \X Ports |-> <<>>] /\ store.queue = <<>> /\ store.state = "ok"
  BY <1>1
<1>5. store \in Stores(V)
  <2>1. <<>> \in Seq(Events(V)) /\ <<>> \in Seq(Nat)
    OBVIOUS
  <2>2. [w \in V \X Ports |-> <<>>] \in [V \X Ports -> Seq(Nat)]
    BY <2>1
  <2>3. [i \in 1 .. MaxTriggers |-> NoSeed] \in [1 .. MaxTriggers -> Nat]
    BY DEF NoSeed
  <2>4. {x \in V : IsHoled(program.dom[x])} \in SUBSET V
    OBVIOUS
  <2> DEFINE cs == [w \in V \X Ports |-> <<>>]
             seeds == [i \in 1 .. MaxTriggers |-> NoSeed]
             bv == {x \in V : IsHoled(program.dom[x])}
  <2>5. store = [dom |-> program.dom, bv |-> bv, cs |-> cs, queue |-> <<>>, seeds |-> seeds, state |-> "ok"]
    BY <1>1
  <2> HIDE DEF cs, seeds, bv
  <2> QED
    BY <1>2, <2>1, <2>2, <2>3, <2>4, <2>5 DEF Stores, cs, seeds, bv
<1>6. IsStore(V, store)
  <2>1. \A x \in V : IsHoled(store.dom[x]) => x \in store.bv
    BY <1>4
  <2>2. Len(store.queue) = 0
    BY <1>4
  <2> QED
    BY <1>2, <1>4, <1>5, <2>1, <2>2 DEF IsStore
<1> HIDE DEF V
<1>7. MachineOk(V, program.posts, 0, store, jobs, status, chain)
  <2>1. AreCons(V, program.posts, 0)
    BY DEF AreCons
  <2>2. JobsOk(V, program.posts, 0, store, jobs)
    BY <1>1 DEF JobsOk
  <2>3. ListenersOk(V, store, jobs)
    BY <1>4 DEF ListenersOk, Hears
  <2>4. ChainOk(V, program.posts, 0, store, jobs, chain)
    BY <1>1 DEF ChainOk
  <2>5. WordsOk(jobs, status, chain)
    BY <1>1 DEF WordsOk
  <2> QED
    BY <1>6, <2>1, <2>2, <2>3, <2>4, <2>5 DEF MachineOk
<1>8. Remembers(V, program.posts, 0, store, solutions)
  <2>1. ASSUME NEW sol \in solutions PROVE sol \in [V -> Int] /\ \A x \in V : sol[x] \in program.dom[x]
    <3>1. sol \in [V -> UNION Range(program.dom)] /\ \A x \in V : sol[x] \in program.dom[x]
      BY <1>1 DEF V
    <3> QED
      BY <1>2, <3>1
  <2> QED
    BY <1>4, <2>1 DEF Remembers, Admits
<1>9. Finds(V, program.posts, 0, store, solutions)
  <2> SUFFICES ASSUME NEW sol \in [V -> Int], \A x \in V : sol[x] \in store.dom[x] PROVE sol \in solutions
    BY DEF Finds
  <2>1. \A x \in V : sol[x] \in UNION Range(program.dom)
    BY <1>2, <1>4 DEF Range, V
  <2>2. sol \in [V -> UNION Range(program.dom)]
    BY <2>1
  <2> QED
    BY <1>1, <1>4, <2>2 DEF V
<1>10. AllCovered(V, program.posts, 0, store, jobs, status, chain)
  BY DEF AllCovered
<1>11. posted \in 0 .. Len(program.posts) /\ excludes \in 0 .. MaxExcludes
  BY <1>1, <1>2, <1>3
<1> QED
  BY <1>1, <1>4, <1>7, <1>8, <1>9, <1>10, <1>11 DEF IInv, InvOf, V

\* Sound steps for a constraint that is posted keep the solutions.
LEMMA SolutionsStay ==
  ASSUME NEW V, NEW cons, NEW m, NEW s, NEW t, NEW sols, NEW k \in 1 .. m, Sound(V, Sat(V, cons[k]), s, t),
         Remembers(V, cons, m, s, sols), Finds(V, cons, m, s, sols)
  PROVE  Remembers(V, cons, m, t, sols) /\ Finds(V, cons, m, t, sols) /\ \A x \in V : t.dom[x] \subseteq s.dom[x]
<1>1. \A x \in V : t.dom[x] \subseteq s.dom[x]
  BY DEF Sound, Follows
<1>2. Remembers(V, cons, m, t, sols)
  BY DEF Sound, Remembers
<1>3. Finds(V, cons, m, t, sols)
  BY <1>1 DEF Finds
<1> QED
  BY <1>1, <1>2, <1>3

\* What is said of solutions depends on domains and state only.
LEMMA SameSolutions ==
  ASSUME NEW V, NEW cons, NEW m, NEW s, NEW t, NEW sols, t.dom = s.dom, t.state = s.state,
         Remembers(V, cons, m, s, sols), Finds(V, cons, m, s, sols)
  PROVE  Remembers(V, cons, m, t, sols) /\ Finds(V, cons, m, t, sols)
<1>1. Remembers(V, cons, m, t, sols)
  BY DEF Remembers, Admits
<1>2. Finds(V, cons, m, t, sols)
  BY DEF Finds
<1> QED
  BY <1>1, <1>2

\* What the invariant says, by part.
LEMMA InvParts ==
  ASSUME IInv
  PROVE  /\ program \in Programs /\ posted \in 0 .. Len(program.posts) /\ excludes \in 0 .. MaxExcludes
         /\ MachineOk(Vars, program.posts, posted, store, jobs, status, chain) /\ IsStore(Vars, store)
         /\ \A x \in Vars : store.dom[x] \subseteq program.dom[x]
         /\ Remembers(Vars, program.posts, posted, store, solutions)
         /\ Finds(Vars, program.posts, posted, store, solutions)
         /\ AllCovered(Vars, program.posts, posted, store, jobs, status, chain)
         /\ \A k \in 1 .. posted : IsCon(Vars, program.posts[k])
BY DEF IInv, InvOf, Vars, MachineOk, AreCons

\* It holds again when these parts do.
LEMMA InvNext ==
  ASSUME IInv, program' = program, posted' \in 0 .. Len(program.posts), excludes' \in 0 .. MaxExcludes,
         MachineOk(Vars, program.posts, posted', store', jobs', status', chain'),
         \A x \in Vars : store'.dom[x] \subseteq store.dom[x],
         Remembers(Vars, program.posts, posted', store', solutions'),
         Finds(Vars, program.posts, posted', store', solutions'),
         AllCovered(Vars, program.posts, posted', store', jobs', status', chain')
  PROVE  IInv'
<1>1. program \in Programs /\ \A x \in Vars : store.dom[x] \subseteq program.dom[x]
  BY InvParts
<1>2. \A x \in Vars : store'.dom[x] \subseteq program.dom[x]
  BY <1>1
<1>3. InvOf(program, posted', excludes', store', jobs', status', chain', solutions')
  BY <1>1, <1>2 DEF InvOf, Vars
<1> QED
  BY <1>3 DEF IInv

\* Handling the event queue keeps the invariant.
LEMMA HandleInv ==
  ASSUME IInv, Handle
  PROVE  IInv'
<1> DEFINE V == Vars
           cons == program.posts
           a2 == AllTold([status |-> status, chain |-> chain])
           t == [store EXCEPT !.queue = <<>>]
<1>1. /\ MachineOk(V, cons, posted, store, jobs, status, chain)
      /\ posted \in 0 .. Len(cons) /\ excludes \in 0 .. MaxExcludes
      /\ Remembers(V, cons, posted, store, solutions) /\ Finds(V, cons, posted, store, solutions)
      /\ AllCovered(V, cons, posted, store, jobs, status, chain)
      /\ \A k \in 1 .. posted : IsCon(V, cons[k])
  BY InvParts
<1>2. /\ status' = a2.status /\ chain' = a2.chain /\ store' = t
      /\ UNCHANGED <<program, posted, jobs, excludes, solutions>>
  BY DEF Handle, AllTold
<1> HIDE DEF a2, t, V, cons
<1>3. /\ MachineOk(V, cons, posted, t, jobs, a2.status, a2.chain)
      /\ \A k : Keeps(V, k, store, jobs, status, chain, t, jobs, a2.status, a2.chain)
  BY <1>1, HandleStep DEF a2, t
<1>4. t.dom = store.dom /\ t.state = store.state
  BY <1>1, EmptiedFacts DEF t
<1>5. Remembers(V, cons, posted, t, solutions) /\ Finds(V, cons, posted, t, solutions)
  BY <1>1, <1>4, SameSolutions
<1>6. AllCovered(V, cons, posted, t, jobs, a2.status, a2.chain)
  <2> SUFFICES ASSUME t.state = "ok", NEW k \in 1 .. posted PROVE Covered(V, cons[k], k, t, jobs, a2.status, a2.chain)
    BY DEF AllCovered
  <2>1. Covered(V, cons[k], k, store, jobs, status, chain) /\ IsCon(V, cons[k])
    BY <1>1, <1>4 DEF AllCovered
  <2>2. Keeps(V, k, store, jobs, status, chain, t, jobs, a2.status, a2.chain)
    BY <1>3
  <2> DEFINE con == cons[k]
  <2> HIDE DEF con
  <2> QED
    BY <2>1, <2>2, CoveredKept DEF con
<1> QED
  BY <1>1, <1>2, <1>3, <1>4, <1>5, <1>6, InvNext DEF V, cons

\* Running an agent keeps the invariant.
LEMMA RunInv ==
  ASSUME IInv, Run
  PROVE  IInv'
<1> DEFINE V == Vars
           cons == program.posts
           top == Last(chain)
           job == jobs[top.agent]
           r == Body(store, job, top.agent, top.elm)
<1>1. /\ MachineOk(V, cons, posted, store, jobs, status, chain) /\ IsStore(V, store)
      /\ posted \in 0 .. Len(cons) /\ excludes \in 0 .. MaxExcludes
      /\ Remembers(V, cons, posted, store, solutions) /\ Finds(V, cons, posted, store, solutions)
      /\ AllCovered(V, cons, posted, store, jobs, status, chain)
      /\ \A k \in 1 .. posted : IsCon(V, cons[k])
  BY InvParts
<1>2. /\ chain # <<>> /\ top.agent # 0 /\ store.state = "ok"
      /\ store' = r.s /\ status' = RunWords(status, top, r) /\ chain' = RunChain(status, chain, top, job.post, r)
      /\ UNCHANGED <<program, posted, jobs, excludes, solutions>>
  BY DEF Run, MayRun, Ok, RunWords, RunChain, Again
<1>3. r = BodyFor(cons[job.post], store, job, top.agent, top.elm)
  BY BodyIs
<1> HIDE DEF V, cons, top, r
<1>4. /\ ChainOk(V, cons, posted, store, jobs, chain) /\ JobsOk(V, cons, posted, store, jobs)
  BY <1>1 DEF MachineOk
<1>5. /\ top \in Entries(V) /\ EntryOk(V, cons, posted, store, jobs, top)
  <2>1. top = chain[Len(chain)] /\ Len(chain) \in Nat \ {0} /\ top \in Entries(V)
    BY <1>2, <1>4, FrontFacts DEF ChainOk, top
  <2> QED
    BY <1>4, <2>1 DEF ChainOk
<1>6. /\ top.agent \in 1 .. Len(jobs) /\ top.agent \in Nat /\ ElmFor(store, job, top.elm)
  BY <1>2, <1>5 DEF EntryOk, Entries
<1>7. job.post \in 1 .. posted /\ JobFor(V, store, cons[job.post], job)
  BY <1>4, <1>6 DEF JobsOk
<1> DEFINE con == cons[job.post]
<1>8. IsCon(V, con)
  BY <1>1, <1>7
<1> HIDE DEF job
<1>9. Serves(V, con, store, job, r)
  <2> HIDE DEF con
  <2> QED
    BY <1>1, <1>3, <1>6, <1>7, <1>8, BodyForServes DEF con
<1>10. Sound(V, Sat(V, con), store, r.s) /\ Follows(V, store, r.s)
  BY <1>9 DEF Serves, Sound
<1>11. MachineOk(V, cons, posted, store, jobs, status', chain')
  BY <1>1, <1>2, <1>9, RunMachine DEF top, job
<1>12. MachineOk(V, cons, posted, r.s, jobs, status', chain')
  BY <1>10, <1>11, MachineStays
<1>13. /\ Remembers(V, cons, posted, r.s, solutions) /\ Finds(V, cons, posted, r.s, solutions)
       /\ \A x \in V : r.s.dom[x] \subseteq store.dom[x]
  BY <1>1, <1>7, <1>10, SolutionsStay
<1>14. AllCovered(V, cons, posted, r.s, jobs, status', chain')
  <2> SUFFICES ASSUME r.s.state = "ok", NEW k \in 1 .. posted PROVE Covered(V, cons[k], k, r.s, jobs, status', chain')
    BY DEF AllCovered
  <2>1. Covered(V, cons[k], k, store, jobs, status, chain)
    BY <1>1, <1>2 DEF AllCovered
  <2> QED
    BY <1>1, <1>2, <1>9, <2>1, RunCovers DEF top, job
<1> QED
  BY <1>1, <1>2, <1>12, <1>13, <1>14, InvNext DEF V, cons

\* Creating an agent keeps the solutions.
LEMMA CreateSolutions ==
  ASSUME NEW V, NEW cons, NEW m, NEW s, NEW jobsNow, NEW words, NEW chainNow,
         NEW job, Fit(V, cons, m, s, jobsNow, words, chainNow, job),
         NEW att, NEW r, NEW jobs2, NEW words2, IsCreate(cons, s, jobsNow, words, job, att, r, jobs2, words2),
         NEW sols, Remembers(V, cons, m, s, sols), Finds(V, cons, m, s, sols)
  PROVE  /\ Remembers(V, cons, m, r.s, sols) /\ Finds(V, cons, m, r.s, sols)
         /\ \A x \in V : r.s.dom[x] \subseteq s.dom[x]
         /\ MachineOk(V, cons, m, r.s, jobs2, words2, chainNow)
<1> DEFINE k == job.post
<1>1. /\ Creates(V, cons[k], s, job, att, r) /\ MachineOk(V, cons, m, r.s, jobs2, words2, chainNow)
  BY CreateStep DEF Created
<1>2. att.dom = s.dom /\ att.state = s.state /\ Sound(V, Sat(V, cons[k]), att, r.s)
  BY <1>1 DEF Creates, Serves
<1>3. k \in 1 .. m
  BY DEF Fit
<1>4. Remembers(V, cons, m, att, sols) /\ Finds(V, cons, m, att, sols)
  BY <1>2, SameSolutions
<1> HIDE DEF k
<1>5. /\ Remembers(V, cons, m, r.s, sols) /\ Finds(V, cons, m, r.s, sols)
      /\ \A x \in V : r.s.dom[x] \subseteq att.dom[x]
  BY <1>2, <1>3, <1>4, SolutionsStay
<1> QED
  BY <1>1, <1>2, <1>5

\* A call that does not attach an agent to bounds leaves every constraint as it is watched.
LEMMA CallKeeps ==
  ASSUME NEW V, NEW k, NEW s, NEW jobsNow, NEW words, NEW chainNow, NEW chain2,
         \A x : ToPost(chainNow, k, x) => ToPost(chain2, k, x),
         \A g : OnChain(chainNow, g) /\ g # 0 => OnChain(chain2, g)
  PROVE  Keeps(V, k, s, jobsNow, words, chainNow, s, jobsNow, words, chain2)
<1>1. ASSUME NEW f \in Nat, Guardian(jobsNow, words, k, f), OnChain(chainNow, f) \/ Wakes(s, f)
      PROVE  OnChain(chain2, f) \/ Wakes(s, f)
  BY <1>1 DEF Guardian
<1> QED
  BY <1>1 DEF Keeps

\* What the calls of a predicate go on with.
CallsOn(V, cons, m, s, jobsNow, words, chainNow, top, step, chain2) ==
  /\ step \in CallsOf(V) /\ top.post \in 1 .. m /\ top.post \in Nat
  /\ StandsFor(V, s, cons[top.post], step.eqn)
  /\ MachineOk(V, cons, m, s, jobsNow, words, chain2)
  /\ \A k, x : ToPost(chainNow, k, x) =>
       ToPost(chain2, k, x) \/ (k = top.post /\ step.call = "bounds" /\ x = step.eqn.y)
  /\ \A g : OnChain(chainNow, g) /\ g # 0 => OnChain(chain2, g)

\* The agent that a call attaches.
LEMMA CallFit ==
  ASSUME NEW V, NEW cons, NEW m, NEW s, NEW jobsNow, NEW words, NEW chainNow, NEW top, NEW step, NEW chain2,
         CallsOn(V, cons, m, s, jobsNow, words, chainNow, top, step, chain2), step.call # "support",
         NEW job, job = [kind |-> step.call, post |-> top.post, eqn |-> step.eqn]
  PROVE  /\ Fit(V, cons, m, s, jobsNow, words, chain2, job)
         /\ job.kind = step.call /\ job.post = top.post /\ job.eqn = step.eqn /\ job.kind \in {"bounds", "element"}
<1>1. job.kind = step.call /\ job.post = top.post /\ job.eqn = step.eqn
  OBVIOUS
<1>2. step.call \in {"bounds", "element"} /\ step.eqn \in Eqns(V) /\ top.post \in Nat
  BY DEF CallsOn, CallsOf
<1>3. job \in Jobs(V)
  BY <1>2 DEF Jobs, Kinds
<1>4. JobFor(V, s, cons[job.post], job)
  BY <1>1, <1>2 DEF CallsOn, JobFor, Kinds
<1> QED
  BY <1>1, <1>2, <1>3, <1>4 DEF Fit, CallsOn

\* When it is attached its constraint is covered, and so are the others.
LEMMA CallCovers ==
  ASSUME NEW V, NEW cons, NEW m, NEW s, NEW jobsNow, NEW words, NEW chainNow, NEW top, NEW step, NEW chain2,
         CallsOn(V, cons, m, s, jobsNow, words, chainNow, top, step, chain2), step.call # "support",
         NEW job, job = [kind |-> step.call, post |-> top.post, eqn |-> step.eqn],
         NEW att, NEW r, NEW jobs2, NEW words2, IsCreate(cons, s, jobsNow, words, job, att, r, jobs2, words2),
         r.s.state = "ok",
         NEW k \in 1 .. m, Covered(V, cons[k], k, s, jobsNow, words, chainNow)
  PROVE  Covered(V, cons[k], k, r.s, jobs2, words2, chain2)
<1>1. /\ Fit(V, cons, m, s, jobsNow, words, chain2, job)
      /\ job.kind = step.call /\ job.post = top.post /\ job.eqn = step.eqn /\ job.kind \in {"bounds", "element"}
  BY CallFit
<1>2. /\ \A x : ToPost(chainNow, k, x) => ToPost(chain2, k, x) \/ (k = job.post /\ job.kind = "bounds" /\ x = job.eqn.y)
      /\ \A g : OnChain(chainNow, g) /\ g # 0 => OnChain(chain2, g)
  BY <1>1 DEF CallsOn
<1>3. IsCon(V, cons[k])
  BY <1>1 DEF Fit, MachineOk, AreCons
<1>4. CASE k # job.post \/ job.kind # "bounds"
  <2>1. Keeps(V, k, s, jobsNow, words, chainNow, s, jobsNow, words, chain2)
    BY <1>2, <1>4, CallKeeps
  <2>2. Covered(V, cons[k], k, s, jobsNow, words, chain2)
    BY <1>3, <2>1, CoveredKept
  <2> QED
    BY <1>1, <2>2, CreateCovers
<1>5. CASE k = job.post /\ job.kind = "bounds"
  <2>1. CASE Entailed(V, s, Sat(V, cons[k]))
    <3>1. Covered(V, cons[k], k, s, jobsNow, words, chain2)
      BY <2>1 DEF Covered
    <3> QED
      BY <1>1, <3>1, CreateCovers
  <2>2. CASE Heeded(cons[k], k, s, jobsNow, words, chainNow)
    <3>1. \A x \in VarsOf(cons[job.post]) :
            Bound(s, x) \/ x = job.eqn.y \/ Listened(s, jobsNow, words, job.post, x) \/ ToPost(chain2, job.post, x)
      BY <1>2, <1>5, <2>2 DEF Heeded
    <3>2. job.kind # "element" /\ job.kind # "IntervalEq"
      BY <1>5
    <3>3. Covered(V, cons[job.post], job.post, r.s, jobs2, words2, chain2)
      BY <1>1, <3>1, <3>2, CreateCoversOwn
    <3> QED
      BY <1>5, <3>3
  <2> QED
    BY <2>1, <2>2 DEF Covered
<1> QED
  BY <1>1, <1>4, <1>5

\* The next call of a binary equation keeps the invariant.
LEMMA CallInv ==
  ASSUME IInv, Call
  PROVE  IInv'
<1> DEFINE V == Vars
           cons == program.posts
           top == Last(chain)
           step == Head(top.todo)
           chain2 == CallChain(chain, top)
           job == [kind |-> step.call, post |-> top.post, eqn |-> step.eqn]
<1>1. /\ MachineOk(V, cons, posted, store, jobs, status, chain) /\ IsStore(V, store)
      /\ posted \in 0 .. Len(cons) /\ excludes \in 0 .. MaxExcludes
      /\ Remembers(V, cons, posted, store, solutions) /\ Finds(V, cons, posted, store, solutions)
      /\ AllCovered(V, cons, posted, store, jobs, status, chain)
      /\ \A k \in 1 .. posted : IsCon(V, cons[k])
  BY InvParts
<1>2. /\ chain # <<>> /\ top.agent = 0 /\ store.state = "ok" /\ chain' = chain2
      /\ step.call = "support" => store' = SupportBoth(store, step.eqn) /\ jobs' = jobs /\ status' = status
      /\ step.call # "support" => Create(job)
      /\ UNCHANGED <<program, posted, excludes, solutions>>
  BY DEF Call, MayRun, Ok, CallChain
<1>3. step.call # "support" =>
        \E att, r : IsCreate(cons, store, jobs, status, job, att, r, jobs', status') /\ store' = r.s
  BY <1>2, CreateIs
<1>4. CallsOn(V, cons, posted, store, jobs, status, chain, top, step, chain2)
  <2> HIDE DEF V, cons, top, chain2
  <2>1. /\ Head(top.todo) \in CallsOf(V) /\ top.post \in 1 .. posted /\ top.post \in Nat
        /\ StandsFor(V, store, cons[top.post], Head(top.todo).eqn)
        /\ MachineOk(V, cons, posted, store, jobs, status, chain2)
        /\ \A k, x : ToPost(chain, k, x) =>
             ToPost(chain2, k, x) \/ (k = top.post /\ Head(top.todo).call = "bounds" /\ x = Head(top.todo).eqn.y)
        /\ \A g : OnChain(chain, g) /\ g # 0 => OnChain(chain2, g)
    BY <1>1, <1>2, CallMachine DEF top, chain2
  <2> QED
    BY <2>1 DEF CallsOn
<1> HIDE DEF V, cons, top, step, chain2
<1>5. \A k \in 1 .. posted : Covered(V, cons[k], k, store, jobs, status, chain)
  BY <1>1, <1>2 DEF AllCovered
<1>6. CASE step.call = "support"
  <2> DEFINE t == SupportBoth(store, step.eqn)
             k0 == top.post
             con == cons[k0]
  <2>1. k0 \in 1 .. posted /\ StandsFor(V, store, con, step.eqn) /\ MachineOk(V, cons, posted, store, jobs, status, chain2)
    BY <1>4 DEF CallsOn
  <2> HIDE DEF t
  <2>2. Sound(V, EqnSat(V, step.eqn), store, t)
    BY <1>1, <2>1, SupportBothSound DEF StandsFor, t
  <2> HIDE DEF k0, con
  <2>3. Sound(V, Sat(V, con), store, t)
    BY <2>1, <2>2, SoundFor DEF StandsFor
  <2>4. Follows(V, store, t)
    BY <2>2 DEF Sound
  <2>5. MachineOk(V, cons, posted, t, jobs, status, chain2)
    BY <2>1, <2>4, MachineStays
  <2>6. /\ Remembers(V, cons, posted, t, solutions) /\ Finds(V, cons, posted, t, solutions)
        /\ \A x \in V : t.dom[x] \subseteq store.dom[x]
    BY <1>1, <2>1, <2>3, SolutionsStay DEF con
  <2>7. AllCovered(V, cons, posted, t, jobs, status, chain2)
    <3> SUFFICES ASSUME t.state = "ok", NEW k \in 1 .. posted PROVE Covered(V, cons[k], k, t, jobs, status, chain2)
      BY DEF AllCovered
    <3>1. /\ \A x : ToPost(chain, k, x) => ToPost(chain2, k, x)
          /\ \A g : OnChain(chain, g) /\ g # 0 => OnChain(chain2, g)
      BY <1>4, <1>6 DEF CallsOn
    <3>2. Keeps(V, k, store, jobs, status, chain, store, jobs, status, chain2)
      BY <3>1, CallKeeps
    <3> DEFINE kcon == cons[k]
    <3>3. IsCon(V, kcon) /\ Covered(V, kcon, k, store, jobs, status, chain)
      BY <1>1, <1>5
    <3> HIDE DEF kcon
    <3>4. Covered(V, kcon, k, store, jobs, status, chain2)
      BY <3>2, <3>3, CoveredKept
    <3>5. Covered(V, kcon, k, t, jobs, status, chain2)
      BY <1>1, <2>4, <3>3, <3>4, CoveredStays
    <3> QED
      BY <3>5 DEF kcon
  <2>8. store' = t /\ jobs' = jobs /\ status' = status
    BY <1>2, <1>6 DEF t
  <2> QED
    BY <1>1, <1>2, <2>5, <2>6, <2>7, <2>8, InvNext DEF V, cons
<1>7. CASE step.call # "support"
  <2>1. PICK att, r : IsCreate(cons, store, jobs, status, job, att, r, jobs', status') /\ store' = r.s
    BY <1>3, <1>7
  <2>2. job = [kind |-> step.call, post |-> top.post, eqn |-> step.eqn]
    OBVIOUS
  <2> HIDE DEF job
  <2>3. Fit(V, cons, posted, store, jobs, status, chain2, job)
    BY <1>4, <1>7, <2>2, CallFit
  <2>4. /\ Remembers(V, cons, posted, r.s, solutions) /\ Finds(V, cons, posted, r.s, solutions)
        /\ \A x \in V : r.s.dom[x] \subseteq store.dom[x]
        /\ MachineOk(V, cons, posted, r.s, jobs', status', chain2)
    BY <1>1, <2>1, <2>3, CreateSolutions
  <2>5. AllCovered(V, cons, posted, r.s, jobs', status', chain2)
    <3> SUFFICES ASSUME r.s.state = "ok", NEW k \in 1 .. posted PROVE Covered(V, cons[k], k, r.s, jobs', status', chain2)
      BY DEF AllCovered
    <3>1. Covered(V, cons[k], k, store, jobs, status, chain)
      BY <1>5
    <3> QED
      BY <1>4, <1>7, <2>1, <2>2, <3>1, CallCovers
  <2> QED
    BY <1>1, <1>2, <2>1, <2>4, <2>5, InvNext DEF V, cons
<1> QED
  BY <1>6, <1>7

\* A step of the program itself that only shrinks a domain.
LEMMA DomainInv ==
  ASSUME IInv, Follows(Vars, store, store'), excludes' \in 0 .. MaxExcludes,
         UNCHANGED <<program, posted, jobs, status, chain>>,
         Remembers(Vars, program.posts, posted, store', solutions'),
         Finds(Vars, program.posts, posted, store', solutions')
  PROVE  IInv'
<1> DEFINE V == Vars
           cons == program.posts
<1>1. /\ MachineOk(V, cons, posted, store, jobs, status, chain) /\ IsStore(V, store)
      /\ posted \in 0 .. Len(cons)
      /\ AllCovered(V, cons, posted, store, jobs, status, chain)
      /\ \A k \in 1 .. posted : IsCon(V, cons[k])
  BY InvParts
<1> HIDE DEF V, cons
<1>2. Follows(V, store, store')
  BY DEF V
<1>3. MachineOk(V, cons, posted, store', jobs, status, chain)
  BY <1>1, <1>2, MachineStays
<1>4. AllCovered(V, cons, posted, store', jobs, status, chain)
  <2> SUFFICES ASSUME store'.state = "ok", NEW k \in 1 .. posted PROVE Covered(V, cons[k], k, store', jobs, status, chain)
    BY DEF AllCovered
  <2> DEFINE con == cons[k]
  <2>1. store.state = "ok"
    BY <1>2 DEF Follows
  <2>2. Covered(V, con, k, store, jobs, status, chain) /\ IsCon(V, con)
    BY <1>1, <2>1 DEF AllCovered
  <2> HIDE DEF con
  <2>3. Covered(V, con, k, store', jobs, status, chain)
    BY <1>1, <1>2, <2>2, CoveredStays
  <2> QED
    BY <2>3 DEF con
<1>5. \A x \in V : store'.dom[x] \subseteq store.dom[x]
  BY <1>2 DEF Follows
<1> QED
  BY <1>1, <1>3, <1>4, <1>5, InvNext DEF V, cons

\* Of the solutions, those that a narrower store admits.
LEMMA FewerSolutions ==
  ASSUME NEW V, NEW cons, NEW m, NEW s, NEW t, NEW sols, NEW fewer, Follows(V, s, t),
         Remembers(V, cons, m, s, sols), Finds(V, cons, m, s, sols), fewer \subseteq sols,
         \A sol \in fewer : Admits(V, s, sol) => Admits(V, t, sol),
         \A sol \in sols : (\A x \in V : sol[x] \in t.dom[x]) => sol \in fewer
  PROVE  Remembers(V, cons, m, t, fewer) /\ Finds(V, cons, m, t, fewer)
<1>1. \A x \in V : t.dom[x] \subseteq s.dom[x]
  BY DEF Follows
<1>2. Remembers(V, cons, m, t, fewer)
  BY DEF Remembers
<1>3. Finds(V, cons, m, t, fewer)
  BY <1>1 DEF Finds
<1> QED
  BY <1>2, <1>3

\* Labelling keeps the invariant.
LEMMA LabelInv ==
  ASSUME IInv, NEW x \in Vars, NEW v \in store.dom[x], Label(x, v)
  PROVE  IInv'
<1> DEFINE t == ASSIGN_DVAR(store, x, v)
           fewer == {sol \in solutions : sol[x] = v}
<1>1. /\ IsStore(Vars, store) /\ excludes \in 0 .. MaxExcludes
      /\ Remembers(Vars, program.posts, posted, store, solutions)
      /\ Finds(Vars, program.posts, posted, store, solutions)
  BY InvParts
<1>2. store' = t /\ solutions' = fewer /\ UNCHANGED <<program, posted, jobs, status, chain, excludes>>
  BY DEF Label
<1>3. Assigned(Vars, store, x, v, t)
  BY <1>1, AssignFacts
<1> HIDE DEF t
<1>4. Follows(Vars, store, t) /\ t.dom[x] = {v}
  BY <1>3 DEF Assigned, IsNarrowed
<1>5. \A sol \in fewer : Admits(Vars, store, sol) => Admits(Vars, t, sol)
  BY <1>3 DEF Assigned
<1>6. \A sol \in solutions : (\A y \in Vars : sol[y] \in t.dom[y]) => sol \in fewer
  BY <1>4
<1>7. fewer \subseteq solutions
  OBVIOUS
<1> HIDE DEF fewer
<1>8. Remembers(Vars, program.posts, posted, t, fewer) /\ Finds(Vars, program.posts, posted, t, fewer)
  BY <1>1, <1>4, <1>5, <1>6, <1>7, FewerSolutions
<1> QED
  BY <1>1, <1>2, <1>4, <1>8, DomainInv

\* Taking a value out of a domain keeps the invariant.
LEMMA TakeOutInv ==
  ASSUME IInv, NEW x \in Vars, NEW v \in store.dom[x], TakeOut(x, v)
  PROVE  IInv'
<1> DEFINE t == Exclude(store, x, v)
           fewer == {sol \in solutions : sol[x] # v}
<1>1. /\ IsStore(Vars, store) /\ excludes \in 0 .. MaxExcludes
      /\ Remembers(Vars, program.posts, posted, store, solutions)
      /\ Finds(Vars, program.posts, posted, store, solutions)
  BY InvParts
<1>2. /\ store' = t /\ solutions' = fewer /\ UNCHANGED <<program, posted, jobs, status, chain>>
      /\ excludes < MaxExcludes /\ excludes' = excludes + 1 /\ ~Bound(store, x)
  BY DEF TakeOut
<1>3. v \in Int
  BY <1>1, StoreFacts
<1>4. Excluded(Vars, store, x, v, t)
  BY <1>1, <1>3, ExcludeFacts
<1> HIDE DEF t
<1>5. Follows(Vars, store, t) /\ v \notin t.dom[x]
  BY <1>2, <1>4 DEF Excluded
<1>6. \A sol \in fewer : Admits(Vars, store, sol) => Admits(Vars, t, sol)
  BY <1>4 DEF Excluded
<1>7. \A sol \in solutions : (\A y \in Vars : sol[y] \in t.dom[y]) => sol \in fewer
  BY <1>5
<1>8. fewer \subseteq solutions
  OBVIOUS
<1> HIDE DEF fewer
<1>9. Remembers(Vars, program.posts, posted, t, fewer) /\ Finds(Vars, program.posts, posted, t, fewer)
  BY <1>1, <1>5, <1>6, <1>7, <1>8, FewerSolutions
<1>10. excludes' \in 0 .. MaxExcludes
  BY <1>1, <1>2, PropagatorsAssumption
<1> QED
  BY <1>1, <1>2, <1>5, <1>9, <1>10, DomainInv

-----------------------------------------------------------------------------
(* The program posts a constraint.                                         *)

\* With one constraint more, nothing else changes.
LEMMA MoreCons ==
  ASSUME NEW V, NEW cons, NEW m, NEW s, NEW jobsNow, NEW words, NEW chainNow,
         MachineOk(V, cons, m, s, jobsNow, words, chainNow), IsCon(V, cons[m + 1])
  PROVE  MachineOk(V, cons, m + 1, s, jobsNow, words, chainNow)
<1>1. /\ AreCons(V, cons, m) /\ IsStore(V, s) /\ m \in Nat
      /\ JobsOk(V, cons, m, s, jobsNow) /\ ListenersOk(V, s, jobsNow)
      /\ ChainOk(V, cons, m, s, jobsNow, chainNow) /\ WordsOk(jobsNow, words, chainNow)
  BY DEF MachineOk, AreCons
<1>2. \A k \in 1 .. m + 1 : k \in 1 .. m \/ k = m + 1
  BY <1>1
<1>3. \A k \in 1 .. m : k \in 1 .. m + 1
  BY <1>1
<1>4. AreCons(V, cons, m + 1)
  BY <1>1, <1>2 DEF AreCons
<1>5. JobsOk(V, cons, m + 1, s, jobsNow)
  BY <1>1, <1>3 DEF JobsOk
<1>6. ChainOk(V, cons, m + 1, s, jobsNow, chainNow)
  BY <1>1, <1>3 DEF ChainOk, EntryOk
<1> QED
  BY <1>1, <1>4, <1>5, <1>6 DEF MachineOk

\* The solutions that also satisfy the new constraint.
LEMMA MoreSolutions ==
  ASSUME NEW V, NEW cons, NEW m \in Nat, NEW s, NEW sols,
         Remembers(V, cons, m, s, sols), Finds(V, cons, m, s, sols),
         NEW sols2, sols2 = {sol \in sols : Holds(cons[m + 1], sol)}
  PROVE  Remembers(V, cons, m + 1, s, sols2) /\ Finds(V, cons, m + 1, s, sols2)
<1>1. \A k \in 1 .. m + 1 : k \in 1 .. m \/ k = m + 1
  OBVIOUS
<1>2. m + 1 \in 1 .. m + 1 /\ \A k \in 1 .. m : k \in 1 .. m + 1
  OBVIOUS
<1>3. Remembers(V, cons, m + 1, s, sols2)
  BY <1>1 DEF Remembers, Sat
<1>4. Finds(V, cons, m + 1, s, sols2)
  <2> SUFFICES ASSUME NEW sol \in [V -> Int], \A x \in V : sol[x] \in s.dom[x], \A k \in 1 .. m + 1 : sol \in Sat(V, cons[k])
               PROVE  sol \in sols2
    BY DEF Finds
  <2>1. sol \in sols
    BY <1>2 DEF Finds
  <2>2. Holds(cons[m + 1], sol)
    BY <1>2 DEF Sat
  <2> QED
    BY <2>1, <2>2
<1> QED
  BY <1>3, <1>4

\* An equation that is solved or split is done with.
LEMMA BinaryExits ==
  ASSUME NEW s, NEW con
  PROVE  BinaryEquation(s, con).exit = TRUE
<1> DEFINE free == Free(s, con)
           i == Min(free)
           j == Max(free)
           p == IF con.terms[i].a > 0 /\ con.terms[j].a < 0 THEN con.terms[j] ELSE con.terms[i]
           q == IF p = con.terms[i] THEN con.terms[j] ELSE con.terms[i]
           c == BoundSum(s, con)
           e == IF p.a > 0 THEN Equation(p.a, p.x, -c, q.a, q.x) ELSE Equation(-p.a, p.x, c, -q.a, q.x)
           values == {v \in s.dom[p.x] : p.a * v = -c}
           Step(call, eqn) == [call |-> call, eqn |-> eqn]
           r1 == Result(s, TRUE)
           r2 == Result(Failed(s), TRUE)
           r3 == Result(IF values = {} THEN Failed(s) ELSE ASSIGN_DVAR(s, p.x, Min(values)), TRUE)
           todo == <<Step("bounds", e), Step("bounds", Mirror(e)), Step("support", e),
                     Step("element", e), Step("element", Mirror(e))>>
           r4 == [Result(s, TRUE) EXCEPT !.todo = todo]
<1>1. BinaryEquation(s, con) = IF free = {} THEN IF c = 0 THEN r1 ELSE r2 ELSE IF i = j THEN r3 ELSE r4
  BY DEF BinaryEquation
<1>2. r1.exit = TRUE /\ r2.exit = TRUE
  BY DEF Result
<1> HIDE DEF values, p
<1>3. r3.exit = TRUE
  BY DEF Result
<1> HIDE DEF todo
<1>4. r4.exit = TRUE
  BY DEF Result
<1> HIDE DEF r1, r2, r3, r4, i, j, c
<1> QED
  BY <1>1, <1>2, <1>3, <1>4

\* An equation of at most two terms has at most two free variables.
LEMMA FreeOfTwo ==
  ASSUME NEW V, NEW con, IsCon(V, con), NEW s, IsStore(V, s)
  PROVE  /\ Cardinality(Free(s, con)) \in Nat
         /\ Len(con.terms) = 2 => Cardinality(Free(s, con)) <= 2
<1> DEFINE n == Len(con.terms)
<1>1. Free(s, con) \subseteq 1 .. n /\ IsFiniteSet(Free(s, con)) /\ n \in Nat
  BY FreeFacts, ConFacts
<1>2. Cardinality(Free(s, con)) \in Nat
  BY <1>1, FS_CardinalityType
<1>3. ASSUME n = 2
      PROVE  Cardinality(Free(s, con)) <= 2
  <2>1. n \in Int /\ 1 \in Int /\ n = 2
    BY <1>1, <1>3
  <2> HIDE DEF n
  <2>2. IsFiniteSet(1 .. n) /\ Cardinality(1 .. n) = IF 1 > n THEN 0 ELSE n - 1 + 1
    BY <2>1, FS_Interval
  <2>3. Cardinality(1 .. n) = 2
    BY <2>1, <2>2
  <2> QED
    BY <1>1, <2>2, <2>3, FS_Subset
<1> QED
  BY <1>2, <1>3

\* The chain of a program that posts an equation.
PostChain(k, r) == IF r.todo = <<>> THEN <<>> ELSE <<Poster(k, r.todo)>>

\* An equation with at most two free variables is solved on the spot or left to its calls.
LEMMA PostSplits ==
  ASSUME NEW V, NEW cons, NEW m, NEW s, NEW jobsNow, NEW words,
         MachineOk(V, cons, m, s, jobsNow, words, <<>>), NEW k \in 1 .. m, cons[k].rel = "eq",
         Cardinality(Free(s, cons[k])) <= 2,
         NEW r, r = BinaryEquation(s, cons[k]), NEW chain2, chain2 = PostChain(k, r)
  PROVE  /\ Sound(V, Sat(V, cons[k]), s, r.s)
         /\ MachineOk(V, cons, m, r.s, jobsNow, words, chain2)
         /\ r.s.state = "ok" => Covered(V, cons[k], k, r.s, jobsNow, words, chain2)
<1> DEFINE con == cons[k]
<1>1. IsCon(V, con) /\ IsStore(V, s) /\ m \in Nat
  BY DEF MachineOk, AreCons
<1>2. \/ BodyOf(V, VarsOf(con), Sat(V, con), s, r)
      \/ \E e \in Eqns(V) : SplitsInto(V, con, s, r, e)
  <2> HIDE DEF con
  <2> QED
    BY <1>1, BinaryEquationBody DEF con
<1>3. r.exit = TRUE
  BY BinaryExits
<1>4. CASE BodyOf(V, VarsOf(con), Sat(V, con), s, r)
  <2>1. Sound(V, Sat(V, con), s, r.s) /\ r.todo = <<>>
    BY <1>4 DEF BodyOf
  <2>2. r.s.state = "ok" => Entailed(V, r.s, Sat(V, con))
    BY <1>3, <1>4 DEF BodyOf
  <2>3. chain2 = <<>>
    BY <2>1 DEF PostChain
  <2>4. MachineOk(V, cons, m, r.s, jobsNow, words, chain2)
    BY <2>1, <2>3, MachineStays DEF Sound
  <2> QED
    BY <2>1, <2>2, <2>4 DEF Covered
<1>5. CASE \E e \in Eqns(V) : SplitsInto(V, con, s, r, e)
  <2>1. PICK e \in Eqns(V) : SplitsInto(V, con, s, r, e)
    BY <1>5
  <2> DEFINE p == Poster(k, r.todo)
  <2>2. p \in Entries(V) /\ EntryOk(V, cons, m, s, jobsNow, p) /\ r.s = s /\ r.todo # <<>>
    <3>1. Poster(k, r.todo) \in Entries(V)
      BY <1>1, <2>1, SplitPoster
    <3>2. EntryOk(V, cons, m, s, jobsNow, Poster(k, r.todo))
      BY <1>1, <2>1, SplitPoster
    <3>3. r.s = s /\ r.todo = Calls(e)
      BY <2>1 DEF SplitsInto
    <3>4. Len(Calls(e)) = 5
      BY CallsFacts
    <3>5. r.todo # <<>>
      BY <3>3, <3>4
    <3> QED
      BY <3>1, <3>2, <3>3, <3>5
  <2>10. \A c \in Seq(Entries(V)) : \A w :
           /\ Heeded(cons[k], k, s, jobsNow, w, Append(c, Poster(k, r.todo)))
           /\ Moving(cons[k], k, s, jobsNow, w, Append(c, Poster(k, r.todo)))
    BY <1>1, <2>1, SplitPoster
  <2>3. p.agent = 0
    BY DEF Poster
  <2>4. chain2 = <<p>>
    BY <2>2 DEF PostChain
  <2> HIDE DEF p
  <2>5. <<p>> = Append(<<>>, p) /\ <<>> \in Seq(Entries(V))
    OBVIOUS
  <2>6. Retired(words, p, "run") = words
    BY <2>3 DEF Retired
  <2>7. MachineOk(V, cons, m, s, jobsNow, words, Append(<<>>, p))
    BY <2>2, <2>3, <2>6, PushMachine
  <2>8. Heeded(con, k, s, jobsNow, words, chain2) /\ Moving(con, k, s, jobsNow, words, chain2)
    BY <2>4, <2>5, <2>10 DEF p
  <2>9. Sound(V, Sat(V, con), s, s)
    BY <1>1, SoundSelf
  <2> QED
    BY <2>2, <2>4, <2>5, <2>7, <2>8, <2>9 DEF Covered
<1> QED
  BY <1>2, <1>4, <1>5

\* Posting a constraint keeps the invariant.
LEMMA PostInv ==
  ASSUME IInv, PostConstraint
  PROVE  IInv'
<1> DEFINE V == Vars
           cons == program.posts
           k == posted + 1
           con == cons[k]
           job == [kind |-> CONSTR_COES_TYPE(store, con), post |-> k]
           binary == Len(con.terms) = 2 \/ Cardinality(Free(store, con)) <= 2
           r0 == BinaryEquation(store, con)
           splits == con.rel = "eq" /\ binary /\ job.kind # "BooleanEq"
<1>1. /\ MachineOk(V, cons, posted, store, jobs, status, chain) /\ IsStore(V, store)
      /\ program \in Programs /\ posted \in 0 .. Len(cons) /\ excludes \in 0 .. MaxExcludes
      /\ Remembers(V, cons, posted, store, solutions) /\ Finds(V, cons, posted, store, solutions)
      /\ AllCovered(V, cons, posted, store, jobs, status, chain)
  BY InvParts
<1>2. /\ chain = <<>> /\ store.state = "ok" /\ posted < Len(cons) /\ posted' = k
      /\ splits => store' = r0.s /\ chain' = PostChain(k, r0) /\ jobs' = jobs /\ status' = status
      /\ ~splits => Create(job) /\ chain' = chain
      /\ solutions' = {sol \in solutions : Holds(con, sol)}
      /\ UNCHANGED <<program, excludes>>
  BY DEF PostConstraint, AtRest, Ok, PostChain
<1>3. ~splits => \E att, r : IsCreate(cons, store, jobs, status, job, att, r, jobs', status') /\ store' = r.s
  <2> HIDE DEF splits
  <2> QED
    BY <1>2, CreateIs
<1>4. Len(cons) \in Nat /\ posted \in Nat /\ k \in 0 .. Len(cons) /\ k \in 1 .. k /\ k \in Nat /\ IsCon(V, con)
  BY <1>1, <1>2, ProgramFacts DEF Vars
<1> DEFINE sols2 == {sol \in solutions : Holds(con, sol)}
<1>5. Remembers(V, cons, k, store, sols2) /\ Finds(V, cons, k, store, sols2)
  BY <1>1, <1>4, MoreSolutions
<1>6. MachineOk(V, cons, k, store, jobs, status, <<>>)
  BY <1>1, <1>2, <1>4, MoreCons
<1>7. \A j \in 1 .. k : j = k \/ (j \in 1 .. posted /\ Covered(V, cons[j], j, store, jobs, status, <<>>))
  BY <1>1, <1>2, <1>4 DEF AllCovered
<1>8. Cardinality(Free(store, con)) \in Nat /\ (binary <=> Cardinality(Free(store, con)) <= 2)
  BY <1>1, <1>4, FreeOfTwo
<1>9. CASE splits
  <2>1. con.rel = "eq" /\ Cardinality(Free(store, con)) <= 2
    BY <1>8, <1>9
  <2> DEFINE chain2 == PostChain(k, r0)
  <2> HIDE DEF V, cons, k, r0
  <2>2. /\ Sound(V, Sat(V, con), store, r0.s)
        /\ MachineOk(V, cons, k, r0.s, jobs, status, chain2)
        /\ r0.s.state = "ok" => Covered(V, con, k, r0.s, jobs, status, chain2)
    BY <1>4, <1>6, <2>1, PostSplits DEF r0
  <2> HIDE DEF chain2, sols2
  <2>3. /\ Remembers(V, cons, k, r0.s, sols2) /\ Finds(V, cons, k, r0.s, sols2)
        /\ \A x \in V : r0.s.dom[x] \subseteq store.dom[x]
    BY <1>4, <1>5, <2>2, SolutionsStay
  <2>4. AllCovered(V, cons, k, r0.s, jobs, status, chain2)
    <3> SUFFICES ASSUME r0.s.state = "ok", NEW j \in 1 .. k PROVE Covered(V, cons[j], j, r0.s, jobs, status, chain2)
      BY DEF AllCovered
    <3> DEFINE jcon == cons[j]
    <3>1. CASE j = k
      BY <2>2, <3>1
    <3>2. CASE j \in 1 .. posted /\ Covered(V, cons[j], j, store, jobs, status, <<>>)
      <4>1. /\ \A x : ToPost(<<>>, j, x) => ToPost(chain2, j, x)
            /\ \A g : OnChain(<<>>, g) /\ g # 0 => OnChain(chain2, g)
        BY DEF ToPost, OnChain
      <4>2. Keeps(V, j, store, jobs, status, <<>>, store, jobs, status, chain2)
        BY <4>1, CallKeeps
      <4>3. IsCon(V, jcon) /\ Covered(V, jcon, j, store, jobs, status, <<>>)
        BY <1>6, <3>2 DEF MachineOk, AreCons
      <4> HIDE DEF jcon
      <4>4. Covered(V, jcon, j, store, jobs, status, chain2)
        BY <4>2, <4>3, CoveredKept
      <4>5. Follows(V, store, r0.s)
        BY <2>2 DEF Sound
      <4>6. Covered(V, jcon, j, r0.s, jobs, status, chain2)
        BY <1>1, <4>3, <4>4, <4>5, CoveredStays
      <4> QED
        BY <4>6 DEF jcon
    <3> QED
      BY <1>7, <3>1, <3>2
  <2>5. store' = r0.s /\ chain' = chain2 /\ jobs' = jobs /\ status' = status /\ posted' = k /\ solutions' = sols2
    BY <1>2, <1>9 DEF chain2, sols2
  <2>6. k \in 0 .. Len(cons)
    BY <1>4
  <2> QED
    BY <1>1, <1>2, <2>2, <2>3, <2>4, <2>5, <2>6, InvNext DEF V, cons
<1>10. CASE ~splits
  <2>1. PICK att, r : IsCreate(cons, store, jobs, status, job, att, r, jobs', status') /\ store' = r.s
    BY <1>3, <1>10
  <2>2. /\ job \in Jobs(V) /\ job.post = k /\ JobFor(V, store, con, job) /\ job.kind \notin {"bounds", "element"}
        /\ con.rel = "eq" /\ job.kind # "BooleanEq" <=> job.kind = "IntervalEq"
    <3> HIDE DEF k, V, con
    <3> QED
      BY <1>4, KindFacts
  <2>3. job.kind = "IntervalEq" => Cardinality(Free(store, con)) > 2
    BY <1>8, <1>10, <2>2
  <2>4. chain' = <<>> /\ solutions' = sols2
    BY <1>2, <1>10
  <2> HIDE DEF V, cons, k, job, splits, sols2
  <2>5. Fit(V, cons, k, store, jobs, status, <<>>, job)
    BY <1>4, <1>6, <2>2 DEF Fit
  <2>6. /\ Remembers(V, cons, k, r.s, sols2) /\ Finds(V, cons, k, r.s, sols2)
        /\ \A x \in V : r.s.dom[x] \subseteq store.dom[x]
        /\ MachineOk(V, cons, k, r.s, jobs', status', <<>>)
    BY <1>5, <2>1, <2>5, CreateSolutions
  <2>7. AllCovered(V, cons, k, r.s, jobs', status', <<>>)
    <3> SUFFICES ASSUME r.s.state = "ok", NEW j \in 1 .. k PROVE Covered(V, cons[j], j, r.s, jobs', status', <<>>)
      BY DEF AllCovered
    <3>1. CASE j = k
      <4>1. job.kind # "element" /\ job.kind # "bounds" /\ (job.kind = "IntervalEq" => Cardinality(Free(store, cons[job.post])) > 2)
        BY <2>2, <2>3
      <4>2. Covered(V, cons[job.post], job.post, r.s, jobs', status', <<>>)
        BY <2>1, <2>5, <4>1, CreateCoversOwn
      <4> QED
        BY <2>2, <3>1, <4>2
    <3>2. CASE j \in 1 .. posted /\ Covered(V, cons[j], j, store, jobs, status, <<>>)
      BY <2>1, <2>5, <3>2, CreateCovers
    <3> QED
      BY <1>7, <3>1, <3>2
  <2>8. k \in 0 .. Len(cons) /\ posted' = k
    BY <1>2, <1>4
  <2> QED
    BY <1>1, <1>2, <2>1, <2>4, <2>6, <2>7, <2>8, InvNext DEF V, cons
<1> QED
  BY <1>9, <1>10

\* Every step keeps the invariant.
LEMMA NextInv ==
  ASSUME IInv, [Next]_vars
  PROVE  IInv'
<1>1. CASE PostConstraint
  BY <1>1, PostInv
<1>2. CASE Propagate
  BY <1>2, HandleInv, RunInv, CallInv DEF Propagate
<1>3. CASE \E x \in Vars : \E v \in store.dom[x] : Label(x, v) \/ TakeOut(x, v)
  BY <1>3, LabelInv, TakeOutInv
<1>4. CASE UNCHANGED vars
  BY <1>4 DEF vars, IInv
<1> QED
  BY <1>1, <1>2, <1>3, <1>4 DEF Next

\* The inductive invariant.
THEOREM Invariance == Spec => []IInv
<1>1. Init => IInv
  BY InitInv
<1>2. IInv /\ [Next]_vars => IInv'
  BY NextInv
<1> QED
  BY <1>1, <1>2, PTL DEF Spec

-----------------------------------------------------------------------------
(* What follows from it.                                                   *)

\* An agent has one activation that is no clone when it runs, and none otherwise.
LEMMA OneActivation ==
  ASSUME NEW jobsNow, NEW words, NEW S, NEW chainNow \in Seq(S), WordsOk(jobsNow, words, chainNow), NEW f \in 1 .. Len(jobsNow)
  PROVE  Cardinality({i \in DOMAIN chainNow : chainNow[i].agent = f /\ ~chainNow[i].clone})
           = IF words[f] \in {"run", "reent"} THEN 1 ELSE 0
<1> DEFINE A == {i \in DOMAIN chainNow : chainNow[i].agent = f /\ ~chainNow[i].clone}
<1>1. A = {i \in 1 .. Len(chainNow) : Activated(chainNow, f, i)}
  BY DEF Activated
<1> HIDE DEF A
<1>2. CASE words[f] \in {"run", "reent"}
  <2>1. PICK i \in 1 .. Len(chainNow) : Activated(chainNow, f, i)
    BY <1>2 DEF WordsOk
  <2>2. \A j \in 1 .. Len(chainNow) : Activated(chainNow, f, j) => i = j
    BY <2>1 DEF WordsOk
  <2>3. A = {i}
    BY <1>1, <2>1, <2>2
  <2>4. Cardinality({i}) = 1
    BY FS_Singleton
  <2> QED
    BY <1>2, <2>3, <2>4 DEF A
<1>3. CASE words[f] \notin {"run", "reent"}
  <2>1. A = {}
    BY <1>1, <1>3 DEF WordsOk
  <2>2. Cardinality({}) = 0
    BY FS_EmptySet
  <2> QED
    BY <1>3, <2>1, <2>2 DEF A
<1> QED
  BY <1>2, <1>3

\* The invariant has the types.
LEMMA TypesFollow ==
  ASSUME IInv
  PROVE  TypeOK
<1>1. /\ program \in Programs /\ posted \in 0 .. Len(program.posts) /\ excludes \in 0 .. MaxExcludes
      /\ MachineOk(Vars, program.posts, posted, store, jobs, status, chain) /\ IsStore(Vars, store)
      /\ \A x \in Vars : store.dom[x] \subseteq program.dom[x]
  BY InvParts
<1>2. /\ JobsOk(Vars, program.posts, posted, store, jobs) /\ ListenersOk(Vars, store, jobs)
      /\ ChainOk(Vars, program.posts, posted, store, jobs, chain) /\ WordsOk(jobs, status, chain)
  BY <1>1 DEF MachineOk
<1>3. DOMAIN jobs = 1 .. Len(jobs) /\ Len(jobs) \in Nat
  BY <1>2 DEF JobsOk
<1>4. /\ store.state \in {"ok", "failed", "quit", "overrun"}
      /\ \A i \in DOMAIN store.queue : HasSlot(i, store.queue[i].port)
  <2>1. store.queue \in Seq(Events(Vars))
    BY <1>1, StoreFacts
  <2>2. DOMAIN store.queue = 1 .. Len(store.queue)
    BY <2>1
  <2> QED
    BY <1>1, <2>2, StoreFacts DEF IsStore
<1>5. \A x \in Vars : store.dom[x] # {} /\ (IsHoled(store.dom[x]) => x \in store.bv)
  BY <1>1 DEF IsStore
<1>6. store.cs \in [Vars \X Ports -> Seq(DOMAIN jobs)]
  <2>1. store.cs \in [Vars \X Ports -> Seq(Nat)]
    BY <1>1, StoreFacts
  <2>2. ASSUME NEW w \in Vars \X Ports
        PROVE  store.cs[w] \in Seq(1 .. Len(jobs))
    <3>1. PICK x \in Vars, port \in Ports : w = <<x, port>>
      OBVIOUS
    <3> DEFINE c == store.cs[<<x, port>>]
    <3>2. c \in Seq(Nat)
      BY <2>1
    <3>3. \A i \in 1 .. Len(c) : c[i] \in 1 .. Len(jobs)
      <4> TAKE i \in 1 .. Len(c)
      <4>1. Hears(store, x, port, c[i])
        BY DEF Hears
      <4>2. c[i] \in Nat
        BY <3>2
      <4> QED
        BY <1>2, <4>1, <4>2 DEF ListenersOk
    <3> HIDE DEF c
    <3>4. c \in Seq(1 .. Len(jobs))
      BY <3>2, <3>3
    <3> QED
      BY <3>1, <3>4 DEF c
  <2> QED
    BY <1>3, <2>1, <2>2
<1>7. status \in [DOMAIN jobs -> {"sleep", "run", "reent", "exit"}]
  BY <1>2, <1>3 DEF WordsOk, Words
<1>8. \A f \in DOMAIN jobs :
        Cardinality({i \in DOMAIN chain : chain[i].agent = f /\ ~chain[i].clone}) = IF status[f] \in {"run", "reent"} THEN 1 ELSE 0
  BY <1>2, <1>3, OneActivation DEF ChainOk
<1> QED
  BY <1>1, <1>4, <1>5, <1>6, <1>7, <1>8 DEF TypeOK

\* The domains, the listeners, the status words and the chain stay of their types, an agent is
\* on the chain exactly as often as its AR_STATUS says, and no event of the queue lies past the
\* arrays but in a spare word.  That none is written there is not proved: EventsFit fails.
THEOREM TypeCorrect == Spec => []TypeOK
<1>1. IInv => TypeOK
  BY TypesFollow
<1> QED
  BY <1>1, Invariance, PTL

\* By the invariant the solutions are within the domains.
LEMMA NoneLost ==
  ASSUME IInv
  PROVE  NoSolutionLost
<1>1. Remembers(Vars, program.posts, posted, store, solutions)
  BY InvParts
<1>2. \A sol \in solutions : Admits(Vars, store, sol)
  BY <1>1 DEF Remembers
<1> QED
  BY <1>2 DEF NoSolutionLost, Admits, Ok

\* Whatever propagators run, in whatever order, no assignment that satisfies what is posted
\* leaves the domains, and domain_region and domain_set_false fail only if there is none.
THEOREM SolutionsAreKept == Spec => []NoSolutionLost
<1>1. IInv => NoSolutionLost
  BY NoneLost
<1> QED
  BY <1>1, Invariance, PTL

\* When nothing is pending, a constraint is entailed, or every variable of it that is free
\* is listened to by an agent of the constraint.
LEMMA AtRestFacts ==
  ASSUME IInv, AtRest, NEW k \in 1 .. posted
  PROVE  LET con == program.posts[k] IN
           /\ IsCon(Vars, con) /\ VarsOf(con) \subseteq Vars
           /\ \/ Entailed(Vars, store, Sat(Vars, con))
              \/ /\ \A x \in VarsOf(con) : Bound(store, x) \/ Listened(store, jobs, status, k, x)
                 /\ \E x \in VarsOf(con) : ~Bound(store, x)
<1> DEFINE con == program.posts[k]
<1>1. chain = <<>> /\ store.queue = <<>> /\ store.state = "ok"
  BY DEF AtRest, Ok
<1>2. IsCon(Vars, con) /\ Covered(Vars, con, k, store, jobs, status, chain)
  BY <1>1, InvParts DEF AllCovered
<1>3. VarsOf(con) \subseteq Vars
  BY <1>2, VarsOfFacts
<1>4. \A x : ~ToPost(chain, k, x)
  BY <1>1 DEF ToPost
<1>5. \A f : ~OnChain(chain, f) /\ ~Wakes(store, f)
  BY <1>1 DEF OnChain, Wakes
<1>6. Heeded(con, k, store, jobs, status, chain) => \A x \in VarsOf(con) : Bound(store, x) \/ Listened(store, jobs, status, k, x)
  BY <1>4 DEF Heeded
<1>7. Moving(con, k, store, jobs, status, chain) => \E x \in VarsOf(con) : ~Bound(store, x)
  BY <1>4, <1>5 DEF Moving
<1> QED
  BY <1>2, <1>3, <1>6, <1>7 DEF Covered

\* By the invariant an assignment at rest satisfies every posted constraint: with nothing free
\* and nothing to run, it is entailed.
LEMMA LabelledSolves ==
  ASSUME IInv
  PROVE  LabelledIsSolution
<1> SUFFICES ASSUME AtRest, \A x \in Vars : Bound(store, x)
             PROVE  [x \in Vars |-> Min(store.dom[x])] \in solutions
  BY DEF LabelledIsSolution
<1> DEFINE sol == [x \in Vars |-> Min(store.dom[x])]
<1>1. IsStore(Vars, store) /\ Finds(Vars, program.posts, posted, store, solutions)
  BY InvParts
<1>2. sol \in [Vars -> Int] /\ \A x \in Vars : sol[x] \in store.dom[x]
  BY <1>1, StoreFacts
<1> HIDE DEF sol
<1>3. ASSUME NEW k \in 1 .. posted
      PROVE  sol \in Sat(Vars, program.posts[k])
  <2>1. Entailed(Vars, store, Sat(Vars, program.posts[k]))
    BY AtRestFacts
  <2> QED
    BY <1>2, <2>1 DEF Entailed
<1>4. sol \in solutions
  BY <1>1, <1>2, <1>3 DEF Finds
<1> QED
  BY <1>4 DEF sol

\* Propagation accepts nothing else: where the machine rests with every variable bound, the
\* assignment satisfies all that was posted, although bound events may have been passed over
\* by their own propagator and dom events dropped from a full queue.
THEOREM OnlySolutionsAreFound == Spec => []LabelledIsSolution
<1>1. IInv => LabelledIsSolution
  BY LabelledSolves
<1> QED
  BY <1>1, Invariance, PTL

\* The domains stand for the solutions, no more and no less.
THEOREM DomainsAreExact == Spec => []ExactlySolutions
<1>1. NoSolutionLost /\ LabelledIsSolution => ExactlySolutions
  BY DEF ExactlySolutions
<1> QED
  BY <1>1, SolutionsAreKept, OnlySolutionsAreFound, PTL

-----------------------------------------------------------------------------
(* Who listens when nothing is pending.                                    *)

\* The assignments that take a constraint to its lowest and highest values.
LEMMA Attained ==
  ASSUME NEW V, NEW con, IsCon(V, con), NEW s, IsStore(V, s)
  PROVE  /\ \E sol \in [V -> Int] : /\ \A x \in V : sol[x] \in s.dom[x]
                                    /\ ValueTo(con, sol, Len(con.terms)) = LowTo(s, con, Len(con.terms))
         /\ \E sol \in [V -> Int] : /\ \A x \in V : sol[x] \in s.dom[x]
                                    /\ ValueTo(con, sol, Len(con.terms)) = UpTo(s, con, Len(con.terms))
<1> DEFINE n == Len(con.terms)
           neg == {con.terms[i].x : i \in {j \in 1 .. n : con.terms[j].a < 0}}
           low == [x \in V |-> IF x \in neg THEN Max(s.dom[x]) ELSE Min(s.dom[x])]
           high == [x \in V |-> IF x \in neg THEN Min(s.dom[x]) ELSE Max(s.dom[x])]
<1>1. /\ low \in [V -> Int] /\ \A x \in V : low[x] \in s.dom[x]
      /\ high \in [V -> Int] /\ \A x \in V : high[x] \in s.dom[x]
  BY StoreFacts
<1>2. n \in Nat /\ n \in 0 .. n
  BY ConFacts
<1>3. ASSUME NEW i \in 1 .. n
      PROVE  con.terms[i].a * low[con.terms[i].x] = Low(s, con.terms[i]) /\ con.terms[i].a * high[con.terms[i].x] = Up(s, con.terms[i])
  <2>1. con.terms[i].a \in Int /\ con.terms[i].a # 0 /\ con.terms[i].x \in V
    BY ConFacts
  <2>2. con.terms[i].x \in neg <=> con.terms[i].a < 0
    BY DEF IsCon
  <2> HIDE DEF neg
  <2>3. con.terms[i].a > 0 => low[con.terms[i].x] = Min(s.dom[con.terms[i].x]) /\ high[con.terms[i].x] = Max(s.dom[con.terms[i].x])
    BY <2>1, <2>2
  <2>4. ~(con.terms[i].a > 0) => low[con.terms[i].x] = Max(s.dom[con.terms[i].x]) /\ high[con.terms[i].x] = Min(s.dom[con.terms[i].x])
    BY <2>1, <2>2
  <2> HIDE DEF low, high
  <2> QED
    BY <2>3, <2>4 DEF Low, Up
<1> HIDE DEF low, high
<1>4. Lefts(con, low) = Lows(s, con) /\ Lefts(con, high) = Ups(s, con)
  BY <1>3 DEF Lefts, Lows, Ups
<1>5. LowTo(s, con, n) = Partial(con.c, Lows(s, con), n) /\ UpTo(s, con, n) = Partial(con.c, Ups(s, con), n)
  BY <1>2, SumsAre
<1>6. ValueTo(con, low, n) = LowTo(s, con, n) /\ ValueTo(con, high, n) = UpTo(s, con, n)
  BY <1>4, <1>5 DEF ValueTo
<1> QED
  BY <1>1, <1>6

\* By the invariant a constraint that is not entailed has agents asleep on its free variables when
\* nothing runs.
LEMMA AllWatched ==
  ASSUME IInv
  PROVE  Watched
<1> SUFFICES ASSUME AtRest, NEW k \in 1 .. posted
             PROVE  LET con == program.posts[k]
                        n == Len(con.terms)
                    IN \/ LowTo(store, con, n) >= 0 /\ (con.rel = "eq" => UpTo(store, con, n) <= 0)
                       \/ \A x \in VarsOf(con) : Bound(store, x) \/ \E f \in DOMAIN jobs : jobs[f].post = k /\ Listens(f, x)
  BY DEF Watched
<1> DEFINE con == program.posts[k]
           n == Len(con.terms)
<1>1. /\ MachineOk(Vars, program.posts, posted, store, jobs, status, chain) /\ IsStore(Vars, store)
  BY InvParts
<1>2. /\ IsCon(Vars, con) /\ VarsOf(con) \subseteq Vars
      /\ \/ Entailed(Vars, store, Sat(Vars, con))
         \/ \A x \in VarsOf(con) : Bound(store, x) \/ Listened(store, jobs, status, k, x)
  BY AtRestFacts
<1>3. chain = <<>>
  BY DEF AtRest
<1>4. CASE Entailed(Vars, store, Sat(Vars, con))
  <2> HIDE DEF con
  <2>1. PICK low \in [Vars -> Int] : (\A x \in Vars : low[x] \in store.dom[x]) /\ ValueTo(con, low, n) = LowTo(store, con, n)
    BY <1>1, <1>2, Attained
  <2>2. PICK high \in [Vars -> Int] : (\A x \in Vars : high[x] \in store.dom[x]) /\ ValueTo(con, high, n) = UpTo(store, con, n)
    BY <1>1, <1>2, Attained
  <2>3. low \in Sat(Vars, con) /\ high \in Sat(Vars, con)
    BY <1>4, <2>1, <2>2 DEF Entailed
  <2>4. con.rel = "eq" => LowTo(store, con, n) = 0 /\ UpTo(store, con, n) = 0
    BY <1>2, <2>1, <2>2, <2>3, SatIs
  <2>5. con.rel # "eq" => LowTo(store, con, n) >= 0
    BY <1>2, <2>1, <2>3, SatIs
  <2>6. LowTo(store, con, n) >= 0 /\ (con.rel = "eq" => UpTo(store, con, n) <= 0)
    BY <2>4, <2>5
  <2> QED
    BY <2>6 DEF con
<1>5. CASE \A x \in VarsOf(con) : Bound(store, x) \/ Listened(store, jobs, status, k, x)
  <2> SUFFICES ASSUME NEW x \in VarsOf(con), Listened(store, jobs, status, k, x)
               PROVE  \E f \in DOMAIN jobs : jobs[f].post = k /\ Listens(f, x)
    BY <1>5
  <2>1. PICK f \in Nat : Guardian(jobs, status, k, f) /\ Hears(store, x, "ins", f)
    BY DEF Listened
  <2>2. f \in 1 .. Len(jobs) /\ jobs[f].post = k /\ status[f] # "exit"
    BY <2>1 DEF Guardian
  <2>3. WordsOk(jobs, status, chain) /\ jobs \in Seq(Jobs(Vars)) /\ store.cs \in [Vars \X Ports -> Seq(Nat)]
    BY <1>1, StoreFacts DEF MachineOk, JobsOk
  <2>4. status[f] \in Words /\ status[f] \notin {"run", "reent"}
    BY <1>3, <2>2, <2>3 DEF WordsOk
  <2>5. status[f] = "sleep"
    BY <2>2, <2>4 DEF Words
  <2>6. <<x, "ins">> \in Vars \X Ports
    BY <1>2 DEF Ports
  <2>7. store.cs[<<x, "ins">>] \in Seq(Nat)
    BY <2>3, <2>6
  <2>8. \E i \in DOMAIN store.cs[<<x, "ins">>] : store.cs[<<x, "ins">>][i] = f
    BY <2>1, <2>7 DEF Hears
  <2>9. Listens(f, x)
    BY <2>5, <2>8 DEF Listens
  <2>10. f \in DOMAIN jobs
    BY <2>2, <2>3
  <2> QED
    BY <2>2, <2>9, <2>10
<1> QED
  BY <1>2, <1>4, <1>5

\* Although agents kill their frames and call others in their place, a constraint that may
\* still fail has an agent asleep on each of its free variables where nothing is pending.
THEOREM ConstraintsAreWatched == Spec => []Watched
<1>1. IInv => Watched
  BY AllWatched
<1> QED
  BY <1>1, Invariance, PTL
=============================================================================
