------------------------- MODULE AnswerTable_proofs -------------------------
(***************************************************************************)
(* The invariants of AnswerTable, for all answers, orders, hash functions, *)
(* limits and numbers of followers.                                        *)
(*                                                                         *)
(* The list of a table is the sequence M of its records with Whole(t, M);  *)
(* every function of table.c is shown to turn a table in order (Ordered)   *)
(* into one, and to do one of three things with the answer: Rejects,       *)
(* Grows or Improves.  The theorems at the end need no more than that.     *)
(***************************************************************************)
EXTENDS AnswerTable, Subsequences_proofs, TLAPS

-----------------------------------------------------------------------------
(* The sizes of hash tables.                                               *)

\* The odd numbers that bp_hsize divides by, and their product without repeated factors.
Divisors == {3, 5, 7, 9, 11, 13, 15, 17, 19, 21, 23, 25, 27, 29}
Common == 291136195350

\* No divisor divides t, unless it is t or larger.
Passes(t) == t % 2 = 1 /\ \A i \in Divisors : i < t => t % i # 0

\* A multiple of the divisors' product and one more has none of them.
LEMMA LargePasses ==
  ASSUME NEW q \in Nat
  PROVE  Passes(Common * q + 1)
<1> DEFINE t == Common * q + 1
<1>1. t % 2 = 1
  <2>1. t = 2 * (145568097675 * q) + 1 /\ 145568097675 * q \in Nat
    BY DEF Common
  <2> HIDE DEF t
  <2> QED
    BY <2>1
<1>2. t % 3 = 1
  <2>1. t = 3 * (97045398450 * q) + 1 /\ 97045398450 * q \in Nat
    BY DEF Common
  <2> HIDE DEF t
  <2> QED
    BY <2>1
<1>3. t % 5 = 1
  <2>1. t = 5 * (58227239070 * q) + 1 /\ 58227239070 * q \in Nat
    BY DEF Common
  <2> HIDE DEF t
  <2> QED
    BY <2>1
<1>4. t % 7 = 1
  <2>1. t = 7 * (41590885050 * q) + 1 /\ 41590885050 * q \in Nat
    BY DEF Common
  <2> HIDE DEF t
  <2> QED
    BY <2>1
<1>5. t % 9 = 1
  <2>1. t = 9 * (32348466150 * q) + 1 /\ 32348466150 * q \in Nat
    BY DEF Common
  <2> HIDE DEF t
  <2> QED
    BY <2>1
<1>6. t % 11 = 1
  <2>1. t = 11 * (26466926850 * q) + 1 /\ 26466926850 * q \in Nat
    BY DEF Common
  <2> HIDE DEF t
  <2> QED
    BY <2>1
<1>7. t % 13 = 1
  <2>1. t = 13 * (22395091950 * q) + 1 /\ 22395091950 * q \in Nat
    BY DEF Common
  <2> HIDE DEF t
  <2> QED
    BY <2>1
<1>8. t % 15 = 1
  <2>1. t = 15 * (19409079690 * q) + 1 /\ 19409079690 * q \in Nat
    BY DEF Common
  <2> HIDE DEF t
  <2> QED
    BY <2>1
<1>9. t % 17 = 1
  <2>1. t = 17 * (17125658550 * q) + 1 /\ 17125658550 * q \in Nat
    BY DEF Common
  <2> HIDE DEF t
  <2> QED
    BY <2>1
<1>10. t % 19 = 1
  <2>1. t = 19 * (15322957650 * q) + 1 /\ 15322957650 * q \in Nat
    BY DEF Common
  <2> HIDE DEF t
  <2> QED
    BY <2>1
<1>11. t % 21 = 1
  <2>1. t = 21 * (13863628350 * q) + 1 /\ 13863628350 * q \in Nat
    BY DEF Common
  <2> HIDE DEF t
  <2> QED
    BY <2>1
<1>12. t % 23 = 1
  <2>1. t = 23 * (12658095450 * q) + 1 /\ 12658095450 * q \in Nat
    BY DEF Common
  <2> HIDE DEF t
  <2> QED
    BY <2>1
<1>13. t % 25 = 1
  <2>1. t = 25 * (11645447814 * q) + 1 /\ 11645447814 * q \in Nat
    BY DEF Common
  <2> HIDE DEF t
  <2> QED
    BY <2>1
<1>14. t % 27 = 1
  <2>1. t = 27 * (10782822050 * q) + 1 /\ 10782822050 * q \in Nat
    BY DEF Common
  <2> HIDE DEF t
  <2> QED
    BY <2>1
<1>15. t % 29 = 1
  <2>1. t = 29 * (10039179150 * q) + 1 /\ 10039179150 * q \in Nat
    BY DEF Common
  <2> HIDE DEF t
  <2> QED
    BY <2>1
<1> HIDE DEF t
<1> QED
  BY <1>1, <1>2, <1>3, <1>4, <1>5, <1>6, <1>7, <1>8, <1>9, <1>10, <1>11, <1>12, <1>13, <1>14, <1>15 DEF Passes, Divisors, t

\* The numbers that are tried for small tables: each is less than twice the one before.
Tried == {3, 7, 17, 37, 73, 149,
          293, 587, 1171, 2341, 4681, 9353,
          18709, 37409, 74821, 149641, 299281, 598561,
          1197121, 2394241, 4788481, 9576961, 19153921, 38307839,
          76615681, 153231361, 306462721, 612925441, 1225850881, 2451701761,
          4903403521, 9806807039, 19613614081, 39227228149, 78454456279, 156908912557,
          313817825117}

\* None of the odd numbers below has a small divisor.
LEMMA TriedPass == \A t \in Tried : Passes(t)
<1>1. Passes(3)
  BY DEF Passes, Divisors
<1>2. Passes(7)
  BY DEF Passes, Divisors
<1>3. Passes(17)
  BY DEF Passes, Divisors
<1>4. Passes(37)
  BY DEF Passes, Divisors
<1>5. Passes(73)
  BY DEF Passes, Divisors
<1>6. Passes(149)
  BY DEF Passes, Divisors
<1>7. Passes(293)
  BY DEF Passes, Divisors
<1>8. Passes(587)
  BY DEF Passes, Divisors
<1>9. Passes(1171)
  BY DEF Passes, Divisors
<1>10. Passes(2341)
  BY DEF Passes, Divisors
<1>11. Passes(4681)
  BY DEF Passes, Divisors
<1>12. Passes(9353)
  BY DEF Passes, Divisors
<1>13. Passes(18709)
  BY DEF Passes, Divisors
<1>14. Passes(37409)
  BY DEF Passes, Divisors
<1>15. Passes(74821)
  BY DEF Passes, Divisors
<1>16. Passes(149641)
  BY DEF Passes, Divisors
<1>17. Passes(299281)
  BY DEF Passes, Divisors
<1>18. Passes(598561)
  BY DEF Passes, Divisors
<1>19. Passes(1197121)
  BY DEF Passes, Divisors
<1>20. Passes(2394241)
  BY DEF Passes, Divisors
<1>21. Passes(4788481)
  BY DEF Passes, Divisors
<1>22. Passes(9576961)
  BY DEF Passes, Divisors
<1>23. Passes(19153921)
  BY DEF Passes, Divisors
<1>24. Passes(38307839)
  BY DEF Passes, Divisors
<1>25. Passes(76615681)
  BY DEF Passes, Divisors
<1>26. Passes(153231361)
  BY DEF Passes, Divisors
<1>27. Passes(306462721)
  BY DEF Passes, Divisors
<1>28. Passes(612925441)
  BY DEF Passes, Divisors
<1>29. Passes(1225850881)
  BY DEF Passes, Divisors
<1>30. Passes(2451701761)
  BY DEF Passes, Divisors
<1>31. Passes(4903403521)
  BY DEF Passes, Divisors
<1>32. Passes(9806807039)
  BY DEF Passes, Divisors
<1>33. Passes(19613614081)
  BY DEF Passes, Divisors
<1>34. Passes(39227228149)
  BY DEF Passes, Divisors
<1>35. Passes(78454456279)
  BY DEF Passes, Divisors
<1>36. Passes(156908912557)
  BY DEF Passes, Divisors
<1>37. Passes(313817825117)
  BY DEF Passes, Divisors
<1> QED
  BY <1>1, <1>2, <1>3, <1>4, <1>5, <1>6, <1>7, <1>8, <1>9, <1>10, <1>11, <1>12, <1>13, <1>14, <1>15, <1>16, <1>17, <1>18, <1>19, <1>20, <1>21, <1>22, <1>23, <1>24, <1>25, <1>26, <1>27, <1>28, <1>29, <1>30, <1>31, <1>32, <1>33, <1>34, <1>35, <1>36, <1>37 DEF Tried

\* One of them is near every size, far beyond any that fits in memory.
LEMMA TriedNear ==
  ASSUME NEW n \in Nat, n >= 1, n <= 313817825117
  PROVE  \E t \in Tried : n <= t /\ t <= 2 * n + 1
BY DEF Tried
\* bp_hsize finds a size that passes: its search ends.
LEMMA SizePasses ==
  ASSUME NEW n \in Nat, n >= 1
  PROVE  \E t \in n .. 2 * n + 1 : Passes(t)
<1>1. CASE n <= 313817825117
  <2>1. PICK t \in Tried : n <= t /\ t <= 2 * n + 1
    BY <1>1, TriedNear
  <2>2. t \in Int
    BY DEF Tried
  <2> QED
    BY <2>1, <2>2, TriedPass
<1>2. CASE n > 313817825117
  <2> DEFINE q == n \div Common + 1
             t == Common * q + 1
  <2>1. q \in Nat /\ n < Common * q /\ Common * q <= n + Common
    BY <1>2 DEF Common
  <2>2. t \in n .. 2 * n + 1
    BY <1>2, <2>1 DEF Common
  <2>3. Passes(t)
    BY <2>1, LargePasses
  <2> HIDE DEF t
  <2> QED
    BY <2>2, <2>3
<1> QED
  BY <1>1, <1>2

\* There is a size for every table: the search for one ends.
LEMMA SizeFound == \A n \in Nat : bp_hsize(n) \in Nat \ {0}
<1> SUFFICES ASSUME NEW n \in Nat PROVE bp_hsize(n) \in Nat \ {0}
  OBVIOUS
<1> DEFINE low == IF n % 2 = 0 THEN n + 1 ELSE n + 2
           half == low \div 2 + 1
           odds == {2 * k + 1 : k \in 1 .. (IF half > 29 THEN 29 ELSE half) \div 2}
           good == {t \in low .. 2 * low + 1 :
                      t % 2 = 1 /\ \A i \in odds : i <= half => t % i /= 0}
<1>1. low \in Nat /\ low >= 1 /\ half \in Nat /\ half <= low + 1 /\ (low >= 3 => half < low)
      /\ (low <= 2 => half <= 2)
  OBVIOUS
<1>2. odds \subseteq Divisors
  <2> SUFFICES ASSUME NEW k \in 1 .. 14 PROVE 2 * k + 1 \in Divisors
    BY <1>1
  <2> QED
    BY DEF Divisors
<1>3. PICK t \in low .. 2 * low + 1 : Passes(t)
  BY <1>1, SizePasses
<1>4. t \in good
  <2>1. ASSUME NEW i \in odds, i <= half PROVE i < t
    <3>1. i \in Divisors
      BY <1>2, <2>1
    <3> QED
      BY <1>1, <1>3, <2>1, <3>1 DEF Divisors
  <2> QED
    BY <1>2, <1>3, <2>1 DEF Passes
<1>5. good \subseteq Nat /\ 0 \notin good
  BY <1>1
<1>6. bp_hsize(n) = CHOOSE m \in good : \A u \in good : m <= u
  BY DEF bp_hsize
<1> HIDE DEF good
<1>7. \E m \in good : \A u \in good : m <= u
  BY <1>4, <1>5, LeastNatural
<1> QED
  BY <1>5, <1>6, <1>7

-----------------------------------------------------------------------------
(* Linked lists.                                                           *)

\* The list that starts at first, goes from each record to the next and ends at last, is M.
Linked(next, first, last, M) ==
  /\ \A i \in 1 .. Len(M) : next[M[i]] = IF i = Len(M) THEN NULL ELSE M[i + 1]
  /\ first = IF M = <<>> THEN NULL ELSE M[1]
  /\ last = IF M = <<>> THEN NULL ELSE M[Len(M)]

\* What is kept of a sequence that is M and then elements that are not kept.
LEMMA KeptOfPadded ==
  ASSUME NEW S, NEW s \in Seq(S), NEW K, NEW M \in Seq(K), Len(M) <= Len(s),
         \A i \in 1 .. Len(M) : s[i] = M[i],
         \A i \in 1 .. Len(s) : i > Len(M) => s[i] \notin K
  PROVE  Kept(s, K) = M
<1> DEFINE f == KeptFcn(s, K)
           part(n) == SubSeq(M, 1, n)
           T == {n \in Nat : n <= Len(s) => f[n] = IF n <= Len(M) THEN part(n) ELSE M}
<1>1. /\ f[0] = <<>>
      /\ \A n \in Nat : n < Len(s) =>
           f[n + 1] = IF s[n + 1] \in K THEN Append(f[n], s[n + 1]) ELSE f[n]
  BY KeptFcnRec
<1> HIDE DEF f
<1>2. /\ part(0) = <<>> /\ part(Len(M)) = M
      /\ \A n \in Nat : n < Len(M) => part(n + 1) = Append(part(n), M[n + 1])
  <2>1. part(0) = <<>> /\ part(Len(M)) = M
    OBVIOUS
  <2>2. ASSUME NEW n \in Nat, n < Len(M) PROVE part(n + 1) = Append(part(n), M[n + 1])
    BY <2>2
  <2> QED
    BY <2>1, <2>2
<1> HIDE DEF part
<1>3. 0 \in T
  BY <1>1, <1>2
<1>4. ASSUME NEW n \in Nat, n \in T PROVE n + 1 \in T
  <2> SUFFICES ASSUME n + 1 <= Len(s)
               PROVE  f[n + 1] = IF n + 1 <= Len(M) THEN part(n + 1) ELSE M
    OBVIOUS
  <2>1. f[n] = (IF n <= Len(M) THEN part(n) ELSE M) /\ n + 1 \in 1 .. Len(s)
    BY <1>4
  <2>2. f[n + 1] = IF s[n + 1] \in K THEN Append(f[n], s[n + 1]) ELSE f[n]
    BY <1>1, <2>1
  <2>3. CASE n + 1 <= Len(M)
    <3>1. s[n + 1] = M[n + 1] /\ M[n + 1] \in K
      BY <2>3
    <3> QED
      BY <1>2, <2>1, <2>2, <2>3, <3>1
  <2>4. CASE ~(n + 1 <= Len(M))
    <3>1. s[n + 1] \notin K
      BY <2>1, <2>4
    <3>2. f[n] = M
      BY <1>2, <2>1, <2>4
    <3> QED
      BY <2>2, <2>4, <3>1, <3>2
  <2> QED
    BY <2>3, <2>4
<1>5. Nat \subseteq T
  <2> HIDE DEF T
  <2> QED
    BY <1>3, <1>4, NaturalsFrom, Zenon
<1>6. Len(s) \in Nat /\ f[Len(s)] = M
  BY <1>2, <1>5
<1> QED
  BY <1>6, KeptIs DEF f

\* The walk of ListFrom, and what it is at i.
WalkStep(t, n, f, i) ==
  IF i = 1 THEN n ELSE IF f[i - 1] = NULL THEN NULL ELSE t.next[f[i - 1]]

WalkFcn(t, n) ==
  CHOOSE f : f = [i \in 1 .. Len(t.args) + 1 |->
                    IF i = 1 THEN n ELSE IF f[i - 1] = NULL THEN NULL ELSE t.next[f[i - 1]]]

\* ListFrom keeps the records of the walk through the links.
LEMMA ListFromIs == \A t, n : ListFrom(t, n) = Kept(WalkFcn(t, n), Nodes(t))
BY DEF ListFrom, WalkFcn

\* A walk through a linked list finds the list.
LEMMA ListFound ==
  ASSUME NEW t, NEW N \in Nat, N = Len(t.args), NEW M \in Seq(1 .. N), Len(M) <= N,
         NEW n, NEW last, Linked(t.next, n, last, M)
  PROVE  ListFrom(t, n) = M
<1> DEFINE g == WalkFcn(t, n)
           s == [i \in 1 .. N + 1 |-> IF i <= Len(M) THEN M[i] ELSE NULL]
           T == {k \in Nat : k <= N => g[k + 1] = s[k + 1]}
<1>1. Len(M) \in Nat /\ \A i \in 1 .. Len(M) : M[i] \in 1 .. N /\ M[i] # NULL
  BY DEF NULL
<1>2. /\ s \in Seq(0 .. N) /\ Len(s) = N + 1
      /\ \A i \in 1 .. N + 1 : s[i] = IF i <= Len(M) THEN M[i] ELSE NULL
  BY <1>1 DEF NULL
<1>3. s = [i \in 1 .. N + 1 |-> WalkStep(t, n, s, i)]
  <2>1. ASSUME NEW i \in 1 .. N + 1 PROVE s[i] = WalkStep(t, n, s, i)
    <3>1. CASE i = 1
      <4>1. n = IF 1 <= Len(M) THEN M[1] ELSE NULL
        BY <1>1 DEF Linked
      <4> QED
        BY <1>2, <3>1, <4>1 DEF WalkStep
    <3>2. CASE i # 1
      <4> PICK j \in 1 .. N : i = j + 1
        <5>1. i - 1 \in 1 .. N /\ i = (i - 1) + 1
          BY <3>2
        <5> QED
          BY <5>1
      <4>1. WalkStep(t, n, s, i) = IF s[j] = NULL THEN NULL ELSE t.next[s[j]]
        <5>1. i - 1 = j
          OBVIOUS
        <5> QED
          BY <3>2, <5>1 DEF WalkStep
      <4>2. s[j] = IF j <= Len(M) THEN M[j] ELSE NULL
        BY <1>2
      <4>3. s[i] = IF j + 1 <= Len(M) THEN M[j + 1] ELSE NULL
        BY <1>2
      <4> HIDE DEF s
      <4>4. CASE j <= Len(M)
        <5>1. j \in 1 .. Len(M)
          BY <4>4
        <5>2. t.next[M[j]] = IF j = Len(M) THEN NULL ELSE M[j + 1]
          BY <5>1, SMTT(30) DEF Linked
        <5> QED
          BY <1>1, <4>1, <4>2, <4>3, <5>1, <5>2
      <4>5. CASE ~(j <= Len(M))
        BY <1>1, <4>1, <4>2, <4>3, <4>5
      <4> QED
        BY <4>4, <4>5
    <3> QED
      BY <3>1, <3>2
  <2> HIDE DEF s
  <2>2. s = [i \in 1 .. N + 1 |-> s[i]]
    BY DEF s
  <2> QED
    BY <2>1, <2>2
<1>4. g = [i \in 1 .. N + 1 |-> WalkStep(t, n, g, i)]
  <2> HIDE DEF s
  <2> QED
    BY <1>3 DEF WalkFcn, WalkStep
<1> HIDE DEF g, s
<1>5. 0 \in T
  <2>1. g[1] = n /\ s[1] = n
    BY <1>3, <1>4 DEF WalkStep
  <2> QED
    BY <2>1
<1>6. ASSUME NEW k \in Nat, k \in T PROVE k + 1 \in T
  <2> SUFFICES ASSUME k + 1 <= N PROVE g[k + 1 + 1] = s[k + 1 + 1]
    OBVIOUS
  <2>1. k + 1 + 1 \in 1 .. N + 1 /\ k + 1 + 1 # 1 /\ (k + 1 + 1) - 1 = k + 1
    OBVIOUS
  <2>2. g[k + 1] = s[k + 1]
    BY <1>6
  <2> PICK i \in 1 .. N + 1 : i = k + 1 + 1 /\ i # 1 /\ i - 1 = k + 1
    BY <2>1
  <2>3. WalkStep(t, n, g, i) = WalkStep(t, n, s, i)
    BY <2>2 DEF WalkStep
  <2>4. g[i] = s[i]
    BY <1>3, <1>4, <2>3, ZenonT(40)
  <2> QED
    BY <2>4
<1>7. Nat \subseteq T
  <2> HIDE DEF T
  <2> QED
    BY <1>5, <1>6, NaturalsFrom, Zenon
<1>8. g = s
  <2>1. ASSUME NEW i \in 1 .. N + 1 PROVE g[i] = s[i]
    <3>1. PICK k \in Nat : i = k + 1
      <4>1. i - 1 \in Nat /\ i = (i - 1) + 1
        OBVIOUS
      <4> QED
        BY <4>1
    <3>2. k <= N
      BY <3>1
    <3> QED
      BY <1>7, <3>1, <3>2
  <2> QED
    BY <1>3, <1>4, <2>1
<1>9. Kept(s, 1 .. N) = M
  <2>1. ASSUME NEW i \in 1 .. Len(M) PROVE s[i] = M[i]
    <3>1. i \in 1 .. N + 1 /\ i <= Len(M)
      BY <1>1
    <3> QED
      BY <1>2, <3>1
  <2>2. \A i \in 1 .. Len(s) : i > Len(M) => s[i] \notin 1 .. N
    BY <1>1, <1>2 DEF NULL
  <2>3. Len(M) <= Len(s)
    BY <1>1, <1>2
  <2> QED
    BY <1>2, <2>1, <2>2, <2>3, KeptOfPadded
<1> QED
  BY <1>8, <1>9, ListFromIs DEF g, Nodes

\* t has the fields of a table and no other.
IsTable(t) ==
  t = [args |-> t.args, next |-> t.next, first |-> t.first, last |-> t.last,
       count |-> t.count, size |-> t.size, chains |-> t.chains]

\* A table with other fields.
Reindexed(t, x, y) == [t EXCEPT !.size = x, !.chains = y]
Lengthened(t, x, y, z) == [t EXCEPT !.args = x, !.next = y, !.count = z]

\* Reindexed changes the hash table and nothing else.
LEMMA ReindexedIs ==
  ASSUME NEW t, IsTable(t), NEW x, NEW y, NEW u, u = Reindexed(t, x, y)
  PROVE  /\ IsTable(u)
         /\ u.args = t.args /\ u.next = t.next /\ u.first = t.first /\ u.last = t.last
         /\ u.count = t.count /\ u.size = x /\ u.chains = y
<1> DEFINE v == [t EXCEPT !.size = x]
<1>1. /\ IsTable(v)
      /\ v.args = t.args /\ v.next = t.next /\ v.first = t.first /\ v.last = t.last
      /\ v.count = t.count /\ v.size = x
  BY DEF IsTable
<1>2. u = [v EXCEPT !.chains = y]
  BY DEF Reindexed
<1> HIDE DEF v
<1> QED
  BY <1>1, <1>2 DEF IsTable

\* Lengthened changes the records and their number and nothing else.
LEMMA LengthenedIs ==
  ASSUME NEW t, IsTable(t), NEW x, NEW y, NEW z, NEW u, u = Lengthened(t, x, y, z)
  PROVE  /\ IsTable(u)
         /\ u.args = x /\ u.next = y /\ u.first = t.first /\ u.last = t.last
         /\ u.count = z /\ u.size = t.size /\ u.chains = t.chains
<1> DEFINE v == [t EXCEPT !.args = x]
           w == [v EXCEPT !.next = y]
<1>1. u = [w EXCEPT !.count = z]
  BY DEF Lengthened
<1>2. /\ IsTable(v)
      /\ v.args = x /\ v.first = t.first /\ v.last = t.last
      /\ v.count = t.count /\ v.size = t.size /\ v.chains = t.chains
  BY DEF IsTable
<1> HIDE DEF v
<1>3. /\ IsTable(w)
      /\ w.args = x /\ w.next = y /\ w.first = t.first /\ w.last = t.last
      /\ w.count = t.count /\ w.size = t.size /\ w.chains = t.chains
  BY <1>2 DEF IsTable
<1> HIDE DEF w
<1> QED
  BY <1>1, <1>3 DEF IsTable

\* Chained adds the record to the chain of its answer and changes nothing else.
LEMMA ChainedIs ==
  ASSUME NEW t, IsTable(t), NEW n
  PROVE  LET b == Bucket(t.args[n], t.size)
             u == Chained(t, n)
         IN /\ IsTable(u)
            /\ u.args = t.args /\ u.next = t.next /\ u.first = t.first /\ u.last = t.last
            /\ u.count = t.count /\ u.size = t.size
            /\ u.chains = [t.chains EXCEPT ![b] = @ \cup {n}]
BY DEF IsTable, Chained

Updated(f, p, q) == [f EXCEPT ![p] = q]

\* removeAnswerFromAnswerTable takes the record off the chain of its answer and leaves the list.
LEMMA RemovedIs ==
  ASSUME NEW t, IsTable(t), NEW n
  PROVE  LET b == Bucket(t.args[n], t.size)
             u == removeAnswerFromAnswerTable(t, n)
         IN /\ IsTable(u)
            /\ u.args = t.args /\ u.next = t.next /\ u.first = t.first /\ u.last = t.last
            /\ u.count = t.count /\ u.size = t.size
            /\ u.chains = [t.chains EXCEPT ![b] = @ \ {n}]
BY DEF IsTable, removeAnswerFromAnswerTable

\* copyTabledAnswerArgs changes one record's answer and leaves list and chains.
LEMMA CopiedIs ==
  ASSUME NEW t, IsTable(t), NEW n, NEW a
  PROVE  LET u == copyTabledAnswerArgs(t, n, a)
         IN /\ IsTable(u)
            /\ u.args = Updated(t.args, n, a) /\ u.next = t.next /\ u.first = t.first /\ u.last = t.last
            /\ u.count = t.count /\ u.size = t.size /\ u.chains = t.chains
BY DEF IsTable, copyTabledAnswerArgs, Updated

\* A new record is the last one and linked to nothing.
LEMMA NewRecordIs ==
  ASSUME NEW t, IsTable(t), NEW a
  PROVE  LET u == NewRecord(t, a)
         IN /\ IsTable(u)
            /\ u.args = Append(t.args, a) /\ u.next = Append(t.next, NULL)
            /\ u.first = t.first /\ u.last = t.last
            /\ u.count = t.count + 1 /\ u.size = t.size /\ u.chains = t.chains
<1> DEFINE x == Append(t.args, a)
           y == Append(t.next, NULL)
           z == t.count + 1
           u == NewRecord(t, a)
<1>1. u = Lengthened(t, x, y, z)
  BY DEF NewRecord, Lengthened
<1> HIDE DEF x, y, z, u
<1> HIDE DEF u
<1>2. IsTable(u) /\ u.args = x /\ u.next = y /\ u.count = z
  BY <1>1, LengthenedIs
<1>3. u.first = t.first /\ u.last = t.last /\ u.size = t.size /\ u.chains = t.chains
  BY <1>1, LengthenedIs
<1> QED
  BY <1>2, <1>3, Zenon DEF x, y, z, u

\* allocateAnswerTable makes InitSize chains with record 1 on its own.
LEMMA AllocatedIs ==
  ASSUME NEW t, IsTable(t)
  PROVE  LET u == allocateAnswerTable(t)
             chains == [b \in 0 .. InitSize - 1 |-> {}]
         IN /\ IsTable(u)
            /\ u.args = t.args /\ u.next = t.next /\ u.first = t.first /\ u.last = t.last
            /\ u.count = t.count /\ u.size = InitSize
            /\ u.chains = [chains EXCEPT ![Bucket(t.args[1], InitSize)] = @ \cup {1}]
<1> DEFINE y == [b \in 0 .. InitSize - 1 |-> {}]
           v == Reindexed(t, InitSize, y)
<1>1. allocateAnswerTable(t) = Chained(v, 1)
  BY DEF allocateAnswerTable, Reindexed
<1> HIDE DEF y
<1>2. v = Reindexed(t, InitSize, y)
  OBVIOUS
<1> HIDE DEF v
<1>3. /\ IsTable(v)
      /\ v.args = t.args /\ v.next = t.next /\ v.first = t.first /\ v.last = t.last
      /\ v.count = t.count /\ v.size = InitSize
  BY <1>2, ReindexedIs
<1>4. v.chains = y
  BY <1>2, ReindexedIs
<1>5. LET b == Bucket(v.args[1], v.size)
          u == Chained(v, 1)
      IN /\ IsTable(u)
         /\ u.args = v.args /\ u.next = v.next /\ u.first = v.first /\ u.last = v.last
         /\ u.count = v.count /\ u.size = v.size
         /\ u.chains = [v.chains EXCEPT ![b] = @ \cup {1}]
  BY <1>3, ChainedIs
<1> QED
  BY <1>1, <1>3, <1>4, <1>5, Zenon DEF y

\* expandAnswerTable distributes the records anew and leaves the list.
LEMMA ExpandedIs ==
  ASSUME NEW t, IsTable(t)
  PROVE  LET u == expandAnswerTable(t)
             size == bp_hsize(3 * t.size)
         IN /\ IsTable(u)
            /\ u.args = t.args /\ u.next = t.next /\ u.first = t.first /\ u.last = t.last
            /\ u.count = t.count /\ u.size = size
            /\ u.chains = [b \in 0 .. size - 1 |->
                             {n \in UNION {t.chains[c] : c \in 0 .. t.size - 1} :
                                Bucket(t.args[n], size) = b}]
<1> DEFINE x == bp_hsize(3 * t.size)
           y == [b \in 0 .. x - 1 |->
                   {n \in UNION {t.chains[c] : c \in 0 .. t.size - 1} : Bucket(t.args[n], x) = b}]
           v == Reindexed(t, x, y)
<1>1. expandAnswerTable(t) = v
  BY DEF expandAnswerTable, Reindexed
<1> HIDE DEF x, y
<1>2. v = Reindexed(t, x, y)
  OBVIOUS
<1> HIDE DEF v
<1>3. /\ IsTable(v)
      /\ v.args = t.args /\ v.next = t.next /\ v.first = t.first /\ v.last = t.last
      /\ v.count = t.count /\ v.size = x
  BY <1>2, ReindexedIs
<1>4. v.chains = y
  BY <1>2, ReindexedIs
<1> QED
  BY <1>1, <1>3, <1>4, Zenon DEF x, y

-----------------------------------------------------------------------------
(* Insertion into a list.                                                  *)

Inserted(M, i, n) ==
  [j \in 1 .. Len(M) + 1 |-> IF j < i THEN M[j] ELSE IF j = i THEN n ELSE M[j - 1]]

\* What stands where after an insertion.
LEMMA InsertedIs ==
  ASSUME NEW S, NEW M \in Seq(S), NEW n \in S, NEW i \in 1 .. Len(M) + 1
  PROVE  /\ Inserted(M, i, n) \in Seq(S)
         /\ Len(Inserted(M, i, n)) = Len(M) + 1
         /\ \A j \in 1 .. Len(M) + 1 :
              Inserted(M, i, n)[j] = IF j < i THEN M[j] ELSE IF j = i THEN n ELSE M[j - 1]
<1>1. ASSUME NEW j \in 1 .. Len(M) + 1
      PROVE  (IF j < i THEN M[j] ELSE IF j = i THEN n ELSE M[j - 1]) \in S
  <2>1. CASE j < i
    BY <2>1
  <2>2. CASE j = i
    BY <2>2
  <2>3. CASE j > i
    <3>1. j - 1 \in 1 .. Len(M)
      BY <2>3
    <3> QED
      BY <2>3, <3>1
  <2> QED
    BY <2>1, <2>2, <2>3
<1> QED
  BY <1>1 DEF Inserted

\* I is M with n before its i-th element.
Around(I, M, i, n) ==
  /\ I[i] = n
  /\ \A j \in 1 .. Len(M) : j < i => I[j] = M[j]
  /\ \A j \in 1 .. Len(M) : j >= i => I[j + 1] = M[j]
  /\ \A x \in 1 .. Len(M) + 1 : x # i =>
       \E j \in 1 .. Len(M) : x = (IF j < i THEN j ELSE j + 1) /\ I[x] = M[j]

\* An element of the list before or after the one that was put at i.
LEMMA InsertedAt ==
  ASSUME NEW S, NEW M \in Seq(S), NEW n \in S, NEW i \in 1 .. Len(M) + 1
  PROVE  Around(Inserted(M, i, n), M, i, n)
<1> DEFINE I == Inserted(M, i, n)
<1>1. \A j \in 1 .. Len(M) + 1 : I[j] = IF j < i THEN M[j] ELSE IF j = i THEN n ELSE M[j - 1]
  BY DEF Inserted
<1> HIDE DEF I
<1>2. I[i] = n /\ \A j \in 1 .. Len(M) : j < i => I[j] = M[j]
  BY <1>1
<1>3. ASSUME NEW j \in 1 .. Len(M), j >= i PROVE I[j + 1] = M[j]
  <2>1. j + 1 \in 1 .. Len(M) + 1 /\ ~(j + 1 < i) /\ j + 1 # i /\ (j + 1) - 1 = j
    BY <1>3
  <2> QED
    BY <1>1, <2>1
<1>4. ASSUME NEW k \in 1 .. Len(M) + 1, k # i
      PROVE  \E j \in 1 .. Len(M) : k = (IF j < i THEN j ELSE j + 1) /\ I[k] = M[j]
  <2>1. CASE k < i
    <3>1. k \in 1 .. Len(M)
      BY <2>1
    <3> QED
      BY <1>2, <2>1, <3>1
  <2>2. CASE k > i
    <3>1. k - 1 \in 1 .. Len(M) /\ ~(k - 1 < i) /\ k = (k - 1) + 1
      BY <2>2
    <3>2. I[k] = M[k - 1]
      BY <1>1, <2>2
    <3> QED
      BY <3>1, <3>2
  <2> QED
    BY <1>4, <2>1, <2>2
<1> QED
  BY <1>2, <1>3, <1>4 DEF Around, I

\* M goes through the records 1 .. N, each once.
Lists(M, N) ==
  /\ M \in Seq(1 .. N) /\ Len(M) = N
  /\ \A i, j \in 1 .. N : M[i] = M[j] => i = j
  /\ \A n \in 1 .. N : \E i \in 1 .. N : M[i] = n

\* So it does with a new record, or when one is taken out and put in elsewhere.
LEMMA InsertedLists ==
  ASSUME NEW N \in Nat, NEW M \in Seq(1 .. N), Len(M) + 1 = N,
         \A x, y \in 1 .. Len(M) : M[x] = M[y] => x = y,
         NEW n \in 1 .. N, \A x \in 1 .. Len(M) : M[x] # n,
         \A m \in 1 .. N : m # n => \E x \in 1 .. Len(M) : M[x] = m,
         NEW i \in 1 .. N
  PROVE  Lists(Inserted(M, i, n), N)
<1> DEFINE I == Inserted(M, i, n)
<1> PICK K \in Nat : K = Len(M)
  OBVIOUS
<1> DEFINE S == 1 .. N
<1>0. M \in Seq(S) /\ n \in S /\ i \in 1 .. Len(M) + 1
  OBVIOUS
<1> HIDE DEF S
<1>1. I \in Seq(S) /\ Len(I) = Len(M) + 1
  BY <1>0, InsertedIs
<1>2. /\ I[i] = n
      /\ \A j \in 1 .. K : j < i => I[j] = M[j]
      /\ \A j \in 1 .. K : j >= i => I[j + 1] = M[j]
      /\ \A x \in 1 .. K + 1 : x # i =>
           \E j \in 1 .. K : x = (IF j < i THEN j ELSE j + 1) /\ I[x] = M[j]
  <2>1. Around(Inserted(M, i, n), M, i, n)
    BY <1>0, InsertedAt
  <2> QED
    BY <2>1 DEF Around
<1> HIDE DEF I
<1>3. ASSUME NEW x \in 1 .. N, NEW y \in 1 .. N, I[x] = I[y]
      PROVE  x = y
  <2>1. CASE x = i /\ y = i
    BY <2>1
  <2>2. CASE x = i /\ y # i
    <3>1. PICK j \in 1 .. K : I[y] = M[j]
      BY <1>2, <2>2
    <3> QED
      BY <1>2, <1>3, <2>2, <3>1
  <2>3. CASE x # i /\ y = i
    <3>1. PICK j \in 1 .. K : I[x] = M[j]
      BY <1>2, <2>3
    <3> QED
      BY <1>2, <1>3, <2>3, <3>1
  <2>4. CASE x # i /\ y # i
    <3>1. PICK j \in 1 .. K : x = (IF j < i THEN j ELSE j + 1) /\ I[x] = M[j]
      BY <1>2, <2>4
    <3>2. PICK l \in 1 .. K : y = (IF l < i THEN l ELSE l + 1) /\ I[y] = M[l]
      BY <1>2, <2>4
    <3>3. M[j] = M[l]
      BY <1>3, <3>1, <3>2
    <3>4. j = l
      BY <3>3
    <3> QED
      BY <3>1, <3>2, <3>4
  <2> QED
    BY <2>1, <2>2, <2>3, <2>4
<1>4. ASSUME NEW m \in 1 .. N PROVE \E x \in 1 .. N : I[x] = m
  <2>1. CASE m = n
    BY <1>2, <2>1
  <2>2. CASE m # n
    <3>1. PICK x \in 1 .. K : M[x] = m
      BY <2>2
    <3>2. x \in 1 .. N /\ x + 1 \in 1 .. N
      OBVIOUS
    <3>3. I[x] = m \/ I[x + 1] = m
      BY <1>2, <3>1, SMTT(30)
    <3> QED
      BY <3>2, <3>3
  <2> QED
    BY <2>1, <2>2
<1> QED
  BY <1>1, <1>3, <1>4 DEF Lists, I, S

\* The links after n has been put before the i-th element.
LEMMA InsertedLinked ==
  ASSUME NEW S, NEW M \in Seq(S), NEW n \in S, NEW i \in 1 .. Len(M) + 1,
         \A x \in 1 .. Len(M) : M[x] # n,
         NEW next, NEW first, NEW last, Linked(next, first, last, M),
         NEW next2, NEW first2, NEW last2,
         next2[n] = IF i <= Len(M) THEN M[i] ELSE NULL,
         \A j \in 1 .. Len(M) : next2[M[j]] = IF j = i - 1 THEN n ELSE next[M[j]],
         first2 = IF i = 1 THEN n ELSE first,
         last2 = IF i = Len(M) + 1 THEN n ELSE last
  PROVE  Linked(next2, first2, last2, Inserted(M, i, n))
<1> DEFINE I == Inserted(M, i, n)
<1> PICK K \in Nat : K = Len(M)
  OBVIOUS
<1>1. I \in Seq(S) /\ Len(I) = K + 1
  BY InsertedIs
<1>2. /\ I[i] = n
      /\ \A j \in 1 .. K : j < i => I[j] = M[j]
      /\ \A j \in 1 .. K : j >= i => I[j + 1] = M[j]
      /\ \A x \in 1 .. K + 1 : x # i =>
           \E j \in 1 .. K : x = (IF j < i THEN j ELSE j + 1) /\ I[x] = M[j]
  <2>1. Around(Inserted(M, i, n), M, i, n)
    BY ONLY M \in Seq(S), n \in S, i \in 1 .. Len(M) + 1, InsertedAt
  <2> QED
    BY <2>1 DEF Around
<1> HIDE DEF I
<1>3. /\ \A j \in 1 .. K : next[M[j]] = IF j = K THEN NULL ELSE M[j + 1]
      /\ first = IF M = <<>> THEN NULL ELSE M[1]
      /\ last = IF M = <<>> THEN NULL ELSE M[K]
  BY DEF Linked
<1>4. M = <<>> <=> K = 0
  BY EmptySeq
<1>5. ASSUME NEW x \in 1 .. K + 1
      PROVE  next2[I[x]] = IF x = K + 1 THEN NULL ELSE I[x + 1]
  <2>1. CASE x = i
    <3>1. next2[I[x]] = IF i <= K THEN M[i] ELSE NULL
      BY <1>2, <2>1
    <3> QED
      BY <1>2, <2>1, <3>1
  <2>2. CASE x # i
    <3>1. PICK j \in 1 .. K : x = (IF j < i THEN j ELSE j + 1) /\ I[x] = M[j]
      BY <1>2, <2>2
    <3>2. next2[I[x]] = IF j = i - 1 THEN n ELSE IF j = K THEN NULL ELSE M[j + 1]
      BY <1>3, <3>1
    <3>3. CASE j = i - 1
      <4>1. x = j /\ x + 1 = i /\ x # K + 1
        BY <3>1, <3>3
      <4> QED
        BY <1>2, <3>2, <3>3, <4>1
    <3>4. CASE j < i - 1
      <4>1. x = j /\ x # K + 1 /\ j # K /\ j + 1 \in 1 .. K /\ j + 1 < i
        BY <3>1, <3>4
      <4> QED
        BY <1>2, <3>2, <3>4, <4>1
    <3>5. CASE j > i - 1
      <4>1. x = j + 1
        BY <3>1, <3>5
      <4>2. CASE j = K
        BY <3>2, <3>5, <4>1, <4>2
      <4>3. CASE j # K
        <5>1. j + 1 \in 1 .. K /\ j + 1 >= i /\ x # K + 1
          BY <3>5, <4>1, <4>3
        <5>2. I[x + 1] = M[j + 1]
          BY <1>2, <4>1, <5>1
        <5> QED
          BY <3>2, <3>5, <4>3, <5>1, <5>2
      <4> QED
        BY <4>2, <4>3
    <3> QED
      BY <3>3, <3>4, <3>5
  <2> QED
    BY <2>1, <2>2
<1>6. first2 = I[1]
  <2>1. CASE i = 1
    BY <1>2, <2>1
  <2>2. CASE i # 1
    <3>1. K # 0 /\ 1 \in 1 .. K /\ 1 < i
      BY <2>2
    <3> QED
      BY <1>2, <1>3, <1>4, <2>2, <3>1
  <2> QED
    BY <2>1, <2>2
<1>7. last2 = I[K + 1]
  <2>1. CASE i = K + 1
    BY <1>2, <2>1
  <2>2. CASE i # K + 1
    <3>1. K # 0 /\ K \in 1 .. K /\ K >= i
      BY <2>2
    <3> QED
      BY <1>2, <1>3, <1>4, <2>2, <3>1
  <2> QED
    BY <2>1, <2>2
<1>8. I # <<>>
  BY <1>1, EmptySeq
<1>9. Linked(next2, first2, last2, I)
  BY <1>1, <1>5, <1>6, <1>7, <1>8 DEF Linked
<1> QED
  BY <1>9 DEF I

-----------------------------------------------------------------------------
(* The order of the answers.                                               *)

\* IsBetter is a strict weak order on the answers.
LEMMA BetterIsOrder ==
  ASSUME NEW a \in Answers, NEW b \in Answers, NEW c \in Answers
  PROVE  /\ IsBetter(a, b) => ~IsBetter(b, a)
         /\ ~IsBetter(a, b) /\ ~IsBetter(b, c) => ~IsBetter(a, c)
BY AnswerTableAssumption DEF IsBetter

\* No answer is twice on the list, nor a better one after a worse one.
Sorted(args, M) ==
  \A i, j \in 1 .. Len(M) :
    i < j => /\ args[M[i]] # args[M[j]]
             /\ decl.opt # "none" => ~IsBetter(args[M[j]], args[M[i]])

\* The list stays sorted when the answer is new, and not better than those before it, but
\* better than the one that was there.
LEMMA InsertedSorted ==
  ASSUME NEW S, NEW M \in Seq(S), NEW n \in S, NEW i \in 1 .. Len(M) + 1,
         NEW args, NEW args2, Sorted(args, M),
         \A j \in 1 .. Len(M) : args[M[j]] \in Answers /\ args2[M[j]] = args[M[j]],
         args2[n] \in Answers, \A j \in 1 .. Len(M) : args2[n] # args[M[j]],
         decl.opt = "none" => i = Len(M) + 1,
         decl.opt # "none" => \A j \in 1 .. Len(M) : j < i => ~IsBetter(args2[n], args[M[j]]),
         decl.opt # "none" /\ i <= Len(M) => IsBetter(args2[n], args[M[i]])
  PROVE  Sorted(args2, Inserted(M, i, n))
<1> DEFINE I == Inserted(M, i, n)
           A(j) == args[M[j]]
           a == args2[n]
<1> PICK K \in Nat : K = Len(M)
  OBVIOUS
<1>1. I \in Seq(S) /\ Len(I) = K + 1
  BY InsertedIs
<1>2. /\ I[i] = n
      /\ \A x \in 1 .. K + 1 : x # i =>
           \E j \in 1 .. K : x = (IF j < i THEN j ELSE j + 1) /\ I[x] = M[j]
  <2>1. Around(Inserted(M, i, n), M, i, n)
    BY InsertedAt
  <2> QED
    BY <2>1 DEF Around
<1> HIDE DEF I
<1>3. a \in Answers /\ \A j \in 1 .. K : A(j) \in Answers /\ args2[M[j]] = A(j) /\ a # A(j)
  OBVIOUS
<1>4. \A x, y \in 1 .. K : x < y => A(x) # A(y) /\ (decl.opt # "none" => ~IsBetter(A(y), A(x)))
  BY DEF Sorted
<1>5. ASSUME NEW j \in 1 .. K
      PROVE  /\ j < i /\ decl.opt # "none" => ~IsBetter(a, A(j))
             /\ j >= i => (decl.opt # "none" => ~IsBetter(A(j), a))
  <2>1. ASSUME j >= i, decl.opt # "none" PROVE ~IsBetter(A(j), a)
    <3>1. i \in 1 .. K /\ IsBetter(a, A(i))
      BY <2>1
    <3>2. A(i) \in Answers /\ A(j) \in Answers
      BY <1>3, <3>1
    <3>3. ~IsBetter(A(i), a)
      BY <1>3, <3>1, <3>2, BetterIsOrder
    <3>4. CASE j = i
      BY <3>3, <3>4
    <3>5. CASE j # i
      <4>1. ~IsBetter(A(j), A(i))
        BY <1>4, <2>1, <3>1, <3>5
      <4> QED
        BY <1>3, <3>2, <3>3, <4>1, BetterIsOrder
    <3> QED
      BY <3>4, <3>5
  <2> QED
    BY <2>1
<1> HIDE DEF A, a
<1>6. ASSUME NEW x \in 1 .. K + 1, NEW y \in 1 .. K + 1, x < y
      PROVE  args2[I[x]] # args2[I[y]] /\ (decl.opt # "none" => ~IsBetter(args2[I[y]], args2[I[x]]))
  <2>1. CASE x = i
    <3>0. y # i
      BY <1>6, <2>1
    <3>1. PICK j \in 1 .. K : y = (IF j < i THEN j ELSE j + 1) /\ I[y] = M[j]
      BY <1>2, <3>0, Zenon
    <3>2. j >= i /\ args2[I[y]] = A(j) /\ args2[I[x]] = a
      BY <1>2, <1>3, <1>6, <2>1, <3>1 DEF a
    <3> QED
      BY <1>3, <1>5, <3>2
  <2>2. CASE y = i
    <3>0. x # i
      BY <1>6, <2>2
    <3>1. PICK j \in 1 .. K : x = (IF j < i THEN j ELSE j + 1) /\ I[x] = M[j]
      BY <1>2, <3>0, Zenon
    <3>2. j < i /\ args2[I[x]] = A(j) /\ args2[I[y]] = a
      BY <1>2, <1>3, <1>6, <2>2, <3>1 DEF a
    <3> QED
      BY <1>3, <1>5, <3>2
  <2>3. CASE x # i /\ y # i
    <3>1. PICK j \in 1 .. K : x = (IF j < i THEN j ELSE j + 1) /\ I[x] = M[j]
      BY <1>2, <2>3, Zenon
    <3>2. PICK l \in 1 .. K : y = (IF l < i THEN l ELSE l + 1) /\ I[y] = M[l]
      BY <1>2, <2>3, Zenon
    <3>3. j < l
      BY <1>6, <3>1, <3>2
    <3>4. args2[I[x]] = A(j) /\ args2[I[y]] = A(l)
      BY <1>3, <3>1, <3>2
    <3> QED
      BY <1>4, <3>3, <3>4
  <2> QED
    BY <2>1, <2>2, <2>3
<1>7. Sorted(args2, I)
  BY <1>1, <1>6 DEF Sorted
<1> QED
  BY <1>7 DEF I

\* The search for a place after the front ends at the first answer that is worse, or at stop.
LEMMA PlaceIs ==
  ASSUME NEW t, NEW n, NEW stop, NEW L, L = Listing(t), NEW K \in Nat, K = Len(L), K >= 1,
         stop = NULL \/ \E i \in 2 .. K : L[i] = stop,
         NEW p, p = Place(t, n, stop)
  PROVE  /\ p \in 2 .. K + 1
         /\ \/ p = K + 1 /\ stop = NULL
            \/ p <= K /\ (L[p] = stop \/ IsBetter(t.args[n], t.args[L[p]]))
         /\ \A j \in 2 .. p - 1 : L[j] # stop /\ ~IsBetter(t.args[n], t.args[L[j]])
<1> DEFINE B(i) == IsBetter(t.args[n], t.args[L[i]])
           P(i) == \/ i = K + 1 /\ stop = NULL
                   \/ i <= K /\ (L[i] = stop \/ B(i))
           Q == {i \in 2 .. K + 1 : P(i)}
<1>1. Place(t, n, stop) =
        CHOOSE i \in 2 .. K + 1 : P(i) /\ \A j \in 2 .. i - 1 : L[j] /= stop /\ ~B(j)
  BY DEF Place
<1> HIDE DEF B
<1>2. Q \subseteq Nat /\ Q # {}
  <2>1. CASE stop = NULL
    <3>1. K + 1 \in Q
      BY <2>1
    <3> QED
      BY <3>1
  <2>2. CASE stop # NULL
    <3>1. PICK i \in 2 .. K : L[i] = stop
      BY <2>2
    <3>2. i \in Q
      BY <3>1
    <3> QED
      BY <3>2
  <2> QED
    BY <2>1, <2>2
<1>3. PICK m \in Q : \A k \in Q : m <= k
  <2> HIDE DEF Q
  <2> QED
    BY <1>2, LeastNatural
<1>4. m \in 2 .. K + 1 /\ P(m) /\ \A j \in 2 .. m - 1 : L[j] # stop /\ ~B(j)
  <2>1. ASSUME NEW j \in 2 .. m - 1 PROVE L[j] # stop /\ ~B(j)
    <3>1. j \in 2 .. K + 1 /\ j <= K /\ ~(m <= j)
      BY <1>3
    <3>2. j \notin Q
      BY <1>3, <3>1
    <3> QED
      BY <3>1, <3>2
  <2> QED
    BY <1>3, <2>1
<1> HIDE DEF P
<1>5. p \in 2 .. K + 1 /\ P(p) /\ \A j \in 2 .. p - 1 : L[j] # stop /\ ~B(j)
  <2>1. LET i == Place(t, n, stop)
        IN i \in 2 .. K + 1 /\ P(i) /\ \A j \in 2 .. i - 1 : L[j] # stop /\ ~B(j)
    BY <1>1, <1>4, Zenon
  <2> QED
    BY <2>1, Zenon
<1> QED
  BY <1>5 DEF P, B

-----------------------------------------------------------------------------
(* A table in order: its list, and its hash table.                         *)

\* M is the list of the table: it goes through all records and is sorted.
Whole(t, M) ==
  /\ IsTable(t) /\ t.count \in Nat
  /\ t.args \in Seq(Answers) /\ Len(t.args) = t.count
  /\ t.next \in Seq(Nat) /\ Len(t.next) = t.count
  /\ Lists(M, t.count)
  /\ Linked(t.next, t.first, t.last, M)
  /\ Sorted(t.args, M)

Indexed(t) ==
  /\ t.size \in Nat
  /\ t.chains \in [0 .. t.size - 1 -> SUBSET (1 .. t.count)]
  /\ \A n \in 1 .. t.count : \A b \in 0 .. t.size - 1 :
       n \in t.chains[b] <=> b = Bucket(t.args[n], t.size)

\* Listing finds the list that the table has.
LEMMA WholeListed ==
  ASSUME NEW t, NEW M, Whole(t, M)
  PROVE  /\ Listing(t) = M /\ Len(M) = t.count
         /\ \A i \in 1 .. t.count : M[i] \in 1 .. t.count /\ t.args[M[i]] \in Answers
<1> PICK N \in Nat : N = t.count
  BY DEF Whole
<1>1. N = Len(t.args) /\ M \in Seq(1 .. N) /\ Len(M) = N /\ Linked(t.next, t.first, t.last, M)
      /\ t.args \in Seq(Answers) /\ Len(M) <= N
  BY DEF Whole, Lists
<1>2. ListFrom(t, t.first) = M
  BY <1>1, ListFound, Zenon
<1>3. \A i \in 1 .. N : M[i] \in 1 .. N
  BY <1>1
<1> QED
  BY <1>1, <1>2, <1>3 DEF Listing

\* A bucket is one of the table's.
LEMMA BucketIs ==
  ASSUME NEW a \in Answers, NEW size \in Nat \ {0}
  PROVE  Bucket(a, size) \in 0 .. size - 1
<1> PICK h \in Nat : h = Hash(a)
  BY AnswerTableAssumption
<1> QED
  BY DEF Bucket

\* The hash table finds an answer when it is in the table.
LEMMA VariantFound ==
  ASSUME NEW t, Indexed(t), t.size > 0, t.count \in Nat, t.args \in Seq(Answers),
         Len(t.args) = t.count, NEW a \in Answers
  PROVE  HasVariant(t, a) <=> \E n \in 1 .. t.count : t.args[n] = a
<1> DEFINE b == Bucket(a, t.size)
<1>1. b \in 0 .. t.size - 1
  BY BucketIs DEF Indexed
<1>2. t.chains[b] \subseteq 1 .. t.count
  BY <1>1 DEF Indexed
<1>3. \A n \in 1 .. t.count : t.args[n] = a => n \in t.chains[b]
  BY <1>1 DEF Indexed
<1> QED
  BY <1>2, <1>3 DEF HasVariant

\* A new record in the chain of its answer.
LEMMA NewChained ==
  ASSUME NEW t, IsTable(t), Indexed(t), t.size > 0, NEW N \in Nat, N = t.count,
         t.args \in Seq(Answers), Len(t.args) = N, NEW a \in Answers,
         NEW u, u = Chained(NewRecord(t, a), N + 1)
  PROVE  /\ IsTable(u) /\ Indexed(u) /\ u.size = t.size /\ u.count = N + 1
         /\ u.args = Append(t.args, a) /\ u.next = Append(t.next, NULL)
         /\ u.first = t.first /\ u.last = t.last
<1> DEFINE v == NewRecord(t, a)
<1>1. /\ IsTable(v) /\ v.args = Append(t.args, a) /\ v.next = Append(t.next, NULL)
      /\ v.first = t.first /\ v.last = t.last
      /\ v.count = N + 1 /\ v.size = t.size /\ v.chains = t.chains
  <2>1. LET w == NewRecord(t, a)
        IN /\ IsTable(w)
           /\ w.args = Append(t.args, a) /\ w.next = Append(t.next, NULL)
           /\ w.first = t.first /\ w.last = t.last
           /\ w.count = t.count + 1 /\ w.size = t.size /\ w.chains = t.chains
    BY NewRecordIs, Zenon
  <2> QED
    BY <2>1
<1> HIDE DEF v
<1>2. v.args[N + 1] = a /\ (\A n \in 1 .. N : v.args[n] = t.args[n]) /\ v.args \in Seq(Answers)
  BY <1>1
<1> DEFINE b == Bucket(a, t.size)
<1>3. /\ IsTable(u) /\ u.args = v.args /\ u.next = v.next /\ u.first = v.first /\ u.last = v.last
      /\ u.count = v.count /\ u.size = v.size
      /\ u.chains = [v.chains EXCEPT ![b] = @ \cup {N + 1}]
  <2>1. LET d == Bucket(v.args[N + 1], v.size)
            w == Chained(v, N + 1)
        IN /\ IsTable(w)
           /\ w.args = v.args /\ w.next = v.next /\ w.first = v.first /\ w.last = v.last
           /\ w.count = v.count /\ w.size = v.size
           /\ w.chains = [v.chains EXCEPT ![d] = @ \cup {N + 1}]
    BY <1>1, ChainedIs, Zenon
  <2>2. u = Chained(v, N + 1) /\ b = Bucket(v.args[N + 1], v.size)
    BY <1>1, <1>2 DEF v
  <2> QED
    BY <2>1, <2>2, Zenon
<1>4. b \in 0 .. t.size - 1
  BY BucketIs DEF Indexed
<1> PICK S \in Nat : S = t.size
  BY DEF Indexed
<1>5. /\ t.chains \in [0 .. S - 1 -> SUBSET (1 .. N)]
      /\ \A n \in 1 .. N : \A d \in 0 .. S - 1 : n \in t.chains[d] <=> d = Bucket(t.args[n], S)
  BY DEF Indexed
<1>6. Indexed(u)
  <2> PICK C : C = u.chains
    OBVIOUS
  <2>1. C = [t.chains EXCEPT ![b] = t.chains[b] \cup {N + 1}]
    BY <1>1, <1>3
  <2> HIDE DEF b
  <2>0. \A d \in 0 .. S - 1 : t.chains[d] \subseteq 1 .. N
    BY <1>5
  <2>2. C \in [0 .. S - 1 -> SUBSET (1 .. N + 1)]
    <3>1. \A d \in 0 .. S - 1 : t.chains[d] \subseteq 1 .. N + 1
      BY <2>0
    <3>2. t.chains \in [0 .. S - 1 -> SUBSET (1 .. N + 1)]
      BY <1>5, <3>1
    <3>3. t.chains[b] \cup {N + 1} \in SUBSET (1 .. N + 1)
      BY <1>4, <3>1
    <3> QED
      BY <2>1, <3>2, <3>3
  <2>3. \A d \in 0 .. S - 1 : C[d] = IF d = b THEN t.chains[b] \cup {N + 1} ELSE t.chains[d]
    BY <1>5, <2>1
  <2>4. ASSUME NEW n \in 1 .. N + 1, NEW d \in 0 .. S - 1
        PROVE  n \in C[d] <=> d = Bucket(v.args[n], S)
    <3>1. CASE n = N + 1
      <4>1. n \notin t.chains[d]
        BY <2>0, <3>1
      <4> QED
        BY <1>2, <2>3, <3>1, <4>1 DEF b
    <3>2. CASE n # N + 1
      <4>1. n \in 1 .. N /\ v.args[n] = t.args[n]
        BY <1>2, <3>2
      <4>2. n \in C[d] <=> n \in t.chains[d]
        BY <2>3, <3>2
      <4> QED
        BY <1>5, <4>1, <4>2
    <3> QED
      BY <3>1, <3>2
  <2>5. u.size = S /\ u.count = N + 1 /\ u.args = v.args
    BY <1>1, <1>3
  <2> QED
    BY <2>2, <2>4, <2>5, SMTT(30) DEF Indexed
<1> QED
  BY <1>1, <1>3, <1>6

\* A larger hash table finds the same.
LEMMA ExpandedIndexed ==
  ASSUME NEW t, IsTable(t), Indexed(t), t.size > 0, NEW N \in Nat, N = t.count,
         t.args \in Seq(Answers), Len(t.args) = N, NEW c, NEW memory,
         NEW u, u = Expanded(t, c, memory)
  PROVE  /\ IsTable(u) /\ Indexed(u) /\ u.size > 0 /\ u.count = t.count
         /\ u.args = t.args /\ u.next = t.next /\ u.first = t.first /\ u.last = t.last
<1>1. CASE ~(c /\ memory)
  BY <1>1 DEF Expanded
<1>2. CASE c /\ memory
  <2>1. u = expandAnswerTable(t)
    BY <1>2 DEF Expanded
  <2> PICK S \in Nat \ {0} : S = bp_hsize(3 * t.size)
    BY SizeFound, SMTT(30) DEF Indexed
  <2>2. /\ IsTable(u) /\ u.args = t.args /\ u.next = t.next /\ u.first = t.first /\ u.last = t.last
        /\ u.count = t.count /\ u.size = S
        /\ u.chains = [b \in 0 .. S - 1 |->
                         {n \in UNION {t.chains[d] : d \in 0 .. t.size - 1} : Bucket(t.args[n], S) = b}]
    <3>1. LET w == expandAnswerTable(t)
              size == bp_hsize(3 * t.size)
          IN /\ IsTable(w)
             /\ w.args = t.args /\ w.next = t.next /\ w.first = t.first /\ w.last = t.last
             /\ w.count = t.count /\ w.size = size
             /\ w.chains = [b \in 0 .. size - 1 |->
                              {n \in UNION {t.chains[d] : d \in 0 .. t.size - 1} :
                                 Bucket(t.args[n], size) = b}]
      BY ExpandedIs, Zenon
    <3> QED
      BY <2>1, <3>1, Zenon
  <2> DEFINE all == UNION {t.chains[d] : d \in 0 .. t.size - 1}
  <2>3. all = 1 .. N
    <3>1. \A d \in 0 .. t.size - 1 : t.chains[d] \subseteq 1 .. N
      BY DEF Indexed
    <3>2. ASSUME NEW n \in 1 .. N PROVE n \in all
      <4>1. t.args[n] \in Answers
        OBVIOUS
      <4>0. t.size \in Nat \ {0}
        BY DEF Indexed
      <4>2. Bucket(t.args[n], t.size) \in 0 .. t.size - 1
        BY <4>0, <4>1, BucketIs
      <4>3. n \in t.chains[Bucket(t.args[n], t.size)]
        BY <4>2 DEF Indexed
      <4> QED
        BY <4>2, <4>3
    <3> QED
      BY <3>1, <3>2
  <2>4. u.chains = [b \in 0 .. S - 1 |-> {n \in 1 .. N : Bucket(t.args[n], S) = b}]
    BY <2>2, <2>3
  <2>5. Indexed(u)
    <3> PICK C : C = u.chains
      OBVIOUS
    <3>1. C \in [0 .. S - 1 -> SUBSET (1 .. N)]
      BY <2>4
    <3>2. \A n \in 1 .. N : \A b \in 0 .. S - 1 : n \in C[b] <=> b = Bucket(t.args[n], S)
      BY <2>4
    <3>3. u.size = S /\ u.count = N /\ u.args = t.args
      BY <2>2
    <3> QED
      BY <3>1, <3>2, <3>3 DEF Indexed
  <2> QED
    BY <2>2, <2>5
<1> QED
  BY <1>1, <1>2

-----------------------------------------------------------------------------
(* Records are linked anew.                                                *)

\* Only links have changed.
SameAnswers(t, u) ==
  /\ IsTable(u) /\ u.args = t.args /\ u.count = t.count
  /\ u.size = t.size /\ u.chains = t.chains

\* Linking records anew leaves the chains in order.
LEMMA SameIndexed ==
  ASSUME NEW t, NEW u, Indexed(t), SameAnswers(t, u)
  PROVE  Indexed(u)
BY DEF Indexed, SameAnswers

PutEnd(t, p, n) == [t EXCEPT !.next[p] = n, !.last = n]
PutFront(t, n, q) == [t EXCEPT !.first = n, !.next[n] = q]
PutBetween(t, p, n, q) == [t EXCEPT !.next[p] = n, !.next[n] = q]
PutLast(t, p, n) == [t EXCEPT !.next[p] = n, !.next[n] = NULL, !.last = n]
CutAfter(t, p) == [t EXCEPT !.next[p] = NULL, !.last = p]

\* PutEnd links n behind the record p, as the last one.
LEMMA PutEndIs ==
  ASSUME NEW t, IsTable(t), NEW p, NEW n, NEW u, u = PutEnd(t, p, n)
  PROVE  /\ SameAnswers(t, u)
         /\ u.next = Updated(t.next, p, n) /\ u.first = t.first /\ u.last = n
<1> DEFINE v == [t EXCEPT !.next[p] = n]
<1>1. u = [v EXCEPT !.last = n]
  BY DEF PutEnd
<1>2. /\ SameAnswers(t, v)
      /\ v.next = Updated(t.next, p, n) /\ v.first = t.first /\ v.last = t.last
  BY DEF IsTable, SameAnswers, Updated
<1> HIDE DEF v
<1> QED
  BY <1>1, <1>2 DEF IsTable, SameAnswers, Updated

\* PutFront links n before the record q, as the first one.
LEMMA PutFrontIs ==
  ASSUME NEW t, IsTable(t), NEW n, NEW q, NEW u, u = PutFront(t, n, q)
  PROVE  /\ SameAnswers(t, u)
         /\ u.next = Updated(t.next, n, q) /\ u.first = n /\ u.last = t.last
<1> DEFINE v == [t EXCEPT !.first = n]
<1>1. u = [v EXCEPT !.next[n] = q]
  BY DEF PutFront
<1>2. /\ SameAnswers(t, v)
      /\ v.next = t.next /\ v.first = n /\ v.last = t.last
  BY DEF IsTable, SameAnswers, Updated
<1> HIDE DEF v
<1> QED
  BY <1>1, <1>2 DEF IsTable, SameAnswers, Updated

\* PutBetween links n behind p and before q.
LEMMA PutBetweenIs ==
  ASSUME NEW t, IsTable(t), NEW p, NEW n, NEW q, NEW u, u = PutBetween(t, p, n, q)
  PROVE  /\ SameAnswers(t, u)
         /\ u.next = Updated(Updated(t.next, p, n), n, q)
         /\ u.first = t.first /\ u.last = t.last
<1> DEFINE v == [t EXCEPT !.next[p] = n]
<1>1. u = [v EXCEPT !.next[n] = q]
  BY DEF PutBetween
<1>2. /\ SameAnswers(t, v)
      /\ v.next = Updated(t.next, p, n) /\ v.first = t.first /\ v.last = t.last
  BY DEF IsTable, SameAnswers, Updated
<1> HIDE DEF v
<1> QED
  BY <1>1, <1>2 DEF IsTable, SameAnswers, Updated

\* PutLast links n behind p and ends the list with it.
LEMMA PutLastIs ==
  ASSUME NEW t, IsTable(t), NEW p, NEW n, NEW u, u = PutLast(t, p, n)
  PROVE  /\ SameAnswers(t, u)
         /\ u.next = Updated(Updated(t.next, p, n), n, NULL)
         /\ u.first = t.first /\ u.last = n
<1> DEFINE w == [t EXCEPT !.next[p] = n]
           v == [w EXCEPT !.next[n] = NULL]
<1>1. u = [v EXCEPT !.last = n]
  BY DEF PutLast
<1>2. /\ SameAnswers(t, w)
      /\ w.next = Updated(t.next, p, n) /\ w.first = t.first
  BY DEF IsTable, SameAnswers, Updated
<1> HIDE DEF w
<1>3. /\ SameAnswers(t, v)
      /\ v.next = Updated(w.next, n, NULL) /\ v.first = t.first
  BY <1>2 DEF IsTable, SameAnswers, Updated
<1> HIDE DEF v
<1> QED
  BY <1>1, <1>2, <1>3 DEF IsTable, SameAnswers, Updated

\* CutAfter ends the list with p.
LEMMA CutAfterIs ==
  ASSUME NEW t, IsTable(t), NEW p, NEW u, u = CutAfter(t, p)
  PROVE  /\ SameAnswers(t, u)
         /\ u.next = Updated(t.next, p, NULL) /\ u.first = t.first /\ u.last = p
<1> DEFINE v == [t EXCEPT !.next[p] = NULL]
<1>1. u = [v EXCEPT !.last = p]
  BY DEF CutAfter
<1>2. /\ SameAnswers(t, v)
      /\ v.next = Updated(t.next, p, NULL) /\ v.first = t.first /\ v.last = t.last
  BY DEF IsTable, SameAnswers, Updated
<1> HIDE DEF v
<1> QED
  BY <1>1, <1>2 DEF IsTable, SameAnswers, Updated

-----------------------------------------------------------------------------
(* The first answer, and the hash table for the second.                    *)

\* The table without answers is in order.
LEMMA EmptyWhole == Whole(Empty, <<>>) /\ Indexed(Empty)
<1> DEFINE e == Empty
<1>1. /\ IsTable(e) /\ e.args = <<>> /\ e.next = <<>> /\ e.first = NULL /\ e.last = NULL
      /\ e.count = 0 /\ e.size = 0 /\ e.chains = <<>>
  BY DEF Empty, IsTable
<1> HIDE DEF e
<1>2. Lists(<<>>, 0) /\ Linked(<<>>, NULL, NULL, <<>>) /\ Sorted(<<>>, <<>>)
  BY DEF Lists, Linked, Sorted
<1>3. <<>> \in [0 .. 0 - 1 -> SUBSET (1 .. 0)]
  OBVIOUS
<1>4. Whole(e, <<>>)
  BY <1>1, <1>2 DEF Whole
<1>5. Indexed(e)
  BY <1>1, <1>3 DEF Indexed
<1> QED
  BY <1>4, <1>5 DEF e

\* addFirstTableAnswer gives a table in order, of one record.
LEMMA FirstWhole ==
  ASSUME NEW a \in Answers, NEW u, u = addFirstTableAnswer(a)
  PROVE  /\ Whole(u, <<1>>) /\ Indexed(u) /\ u.size = 0 /\ u.count = 1
         /\ u.args = <<a>> /\ u.first = 1
<1>1. /\ IsTable(u) /\ u.args = <<a>> /\ u.next = <<NULL>> /\ u.first = 1 /\ u.last = 1
      /\ u.count = 1 /\ u.size = 0 /\ u.chains = <<>>
  <2>1. u = [args |-> <<a>>, next |-> <<NULL>>, first |-> 1, last |-> 1,
             count |-> 1, size |-> 0, chains |-> <<>>]
    BY DEF addFirstTableAnswer, Empty
  <2> QED
    BY <2>1 DEF IsTable
<1>2. Lists(<<1>>, 1) /\ Linked(<<NULL>>, 1, 1, <<1>>) /\ Sorted(<<a>>, <<1>>)
  BY DEF Lists, Linked, Sorted
<1>3. <<>> \in [0 .. 0 - 1 -> SUBSET (1 .. 1)]
  OBVIOUS
<1>4. Whole(u, <<1>>)
  BY <1>1, <1>2 DEF Whole, NULL
<1>5. Indexed(u)
  BY <1>1, <1>3 DEF Indexed
<1> QED
  BY <1>1, <1>4, <1>5

\* allocateAnswerTable keeps a table of one record in order.
LEMMA AllocatedWhole ==
  ASSUME NEW t, NEW M, Whole(t, M), t.count = 1, NEW u, u = allocateAnswerTable(t)
  PROVE  /\ Whole(u, M) /\ Indexed(u) /\ u.size > 0 /\ u.count = 1
         /\ u.args = t.args /\ u.next = t.next /\ u.first = t.first /\ u.last = t.last
<1> DEFINE a == t.args[1]
           y == [b \in 0 .. InitSize - 1 |-> {}]
<1>1. /\ IsTable(u) /\ u.args = t.args /\ u.next = t.next /\ u.first = t.first /\ u.last = t.last
      /\ u.count = t.count /\ u.size = InitSize
      /\ u.chains = [y EXCEPT ![Bucket(a, InitSize)] = @ \cup {1}]
  <2>1. LET w == allocateAnswerTable(t)
            chains == [b \in 0 .. InitSize - 1 |-> {}]
        IN /\ IsTable(w)
           /\ w.args = t.args /\ w.next = t.next /\ w.first = t.first /\ w.last = t.last
           /\ w.count = t.count /\ w.size = InitSize
           /\ w.chains = [chains EXCEPT ![Bucket(t.args[1], InitSize)] = @ \cup {1}]
    BY AllocatedIs, Zenon DEF Whole
  <2> QED
    BY <2>1, Zenon
<1>2. Whole(u, M)
  BY <1>1 DEF Whole
<1>3. a \in Answers /\ InitSize \in Nat \ {0}
  BY AnswerTableAssumption DEF Whole
<1> DEFINE b == Bucket(a, InitSize)
<1>4. b \in 0 .. InitSize - 1
  BY <1>3, BucketIs
<1>5. Indexed(u)
  <2> PICK C : C = u.chains
    OBVIOUS
  <2>1. C = [y EXCEPT ![b] = {1}]
    BY <1>1, <1>4
  <2>2. \A d \in 0 .. InitSize - 1 : C[d] = IF d = b THEN {1} ELSE {}
    BY <2>1
  <2>3. C \in [0 .. InitSize - 1 -> SUBSET (1 .. 1)]
    <3>1. y \in [0 .. InitSize - 1 -> SUBSET (1 .. 1)]
      OBVIOUS
    <3>2. {1} \in SUBSET (1 .. 1)
      OBVIOUS
    <3> HIDE DEF y, b
    <3> QED
      BY <1>4, <2>1, <3>1, <3>2
  <2> HIDE DEF b
  <2>4. \A n \in 1 .. 1 : \A d \in 0 .. InitSize - 1 : n \in C[d] <=> d = Bucket(t.args[n], InitSize)
    BY <2>2 DEF b
  <2> QED
    BY <1>1, <1>3, <2>3, <2>4 DEF Indexed
<1> QED
  BY <1>1, <1>2, <1>3, <1>5

-----------------------------------------------------------------------------
(* A record is put into the list.                                          *)

\* F goes through all records up to K but n.
Spares(F, K, n) ==
  /\ K \in Nat /\ n \in 1 .. K
  /\ F \in Seq(1 .. K) /\ Len(F) + 1 = K
  /\ \A x, y \in 1 .. Len(F) : F[x] = F[y] => x = y
  /\ \A x \in 1 .. Len(F) : F[x] # n
  /\ \A m \in 1 .. K : m # n => \E x \in 1 .. Len(F) : F[x] = m

\* The records of F are not n.
LEMMA SparesIs ==
  ASSUME NEW F, NEW K, NEW n, Spares(F, K, n)
  PROVE  \A x \in 1 .. Len(F) : F[x] \in 1 .. K /\ F[x] # n
BY DEF Spares

\* The record n of v is not on the list yet.
Ready(v, F, n) ==
  /\ IsTable(v) /\ v.args \in Seq(Answers) /\ Len(v.args) = v.count
  /\ v.next \in Seq(Nat) /\ Len(v.next) = v.count
  /\ Spares(F, v.count, n)
  /\ Linked(v.next, v.first, v.last, F)
  /\ Sorted(v.args, F)
  /\ \A j \in 1 .. Len(F) : v.args[n] # v.args[F[j]]

\* In u it is the i-th.
LinkedAt(v, u, F, n, i) ==
  /\ u.next[n] = IF i <= Len(F) THEN F[i] ELSE NULL
  /\ \A j \in 1 .. Len(F) : u.next[F[j]] = IF j = i - 1 THEN n ELSE v.next[F[j]]
  /\ u.first = IF i = 1 THEN n ELSE v.first
  /\ u.last = IF i = Len(F) + 1 THEN n ELSE v.last

\* It belongs there.
FitsAt(v, F, n, i) ==
  /\ decl.opt = "none" => i = Len(F) + 1
  /\ decl.opt # "none" => \A j \in 1 .. Len(F) : j < i => ~IsBetter(v.args[n], v.args[F[j]])
  /\ decl.opt # "none" /\ i <= Len(F) => IsBetter(v.args[n], v.args[F[i]])

\* With n inserted, F lists all records once.
LEMMA PlacedLists ==
  ASSUME NEW F, NEW K, NEW n, Spares(F, K, n), NEW i \in 1 .. K
  PROVE  Lists(Inserted(F, i, n), K)
BY InsertedLists DEF Spares

\* When the links around n are those of the i-th place, the links are those of the list with n
\* in that place.
LEMMA PlacedLinked ==
  ASSUME NEW F, NEW K, NEW n, Spares(F, K, n), NEW i \in 1 .. K, NEW v, NEW u,
         Linked(v.next, v.first, v.last, F), LinkedAt(v, u, F, n, i)
  PROVE  Linked(u.next, u.first, u.last, Inserted(F, i, n))
<1>1. K \in Nat /\ n \in 1 .. K /\ F \in Seq(1 .. K) /\ Len(F) + 1 = K
      /\ \A x \in 1 .. Len(F) : F[x] # n
  BY DEF Spares
<1>2. i \in 1 .. Len(F) + 1
  BY <1>1
<1>3. /\ u.next[n] = IF i <= Len(F) THEN F[i] ELSE NULL
      /\ \A j \in 1 .. Len(F) : u.next[F[j]] = IF j = i - 1 THEN n ELSE v.next[F[j]]
      /\ u.first = IF i = 1 THEN n ELSE v.first
      /\ u.last = IF i = Len(F) + 1 THEN n ELSE v.last
  BY DEF LinkedAt
<1> QED
  BY <1>1, <1>2, <1>3, InsertedLinked, ZenonT(40)

\* When n fits in the i-th place, the list with n in that place is sorted.
LEMMA PlacedSorted ==
  ASSUME NEW F, NEW K, NEW n, Spares(F, K, n), NEW i \in 1 .. K, NEW v,
         v.args \in Seq(Answers), Len(v.args) = K, Sorted(v.args, F), FitsAt(v, F, n, i),
         \A j \in 1 .. Len(F) : v.args[n] # v.args[F[j]]
  PROVE  Sorted(v.args, Inserted(F, i, n))
<1>1. K \in Nat /\ n \in 1 .. K /\ F \in Seq(1 .. K) /\ Len(F) + 1 = K
  BY DEF Spares
<1>2. i \in 1 .. Len(F) + 1
  BY <1>1
<1>3. \A m \in 1 .. K : v.args[m] \in Answers
  OBVIOUS
<1>4. \A j \in 1 .. Len(F) : v.args[F[j]] \in Answers
  BY <1>3, SparesIs
<1>5. v.args[n] \in Answers
  BY <1>1, <1>3
<1>6. /\ decl.opt = "none" => i = Len(F) + 1
      /\ decl.opt # "none" => \A j \in 1 .. Len(F) : j < i => ~IsBetter(v.args[n], v.args[F[j]])
      /\ decl.opt # "none" /\ i <= Len(F) => IsBetter(v.args[n], v.args[F[i]])
  BY DEF FitsAt
<1> QED
  BY <1>1, <1>2, <1>4, <1>5, <1>6, InsertedSorted

\* A record linked in where it fits gives a table whose list is whole.
LEMMA PlacedWhole ==
  ASSUME NEW v, NEW F, NEW n, Ready(v, F, n), NEW u, SameAnswers(v, u),
         u.next \in Seq(Nat), Len(u.next) = v.count, NEW i \in 1 .. v.count,
         LinkedAt(v, u, F, n, i), FitsAt(v, F, n, i)
  PROVE  Whole(u, Inserted(F, i, n))
<1> PICK K : K = v.count
  OBVIOUS
<1>1. /\ v.args \in Seq(Answers) /\ Len(v.args) = K /\ Spares(F, K, n)
      /\ Linked(v.next, v.first, v.last, F) /\ Sorted(v.args, F)
      /\ \A j \in 1 .. Len(F) : v.args[n] # v.args[F[j]]
  BY DEF Ready
<1>2. i \in 1 .. K
  OBVIOUS
<1>3. Lists(Inserted(F, i, n), K)
  BY <1>1, <1>2, PlacedLists
<1>4. Linked(u.next, u.first, u.last, Inserted(F, i, n))
  BY <1>1, <1>2, PlacedLinked
<1>5. Sorted(v.args, Inserted(F, i, n))
  BY <1>1, <1>2, PlacedSorted
<1>6. IsTable(u) /\ u.args = v.args /\ u.count = K /\ K \in Nat
  BY <1>1 DEF SameAnswers, Spares
<1> QED
  BY <1>1, <1>3, <1>4, <1>5, <1>6 DEF Whole

\* What a table that lacks one record says of its links.
LEMMA ReadyIs ==
  ASSUME NEW v, NEW F, NEW n, Ready(v, F, n), Len(F) >= 1
  PROVE  /\ v.count \in Nat /\ n \in 1 .. v.count /\ Len(F) \in Nat /\ Len(F) + 1 = v.count
         /\ v.next \in Seq(Nat) /\ Len(v.next) = v.count
         /\ \A x \in 1 .. Len(F) : F[x] \in 1 .. v.count /\ F[x] \in Nat /\ F[x] # n
         /\ \A x, y \in 1 .. Len(F) : F[x] = F[y] => x = y
         /\ v.first = F[1] /\ v.last = F[Len(F)]
         /\ \A x \in 1 .. Len(F) : v.next[F[x]] = IF x = Len(F) THEN NULL ELSE F[x + 1]
<1> PICK K : K = v.count
  OBVIOUS
<1>1. Spares(F, K, n) /\ Linked(v.next, v.first, v.last, F)
      /\ v.next \in Seq(Nat) /\ Len(v.next) = K
  BY DEF Ready
<1>2. K \in Nat /\ n \in 1 .. K /\ F \in Seq(1 .. K) /\ Len(F) + 1 = K
      /\ \A x, y \in 1 .. Len(F) : F[x] = F[y] => x = y
  BY <1>1 DEF Spares
<1>3. \A x \in 1 .. Len(F) : F[x] \in 1 .. K /\ F[x] # n
  BY <1>1, SparesIs
<1>4. Len(F) \in Nat /\ F # <<>>
  BY <1>2
<1>5. \A x \in 1 .. Len(F) : F[x] \in Nat
  BY <1>3
<1>6. /\ v.first = F[1] /\ v.last = F[Len(F)]
      /\ \A x \in 1 .. Len(F) : v.next[F[x]] = IF x = Len(F) THEN NULL ELSE F[x + 1]
  BY <1>1, <1>4 DEF Linked
<1> QED
  BY <1>1, <1>2, <1>3, <1>4, <1>5, <1>6

\* The elements of a sequence.
LEMMA SeqAt ==
  ASSUME NEW S, NEW N \in Nat, NEW s \in Seq(S), Len(s) = N
  PROVE  \A x \in 1 .. N : s[x] \in S
OBVIOUS

\* The elements of a sequence with one more.
LEMMA AppendedIs ==
  ASSUME NEW S, NEW N \in Nat, NEW s \in Seq(S), Len(s) = N, NEW e \in S,
         NEW s2, s2 = Append(s, e)
  PROVE  /\ s2 \in Seq(S) /\ Len(s2) = N + 1 /\ s2[N + 1] = e
         /\ \A x \in 1 .. N : s2[x] = s[x]
OBVIOUS

\* The links after one of them was set.
LEMMA LinkSet ==
  ASSUME NEW next \in Seq(Nat), NEW p \in 1 .. Len(next), NEW q \in Nat
  PROVE  /\ Updated(next, p, q) \in Seq(Nat) /\ Len(Updated(next, p, q)) = Len(next)
         /\ Updated(next, p, q)[p] = q
         /\ \A m \in 1 .. Len(next) : m # p => Updated(next, p, q)[m] = next[m]
BY DEF Updated

\* Linking n behind the last record puts it in the last place.
LEMMA LinkedAtEnd ==
  ASSUME NEW v, NEW F, NEW n, Ready(v, F, n), NEW K \in Nat, K = Len(F), K >= 1,
         v.next[n] = NULL,
         NEW u, u.next = Updated(v.next, v.last, n), u.first = v.first, u.last = n
  PROVE  u.next \in Seq(Nat) /\ Len(u.next) = v.count /\ LinkedAt(v, u, F, n, K + 1)
<1> PICK C \in Nat : C = v.count
  BY ReadyIs
<1>1. /\ n \in 1 .. C /\ v.next \in Seq(Nat) /\ Len(v.next) = C
      /\ \A x \in 1 .. K : F[x] \in 1 .. C /\ F[x] # n
      /\ v.last = F[K]
      /\ \A x, y \in 1 .. K : F[x] = F[y] => x = y
  BY ReadyIs, SMTT(30)
<1> PICK p \in 1 .. C : p = v.last
  BY <1>1
<1>2. /\ u.next \in Seq(Nat) /\ Len(u.next) = C /\ u.next[p] = n
      /\ \A m \in 1 .. C : m # p => u.next[m] = v.next[m]
  <2>1. p \in 1 .. Len(v.next) /\ n \in Nat /\ v.next \in Seq(Nat)
    BY <1>1
  <2>2. /\ Updated(v.next, p, n) \in Seq(Nat) /\ Len(Updated(v.next, p, n)) = Len(v.next)
        /\ Updated(v.next, p, n)[p] = n
        /\ \A m \in 1 .. Len(v.next) : m # p => Updated(v.next, p, n)[m] = v.next[m]
    BY ONLY <2>1, LinkSet, Zenon
  <2> QED
    BY ONLY <1>1, <2>2, u.next = Updated(v.next, v.last, n), p = v.last
<1>3. u.next[n] = NULL
  BY <1>1, <1>2
<1>4. ASSUME NEW j \in 1 .. K PROVE u.next[F[j]] = IF j = K + 1 - 1 THEN n ELSE v.next[F[j]]
  <2>1. (F[j] = p <=> j = K) /\ F[j] \in 1 .. C
    BY <1>1
  <2> QED
    BY ONLY <1>2, <2>1, K \in Nat, j \in 1 .. K
<1>5. ~(K + 1 <= K) /\ K + 1 # 1
  OBVIOUS
<1>6. LinkedAt(v, u, F, n, K + 1)
  BY <1>3, <1>4, <1>5 DEF LinkedAt
<1> QED
  BY <1>2, <1>6

\* Linking n before the first record puts it in the first place.
LEMMA LinkedAtFront ==
  ASSUME NEW v, NEW F, NEW n, Ready(v, F, n), NEW K \in Nat, K = Len(F), K >= 1,
         NEW u, u.next = Updated(v.next, n, v.first), u.first = n, u.last = v.last
  PROVE  u.next \in Seq(Nat) /\ Len(u.next) = v.count /\ LinkedAt(v, u, F, n, 1)
<1> PICK C \in Nat : C = v.count
  BY ReadyIs
<1>1. /\ n \in 1 .. C /\ v.next \in Seq(Nat) /\ Len(v.next) = C
      /\ \A x \in 1 .. K : F[x] \in 1 .. C /\ F[x] \in Nat /\ F[x] # n
      /\ v.first = F[1]
  BY ReadyIs
<1>2. /\ u.next \in Seq(Nat) /\ Len(u.next) = C /\ u.next[n] = F[1]
      /\ \A m \in 1 .. C : m # n => u.next[m] = v.next[m]
  <2>1. n \in 1 .. Len(v.next) /\ F[1] \in Nat /\ v.next \in Seq(Nat)
    BY <1>1
  <2>2. /\ Updated(v.next, n, F[1]) \in Seq(Nat) /\ Len(Updated(v.next, n, F[1])) = Len(v.next)
        /\ Updated(v.next, n, F[1])[n] = F[1]
        /\ \A m \in 1 .. Len(v.next) : m # n => Updated(v.next, n, F[1])[m] = v.next[m]
    BY ONLY <2>1, LinkSet, Zenon
  <2> QED
    BY ONLY <1>1, <2>2, u.next = Updated(v.next, n, v.first)
<1>4. ASSUME NEW j \in 1 .. K PROVE u.next[F[j]] = IF j = 1 - 1 THEN n ELSE v.next[F[j]]
  <2>1. F[j] \in 1 .. C /\ F[j] # n
    BY ONLY <1>1, j \in 1 .. K
  <2>2. j # 1 - 1
    BY ONLY K \in Nat, j \in 1 .. K
  <2>3. u.next[F[j]] = v.next[F[j]]
    BY ONLY <1>2, <2>1
  <2> QED
    BY ONLY <2>2, <2>3
<1>5. 1 <= K /\ 1 # K + 1
  OBVIOUS
<1>6. LinkedAt(v, u, F, n, 1)
  BY <1>2, <1>4, <1>5 DEF LinkedAt
<1> QED
  BY <1>2, <1>6

\* Linking n between the records i - 1 and i puts it in the i-th place.
LEMMA LinkedAtMiddle ==
  ASSUME NEW v, NEW F, NEW n, Ready(v, F, n), NEW K \in Nat, K = Len(F), K >= 1,
         NEW i \in 2 .. K,
         NEW u, u.next = Updated(Updated(v.next, F[i - 1], n), n, F[i]),
         u.first = v.first, u.last = v.last
  PROVE  u.next \in Seq(Nat) /\ Len(u.next) = v.count /\ LinkedAt(v, u, F, n, i)
<1> PICK C \in Nat : C = v.count
  BY ReadyIs
<1>1. /\ n \in 1 .. C /\ v.next \in Seq(Nat) /\ Len(v.next) = C
      /\ \A x \in 1 .. K : F[x] \in 1 .. C /\ F[x] \in Nat /\ F[x] # n
      /\ \A x, y \in 1 .. K : F[x] = F[y] => x = y
  <2>1. Len(F) >= 1
    OBVIOUS
  <2>2. /\ n \in 1 .. v.count /\ v.next \in Seq(Nat) /\ Len(v.next) = v.count
        /\ \A x \in 1 .. Len(F) : F[x] \in 1 .. v.count /\ F[x] \in Nat /\ F[x] # n
        /\ \A x, y \in 1 .. Len(F) : F[x] = F[y] => x = y
    BY ONLY Ready(v, F, n), <2>1, ReadyIs
  <2> QED
    BY ONLY <2>2, C = v.count, K = Len(F)
<1>0. i - 1 \in 1 .. K /\ i \in 1 .. K
  OBVIOUS
<1> PICK p \in 1 .. C : p = F[i - 1]
  BY <1>0, <1>1
<1> PICK w : w = Updated(v.next, p, n)
  OBVIOUS
<1>2. /\ w \in Seq(Nat) /\ Len(w) = C /\ w[p] = n
      /\ \A m \in 1 .. C : m # p => w[m] = v.next[m]
  <2>1. p \in 1 .. Len(v.next) /\ n \in Nat /\ v.next \in Seq(Nat)
    BY <1>1
  <2>2. /\ Updated(v.next, p, n) \in Seq(Nat) /\ Len(Updated(v.next, p, n)) = Len(v.next)
        /\ Updated(v.next, p, n)[p] = n
        /\ \A m \in 1 .. Len(v.next) : m # p => Updated(v.next, p, n)[m] = v.next[m]
    BY ONLY <2>1, LinkSet, Zenon
  <2> QED
    BY ONLY <1>1, <2>2, w = Updated(v.next, p, n)
<1>3. /\ u.next \in Seq(Nat) /\ Len(u.next) = C /\ u.next[n] = F[i]
      /\ \A m \in 1 .. C : m # n => u.next[m] = w[m]
  <2>1. n \in 1 .. Len(w) /\ F[i] \in Nat /\ w \in Seq(Nat)
    BY <1>0, <1>1, <1>2
  <2>2. /\ Updated(w, n, F[i]) \in Seq(Nat) /\ Len(Updated(w, n, F[i])) = Len(w)
        /\ Updated(w, n, F[i])[n] = F[i]
        /\ \A m \in 1 .. Len(w) : m # n => Updated(w, n, F[i])[m] = w[m]
    BY ONLY <2>1, LinkSet, Zenon
  <2>3. u.next = Updated(w, n, F[i])
    OBVIOUS
  <2> QED
    BY ONLY <1>2, <2>2, <2>3
<1>4. ASSUME NEW j \in 1 .. K PROVE u.next[F[j]] = IF j = i - 1 THEN n ELSE v.next[F[j]]
  <2>1. F[j] = p <=> j = i - 1
    BY <1>0, <1>1
  <2>2. u.next[F[j]] = w[F[j]] /\ F[j] \in 1 .. C
    BY <1>1, <1>3
  <2> QED
    BY <1>2, <2>1, <2>2
<1>5. i <= K /\ i # 1 /\ i # K + 1
  OBVIOUS
<1>6. LinkedAt(v, u, F, n, i)
  BY <1>3, <1>4, <1>5 DEF LinkedAt
<1> QED
  BY <1>3, <1>6

\* Linking n behind the record found last and ending there puts it in the last place.
LEMMA LinkedAtLast ==
  ASSUME NEW v, NEW F, NEW n, Ready(v, F, n), NEW K \in Nat, K = Len(F), K >= 1,
         NEW u, u.next = Updated(Updated(v.next, F[K], n), n, NULL),
         u.first = v.first, u.last = n
  PROVE  u.next \in Seq(Nat) /\ Len(u.next) = v.count /\ LinkedAt(v, u, F, n, K + 1)
<1> PICK C \in Nat : C = v.count
  BY ReadyIs
<1>1. /\ n \in 1 .. C /\ v.next \in Seq(Nat) /\ Len(v.next) = C
      /\ \A x \in 1 .. K : F[x] \in 1 .. C /\ F[x] # n
      /\ \A x, y \in 1 .. K : F[x] = F[y] => x = y
  BY ReadyIs, SMTT(30)
<1> PICK p \in 1 .. C : p = F[K]
  BY <1>1
<1> PICK w : w = Updated(v.next, p, n)
  OBVIOUS
<1>2. /\ w \in Seq(Nat) /\ Len(w) = C /\ w[p] = n
      /\ \A m \in 1 .. C : m # p => w[m] = v.next[m]
  <2>1. p \in 1 .. Len(v.next) /\ n \in Nat /\ v.next \in Seq(Nat)
    BY <1>1
  <2>2. /\ Updated(v.next, p, n) \in Seq(Nat) /\ Len(Updated(v.next, p, n)) = Len(v.next)
        /\ Updated(v.next, p, n)[p] = n
        /\ \A m \in 1 .. Len(v.next) : m # p => Updated(v.next, p, n)[m] = v.next[m]
    BY ONLY <2>1, LinkSet, Zenon
  <2> QED
    BY ONLY <1>1, <2>2, w = Updated(v.next, p, n)
<1>3. /\ u.next \in Seq(Nat) /\ Len(u.next) = C /\ u.next[n] = NULL
      /\ \A m \in 1 .. C : m # n => u.next[m] = w[m]
  <2>1. n \in 1 .. Len(w) /\ NULL \in Nat /\ w \in Seq(Nat)
    BY <1>1, <1>2 DEF NULL
  <2>2. /\ Updated(w, n, NULL) \in Seq(Nat) /\ Len(Updated(w, n, NULL)) = Len(w)
        /\ Updated(w, n, NULL)[n] = NULL
        /\ \A m \in 1 .. Len(w) : m # n => Updated(w, n, NULL)[m] = w[m]
    BY ONLY <2>1, LinkSet, Zenon
  <2>3. u.next = Updated(w, n, NULL)
    OBVIOUS
  <2> QED
    BY ONLY <1>2, <2>2, <2>3
<1>4. ASSUME NEW j \in 1 .. K PROVE u.next[F[j]] = IF j = K + 1 - 1 THEN n ELSE v.next[F[j]]
  <2>1. F[j] = p <=> j = K
    BY <1>1
  <2>2. u.next[F[j]] = w[F[j]] /\ F[j] \in 1 .. C
    BY <1>1, <1>3
  <2> QED
    BY <1>2, <2>1, <2>2
<1>5. ~(K + 1 <= K) /\ K + 1 # 1
  OBVIOUS
<1>6. LinkedAt(v, u, F, n, K + 1)
  <2> PICK i : i = K + 1
    OBVIOUS
  <2>1. u.next[n] = (IF i <= Len(F) THEN F[i] ELSE NULL)
        /\ u.first = (IF i = 1 THEN n ELSE v.first) /\ u.last = IF i = Len(F) + 1 THEN n ELSE v.last
    BY <1>3, <1>5
  <2>2. \A j \in 1 .. Len(F) : u.next[F[j]] = IF j = i - 1 THEN n ELSE v.next[F[j]]
    BY <1>4
  <2>3. LinkedAt(v, u, F, n, i)
    BY <2>1, <2>2 DEF LinkedAt
  <2> QED
    BY <2>3
<1> QED
  BY <1>3, <1>6

-----------------------------------------------------------------------------
(* A new answer.                                                           *)

\* The records so far lack the new one.
LEMMA GrownSpares ==
  ASSUME NEW N \in Nat, NEW M, Lists(M, N)
  PROVE  Spares(M, N + 1, N + 1)
<1>1. /\ M \in Seq(1 .. N) /\ Len(M) = N /\ \A x, y \in 1 .. N : M[x] = M[y] => x = y
      /\ \A n \in 1 .. N : \E x \in 1 .. N : M[x] = n
  BY DEF Lists
<1>2. \A x \in 1 .. N : M[x] \in 1 .. N
  BY <1>1
<1>3. M \in Seq(1 .. N + 1)
  <2>1. \A x \in 1 .. N : M[x] \in 1 .. N + 1
    BY <1>2
  <2> QED
    BY <1>1, <2>1
<1> QED
  BY <1>1, <1>2, <1>3 DEF Spares

\* NewRecord and Chained give a table that is ready to have the new record linked in.
LEMMA NewReady ==
  ASSUME NEW t, NEW M, Whole(t, M), Indexed(t), t.size > 0, NEW N \in Nat, N = t.count,
         NEW a \in Answers, \A n \in 1 .. N : t.args[n] # a,
         NEW v, v = Chained(NewRecord(t, a), N + 1)
  PROVE  /\ Ready(v, M, N + 1) /\ Indexed(v) /\ v.size = t.size /\ v.count = N + 1
         /\ v.args = Append(t.args, a) /\ v.next[N + 1] = NULL
         /\ v.first = t.first /\ v.last = t.last /\ Listing(v) = M /\ Len(M) = N
<1>1. /\ IsTable(t) /\ t.args \in Seq(Answers) /\ Len(t.args) = N
      /\ t.next \in Seq(Nat) /\ Len(t.next) = N
  BY DEF Whole
<1>2. /\ M \in Seq(1 .. N) /\ Len(M) = N /\ \A x, y \in 1 .. N : M[x] = M[y] => x = y
      /\ \A n \in 1 .. N : \E x \in 1 .. N : M[x] = n
  BY DEF Whole, Lists
<1>3. Linked(t.next, t.first, t.last, M) /\ Sorted(t.args, M)
  BY DEF Whole
<1>4. /\ IsTable(v) /\ Indexed(v) /\ v.size = t.size /\ v.count = N + 1
      /\ v.args = Append(t.args, a) /\ v.next = Append(t.next, NULL)
      /\ v.first = t.first /\ v.last = t.last
  BY <1>1, NewChained
<1> PICK A : A = t.args
  OBVIOUS
<1> PICK X : X = t.next
  OBVIOUS
<1>5. \A x \in 1 .. N : M[x] \in 1 .. N
  BY <1>2, SeqAt, Zenon
<1>6. /\ v.args \in Seq(Answers) /\ Len(v.args) = N + 1 /\ v.args[N + 1] = a
      /\ \A x \in 1 .. N : v.args[x] = A[x]
  <2>1. v.args = Append(A, a) /\ A \in Seq(Answers) /\ Len(A) = N
    BY <1>1, <1>4
  <2> QED
    BY ONLY <2>1, N \in Nat, a \in Answers, AppendedIs
<1>7. /\ v.next \in Seq(Nat) /\ Len(v.next) = N + 1 /\ v.next[N + 1] = NULL
      /\ \A x \in 1 .. N : v.next[x] = X[x]
  <2>1. v.next = Append(X, NULL) /\ X \in Seq(Nat) /\ Len(X) = N /\ NULL \in Nat
    BY <1>1, <1>4 DEF NULL
  <2> QED
    BY ONLY <2>1, N \in Nat, a \in Answers, AppendedIs
<1>8. M \in Seq(1 .. N + 1)
  <2>1. \A x \in 1 .. N : M[x] \in 1 .. N + 1
    BY <1>5
  <2> QED
    BY <1>2, <2>1
<1>9. Spares(M, N + 1, N + 1)
  <2>1. Lists(M, N)
    BY DEF Whole
  <2> QED
    BY <2>1, GrownSpares, Zenon
<1>10. Linked(v.next, v.first, v.last, M)
  <2>1. \A x \in 1 .. Len(M) : v.next[M[x]] = X[M[x]]
    BY <1>2, <1>5, <1>7
  <2> QED
    BY <1>3, <1>4, <2>1 DEF Linked
<1>11. Sorted(v.args, M)
  <2>1. \A x \in 1 .. Len(M) : v.args[M[x]] = A[M[x]]
    BY <1>2, <1>5, <1>6
  <2> QED
    BY <1>3, <2>1 DEF Sorted
<1>12. \A j \in 1 .. Len(M) : v.args[N + 1] # v.args[M[j]]
  BY <1>2, <1>5, <1>6
<1>13. Listing(v) = M
  <2>1. N + 1 \in Nat /\ N + 1 = Len(v.args) /\ Len(M) <= N + 1
    BY <1>2, <1>6
  <2>2. ListFrom(v, v.first) = M
    BY <1>8, <1>10, <2>1, ListFound, Zenon
  <2> QED
    BY <2>2 DEF Listing
<1>14. Ready(v, M, N + 1)
  BY <1>4, <1>6, <1>7, <1>9, <1>10, <1>11, <1>12 DEF Ready
<1> QED
  BY <1>2, <1>4, <1>7, <1>13, <1>14

\* A record that is in the list of v is put into that of r at i, and the hash table may grow.
LEMMA GrownWhole ==
  ASSUME NEW v, NEW F, NEW n, Ready(v, F, n), Indexed(v), v.size > 0,
         NEW r, SameAnswers(v, r), r.next \in Seq(Nat), Len(r.next) = v.count,
         NEW i \in 1 .. v.count, LinkedAt(v, r, F, n, i), FitsAt(v, F, n, i),
         NEW c, NEW memory, NEW u, u = Expanded(r, c, memory)
  PROVE  /\ Whole(u, Inserted(F, i, n)) /\ Indexed(u) /\ u.size > 0
         /\ u.count = v.count /\ u.args = v.args /\ u.first = r.first
<1> PICK K : K = v.count
  OBVIOUS
<1>1. Whole(r, Inserted(F, i, n))
  BY PlacedWhole
<1>2. Indexed(r)
  BY SameIndexed
<1>3. r.size > 0 /\ r.count = K /\ r.args = v.args
  BY DEF SameAnswers
<1>4. IsTable(r) /\ r.args \in Seq(Answers) /\ Len(r.args) = K /\ K \in Nat
  BY <1>1, <1>3 DEF Whole
<1>5. /\ IsTable(u) /\ Indexed(u) /\ u.size > 0 /\ u.count = r.count
      /\ u.args = r.args /\ u.next = r.next /\ u.first = r.first /\ u.last = r.last
  BY ONLY <1>2, <1>3, <1>4, u = Expanded(r, c, memory), ExpandedIndexed
<1>6. Whole(u, Inserted(F, i, n))
  BY ONLY <1>1, <1>5 DEF Whole
<1> QED
  BY ONLY <1>3, <1>5, <1>6, K = v.count

\* What addTableAnswer and addTableOptimalAnswer do with a new answer.
Added(t, u, a) ==
  /\ \A n \in 1 .. t.count : t.args[n] # a
  /\ \E L : Whole(u, L)
  /\ Indexed(u) /\ u.size > 0 /\ u.count = t.count + 1 /\ u.args = Append(t.args, a)

\* At the end of the table, when nothing is optimized.
LEMMA AppendedWhole ==
  ASSUME NEW t, NEW M, Whole(t, M), Indexed(t), t.size > 0, NEW N \in Nat, N = t.count, N >= 1,
         decl.opt = "none", NEW a \in Answers, NEW memory,
         NEW u, u = addTableAnswer(t, a, memory)
  PROVE  \/ u = t /\ \E n \in 1 .. N : t.args[n] = a
         \/ Added(t, u, a) /\ u.first = t.first
<1>1. /\ IsTable(t) /\ t.args \in Seq(Answers) /\ Len(t.args) = N
  BY DEF Whole
<1>2. HasVariant(t, a) <=> \E n \in 1 .. N : t.args[n] = a
  BY <1>1, VariantFound
<1>3. CASE HasVariant(t, a)
  BY <1>2, <1>3 DEF addTableAnswer
<1>4. CASE ~HasVariant(t, a)
  <2>0. \A n \in 1 .. N : t.args[n] # a
    BY <1>2, <1>4
  <2> PICK v : v = Chained(NewRecord(t, a), N + 1)
    OBVIOUS
  <2> PICK r : r = PutEnd(v, t.last, N + 1)
    OBVIOUS
  <2>1. u = Expanded(r, 2 * r.count > r.size, memory)
    BY <1>1, <1>4 DEF addTableAnswer, PutEnd
  <2>2. /\ Ready(v, M, N + 1) /\ Indexed(v) /\ v.size = t.size /\ v.count = N + 1
        /\ v.args = Append(t.args, a) /\ v.next[N + 1] = NULL
        /\ v.first = t.first /\ v.last = t.last /\ Listing(v) = M /\ Len(M) = N
    BY <2>0, NewReady
  <2>3. /\ SameAnswers(v, r)
        /\ r.next = Updated(v.next, v.last, N + 1) /\ r.first = v.first /\ r.last = N + 1
    <3>1. IsTable(v) /\ r = PutEnd(v, v.last, N + 1)
      BY <2>2 DEF Ready
    <3> QED
      BY ONLY <3>1, PutEndIs
  <2>4. r.next \in Seq(Nat) /\ Len(r.next) = v.count /\ LinkedAt(v, r, M, N + 1, N + 1)
    BY ONLY <2>2, <2>3, N \in Nat, N >= 1, LinkedAtEnd
  <2>5. FitsAt(v, M, N + 1, N + 1)
    BY <2>2 DEF FitsAt
  <2>6. v.size > 0 /\ N + 1 \in 1 .. v.count
    BY <2>2
  <2>7. /\ Whole(u, Inserted(M, N + 1, N + 1)) /\ Indexed(u) /\ u.size > 0
        /\ u.count = v.count /\ u.args = v.args /\ u.first = r.first
    <3> PICK c : c = (2 * r.count > r.size)
      OBVIOUS
    <3>1. u = Expanded(r, c, memory)
      BY <2>1
    <3> QED
      BY ONLY <2>2, <2>3, <2>4, <2>5, <2>6, <3>1, GrownWhole
  <2>8. u.count = N + 1 /\ u.args = Append(t.args, a)
    BY <2>2, <2>7
  <2>9. Added(t, u, a)
    BY <2>0, <2>7, <2>8 DEF Added
  <2> QED
    BY <2>2, <2>3, <2>7, <2>9
<1> QED
  BY <1>3, <1>4

\* In its place, when something is optimized.
LEMMA InsertionFits ==
  ASSUME NEW v, NEW F, NEW n, Ready(v, F, n), Listing(v) = F, NEW K \in Nat, K = Len(F), K >= 1,
         decl.opt # "none", NEW r, r = insertTabledAnswer(v, n)
  PROVE  /\ SameAnswers(v, r) /\ r.next \in Seq(Nat) /\ Len(r.next) = v.count
         /\ \E i \in 1 .. v.count : LinkedAt(v, r, F, n, i) /\ FitsAt(v, F, n, i)
<1>1. /\ v.count \in Nat /\ K + 1 = v.count /\ v.first = F[1]
      /\ \A x \in 1 .. K : F[x] \in 1 .. v.count
  BY ReadyIs
<1>2. IsTable(v)
  BY DEF Ready
<1>3. CASE IsBetter(v.args[n], v.args[v.first])
  <2>1. r = PutFront(v, n, v.first)
    BY <1>3 DEF insertTabledAnswer, PutFront
  <2>2. /\ SameAnswers(v, r)
        /\ r.next = Updated(v.next, n, v.first) /\ r.first = n /\ r.last = v.last
    BY ONLY <1>2, <2>1, PutFrontIs
  <2>3. r.next \in Seq(Nat) /\ Len(r.next) = v.count /\ LinkedAt(v, r, F, n, 1)
    BY ONLY <2>2, Ready(v, F, n), K \in Nat, K = Len(F), K >= 1, LinkedAtFront
  <2>4. FitsAt(v, F, n, 1)
    BY <1>1, <1>3 DEF FitsAt
  <2>5. 1 \in 1 .. v.count
    BY <1>1
  <2> QED
    BY ONLY <2>2, <2>3, <2>4, <2>5
<1>4. CASE ~IsBetter(v.args[n], v.args[v.first])
  <2> PICK i : i = Place(v, n, NULL)
    OBVIOUS
  <2>1. /\ i \in 2 .. K + 1
        /\ \/ i = K + 1
           \/ i <= K /\ (F[i] = NULL \/ IsBetter(v.args[n], v.args[F[i]]))
        /\ \A j \in 2 .. i - 1 : ~IsBetter(v.args[n], v.args[F[j]])
    <3> PICK stop : stop = NULL
      OBVIOUS
    <3>1. F = Listing(v) /\ (stop = NULL \/ \E x \in 2 .. K : F[x] = stop)
      OBVIOUS
    <3>2. /\ i \in 2 .. K + 1
          /\ \/ i = K + 1 /\ stop = NULL
             \/ i <= K /\ (F[i] = stop \/ IsBetter(v.args[n], v.args[F[i]]))
          /\ \A j \in 2 .. i - 1 : F[j] # stop /\ ~IsBetter(v.args[n], v.args[F[j]])
      <4>1. i = Place(v, n, stop)
        OBVIOUS
      <4> QED
        BY ONLY <3>1, <4>1, K \in Nat, K = Len(F), K >= 1, PlaceIs
    <3> QED
      BY ONLY <3>2, stop = NULL
  <2>2. FitsAt(v, F, n, i)
    <3>1. i <= K => IsBetter(v.args[n], v.args[F[i]])
      BY <1>1, <2>1 DEF NULL
    <3>2. \A j \in 1 .. K : j < i => ~IsBetter(v.args[n], v.args[F[j]])
      BY <1>1, <1>4, <2>1
    <3> QED
      BY <3>1, <3>2 DEF FitsAt
  <2>3. CASE i = K + 1
    <3>1. r = PutLast(v, F[K], n)
      BY <1>4, <2>3 DEF insertTabledAnswer, PutLast
    <3>2. /\ SameAnswers(v, r)
          /\ r.next = Updated(Updated(v.next, F[K], n), n, NULL)
          /\ r.first = v.first /\ r.last = n
      BY ONLY <1>2, <3>1, PutLastIs
    <3>3. r.next \in Seq(Nat) /\ Len(r.next) = v.count /\ LinkedAt(v, r, F, n, K + 1)
      BY ONLY <3>2, Ready(v, F, n), K \in Nat, K = Len(F), K >= 1, LinkedAtLast
    <3>4. K + 1 \in 1 .. v.count
      BY <1>1
    <3> QED
      BY ONLY <2>2, <2>3, <3>2, <3>3, <3>4
  <2>4. CASE i # K + 1
    <3>0. i \in 2 .. K
      BY <2>1, <2>4
    <3>1. r = PutBetween(v, F[i - 1], n, F[i])
      BY <1>4, <2>4 DEF insertTabledAnswer, PutBetween
    <3>2. /\ SameAnswers(v, r)
          /\ r.next = Updated(Updated(v.next, F[i - 1], n), n, F[i])
          /\ r.first = v.first /\ r.last = v.last
      BY ONLY <1>2, <3>1, PutBetweenIs
    <3>3. r.next \in Seq(Nat) /\ Len(r.next) = v.count /\ LinkedAt(v, r, F, n, i)
      BY ONLY <3>0, <3>2, Ready(v, F, n), K \in Nat, K = Len(F), K >= 1, LinkedAtMiddle
    <3>4. i \in 1 .. v.count
      BY <1>1, <3>0
    <3> QED
      BY ONLY <2>2, <3>2, <3>3, <3>4
  <2> QED
    BY <2>3, <2>4
<1> QED
  BY <1>3, <1>4

\* insertTabledAnswer, and growing the hash table after it, leave a table in order with one
\* answer more.
LEMMA InsertedWhole ==
  ASSUME NEW t, NEW M, Whole(t, M), Indexed(t), t.size > 0, NEW N \in Nat, N = t.count, N >= 1,
         decl.opt # "none", NEW a \in Answers, NEW memory, \A n \in 1 .. N : t.args[n] # a,
         NEW r, r = insertTabledAnswer(Chained(NewRecord(t, a), N + 1), N + 1),
         NEW u, u = Expanded(r, r.count > r.size, memory)
  PROVE  Added(t, u, a)
<1> PICK v : v = Chained(NewRecord(t, a), N + 1)
  OBVIOUS
<1>2. /\ Ready(v, M, N + 1) /\ Indexed(v) /\ v.size = t.size /\ v.count = N + 1
      /\ v.args = Append(t.args, a) /\ Listing(v) = M /\ Len(M) = N
  BY NewReady
<1>3. r = insertTabledAnswer(v, N + 1)
  OBVIOUS
<1>4. /\ SameAnswers(v, r) /\ r.next \in Seq(Nat) /\ Len(r.next) = v.count
      /\ \E i \in 1 .. v.count : LinkedAt(v, r, M, N + 1, i) /\ FitsAt(v, M, N + 1, i)
  BY ONLY <1>2, <1>3, N \in Nat, N >= 1, decl.opt # "none", InsertionFits
<1> PICK i \in 1 .. v.count : LinkedAt(v, r, M, N + 1, i) /\ FitsAt(v, M, N + 1, i)
  BY <1>4
<1>5. v.size > 0
  BY <1>2
<1> PICK c : c = (r.count > r.size)
  OBVIOUS
<1>6. u = Expanded(r, c, memory)
  OBVIOUS
<1>7. /\ Whole(u, Inserted(M, i, N + 1)) /\ Indexed(u) /\ u.size > 0
      /\ u.count = v.count /\ u.args = v.args
  <2>1. Ready(v, M, N + 1) /\ Indexed(v)
    BY <1>2
  <2>2. SameAnswers(v, r) /\ r.next \in Seq(Nat) /\ Len(r.next) = v.count
    BY <1>4
  <2> PICK n : n = N + 1
    OBVIOUS
  <2>3. /\ Ready(v, M, n) /\ Indexed(v) /\ LinkedAt(v, r, M, n, i) /\ FitsAt(v, M, n, i)
    BY <2>1
  <2>4. /\ Whole(u, Inserted(M, i, n)) /\ Indexed(u) /\ u.size > 0
        /\ u.count = v.count /\ u.args = v.args /\ u.first = r.first
    BY ONLY <1>5, <1>6, <2>2, <2>3, i \in 1 .. v.count, GrownWhole
  <2> QED
    BY <2>4
<1>8. u.count = N + 1 /\ u.args = Append(t.args, a)
  BY <1>2, <1>7
<1> QED
  BY <1>7, <1>8 DEF Added

-----------------------------------------------------------------------------
(* The record of the worst answer is used again.                           *)

\* Removing the record from its chain before its answer is overwritten keeps every record on the
\* chain of its answer; the other order would not.
LEMMA ReplacedIndexed ==
  ASSUME NEW t, IsTable(t), Indexed(t), t.size > 0, NEW N \in Nat, N = t.count,
         t.args \in Seq(Answers), Len(t.args) = N, NEW a \in Answers, NEW w \in 1 .. N,
         NEW v, v = Chained(copyTabledAnswerArgs(removeAnswerFromAnswerTable(t, w), w, a), w)
  PROVE  /\ IsTable(v) /\ Indexed(v) /\ v.size = t.size /\ v.count = N
         /\ v.args = Updated(t.args, w, a) /\ v.next = t.next
         /\ v.first = t.first /\ v.last = t.last
<1> PICK S \in Nat \ {0} : S = t.size
  BY DEF Indexed
<1> PICK r : r = removeAnswerFromAnswerTable(t, w)
  OBVIOUS
<1> PICK b : b = Bucket(t.args[w], S)
  OBVIOUS
<1>1. /\ IsTable(r)
      /\ r.args = t.args /\ r.next = t.next /\ r.first = t.first /\ r.last = t.last
      /\ r.count = t.count /\ r.size = t.size
      /\ r.chains = [t.chains EXCEPT ![b] = @ \ {w}]
  <2>1. LET d == Bucket(t.args[w], t.size)
            u == removeAnswerFromAnswerTable(t, w)
        IN /\ IsTable(u)
           /\ u.args = t.args /\ u.next = t.next /\ u.first = t.first /\ u.last = t.last
           /\ u.count = t.count /\ u.size = t.size
           /\ u.chains = [t.chains EXCEPT ![d] = @ \ {w}]
    BY ONLY IsTable(t), RemovedIs, Zenon
  <2>2. b = Bucket(t.args[w], t.size)
    OBVIOUS
  <2> QED
    BY ONLY <2>1, <2>2, r = removeAnswerFromAnswerTable(t, w), Zenon
<1> PICK q : q = copyTabledAnswerArgs(r, w, a)
  OBVIOUS
<1>2. /\ IsTable(q) /\ q.args = Updated(r.args, w, a)
      /\ q.next = r.next /\ q.first = r.first /\ q.last = r.last
      /\ q.count = r.count /\ q.size = r.size /\ q.chains = r.chains
  <2>1. LET u == copyTabledAnswerArgs(r, w, a)
        IN /\ IsTable(u)
           /\ u.args = Updated(r.args, w, a) /\ u.next = r.next /\ u.first = r.first /\ u.last = r.last
           /\ u.count = r.count /\ u.size = r.size /\ u.chains = r.chains
    <3>1. IsTable(r)
      BY <1>1
    <3> QED
      BY ONLY <3>1, CopiedIs, ZenonT(40)
  <2> QED
    BY ONLY <2>1, q = copyTabledAnswerArgs(r, w, a), Zenon
<1> PICK A : A = t.args
  OBVIOUS
<1>3. q.args[w] = a /\ \A n \in 1 .. N : n # w => q.args[n] = A[n]
  <2>1. A \in Seq(Answers) /\ Len(A) = N /\ q.args = Updated(A, w, a)
    BY <1>1, <1>2
  <2> QED
    BY ONLY <2>1, w \in 1 .. N, N \in Nat DEF Updated
<1> PICK c : c = Bucket(a, S)
  OBVIOUS
<1>4. /\ IsTable(v)
      /\ v.args = q.args /\ v.next = q.next /\ v.first = q.first /\ v.last = q.last
      /\ v.count = q.count /\ v.size = q.size
      /\ v.chains = [q.chains EXCEPT ![c] = @ \cup {w}]
  <2>1. LET d == Bucket(q.args[w], q.size)
            u == Chained(q, w)
        IN /\ IsTable(u)
           /\ u.args = q.args /\ u.next = q.next /\ u.first = q.first /\ u.last = q.last
           /\ u.count = q.count /\ u.size = q.size
           /\ u.chains = [q.chains EXCEPT ![d] = @ \cup {w}]
    BY ONLY <1>2, ChainedIs, Zenon
  <2>2. c = Bucket(q.args[w], q.size) /\ v = Chained(q, w)
    BY <1>1, <1>2, <1>3
  <2> QED
    BY ONLY <2>1, <2>2, Zenon
<1>5. c \in 0 .. S - 1 /\ b \in 0 .. S - 1
  <2>1. A[w] \in Answers
    OBVIOUS
  <2> QED
    BY <2>1, BucketIs
<1> PICK C : C = t.chains
  OBVIOUS
<1>6. /\ C \in [0 .. S - 1 -> SUBSET (1 .. N)]
      /\ \A n \in 1 .. N : \A d \in 0 .. S - 1 : n \in C[d] <=> d = Bucket(A[n], S)
  BY DEF Indexed
<1> PICK E : E = v.chains
  OBVIOUS
<1>7. /\ E \in [0 .. S - 1 -> SUBSET (1 .. N)]
      /\ \A d \in 0 .. S - 1 : \A n \in 1 .. N : n \in E[d] <=> IF n = w THEN d = c ELSE n \in C[d]
  <2>1. \A d \in 0 .. S - 1 : w \in C[d] <=> d = b
    BY <1>6
  <2> PICK D : D = r.chains
    OBVIOUS
  <2>2. D = Updated(C, b, C[b] \ {w}) /\ E = Updated(D, c, D[c] \cup {w})
    BY <1>1, <1>2, <1>4 DEF Updated
  <2> PICK P : P = 0 .. S - 1
    OBVIOUS
  <2> PICK T : T = 1 .. N
    OBVIOUS
  <2>3. C \in [0 .. S - 1 -> SUBSET (1 .. N)]
    BY <1>6
  <2> QED
    <3>1. C \in [P -> SUBSET T] /\ w \in T /\ b \in P /\ c \in P /\ \A d \in P : w \in C[d] <=> d = b
      BY ONLY <1>5, <2>1, <2>3, w \in 1 .. N, P = 0 .. S - 1, T = 1 .. N
    <3>3. /\ D \in [P -> SUBSET T]
          /\ \A d \in P : D[d] = IF d = b THEN C[d] \ {w} ELSE C[d]
      BY ONLY <2>2, <3>1 DEF Updated
    <3>4. /\ E \in [P -> SUBSET T]
          /\ \A d \in P : E[d] = IF d = c THEN D[d] \cup {w} ELSE D[d]
      BY ONLY <2>2, <3>1, <3>3 DEF Updated
    <3>5. ASSUME NEW d \in P, NEW n \in T PROVE n \in E[d] <=> IF n = w THEN d = c ELSE n \in C[d]
      <4>1. /\ E[d] = IF d = c THEN D[d] \cup {w} ELSE D[d]
            /\ D[d] = IF d = b THEN C[d] \ {w} ELSE C[d]
        BY <3>3, <3>4
      <4>2. w \in C[d] <=> d = b
        BY <3>1
      <4> QED
        BY ONLY <4>1, <4>2
    <3>2. /\ E \in [P -> SUBSET T]
          /\ \A d \in P : \A n \in T : n \in E[d] <=> IF n = w THEN d = c ELSE n \in C[d]
      BY ONLY <3>4, <3>5
    <3> QED
      BY ONLY <3>2, P = 0 .. S - 1, T = 1 .. N
<1>8. v.args = Updated(A, w, a) /\ v.size = S /\ v.count = N
  BY <1>1, <1>2, <1>4
<1>9. \A n \in 1 .. N : \A d \in 0 .. S - 1 : n \in E[d] <=> d = Bucket(v.args[n], S)
  <2>1. \A n \in 1 .. N : v.args[n] = IF n = w THEN a ELSE A[n]
    BY <1>3, <1>4
  <2> QED
    BY ONLY <1>6, <1>7, <2>1, c = Bucket(a, S)
<1>10. Indexed(v)
  BY <1>7, <1>8, <1>9 DEF Indexed
<1> QED
  BY <1>1, <1>2, <1>4, <1>8, <1>10

\* The last of the list is no better than the others.
LEMMA LastIsWorst ==
  ASSUME NEW t, NEW M, Whole(t, M), NEW N \in Nat, N = t.count, N >= 1, decl.opt # "none"
  PROVE  /\ t.last = M[N] /\ t.last \in 1 .. N
         /\ \A n \in 1 .. N : ~IsBetter(t.args[t.last], t.args[n])
<1>1. /\ M \in Seq(1 .. N) /\ Len(M) = N /\ \A n \in 1 .. N : \E x \in 1 .. N : M[x] = n
  BY DEF Whole, Lists
<1>2. t.last = M[N] /\ M[N] \in 1 .. N
  <2>1. M # <<>>
    BY <1>1
  <2>2. t.last = M[N]
    BY <1>1, <2>1 DEF Whole, Linked
  <2>3. M[N] \in 1 .. N
    <3>1. N \in 1 .. N
      OBVIOUS
    <3>2. \A x \in 1 .. N : M[x] \in 1 .. N
      BY ONLY <1>1, N \in Nat, SeqAt, Zenon
    <3> QED
      BY ONLY <3>1, <3>2
  <2> QED
    BY <2>2, <2>3
<1>3. \A n \in 1 .. N : t.args[n] \in Answers
  BY DEF Whole
<1>4. ASSUME NEW n \in 1 .. N PROVE ~IsBetter(t.args[M[N]], t.args[n])
  <2> PICK x \in 1 .. N : M[x] = n
    BY <1>1
  <2>1. CASE x = N
    BY <1>3, <2>1, BetterIsOrder
  <2>2. CASE x # N
    <3>1. Sorted(t.args, M)
      BY DEF Whole
    <3>2. x < N /\ N \in 1 .. Len(M) /\ x \in 1 .. Len(M)
      BY ONLY <1>1, <2>2, N \in Nat, x \in 1 .. N
    <3> QED
      BY <3>1, <3>2 DEF Sorted
  <2> QED
    BY <2>1, <2>2
<1> QED
  BY <1>2, <1>4

\* F is M without its end.
Cut(F, M, N) == F \in Seq(1 .. N) /\ Len(F) = N - 1 /\ \A j \in 1 .. N - 1 : F[j] = M[j]

\* There is a list without its last record.
LEMMA CutExists ==
  ASSUME NEW N \in Nat, N >= 2, NEW M \in Seq(1 .. N), Len(M) = N
  PROVE  \E F : Cut(F, M, N)
<1> DEFINE F == SubSeq(M, 1, N - 1)
<1>1. Cut(F, M, N)
  BY DEF Cut
<1> QED
  BY <1>1

\* A list without its last record lacks that one.
LEMMA CutSpares ==
  ASSUME NEW N \in Nat, N >= 2, NEW M, Lists(M, N), NEW F, Cut(F, M, N)
  PROVE  Spares(F, N, M[N])
<1>1. /\ M \in Seq(1 .. N) /\ Len(M) = N /\ \A x, y \in 1 .. N : M[x] = M[y] => x = y
      /\ \A n \in 1 .. N : \E x \in 1 .. N : M[x] = n
  BY DEF Lists
<1>2. F \in Seq(1 .. N) /\ Len(F) = N - 1 /\ \A j \in 1 .. N - 1 : F[j] = M[j]
  BY DEF Cut
<1>3. \A x \in 1 .. N : M[x] \in 1 .. N
  BY ONLY <1>1, N \in Nat, SeqAt, Zenon
<1>4. N \in 1 .. N /\ M[N] \in 1 .. N /\ Len(F) + 1 = N
  BY <1>2, <1>3
<1>5. \A x, y \in 1 .. Len(F) : F[x] = F[y] => x = y
  BY <1>1, <1>2
<1>6. \A x \in 1 .. Len(F) : F[x] # M[N]
  <2> TAKE x \in 1 .. Len(F)
  <2>1. x \in 1 .. N /\ x # N /\ F[x] = M[x]
    BY <1>2
  <2> QED
    BY ONLY <1>1, <1>4, <2>1
<1>7. \A m \in 1 .. N : m # M[N] => \E x \in 1 .. Len(F) : F[x] = m
  <2> TAKE m \in 1 .. N
  <2> HAVE m # M[N]
  <2> PICK x \in 1 .. N : M[x] = m
    BY <1>1
  <2>1. x \in 1 .. N - 1
    OBVIOUS
  <2> QED
    BY <1>2, <2>1
<1> QED
  BY <1>2, <1>4, <1>5, <1>6, <1>7 DEF Spares

\* The list that is cut before the last record.
LEMMA CutReady ==
  ASSUME NEW v, IsTable(v), NEW N \in Nat, N = v.count, N >= 2,
         v.args \in Seq(Answers), Len(v.args) = N, v.next \in Seq(Nat), Len(v.next) = N,
         NEW M, Lists(M, N), Linked(v.next, v.first, v.last, M),
         NEW F, Cut(F, M, N), Sorted(v.args, F),
         \A j \in 1 .. Len(F) : v.args[M[N]] # v.args[F[j]],
         NEW c, c = CutAfter(v, M[N - 1])
  PROVE  Ready(c, F, M[N])
<1>1. Spares(F, N, M[N])
  BY CutSpares
<1>2. /\ SameAnswers(v, c)
      /\ c.next = Updated(v.next, M[N - 1], NULL) /\ c.first = v.first /\ c.last = M[N - 1]
  BY ONLY IsTable(v), c = CutAfter(v, M[N - 1]), CutAfterIs
<1>3. M \in Seq(1 .. N) /\ Len(M) = N /\ \A x, y \in 1 .. N : M[x] = M[y] => x = y
  BY DEF Lists
<1>4. \A x \in 1 .. N : M[x] \in 1 .. N
  BY ONLY <1>3, N \in Nat, SeqAt, Zenon
<1>5. F \in Seq(1 .. N) /\ Len(F) = N - 1 /\ \A j \in 1 .. N - 1 : F[j] = M[j]
  BY DEF Cut
<1> PICK p \in 1 .. N : p = M[N - 1]
  BY <1>4
<1>6. /\ c.next \in Seq(Nat) /\ Len(c.next) = N /\ c.next[p] = NULL
      /\ \A m \in 1 .. N : m # p => c.next[m] = v.next[m]
  <2> PICK X : X = v.next
    OBVIOUS
  <2>1. X \in Seq(Nat) /\ p \in 1 .. Len(X) /\ NULL \in Nat /\ Len(X) = N
    BY DEF NULL
  <2>2. /\ Updated(X, p, NULL) \in Seq(Nat) /\ Len(Updated(X, p, NULL)) = Len(X)
        /\ Updated(X, p, NULL)[p] = NULL
        /\ \A m \in 1 .. Len(X) : m # p => Updated(X, p, NULL)[m] = X[m]
    BY ONLY <2>1, LinkSet, Zenon
  <2>3. c.next = Updated(X, p, NULL)
    BY <1>2
  <2> QED
    BY ONLY <2>1, <2>2, <2>3, X = v.next
<1>7. /\ \A x \in 1 .. N : v.next[M[x]] = IF x = N THEN NULL ELSE M[x + 1]
      /\ v.first = M[1]
  <2>1. M # <<>>
    BY <1>3
  <2> QED
    BY <1>3, <2>1 DEF Linked
<1>8. \A x \in 1 .. N - 1 : c.next[F[x]] = IF x = N - 1 THEN NULL ELSE F[x + 1]
  <2> TAKE x \in 1 .. N - 1
  <2>1. x \in 1 .. N /\ N - 1 \in 1 .. N /\ F[x] = M[x] /\ M[x] \in 1 .. N
    BY <1>4, <1>5
  <2>2. CASE x = N - 1
    BY <1>6, <2>1, <2>2
  <2>3. CASE x # N - 1
    <3>1. M[x] # p
      BY <1>3, <2>1, <2>3
    <3>2. c.next[M[x]] = M[x + 1]
      <4>1. x # N
        OBVIOUS
      <4> QED
        BY ONLY <1>6, <1>7, <2>1, <3>1, <4>1
    <3>3. x + 1 \in 1 .. N - 1
      BY <2>3
    <3> QED
      BY <1>5, <2>1, <2>3, <3>2, <3>3
  <2> QED
    BY <2>2, <2>3
<1>9. Linked(c.next, c.first, c.last, F)
  <2>1. F # <<>> /\ F[1] = M[1] /\ F[N - 1] = M[N - 1]
    <3>1. 1 \in 1 .. N - 1 /\ N - 1 \in 1 .. N - 1
      OBVIOUS
    <3>2. F # <<>>
      BY <1>5
    <3> QED
      BY ONLY <1>5, <3>1, <3>2
  <2> QED
    BY <1>2, <1>5, <1>7, <1>8, <2>1 DEF Linked
<1>10. IsTable(c) /\ c.args = v.args /\ c.count = N
  BY <1>2 DEF SameAnswers
<1> QED
  BY <1>1, <1>6, <1>9, <1>10 DEF Ready

\* One link is set before others or after them.
LEMMA LinksCommute ==
  ASSUME NEW X \in Seq(Nat), NEW p, NEW q, p # q, NEW x, NEW y
  PROVE  /\ Updated(Updated(X, p, x), q, y) = Updated(Updated(X, q, y), p, x)
         /\ \A o, z : o # q =>
              Updated(Updated(Updated(X, o, z), p, x), q, y)
                = Updated(Updated(Updated(X, q, y), o, z), p, x)
BY DEF Updated

\* The record at the end of the list may be out of its place.
Loose(v, M, N, w) ==
  /\ IsTable(v) /\ N \in Nat /\ N >= 2 /\ Listing(v) = M /\ Len(M) = N
  /\ w = M[N] /\ w \in Nat \ {0} /\ v.last = w /\ v.next[w] = NULL
  /\ \A x \in 1 .. N - 1 : v.next[M[x]] = M[x + 1]
  /\ v.next \in Seq(Nat) /\ Len(v.next) = v.count

\* repositionLastTabledAnswer links the record that was last into the place where its new answer
\* fits.
LEMMA RepositionFits ==
  ASSUME NEW v, NEW N, NEW M, NEW w, Loose(v, M, N, w),
         decl.opt # "none", NEW F, Cut(F, M, N),
         NEW c, c = CutAfter(v, M[N - 1]), Ready(c, F, w),
         NEW u, u = repositionLastTabledAnswer(v)
  PROVE  /\ SameAnswers(c, u) /\ u.next \in Seq(Nat) /\ Len(u.next) = c.count
         /\ \E i \in 1 .. N : LinkedAt(c, u, F, w, i) /\ FitsAt(c, F, w, i)
<1> SUFFICES ASSUME IsTable(v), N \in Nat, N >= 2, Listing(v) = M, Len(M) = N,
                    w = M[N], w \in Nat \ {0}, v.last = w, v.next[w] = NULL,
                    \A x \in 1 .. N - 1 : v.next[M[x]] = M[x + 1],
                    v.next \in Seq(Nat), Len(v.next) = v.count
             PROVE  /\ SameAnswers(c, u) /\ u.next \in Seq(Nat) /\ Len(u.next) = c.count
                    /\ \E i \in 1 .. N : LinkedAt(c, u, F, w, i) /\ FitsAt(c, F, w, i)
  BY DEF Loose
<1> PICK K \in Nat : K = N - 1
  OBVIOUS
<1>1. /\ K >= 1 /\ K = Len(F) /\ K + 1 = N
      /\ \A j \in 1 .. K : F[j] = M[j]
  BY DEF Cut
<1> PICK p : p = M[K]
  OBVIOUS
<1>2. /\ SameAnswers(v, c)
      /\ c.next = Updated(v.next, p, NULL) /\ c.first = v.first /\ c.last = p
  <2>1. c = CutAfter(v, p)
    OBVIOUS
  <2> QED
    BY ONLY IsTable(v), <2>1, CutAfterIs
<1>3. /\ c.count \in Nat /\ K + 1 = c.count /\ c.first = F[1] /\ c.last = F[K]
      /\ c.next \in Seq(Nat) /\ Len(c.next) = c.count
      /\ \A x \in 1 .. K : F[x] \in 1 .. c.count /\ F[x] # w
      /\ \A x, y \in 1 .. K : F[x] = F[y] => x = y
  <2>1. Len(F) >= 1
    BY <1>1
  <2>2. /\ c.count \in Nat /\ w \in 1 .. c.count /\ Len(F) \in Nat /\ Len(F) + 1 = c.count
        /\ c.next \in Seq(Nat) /\ Len(c.next) = c.count
        /\ \A x \in 1 .. Len(F) : F[x] \in 1 .. c.count /\ F[x] \in Nat /\ F[x] # w
        /\ \A x, y \in 1 .. Len(F) : F[x] = F[y] => x = y
        /\ c.first = F[1] /\ c.last = F[Len(F)]
    BY ONLY Ready(c, F, w), <2>1, ReadyIs
  <2>3. K = Len(F)
    BY <1>1
  <2> QED
    BY ONLY <2>2, <2>3
<1>4. v.args = c.args /\ c.count = v.count
  BY <1>2 DEF SameAnswers
<1>5. K \in 1 .. K /\ p = F[K] /\ p # w
  BY <1>1, <1>3
\* A table that differs from v in its links, and is cut.
<1>6. ASSUME NEW r, SameAnswers(v, r), r.last = w
      PROVE  /\ IsTable(r) /\ SameAnswers(c, CutAfter(r, p))
             /\ CutAfter(r, p).next = Updated(r.next, p, NULL)
             /\ CutAfter(r, p).first = r.first /\ CutAfter(r, p).last = p
  <2> PICK z : z = CutAfter(r, p)
    OBVIOUS
  <2>1. IsTable(r)
    BY <1>6 DEF SameAnswers
  <2>2. /\ SameAnswers(r, z)
        /\ z.next = Updated(r.next, p, NULL) /\ z.first = r.first /\ z.last = p
    BY ONLY <2>1, z = CutAfter(r, p), CutAfterIs
  <2>3. SameAnswers(c, z)
    BY ONLY <1>2, <1>6, <2>2 DEF SameAnswers
  <2> QED
    BY ONLY <2>1, <2>2, <2>3, z = CutAfter(r, p)
<1>7. CASE IsBetter(v.args[w], v.args[v.first])
  <2> PICK r : r = PutFront(v, w, v.first)
    OBVIOUS
  <2>1. u = CutAfter(r, p)
    BY <1>7 DEF repositionLastTabledAnswer, resetLastTabledAnswer, PutFront, CutAfter
  <2>2. /\ SameAnswers(v, r)
        /\ r.next = Updated(v.next, w, v.first) /\ r.first = w /\ r.last = v.last
    BY ONLY IsTable(v), r = PutFront(v, w, v.first), PutFrontIs
  <2>3. /\ SameAnswers(c, u) /\ u.next = Updated(Updated(v.next, w, v.first), p, NULL)
        /\ u.first = w /\ u.last = p
    BY <1>6, <2>1, <2>2
  <2>4. u.next = Updated(c.next, w, c.first) /\ u.first = w /\ u.last = c.last
    <3>1. u.next = Updated(Updated(v.next, p, NULL), w, v.first)
      <4>1. w # p
        BY <1>5
      <4>2. Updated(Updated(v.next, w, v.first), p, NULL) = Updated(Updated(v.next, p, NULL), w, v.first)
        <5> PICK X : X = v.next
          OBVIOUS
        <5> QED
          BY ONLY <4>1, X = v.next, X \in Seq(Nat) DEF Updated
      <4> QED
        BY ONLY <2>3, <4>2
    <3> QED
      BY ONLY <1>2, <2>3, <3>1
  <2>5. u.next \in Seq(Nat) /\ Len(u.next) = c.count /\ LinkedAt(c, u, F, w, 1)
    BY ONLY <1>1, <2>4, Ready(c, F, w), K \in Nat, LinkedAtFront
  <2>6. FitsAt(c, F, w, 1)
    <3>1. IsBetter(c.args[w], c.args[F[1]])
      BY ONLY <1>2, <1>3, <1>4, <1>7
    <3> QED
      BY <1>1, <3>1 DEF FitsAt
  <2>7. 1 \in 1 .. N
    OBVIOUS
  <2> QED
    BY ONLY <2>3, <2>5, <2>6, <2>7
<1>8. CASE ~IsBetter(v.args[w], v.args[v.first])
  <2> PICK i : i = Place(v, w, w)
    OBVIOUS
  <2>1. /\ i \in 2 .. N + 1
        /\ \/ i = N + 1 /\ w = NULL
           \/ i <= N /\ (M[i] = w \/ IsBetter(v.args[w], v.args[M[i]]))
        /\ \A j \in 2 .. i - 1 : M[j] # w /\ ~IsBetter(v.args[w], v.args[M[j]])
    <3>1. M = Listing(v) /\ (w = NULL \/ \E x \in 2 .. N : M[x] = w) /\ N >= 1 /\ N = Len(M)
      OBVIOUS
    <3> QED
      BY ONLY <3>1, N \in Nat, i = Place(v, w, w), PlaceIs
  <2>2. i \in 2 .. N /\ i \in 1 .. N /\ (M[i] = w \/ IsBetter(v.args[w], v.args[M[i]]))
    BY <2>1 DEF NULL
  <2>3. FitsAt(c, F, w, i)
    <3>1. i <= K => IsBetter(c.args[w], c.args[F[i]])
      <4> HAVE i <= K
      <4>1. i \in 1 .. K /\ F[i] = M[i] /\ F[i] # w
        BY <1>1, <1>3, <2>2
      <4> QED
        BY ONLY <1>4, <2>2, <4>1
    <3>2. \A j \in 1 .. K : j < i => ~IsBetter(c.args[w], c.args[F[j]])
      <4> TAKE j \in 1 .. K
      <4> HAVE j < i
      <4>1. CASE j = 1
        BY ONLY <1>2, <1>3, <1>4, <1>8, <4>1
      <4>2. CASE j # 1
        <5>1. j \in 2 .. i - 1 /\ F[j] = M[j]
          BY <1>1, <2>2, <4>2
        <5> QED
          BY ONLY <1>4, <2>1, <5>1
      <4> QED
        BY <4>1, <4>2
    <3> QED
      BY <1>1, <3>1, <3>2 DEF FitsAt
  <2>4. CASE M[i] = w
    <3>1. u = v
      BY <1>8, <2>4 DEF repositionLastTabledAnswer
    <3>2. i = N
      <4>1. i \notin 1 .. K
        BY <1>1, <1>3, <2>4
      <4> QED
        BY <1>1, <2>2, <4>1
    <3>3. SameAnswers(c, u)
      BY <1>2, <3>1 DEF SameAnswers
    <3>4. \A j \in 1 .. K : v.next[F[j]] = IF j = i - 1 THEN w ELSE c.next[F[j]]
      <4> TAKE j \in 1 .. K
      <4>1. F[j] = M[j] /\ v.next[M[j]] = M[j + 1]
        BY <1>1
      <4>2. CASE j = K
        BY <1>1, <3>2, <4>1, <4>2
      <4>3. CASE j # K
        <5>1. F[j] # p /\ F[j] \in 1 .. Len(v.next)
          <6>1. Len(v.next) = c.count
            BY <1>4
          <6> QED
            BY ONLY <1>3, <1>5, <4>3, <6>1, j \in 1 .. K
        <5> PICK X : X = v.next
          OBVIOUS
        <5>2. c.next[F[j]] = X[F[j]]
          BY ONLY <1>2, <5>1, X = v.next, v.next \in Seq(Nat) DEF Updated
        <5> QED
          BY <1>1, <3>2, <4>3, <5>2
      <4> QED
        BY <4>2, <4>3
    <3>5. LinkedAt(c, v, F, w, i)
      <4>1. ~(i <= K) /\ i # 1 /\ i = K + 1
        BY <1>1, <2>2, <3>2
      <4> QED
        BY <1>1, <1>2, <3>4, <4>1 DEF LinkedAt
    <3> QED
      BY <1>4, <2>2, <2>3, <3>1, <3>3, <3>5
  <2>5. CASE M[i] # w
    <3>0. i \in 2 .. K
      BY <1>1, <2>2, <2>5
    <3> PICK o : o = M[i - 1]
      OBVIOUS
    <3> PICK r : r = PutBetween(v, o, w, M[i])
      OBVIOUS
    <3>1. u = CutAfter(r, p)
      BY <1>8, <2>5 DEF repositionLastTabledAnswer, resetLastTabledAnswer, PutBetween, CutAfter
    <3>2. /\ SameAnswers(v, r)
          /\ r.next = Updated(Updated(v.next, o, w), w, M[i])
          /\ r.first = v.first /\ r.last = v.last
      BY ONLY IsTable(v), r = PutBetween(v, o, w, M[i]), PutBetweenIs
    <3>3. /\ SameAnswers(c, u) /\ u.next = Updated(Updated(Updated(v.next, o, w), w, M[i]), p, NULL)
          /\ u.first = c.first /\ u.last = c.last
      BY <1>2, <1>6, <3>1, <3>2
    <3>4. o = F[i - 1] /\ M[i] = F[i] /\ o # p
      <4>1. i - 1 \in 1 .. K /\ i \in 1 .. K /\ i - 1 # K
        BY <3>0
      <4> QED
        BY <1>1, <1>3, <1>5, <4>1
    <3>5. u.next = Updated(Updated(c.next, F[i - 1], w), w, F[i])
      <4> PICK X : X = v.next
        OBVIOUS
      <4>1. Updated(Updated(Updated(X, o, w), w, M[i]), p, NULL)
              = Updated(Updated(Updated(X, p, NULL), o, w), w, M[i])
        BY ONLY <1>5, <3>4, X = v.next, v.next \in Seq(Nat), LinksCommute
      <4> QED
        BY ONLY <1>2, <3>3, <3>4, <4>1, X = v.next
    <3>6. u.next \in Seq(Nat) /\ Len(u.next) = c.count /\ LinkedAt(c, u, F, w, i)
      BY ONLY <1>1, <3>0, <3>3, <3>5, Ready(c, F, w), K \in Nat, LinkedAtMiddle
    <3> QED
      BY ONLY <2>2, <2>3, <3>3, <3>6
  <2> QED
    BY <2>4, <2>5
<1> QED
  BY <1>7, <1>8

\* What ReplaceLast does with an answer.
Replaced(t, u, a) ==
  /\ \E L : Whole(u, L)
  /\ Indexed(u) /\ u.size > 0 /\ u.count = t.count /\ u.args = Updated(t.args, t.last, a)

\* ReplaceLast leaves a table in order in which the new answer has taken the place of the worst.
LEMMA ReplacedWhole ==
  ASSUME NEW t, NEW M, Whole(t, M), Indexed(t), t.size > 0, NEW N \in Nat, N = t.count, N >= 2,
         decl.opt # "none", NEW a \in Answers, \A n \in 1 .. N : t.args[n] # a,
         NEW u, u = ReplaceLast(t, a)
  PROVE  Replaced(t, u, a)
<1>1. /\ IsTable(t) /\ t.args \in Seq(Answers) /\ Len(t.args) = N
      /\ t.next \in Seq(Nat) /\ Len(t.next) = N /\ Lists(M, N)
      /\ Linked(t.next, t.first, t.last, M) /\ Sorted(t.args, M)
  BY DEF Whole
<1>2. /\ M \in Seq(1 .. N) /\ Len(M) = N /\ \A x, y \in 1 .. N : M[x] = M[y] => x = y
  BY <1>1 DEF Lists
<1>3. N >= 1
  OBVIOUS
<1>4. t.last = M[N] /\ t.last \in 1 .. N
  BY <1>3, LastIsWorst
<1> PICK w \in 1 .. N : w = t.last
  BY <1>4
<1> PICK v : v = Chained(copyTabledAnswerArgs(removeAnswerFromAnswerTable(t, w), w, a), w)
  OBVIOUS
<1>5. u = repositionLastTabledAnswer(v)
  BY DEF ReplaceLast
<1>6. /\ IsTable(v) /\ Indexed(v) /\ v.size = t.size /\ v.count = N
      /\ v.args = Updated(t.args, w, a) /\ v.next = t.next
      /\ v.first = t.first /\ v.last = t.last
  BY <1>1, ReplacedIndexed
<1> PICK A : A = t.args
  OBVIOUS
<1>7. /\ v.args \in Seq(Answers) /\ Len(v.args) = N
      /\ \A n \in 1 .. N : v.args[n] = IF n = w THEN a ELSE A[n]
  <2>1. v.args = Updated(A, w, a) /\ A \in Seq(Answers) /\ Len(A) = N
    BY <1>1, <1>6
  <2> QED
    BY ONLY <2>1, w \in 1 .. N, N \in Nat, a \in Answers DEF Updated
<1>8. Linked(v.next, v.first, v.last, M) /\ v.next \in Seq(Nat) /\ Len(v.next) = N
  BY <1>1, <1>6
<1>9. Listing(v) = M
  <2>1. N = Len(v.args) /\ Len(M) <= N
    BY <1>2, <1>7
  <2>2. ListFrom(v, v.first) = M
    <3>1. M \in Seq(1 .. N)
      BY <1>2
    <3>2. Linked(v.next, v.first, v.last, M)
      BY <1>8
    <3> QED
      BY <2>1, <3>1, <3>2, ListFound, Zenon
  <2> QED
    BY <2>2 DEF Listing
<1> PICK F : Cut(F, M, N)
  BY <1>2, CutExists
<1>10. \A j \in 1 .. Len(F) : j \in 1 .. N /\ F[j] = M[j] /\ F[j] \in 1 .. N /\ F[j] # w
  <2>1. Spares(F, N, w)
    BY <1>1, <1>4, CutSpares
  <2>2. \A j \in 1 .. Len(F) : F[j] \in 1 .. N /\ F[j] # w
    BY <2>1, SparesIs
  <2>3. Len(F) = N - 1 /\ \A j \in 1 .. N - 1 : F[j] = M[j]
    BY DEF Cut
  <2> QED
    BY <2>2, <2>3
<1>11. Sorted(v.args, F)
  <2> SUFFICES ASSUME NEW i \in 1 .. Len(F), NEW j \in 1 .. Len(F), i < j
               PROVE  /\ v.args[F[i]] # v.args[F[j]]
                      /\ decl.opt # "none" => ~IsBetter(v.args[F[j]], v.args[F[i]])
    BY DEF Sorted
  <2>1. v.args[F[i]] = t.args[M[i]] /\ v.args[F[j]] = t.args[M[j]]
    BY <1>7, <1>10
  <2>2. i \in 1 .. Len(M) /\ j \in 1 .. Len(M)
    BY <1>2, <1>10
  <2> QED
    BY <1>1, <2>1, <2>2 DEF Sorted
<1>12. \A j \in 1 .. Len(F) : v.args[w] # v.args[F[j]]
  <2> TAKE j \in 1 .. Len(F)
  <2>1. v.args[w] = a /\ v.args[F[j]] = t.args[F[j]] /\ F[j] \in 1 .. N
    BY <1>7, <1>10
  <2> QED
    BY <2>1
<1> PICK c : c = CutAfter(v, M[N - 1])
  OBVIOUS
<1>13. Ready(c, F, w)
  BY ONLY <1>1, <1>4, <1>6, <1>7, <1>8, <1>11, <1>12, w = t.last, Cut(F, M, N), SMTT(30),
          c = CutAfter(v, M[N - 1]), N \in Nat, N >= 2, CutReady
<1>14. /\ SameAnswers(c, u) /\ u.next \in Seq(Nat) /\ Len(u.next) = c.count
       /\ \E i \in 1 .. N : LinkedAt(c, u, F, w, i) /\ FitsAt(c, F, w, i)
  <2>1. v.next[w] = NULL /\ \A x \in 1 .. N - 1 : v.next[M[x]] = M[x + 1]
    <3>1. \A x \in 1 .. N : v.next[M[x]] = IF x = N THEN NULL ELSE M[x + 1]
      BY <1>2, <1>8 DEF Linked
    <3>2. N \in 1 .. N /\ w = M[N]
      BY <1>4
    <3> QED
      BY <3>1, <3>2
  <2>2. w \in Nat \ {0} /\ Len(v.next) = v.count /\ v.last = w /\ w = M[N]
    BY <1>4, <1>6, <1>8
  <2> QED
    <3>1. Loose(v, M, N, w)
      BY <1>2, <1>6, <1>8, <1>9, <2>1, <2>2 DEF Loose
    <3> QED
      BY ONLY <1>5, <1>13, <3>1, decl.opt # "none", Cut(F, M, N), c = CutAfter(v, M[N - 1]),
              RepositionFits
<1> PICK i \in 1 .. N : LinkedAt(c, u, F, w, i) /\ FitsAt(c, F, w, i)
  BY <1>14
<1>15. SameAnswers(v, c)
  BY ONLY <1>6, c = CutAfter(v, M[N - 1]), CutAfterIs
<1>16. Whole(u, Inserted(F, i, w))
  <2>1. i \in 1 .. c.count
    BY <1>6, <1>15 DEF SameAnswers
  <2> QED
    BY ONLY <1>13, <1>14, <2>1, LinkedAt(c, u, F, w, i), FitsAt(c, F, w, i), PlacedWhole
<1>17. SameAnswers(v, u)
  BY ONLY <1>14, <1>15 DEF SameAnswers
<1>18. Indexed(u)
  BY ONLY <1>6, <1>17, SameIndexed
<1>19. u.size > 0 /\ u.count = t.count /\ u.args = Updated(t.args, t.last, a)
  BY <1>6, <1>17 DEF SameAnswers
<1> QED
  BY <1>16, <1>18, <1>19 DEF Replaced

-----------------------------------------------------------------------------
(* What a new answer does to a table in order.                             *)

\* No hash table for one answer, and no more answers than the limit.
Limited(t) ==
  /\ t.size = 0 => t.count <= 1
  /\ decl.card # NoLimit => t.count <= decl.card
  /\ decl.card = 1 => t.size = 0

Ordered(t) == (\E M : Whole(t, M)) /\ Indexed(t) /\ Limited(t)

\* The answer is in the table, or there is no room for it.
Rejects(t, u, a) ==
  /\ u.args = t.args /\ u.next = t.next /\ u.first = t.first /\ u.count = t.count
  /\ \/ \E n \in 1 .. t.count : t.args[n] = a
     \/ /\ t.count = decl.card
        /\ decl.opt # "none" => \A n \in 1 .. t.count : ~IsBetter(a, t.args[n])

Grows(t, u, a) ==
  /\ u.count = t.count + 1 /\ u.args = Append(t.args, a)
  /\ \A n \in 1 .. t.count : t.args[n] # a

\* The answer takes the place of the worst one.
Improves(t, u, a) ==
  /\ decl.opt # "none" /\ u.count = t.count /\ t.count = decl.card
  /\ \E w \in 1 .. t.count :
       /\ u.args = Updated(t.args, w, a) /\ IsBetter(a, t.args[w])
       /\ \A n \in 1 .. t.count : ~IsBetter(t.args[w], t.args[n])

\* addTableOptimalAnswer keeps a table in order and within its limit, and does one of three
\* things.
LEMMA BestAdded ==
  ASSUME decl \in Declarations, NEW t, NEW M, Whole(t, M), Indexed(t), Limited(t), t.size > 0,
         NEW N \in Nat, N = t.count, N >= 1, decl.opt # "none", NEW a \in Answers, NEW memory,
         NEW u, u = addTableOptimalAnswer(t, a, memory)
  PROVE  /\ Ordered(u) /\ u.size > 0
         /\ Rejects(t, u, a) \/ Grows(t, u, a) \/ Improves(t, u, a)
<1>1. /\ IsTable(t) /\ t.args \in Seq(Answers) /\ Len(t.args) = N
  BY DEF Whole
<1>2. HasVariant(t, a) <=> \E n \in 1 .. N : t.args[n] = a
  BY <1>1, VariantFound
<1>3. CASE HasVariant(t, a)
  <2>1. u = t
    BY <1>3 DEF addTableOptimalAnswer
  <2>2. Rejects(t, u, a)
    BY <1>2, <1>3, <2>1 DEF Rejects
  <2> QED
    BY <2>1, <2>2 DEF Ordered
<1>4. CASE ~HasVariant(t, a) /\ t.count = decl.card
  <2>0. /\ t.last = M[N] /\ t.last \in 1 .. N
        /\ \A n \in 1 .. N : ~IsBetter(t.args[t.last], t.args[n])
    BY ONLY Whole(t, M), N \in Nat, N = t.count, N >= 1, decl.opt # "none", LastIsWorst
  <2>9. \A n \in 1 .. N : t.args[n] \in Answers
    BY <1>1
  <2>1. CASE IsBetter(a, t.args[t.last])
    <3>1. u = ReplaceLast(t, a)
      BY <1>4, <2>1 DEF addTableOptimalAnswer
    <3>2. N >= 2
      BY <1>4 DEF Limited
    <3>3. \A n \in 1 .. N : t.args[n] # a
      BY <1>2, <1>4
    <3>4. Replaced(t, u, a)
      BY ONLY <3>1, <3>2, <3>3, Whole(t, M), Indexed(t), t.size > 0, N \in Nat, N = t.count,
              decl.opt # "none", a \in Answers, ReplacedWhole
    <3>5. Ordered(u)
      BY <1>4, <3>2, <3>4 DEF Ordered, Limited, Replaced
    <3>6. Improves(t, u, a)
      BY <1>4, <2>0, <2>1, <3>4 DEF Improves, Replaced
    <3> QED
      BY <3>4, <3>5, <3>6 DEF Replaced
  <2>2. CASE ~IsBetter(a, t.args[t.last])
    <3>1. u = t
      BY <1>4, <2>2 DEF addTableOptimalAnswer
    <3>2. \A n \in 1 .. N : ~IsBetter(a, t.args[n])
      BY <2>0, <2>2, <2>9, BetterIsOrder
    <3>3. Rejects(t, u, a)
      BY <1>4, <3>1, <3>2 DEF Rejects
    <3> QED
      BY <3>1, <3>3 DEF Ordered
  <2> QED
    BY <2>1, <2>2
<1>5. CASE ~HasVariant(t, a) /\ t.count # decl.card
  <2> PICK r : r = insertTabledAnswer(Chained(NewRecord(t, a), N + 1), N + 1)
    OBVIOUS
  <2>1. u = Expanded(r, r.count > r.size, memory)
    BY <1>1, <1>5 DEF addTableOptimalAnswer
  <2>2. \A n \in 1 .. N : t.args[n] # a
    BY <1>2, <1>5
  <2>3. Added(t, u, a)
    BY ONLY <2>1, <2>2, r = insertTabledAnswer(Chained(NewRecord(t, a), N + 1), N + 1),
            Whole(t, M), Indexed(t), t.size > 0, N \in Nat, N = t.count, N >= 1,
            decl.opt # "none", a \in Answers, InsertedWhole
  <2>4. Limited(u)
    <3>1. decl.card \in Nat
      BY AnswerTableAssumption
    <3> QED
      BY <1>5, <2>3, <3>1 DEF Limited, Added
  <2> QED
    BY <2>3, <2>4 DEF Ordered, Added, Grows
<1> QED
  BY <1>3, <1>4, <1>5

\* addTableAnswer keeps a table in order and leaves its first record first.
LEMMA AnyAdded ==
  ASSUME decl \in Declarations, NEW t, NEW M, Whole(t, M), Indexed(t), Limited(t), t.size > 0,
         NEW N \in Nat, N = t.count, N >= 1, decl.opt = "none", t.count # decl.card,
         NEW a \in Answers, NEW memory,
         NEW u, u = addTableAnswer(t, a, memory)
  PROVE  /\ Ordered(u) /\ u.size > 0 /\ u.first = t.first
         /\ Rejects(t, u, a) \/ Grows(t, u, a)
<1>1. \/ u = t /\ \E n \in 1 .. N : t.args[n] = a
      \/ Added(t, u, a) /\ u.first = t.first
  BY ONLY Whole(t, M), Indexed(t), t.size > 0, N \in Nat, N = t.count, N >= 1, decl.opt = "none",
          a \in Answers, u = addTableAnswer(t, a, memory), AppendedWhole
<1>2. CASE u = t /\ \E n \in 1 .. N : t.args[n] = a
  BY <1>2 DEF Ordered, Rejects
<1>3. CASE Added(t, u, a) /\ u.first = t.first
  <2>1. decl.card \in Nat
    BY AnswerTableAssumption
  <2>2. Limited(u)
    BY <1>3, <2>1 DEF Limited, Added
  <2> QED
    BY <1>3, <2>2 DEF Ordered, Added, Grows
<1> QED
  BY <1>1, <1>2, <1>3

\* Every answer of the pioneer leaves the table in order.
LEMMA ExtendedIs ==
  ASSUME decl \in Declarations, NEW t, Ordered(t), NEW a \in Answers, NEW memory,
         NEW u, u = Extended(t, a, memory)
  PROVE  /\ Ordered(u) /\ u.count >= 1
         /\ Rejects(t, u, a) \/ Grows(t, u, a) \/ Improves(t, u, a)
         /\ t.count # 0 /\ (decl.opt = "none" \/ ~(u.size > 0)) => u.first = t.first
<1> PICK M : Whole(t, M)
  BY DEF Ordered
<1> PICK N \in Nat : N = t.count
  BY DEF Whole
<1>0. decl.card \in Nat /\ (decl.opt # "none" => decl.card # 0)
  BY AnswerTableAssumption DEF NoLimit
<1>1. Indexed(t) /\ Limited(t) /\ t.args \in Seq(Answers) /\ Len(t.args) = N /\ t.size \in Nat
  BY DEF Ordered, Whole, Indexed
<1>2. CASE N = 0
  <2>1. u = addFirstTableAnswer(a)
    BY <1>2 DEF Extended
  <2>2. /\ Whole(u, <<1>>) /\ Indexed(u) /\ u.size = 0 /\ u.count = 1
        /\ u.args = <<a>> /\ u.first = 1
    BY ONLY <2>1, a \in Answers, FirstWhole
  <2>3. Limited(u)
    BY <1>0, <2>2 DEF Limited, NoLimit
  <2>4. t.args = <<>>
    BY <1>1, <1>2
  <2>5. Grows(t, u, a)
    BY <1>2, <2>2, <2>4 DEF Grows
  <2> QED
    BY <1>2, <2>2, <2>3, <2>5 DEF Ordered
<1>3. CASE N # 0 /\ t.size = 0 /\ decl.card = 1
  <2>1. N = 1
    BY <1>1, <1>3 DEF Limited
  <2>2. CASE decl.opt /= "none" /\ IsBetter(a, t.args[1])
    <3>1. u = copyTabledAnswerArgs(t, 1, a)
      BY <1>3, <2>2 DEF Extended
    <3>2. /\ IsTable(u) /\ u.args = Updated(t.args, 1, a)
          /\ u.next = t.next /\ u.first = t.first /\ u.last = t.last
          /\ u.count = t.count /\ u.size = t.size /\ u.chains = t.chains
      <4>1. IsTable(t)
        BY DEF Whole
      <4> QED
        BY ONLY <3>1, <4>1 DEF IsTable, copyTabledAnswerArgs, Updated
    <3>3. u.args \in Seq(Answers) /\ Len(u.args) = 1
      <4> PICK A : A = t.args
        OBVIOUS
      <4>1. A \in Seq(Answers) /\ Len(A) = 1 /\ u.args = Updated(A, 1, a)
        BY <1>1, <2>1, <3>2
      <4> QED
        BY ONLY <4>1, a \in Answers DEF Updated
    <3>4. Lists(M, 1) /\ Linked(t.next, t.first, t.last, M) /\ t.next \in Seq(Nat) /\ Len(t.next) = 1
      BY <2>1 DEF Whole
    <3>5. Sorted(u.args, M)
      <4>1. Len(M) = 1
        BY <3>4 DEF Lists
      <4> QED
        BY ONLY <4>1 DEF Sorted
    <3>6. Whole(u, M)
      BY ONLY <2>1, <3>2, <3>3, <3>4, <3>5, N = t.count DEF Whole
    <3>7. Indexed(u)
      <4>1. \A b \in 0 .. t.size - 1 : FALSE
        BY <1>3
      <4> QED
        BY ONLY <1>1, <3>2, <4>1 DEF Indexed
    <3>8. Limited(u)
      BY ONLY <1>1, <3>2 DEF Limited
    <3>9. Improves(t, u, a)
      <4>1. 1 \in 1 .. t.count /\ t.args[1] \in Answers /\ \A n \in 1 .. t.count : n = 1
        BY <1>1, <2>1
      <4>2. ~IsBetter(t.args[1], t.args[1])
        BY <4>1, BetterIsOrder
      <4> QED
        BY <1>3, <2>1, <2>2, <3>2, <4>1, <4>2 DEF Improves
    <3> QED
      <4>1. Ordered(u)
        BY ONLY <3>6, <3>7, <3>8 DEF Ordered
      <4> QED
        BY ONLY <2>1, <3>2, <3>9, <4>1, N = t.count
  <2>3. CASE ~(decl.opt /= "none" /\ IsBetter(a, t.args[1]))
    <3>1. u = t
      BY <1>3, <2>3 DEF Extended
    <3>2. Rejects(t, u, a)
      <4>1. \A n \in 1 .. t.count : n = 1
        BY <2>1
      <4>2. decl.opt # "none" => \A n \in 1 .. t.count : ~IsBetter(a, t.args[n])
        BY ONLY <2>3, <4>1
      <4>3. t.count = decl.card
        BY <1>3, <2>1
      <4> QED
        BY ONLY <3>1, <4>2, <4>3 DEF Rejects
    <3>3. u.count >= 1 /\ Ordered(u) /\ u.first = t.first
      BY ONLY <2>1, <3>1, N = t.count, Ordered(t)
    <3> QED
      BY ONLY <3>2, <3>3
  <2> QED
    BY <2>2, <2>3
<1>4. CASE N # 0 /\ ~(t.size = 0 /\ decl.card = 1)
  <2> PICK v : v = IF t.size = 0 THEN allocateAnswerTable(t) ELSE t
    OBVIOUS
  <2>1. /\ Whole(v, M) /\ Indexed(v) /\ Limited(v) /\ v.size > 0 /\ v.count = N
        /\ v.args = t.args /\ v.next = t.next /\ v.first = t.first
    <3>1. CASE t.size = 0
      <4>1. t.count = 1 /\ v = allocateAnswerTable(t)
        BY <1>1, <1>4, <3>1 DEF Limited
      <4>2. /\ Whole(v, M) /\ Indexed(v) /\ v.size > 0 /\ v.count = 1
            /\ v.args = t.args /\ v.next = t.next /\ v.first = t.first /\ v.last = t.last
        BY ONLY <4>1, Whole(t, M), AllocatedWhole
      <4>3. Limited(v)
        BY <1>0, <1>4, <3>1, <4>2 DEF Limited, NoLimit
      <4> QED
        BY <4>1, <4>2, <4>3
    <3>2. CASE t.size # 0
      BY <1>1, <3>2
    <3> QED
      BY <3>1, <3>2
  <2>2. Rejects(v, u, a) => Rejects(t, u, a)
    BY ONLY <2>1, N = t.count DEF Rejects
  <2>3. Grows(v, u, a) => Grows(t, u, a)
    BY ONLY <2>1, N = t.count DEF Grows
  <2>4. Improves(v, u, a) => Improves(t, u, a)
    BY ONLY <2>1, N = t.count DEF Improves
  <2>5. Rejects(v, u, a) \/ Grows(v, u, a) \/ Improves(v, u, a) => u.count >= 1
    BY <1>4, <2>1 DEF Rejects, Grows, Improves
  <2>6. CASE decl.opt /= "none"
    <3>1. u = addTableOptimalAnswer(v, a, memory)
      BY <1>4, <2>6 DEF Extended
    <3>2. /\ Ordered(u) /\ u.size > 0
          /\ Rejects(v, u, a) \/ Grows(v, u, a) \/ Improves(v, u, a)
      <4>1. N >= 1
        BY <1>4
      <4> QED
        BY ONLY <2>1, <2>6, <3>1, <4>1, decl \in Declarations, N \in Nat, a \in Answers, BestAdded
    <3> QED
      BY <2>2, <2>3, <2>4, <2>5, <2>6, <3>2
  <2>7. CASE decl.opt = "none" /\ t.size /= 0 /\ t.count = decl.card
    <3>1. u = t
      BY <1>4, <2>7 DEF Extended
    <3>2. Rejects(t, u, a)
      BY <2>7, <3>1 DEF Rejects
    <3> QED
      BY <1>4, <3>1, <3>2
  <2>8. CASE decl.opt = "none" /\ ~(t.size /= 0 /\ t.count = decl.card)
    <3>1. u = addTableAnswer(v, a, memory)
      BY <1>4, <2>8 DEF Extended
    <3>2. v.count # decl.card
      BY <1>1, <1>4, <2>1, <2>8 DEF Limited
    <3>3. /\ Ordered(u) /\ u.size > 0 /\ u.first = v.first
          /\ Rejects(v, u, a) \/ Grows(v, u, a)
      <4>1. N >= 1
        BY <1>4
      <4>2. decl.opt = "none"
        BY <2>8
      <4> QED
        BY ONLY <2>1, <3>1, <3>2, <4>1, <4>2, decl \in Declarations, N \in Nat, a \in Answers, AnyAdded
    <3> QED
      BY <2>1, <2>2, <2>3, <2>5, <3>3
  <2> QED
    BY <2>6, <2>7, <2>8
<1> QED
  BY <1>2, <1>3, <1>4

-----------------------------------------------------------------------------
(* Walks through a table in order.                                         *)

\* What a whole list says of records, links and ends.
LEMMA WholeIs ==
  ASSUME NEW t, NEW M, Whole(t, M)
  PROVE  /\ t.count \in Nat /\ Len(t.args) = t.count /\ t.args \in Seq(Answers)
         /\ M \in Seq(1 .. t.count) /\ Len(M) = t.count /\ Listing(t) = M
         /\ \A x \in 1 .. t.count : M[x] \in 1 .. t.count
         /\ \A x, y \in 1 .. t.count : M[x] = M[y] => x = y
         /\ \A n \in 1 .. t.count : \E x \in 1 .. t.count : M[x] = n
         /\ \A x \in 1 .. t.count : t.next[M[x]] = IF x = t.count THEN NULL ELSE M[x + 1]
         /\ t.first = IF t.count = 0 THEN NULL ELSE M[1]
         /\ t.last = IF t.count = 0 THEN NULL ELSE M[t.count]
<1> PICK N \in Nat : N = t.count
  BY DEF Whole
<1>1. Len(t.args) = N /\ t.args \in Seq(Answers) /\ Lists(M, N) /\ Linked(t.next, t.first, t.last, M)
  BY DEF Whole
<1>2. /\ M \in Seq(1 .. N) /\ Len(M) = N /\ \A x, y \in 1 .. N : M[x] = M[y] => x = y
      /\ \A n \in 1 .. N : \E x \in 1 .. N : M[x] = n
  BY <1>1 DEF Lists
<1>3. \A x \in 1 .. N : M[x] \in 1 .. N
  BY ONLY <1>2, N \in Nat, SeqAt, Zenon
<1>4. Listing(t) = M
  BY ONLY Whole(t, M), WholeListed
<1>5. M = <<>> <=> N = 0
  BY <1>2
<1>6. /\ \A x \in 1 .. N : t.next[M[x]] = IF x = N THEN NULL ELSE M[x + 1]
      /\ t.first = IF N = 0 THEN NULL ELSE M[1]
      /\ t.last = IF N = 0 THEN NULL ELSE M[N]
  BY ONLY <1>1, <1>2, <1>5 DEF Linked
<1> QED
  BY ONLY <1>1, <1>2, <1>3, <1>4, <1>6, N = t.count, N \in Nat

\* Links lead to records.
LEMMA NextIn ==
  ASSUME NEW t, NEW M, Whole(t, M), NEW N \in Nat, N = t.count
  PROVE  /\ \A n \in 1 .. N : t.next[n] \in 0 .. N
         /\ t.first \in 0 .. N /\ t.last \in 0 .. N
         /\ N # 0 => t.first # NULL
<1>1. /\ \A x \in 1 .. N : M[x] \in 1 .. N
      /\ \A n \in 1 .. N : \E x \in 1 .. N : M[x] = n
      /\ \A x \in 1 .. N : t.next[M[x]] = IF x = N THEN NULL ELSE M[x + 1]
      /\ t.first = IF N = 0 THEN NULL ELSE M[1]
      /\ t.last = IF N = 0 THEN NULL ELSE M[N]
  BY ONLY Whole(t, M), N = t.count, WholeIs
<1>2. ASSUME NEW n \in 1 .. N PROVE t.next[n] \in 0 .. N
  <2> PICK x \in 1 .. N : M[x] = n
    BY <1>1
  <2>1. CASE x = N
    BY <1>1, <2>1 DEF NULL
  <2>2. CASE x # N
    <3>1. x + 1 \in 1 .. N /\ t.next[n] = M[x + 1]
      BY <1>1, <2>2
    <3> QED
      BY <1>1, <3>1
  <2> QED
    BY <2>1, <2>2
<1>3. CASE N = 0
  BY <1>1, <1>2, <1>3 DEF NULL
<1>4. CASE N # 0
  <2>1. 1 \in 1 .. N /\ N \in 1 .. N
    BY <1>4
  <2> QED
    BY <1>1, <1>2, <1>4, <2>1 DEF NULL
<1> QED
  BY <1>3, <1>4

\* The walk from the k-th of the list goes through the rest of it.
LEMMA WalkFromNull ==
  ASSUME NEW t, NEW M, Whole(t, M)
  PROVE  ListFrom(t, NULL) = <<>>
<1> PICK N \in Nat : N = t.count
  BY DEF Whole
<1>1. Len(t.args) = N
  BY WholeIs
<1>2. Linked(t.next, NULL, NULL, <<>>) /\ <<>> \in Seq(1 .. N) /\ Len(<<>>) <= N
  BY DEF Linked
<1> QED
  BY <1>1, <1>2, ListFound

\* The records ahead of the k-th of the list are those from there on.
LEMMA WalkFrom ==
  ASSUME NEW t, NEW M, Whole(t, M), NEW N \in Nat, N = t.count, NEW k \in 1 .. N
  PROVE  ListFrom(t, M[k]) = SubSeq(M, k, N)
<1> DEFINE R == SubSeq(M, k, N)
<1>1. /\ M \in Seq(1 .. N) /\ Len(M) = N /\ Len(t.args) = N
      /\ \A x \in 1 .. N : t.next[M[x]] = IF x = N THEN NULL ELSE M[x + 1]
  BY ONLY Whole(t, M), N = t.count, WholeIs
<1>2. /\ R \in Seq(1 .. N) /\ Len(R) = N - k + 1
      /\ \A i \in 1 .. N - k + 1 : R[i] = M[k + i - 1]
  BY ONLY <1>1, N \in Nat, k \in 1 .. N
<1> HIDE DEF R
<1>3. \A i \in 1 .. Len(R) : t.next[R[i]] = IF i = Len(R) THEN NULL ELSE R[i + 1]
  <2> TAKE i \in 1 .. Len(R)
  <2>1. k + i - 1 \in 1 .. N /\ R[i] = M[k + i - 1]
    BY <1>2
  <2>2. CASE i = Len(R)
    <3>1. k + i - 1 = N
      BY <1>2, <2>2
    <3> QED
      BY ONLY <1>1, <2>1, <2>2, <3>1
  <2>3. CASE i # Len(R)
    <3>1. k + i - 1 # N /\ i + 1 \in 1 .. N - k + 1 /\ (k + i - 1) + 1 = k + (i + 1) - 1
      BY <1>2, <2>3
    <3>2. R[i + 1] = M[k + (i + 1) - 1]
      BY <1>2, <3>1
    <3> QED
      BY ONLY <1>1, <2>1, <2>3, <3>1, <3>2
  <2> QED
    BY <2>2, <2>3
<1>4. R # <<>> /\ R[1] = M[k] /\ Len(R) <= N
  BY <1>2
<1> PICK last : last = R[Len(R)]
  OBVIOUS
<1>5. Linked(t.next, M[k], last, R)
  BY <1>3, <1>4 DEF Linked
<1>6. R \in Seq(1 .. N) /\ N = Len(t.args)
  BY <1>1, <1>2
<1>7. ListFrom(t, M[k]) = R
  BY ONLY <1>4, <1>5, <1>6, N \in Nat, ListFound, Zenon
<1> QED
  BY <1>7 DEF R

FromOn(M, k, N, y) == \E i \in 1 .. N : i >= k /\ M[i] = y

\* The elements of the rest of a list.
LEMMA SuffixSet ==
  ASSUME NEW N \in Nat, NEW M \in Seq(1 .. N), Len(M) = N, NEW k \in 1 .. N, NEW y
  PROVE  y \in ToSet(SubSeq(M, k, N)) <=> FromOn(M, k, N, y)
<1> DEFINE R == SubSeq(M, k, N)
<1>1. DOMAIN R = 1 .. N - k + 1 /\ \A i \in 1 .. N - k + 1 : R[i] = M[k + i - 1]
  OBVIOUS
<1> HIDE DEF R
<1>2. y \in ToSet(R) <=> \E i \in 1 .. N - k + 1 : R[i] = y
  BY <1>1 DEF ToSet
<1>3. ASSUME NEW i \in 1 .. N, i >= k, M[i] = y PROVE \E j \in 1 .. N - k + 1 : R[j] = y
  <2> PICK j \in 1 .. N - k + 1 : j = i - k + 1
    BY <1>3
  <2>1. k + j - 1 = i /\ R[j] = M[k + j - 1]
    BY <1>1
  <2> QED
    BY <1>3, <2>1
<1>4. ASSUME NEW j \in 1 .. N - k + 1, R[j] = y PROVE \E i \in 1 .. N : i >= k /\ M[i] = y
  <2>1. k + j - 1 \in 1 .. N /\ k + j - 1 >= k /\ R[j] = M[k + j - 1]
    BY <1>1
  <2> QED
    BY <1>4, <2>1
<1> QED
  BY <1>2, <1>3, <1>4 DEF R, FromOn

\* What is ahead of a cursor: its record, and what is ahead of the next.
LEMMA Ahead ==
  ASSUME NEW t, NEW M, Whole(t, M), NEW N \in Nat, N = t.count, NEW n \in 1 .. N, NEW y
  PROVE  y \in ToSet(ListFrom(t, n)) <=> y = n \/ y \in ToSet(ListFrom(t, t.next[n]))
<1>1. /\ M \in Seq(1 .. N) /\ Len(M) = N
      /\ \A m \in 1 .. N : \E x \in 1 .. N : M[x] = m
      /\ \A x \in 1 .. N : t.next[M[x]] = IF x = N THEN NULL ELSE M[x + 1]
  BY ONLY Whole(t, M), N = t.count, WholeIs
<1> PICK k \in 1 .. N : M[k] = n
  BY <1>1
<1>2. ListFrom(t, n) = SubSeq(M, k, N)
  BY WalkFrom
<1>3. y \in ToSet(ListFrom(t, n)) <=> \E i \in 1 .. N : i >= k /\ M[i] = y
  <2>1. y \in ToSet(SubSeq(M, k, N)) <=> FromOn(M, k, N, y)
    <3>1. M \in Seq(1 .. N)
      BY <1>1
    <3>2. Len(M) = N
      BY <1>1
    <3> QED
      BY ONLY <3>1, <3>2, k \in 1 .. N, N \in Nat, SuffixSet, Zenon
  <2> QED
    BY <1>2, <2>1 DEF FromOn
<1>4. CASE k = N
  <2>1. t.next[n] = NULL
    BY <1>1, <1>4
  <2>2. ListFrom(t, t.next[n]) = <<>>
    BY <2>1, WalkFromNull
  <2>3. ToSet(<<>>) = {}
    BY DEF ToSet
  <2>4. \A i \in 1 .. N : i >= k <=> i = k
    BY <1>4
  <2> QED
    BY ONLY <1>3, <2>2, <2>3, <2>4, M[k] = n, k \in 1 .. N
<1>5. CASE k # N
  <2> PICK l \in 1 .. N : l = k + 1
    BY <1>5
  <2>1. t.next[n] = M[l]
    BY <1>1, <1>5
  <2>2. ListFrom(t, t.next[n]) = SubSeq(M, l, N)
    <3>1. ListFrom(t, M[l]) = SubSeq(M, l, N)
      BY ONLY Whole(t, M), N \in Nat, N = t.count, l \in 1 .. N, WalkFrom
    <3> QED
      BY ONLY <2>1, <3>1
  <2>3. y \in ToSet(SubSeq(M, l, N)) <=> FromOn(M, l, N, y)
    <3>1. M \in Seq(1 .. N)
      BY <1>1
    <3>2. Len(M) = N
      BY <1>1
    <3> QED
      BY ONLY <3>1, <3>2, l \in 1 .. N, N \in Nat, SuffixSet, Zenon
  <2>4. \A i \in 1 .. N : i >= k <=> i = k \/ i >= l
    OBVIOUS
  <2> QED
    BY ONLY <1>3, <2>2, <2>3, <2>4, M[k] = n, k \in 1 .. N DEF FromOn
<1> QED
  BY <1>4, <1>5

\* Everything is ahead of the front.
LEMMA AheadOfFirst ==
  ASSUME NEW t, NEW M, Whole(t, M), NEW N \in Nat, N = t.count
  PROVE  1 .. N \subseteq ToSet(ListFrom(t, t.first))
<1>1. /\ Listing(t) = M /\ Len(M) = N /\ M \in Seq(1 .. N)
      /\ \A m \in 1 .. N : \E x \in 1 .. N : M[x] = m
  BY ONLY Whole(t, M), N = t.count, WholeIs
<1>2. ListFrom(t, t.first) = M
  BY <1>1 DEF Listing
<1> QED
  BY <1>1, <1>2, SMTT(30) DEF ToSet

-----------------------------------------------------------------------------
(* The table in every state.                                               *)

Core ==
  /\ decl \in Declarations
  /\ Ordered(table)
  /\ produced \subseteq Answers
  /\ table.count = 0 => produced = {}

\* The order is that of the declaration, which stays.
LEMMA OrderedNext ==
  ASSUME decl' = decl, Ordered(table')
  PROVE  Ordered(table)'
<1>1. PICK M : Whole(table', M)
  BY DEF Ordered
<1>2. Whole(table, M)'
  <2>1. Sorted(table'.args, M) => Sorted(table.args, M)'
    BY DEF Sorted, IsBetter
  <2> QED
    BY <1>1, <2>1 DEF Whole
<1>3. Limited(table)'
  BY DEF Ordered, Limited
<1>4. Indexed(table)'
  BY DEF Ordered
<1>5. (\E L : Whole(table, L))'
  BY <1>2
<1> QED
  BY <1>3, <1>4, <1>5 DEF Ordered

\* Core holds in the initial state.
LEMMA CoreInit == Init => Core
<1> SUFFICES ASSUME Init PROVE Core
  OBVIOUS
<1>1. decl \in Declarations /\ table = Empty /\ produced = {}
  BY DEF Init
<1>2. Empty.count = 0 /\ Empty.size = 0
  BY DEF Empty
<1>3. decl.card \in Nat
  BY <1>1, AnswerTableAssumption
<1>4. Limited(table)
  BY <1>1, <1>2, <1>3 DEF Limited, NoLimit
<1>5. Ordered(table)
  BY <1>1, <1>4, EmptyWhole DEF Ordered
<1> QED
  BY <1>1, <1>5 DEF Core

\* What the table becomes.
LEMMA ProducedIs ==
  ASSUME Core, NEW a \in Answers, NEW memory \in BOOLEAN, table_produce(a, memory)
  PROVE  /\ Ordered(table') /\ table'.count >= 1 /\ decl' = decl
         /\ Rejects(table, table', a) \/ Grows(table, table', a) \/ Improves(table, table', a)
         /\ table.count # 0 /\ (decl.opt = "none" \/ ~(table'.size > 0)) => table'.first = table.first
<1>1. table' = Extended(table, a, memory) /\ decl' = decl
  BY DEF table_produce
<1>2. decl \in Declarations /\ Ordered(table)
  BY DEF Core
<1> QED
  BY ONLY <1>1, <1>2, a \in Answers, ExtendedIs

\* Core is inductive: only table_produce changes a table, as ExtendedIs says.
LEMMA CoreStep == Core /\ [Next]_vars => Core'
<1> SUFFICES ASSUME Core, [Next]_vars PROVE Core'
  OBVIOUS
<1>1. ASSUME NEW a \in Answers, NEW memory \in BOOLEAN, table_produce(a, memory)
      PROVE  Core'
  <2>1. Ordered(table') /\ table'.count >= 1 /\ decl' = decl
    BY <1>1, ProducedIs
  <2>2. Ordered(table)'
    BY <2>1, OrderedNext
  <2>3. produced' = produced \cup {a}
    BY <1>1 DEF table_produce
  <2> QED
    BY <1>1, <2>1, <2>2, <2>3 DEF Core
<1>2. ASSUME UNCHANGED <<decl, table, produced>> PROVE Core'
  <2>1. Ordered(table') /\ decl' = decl
    BY <1>2 DEF Core
  <2>2. Ordered(table)'
    BY <2>1, OrderedNext
  <2> QED
    BY <1>2, <2>2 DEF Core
<1> QED
  BY <1>1, <1>2 DEF Next, vars, table_allocate, table_consume, table_check_completion, PioneerConsumes

-----------------------------------------------------------------------------
(* The best answers are kept.                                              *)

\* COUNT counts the records, and the answers are those of the records.
LEMMA CountIs ==
  ASSUME NEW t, Ordered(t)
  PROVE  /\ t.count \in Nat /\ t.args \in Seq(Answers) /\ Len(t.args) = t.count
         /\ AnswersOf(t) = {t.args[n] : n \in 1 .. t.count}
         /\ \A n \in 1 .. t.count : t.args[n] \in Answers
<1> PICK M : Whole(t, M)
  BY DEF Ordered
<1>1. t.count \in Nat /\ t.args \in Seq(Answers) /\ Len(t.args) = t.count
  BY DEF Whole
<1>2. \A n \in 1 .. t.count : t.args[n] \in Answers
  <2> PICK A : A = t.args
    OBVIOUS
  <2> PICK N : N = t.count
    OBVIOUS
  <2>1. A \in Seq(Answers) /\ N \in Nat /\ Len(A) = N
    BY <1>1
  <2> QED
    BY ONLY <2>1, A = t.args, N = t.count, SeqAt
<1> QED
  BY <1>1, <1>2 DEF AnswersOf, Nodes

\* An answer rejected, added or put in the place of the worst one: in each case the missing
\* answers are those the limit excludes.
LEMMA BestStep ==
  ASSUME Core, Core', BestAreKept, NEW a \in Answers, NEW memory \in BOOLEAN,
         table_produce(a, memory)
  PROVE  BestAreKept'
<1>1. /\ Ordered(table') /\ decl' = decl
      /\ Rejects(table, table', a) \/ Grows(table, table', a) \/ Improves(table, table', a)
  BY ProducedIs
<1>2. produced' = produced \cup {a}
  BY DEF table_produce
<1> PICK A : A = AnswersOf(table)
  OBVIOUS
<1> PICK B : B = AnswersOf(table')
  OBVIOUS
<1> PICK N : N = table.count
  OBVIOUS
<1> PICK f : f = table.args
  OBVIOUS
<1>3. /\ N \in Nat /\ A = {f[n] : n \in 1 .. N} /\ f \in Seq(Answers) /\ Len(f) = N
      /\ \A n \in 1 .. N : f[n] \in Answers
  BY CountIs DEF Core
<1>4. B = {table'.args[n] : n \in 1 .. table'.count}
  BY <1>1, CountIs
<1>5. /\ A \subseteq produced /\ produced \subseteq Answers /\ (N = 0 => produced = {})
      /\ \A b \in produced \ A :
           N = decl.card /\ (decl.opt # "none" => \A c \in A : ~IsBetter(b, c))
  BY DEF BestAreKept, Core
<1> SUFFICES /\ B \subseteq produced'
             /\ \A b \in produced' \ B :
                  /\ table'.count = decl.card
                  /\ decl.opt # "none" => \A c \in B : ~IsBetter(b, c)
  <2>1. \A b, c : IsBetter(b, c)' <=> IsBetter(b, c)
    BY <1>1 DEF IsBetter
  <2>2. AnswersOf(table)' = B
    BY DEF AnswersOf, Nodes
  <2> QED
    BY <1>1, <2>2 DEF BestAreKept, IsBetter
<1>6. CASE Rejects(table, table', a)
  <2>1. B = A /\ table'.count = N
    BY <1>3, <1>4, <1>6 DEF Rejects
  <2>2. a \in A \/ (N = decl.card /\ (decl.opt # "none" => \A c \in A : ~IsBetter(a, c)))
    BY <1>3, <1>6 DEF Rejects
  <2>3. a \in A => produced' = produced
    BY <1>2, <1>5
  <2> QED
    BY ONLY <1>2, <1>5, <2>1, <2>2, <2>3
<1>7. CASE Grows(table, table', a)
  <2>1. table'.count = N + 1 /\ table'.args = Append(f, a)
    BY <1>7 DEF Grows
  <2>2. \A y : y \in B <=> y \in A \/ y = a
    <3> PICK g : g = table'.args
      OBVIOUS
    <3>1. g[N + 1] = a /\ \A n \in 1 .. N : g[n] = f[n]
      BY ONLY <1>3, <2>1, g = table'.args
    <3>2. B = {g[n] : n \in 1 .. N + 1}
      BY <1>4, <2>1
    <3>3. N + 1 \in 1 .. N + 1 /\ \A n \in 1 .. N + 1 : n = N + 1 \/ n \in 1 .. N
      BY <1>3
    <3>4. \A n \in 1 .. N : n \in 1 .. N + 1
      BY <1>3
    <3> QED
      BY ONLY <1>3, <3>1, <3>2, <3>3, <3>4
  <2>3. B \subseteq produced'
    BY <1>2, <1>5, <2>2
  <2>4. ASSUME NEW b \in produced' \ B PROVE FALSE
    <3>1. b \in produced \ A
      BY <1>2, <2>2
    <3>2. N = decl.card /\ N # 0
      BY <1>5, <3>1
    <3>3. decl.card # NoLimit => N + 1 <= decl.card
      BY <1>1, <2>1 DEF Ordered, Limited
    <3> QED
      BY <1>3, <3>2, <3>3 DEF NoLimit
  <2> QED
    BY <2>3, <2>4
<1>8. CASE Improves(table, table', a)
  <2>1. decl.opt # "none" /\ table'.count = N /\ N = decl.card
    BY <1>8 DEF Improves
  <2> PICK w \in 1 .. N :
        /\ table'.args = Updated(f, w, a) /\ IsBetter(a, f[w])
        /\ \A n \in 1 .. N : ~IsBetter(f[w], f[n])
    BY <1>8 DEF Improves
  <2> PICK g : g = table'.args
    OBVIOUS
  <2>2. \A n \in 1 .. N : g[n] = IF n = w THEN a ELSE f[n]
    BY <1>3 DEF Updated
  <2>3. B = {g[n] : n \in 1 .. N}
    BY <1>4, <2>1
  <2>4. B \subseteq A \cup {a}
    BY ONLY <1>3, <2>2, <2>3
  <2>5. a \in B
    BY ONLY <2>2, <2>3, w \in 1 .. N
  <2>6. A \subseteq B \cup {f[w]}
    BY ONLY <1>3, <2>2, <2>3
  <2>7. \A c \in A : c \in Answers
    BY <1>5
  <2>8. f[w] \in Answers /\ \A c \in A : ~IsBetter(f[w], c)
    BY <1>3
  <2>9. ~IsBetter(f[w], a)
    BY <2>8, BetterIsOrder
  <2>10. ASSUME NEW b \in produced' \ B, NEW c \in B PROVE ~IsBetter(b, c)
    <3>1. b \in produced /\ b \in Answers
      BY <1>2, <1>5, <2>5
    <3>2. CASE b = f[w]
      BY <2>4, <2>8, <2>9, <3>2
    <3>3. CASE b # f[w]
      <4>1. b \notin A
        BY <2>6, <3>3
      <4>2. \A d \in A : ~IsBetter(b, d)
        BY <1>5, <2>1, <3>1, <4>1
      <4>3. CASE c = a
        <5>1. ~IsBetter(b, f[w])
          BY <1>3, <4>2
        <5> QED
          BY <2>8, <2>9, <3>1, <4>3, <5>1, BetterIsOrder
      <4> QED
        BY <2>4, <4>2, <4>3
    <3> QED
      BY <3>2, <3>3
  <2>11. B \subseteq produced'
    BY <1>2, <1>5, <2>4
  <2> QED
    BY <2>1, <2>10, <2>11
<1> QED
  BY <1>1, <1>6, <1>7, <1>8

\* BestAreKept holds in the initial state.
LEMMA BestInit == Init => BestAreKept
<1> SUFFICES ASSUME Init PROVE BestAreKept
  OBVIOUS
<1>1. table = Empty /\ produced = {}
  BY DEF Init
<1>2. AnswersOf(table) = {}
  BY <1>1 DEF AnswersOf, Nodes, Empty
<1> QED
  BY <1>1, <1>2 DEF BestAreKept

\* Every step keeps BestAreKept.
LEMMA BestNext == Core /\ Core' /\ BestAreKept /\ [Next]_vars => BestAreKept'
<1> SUFFICES ASSUME Core, Core', BestAreKept, [Next]_vars PROVE BestAreKept'
  OBVIOUS
<1>1. ASSUME NEW a \in Answers, NEW memory \in BOOLEAN, table_produce(a, memory)
      PROVE  BestAreKept'
  BY <1>1, BestStep
<1>2. ASSUME UNCHANGED <<decl, table, produced>> PROVE BestAreKept'
  BY <1>2 DEF BestAreKept, AnswersOf, Nodes, IsBetter
<1> QED
  BY <1>1, <1>2 DEF Next, vars, table_allocate, table_consume, table_check_completion, PioneerConsumes

\* The postconditions of addTableOptimalAnswer hold after every call, for every sequence of
\* answers: an answer that was given and is not kept was no better than any that is, and is
\* missing only because the limit is reached.
THEOREM TheBestAreKept == Spec => []BestAreKept
<1>1. Init => Core /\ BestAreKept
  BY CoreInit, BestInit
<1>2. Core /\ BestAreKept /\ [Next]_vars => (Core /\ BestAreKept)'
  BY CoreStep, BestNext
<1> QED
  BY <1>1, <1>2, PTL DEF Spec

-----------------------------------------------------------------------------
(* The frames.                                                             *)

Frames(t) == [curr : 0 .. t.count, got : Seq(Answers)]

Types ==
  /\ revised \in BOOLEAN /\ looping \in BOOLEAN
  /\ phase \in {"round", "return", "done"}
  /\ pioneer \in Frames(table)
  /\ followers \in Seq(Frames(table))
  /\ calls \in 0 .. MaxCalls

\* Frames of a table are frames of a longer one.
LEMMA FramesGrow ==
  ASSUME NEW t, NEW u, t.count \in Nat, u.count \in Nat, t.count <= u.count
  PROVE  Frames(t) \subseteq Frames(u) /\ Seq(Frames(t)) \subseteq Seq(Frames(u))
<1>1. 0 .. t.count \subseteq 0 .. u.count
  OBVIOUS
<1>2. Frames(t) \subseteq Frames(u)
  BY ONLY <1>1 DEF Frames
<1> PICK S : S = Frames(t)
  OBVIOUS
<1> PICK T : T = Frames(u)
  OBVIOUS
<1>3. S \subseteq T => Seq(S) \subseteq Seq(T)
  OBVIOUS
<1> QED
  BY ONLY <1>2, <1>3, S = Frames(t), T = Frames(u)

\* Links and the front are records or the end of the list.
LEMMA FirstIn ==
  ASSUME NEW t, Ordered(t)
  PROVE  /\ t.count \in Nat /\ t.first \in 0 .. t.count
         /\ \A n \in 1 .. t.count : t.next[n] \in 0 .. t.count /\ t.args[n] \in Answers
<1> PICK M : Whole(t, M)
  BY DEF Ordered
<1> PICK N : N = t.count
  OBVIOUS
<1>1. N \in Nat /\ \A n \in 1 .. N : t.args[n] \in Answers
  BY CountIs
<1>2. t.first \in 0 .. N /\ \A n \in 1 .. N : t.next[n] \in 0 .. N
  BY ONLY <1>1, Whole(t, M), N = t.count, NextIn
<1> QED
  BY <1>1, <1>2

\* A frame that moves on is a frame of the table.
LEMMA AdvanceIn ==
  ASSUME Core, NEW frame \in Frames(table), frame.curr # NULL
  PROVE  Advance(frame) \in Frames(table)
<1>1. frame.curr \in 1 .. table.count /\ frame.got \in Seq(Answers)
  BY FirstIn DEF Core, Frames, NULL
<1>2. table.next[frame.curr] \in 0 .. table.count /\ table.args[frame.curr] \in Answers
  BY <1>1, FirstIn DEF Core
<1>3. Append(frame.got, table.args[frame.curr]) \in Seq(Answers)
  BY <1>1, <1>2
<1> QED
  BY <1>2, <1>3 DEF Advance, Frames

\* Types holds in the initial state.
LEMMA TypesInit == Init => Types
<1> SUFFICES ASSUME Init PROVE Types
  OBVIOUS
<1>1. Frame(NULL) \in Frames(Empty)
  BY DEF Frame, Frames, Empty, NULL
<1>2. pioneer \in Frames(table)
  BY <1>1 DEF Init
<1>3. followers \in Seq(Frames(table)) /\ calls \in 0 .. MaxCalls
  <2>1. followers = <<>> /\ calls = 0 /\ MaxCalls \in Nat
    BY AnswerTableAssumption DEF Init
  <2> QED
    BY ONLY <2>1
<1> QED
  BY <1>2, <1>3 DEF Init, Types

\* Every step keeps Types.
LEMMA TypesNext == Core /\ Core' /\ Types /\ [Next]_vars => Types'
<1> SUFFICES ASSUME Core, Core', Types, [Next]_vars PROVE Types'
  OBVIOUS
<1>0. table.count \in Nat /\ table.first \in 0 .. table.count
  BY FirstIn DEF Core
<1>1. ASSUME NEW a \in Answers, NEW memory \in BOOLEAN, table_produce(a, memory)
      PROVE  Types'
  <2>1. /\ Ordered(table')
        /\ Rejects(table, table', a) \/ Grows(table, table', a) \/ Improves(table, table', a)
    BY <1>1, ProducedIs
  <2>2. table'.count = table.count \/ table'.count = table.count + 1
    BY <2>1 DEF Rejects, Grows, Improves
  <2>3. table'.count \in Nat /\ table.count <= table'.count /\ table'.first \in 0 .. table'.count
    BY <1>0, <2>1, <2>2, FirstIn
  <2>4. Frames(table) \subseteq Frames(table') /\ Seq(Frames(table)) \subseteq Seq(Frames(table'))
    BY ONLY <1>0, <2>3, FramesGrow
  <2>5. Frames(table)' = Frames(table')
    BY DEF Frames
  <2>6. pioneer \in Frames(table') /\ followers \in Seq(Frames(table'))
    BY <2>4 DEF Types
  <2>7. [pioneer EXCEPT !.curr = CursorAfter(table, table')] \in Frames(table')
    <3>1. CursorAfter(table, table') \in 0 .. table'.count
      BY <2>3, <2>6 DEF CursorAfter, Frames
    <3> QED
      BY <2>6, <3>1 DEF Frames
  <2>8. /\ pioneer' = [pioneer EXCEPT !.curr = CursorAfter(table, table')]
        /\ followers' = followers /\ looping' = looping /\ phase' = phase /\ calls' = calls
        /\ revised' = RevisedBy(table, table')
    BY <1>1 DEF table_produce
  <2>9. RevisedBy(table, table') \in BOOLEAN
    BY DEF RevisedBy, Types
  <2> QED
    BY <2>5, <2>6, <2>7, <2>8, <2>9 DEF Types
<1>2. ASSUME table_allocate PROVE Types'
  <2>1. Frame(table.first) \in Frames(table)
    BY <1>0 DEF Frame, Frames
  <2>2. Append(followers, Frame(table.first)) \in Seq(Frames(table))
    BY <2>1 DEF Types
  <2>3. /\ followers' = Append(followers, Frame(table.first)) /\ table' = table
        /\ calls' = calls + 1 /\ calls < MaxCalls /\ looping' = TRUE
        /\ revised' = revised /\ phase' = phase /\ pioneer' = pioneer
    BY <1>2 DEF table_allocate
  <2>4. calls' \in 0 .. MaxCalls
    BY <2>3, AnswerTableAssumption DEF Types
  <2> QED
    BY <2>2, <2>3, <2>4 DEF Types, Frames
<1>3. ASSUME table_consume PROVE Types'
  <2>1. /\ followers # <<>> /\ table' = table /\ calls' = calls /\ looping' = looping
        /\ revised' = revised /\ phase' = phase /\ pioneer' = pioneer
        /\ followers' = IF TopFollower.curr = NULL THEN Front(followers)
                        ELSE [followers EXCEPT ![Len(followers)] = Advance(@)]
    BY <1>3 DEF table_consume
  <2> PICK S : S = Frames(table)
    OBVIOUS
  <2> PICK F : F = followers
    OBVIOUS
  <2>2. F \in Seq(S) /\ F # <<>> /\ Len(F) \in 1 .. Len(F) /\ F[Len(F)] \in S
    BY <2>1 DEF Types
  <2>3. followers' \in Seq(S)
    <3>1. CASE TopFollower.curr = NULL
      BY <2>1, <2>2, <3>1 DEF Front
    <3>2. CASE TopFollower.curr # NULL
      <4>1. Advance(F[Len(F)]) \in S
        BY <2>2, <3>2, AdvanceIn DEF TopFollower
      <4>2. followers' = [F EXCEPT ![Len(F)] = Advance(F[Len(F)])]
        BY <2>1, <3>2
      <4> PICK d : d = Advance(F[Len(F)])
        OBVIOUS
      <4> QED
        BY ONLY <2>2, <4>1, <4>2, d = Advance(F[Len(F)])
    <3> QED
      BY <3>1, <3>2
  <2> QED
    BY <2>1, <2>3 DEF Types, Frames
<1>4. ASSUME table_check_completion PROVE Types'
  BY <1>4 DEF table_check_completion, NextRound, Types, Frames
<1>5. ASSUME PioneerConsumes PROVE Types'
  <2>1. CASE pioneer.curr = NULL
    BY <1>5, <2>1 DEF PioneerConsumes, Types, Frames
  <2>2. CASE pioneer.curr # NULL
    <3>1. pioneer' = Advance(pioneer) /\ table' = table
      BY <1>5, <2>2 DEF PioneerConsumes
    <3>2. Advance(pioneer) \in Frames(table)
      BY <2>2, AdvanceIn DEF Types
    <3>3. /\ followers' = followers /\ looping' = looping /\ phase' = phase /\ calls' = calls
          /\ revised' = revised
      BY <1>5, <2>2 DEF PioneerConsumes
    <3> QED
      BY <3>1, <3>2, <3>3 DEF Types, Frames
  <2> QED
    BY <2>1, <2>2
<1>6. ASSUME UNCHANGED vars PROVE Types'
  BY <1>6 DEF vars, Types, Frames
<1> QED
  BY <1>1, <1>2, <1>3, <1>4, <1>5, <1>6 DEF Next

-----------------------------------------------------------------------------
(* The table is well formed.                                               *)

\* The chains of a hash table.
LEMMA IndexedRange ==
  ASSUME NEW t, NEW N, N = t.count, Indexed(t)
  PROVE  /\ DOMAIN t.chains = 0 .. t.size - 1
         /\ \A b \in 0 .. t.size - 1 : t.chains[b] \subseteq 1 .. N
BY DEF Indexed

\* The invariants give TypeOK.
LEMMA TypeHolds ==
  ASSUME Core, Types
  PROVE  TypeOK
<1> PICK M : Whole(table, M)
  BY DEF Core, Ordered
<1> PICK N : N = table.count
  OBVIOUS
<1>1. /\ N \in Nat /\ table.args \in Seq(Answers) /\ Len(table.args) = N
      /\ table.next \in Seq(Nat) /\ Len(table.next) = N
  BY DEF Whole
<1>2. Nodes(table) = 1 .. N /\ Nodes(table) \cup {NULL} = 0 .. N
  BY <1>1 DEF Nodes, NULL
<1>3. /\ table.first \in 0 .. N /\ table.last \in 0 .. N
      /\ \A n \in 1 .. N : table.next[n] \in 0 .. N
  BY ONLY <1>1, Whole(table, M), N = table.count, NextIn
<1>4. table.next \in Seq(0 .. N)
  <2> PICK X : X = table.next
    OBVIOUS
  <2>1. X \in Seq(Nat) /\ Len(X) = N /\ \A n \in 1 .. N : X[n] \in 0 .. N
    BY <1>1, <1>3
  <2> PICK S : S = 0 .. N
    OBVIOUS
  <2>2. X \in Seq(S)
    BY ONLY <1>1, <2>1, S = 0 .. N
  <2> QED
    BY ONLY <2>2, X = table.next, S = 0 .. N
<1>5. /\ table.size \in Nat
      /\ \A b \in DOMAIN table.chains : table.chains[b] \subseteq 1 .. N
  <2>1. Indexed(table)
    BY DEF Core, Ordered
  <2>2. /\ DOMAIN table.chains = 0 .. table.size - 1
        /\ \A b \in 0 .. table.size - 1 : table.chains[b] \subseteq 1 .. N
    BY ONLY <2>1, N = table.count, IndexedRange
  <2> QED
    BY <2>1, <2>2 DEF Indexed
<1>6. decl.card /= NoLimit => N <= decl.card
  BY DEF Core, Ordered, Limited
<1>7. Frames(table) = [curr : Nodes(table) \cup {NULL}, got : Seq(Answers)]
  BY <1>2 DEF Frames
<1> QED
  BY <1>1, <1>2, <1>3, <1>4, <1>5, <1>6, <1>7 DEF TypeOK, Types, Core

\* The invariants give WellFormed.
LEMMA WellFormedHolds ==
  ASSUME Core, Types
  PROVE  WellFormed
<1> PICK M : Whole(table, M)
  BY DEF Core, Ordered
<1> PICK N : N = table.count
  OBVIOUS
<1>1. /\ N \in Nat /\ Len(table.args) = N /\ M \in Seq(1 .. N) /\ Len(M) = N
      /\ Listing(table) = M
      /\ \A x, y \in 1 .. N : M[x] = M[y] => x = y
      /\ table.last = IF N = 0 THEN NULL ELSE M[N]
  BY ONLY Whole(table, M), N = table.count, WholeIs
<1>2. DOMAIN M = 1 .. N
  BY <1>1
<1>3. ListIsWhole
  <2>1. IsInjective(Listing(table))
    BY <1>1, <1>2 DEF IsInjective
  <2>2. N > 0 => Last(Listing(table)) = table.last
    BY <1>1 DEF Last
  <2> QED
    BY <1>1, <2>1, <2>2 DEF ListIsWhole
<1>4. ChainsFindAll
  <2>1. Nodes(table) = 1 .. N
    BY <1>1 DEF Nodes
  <2> QED
    BY <2>1 DEF Core, Ordered, Indexed, ChainsFindAll
<1>5. SortedSet
  <2>1. Sorted(table.args, M)
    BY DEF Whole
  <2> QED
    BY ONLY <1>1, <1>2, <2>1 DEF Sorted, SortedSet
<1> QED
  BY <1>3, <1>4, <1>5, TypeHolds DEF WellFormed

\* Whatever answers come in whatever order, inserting, replacing, moving, dropping and growing
\* leave the table in order: the list goes through every record once, from the best to the worst,
\* and ends at LAST, and the hash chains find each.
THEOREM TablesAreWellFormed == Spec => []WellFormed
<1>1. Init => Core /\ Types
  BY CoreInit, TypesInit
<1>2. Core /\ Types /\ [Next]_vars => (Core /\ Types)'
  BY CoreStep, TypesNext
<1>3. Core /\ Types => WellFormed
  BY WellFormedHolds
<1> QED
  BY <1>1, <1>2, <1>3, PTL DEF Spec

-----------------------------------------------------------------------------
(* A follower that misses an answer calls for another round.               *)

\* n was returned by the frame or will be.
Covers(t, frame, n) ==
  n \in ToSet(ListFrom(t, frame.curr)) \/ t.args[n] \in ToSet(frame.got)

\* The records are the numbers up to COUNT.
LEMMA NodesAreCounted == Core => Nodes(table) = 1 .. table.count
BY CountIs DEF Core, Nodes

\* MissedMeansRevised in terms of Covers.
LEMMA MissedIs ==
  ASSUME Core
  PROVE  MissedMeansRevised <=>
           \/ revised
           \/ \A f \in 1 .. Len(followers) : \A n \in 1 .. table.count : Covers(table, followers[f], n)
BY NodesAreCounted DEF MissedMeansRevised, Covers

\* An answer that did not change the table changes no list.
LEMMA ListFromNext ==
  ASSUME NEW t, NEW u, u.args = t.args, u.next = t.next, NEW n
  PROVE  ListFrom(u, n) = ListFrom(t, n)
BY DEF ListFrom, Nodes

\* An answer that changes the table sets the bit.
LEMMA UnrevisedRejects ==
  ASSUME Core, NEW a \in Answers, NEW memory \in BOOLEAN, table_produce(a, memory), ~revised'
  PROVE  ~revised /\ Rejects(table, table', a)
<1>1. revised' = RevisedBy(table, table') /\ ~revised'
  BY DEF table_produce
<1>2. ~revised /\ ~(table'.count > table.count) /\ table'.args = table.args
  BY <1>1 DEF RevisedBy
<1>3. Rejects(table, table', a) \/ Grows(table, table', a) \/ Improves(table, table', a)
  BY ProducedIs
<1> PICK N : N = table.count
  OBVIOUS
<1> PICK f : f = table.args
  OBVIOUS
<1>4. N \in Nat /\ f \in Seq(Answers) /\ Len(f) = N /\ \A n \in 1 .. N : f[n] \in Answers
  BY CountIs DEF Core
<1>5. ~Grows(table, table', a)
  BY <1>2, <1>4 DEF Grows
<1>6. ASSUME Improves(table, table', a) PROVE FALSE
  <2> PICK w \in 1 .. N : f = Updated(f, w, a) /\ IsBetter(a, f[w])
    BY <1>2, <1>6 DEF Improves
  <2>1. f[w] = a
    <3>1. Updated(f, w, a)[w] = a
      BY ONLY <1>4, w \in 1 .. N DEF Updated
    <3> QED
      BY <3>1
  <2> QED
    BY <2>1, BetterIsOrder
<1> QED
  BY <1>2, <1>3, <1>5, <1>6

\* A step of a frame returns what it leaves behind.
LEMMA AdvanceCovers ==
  ASSUME Core, NEW frame \in Frames(table), frame.curr # NULL,
         NEW n \in 1 .. table.count, Covers(table, frame, n)
  PROVE  Covers(table, Advance(frame), n)
<1> PICK M : Whole(table, M)
  BY DEF Core, Ordered
<1> PICK N : N = table.count
  OBVIOUS
<1> PICK c : c = frame.curr
  OBVIOUS
<1>1. N \in Nat /\ c \in 1 .. N /\ frame.got \in Seq(Answers) /\ table.args[c] \in Answers
  BY CountIs DEF Core, Frames, NULL
<1>2. n \in ToSet(ListFrom(table, c)) <=> n = c \/ n \in ToSet(ListFrom(table, table.next[c]))
  BY ONLY <1>1, Whole(table, M), N = table.count, Ahead
<1> PICK g : g = frame.got
  OBVIOUS
<1> PICK a : a = table.args[c]
  OBVIOUS
<1>3. a \in ToSet(Append(g, a)) /\ \A y \in ToSet(g) : y \in ToSet(Append(g, a))
  <2>1. g \in Seq(Answers) /\ a \in Answers
    BY <1>1
  <2>2. /\ DOMAIN Append(g, a) = 1 .. Len(g) + 1 /\ DOMAIN g = 1 .. Len(g) /\ Len(g) \in Nat
        /\ Append(g, a)[Len(g) + 1] = a /\ \A i \in 1 .. Len(g) : Append(g, a)[i] = g[i]
    BY ONLY <2>1
  <2> PICK h : h = Append(g, a)
    OBVIOUS
  <2>3. /\ DOMAIN h = 1 .. Len(g) + 1 /\ DOMAIN g = 1 .. Len(g) /\ Len(g) \in Nat
        /\ h[Len(g) + 1] = a /\ \A i \in 1 .. Len(g) : h[i] = g[i]
    BY <2>2
  <2>4. a \in ToSet(h) /\ \A y \in ToSet(g) : y \in ToSet(h)
    BY ONLY <2>3 DEF ToSet
  <2> QED
    BY <2>4
<1>4. Advance(frame).curr = table.next[c] /\ Advance(frame).got = Append(g, a)
  BY DEF Advance
<1>5. n = c => table.args[n] = a
  OBVIOUS
<1> QED
  BY ONLY <1>2, <1>3, <1>4, <1>5, Covers(table, frame, n), c = frame.curr, g = frame.got DEF Covers

\* Every step keeps MissedMeansRevised: only an answer that changes the table can hide one from
\* a frame, and it sets the bit.
LEMMA MissedNext == Core /\ Core' /\ Types /\ MissedMeansRevised /\ [Next]_vars => MissedMeansRevised'
<1> SUFFICES ASSUME Core, Core', Types, MissedMeansRevised, [Next]_vars, ~revised'
             PROVE  (\A f \in 1 .. Len(followers) : \A n \in 1 .. table.count :
                       Covers(table, followers[f], n))'
  <2>1. Core' => (Nodes(table) = 1 .. table.count)'
    BY NodesAreCounted, PTL
  <2> QED
    BY <2>1 DEF MissedMeansRevised, Covers
<1>0. ~revised => \A f \in 1 .. Len(followers) : \A n \in 1 .. table.count :
                    Covers(table, followers[f], n)
  BY MissedIs
<1> PICK F : F = followers
  OBVIOUS
<1> PICK N : N = table.count
  OBVIOUS
<1>00. F \in Seq(Frames(table)) /\ N \in Nat
  BY CountIs DEF Types, Core
<1>1. ASSUME NEW a \in Answers, NEW memory \in BOOLEAN, table_produce(a, memory)
      PROVE  \A f \in 1 .. Len(followers') : \A n \in 1 .. table'.count :
               Covers(table', followers'[f], n)
  <2>1. ~revised /\ Rejects(table, table', a)
    BY <1>1, UnrevisedRejects
  <2>2. followers' = followers
    BY <1>1 DEF table_produce
  <2>3. table'.args = table.args /\ table'.next = table.next /\ table'.count = table.count
    BY <2>1 DEF Rejects
  <2>4. \A n : ListFrom(table', n) = ListFrom(table, n)
    BY ONLY <2>3, ListFromNext
  <2> QED
    BY <1>0, <2>1, <2>2, <2>3, <2>4 DEF Covers
<1>2. ASSUME table_allocate
      PROVE  \A f \in 1 .. Len(followers') : \A n \in 1 .. table'.count :
               Covers(table', followers'[f], n)
  <2> PICK M : Whole(table, M)
    BY DEF Core, Ordered
  <2> PICK d : d = Frame(table.first)
    OBVIOUS
  <2>1. ~revised /\ followers' = Append(F, d) /\ table' = table
    BY <1>2 DEF table_allocate
  <2>2. \A n \in 1 .. N : Covers(table, d, n)
    <3>1. 1 .. N \subseteq ToSet(ListFrom(table, table.first))
      BY ONLY <1>00, Whole(table, M), N = table.count, AheadOfFirst
    <3>2. d.curr = table.first
      BY DEF Frame
    <3> QED
      BY <3>1, <3>2 DEF Covers
  <2> PICK G : G = followers'
    OBVIOUS
  <2>3. /\ Len(F) \in Nat /\ Len(G) = Len(F) + 1 /\ G[Len(F) + 1] = d
        /\ \A f \in 1 .. Len(F) : G[f] = F[f]
    <3>1. d \in Frames(table)
      BY FirstIn DEF Core, Frame, Frames
    <3> QED
      BY ONLY <1>00, <2>1, <3>1, G = followers'
  <2>4. \A f \in 1 .. Len(G) : f = Len(F) + 1 \/ f \in 1 .. Len(F)
    BY <2>3
  <2> QED
    BY ONLY <1>0, <2>1, <2>2, <2>3, <2>4, G = followers', F = followers, N = table.count
<1>3. ASSUME table_consume
      PROVE  \A f \in 1 .. Len(followers') : \A n \in 1 .. table'.count :
               Covers(table', followers'[f], n)
  <2>1. /\ ~revised /\ F # <<>> /\ table' = table
        /\ followers' = IF F[Len(F)].curr = NULL THEN Front(F)
                        ELSE [F EXCEPT ![Len(F)] = Advance(@)]
    BY <1>3 DEF table_consume, TopFollower
  <2>2. Len(F) \in Nat /\ Len(F) \in 1 .. Len(F) /\ F[Len(F)] \in Frames(table)
    <3> PICK S : S = Frames(table)
      OBVIOUS
    <3>1. F \in Seq(S) /\ F # <<>>
      BY <1>00, <2>1
    <3> QED
      BY ONLY <3>1, S = Frames(table)
  <2> PICK G : G = followers'
    OBVIOUS
  <2>3. CASE F[Len(F)].curr = NULL
    <3>1. \A f \in 1 .. Len(G) : f \in 1 .. Len(F) /\ G[f] = F[f]
      <4>1. G = SubSeq(F, 1, Len(F) - 1)
        BY <2>1, <2>3 DEF Front
      <4> QED
        BY ONLY <1>00, <2>2, <4>1
    <3> QED
      BY ONLY <1>0, <2>1, <3>1, G = followers', F = followers, N = table.count
  <2>4. CASE F[Len(F)].curr # NULL
    <3> PICK d : d = Advance(F[Len(F)])
      OBVIOUS
    <3>1. \A n \in 1 .. N : Covers(table, d, n)
      BY <1>0, <2>1, <2>2, <2>4, AdvanceCovers
    <3>2. G = [F EXCEPT ![Len(F)] = d]
      BY <2>1, <2>4
    <3>3. Len(G) = Len(F) /\ \A f \in 1 .. Len(F) : G[f] = IF f = Len(F) THEN d ELSE F[f]
      BY ONLY <1>00, <2>2, <3>2
    <3> QED
      BY ONLY <1>0, <2>1, <3>1, <3>3, G = followers', F = followers, N = table.count
  <2> QED
    BY <2>3, <2>4
<1>4. ASSUME table_check_completion
      PROVE  \A f \in 1 .. Len(followers') : \A n \in 1 .. table'.count :
               Covers(table', followers'[f], n)
  <2>1. followers' = <<>>
    BY <1>4 DEF table_check_completion
  <2>2. \A f \in 1 .. Len(followers') : FALSE
    BY ONLY <2>1
  <2> QED
    BY <2>2
<1>5. ASSUME UNCHANGED <<table, revised, followers>>
      PROVE  \A f \in 1 .. Len(followers') : \A n \in 1 .. table'.count :
               Covers(table', followers'[f], n)
  BY <1>0, <1>5
<1>6. \A f \in 1 .. Len(followers') : \A n \in 1 .. table'.count : Covers(table', followers'[f], n)
  BY <1>1, <1>2, <1>3, <1>4, <1>5 DEF Next, vars, PioneerConsumes
<1> QED
  BY <1>6 DEF Covers

\* An answer that a follower does not get, whatever is inserted, moved or replaced while it walks
\* the list, sets the bit that makes the pioneer start another round.
THEOREM MissedAnswersAreTriedAgain == Spec => []MissedMeansRevised
<1>1. Init => Core /\ Types /\ MissedMeansRevised
  <2>1. ASSUME Init PROVE MissedMeansRevised
    <3>1. followers = <<>>
      BY <2>1 DEF Init
    <3>2. \A f \in 1 .. Len(followers) : FALSE
      BY ONLY <3>1
    <3> QED
      BY <3>2 DEF MissedMeansRevised
  <2> QED
    BY <2>1, CoreInit, TypesInit
<1>2. Core /\ Types /\ MissedMeansRevised /\ [Next]_vars => (Core /\ Types /\ MissedMeansRevised)'
  BY CoreStep, TypesNext, MissedNext
<1> QED
  BY <1>1, <1>2, PTL DEF Spec

-----------------------------------------------------------------------------
(* The pioneer returns the table.                                          *)

\* The frame has returned the answers before the k-th of the list and is at that one.
IsAt(t, M, frame, k) ==
  /\ frame.got = [i \in 1 .. k - 1 |-> t.args[M[i]]]
  /\ frame.curr = IF k <= t.count THEN M[k] ELSE NULL

PioneerStands ==
  /\ phase = "round" => pioneer.curr = table.first /\ pioneer.got = <<>>
  /\ phase # "round" => \E k \in 1 .. table.count + 1 : IsAt(table, Listing(table), pioneer, k)
  /\ phase = "done" => pioneer.curr = NULL

\* PioneerStands holds in the initial state.
LEMMA StandsInit == Init => PioneerStands
BY DEF Init, PioneerStands, Frame, Empty

\* A frame at the front that has returned nothing is at the first answer.
LEMMA StandsAtFirst ==
  ASSUME Core, NEW frame, frame.curr = table.first, frame.got = <<>>
  PROVE  \E k \in 1 .. table.count + 1 : IsAt(table, Listing(table), frame, k)
<1> PICK M : Whole(table, M)
  BY DEF Core, Ordered
<1> PICK N : N = table.count
  OBVIOUS
<1>1. /\ N \in Nat /\ Listing(table) = M
      /\ table.first = IF N = 0 THEN NULL ELSE M[1]
  BY ONLY Whole(table, M), N = table.count, WholeIs
<1>2. 1 \in 1 .. N + 1 /\ 1 .. 1 - 1 = {} /\ (1 <= N <=> N # 0)
  BY <1>1
<1>3. [i \in {} |-> table.args[M[i]]] = <<>>
  OBVIOUS
<1>4. frame.got = [i \in 1 .. 1 - 1 |-> table.args[M[i]]]
  BY <1>2, <1>3
<1>5. IsAt(table, M, frame, 1)
  BY <1>1, <1>2, <1>4 DEF IsAt
<1> QED
  BY <1>1, <1>2, <1>5

\* A frame at the k-th answer returns it and is at the next.
LEMMA StandsAdvance ==
  ASSUME Core, Types, pioneer.curr # NULL, NEW k \in 1 .. table.count + 1,
         IsAt(table, Listing(table), pioneer, k)
  PROVE  /\ k + 1 \in 1 .. table.count + 1
         /\ IsAt(table, Listing(table), Advance(pioneer), k + 1)
<1> PICK M : Whole(table, M)
  BY DEF Core, Ordered
<1> PICK N : N = table.count
  OBVIOUS
<1> PICK f : f = table.args
  OBVIOUS
<1> PICK g : g = pioneer.got
  OBVIOUS
<1>1. /\ N \in Nat /\ Listing(table) = M
      /\ \A x \in 1 .. N : table.next[M[x]] = IF x = N THEN NULL ELSE M[x + 1]
  BY ONLY Whole(table, M), N = table.count, WholeIs
<1>2. g = [i \in 1 .. k - 1 |-> f[M[i]]] /\ pioneer.curr = IF k <= N THEN M[k] ELSE NULL
  BY <1>1 DEF IsAt
<1>3. k \in 1 .. N /\ pioneer.curr = M[k]
  BY <1>1, <1>2
<1>4. g \in Seq(Answers) /\ f[M[k]] \in Answers
  <2>1. M[k] \in 1 .. N
    BY ONLY <1>3, Whole(table, M), N = table.count, WholeIs
  <2>2. table.args[M[k]] \in Answers
    BY <2>1, CountIs DEF Core
  <2> QED
    BY <2>2 DEF Types, Frames
<1>5. Append(g, f[M[k]]) = [i \in 1 .. (k + 1) - 1 |-> f[M[i]]]
  <2> PICK a : a = f[M[k]]
    OBVIOUS
  <2> PICK h : h = Append(g, a)
    OBVIOUS
  <2>1. DOMAIN g = 1 .. k - 1 /\ \A i \in 1 .. k - 1 : g[i] = f[M[i]]
    BY ONLY <1>2
  <2>2. Len(g) = k - 1
    BY ONLY <1>3, <1>4, <2>1
  <2>3. a \in Answers
    BY <1>4
  <2>4. /\ h \in Seq(Answers) /\ Len(h) = k /\ h[k] = a
        /\ \A i \in 1 .. k - 1 : h[i] = g[i]
    BY ONLY <1>3, <1>4, <2>2, <2>3, h = Append(g, a)
  <2>5. \A i \in 1 .. k : i = k \/ i \in 1 .. k - 1
    BY <1>3
  <2>6. \A i \in 1 .. k : h[i] = f[M[i]]
    BY ONLY <2>1, <2>4, <2>5, a = f[M[k]]
  <2>7. h = [i \in 1 .. k |-> h[i]]
    BY ONLY <1>3, <2>4
  <2>8. h = [i \in 1 .. k |-> f[M[i]]]
    BY ONLY <2>6, <2>7
  <2>9. (k + 1) - 1 = k
    BY <1>3
  <2> QED
    BY ONLY <2>8, <2>9, h = Append(g, a), a = f[M[k]]
<1>6. Advance(pioneer).got = Append(g, f[M[k]])
  BY <1>3 DEF Advance
<1>7. Advance(pioneer).curr = IF k + 1 <= N THEN M[k + 1] ELSE NULL
  <2>1. Advance(pioneer).curr = table.next[M[k]]
    BY <1>3 DEF Advance
  <2>2. k = N <=> ~(k + 1 <= N)
    BY <1>1, <1>3
  <2> QED
    BY ONLY <1>1, <1>3, <2>1, <2>2
<1>8. k + 1 \in 1 .. N + 1
  BY <1>1, <1>3
<1> QED
  BY <1>1, <1>5, <1>6, <1>7, <1>8 DEF IsAt

\* Every step keeps PioneerStands: in the round the cursor follows the front, after it the table
\* stands still.
LEMMA StandsStep == Core /\ Types /\ PioneerStands /\ [Next]_vars => PioneerStands'
<1> SUFFICES ASSUME Core, Types, PioneerStands, [Next]_vars PROVE PioneerStands'
  OBVIOUS
<1>1. ASSUME NEW a \in Answers, NEW memory \in BOOLEAN, table_produce(a, memory)
      PROVE  PioneerStands'
  <2>1. /\ phase = "round" /\ phase' = "round"
        /\ pioneer' = [pioneer EXCEPT !.curr = CursorAfter(table, table')]
    BY <1>1 DEF table_produce
  <2>2. table.count # 0 /\ (decl.opt = "none" \/ ~(table'.size > 0))
          => table'.first = table.first
    BY <1>1, ProducedIs
  <2>3. pioneer.curr = table.first /\ pioneer.got = <<>>
    BY <2>1 DEF PioneerStands
  <2>4. CursorAfter(table, table') = table'.first
    BY <2>2, <2>3 DEF CursorAfter
  <2>5. pioneer \in Frames(table)
    BY DEF Types
  <2>6. pioneer'.curr = table'.first /\ pioneer'.got = <<>>
    BY <2>1, <2>3, <2>4, <2>5 DEF Frames
  <2> QED
    BY <2>1, <2>6 DEF PioneerStands
<1>2. ASSUME UNCHANGED <<table, phase, pioneer>> PROVE PioneerStands'
  <2>1. (\E k \in 1 .. table.count + 1 : IsAt(table, Listing(table), pioneer, k))
          => (\E k \in 1 .. table.count + 1 : IsAt(table, Listing(table), pioneer, k))'
    <3>1. Listing(table)' = Listing(table)
      BY <1>2 DEF Listing, ListFrom, Nodes
    <3> QED
      BY <1>2, <3>1 DEF IsAt
  <2> QED
    BY <1>2, <2>1 DEF PioneerStands
<1>3. ASSUME table_check_completion PROVE PioneerStands'
  <2>1. /\ phase = "round" /\ table' = table /\ pioneer' = pioneer
        /\ phase' = phase \/ phase' = "return"
    BY <1>3 DEF table_check_completion, NextRound
  <2>2. pioneer.curr = table.first /\ pioneer.got = <<>>
    BY <2>1 DEF PioneerStands
  <2>3. \E k \in 1 .. table.count + 1 : IsAt(table, Listing(table), pioneer, k)
    BY <2>2, StandsAtFirst
  <2>4. (\E k \in 1 .. table.count + 1 : IsAt(table, Listing(table), pioneer, k))'
    <3>1. Listing(table)' = Listing(table)
      BY <2>1 DEF Listing, ListFrom, Nodes
    <3> QED
      BY <2>1, <2>3, <3>1 DEF IsAt
  <2> QED
    BY <2>1, <2>2, <2>4 DEF PioneerStands
<1>4. ASSUME PioneerConsumes PROVE PioneerStands'
  <2>1. phase = "return" /\ table' = table
    BY <1>4 DEF PioneerConsumes
  <2> PICK k \in 1 .. table.count + 1 : IsAt(table, Listing(table), pioneer, k)
    BY <2>1 DEF PioneerStands
  <2>2. \E j \in 1 .. table.count + 1 : IsAt(table, Listing(table), pioneer', j)
    <3>1. CASE pioneer.curr = NULL
      BY <1>4, <3>1 DEF PioneerConsumes
    <3>2. CASE pioneer.curr # NULL
      <4>1. pioneer' = Advance(pioneer)
        BY <1>4, <3>2 DEF PioneerConsumes
      <4>2. /\ k + 1 \in 1 .. table.count + 1
            /\ IsAt(table, Listing(table), Advance(pioneer), k + 1)
        BY <3>2, StandsAdvance
      <4> QED
        BY <4>1, <4>2
    <3> QED
      BY <3>1, <3>2
  <2>3. (\E j \in 1 .. table.count + 1 : IsAt(table, Listing(table), pioneer, j))'
    <3>1. Listing(table)' = Listing(table)
      BY <2>1 DEF Listing, ListFrom, Nodes
    <3> QED
      BY <2>1, <2>2, <3>1 DEF IsAt
  <2>4. phase' # "round" /\ (phase' = "done" => pioneer'.curr = NULL)
    BY <1>4, <2>1 DEF PioneerConsumes
  <2> QED
    BY <2>3, <2>4 DEF PioneerStands
<1> QED
  BY <1>1, <1>2, <1>3, <1>4 DEF Next, vars, table_allocate, table_consume

\* A frame that is past the last answer has returned all.
LEMMA StandsAtEnd == Core /\ PioneerStands => PioneerReturnsAll
<1> SUFFICES ASSUME Core, PioneerStands, phase = "done"
             PROVE  pioneer.got = [i \in 1 .. table.count |-> table.args[Listing(table)[i]]]
  BY DEF PioneerReturnsAll
<1> PICK M : Whole(table, M)
  BY DEF Core, Ordered
<1> PICK N : N = table.count
  OBVIOUS
<1>1. N \in Nat /\ Listing(table) = M /\ \A x \in 1 .. N : M[x] \in 1 .. N
  BY ONLY Whole(table, M), N = table.count, WholeIs
<1> PICK k \in 1 .. N + 1 : IsAt(table, M, pioneer, k)
  BY <1>1 DEF PioneerStands
<1>2. pioneer.curr = NULL
  BY DEF PioneerStands
<1>3. k - 1 = N
  BY <1>1, <1>2 DEF IsAt, NULL
<1> QED
  BY <1>1, <1>3 DEF IsAt

\* When the pioneer has returned its last answer it has returned the list from the front to the
\* end, each answer once, although every answer may have changed the front before it began.
THEOREM ThePioneerReturnsAll == Spec => []PioneerReturnsAll
<1>1. Init => Core /\ Types /\ PioneerStands
  BY CoreInit, TypesInit, StandsInit
<1>2. Core /\ Types /\ PioneerStands /\ [Next]_vars => (Core /\ Types /\ PioneerStands)'
  BY CoreStep, TypesNext, StandsStep
<1>3. Core /\ PioneerStands => PioneerReturnsAll
  BY StandsAtEnd
<1> QED
  BY <1>1, <1>2, <1>3, PTL DEF Spec
=============================================================================
