----------------------------- MODULE SumTheorems -----------------------------
(***************************************************************************)
(* Induction on the naturals in a form the provers can use, and the sums   *)
(* of finite sequences of naturals. The induction theorems of the library  *)
(* have a predicate as a parameter; here the predicate is a set of         *)
(* naturals, and the principle is that a non-empty one has a least member. *)
(***************************************************************************)
EXTENDS Integers, Sequences, NaturalsInduction, WellFoundedInduction, TLAPS

\* A non-empty set of naturals has a least member.
LEMMA LeastMember ==
  ASSUME NEW T \in SUBSET Nat, T # {}
  PROVE  \E x \in T : \A y \in T : x <= y
<1> DEFINE R == {p \in Nat \X Nat : p[1] < p[2]}
<1>1. R = OpToRel(<, Nat)
  BY DEF OpToRel
<1>2. IsWellFoundedOn(R, Nat)
  BY <1>1, NatLessThanWellFounded
<1>3. PICK x \in T : \A y \in T : <<y, x>> \notin R
  <2> HIDE DEF R
  <2> QED
    BY <1>2, WFMin
<1>4. ASSUME NEW y \in T
      PROVE  x <= y
  <2>1. x \in Nat /\ y \in Nat /\ <<y, x>> \notin R
    BY <1>3
  <2>2. ~(y < x)
    BY <2>1
  <2> QED
    BY <2>1, <2>2
<1> QED
  BY <1>4

\* Induction: what 0 has, and every successor of a natural that has it, is
\* the whole of the naturals.
LEMMA SetInduction ==
  ASSUME NEW P \in SUBSET Nat, 0 \in P, \A n \in P : n + 1 \in P
  PROVE  P = Nat
<1> SUFFICES ASSUME Nat \ P # {}
             PROVE  FALSE
  OBVIOUS
<1>1. PICK x \in Nat \ P : \A y \in Nat \ P : x <= y
  <2>1. Nat \ P \in SUBSET Nat
    OBVIOUS
  <2> QED
    BY <2>1, LeastMember
<1>2. x # 0 /\ x \in Nat
  BY <1>1
<1>3. x - 1 \in Nat /\ ~(x <= x - 1)
  BY <1>2
<1>4. x - 1 \in P
  BY <1>1, <1>3
<1> QED
  BY <1>1, <1>2, <1>4
-----------------------------------------------------------------------------
\* The sums of the first members of s, as a function of their number.
IsPartialSum(sum, s) ==
  sum = [k \in 0 .. Len(s) |-> IF k = 0 THEN 0 ELSE sum[k - 1] + s[k]]

PartialSums(s) == CHOOSE sum : IsPartialSum(sum, s)
SumOf(s) == PartialSums(s)[Len(s)]

\* Every sequence of naturals has its partial sums.
LEMMA PartialSumsExist ==
  ASSUME NEW s \in Seq(Nat)
  PROVE  \E sum \in [0 .. Len(s) -> Nat] : IsPartialSum(sum, s)
<1> DEFINE Upto(n, g) == g[0] = 0 /\ \A k \in 1 .. n : g[k] = g[k - 1] + s[k]
           P == {n \in Nat : n <= Len(s) => \E g \in [0 .. n -> Nat] : Upto(n, g)}
<1>1. Len(s) \in Nat /\ \A k \in 1 .. Len(s) : s[k] \in Nat
  OBVIOUS
<1>2. 0 \in P
  <2>1. [k \in 0 .. 0 |-> 0] \in [0 .. 0 -> Nat] /\ Upto(0, [k \in 0 .. 0 |-> 0])
    OBVIOUS
  <2> QED
    BY <2>1
<1>3. ASSUME NEW n \in P
      PROVE  n + 1 \in P
  <2>1. n \in Nat /\ n + 1 \in Nat
    OBVIOUS
  <2> SUFFICES ASSUME n + 1 <= Len(s)
               PROVE  \E g \in [0 .. n + 1 -> Nat] : Upto(n + 1, g)
    BY <2>1
  <2>0. \E g \in [0 .. n -> Nat] : Upto(n, g)
    <3>1. n <= Len(s)
      BY <1>1, <2>1
    <3> QED
      BY <3>1, Zenon
  <2>2. PICK g \in [0 .. n -> Nat] : Upto(n, g)
    BY <2>0, Zenon
  <2> DEFINE h == [k \in 0 .. n + 1 |-> IF k = n + 1 THEN g[n] + s[k] ELSE g[k]]
  <2>3. g[n] \in Nat /\ s[n + 1] \in Nat
    BY <1>1, <2>1, <2>2
  <2>4. ASSUME NEW k \in 0 .. n + 1
        PROVE  h[k] \in Nat
    BY <2>1, <2>2, <2>3
  <2>5. h \in [0 .. n + 1 -> Nat]
    BY <2>4
  <2>6. h[0] = 0
    BY <2>1, <2>2
  <2>7. ASSUME NEW k \in 1 .. n + 1
        PROVE  h[k] = h[k - 1] + s[k]
    <3>1. CASE k = n + 1
      BY <2>1, <3>1
    <3>2. CASE k # n + 1
      <4>1. k \in 1 .. n /\ k \in 0 .. n + 1 /\ k - 1 \in 0 .. n + 1 /\ k - 1 # n + 1
        BY <2>1, <3>2
      <4> QED
        BY <2>2, <3>2, <4>1
    <3> QED
      BY <3>1, <3>2
  <2> QED
    BY <2>5, <2>6, <2>7
<1>4. P = Nat
  <2>1. P \in SUBSET Nat
    OBVIOUS
  <2> HIDE DEF P
  <2> QED
    BY <1>2, <1>3, <2>1, SetInduction
<1>5. PICK g \in [0 .. Len(s) -> Nat] : Upto(Len(s), g)
  <2>1. Len(s) \in P
    BY <1>1, <1>4, Zenon
  <2>2. Len(s) <= Len(s)
    BY <1>1
  <2> QED
    BY <2>1, <2>2, Zenon
<1>6. \A k \in 0 .. Len(s) : g[k] = IF k = 0 THEN 0 ELSE g[k - 1] + s[k]
  BY <1>1, <1>5
<1> QED
  BY <1>5, <1>6 DEF IsPartialSum

\* The partial sums of a sequence, step by step.
LEMMA PartialSumSteps ==
  ASSUME NEW s \in Seq(Nat)
  PROVE  /\ Len(s) \in Nat /\ SumOf(s) = PartialSums(s)[Len(s)]
         /\ PartialSums(s)[0] = 0
         /\ \A k \in 0 .. Len(s) : PartialSums(s)[k] \in Nat
         /\ \A k \in 1 .. Len(s) : PartialSums(s)[k] = PartialSums(s)[k - 1] + s[k]
<1> DEFINE h == PartialSums(s)
<1>1. IsPartialSum(h, s)
  BY PartialSumsExist DEF PartialSums
<1> HIDE DEF h
<1>2. Len(s) \in Nat /\ \A k \in 1 .. Len(s) : s[k] \in Nat
  OBVIOUS
<1>3. h = [k \in 0 .. Len(s) |-> IF k = 0 THEN 0 ELSE h[k - 1] + s[k]]
  BY <1>1 DEF IsPartialSum
<1>4. h[0] = 0 /\ \A k \in 1 .. Len(s) : h[k] = h[k - 1] + s[k]
  BY <1>2, <1>3
<1> DEFINE P == {n \in Nat : n <= Len(s) => h[n] \in Nat}
<1>5. 0 \in P
  BY <1>4
<1>6. ASSUME NEW n \in P
      PROVE  n + 1 \in P
  <2>1. n \in Nat
    OBVIOUS
  <2> SUFFICES ASSUME n + 1 <= Len(s)
               PROVE  h[n + 1] \in Nat
    BY <2>1
  <2>2. n <= Len(s) /\ n + 1 \in 1 .. Len(s) /\ (n + 1) - 1 = n
    BY <1>2, <2>1
  <2>3. h[n] \in Nat
    BY <2>2
  <2>4. h[n + 1] = h[n] + s[n + 1] /\ s[n + 1] \in Nat
    BY <1>2, <1>4, <2>2
  <2> QED
    BY <2>3, <2>4
<1>7. P = Nat
  <2>1. P \in SUBSET Nat
    OBVIOUS
  <2> HIDE DEF P
  <2> QED
    BY <1>5, <1>6, <2>1, SetInduction
<1>8. \A k \in 0 .. Len(s) : h[k] \in Nat
  BY <1>2, <1>7
<1> QED
  BY <1>2, <1>4, <1>8 DEF h, SumOf

\* A sum of naturals is a natural, and none of its partial sums is larger.
LEMMA PartialIsLess ==
  ASSUME NEW s \in Seq(Nat), NEW m \in 0 .. Len(s)
  PROVE  SumOf(s) \in Nat /\ PartialSums(s)[m] <= SumOf(s)
<1> DEFINE h == PartialSums(s)
           P == {n \in Nat : m + n <= Len(s) => h[m] <= h[m + n]}
<1>1. /\ Len(s) \in Nat /\ SumOf(s) = h[Len(s)] /\ h[0] = 0
      /\ \A k \in 0 .. Len(s) : h[k] \in Nat
      /\ \A k \in 1 .. Len(s) : h[k] = h[k - 1] + s[k] /\ s[k] \in Nat
  BY PartialSumSteps
<1> HIDE DEF h
<1>2. m \in Nat /\ h[m] \in Nat
  BY <1>1
<1>3. 0 \in P
  BY <1>2
<1>4. ASSUME NEW n \in P
      PROVE  n + 1 \in P
  <2>1. n \in Nat /\ (m + n <= Len(s) => h[m] <= h[m + n])
    OBVIOUS
  <2> SUFFICES ASSUME m + (n + 1) <= Len(s)
               PROVE  h[m] <= h[m + (n + 1)]
    BY <2>1
  <2>2. m + (n + 1) \in 1 .. Len(s) /\ (m + (n + 1)) - 1 = m + n /\ m + n \in 0 .. Len(s)
    BY <1>1, <1>2, <2>1
  <2>3. h[m + (n + 1)] = h[m + n] + s[m + (n + 1)] /\ s[m + (n + 1)] \in Nat
    BY <1>1, <2>2
  <2>4. h[m + n] \in Nat
    BY <1>1, <2>2
  <2> QED
    BY <1>1, <1>2, <2>1, <2>2, <2>3, <2>4
<1>5. P = Nat
  <2>1. P \in SUBSET Nat
    OBVIOUS
  <2> HIDE DEF P
  <2> QED
    BY <1>3, <1>4, <2>1, SetInduction
<1>6. Len(s) - m \in P /\ m + (Len(s) - m) = Len(s)
  <2>1. Len(s) - m \in Nat /\ m + (Len(s) - m) = Len(s)
    BY <1>1, <1>2
  <2> QED
    BY <1>5, <2>1, Zenon
<1>7. Len(s) \in 0 .. Len(s)
  BY <1>1
<1> QED
  BY <1>1, <1>6, <1>7 DEF h

\* Larger members, a larger sum.
LEMMA SumMonotone ==
  ASSUME NEW s \in Seq(Nat), NEW t \in Seq(Nat), Len(s) = Len(t),
         \A k \in 1 .. Len(s) : s[k] <= t[k]
  PROVE  SumOf(s) <= SumOf(t)
<1> DEFINE g == PartialSums(s)
           h == PartialSums(t)
           P == {n \in Nat : n <= Len(s) => g[n] <= h[n]}
<1>1. /\ Len(s) \in Nat /\ SumOf(s) = g[Len(s)] /\ g[0] = 0
      /\ \A k \in 0 .. Len(s) : g[k] \in Nat
      /\ \A k \in 1 .. Len(s) : g[k] = g[k - 1] + s[k] /\ s[k] \in Nat
  BY PartialSumSteps
<1>2. /\ SumOf(t) = h[Len(s)] /\ h[0] = 0
      /\ \A k \in 0 .. Len(s) : h[k] \in Nat
      /\ \A k \in 1 .. Len(s) : h[k] = h[k - 1] + t[k] /\ t[k] \in Nat
  <2>1. /\ SumOf(t) = h[Len(t)] /\ h[0] = 0
        /\ \A k \in 0 .. Len(t) : h[k] \in Nat
        /\ \A k \in 1 .. Len(t) : h[k] = h[k - 1] + t[k]
    BY PartialSumSteps
  <2>2. \A k \in 1 .. Len(t) : t[k] \in Nat
    OBVIOUS
  <2> HIDE DEF h
  <2> QED
    BY <2>1, <2>2
<1> HIDE DEF g, h
<1>3. 0 \in P
  BY <1>1, <1>2
<1>4. ASSUME NEW n \in P
      PROVE  n + 1 \in P
  <2>1. n \in Nat
    OBVIOUS
  <2> SUFFICES ASSUME n + 1 <= Len(s)
               PROVE  g[n + 1] <= h[n + 1]
    BY <2>1
  <2>2. n <= Len(s) /\ n \in 0 .. Len(s) /\ n + 1 \in 1 .. Len(s) /\ (n + 1) - 1 = n
    BY <1>1, <2>1
  <2>3. g[n] <= h[n] /\ g[n] \in Nat /\ h[n] \in Nat
    BY <1>1, <1>2, <2>2
  <2>4. /\ g[n + 1] = g[n] + s[n + 1] /\ h[n + 1] = h[n] + t[n + 1]
        /\ s[n + 1] \in Nat /\ t[n + 1] \in Nat /\ s[n + 1] <= t[n + 1]
    BY <1>1, <1>2, <2>2
  <2> QED
    BY <2>3, <2>4
<1>5. P = Nat
  <2>1. P \in SUBSET Nat
    OBVIOUS
  <2> HIDE DEF P
  <2> QED
    BY <1>3, <1>4, <2>1, SetInduction
<1>6. Len(s) \in P
  BY <1>1, <1>5, Zenon
<1>7. Len(s) <= Len(s)
  BY <1>1
<1> QED
  BY <1>1, <1>2, <1>6, <1>7

\* One member changed: the sum changes by as much.
LEMMA SumChanged ==
  ASSUME NEW s \in Seq(Nat), NEW t \in Seq(Nat), Len(s) = Len(t),
         NEW j \in 1 .. Len(s), \A k \in 1 .. Len(s) : k # j => s[k] = t[k]
  PROVE  SumOf(s) + t[j] = SumOf(t) + s[j]
<1> DEFINE g == PartialSums(s)
           h == PartialSums(t)
           P == {n \in Nat : n <= Len(s) =>
                   g[n] + (IF j <= n THEN t[j] ELSE 0) = h[n] + (IF j <= n THEN s[j] ELSE 0)}
<1>1. /\ Len(s) \in Nat /\ SumOf(s) = g[Len(s)] /\ g[0] = 0
      /\ \A k \in 0 .. Len(s) : g[k] \in Nat
      /\ \A k \in 1 .. Len(s) : g[k] = g[k - 1] + s[k] /\ s[k] \in Nat
  BY PartialSumSteps
<1>2. /\ SumOf(t) = h[Len(s)] /\ h[0] = 0
      /\ \A k \in 0 .. Len(s) : h[k] \in Nat
      /\ \A k \in 1 .. Len(s) : h[k] = h[k - 1] + t[k] /\ t[k] \in Nat
  <2>1. /\ SumOf(t) = h[Len(t)] /\ h[0] = 0
        /\ \A k \in 0 .. Len(t) : h[k] \in Nat
        /\ \A k \in 1 .. Len(t) : h[k] = h[k - 1] + t[k]
    BY PartialSumSteps
  <2>2. \A k \in 1 .. Len(t) : t[k] \in Nat
    OBVIOUS
  <2> HIDE DEF h
  <2> QED
    BY <2>1, <2>2
<1> HIDE DEF g, h
<1>3. 0 \in P
  <2>1. ~(j <= 0)
    BY <1>1
  <2> QED
    BY <1>1, <1>2, <2>1
<1>4. ASSUME NEW n \in P
      PROVE  n + 1 \in P
  <2>1. n \in Nat
    OBVIOUS
  <2> SUFFICES ASSUME n + 1 <= Len(s)
               PROVE  g[n + 1] + (IF j <= n + 1 THEN t[j] ELSE 0)
                        = h[n + 1] + (IF j <= n + 1 THEN s[j] ELSE 0)
    BY <2>1
  <2>2. n <= Len(s) /\ n \in 0 .. Len(s) /\ n + 1 \in 1 .. Len(s) /\ (n + 1) - 1 = n
    BY <1>1, <2>1
  <2>3. /\ g[n] + (IF j <= n THEN t[j] ELSE 0) = h[n] + (IF j <= n THEN s[j] ELSE 0)
        /\ g[n] \in Nat /\ h[n] \in Nat
    BY <1>1, <1>2, <2>2
  <2>4. /\ g[n + 1] = g[n] + s[n + 1] /\ h[n + 1] = h[n] + t[n + 1]
        /\ s[n + 1] \in Nat /\ t[n + 1] \in Nat /\ (n + 1 # j => s[n + 1] = t[n + 1])
    BY <1>1, <1>2, <2>2
  <2>5. s[j] \in Nat /\ t[j] \in Nat /\ j \in Nat
    BY <1>1, <1>2
  <2>6. CASE n + 1 = j
    <3>1. ~(j <= n) /\ j <= n + 1
      BY <2>1, <2>5, <2>6
    <3>2. g[n] = h[n]
      BY <2>3, <3>1
    <3>3. g[j] = g[n] + s[j] /\ h[j] = h[n] + t[j]
      BY <2>4, <2>6
    <3>4. g[j] + t[j] = h[j] + s[j]
      BY <2>3, <2>5, <3>2, <3>3
    <3>5. (IF j <= n + 1 THEN t[j] ELSE 0) = t[j] /\ (IF j <= n + 1 THEN s[j] ELSE 0) = s[j]
      BY <3>1, Zenon
    <3>6. g[n + 1] = g[j] /\ h[n + 1] = h[j]
      BY <2>6, Zenon
    <3> QED
      BY <3>4, <3>5, <3>6
  <2>7. CASE n + 1 # j
    <3>1. (j <= n + 1) = (j <= n)
      BY <2>1, <2>5, <2>7
    <3>2. CASE j <= n
      <4>1. g[n] + t[j] = h[n] + s[j]
        BY <2>3, <3>2
      <4>2. g[n + 1] + t[j] = h[n + 1] + s[j]
        <5>1. g[n] \in Nat /\ h[n] \in Nat /\ s[j] \in Nat /\ t[j] \in Nat /\ s[n + 1] \in Nat
          BY <2>3, <2>4, <2>5, Zenon
        <5>2. g[n + 1] = g[n] + s[n + 1] /\ h[n + 1] = h[n] + s[n + 1]
          BY <2>4, <2>7, Zenon
        <5>3. (g[n] + t[j]) + s[n + 1] = (h[n] + s[j]) + s[n + 1]
          BY <4>1, Zenon
        <5>4. \A a, b, c \in Nat : (a + b) + c = (a + c) + b
          OBVIOUS
        <5>5. (g[n] + t[j]) + s[n + 1] = (g[n] + s[n + 1]) + t[j]
          BY <5>1, <5>4, Zenon
        <5>6. (h[n] + s[j]) + s[n + 1] = (h[n] + s[n + 1]) + s[j]
          BY <5>1, <5>4, Zenon
        <5> QED
          BY <5>2, <5>3, <5>5, <5>6, Zenon
      <4> QED
        BY <3>1, <3>2, <4>2
    <3>3. CASE ~(j <= n)
      BY <2>3, <2>4, <2>5, <2>7, <3>1, <3>3
    <3> QED
      BY <3>2, <3>3
  <2> QED
    BY <2>6, <2>7
<1>5. P = Nat
  <2>1. P \in SUBSET Nat
    OBVIOUS
  <2> HIDE DEF P
  <2> QED
    BY <1>3, <1>4, <2>1, SetInduction
<1>6. Len(s) \in P
  BY <1>1, <1>5, Zenon
<1>7. Len(s) <= Len(s) /\ j <= Len(s)
  BY <1>1
<1> QED
  BY <1>1, <1>2, <1>6, <1>7

\* Members laid side by side from 0 on: the sum is where the last one ends.
LEMMA SumTelescopes ==
  ASSUME NEW s \in Seq(Nat), NEW start \in [1 .. Len(s) -> Nat], Len(s) # 0,
         start[1] = 0, \A k \in 1 .. Len(s) - 1 : start[k + 1] = start[k] + s[k]
  PROVE  SumOf(s) = start[Len(s)] + s[Len(s)]
<1> DEFINE g == PartialSums(s)
           P == {n \in Nat : n + 1 <= Len(s) => g[n] = start[n + 1]}
<1>1. /\ Len(s) \in Nat /\ SumOf(s) = g[Len(s)] /\ g[0] = 0
      /\ \A k \in 0 .. Len(s) : g[k] \in Nat
      /\ \A k \in 1 .. Len(s) : g[k] = g[k - 1] + s[k] /\ s[k] \in Nat
  BY PartialSumSteps
<1> HIDE DEF g
<1>3. 0 \in P
  BY <1>1
<1>4. ASSUME NEW n \in P
      PROVE  n + 1 \in P
  <2>1. n \in Nat
    OBVIOUS
  <2> SUFFICES ASSUME (n + 1) + 1 <= Len(s)
               PROVE  g[n + 1] = start[(n + 1) + 1]
    BY <2>1
  <2>2. n + 1 <= Len(s) /\ n + 1 \in 1 .. Len(s) - 1 /\ n + 1 \in 1 .. Len(s) /\ (n + 1) - 1 = n
    BY <1>1, <2>1
  <2>3. g[n] = start[n + 1]
    BY <2>2
  <2>4. g[n + 1] = g[n] + s[n + 1]
    BY <1>1, <2>2
  <2>5. start[(n + 1) + 1] = start[n + 1] + s[n + 1]
    BY <2>2
  <2> QED
    BY <2>3, <2>4, <2>5
<1>5. P = Nat
  <2>1. P \in SUBSET Nat
    OBVIOUS
  <2> HIDE DEF P
  <2> QED
    BY <1>3, <1>4, <2>1, SetInduction
<1>6. Len(s) - 1 \in Nat /\ (Len(s) - 1) + 1 = Len(s) /\ Len(s) \in 1 .. Len(s)
  BY <1>1
<1>7. Len(s) - 1 \in P
  BY <1>5, <1>6, Zenon
<1>8. g[Len(s) - 1] = start[Len(s)]
  BY <1>1, <1>6, <1>7
<1> QED
  BY <1>1, <1>6, <1>8

\* The sum of a beginning of a sequence is one of its partial sums.
LEMMA SumPrefix ==
  ASSUME NEW s \in Seq(Nat), NEW t \in Seq(Nat), Len(t) <= Len(s),
         \A k \in 1 .. Len(t) : t[k] = s[k]
  PROVE  SumOf(t) = PartialSums(s)[Len(t)] /\ SumOf(t) <= SumOf(s)
<1> DEFINE g == PartialSums(s)
           h == PartialSums(t)
           P == {n \in Nat : n <= Len(t) => g[n] = h[n]}
<1>1. /\ Len(s) \in Nat /\ SumOf(s) = g[Len(s)] /\ g[0] = 0
      /\ \A k \in 1 .. Len(s) : g[k] = g[k - 1] + s[k]
  BY PartialSumSteps
<1>2. /\ Len(t) \in Nat /\ SumOf(t) = h[Len(t)] /\ h[0] = 0
      /\ \A k \in 1 .. Len(t) : h[k] = h[k - 1] + t[k]
  BY PartialSumSteps
<1> HIDE DEF g, h
<1>3. 0 \in P
  BY <1>1, <1>2
<1>4. ASSUME NEW n \in P
      PROVE  n + 1 \in P
  <2>1. n \in Nat
    OBVIOUS
  <2> SUFFICES ASSUME n + 1 <= Len(t)
               PROVE  g[n + 1] = h[n + 1]
    BY <2>1
  <2>2. /\ n <= Len(t) /\ n + 1 \in 1 .. Len(t) /\ n + 1 \in 1 .. Len(s) /\ (n + 1) - 1 = n
    BY <1>1, <1>2, <2>1
  <2>3. g[n] = h[n]
    BY <2>2
  <2>4. g[n + 1] = g[n] + s[n + 1] /\ h[n + 1] = h[n] + t[n + 1] /\ t[n + 1] = s[n + 1]
    BY <1>1, <1>2, <2>2
  <2> QED
    BY <2>3, <2>4
<1>5. P = Nat
  <2>1. P \in SUBSET Nat
    OBVIOUS
  <2> HIDE DEF P
  <2> QED
    BY <1>3, <1>4, <2>1, SetInduction
<1>6. Len(t) \in P
  BY <1>2, <1>5, Zenon
<1>7. Len(t) <= Len(t) /\ Len(t) \in 0 .. Len(s)
  BY <1>1, <1>2
<1>8. SumOf(t) = g[Len(t)]
  BY <1>2, <1>6, <1>7
<1>9. g[Len(t)] <= SumOf(s)
  BY <1>7, PartialIsLess DEF g
<1> QED
  BY <1>8, <1>9 DEF g

\* Nothing to add: the sum is 0.
LEMMA SumZero ==
  ASSUME NEW s \in Seq(Nat), \A k \in 1 .. Len(s) : s[k] = 0
  PROVE  SumOf(s) = 0
<1> DEFINE g == PartialSums(s)
           P == {n \in Nat : n <= Len(s) => g[n] = 0}
<1>1. /\ Len(s) \in Nat /\ SumOf(s) = g[Len(s)] /\ g[0] = 0
      /\ \A k \in 1 .. Len(s) : g[k] = g[k - 1] + s[k]
  BY PartialSumSteps
<1> HIDE DEF g
<1>2. 0 \in P
  BY <1>1
<1>3. ASSUME NEW n \in P
      PROVE  n + 1 \in P
  <2>1. n \in Nat
    OBVIOUS
  <2> SUFFICES ASSUME n + 1 <= Len(s)
               PROVE  g[n + 1] = 0
    BY <2>1
  <2>2. n <= Len(s) /\ n + 1 \in 1 .. Len(s) /\ (n + 1) - 1 = n
    BY <1>1, <2>1
  <2>3. g[n] = 0 /\ g[n + 1] = g[n] + s[n + 1] /\ s[n + 1] = 0
    BY <1>1, <2>2
  <2> QED
    BY <2>3
<1>4. P = Nat
  <2>1. P \in SUBSET Nat
    OBVIOUS
  <2> HIDE DEF P
  <2> QED
    BY <1>2, <1>3, <2>1, SetInduction
<1>5. Len(s) \in P
  BY <1>1, <1>4, Zenon
<1>6. Len(s) <= Len(s)
  BY <1>1
<1> QED
  BY <1>1, <1>5, <1>6

\* A recursive function with the steps of the partial sums ends in the sum.
LEMMA SumUnique ==
  ASSUME NEW s \in Seq(Nat), NEW sum, IsPartialSum(sum, s)
  PROVE  sum[Len(s)] = SumOf(s)
<1> DEFINE g == PartialSums(s)
           P == {n \in Nat : n <= Len(s) => g[n] = sum[n]}
<1>1. /\ Len(s) \in Nat /\ SumOf(s) = g[Len(s)] /\ g[0] = 0
      /\ \A k \in 1 .. Len(s) : g[k] = g[k - 1] + s[k]
  BY PartialSumSteps
<1> HIDE DEF g
<1>2. sum[0] = 0 /\ \A k \in 1 .. Len(s) : sum[k] = sum[k - 1] + s[k]
  <2>1. sum = [k \in 0 .. Len(s) |-> IF k = 0 THEN 0 ELSE sum[k - 1] + s[k]]
    BY DEF IsPartialSum
  <2> QED
    BY <1>1, <2>1
<1>3. 0 \in P
  BY <1>1, <1>2
<1>4. ASSUME NEW n \in P
      PROVE  n + 1 \in P
  <2>1. n \in Nat
    OBVIOUS
  <2> SUFFICES ASSUME n + 1 <= Len(s)
               PROVE  g[n + 1] = sum[n + 1]
    BY <2>1
  <2>2. n <= Len(s) /\ n + 1 \in 1 .. Len(s) /\ (n + 1) - 1 = n
    BY <1>1, <2>1
  <2>3. g[n] = sum[n]
    BY <2>2
  <2>4. g[n + 1] = g[n] + s[n + 1] /\ sum[n + 1] = sum[n] + s[n + 1]
    BY <1>1, <1>2, <2>2
  <2> QED
    BY <2>3, <2>4
<1>5. P = Nat
  <2>1. P \in SUBSET Nat
    OBVIOUS
  <2> HIDE DEF P
  <2> QED
    BY <1>3, <1>4, <2>1, SetInduction
<1>6. Len(s) \in P
  BY <1>1, <1>5, Zenon
<1>7. Len(s) <= Len(s)
  BY <1>1
<1> QED
  BY <1>1, <1>6, <1>7
=============================================================================
