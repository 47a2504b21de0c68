---------------------------- MODULE LeastNumbers ----------------------------
(***************************************************************************)
(* Every set of natural numbers that is not empty has a least one: what    *)
(* the proofs use for induction, as the first number that fails; and what  *)
(* it says of a list that rows are taken out of.                           *)
(***************************************************************************)
EXTENDS Naturals, Sifting, WellFoundedInduction, TLAPS

LEMMA LeastNumber ==
  ASSUME NEW T \in SUBSET Nat, T # {}
  PROVE  \E m \in T : \A k \in T : m <= k
PROOF
<1> DEFINE R == {z \in Nat \X Nat : z[1] < z[2]}
<1>1. IsWellFoundedOn(R, Nat)
  BY NatLessThanWellFounded, Zenon DEF OpToRel
<1>2. PICK m \in T : \A k \in T : ~ (<<k, m>> \in R)
  <2> HIDE DEF R
  <2> QED
    BY <1>1, WFMin, Zenon
<1>3. ASSUME NEW k \in T, k < m
      PROVE  FALSE
  <2>1. <<k, m>> \in Nat \X Nat /\ <<k, m>>[1] < <<k, m>>[2]
    BY <1>3
  <2>2. <<k, m>> \in R
    BY <2>1, Zenon
  <2> QED
    BY <2>2, <1>2
<1> QED
  BY <1>3

\* A set of numbers up to n whose first number is in it, and with a number the
\* next, is all of them.
LEMMA StepByStep ==
  ASSUME NEW n \in Nat, NEW T \in SUBSET (0 .. n), 0 \in T,
         \A i \in 1 .. n : i - 1 \in T => i \in T
  PROVE  T = 0 .. n
<1> DEFINE Rest == 0 .. n \ T
<1> SUFFICES ASSUME Rest # {} PROVE FALSE
  OBVIOUS
<1>1. PICK m \in Rest : \A k \in Rest : m <= k
  <2>1. Rest \in SUBSET Nat
    OBVIOUS
  <2> HIDE DEF Rest
  <2> QED
    BY <2>1, LeastNumber
<1>2. m \in 1 .. n /\ m - 1 \in 0 .. n /\ ~(m <= m - 1)
  OBVIOUS
<1>3. m - 1 \in T
  BY <1>1, <1>2
<1> QED
  BY <1>2, <1>3

-----------------------------------------------------------------------------
\* f is the lists that sifting builds, from the first n rows.
Sifts(f, list, drop, n) ==
  f = [i \in 0 .. n |->
         IF i = 0 THEN <<>>
         ELSE IF list[i] \in drop THEN f[i - 1] ELSE Append(f[i - 1], list[i])]

LEMMA SiftDefined ==
  ASSUME NEW S, NEW list \in Seq(S), NEW drop
  PROVE  \E f : Sifts(f, list, drop, Len(list)) /\ Sift(list, drop) = f[Len(list)]
<1> DEFINE T == {n \in 0 .. Len(list) : \E f : Sifts(f, list, drop, n)}
<1>1. Len(list) \in Nat
  OBVIOUS
<1>2. 0 \in T
  <2>1. PICK f : f = [i \in 0 .. 0 |-> <<>>]
    OBVIOUS
  <2>2. Sifts(f, list, drop, 0)
    BY <2>1 DEF Sifts
  <2> QED
    BY <1>1, <2>2
<1>3. ASSUME NEW n \in 1 .. Len(list), n - 1 \in T
      PROVE  n \in T
  <2>1. PICK f : Sifts(f, list, drop, n - 1)
    BY <1>3
  <2>2. PICK g : g = [i \in 0 .. n |-> IF i = n THEN IF list[n] \in drop THEN f[n - 1] ELSE Append(f[n - 1], list[n])
                                       ELSE f[i]]
    OBVIOUS
  <2>3. ASSUME NEW i \in 0 .. n
        PROVE  g[i] = IF i = 0 THEN <<>>
                      ELSE IF list[i] \in drop THEN g[i - 1] ELSE Append(g[i - 1], list[i])
    <3>1. CASE i = n
      <4>1. n - 1 \in 0 .. n /\ n - 1 # n /\ n # 0
        OBVIOUS
      <4> QED
        BY <2>2, <3>1, <4>1
    <3>2. CASE i = 0
      <4>1. 0 # n /\ f[0] = <<>>
        BY <2>1 DEF Sifts
      <4> QED
        BY <2>2, <3>2, <4>1
    <3>3. CASE i # n /\ i # 0
      <4>1. i \in 0 .. n - 1 /\ i - 1 \in 0 .. n /\ i - 1 # n
        BY <3>3
      <4>2. g[i] = f[i] /\ g[i - 1] = f[i - 1]
        BY <2>2, <3>3, <4>1
      <4>3. f[i] = IF list[i] \in drop THEN f[i - 1] ELSE Append(f[i - 1], list[i])
        BY <2>1, <3>3, <4>1 DEF Sifts
      <4> QED
        BY <3>3, <4>2, <4>3
    <3> QED
      BY <3>1, <3>2, <3>3
  <2>4. g = [i \in 0 .. n |-> g[i]]
    BY <2>2
  <2>5. Sifts(g, list, drop, n)
    BY <2>3, <2>4 DEF Sifts
  <2> QED
    BY <1>1, <2>5
<1>4. T = 0 .. Len(list)
  <2> HIDE DEF T
  <2>1. T \in SUBSET (0 .. Len(list))
    BY DEF T
  <2> QED
    BY <1>1, <1>2, <1>3, <2>1, StepByStep
<1>5. \E f : Sifts(f, list, drop, Len(list))
  BY <1>1, <1>4
<1>6. PICK F : F = CHOOSE f : Sifts(f, list, drop, Len(list))
  OBVIOUS
<1>7. Sifts(F, list, drop, Len(list))
  BY <1>5, <1>6
<1>8. Sift(list, drop) = F[Len(list)]
  BY <1>6 DEF Sift, Sifts
<1> QED
  BY <1>7, <1>8

\* What is left of a list: the elements at the places g.
LeftOf(rest, list, drop, g, n) ==
  /\ rest \in Seq({list[i] : i \in 1 .. n}) /\ g \in [1 .. Len(rest) -> 1 .. n]
  /\ \A i, j \in 1 .. Len(rest) : g[i] = g[j] => i = j
  /\ \A i \in 1 .. Len(rest) : rest[i] = list[g[i]] /\ list[g[i]] \notin drop
  /\ \A k \in 1 .. n : list[k] \notin drop => \E i \in 1 .. Len(rest) : g[i] = k

LEMMA SiftLeaves ==
  ASSUME NEW S, NEW list \in Seq(S), NEW drop
  PROVE  /\ Sift(list, drop) \in Seq(S)
         /\ \E g : LeftOf(Sift(list, drop), list, drop, g, Len(list))
<1>1. PICK f : Sifts(f, list, drop, Len(list)) /\ Sift(list, drop) = f[Len(list)]
  BY SiftDefined
<1> DEFINE T == {n \in 0 .. Len(list) : \E g : LeftOf(f[n], list, drop, g, n)}
<1>2. Len(list) \in Nat
  OBVIOUS
<1>3. 0 \in T
  <2>1. f[0] = <<>>
    BY <1>1, <1>2 DEF Sifts
  <2>2. PICK g : g = [i \in 1 .. 0 |-> 0]
    OBVIOUS
  <2>3. LeftOf(<<>>, list, drop, g, 0)
    BY <2>2 DEF LeftOf
  <2> QED
    BY <1>2, <2>1, <2>3
<1>4. ASSUME NEW n \in 1 .. Len(list), n - 1 \in T
      PROVE  n \in T
  <2>1. PICK g : LeftOf(f[n - 1], list, drop, g, n - 1)
    BY <1>4
  <2>2. PICK rest : rest = f[n - 1]
    OBVIOUS
  <2>3. PICK m : m = Len(rest) /\ m \in Nat /\ rest \in Seq({list[i] : i \in 1 .. n - 1})
    <3>1. PICK U : U = {list[i] : i \in 1 .. n - 1}
      OBVIOUS
    <3>2. rest \in Seq(U)
      BY <2>1, <2>2, <3>1 DEF LeftOf
    <3>3. Len(rest) \in Nat
      BY <3>2
    <3> QED
      BY <3>1, <3>2, <3>3
  <2>4. f[n] = IF list[n] \in drop THEN rest ELSE Append(rest, list[n])
    <3>1. n \in 0 .. Len(list) /\ n # 0
      BY <1>2
    <3> QED
      BY <1>1, <2>2, <3>1 DEF Sifts
  <2>5. rest \in Seq({list[i] : i \in 1 .. n})
    <3>1. {list[i] : i \in 1 .. n - 1} \subseteq {list[i] : i \in 1 .. n}
      OBVIOUS
    <3> QED
      BY <2>3, <3>1
  <2>6. CASE list[n] \in drop
    <3>1. LeftOf(rest, list, drop, g, n)
      BY <2>1, <2>2, <2>5, <2>6 DEF LeftOf
    <3> QED
      BY <1>2, <2>4, <2>6, <3>1
  <2>7. CASE list[n] \notin drop
    <3>1. PICK all : all = Append(rest, list[n])
      OBVIOUS
    <3>2. /\ all \in Seq({list[i] : i \in 1 .. n}) /\ Len(all) = m + 1 /\ all[m + 1] = list[n]
          /\ \A i \in 1 .. m : all[i] = rest[i]
      <4>1. list[n] \in {list[i] : i \in 1 .. n}
        OBVIOUS
      <4> QED
        BY <2>3, <2>5, <3>1, <4>1
    <3>3. PICK e : e = [i \in 1 .. m + 1 |-> IF i = m + 1 THEN n ELSE g[i]]
      OBVIOUS
    <3>4. g \in [1 .. m -> 1 .. n - 1]
      BY <2>1, <2>2, <2>3 DEF LeftOf
    <3>5. e \in [1 .. m + 1 -> 1 .. n]
      BY <2>3, <3>3, <3>4
    <3>6. e[m + 1] = n /\ \A i \in 1 .. m : e[i] = g[i] /\ e[i] # n
      BY <2>3, <3>3, <3>4
    <3>7. \A i, j \in 1 .. m + 1 : e[i] = e[j] => i = j
      <4>1. \A i, j \in 1 .. m : g[i] = g[j] => i = j
        BY <2>1, <2>2, <2>3 DEF LeftOf
      <4>2. \A i \in 1 .. m + 1 : i = m + 1 \/ i \in 1 .. m
        BY <2>3
      <4> QED
        BY <3>6, <4>1, <4>2
    <3>8. \A i \in 1 .. m + 1 : all[i] = list[e[i]] /\ list[e[i]] \notin drop
      <4>1. \A i \in 1 .. m : rest[i] = list[g[i]] /\ list[g[i]] \notin drop
        BY <2>1, <2>2, <2>3 DEF LeftOf
      <4>2. \A i \in 1 .. m + 1 : i = m + 1 \/ i \in 1 .. m
        BY <2>3
      <4> QED
        BY <2>7, <3>2, <3>6, <4>1, <4>2
    <3>9. ASSUME NEW k \in 1 .. n, list[k] \notin drop PROVE \E i \in 1 .. m + 1 : e[i] = k
      <4>1. CASE k = n
        BY <2>3, <3>6, <4>1
      <4>2. CASE k # n
        <5>1. PICK i \in 1 .. m : g[i] = k
          BY <2>1, <2>2, <2>3, <3>9, <4>2 DEF LeftOf
        <5>2. i \in 1 .. m + 1 /\ e[i] = k
          BY <2>3, <3>6, <5>1
        <5> QED
          BY <5>2
      <4> QED
        BY <4>1, <4>2
    <3>10. LeftOf(all, list, drop, e, n)
      BY <3>2, <3>5, <3>7, <3>8, <3>9 DEF LeftOf
    <3>11. f[n] = all /\ n \in 0 .. Len(list)
      BY <1>2, <2>4, <2>7, <3>1
    <3> QED
      BY <3>10, <3>11
  <2> QED
    BY <2>6, <2>7
<1>5. T = 0 .. Len(list)
  <2> HIDE DEF T
  <2>1. T \in SUBSET (0 .. Len(list))
    BY DEF T
  <2> QED
    BY <1>2, <1>3, <1>4, <2>1, StepByStep
<1>6. \E g : LeftOf(Sift(list, drop), list, drop, g, Len(list))
  BY <1>1, <1>2, <1>5
<1>7. Sift(list, drop) \in Seq(S)
  <2>1. Sift(list, drop) \in Seq({list[i] : i \in 1 .. Len(list)})
    BY <1>6 DEF LeftOf
  <2>2. {list[i] : i \in 1 .. Len(list)} \subseteq S
    OBVIOUS
  <2> QED
    BY <2>1, <2>2
<1> QED
  BY <1>6, <1>7
=============================================================================
