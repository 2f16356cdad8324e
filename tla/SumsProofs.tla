----------------------------- MODULE SumsProofs -----------------------------
(***************************************************************************)
(* Facts about running totals and about sums of functions.  The library's  *)
(* induction theorems take an operator as parameter, which the provers     *)
(* cannot instantiate; induction is therefore stated here about a set,     *)
(* from the fact that every nonempty set of naturals has a least element.  *)
(***************************************************************************)
EXTENDS Sums, Functions, WellFoundedInduction, FiniteSetTheorems, TLAPS

\* Every nonempty set of naturals has a least element.
LEMMA LeastNat ==
  ASSUME NEW T \in SUBSET Nat, T # {}
  PROVE  \E x \in T : \A y \in T : x <= y
<1> DEFINE R == OpToRel(<, Nat)
<1>1. IsWellFoundedOn(R, Nat)
  BY NatLessThanWellFounded
<1>2. \E x \in T : \A y \in T : ~ (<<y, x>> \in R)
  <2> HIDE DEF R
  <2> QED BY <1>1, WFMin
<1>3. \A x, y \in Nat : y < x => <<y, x>> \in R
  BY DEF OpToRel
<1>4. PICK x \in T : \A y \in T : ~ (<<y, x>> \in R)
  BY <1>2
<1>5. ASSUME NEW y \in T PROVE x <= y
  <2>1. x \in Nat /\ y \in Nat
    OBVIOUS
  <2>2. ~(y < x)
    BY <1>3, <1>4, <2>1, Zenon
  <2> QED BY <2>1, <2>2
<1> QED BY <1>5

\* Induction over the naturals, as a closure property of a set.
LEMMA NatSetInduction ==
  ASSUME NEW S, 0 \in S, \A n \in Nat : n \in S => n + 1 \in S
  PROVE  \A n \in Nat : n \in S
<1> SUFFICES ASSUME NEW k \in Nat, k \notin S PROVE FALSE
  OBVIOUS
<1> DEFINE T == {n \in Nat : n \notin S}
<1>1. PICK m \in T : \A y \in T : m <= y
  <2>1. T \in SUBSET Nat /\ T # {}
    OBVIOUS
  <2> HIDE DEF T
  <2> QED BY <2>1, LeastNat
<1>2. m # 0 /\ m \in Nat /\ m \notin S
  BY <1>1
<1>3. m - 1 \in Nat /\ m - 1 \notin T
  BY <1>1, <1>2
<1> QED BY <1>2, <1>3

\* The recursive definition of Totals has a solution, so Totals satisfies it.
LEMMA TotalsDef ==
  ASSUME NEW s \in Seq(Int)
  PROVE  Totals(s) = [i \in 0..Len(s) |->
                        IF i = 0 THEN 0 ELSE Totals(s)[i - 1] + s[i]]
<1> DEFINE Ok(g, n) == /\ g \in [0..n -> Int]
                       /\ g[0] = 0
                       /\ \A i \in 1..n : g[i] = g[i - 1] + s[i]
           S == {n \in Nat : n <= Len(s) => \E g : Ok(g, n)}
<1>1. 0 \in S
  <2>1. Ok([i \in 0..0 |-> 0], 0)
    OBVIOUS
  <2> QED BY <2>1
<1>2. ASSUME NEW n \in Nat, n \in S PROVE n + 1 \in S
  <2>0. n + 1 \in Nat
    OBVIOUS
  <2> SUFFICES ASSUME n + 1 <= Len(s) PROVE \E g : Ok(g, n + 1)
    BY <2>0, Zenon
  <2>1. n <= Len(s)
    OBVIOUS
  <2>2. PICK g : Ok(g, n)
    BY <1>2, <2>1, Zenon
  <2> DEFINE h == [i \in 0..(n + 1) |-> IF i <= n THEN g[i] ELSE g[n] + s[n + 1]]
  <2>3. s[n + 1] \in Int
    OBVIOUS
  <2>4. h \in [0..(n + 1) -> Int]
    BY <2>2, <2>3
  <2>5. h[0] = 0
    BY <2>2
  <2>6. ASSUME NEW i \in 1..(n + 1) PROVE h[i] = h[i - 1] + s[i]
    <3>1. CASE i <= n
      BY <2>2, <3>1
    <3>2. CASE i = n + 1
      BY <2>2, <3>2
    <3> QED BY <3>1, <3>2
  <2>7. Ok(h, n + 1)
    BY <2>4, <2>5, <2>6
  <2> QED BY <2>7
<1>3. Len(s) \in S
  <2> HIDE DEF S
  <2> QED BY <1>1, <1>2, NatSetInduction
<1>4. PICK g : Ok(g, Len(s))
  BY <1>3
<1>5. g = [i \in 0..Len(s) |-> IF i = 0 THEN 0 ELSE g[i - 1] + s[i]]
  BY <1>4
<1> QED BY <1>5 DEF Totals

\* The accumulator starts at zero, adds one element a step and stays integer.
LEMMA TotalsStep ==
  ASSUME NEW s \in Seq(Int)
  PROVE  /\ Totals(s) \in [0..Len(s) -> Int]
         /\ Totals(s)[0] = 0
         /\ \A i \in 1..Len(s) : Totals(s)[i] = Totals(s)[i - 1] + s[i]
<1> DEFINE T == Totals(s)
           S == {n \in Nat : n <= Len(s) => T[n] \in Int}
<1>1. T = [i \in 0..Len(s) |-> IF i = 0 THEN 0 ELSE T[i - 1] + s[i]]
  BY TotalsDef
<1> HIDE DEF T
<1>2. T[0] = 0
  BY <1>1
<1>3. \A i \in 1..Len(s) : T[i] = T[i - 1] + s[i]
  BY <1>1
<1>4. 0 \in S
  BY <1>2
<1>5. ASSUME NEW n \in Nat, n \in S PROVE n + 1 \in S
  <2> SUFFICES ASSUME n + 1 <= Len(s) PROVE T[n + 1] \in Int
    OBVIOUS
  <2>1. T[n + 1] = T[n] + s[n + 1] /\ s[n + 1] \in Int
    BY <1>3
  <2> QED BY <1>5, <2>1
<1>6. \A n \in Nat : n \in S
  <2> HIDE DEF S
  <2> QED BY <1>4, <1>5, NatSetInduction
<1>7. T \in [0..Len(s) -> Int]
  BY <1>1, <1>6
<1> QED BY <1>2, <1>3, <1>7 DEF T

\* A whole sum is an integer.
LEMMA SeqSumInt ==
  ASSUME NEW s \in Seq(Int)
  PROVE  SeqSum(s) \in Int
BY TotalsStep DEF SeqSum

\* Changing one element by d changes the sum by d.
LEMMA SumChange ==
  ASSUME NEW s \in Seq(Int), NEW r \in Seq(Int), NEW k \in 1..Len(s), NEW d \in Int,
         Len(r) = Len(s), r[k] = s[k] + d,
         \A i \in 1..Len(s) : i # k => r[i] = s[i]
  PROVE  SeqSum(r) = SeqSum(s) + d
<1> DEFINE T == Totals(s)
           U == Totals(r)
           P(n) == n <= Len(s) => /\ n < k => U[n] = T[n]
                                  /\ n >= k => U[n] = T[n] + d
<1>1. /\ T \in [0..Len(s) -> Int]
      /\ T[0] = 0
      /\ \A i \in 1..Len(s) : T[i] = T[i - 1] + s[i]
  BY TotalsStep
<1>2. /\ U \in [0..Len(s) -> Int]
      /\ U[0] = 0
      /\ \A i \in 1..Len(s) : U[i] = U[i - 1] + r[i]
  BY TotalsStep
<1>3. SeqSum(s) = T[Len(s)] /\ SeqSum(r) = U[Len(s)]
  BY DEF SeqSum
<1> HIDE DEF T, U
<1>4. P(0)
  BY <1>1, <1>2
<1>5. ASSUME NEW n \in Nat, P(n) PROVE P(n + 1)
  <2> SUFFICES ASSUME n + 1 <= Len(s)
               PROVE  /\ n + 1 < k => U[n + 1] = T[n + 1]
                      /\ n + 1 >= k => U[n + 1] = T[n + 1] + d
    OBVIOUS
  <2>0. /\ n \in 0..Len(s) /\ n + 1 \in 1..Len(s) /\ n + 1 - 1 = n
        /\ k \in Int /\ Len(s) \in Nat
    OBVIOUS
  <2>1. T[n] \in Int /\ U[n] \in Int
    BY ONLY <1>1, <1>2, <2>0
  <2>2. T[n + 1] = T[n] + s[n + 1] /\ U[n + 1] = U[n] + r[n + 1]
    BY ONLY <1>1, <1>2, <2>0
  <2>3. s[n + 1] \in Int /\ r[n + 1] \in Int
    OBVIOUS
  <2>4. CASE n + 1 = k
    <3>1. U[n] = T[n]
      BY <1>5, <2>0, <2>4
    <3>2. r[n + 1] = s[n + 1] + d
      BY <2>4
    <3>3. U[n + 1] = T[n + 1] + d
      BY ONLY d \in Int, <2>1, <2>2, <2>3, <3>1, <3>2
    <3>4. ~(n + 1 < k)
      BY ONLY <2>0, <2>4
    <3> QED BY ONLY <3>3, <3>4
  <2>5. CASE n + 1 < k
    <3>1. r[n + 1] = s[n + 1] /\ U[n] = T[n]
      BY <1>5, <2>0, <2>5
    <3>2. U[n + 1] = T[n + 1]
      BY ONLY <2>2, <3>1
    <3>3. ~(n + 1 >= k)
      BY <2>0, <2>5
    <3> QED BY ONLY <3>2, <3>3
  <2>6. CASE n + 1 > k
    <3>1. r[n + 1] = s[n + 1] /\ U[n] = T[n] + d
      BY <1>5, <2>0, <2>6
    <3>2. U[n + 1] = T[n + 1] + d
      BY ONLY d \in Int, <2>1, <2>2, <2>3, <3>1
    <3>3. ~(n + 1 < k)
      BY <2>0, <2>6
    <3> QED BY ONLY <3>2, <3>3
  <2> QED BY <2>0, <2>4, <2>5, <2>6
<1>6. P(Len(s))
  <2> DEFINE S == {n \in Nat : P(n)}
  <2> HIDE DEF P
  <2>1. \A n \in Nat : n \in S
    <3>1. 0 \in S
      BY <1>4
    <3>2. \A n \in Nat : n \in S => n + 1 \in S
      BY <1>5
    <3> HIDE DEF S
    <3> QED BY <3>1, <3>2, NatSetInduction
  <2>2. Len(s) \in Nat
    OBVIOUS
  <2> QED BY <2>1, <2>2
<1> QED BY <1>1, <1>2, <1>3, <1>6

\* Sequences that agree have running totals that agree as far as they do.
LEMMA TotalsPrefix ==
  ASSUME NEW s \in Seq(Int), NEW r \in Seq(Int), NEW m \in Nat,
         m <= Len(s), m <= Len(r), \A i \in 1..m : r[i] = s[i]
  PROVE  Totals(r)[m] = Totals(s)[m]
<1> DEFINE T == Totals(s)
           U == Totals(r)
           S == {n \in Nat : n <= m => U[n] = T[n]}
<1>1. T[0] = 0 /\ \A i \in 1..Len(s) : T[i] = T[i - 1] + s[i]
  BY TotalsStep
<1>2. U[0] = 0 /\ \A i \in 1..Len(r) : U[i] = U[i - 1] + r[i]
  BY TotalsStep
<1> HIDE DEF T, U
<1>3. 0 \in S
  BY <1>1, <1>2
<1>4. ASSUME NEW n \in Nat, n \in S PROVE n + 1 \in S
  <2> SUFFICES ASSUME n + 1 <= m PROVE U[n + 1] = T[n + 1]
    OBVIOUS
  <2>1. U[n] = T[n]
    BY <1>4
  <2>2. T[n + 1] = T[n] + s[n + 1] /\ U[n + 1] = U[n] + r[n + 1]
    BY <1>1, <1>2
  <2> QED BY <2>1, <2>2
<1>5. \A n \in Nat : n \in S
  <2> HIDE DEF S
  <2> QED BY <1>3, <1>4, NatSetInduction
<1> QED BY <1>5 DEF T, U

\* One more element adds itself.
LEMMA SumExtend ==
  ASSUME NEW s \in Seq(Int), NEW r \in Seq(Int), Len(r) = Len(s) + 1,
         \A i \in 1..Len(s) : r[i] = s[i]
  PROVE  SeqSum(r) = SeqSum(s) + r[Len(r)]
<1>1. \A i \in 1..Len(r) : Totals(r)[i] = Totals(r)[i - 1] + r[i]
  BY TotalsStep
<1>2. Len(s) \in Nat /\ Len(r) \in 1..Len(r) /\ Len(r) - 1 = Len(s)
  OBVIOUS
<1>3. Totals(r)[Len(s)] = Totals(s)[Len(s)]
  <2>1. Len(s) <= Len(s) /\ Len(s) <= Len(r)
    BY <1>2
  <2> QED BY <1>2, <2>1, TotalsPrefix
<1>4. SeqSum(r) = Totals(r)[Len(s)] + r[Len(r)]
  BY <1>1, <1>2 DEF SeqSum
<1> QED BY <1>3, <1>4 DEF SeqSum

\* Sums of naturals are naturals, and no element exceeds the sum.
LEMMA SumOfNats ==
  ASSUME NEW s \in Seq(Nat)
  PROVE  /\ SeqSum(s) \in Nat
         /\ \A k \in 1..Len(s) : s[k] <= SeqSum(s)
<1> DEFINE T == Totals(s)
           P(n) == n <= Len(s) => T[n] >= 0 /\ \A k \in 1..n : s[k] <= T[n]
<1>0. s \in Seq(Int)
  OBVIOUS
<1>1. /\ T \in [0..Len(s) -> Int]
      /\ T[0] = 0
      /\ \A i \in 1..Len(s) : T[i] = T[i - 1] + s[i]
  BY <1>0, TotalsStep
<1>2. SeqSum(s) = T[Len(s)]
  BY DEF SeqSum
<1> HIDE DEF T
<1>3. P(0)
  BY <1>1
<1>4. ASSUME NEW n \in Nat, P(n) PROVE P(n + 1)
  <2> SUFFICES ASSUME n + 1 <= Len(s)
               PROVE  T[n + 1] >= 0 /\ \A k \in 1..(n + 1) : s[k] <= T[n + 1]
    OBVIOUS
  <2>0. T[n] \in Int
    <3>1. n \in 0..Len(s)
      OBVIOUS
    <3> QED BY ONLY <1>1, <3>1
  <2>1. T[n] >= 0 /\ (\A k \in 1..n : s[k] <= T[n])
    BY <1>4
  <2>2. T[n + 1] = T[n] + s[n + 1] /\ s[n + 1] \in Nat
    BY <1>1
  <2>3. ASSUME NEW k \in 1..(n + 1) PROVE s[k] <= T[n + 1]
    <3>1. s[k] \in Nat
      OBVIOUS
    <3>2. CASE k = n + 1
      BY <2>0, <2>1, <2>2, <3>2
    <3>3. CASE k \in 1..n
      BY <2>0, <2>1, <2>2, <3>1, <3>3
    <3> QED BY <3>2, <3>3
  <2> QED BY <2>0, <2>1, <2>2, <2>3
<1>5. P(Len(s))
  <2> DEFINE S == {n \in Nat : P(n)}
  <2> HIDE DEF P
  <2>1. \A n \in Nat : n \in S
    <3>1. 0 \in S
      BY <1>3
    <3>2. \A n \in Nat : n \in S => n + 1 \in S
      BY <1>4
    <3> HIDE DEF S
    <3> QED BY <3>1, <3>2, NatSetInduction
  <2>2. Len(s) \in Nat
    OBVIOUS
  <2> QED BY <2>1, <2>2
<1> QED BY <1>1, <1>2, <1>5
-----------------------------------------------------------------------------
(* Sums of a function over its finite domain *)

\* The element that SumFunction takes out of a set next.
Pick(s) == CHOOSE x \in s : TRUE

\* The recursive function SumFunction evaluates.
PartSums(f, D) ==
  CHOOSE it : it = [s \in SUBSET D |->
                      IF s = {} THEN 0 ELSE f[Pick(s)] + it[s \ {Pick(s)}]]

\* A set without its next element is one smaller.
LEMMA PickRemoves ==
  ASSUME NEW s, IsFiniteSet(s), s # {}
  PROVE  /\ Pick(s) \in s
         /\ IsFiniteSet(s \ {Pick(s)})
         /\ Cardinality(s \ {Pick(s)}) = Cardinality(s) - 1
         /\ Cardinality(s) \in Nat \ {0}
<1>1. Pick(s) \in s
  BY DEF Pick
<1>2. /\ IsFiniteSet(s \ {Pick(s)})
      /\ Cardinality(s \ {Pick(s)}) = Cardinality(s) - 1
  BY <1>1, FS_RemoveElement
<1>3. Cardinality(s) \in Nat
  BY FS_CardinalityType
<1>4. Cardinality(s) # 0
  BY FS_EmptySet
<1> QED BY <1>1, <1>2, <1>3, <1>4

\* Induction over the subsets of a finite set.
LEMMA SubsetInduction ==
  ASSUME NEW D, IsFiniteSet(D), NEW S, {} \in S,
         \A s \in SUBSET D : s # {} /\ s \ {Pick(s)} \in S => s \in S
  PROVE  \A s \in SUBSET D : s \in S
<1> DEFINE N == {n \in Nat : \A s \in SUBSET D : Cardinality(s) = n => s \in S}
<1>0. \A s \in SUBSET D : IsFiniteSet(s)
  BY FS_Subset
<1>1. 0 \in N
  BY <1>0, FS_EmptySet
<1>2. ASSUME NEW n \in Nat, n \in N PROVE n + 1 \in N
  <2> SUFFICES ASSUME NEW s \in SUBSET D, Cardinality(s) = n + 1 PROVE s \in S
    OBVIOUS
  <2>1. IsFiniteSet(s) /\ s # {}
    BY <1>0, FS_EmptySet
  <2>2. Cardinality(s \ {Pick(s)}) = n
    <3>1. Cardinality(s \ {Pick(s)}) = Cardinality(s) - 1
      BY <2>1, PickRemoves
    <3> QED BY <3>1
  <2> QED BY <2>1, <2>2, <1>2
<1>3. \A n \in Nat : n \in N
  <2> HIDE DEF N
  <2> QED BY <1>1, <1>2, NatSetInduction
<1> QED
  <2> SUFFICES ASSUME NEW s \in SUBSET D PROVE s \in S
    OBVIOUS
  <2>1. Cardinality(s) \in Nat
    BY <1>0, FS_CardinalityType
  <2> QED BY <1>3, <2>1

\* The recursive definition has a solution, so PartSums satisfies it.
LEMMA PartSumsDef ==
  ASSUME NEW D, IsFiniteSet(D), NEW f \in [D -> Int]
  PROVE  PartSums(f, D) = [s \in SUBSET D |->
           IF s = {} THEN 0 ELSE f[Pick(s)] + PartSums(f, D)[s \ {Pick(s)}]]
<1> DEFINE Small(n) == {s \in SUBSET D : Cardinality(s) <= n}
           Ok(g, n) == /\ g \in [Small(n) -> Int]
                       /\ \A s \in Small(n) :
                            g[s] = IF s = {} THEN 0 ELSE f[Pick(s)] + g[s \ {Pick(s)}]
           N == {n \in Nat : \E g : Ok(g, n)}
<1>0. \A s \in SUBSET D : IsFiniteSet(s) /\ Cardinality(s) \in Nat
  BY FS_Subset, FS_CardinalityType
<1>00. \A s \in SUBSET D : s # {} =>
         /\ Pick(s) \in D /\ s \ {Pick(s)} \in SUBSET D
         /\ Cardinality(s \ {Pick(s)}) = Cardinality(s) - 1
         /\ Cardinality(s) # 0
  BY <1>0, PickRemoves
<1>1. 0 \in N
  <2>1. \A s \in Small(0) : s = {}
    <3> SUFFICES ASSUME NEW s \in Small(0), s # {} PROVE FALSE
      OBVIOUS
    <3>1. Cardinality(s) \in Nat /\ Cardinality(s) # 0
      BY <1>0, <1>00
    <3> QED BY <3>1
  <2>2. Ok([s \in Small(0) |-> 0], 0)
    BY <2>1
  <2> QED BY <2>2
<1>2. ASSUME NEW n \in Nat, n \in N PROVE n + 1 \in N
  <2>1. PICK g : Ok(g, n)
    BY <1>2
  <2> DEFINE h == [s \in Small(n + 1) |->
                     IF s = {} THEN 0 ELSE f[Pick(s)] + g[s \ {Pick(s)}]]
  <2>2. \A s \in Small(n + 1) : s # {} => s \ {Pick(s)} \in Small(n)
    BY <1>0, <1>00
  <2>3. Small(n) \subseteq Small(n + 1)
    BY <1>0
  <2>4. h \in [Small(n + 1) -> Int]
    <3> SUFFICES ASSUME NEW s \in Small(n + 1), s # {}
                 PROVE  f[Pick(s)] + g[s \ {Pick(s)}] \in Int
      OBVIOUS
    <3>1. Pick(s) \in D
      BY <1>00
    <3>2. s \ {Pick(s)} \in Small(n)
      BY <2>2
    <3> HIDE DEF Small
    <3> QED BY <3>1, <3>2, <2>1
  <2>5. \A s \in Small(n) : h[s] = g[s]
    BY <2>1, <2>3
  <2>6. Ok(h, n + 1)
    <3> SUFFICES ASSUME NEW s \in Small(n + 1)
                 PROVE  h[s] = IF s = {} THEN 0 ELSE f[Pick(s)] + h[s \ {Pick(s)}]
      BY <2>4
    <3> HIDE DEF Small
    <3> QED BY <2>2, <2>5
  <2> HIDE DEF Ok, h
  <2> QED BY <2>6
<1>3. Cardinality(D) \in N
  <2>1. \A n \in Nat : n \in N
    <3> HIDE DEF N
    <3> QED BY <1>1, <1>2, NatSetInduction
  <2> QED BY <2>1, FS_CardinalityType
<1>4. PICK g : Ok(g, Cardinality(D))
  BY <1>3
<1>5. Small(Cardinality(D)) = SUBSET D
  BY FS_Subset
<1>6. g = [s \in SUBSET D |-> IF s = {} THEN 0 ELSE f[Pick(s)] + g[s \ {Pick(s)}]]
  <2> HIDE DEF Small
  <2> QED BY <1>4, <1>5
<1> QED BY <1>6 DEF PartSums

\* What SumFunction computes, one element at a time.
LEMMA PartSumsStep ==
  ASSUME NEW D, IsFiniteSet(D), NEW f \in [D -> Int]
  PROVE  /\ SumFunction(f) = PartSums(f, D)[D]
         /\ PartSums(f, D)[{}] = 0
         /\ PartSums(f, D) \in [SUBSET D -> Int]
<1>1. SumFunction(f) = PartSums(f, D)[D]
  <2>1. DOMAIN f = D
    OBVIOUS
  <2>2. SumFunction(f) = PartSums(f, DOMAIN f)[DOMAIN f]
    BY DEF SumFunction, SumFunctionOnSet, FoldFunctionOnSet, MapThenFoldSet, PartSums, Pick
  <2> QED BY <2>1, <2>2
<1> DEFINE G == PartSums(f, D)
<1>2. G = [s \in SUBSET D |-> IF s = {} THEN 0 ELSE f[Pick(s)] + G[s \ {Pick(s)}]]
  BY PartSumsDef
<1>3. \A s \in SUBSET D : s # {} => Pick(s) \in s
  BY DEF Pick
<1> HIDE DEF G
<1>4. \A s \in SUBSET D : s # {} => G[s] = f[Pick(s)] + G[s \ {Pick(s)}]
  BY <1>2, Zenon
<1>5. G[{}] = 0
  BY <1>2
<1>6. \A s \in SUBSET D : s \in {r \in SUBSET D : G[r] \in Int}
  <2> DEFINE S == {r \in SUBSET D : G[r] \in Int}
  <2>1. {} \in S
    BY <1>5
  <2>2. ASSUME NEW s \in SUBSET D, s # {}, s \ {Pick(s)} \in S PROVE s \in S
    <3>1. f[Pick(s)] \in Int
      BY <2>2, <1>3
    <3>2. G[s \ {Pick(s)}] \in Int /\ G[s] = f[Pick(s)] + G[s \ {Pick(s)}]
      BY <2>2, <1>4
    <3> QED BY <3>1, <3>2
  <2> HIDE DEF S
  <2>3. \A s \in SUBSET D : s \in S
    BY <2>1, <2>2, SubsetInduction
  <2> QED BY <2>3 DEF S
<1>7. G \in [SUBSET D -> Int]
  BY <1>2, <1>6
<1> QED BY <1>1, <1>3, <1>4, <1>5, <1>7 DEF G

LEMMA PartSumsNext ==
  ASSUME NEW D, IsFiniteSet(D), NEW f \in [D -> Int], NEW s \in SUBSET D, s # {}
  PROVE  /\ Pick(s) \in s /\ Pick(s) \in D /\ s \ {Pick(s)} \in SUBSET D
         /\ PartSums(f, D)[s] = f[Pick(s)] + PartSums(f, D)[s \ {Pick(s)}]
<1> DEFINE G == PartSums(f, D)
<1>1. G = [r \in SUBSET D |-> IF r = {} THEN 0 ELSE f[Pick(r)] + G[r \ {Pick(r)}]]
  BY PartSumsDef
<1>2. Pick(s) \in s
  BY DEF Pick
<1> HIDE DEF G
<1>3. G[s] = f[Pick(s)] + G[s \ {Pick(s)}]
  BY <1>1, Zenon
<1> QED BY <1>2, <1>3 DEF G

\* A sum of integers is an integer.
LEMMA SumFunctionInt ==
  ASSUME NEW D, IsFiniteSet(D), NEW f \in [D -> Int]
  PROVE  SumFunction(f) \in Int
<1>1. SumFunction(f) = PartSums(f, D)[D] /\ PartSums(f, D) \in [SUBSET D -> Int]
  BY PartSumsStep
<1> QED BY <1>1

\* A sum of zeros is zero.
LEMMA SumFunctionZero ==
  ASSUME NEW D, IsFiniteSet(D), NEW f \in [D -> Int], \A x \in D : f[x] = 0
  PROVE  SumFunction(f) = 0
<1> DEFINE G == PartSums(f, D)
           S == {s \in SUBSET D : G[s] = 0}
<1>1. /\ SumFunction(f) = G[D] /\ G[{}] = 0
  BY PartSumsStep
<1> HIDE DEF G
<1>2. {} \in S
  BY <1>1
<1>3. ASSUME NEW s \in SUBSET D, s # {}, s \ {Pick(s)} \in S PROVE s \in S
  <2>1. Pick(s) \in D /\ G[s] = f[Pick(s)] + G[s \ {Pick(s)}]
    BY <1>3, PartSumsNext DEF G
  <2>2. G[s] = 0 + 0
    BY <1>3, <2>1
  <2> QED BY <2>2
<1>4. \A s \in SUBSET D : s \in S
  <2> HIDE DEF S
  <2> QED BY <1>2, <1>3, SubsetInduction
<1> QED BY <1>1, <1>4

\* g is the function f on the finite set D, changed by d at the point a.
OneChange(D, f, g, a, d) ==
  /\ IsFiniteSet(D)
  /\ f \in [D -> Int] /\ g \in [D -> Int]
  /\ a \in D /\ d \in Int
  /\ g[a] = f[a] + d
  /\ \A x \in D : x # a => g[x] = f[x]

\* Changing a function at one point changes its sum by the same amount.
LEMMA SumFunctionChange ==
  ASSUME NEW D, NEW f, NEW g, NEW a, NEW d, OneChange(D, f, g, a, d)
  PROVE  SumFunction(g) = SumFunction(f) + d
<1>0. /\ IsFiniteSet(D)
      /\ f \in [D -> Int] /\ g \in [D -> Int]
      /\ a \in D /\ d \in Int
      /\ g[a] = f[a] + d
      /\ \A x \in D : x # a => g[x] = f[x]
  BY DEF OneChange
<1> DEFINE F == PartSums(f, D)
           G == PartSums(g, D)
           S == {s \in SUBSET D : /\ a \in s => G[s] = F[s] + d
                                  /\ a \notin s => G[s] = F[s]}
<1>1. /\ SumFunction(f) = F[D] /\ F[{}] = 0 /\ F \in [SUBSET D -> Int]
  BY <1>0, PartSumsStep
<1>2. /\ SumFunction(g) = G[D] /\ G[{}] = 0 /\ G \in [SUBSET D -> Int]
  BY <1>0, PartSumsStep
<1> HIDE DEF F, G
<1>4. {} \in S
  BY <1>1, <1>2
<1>5. ASSUME NEW s \in SUBSET D, s # {}, s \ {Pick(s)} \in S PROVE s \in S
  <2> DEFINE x == Pick(s)
             r == s \ {x}
  <2>1. x \in s /\ x \in D /\ r \in SUBSET D /\ F[s] = f[x] + F[r] /\ G[s] = g[x] + G[r]
    BY <1>0, <1>5, PartSumsNext DEF F, G
  <2>2. f[x] \in Int /\ g[x] \in Int /\ F[r] \in Int /\ G[r] \in Int
    BY <1>0, <1>1, <1>2, <2>1
  <2>3. (a \in r => G[r] = F[r] + d) /\ (a \notin r => G[r] = F[r])
    BY <1>5
  <2>4. CASE x = a
    <3>1. a \in s /\ a \notin r
      BY <2>1, <2>4
    <3>2. G[s] = F[s] + d
      <4> HIDE DEF x, r
      <4> QED BY <1>0, <2>1, <2>2, <2>3, <2>4, <3>1
    <3> QED BY <3>1, <3>2
  <2>5. CASE x # a
    <3>1. a \in s <=> a \in r
      BY <1>0, <2>1, <2>5
    <3>2. g[x] = f[x]
      BY <1>0, <2>1, <2>5
    <3>3. (a \in s => G[s] = F[s] + d) /\ (a \notin s => G[s] = F[s])
      <4> HIDE DEF x, r
      <4> QED BY <1>0, <2>1, <2>2, <2>3, <3>1, <3>2
    <3> QED BY <3>3
  <2> QED BY <2>4, <2>5
<1>6. \A s \in SUBSET D : s \in S
  <2> HIDE DEF S
  <2> QED BY <1>0, <1>4, <1>5, SubsetInduction
<1>7. D \in S
  BY <1>6
<1>8. G[D] = F[D] + d
  BY <1>0, <1>7
<1> QED BY <1>1, <1>2, <1>8

\* What a list of payments gives to one receiver: w[i] receives s[i].
Received(s, w, a) == [i \in 1..Len(s) |-> IF w[i] = a THEN s[i] ELSE 0]

\* Payments to the points of a function add their sum to its sum, whoever
\* receives how many of them.
LEMMA SumSpread ==
  ASSUME NEW D, IsFiniteSet(D), NEW f \in [D -> Int], NEW s \in Seq(Int),
         NEW w \in [1..Len(s) -> D]
  PROVE  SumFunction([a \in D |-> f[a] + SeqSum(Received(s, w, a))])
           = SumFunction(f) + SeqSum(s)
<1> DEFINE h(n) == [a \in D |-> f[a] + Totals(Received(s, w, a))[n]]
           S == {n \in Nat : n <= Len(s) =>
                   SumFunction(h(n)) = SumFunction(f) + Totals(s)[n]}
<1>1. Len(s) \in Nat /\ \A i \in 1..Len(s) : s[i] \in Int
  OBVIOUS
<1>2. ASSUME NEW a \in D
      PROVE  /\ Received(s, w, a) \in Seq(Int) /\ Len(Received(s, w, a)) = Len(s)
             /\ \A i \in 1..Len(s) : Received(s, w, a)[i] = IF w[i] = a THEN s[i] ELSE 0
  <2> DEFINE E(i) == IF w[i] = a THEN s[i] ELSE 0
  <2>1. \A i \in 1..Len(s) : E(i) \in Int
    BY <1>1
  <2>2. Received(s, w, a) = [i \in 1..Len(s) |-> E(i)]
    BY DEF Received
  <2> HIDE DEF E
  <2>3. /\ Received(s, w, a) \in Seq(Int) /\ Len(Received(s, w, a)) = Len(s)
        /\ \A i \in 1..Len(s) : Received(s, w, a)[i] = E(i)
    BY <1>1, <2>1, <2>2
  <2> QED BY <2>3 DEF E
<1>3. ASSUME NEW a \in D
      PROVE  /\ Totals(Received(s, w, a)) \in [0..Len(s) -> Int]
             /\ Totals(Received(s, w, a))[0] = 0
  BY <1>2, TotalsStep
<1>4. ASSUME NEW a \in D, NEW i \in 1..Len(s)
      PROVE  Totals(Received(s, w, a))[i]
               = Totals(Received(s, w, a))[i - 1] + (IF w[i] = a THEN s[i] ELSE 0)
  <2> DEFINE r == Received(s, w, a)
  <2>1. r \in Seq(Int) /\ Len(r) = Len(s) /\ r[i] = IF w[i] = a THEN s[i] ELSE 0
    BY <1>2
  <2> HIDE DEF r
  <2>2. Totals(r)[i] = Totals(r)[i - 1] + r[i]
    BY <2>1, TotalsStep
  <2> QED BY <2>1, <2>2 DEF r
<1>5. /\ Totals(s) \in [0..Len(s) -> Int] /\ Totals(s)[0] = 0
      /\ \A i \in 1..Len(s) : Totals(s)[i] = Totals(s)[i - 1] + s[i]
  BY TotalsStep
<1>6. ASSUME NEW n \in 0..Len(s) PROVE h(n) \in [D -> Int]
  <2>1. \A a \in D : Totals(Received(s, w, a))[n] \in Int /\ f[a] \in Int
    BY <1>3
  <2> QED BY <2>1
<1>7. SumFunction(f) \in Int
  BY SumFunctionInt
<1>8. 0 \in S
  <2>1. \A a \in D : f[a] + Totals(Received(s, w, a))[0] = f[a]
    BY <1>3
  <2>2. h(0) = f
    BY <2>1
  <2> HIDE DEF h
  <2> QED BY <1>5, <1>7, <2>2
<1>9. ASSUME NEW n \in Nat, n \in S PROVE n + 1 \in S
  <2> SUFFICES ASSUME n + 1 <= Len(s)
               PROVE  SumFunction(h(n + 1)) = SumFunction(f) + Totals(s)[n + 1]
    OBVIOUS
  <2>1. /\ n \in 0..Len(s) /\ n + 1 \in 0..Len(s) /\ n + 1 \in 1..Len(s)
        /\ n <= Len(s) /\ n + 1 - 1 = n
    BY <1>1
  <2>2. h(n) \in [D -> Int] /\ h(n + 1) \in [D -> Int]
    BY <1>6, <2>1
  <2> DEFINE b == w[n + 1]
  <2>3. b \in D /\ s[n + 1] \in Int
    BY <1>1, <2>1
  <2>4. ASSUME NEW a \in D
        PROVE  h(n + 1)[a] = h(n)[a] + (IF b = a THEN s[n + 1] ELSE 0)
    <3>1. Totals(Received(s, w, a))[n + 1]
            = Totals(Received(s, w, a))[n] + (IF b = a THEN s[n + 1] ELSE 0)
      <4>1. Totals(Received(s, w, a))[n + 1]
              = Totals(Received(s, w, a))[n + 1 - 1] + (IF b = a THEN s[n + 1] ELSE 0)
        BY <1>4, <2>1
      <4> QED BY <2>1, <4>1
    <3>2. f[a] \in Int /\ Totals(Received(s, w, a))[n] \in Int
      BY <1>3, <2>1
    <3>3. /\ h(n + 1)[a] = f[a] + Totals(Received(s, w, a))[n + 1]
          /\ h(n)[a] = f[a] + Totals(Received(s, w, a))[n]
      OBVIOUS
    <3> DEFINE x == Totals(Received(s, w, a))[n]
               y == IF b = a THEN s[n + 1] ELSE 0
    <3>4. y \in Int
      BY <2>3
    <3> HIDE DEF h, x, y
    <3>5. h(n + 1)[a] = f[a] + (x + y) /\ h(n)[a] = f[a] + x /\ x \in Int
      BY <3>1, <3>2, <3>3 DEF x, y
    <3>6. h(n + 1)[a] = h(n)[a] + y
      BY ONLY <3>2, <3>4, <3>5, f[a] \in Int
    <3> QED BY <3>6 DEF y
  <2> HIDE DEF h, b
  <2>5. /\ \A a \in D : a # b => h(n + 1)[a] = h(n)[a]
        /\ h(n + 1)[b] = h(n)[b] + s[n + 1]
    <3>1. \A a \in D : h(n)[a] \in Int
      BY <2>2
    <3> QED BY <2>3, <2>4, <3>1
  <2>6. SumFunction(h(n + 1)) = SumFunction(h(n)) + s[n + 1]
    <3>1. OneChange(D, h(n), h(n + 1), b, s[n + 1])
      BY <2>2, <2>3, <2>5 DEF OneChange
    <3> QED BY <3>1, SumFunctionChange
  <2>7. SumFunction(h(n)) = SumFunction(f) + Totals(s)[n]
    BY <1>9, <2>1
  <2>8. Totals(s)[n + 1] = Totals(s)[n] + s[n + 1] /\ Totals(s)[n] \in Int
    BY <1>5, <2>1
  <2> QED BY <1>7, <2>3, <2>5, <2>6, <2>7, <2>8
<1>10. \A n \in Nat : n \in S
  <2> HIDE DEF S
  <2> QED BY <1>8, <1>9, NatSetInduction
<1>11. SumFunction(h(Len(s))) = SumFunction(f) + Totals(s)[Len(s)]
  <2>1. Len(s) \in S
    <3> HIDE DEF S
    <3> QED BY <1>1, <1>10
  <2>2. Len(s) <= Len(s)
    BY <1>1
  <2> HIDE DEF h
  <2> QED BY <2>1, <2>2
<1>12. h(Len(s)) = [a \in D |-> f[a] + SeqSum(Received(s, w, a))]
  BY <1>2 DEF SeqSum
<1> HIDE DEF h
<1> QED BY <1>11, <1>12 DEF SeqSum
\* Any element of a set may be taken out first.
LEMMA PartSumsTake ==
  ASSUME NEW D, IsFiniteSet(D), NEW f \in [D -> Int], NEW s \in SUBSET D, NEW x \in s
  PROVE  PartSums(f, D)[s] = f[x] + PartSums(f, D)[s \ {x}]
<1> DEFINE G == PartSums(f, D)
           Takes(r) == \A y \in r : G[r] = f[y] + G[r \ {y}]
           N == {n \in Nat : \A r \in SUBSET D : Cardinality(r) = n => Takes(r)}
<1>0. \A r \in SUBSET D : IsFiniteSet(r) /\ Cardinality(r) \in Nat
  BY FS_Subset, FS_CardinalityType
<1>1. G \in [SUBSET D -> Int]
  BY PartSumsStep
<1>2. \A r \in SUBSET D : r # {} =>
        Pick(r) \in r /\ Pick(r) \in D /\ r \ {Pick(r)} \in SUBSET D /\ G[r] = f[Pick(r)] + G[r \ {Pick(r)}]
  BY PartSumsNext
<1>3. \A r \in SUBSET D : \A y \in r : Cardinality(r \ {y}) = Cardinality(r) - 1
  BY <1>0, FS_RemoveElement
<1> HIDE DEF G
<1>4. 0 \in N
  <2>1. \A r \in SUBSET D : Cardinality(r) = 0 => r = {}
    BY <1>0, FS_EmptySet
  <2> QED BY <2>1
<1>5. ASSUME NEW n \in Nat, n \in N PROVE n + 1 \in N
  <2> SUFFICES ASSUME NEW r \in SUBSET D, Cardinality(r) = n + 1, NEW y \in r
               PROVE  G[r] = f[y] + G[r \ {y}]
    OBVIOUS
  <2> DEFINE p == Pick(r)
  <2>1. p \in r /\ p \in D /\ G[r] = f[p] + G[r \ {p}]
    BY <1>2
  <2> HIDE DEF p
  <2>2. CASE y = p
    BY <2>1, <2>2
  <2>3. CASE y # p
    <3>1. Cardinality(r \ {p}) = n /\ Cardinality(r \ {y}) = n
      <4>1. Cardinality(r \ {p}) = n + 1 - 1 /\ Cardinality(r \ {y}) = n + 1 - 1
        BY <1>3, <2>1
      <4> QED BY <4>1
    <3>2. Takes(r \ {p}) /\ Takes(r \ {y})
      BY <1>5, <3>1
    <3>3. G[r \ {p}] = f[y] + G[(r \ {p}) \ {y}] /\ G[r \ {y}] = f[p] + G[(r \ {y}) \ {p}]
      BY <2>1, <2>3, <3>2
    <3>4. (r \ {p}) \ {y} = (r \ {y}) \ {p} /\ (r \ {p}) \ {y} \in SUBSET D
      OBVIOUS
    <3>5. f[p] \in Int /\ f[y] \in Int /\ G[(r \ {p}) \ {y}] \in Int
      BY <1>1, <2>1, <3>4
    <3> DEFINE z == G[(r \ {p}) \ {y}]
    <3>6. G[r \ {p}] = f[y] + z /\ G[r \ {y}] = f[p] + z /\ z \in Int
      BY <3>3, <3>4, <3>5
    <3> HIDE DEF z
    <3>7. G[r] = f[p] + (f[y] + z) /\ f[y] + G[r \ {y}] = f[y] + (f[p] + z)
      BY <2>1, <3>6
    <3> QED BY ONLY <3>5, <3>6, <3>7
  <2> QED BY <2>2, <2>3
<1>6. \A n \in Nat : n \in N
  <2> HIDE DEF N
  <2> QED BY <1>4, <1>5, NatSetInduction
<1>7. Takes(s)
  BY <1>0, <1>6
<1> QED BY <1>7 DEF G

\* A part of a function whose values are positive sums up to less, unless it
\* is the whole.
LEMMA PartIsWhole ==
  ASSUME NEW D, IsFiniteSet(D), NEW f \in [D -> Int], NEW E \in SUBSET D, NEW g \in [E -> Int],
         \A x \in D : f[x] > 0, \A x \in E : g[x] = f[x],
         PartSums(f, D)[D] = PartSums(g, E)[E]
  PROVE  E = D
<1> DEFINE F == PartSums(f, D)
           G == PartSums(g, E)
           Same == {s \in SUBSET E : F[s] = G[s]}
           Grows == {u \in SUBSET (D \ E) : /\ F[E \cup u] >= F[E]
                                            /\ u # {} => F[E \cup u] > F[E]}
<1>0. IsFiniteSet(E) /\ IsFiniteSet(D \ E)
  <2>1. E \in SUBSET D /\ D \ E \in SUBSET D
    OBVIOUS
  <2> QED BY <2>1, FS_Subset
<1>1. F \in [SUBSET D -> Int] /\ F[{}] = 0
  BY PartSumsStep
<1>2. G[{}] = 0
  BY <1>0, PartSumsStep
<1>3. \A s \in SUBSET D : \A x \in s : F[s] = f[x] + F[s \ {x}]
  BY PartSumsTake
<1>4. \A s \in SUBSET E : s # {} =>
        Pick(s) \in s /\ G[s] = g[Pick(s)] + G[s \ {Pick(s)}]
  BY <1>0, PartSumsNext
<1> HIDE DEF F, G
<1>5. \A s \in SUBSET E : s \in Same
  <2>1. {} \in Same
    BY <1>1, <1>2
  <2>2. ASSUME NEW s \in SUBSET E, s # {}, s \ {Pick(s)} \in Same PROVE s \in Same
    <3>1. Pick(s) \in s /\ G[s] = g[Pick(s)] + G[s \ {Pick(s)}]
      BY <1>4, <2>2
    <3>2. F[s] = f[Pick(s)] + F[s \ {Pick(s)}]
      BY <1>3, <3>1
    <3> QED BY <2>2, <3>1, <3>2
  <2> HIDE DEF Same
  <2> QED BY <1>0, <2>1, <2>2, SubsetInduction
<1>6. \A u \in SUBSET (D \ E) : u \in Grows
  <2>1. {} \in Grows
    <3>1. E \cup {} = E /\ F[E] \in Int
      BY <1>1
    <3> QED BY <3>1
  <2>2. ASSUME NEW u \in SUBSET (D \ E), u # {}, u \ {Pick(u)} \in Grows PROVE u \in Grows
    <3> DEFINE p == Pick(u)
               a == E \cup u
               b == E \cup (u \ {p})
    <3>1. p \in u
      BY <2>2 DEF Pick
    <3>2. a \in SUBSET D /\ b \in SUBSET D /\ b = a \ {p} /\ p \in a /\ p \in D
      BY <3>1
    <3>3. F[a] = f[p] + F[b]
      BY <1>3, <3>2
    <3>4. F[b] >= F[E] /\ F[b] \in Int /\ F[E] \in Int /\ f[p] \in Int /\ f[p] > 0
      BY <1>1, <2>2, <3>2
    <3> HIDE DEF p, b
    <3>5. F[a] > F[E] /\ F[a] >= F[E]
      BY <3>3, <3>4
    <3> QED BY <3>5
  <2> HIDE DEF Grows
  <2> QED BY <1>0, <2>1, <2>2, SubsetInduction
<1>7. E \cup (D \ E) = D
  OBVIOUS
<1>8. F[E] = G[E] /\ F[D] = G[E] /\ F[E] \in Int
  BY <1>1, <1>5 DEF F, G
<1>9. D \ E = {}
  <2>1. D \ E # {} => F[D] > F[E]
    BY <1>6, <1>7
  <2> QED BY <1>8, <2>1
<1> QED BY <1>7, <1>9
-----------------------------------------------------------------------------
(* Lists rebuilt without some of their elements. *)

\* The values of the loop, step by step.
DroppingRun(kept, list, I, S) ==
  /\ kept \in [0..Len(list) -> Seq(S)]
  /\ Dropping(list, I) = kept[Len(list)]
  /\ kept[0] = <<>>
  /\ \A i \in 1..Len(list) :
       kept[i] = IF i \in I THEN kept[i - 1] ELSE Append(kept[i - 1], list[i])

LEMMA DroppingSteps ==
  ASSUME NEW S, NEW list \in Seq(S), NEW I
  PROVE  \E kept : DroppingRun(kept, list, I, S)
<1> DEFINE Ok(g, n) ==
             /\ g \in [0..n -> Seq(S)]
             /\ g[0] = <<>>
             /\ \A i \in 1..n : g[i] = IF i \in I THEN g[i - 1]
                                       ELSE Append(g[i - 1], list[i])
           P(n) == n <= Len(list) => \E g : Ok(g, n)
<1>1. P(0)
  <2>1. Ok([i \in 0..0 |-> <<>>], 0)
    OBVIOUS
  <2> QED BY <2>1
<1>2. ASSUME NEW n \in Nat, P(n) PROVE P(n + 1)
  <2> SUFFICES ASSUME n + 1 <= Len(list) PROVE \E g : Ok(g, n + 1)
    BY Zenon
  <2>1. n <= Len(list) /\ n + 1 \in 1..Len(list) /\ n \in 0..n
    OBVIOUS
  <2>2. PICK g : Ok(g, n)
    BY <1>2, <2>1, Zenon
  <2> DEFINE next == IF n + 1 \in I THEN g[n] ELSE Append(g[n], list[n + 1])
             h == [i \in 0..(n + 1) |-> IF i <= n THEN g[i] ELSE next]
  <2>3. next \in Seq(S)
    <3>1. g[n] \in Seq(S) /\ list[n + 1] \in S
      BY <2>1, <2>2
    <3> QED BY <3>1
  <2> HIDE DEF next
  <2>4. h \in [0..(n + 1) -> Seq(S)] /\ h[0] = <<>>
    BY <2>2, <2>3
  <2>5. ASSUME NEW i \in 1..(n + 1)
        PROVE  h[i] = IF i \in I THEN h[i - 1] ELSE Append(h[i - 1], list[i])
    <3>1. CASE i \in 1..n
      <4>1. h[i] = g[i] /\ h[i - 1] = g[i - 1]
        BY <3>1
      <4> QED BY <2>2, <3>1, <4>1, Zenon
    <3>2. CASE i = n + 1
      <4>1. h[i] = next /\ h[i - 1] = g[n]
        BY <3>2
      <4> QED BY <3>2, <4>1, Zenon DEF next
    <3> QED BY <3>1, <3>2
  <2>6. Ok(h, n + 1)
    BY <2>4, <2>5, Zenon
  <2> QED BY <2>6, Zenon
<1>3. Len(list) \in Nat
  OBVIOUS
<1>4. P(Len(list))
  <2> DEFINE Good == {n \in Nat : P(n)}
  <2> HIDE DEF P
  <2>1. 0 \in Good
    BY <1>1
  <2>2. \A n \in Nat : n \in Good => n + 1 \in Good
    BY <1>2
  <2>3. \A n \in Nat : n \in Good
    <3> HIDE DEF Good
    <3> QED BY <2>1, <2>2, NatSetInduction
  <2> QED BY <1>3, <2>3
<1>5. PICK g : Ok(g, Len(list))
  <2>1. Len(list) <= Len(list)
    BY <1>3
  <2> QED BY <1>4, <2>1, Zenon
<1> DEFINE Def(k) == [i \in 0..Len(list) |->
                        IF i = 0 THEN <<>>
                        ELSE IF i \in I THEN k[i - 1] ELSE Append(k[i - 1], list[i])]
           kept == CHOOSE k : k = Def(k)
<1>6. g = Def(g)
  <2> DEFINE Body(i) == IF i = 0 THEN <<>>
                        ELSE IF i \in I THEN g[i - 1] ELSE Append(g[i - 1], list[i])
  <2>1. g = [i \in 0..Len(list) |-> g[i]]
    BY <1>3, <1>5
  <2>2. ASSUME NEW i \in 0..Len(list) PROVE g[i] = Body(i)
    <3>1. CASE i = 0
      BY <1>5, <3>1, Zenon
    <3>2. CASE i # 0
      <4>1. i \in 1..Len(list)
        BY <1>3, <3>2
      <4> QED BY <1>5, <3>2, <4>1, Zenon
    <3> QED BY <3>1, <3>2
  <2> HIDE DEF Body
  <2>3. g = [i \in 0..Len(list) |-> Body(i)]
    BY <2>1, <2>2, Zenon
  <2> QED BY <2>3, Zenon DEF Body
<1>7. kept = Def(kept)
  <2> HIDE DEF Def
  <2> QED BY <1>6
<1>8. Dropping(list, I) = kept[Len(list)]
  BY DEF Dropping
<1> HIDE DEF kept
<1> DEFINE Q(n) == n <= Len(list) => kept[n] \in Seq(S)
<1>9. Q(0)
  <2>1. kept[0] = <<>>
    BY <1>3, <1>7
  <2> QED BY <2>1
<1>10. ASSUME NEW n \in Nat, Q(n) PROVE Q(n + 1)
  <2> SUFFICES ASSUME n + 1 <= Len(list) PROVE kept[n + 1] \in Seq(S)
    OBVIOUS
  <2>1. kept[n] \in Seq(S) /\ list[n + 1] \in S
    BY <1>10
  <2>2. kept[n + 1] \in Seq(S)
    <3>1. n + 1 \in 0..Len(list) /\ n + 1 # 0 /\ n + 1 - 1 = n
      BY <1>3
    <3> DEFINE Body(i) == IF i = 0 THEN <<>>
                          ELSE IF i \in I THEN kept[i - 1]
                          ELSE Append(kept[i - 1], list[i])
    <3>2. kept = [i \in 0..Len(list) |-> Body(i)]
      BY <1>7, Zenon
    <3> HIDE DEF Body
    <3>3. kept[n + 1] = Body(n + 1)
      BY ONLY <3>1, <3>2
    <3>4. CASE n + 1 \in I
      <4>1. Body(n + 1) = kept[n]
        BY ONLY <3>1, <3>4 DEF Body
      <4> QED BY <2>1, <3>3, <4>1
    <3>5. CASE n + 1 \notin I
      <4>1. Body(n + 1) = Append(kept[n], list[n + 1])
        BY ONLY <3>1, <3>5 DEF Body
      <4>2. ASSUME NEW q \in Seq(S), NEW e \in S
            PROVE  Append(q, e) \in Seq(S)
        OBVIOUS
      <4>3. Append(kept[n], list[n + 1]) \in Seq(S)
        BY ONLY <2>1, <4>2, Zenon
      <4> QED BY ONLY <3>3, <4>1, <4>3, Zenon
    <3> QED BY <3>4, <3>5
  <2> QED BY <2>2
<1>11. ASSUME NEW i \in 0..Len(list) PROVE kept[i] \in Seq(S)
  <2> DEFINE Good == {n \in Nat : Q(n)}
  <2> HIDE DEF Q
  <2>1. 0 \in Good
    BY <1>9
  <2>2. \A n \in Nat : n \in Good => n + 1 \in Good
    BY <1>10
  <2>3. \A n \in Nat : n \in Good
    <3> HIDE DEF Good
    <3> QED BY <2>1, <2>2, NatSetInduction
  <2>4. Q(i)
    BY <1>3, <2>3
  <2>5. i <= Len(list)
    BY <1>3
  <2> QED BY <2>4, <2>5 DEF Q
<1>12. kept \in [0..Len(list) -> Seq(S)]
  <2> DEFINE Body(i) == IF i = 0 THEN <<>>
                        ELSE IF i \in I THEN kept[i - 1]
                        ELSE Append(kept[i - 1], list[i])
  <2>1. kept = [i \in 0..Len(list) |-> Body(i)]
    BY <1>7, Zenon
  <2> HIDE DEF Body
  <2> QED BY ONLY <1>11, <2>1
<1>13. kept[0] = <<>>
  BY <1>3, <1>7
<1>14. ASSUME NEW i \in 1..Len(list)
       PROVE  kept[i] = IF i \in I THEN kept[i - 1] ELSE Append(kept[i - 1], list[i])
  <2> DEFINE Body(j) == IF j = 0 THEN <<>>
                        ELSE IF j \in I THEN kept[j - 1]
                        ELSE Append(kept[j - 1], list[j])
  <2>1. kept = [j \in 0..Len(list) |-> Body(j)]
    BY <1>7, Zenon
  <2>2. i \in 0..Len(list) /\ i # 0
    BY <1>3
  <2> HIDE DEF Body
  <2>3. kept[i] = Body(i)
    BY ONLY <2>1, <2>2
  <2> QED BY <2>2, <2>3, Zenon DEF Body
<1> QED BY <1>8, <1>12, <1>13, <1>14, Zenon DEF DroppingRun

\* What a loop that drops elements keeps: a part of the list, each element from
\* a place of its own, and fewer of them if there was something to drop.
Part(w, s, n, I) ==
  /\ Len(w) <= n
  /\ (\E i \in 1..n : i \in I) => Len(w) < n
  /\ \A a \in 1..Len(w) : \E i \in 1..n : i \notin I /\ s[i] = w[a]
  /\ \A a, b \in 1..Len(w) : a # b =>
       \E i, j \in 1..n : i # j /\ i \notin I /\ j \notin I /\ s[i] = w[a] /\ s[j] = w[b]

LEMMA DroppingKeeps ==
  ASSUME NEW S, NEW s \in Seq(S), NEW I
  PROVE  Dropping(s, I) \in Seq(S) /\ Part(Dropping(s, I), s, Len(s), I)
<1>1. PICK kept : DroppingRun(kept, s, I, S)
  BY DroppingSteps
<1>2. /\ kept \in [0..Len(s) -> Seq(S)] /\ kept[0] = <<>>
      /\ Dropping(s, I) = kept[Len(s)]
      /\ \A i \in 1..Len(s) :
           kept[i] = IF i \in I THEN kept[i - 1] ELSE Append(kept[i - 1], s[i])
  BY <1>1 DEF DroppingRun
<1>3. Len(s) \in Nat
  OBVIOUS
<1> DEFINE Good == {n \in Nat : n <= Len(s) => Part(kept[n], s, n, I)}
<1>4. 0 \in Good
  BY <1>2 DEF Part
<1>5. ASSUME NEW n \in Nat, n \in Good PROVE n + 1 \in Good
  <2> SUFFICES ASSUME n + 1 <= Len(s) PROVE Part(kept[n + 1], s, n + 1, I)
    OBVIOUS
  <2>1. Part(kept[n], s, n, I)
    BY <1>3, <1>5
  <2>2. kept[n] \in Seq(S) /\ kept[n + 1] \in Seq(S) /\ s[n + 1] \in S
    <3>1. n \in 0..Len(s) /\ n + 1 \in 0..Len(s) /\ n + 1 \in 1..Len(s)
      BY <1>3
    <3>2. s[n + 1] \in S
      BY <3>1
    <3> QED BY <1>2, <3>1, <3>2, Zenon
  <2>3. kept[n + 1] = IF n + 1 \in I THEN kept[n] ELSE Append(kept[n], s[n + 1])
    <3>1. n + 1 \in 1..Len(s) /\ n + 1 - 1 = n
      BY <1>3
    <3> QED BY <1>2, <3>1
  <2>4. CASE n + 1 \in I
    <3> DEFINE v == kept[n]
    <3>1. kept[n + 1] = v /\ Len(v) \in Nat /\ Part(v, s, n, I)
      BY <2>1, <2>2, <2>3, <2>4
    <3> HIDE DEF v
    <3>2. Part(v, s, n + 1, I)
      <4>1. \A i \in 1..n : i \in 1..(n + 1)
        OBVIOUS
      <4>2. Len(v) <= n + 1 /\ Len(v) < n + 1
        BY <3>1 DEF Part
      <4>3. \A a \in 1..Len(v) : \E i \in 1..(n + 1) : i \notin I /\ s[i] = v[a]
        BY <3>1, <4>1 DEF Part
      <4>4. ASSUME NEW a \in 1..Len(v), NEW b \in 1..Len(v), a # b
            PROVE  \E i, j \in 1..(n + 1) : i # j /\ i \notin I /\ j \notin I
                                            /\ s[i] = v[a] /\ s[j] = v[b]
        <5>1. PICK i \in 1..n, j \in 1..n :
                i # j /\ i \notin I /\ j \notin I /\ s[i] = v[a] /\ s[j] = v[b]
          BY <3>1, <4>4 DEF Part
        <5> QED BY <4>1, <5>1
      <4> QED BY <4>2, <4>3, <4>4 DEF Part
    <3> QED BY <3>1, <3>2
  <2>5. CASE n + 1 \notin I
    <3> DEFINE v == kept[n]
               w == kept[n + 1]
    <3>1. /\ Len(w) = Len(v) + 1 /\ w[Len(v) + 1] = s[n + 1]
          /\ \A a \in 1..Len(v) : w[a] = v[a]
      BY <2>2, <2>3, <2>5
    <3>2. Len(v) \in Nat
      BY <2>2
    <3> HIDE DEF v, w
    <3>3. Part(v, s, n, I)
      BY <2>1 DEF v
    <3>4. Len(w) <= n + 1 /\ ((\E i \in 1..(n + 1) : i \in I) => Len(w) < n + 1)
      BY <2>5, <3>1, <3>2, <3>3 DEF Part
    <3>5. ASSUME NEW a \in 1..Len(w)
          PROVE  \E i \in 1..(n + 1) : i \notin I /\ s[i] = w[a]
      <4>1. CASE a = Len(v) + 1
        BY <2>5, <3>1, <4>1
      <4>2. CASE a \in 1..Len(v)
        BY <3>1, <3>3, <4>2 DEF Part
      <4> QED BY <3>1, <3>2, <4>1, <4>2
    <3>6. ASSUME NEW a \in 1..Len(w), NEW b \in 1..Len(w), a # b
          PROVE  \E i, j \in 1..(n + 1) : i # j /\ i \notin I /\ j \notin I
                                          /\ s[i] = w[a] /\ s[j] = w[b]
      <4>1. CASE a \in 1..Len(v) /\ b \in 1..Len(v)
        <5>1. PICK i \in 1..n, j \in 1..n :
                i # j /\ i \notin I /\ j \notin I /\ s[i] = v[a] /\ s[j] = v[b]
          BY <3>3, <3>6, <4>1 DEF Part
        <5> QED BY <3>1, <4>1, <5>1
      <4>2. CASE a = Len(v) + 1 /\ b \in 1..Len(v)
        <5>1. PICK j \in 1..n : j \notin I /\ s[j] = v[b]
          BY <3>3, <4>2 DEF Part
        <5> QED BY <2>5, <3>1, <4>2, <5>1
      <4>3. CASE b = Len(v) + 1 /\ a \in 1..Len(v)
        <5>1. PICK i \in 1..n : i \notin I /\ s[i] = v[a]
          BY <3>3, <4>3 DEF Part
        <5> QED BY <2>5, <3>1, <4>3, <5>1
      <4> QED BY <3>1, <3>2, <3>6, <4>1, <4>2, <4>3
    <3> QED BY <3>4, <3>5, <3>6 DEF Part, w
  <2> QED BY <2>4, <2>5
<1>6. Len(s) \in Good
  <2> HIDE DEF Good
  <2> QED BY <1>3, <1>4, <1>5, NatSetInduction
<1> QED BY <1>2, <1>3, <1>6
=============================================================================
