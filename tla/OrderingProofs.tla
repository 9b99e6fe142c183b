----------------------------- MODULE OrderingProofs ----------------------------
(***************************************************************************)
(* What InOrder returns, for every finite set of numbers: every member     *)
(* once, in increasing order.  And what an order on the numbers is for:    *)
(* every set of them has a least one, hence induction, stated for sets.    *)
(* By that induction: what FlattenSeq does when its argument grows.        *)
(***************************************************************************)
EXTENDS Ordering, SequencesExt, SequenceTheorems, FiniteSetTheorems, WellFoundedInduction, TLAPS

(* A set of natural numbers that has a member has a least one.             *)
LEMMA LeastNumber ==
    ASSUME NEW T, T \subseteq Nat, T # {}
    PROVE  \E m \in T : \A n \in T : m <= n
<1>1. \E m \in T : \A n \in T : ~ (<<n, m>> \in OpToRel(<, Nat))
  BY NatLessThanWellFounded, WFMin
<1>2. PICK m \in T : \A n \in T : ~ (<<n, m>> \in OpToRel(<, Nat))
  BY <1>1
<1>3. ASSUME NEW n \in T
      PROVE  m <= n
  <2>1. ~ (n < m)
    BY <1>2 DEF OpToRel
  <2> QED BY <2>1
<1> QED BY <1>3

(* A set with 0 and the successor of each of its numbers has them all.     *)
LEMMA SetInduction ==
    ASSUME NEW T, 0 \in T, \A n \in Nat : n \in T => n + 1 \in T
    PROVE  Nat \subseteq T
<1> SUFFICES ASSUME Nat \ T # {}
             PROVE  FALSE
  OBVIOUS
<1>1. PICK m \in Nat \ T : \A n \in Nat \ T : m <= n
  BY LeastNumber
<1>2. m # 0 /\ m - 1 \in Nat
  BY <1>1
<1>3. m - 1 \in T
  BY <1>1, <1>2
<1> QED BY <1>1, <1>2, <1>3

(* A rank lies between 1 and the size of the set, and ranks follow order. *)
LEMMA RankProperties ==
    ASSUME NEW S, S \subseteq Int, IsFiniteSet(S), NEW i \in S
    PROVE  /\ Rank(S, i) \in 1..Cardinality(S)
           /\ \A j \in S : i < j => Rank(S, i) < Rank(S, j)
<1> DEFINE Below(x) == {y \in S : y <= x}
<1>1. \A x \in S : /\ IsFiniteSet(Below(x))
                   /\ Cardinality(Below(x)) \in Nat
                   /\ Cardinality(Below(x)) <= Cardinality(S)
  BY FS_Subset, FS_CardinalityType
<1>2. Cardinality(S) \in Nat
  BY FS_CardinalityType
<1>3. Cardinality(Below(i)) # 0
  BY <1>1, FS_EmptySet
<1>4. ASSUME NEW j \in S, i < j PROVE Cardinality(Below(i)) < Cardinality(Below(j))
  <2>1. Below(i) \in SUBSET Below(j)
    <3>1. \A y \in S : y \in Int
      OBVIOUS
    <3>2. \A y \in S : y <= i => y <= j
      BY <1>4, <3>1
    <3> QED BY <3>2
  <2>2. j \in Below(j) /\ j \notin Below(i)
    BY <1>4
  <2>3. Below(i) # Below(j)
    BY <2>2
  <2> HIDE DEF Below
  <2>4. Cardinality(Below(i)) <= Cardinality(Below(j)) /\ Cardinality(Below(i)) # Cardinality(Below(j))
    BY <2>1, <2>3, <1>1, FS_Subset
  <2> QED BY <2>4, <1>1
<1> QED BY <1>1, <1>2, <1>3, <1>4 DEF Rank

(* Two members of the same rank are one. *)
LEMMA RankInjective ==
    ASSUME NEW S, S \subseteq Int, IsFiniteSet(S), NEW i \in S, NEW j \in S,
           Rank(S, i) = Rank(S, j)
    PROVE  i = j
<1>1. i \in Int /\ j \in Int
  OBVIOUS
<1>2. Rank(S, i) \in Int /\ Rank(S, j) \in Int
  <2>1. Cardinality(S) \in Nat
    BY FS_CardinalityType
  <2>2. Rank(S, i) \in 1..Cardinality(S) /\ Rank(S, j) \in 1..Cardinality(S)
    BY RankProperties
  <2> QED BY <2>1, <2>2
<1>3. i < j => Rank(S, i) < Rank(S, j)
  BY RankProperties
<1>4. j < i => Rank(S, j) < Rank(S, i)
  BY RankProperties
<1> QED BY <1>1, <1>2, <1>3, <1>4

(* Every rank from 1 to the size of the set is taken: the ranks are as     *)
(* many as the members and no two members share one.                       *)
LEMMA EveryRankTaken ==
    ASSUME NEW S, S \subseteq Int, IsFiniteSet(S), NEW k \in 1..Cardinality(S)
    PROVE  \E i \in S : Rank(S, i) = k
<1> DEFINE n == Cardinality(S)
           f == [i \in S |-> Rank(S, i)]
<1>1. n \in Nat
  BY FS_CardinalityType
<1> SUFFICES ASSUME \A i \in S : Rank(S, i) # k PROVE FALSE
  OBVIOUS
<1>2. IsFiniteSet(1..n) /\ Cardinality(1..n) = n
  BY <1>1, FS_Interval
<1>3. IsFiniteSet((1..n) \ {k}) /\ Cardinality((1..n) \ {k}) = n - 1
  BY <1>2, FS_RemoveElement
<1>4. f \in [S -> (1..n) \ {k}]
  BY RankProperties
<1>5. Cardinality((1..n) \ {k}) < Cardinality(S)
  BY <1>1, <1>3
<1>6. PICK i, j \in S : i # j /\ f[i] = f[j]
  <2> HIDE DEF f, n
  <2> QED BY <1>3, <1>4, <1>5, FS_PigeonHole
<1>7. Rank(S, i) = Rank(S, j)
  BY <1>6
<1> QED BY <1>6, <1>7, RankInjective

(* InOrder(S) lists the members of S, each one, in increasing order. *)
THEOREM InOrderProperties ==
    ASSUME NEW S, S \subseteq Int, IsFiniteSet(S)
    PROVE  /\ InOrder(S) \in [1..Cardinality(S) -> S]
           /\ \A i \in S : \E k \in 1..Cardinality(S) : InOrder(S)[k] = i
           /\ \A j, k \in 1..Cardinality(S) : j < k => InOrder(S)[j] < InOrder(S)[k]
<1> DEFINE at == InOrder(S)
           n == Cardinality(S)
<1>0. n \in Nat
  BY FS_CardinalityType
<1>1. \A k \in 1..n : at[k] \in S /\ Rank(S, at[k]) = k
  BY EveryRankTaken DEF InOrder
<1>2. at \in [1..n -> S]
  BY <1>1 DEF InOrder
<1>3. ASSUME NEW i \in S PROVE \E k \in 1..n : at[k] = i
  <2> DEFINE k == Rank(S, i)
  <2>1. k \in 1..n
    BY RankProperties
  <2>2. at[k] \in S /\ Rank(S, at[k]) = k
    BY <1>1, <2>1
  <2>3. at[k] = i
    BY <2>2, RankInjective
  <2> QED BY <2>1, <2>3
<1>4. ASSUME NEW j \in 1..n, NEW k \in 1..n, j < k PROVE at[j] < at[k]
  <2>1. at[j] \in Int /\ at[k] \in Int
    BY <1>1
  <2>2. ~(at[k] <= at[j])
    <3> SUFFICES ASSUME at[k] <= at[j] PROVE FALSE
      OBVIOUS
    <3>1. CASE at[k] = at[j]
      <4> HIDE DEF at
      <4> QED BY <3>1, <1>1, <1>4
    <3>2. CASE at[k] < at[j]
      <4> HIDE DEF at
      <4>1. Rank(S, at[k]) < Rank(S, at[j])
        BY <3>2, <1>1, RankProperties
      <4> QED BY <4>1, <1>1, <1>4
    <3> QED BY <2>1, <3>1, <3>2
  <2> QED BY <2>1, <2>2
<1> QED BY <1>2, <1>3, <1>4

--------------------------------------------------------------------------------
(* FlattenSeq, which grows with its argument. *)

(* The function in the definition of FlattenSeq, over the first n. *)
Flattens(s, n, f) == f = [i \in 1..n |-> IF i = 1 THEN s[i] ELSE f[i - 1] \o s[i]]

(* There is such a function, one part after the other.                     *)
LEMMA FlatteningExists ==
    ASSUME NEW s, NEW n \in Nat
    PROVE  \E f : Flattens(s, n, f)
<1> DEFINE T == {m \in Nat : \E f : Flattens(s, m, f)}
<1>1. 0 \in T
  <2> DEFINE f == [i \in 1..0 |-> <<>>]
  <2>1. Flattens(s, 0, f)
    BY DEF Flattens
  <2> HIDE DEF f
  <2> QED BY <2>1
<1>2. ASSUME NEW m \in Nat, m \in T
      PROVE  m + 1 \in T
  <2>1. PICK f : Flattens(s, m, f)
    BY <1>2
  <2> DEFINE last == IF m = 0 THEN s[m + 1] ELSE f[m] \o s[m + 1]
             g == [i \in 1..(m + 1) |-> IF i = m + 1 THEN last ELSE f[i]]
             h == [i \in 1..(m + 1) |-> IF i = 1 THEN s[i] ELSE g[i - 1] \o s[i]]
  <2>2. \A i \in 1..m : f[i] = IF i = 1 THEN s[i] ELSE f[i - 1] \o s[i]
    BY <2>1 DEF Flattens
  <2>3. ASSUME NEW i \in 1..(m + 1)
        PROVE  g[i] = h[i]
    <3>1. CASE i = m + 1
      <4>1. CASE m = 0
        BY <3>1, <4>1
      <4>2. CASE m # 0
        <5>1. i # 1 /\ i - 1 \in 1..(m + 1) /\ i - 1 # m + 1 /\ i - 1 = m
          BY <3>1, <4>2
        <5>2. g[i - 1] = f[m]
          BY <5>1
        <5> QED BY <3>1, <4>2, <5>1, <5>2
      <4> QED BY <4>1, <4>2
    <3>2. CASE i # m + 1
      <4>1. i \in 1..m /\ g[i] = f[i]
        BY <3>2
      <4>2. CASE i = 1
        BY <2>2, <4>1, <4>2
      <4>3. CASE i # 1
        <5>1. i - 1 \in 1..(m + 1) /\ i - 1 # m + 1
          BY <4>1, <4>3
        <5>2. g[i - 1] = f[i - 1]
          BY <5>1
        <5> QED BY <2>2, <4>1, <4>3, <5>2
      <4> QED BY <4>2, <4>3
    <3> QED BY <3>1, <3>2
  <2>4. g = h
    BY <2>3
  <2>5. Flattens(s, m + 1, g)
    BY <2>4 DEF Flattens
  <2> QED BY <2>5
<1> HIDE DEF T
<1>3. Nat \subseteq T
  BY <1>1, <1>2, SetInduction
<1> QED BY <1>3 DEF T

(* The same up to the n-th. *)
SameUpTo(n, s, r) == \A i \in 1..n : s[i] = r[i]

(* Two such functions agree as far as the sequences do.                    *)
LEMMA FlatteningUnique ==
    ASSUME NEW n \in Nat, NEW m \in Nat, n <= m,
           NEW s, NEW r, SameUpTo(n, s, r),
           NEW f, Flattens(s, n, f), NEW g, Flattens(r, m, g)
    PROVE  SameUpTo(n, f, g)
<1> DEFINE T == {k \in Nat : k + 1 \in 1..n => f[k + 1] = g[k + 1]}
<1>1. /\ \A i \in 1..n : f[i] = IF i = 1 THEN s[i] ELSE f[i - 1] \o s[i]
      /\ \A i \in 1..m : g[i] = IF i = 1 THEN r[i] ELSE g[i - 1] \o r[i]
  BY DEF Flattens
<1>2. 0 \in T
  BY <1>1 DEF SameUpTo
<1>3. ASSUME NEW k \in Nat, k \in T
      PROVE  k + 1 \in T
  <2> SUFFICES ASSUME k + 2 \in 1..n
               PROVE  f[k + 2] = g[k + 2]
    BY <1>3
  <2>1. f[k + 1] = g[k + 1]
    BY <1>3
  <2>2. k + 2 \in 1..m /\ k + 2 # 1 /\ (k + 2) - 1 = k + 1 /\ r[k + 2] = s[k + 2]
    BY DEF SameUpTo
  <2> QED BY <1>1, <2>1, <2>2
<1> HIDE DEF T
<1>4. Nat \subseteq T
  BY <1>2, <1>3, SetInduction
<1>5. ASSUME NEW i \in 1..n
      PROVE  f[i] = g[i]
  <2>1. i - 1 \in T /\ (i - 1) + 1 = i
    BY <1>4
  <2> QED BY <2>1 DEF T
<1> QED BY <1>5 DEF SameUpTo

(* What the function holds is a sequence.                                  *)
LEMMA FlatteningType ==
    ASSUME NEW S, NEW s \in Seq(Seq(S)), NEW f, Flattens(s, Len(s), f)
    PROVE  \A i \in 1..Len(s) : f[i] \in Seq(S)
<1> DEFINE n == Len(s)
           T == {k \in Nat : k + 1 \in 1..n => f[k + 1] \in Seq(S)}
<1>1. n \in Nat /\ \A i \in 1..n : s[i] \in Seq(S)
  BY LenProperties
<1>2. \A i \in 1..n : f[i] = IF i = 1 THEN s[i] ELSE f[i - 1] \o s[i]
  BY DEF Flattens
<1> HIDE DEF n
<1>3. 0 \in T
  BY <1>1, <1>2
<1>4. ASSUME NEW k \in Nat, k \in T
      PROVE  k + 1 \in T
  <2> SUFFICES ASSUME k + 2 \in 1..n
               PROVE  f[k + 2] \in Seq(S)
    BY <1>4
  <2>1. f[k + 1] \in Seq(S) /\ s[k + 2] \in Seq(S)
    BY <1>1, <1>4
  <2>2. f[k + 2] = f[k + 1] \o s[k + 2]
    <3>1. k + 2 # 1 /\ (k + 2) - 1 = k + 1
      OBVIOUS
    <3> QED BY <1>2, <3>1
  <2> QED BY <2>1, <2>2, ConcatProperties
<1> HIDE DEF T
<1>5. Nat \subseteq T
  BY <1>3, <1>4, SetInduction
<1>6. ASSUME NEW i \in 1..n
      PROVE  f[i] \in Seq(S)
  <2>1. i - 1 \in T /\ (i - 1) + 1 = i
    BY <1>1, <1>5
  <2> QED BY <2>1 DEF T
<1> QED BY <1>6 DEF n

(* FlattenSeq is the last value of such a function.                        *)
LEMMA FlattenSeqIs ==
    ASSUME NEW S, NEW s \in Seq(Seq(S)), Len(s) # 0
    PROVE  \E f : Flattens(s, Len(s), f) /\ FlattenSeq(s) = f[Len(s)]
<1> DEFINE f == CHOOSE g : g = [i \in 1..Len(s) |-> IF i = 1 THEN s[i] ELSE g[i - 1] \o s[i]]
<1>1. FlattenSeq(s) = f[Len(s)]
  BY DEF FlattenSeq
<1>2. \E g : g = [i \in 1..Len(s) |-> IF i = 1 THEN s[i] ELSE g[i - 1] \o s[i]]
  <2>1. \E g : Flattens(s, Len(s), g)
    BY FlatteningExists, LenProperties
  <2> QED BY <2>1, Zenon DEF Flattens
<1>3. Flattens(s, Len(s), f)
  BY <1>2 DEF Flattens
<1> HIDE DEF f
<1> QED BY <1>1, <1>3

(* Flattening goes on where it stopped.                                    *)
LEMMA FlattenProperties ==
    ASSUME NEW S, NEW s \in Seq(Seq(S))
    PROVE  /\ FlattenSeq(s) \in Seq(S)
           /\ s = <<>> => FlattenSeq(s) = <<>>
           /\ \A x \in Seq(S) : FlattenSeq(Append(s, x)) = FlattenSeq(s) \o x
<1>1. Len(s) \in Nat /\ \A i \in 1..Len(s) : s[i] \in Seq(S)
  BY LenProperties
<1>2. s = <<>> => FlattenSeq(s) = <<>>
  BY DEF FlattenSeq
<1>3. FlattenSeq(s) \in Seq(S)
  <2>1. CASE Len(s) = 0
    <3>1. s = <<>>
      BY <2>1, EmptySeq
    <3> QED BY <1>2, <3>1, EmptySeq
  <2>2. CASE Len(s) # 0
    BY <1>1, <2>2, FlattenSeqIs, FlatteningType
  <2> QED BY <2>1, <2>2
<1>4. ASSUME NEW x \in Seq(S)
      PROVE  FlattenSeq(Append(s, x)) = FlattenSeq(s) \o x
  <2> DEFINE r == Append(s, x)
  <2>6. PICK n \in Nat : n = Len(s)
    BY <1>1
  <2>1. /\ r \in Seq(Seq(S)) /\ Len(r) = n + 1 /\ r[n + 1] = x
        /\ \A i \in 1..n : r[i] = s[i]
    BY <2>6, AppendProperties
  <2> HIDE DEF r
  <2>2. PICK g : Flattens(r, n + 1, g) /\ FlattenSeq(r) = g[n + 1]
    BY <1>1, <2>1, FlattenSeqIs
  <2>3. n + 1 \in 1..(n + 1) /\ g[n + 1] = IF n + 1 = 1 THEN x ELSE g[(n + 1) - 1] \o x
    <3>1. \A i \in 1..(n + 1) : g[i] = IF i = 1 THEN r[i] ELSE g[i - 1] \o r[i]
      BY <2>2 DEF Flattens
    <3>2. n + 1 \in 1..(n + 1)
      BY <2>6
    <3> QED BY <2>1, <3>1, <3>2
  <2>4. CASE n = 0
    <3>1. s = <<>> /\ FlattenSeq(r) = x
      BY <2>2, <2>3, <2>4, <2>6, EmptySeq
    <3> QED BY <1>2, <3>1, ConcatEmptySeq DEF r
  <2>5. CASE n # 0
    <3>1. PICK f : Flattens(s, n, f) /\ FlattenSeq(s) = f[n]
      BY <2>5, <2>6, FlattenSeqIs
    <3>2. f[n] = g[n]
      <4>1. n \in 1..n /\ n \in Nat /\ n + 1 \in Nat /\ n <= n + 1
        BY <2>5, <2>6
      <4>2. SameUpTo(n, f, g)
        <5>1. /\ n \in Nat /\ n + 1 \in Nat /\ n <= n + 1
              /\ SameUpTo(n, s, r)
              /\ Flattens(s, n, f) /\ Flattens(r, n + 1, g)
          BY <2>1, <2>2, <3>1, <4>1 DEF SameUpTo
        <5> QED BY <5>1, FlatteningUnique
      <4> QED BY <4>1, <4>2 DEF SameUpTo
    <3>3. g[n + 1] = g[n] \o x
      <4>1. n + 1 # 1 /\ (n + 1) - 1 = n
        BY <2>5, <2>6
      <4> QED BY <2>3, <4>1
    <3> QED BY <2>2, <3>1, <3>2, <3>3 DEF r
  <2> QED BY <2>4, <2>5
<1> QED BY <1>2, <1>3, <1>4

================================================================================
