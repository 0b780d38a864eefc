---------------------------- MODULE Collections ----------------------------
(***************************************************************************)
(* What the proofs need to know of sequences and sums.                     *)
(*                                                                         *)
(* Vec::retain and VecDeque::retain: what is left of a sequence when only  *)
(* some of its positions stay, in their order.  The k-th that is left is   *)
(* the position with k kept ones up to it.                                 *)
(*                                                                         *)
(* SumFunctionOnSet adds one member after the other, in an order nobody    *)
(* knows: the lemmas say that the order does not matter, and what becomes  *)
(* of a sum when a member comes, goes or changes.                          *)
(***************************************************************************)
EXTENDS Integers, Sequences, Functions, FiniteSets, FiniteSetTheorems, WellFoundedInduction, TLAPS

Rank(keep, i) == Cardinality({j \in keep : j <= i})
Retain(s, keep) == [k \in 1..Cardinality(keep) |-> s[CHOOSE i \in keep : Rank(keep, i) = k]]

-----------------------------------------------------------------------------
\* Kept positions have different ranks, and there is one of every rank.
LEMMA Ranked ==
  ASSUME NEW n \in Nat, NEW keep \in SUBSET (1..n)
  PROVE  /\ IsFiniteSet(keep) /\ Cardinality(keep) \in 0..n
         /\ \A i \in keep : Rank(keep, i) \in 1..Cardinality(keep)
         /\ \A i, j \in keep : i < j => Rank(keep, i) < Rank(keep, j)
         /\ \A k \in 1..Cardinality(keep) : \E i \in keep : Rank(keep, i) = k
  <1> DEFINE upTo(i) == {j \in keep : j <= i}
             m == Cardinality(keep)
             r == [i \in keep |-> Rank(keep, i)]
  <1>1. IsFiniteSet(1..n) /\ Cardinality(1..n) = n
    <2>1. IsFiniteSet(1..n) /\ Cardinality(1..n) = IF 1 > n THEN 0 ELSE n - 1 + 1
      BY FS_Interval
    <2> QED  BY <2>1
  <1>2. IsFiniteSet(keep) /\ m <= n
    BY <1>1, FS_Subset
  <1>3. m \in Nat
    BY <1>2, FS_CardinalityType
  <1>4. \A i \in keep : upTo(i) \in SUBSET keep /\ i \in upTo(i)
    OBVIOUS
  <1>5. \A i \in keep : IsFiniteSet(upTo(i)) /\ Cardinality(upTo(i)) \in Nat /\ Cardinality(upTo(i)) <= m
    <2> SUFFICES ASSUME NEW i \in keep
                 PROVE  IsFiniteSet(upTo(i)) /\ Cardinality(upTo(i)) \in Nat /\ Cardinality(upTo(i)) <= m
      OBVIOUS
    <2>1. upTo(i) \in SUBSET keep
      BY <1>4
    <2> HIDE DEF upTo
    <2>2. IsFiniteSet(upTo(i)) /\ Cardinality(upTo(i)) <= m
      BY <1>2, <2>1, FS_Subset
    <2> QED  BY <2>2, FS_CardinalityType
  <1>6. \A i \in keep : Cardinality(upTo(i)) # 0
    <2> SUFFICES ASSUME NEW i \in keep PROVE Cardinality(upTo(i)) # 0
      OBVIOUS
    <2>1. upTo(i) # {} /\ IsFiniteSet(upTo(i))
      BY <1>4, <1>5
    <2> QED  BY <2>1, FS_EmptySet
  <1>7. \A i \in keep : Rank(keep, i) \in 1..m
    BY <1>3, <1>5, <1>6 DEF Rank
  <1>8. \A i, j \in keep : i < j => Rank(keep, i) < Rank(keep, j)
    <2> SUFFICES ASSUME NEW i \in keep, NEW j \in keep, i < j
                 PROVE  Cardinality(upTo(i)) < Cardinality(upTo(j))
      BY DEF Rank
    <2>0. \A k \in keep : k \in Int
      OBVIOUS
    <2>1. upTo(i) \in SUBSET upTo(j) /\ j \in upTo(j) /\ j \notin upTo(i)
      <3>1. \A k \in keep : k <= i => k <= j
        BY <2>0
      <3>2. j <= j /\ ~(j <= i)
        BY <2>0
      <3> QED  BY <3>1, <3>2
    <2>2. upTo(i) # upTo(j)
      BY <2>1
    <2>3. IsFiniteSet(upTo(j)) /\ Cardinality(upTo(i)) \in Nat /\ Cardinality(upTo(j)) \in Nat
      BY <1>5
    <2> HIDE DEF upTo
    <2>4. /\ Cardinality(upTo(i)) <= Cardinality(upTo(j))
          /\ Cardinality(upTo(j)) = Cardinality(upTo(i)) => upTo(j) = upTo(i)
      BY <2>1, <2>3, FS_Subset
    <2> QED  BY <2>2, <2>3, <2>4
  <1>9. r \in Injection(keep, 1..m)
    <2>1. r \in [keep -> 1..m]
      BY <1>7
    <2>2. \A i, j \in keep : r[i] = r[j] => i = j
      <3> SUFFICES ASSUME NEW i \in keep, NEW j \in keep, i # j PROVE r[i] # r[j]
        OBVIOUS
      <3>1. i < j \/ j < i
        OBVIOUS
      <3>2. Rank(keep, i) \in Nat /\ Rank(keep, j) \in Nat
        BY <1>7
      <3> QED  BY <3>1, <3>2, <1>8
    <2> QED  BY <2>1, <2>2 DEF Injection, IsInjective
  <1>10. IsFiniteSet(1..m) /\ Cardinality(1..m) = m
    <2>1. IsFiniteSet(1..m) /\ Cardinality(1..m) = IF 1 > m THEN 0 ELSE m - 1 + 1
      BY <1>3, FS_Interval
    <2> QED  BY <2>1, <1>3
  <1>11. r \in Surjection(keep, 1..m)
    <2> HIDE DEF r
    <2> QED  BY <1>9, <1>10, FS_Injection
  <1>12. \A k \in 1..m : \E i \in keep : r[i] = k
    BY <1>11 DEF Surjection
  <1> QED  BY <1>2, <1>3, <1>7, <1>8, <1>12

\* What is left is shorter or as long, holds only what was at kept positions, all of it, and
\* repeats nothing that was not repeated.
LEMMA Retained ==
  ASSUME NEW A, NEW s \in Seq(A), NEW keep \in SUBSET DOMAIN s
  PROVE  /\ Retain(s, keep) \in Seq(A)
         /\ Len(Retain(s, keep)) = Cardinality(keep) /\ Cardinality(keep) \in 0..Len(s)
         /\ \A k \in DOMAIN Retain(s, keep) : \E i \in keep :
              Retain(s, keep)[k] = s[i] /\ Rank(keep, i) = k
         /\ \A i \in keep : \E k \in DOMAIN Retain(s, keep) : Retain(s, keep)[k] = s[i]
  <1> DEFINE m == Cardinality(keep)
             t == Retain(s, keep)
             at(k) == CHOOSE i \in keep : Rank(keep, i) = k
  <1>1. Len(s) \in Nat /\ DOMAIN s = 1..Len(s)
    OBVIOUS
  <1>2. /\ m \in 0..Len(s)
        /\ \A i \in keep : Rank(keep, i) \in 1..m
        /\ \A i, j \in keep : i < j => Rank(keep, i) < Rank(keep, j)
        /\ \A k \in 1..m : \E i \in keep : Rank(keep, i) = k
    BY <1>1, Ranked
  <1>3. \A k \in 1..m : at(k) \in keep /\ Rank(keep, at(k)) = k
    BY <1>2
  <1>4. t = [k \in 1..m |-> s[at(k)]]
    BY DEF Retain
  <1>5. \A k \in 1..m : s[at(k)] \in A
    BY <1>3
  <1> HIDE DEF at
  <1>6. t \in Seq(A) /\ Len(t) = m /\ DOMAIN t = 1..m
    BY <1>2, <1>4, <1>5
  <1>7. \A k \in DOMAIN t : t[k] = s[at(k)] /\ at(k) \in keep /\ Rank(keep, at(k)) = k
    BY <1>3, <1>4, <1>6
  <1>8. \A i \in keep : at(Rank(keep, i)) = i
    <2> SUFFICES ASSUME NEW i \in keep, at(Rank(keep, i)) # i PROVE FALSE
      OBVIOUS
    <2> DEFINE j == at(Rank(keep, i))
    <2>1. j \in keep /\ Rank(keep, j) = Rank(keep, i) /\ Rank(keep, i) \in Nat
      BY <1>2, <1>3
    <2>2. i \in Int /\ j \in Int /\ i # j
      BY <1>1, <2>1
    <2> HIDE DEF j
    <2>3. i < j \/ j < i
      BY <2>2
    <2> QED  BY <2>1, <2>3, <1>2
  <1>9. \A i \in keep : Rank(keep, i) \in DOMAIN t /\ t[Rank(keep, i)] = s[i]
    BY <1>2, <1>6, <1>7, <1>8
  <1> QED  BY <1>2, <1>6, <1>7, <1>9

\* A sequence without repetitions keeps none, and loses exactly what was not kept.
LEMMA RetainedOnce ==
  ASSUME NEW A, NEW s \in Seq(A), NEW keep \in SUBSET DOMAIN s,
         \A i, j \in DOMAIN s : s[i] = s[j] => i = j
  PROVE  \A k, l \in DOMAIN Retain(s, keep) : Retain(s, keep)[k] = Retain(s, keep)[l] => k = l
  <1> DEFINE t == Retain(s, keep)
  <1>1. \A k \in DOMAIN t : \E i \in keep : t[k] = s[i] /\ Rank(keep, i) = k
    BY Retained
  <1> HIDE DEF t
  <1>2. \A k, l \in DOMAIN t : t[k] = t[l] => k = l
    BY <1>1
  <1> QED  BY <1>2 DEF t

-----------------------------------------------------------------------------
(* Sums of a function over a finite set (SumFunctionOnSet of Functions).   *)

One(s) == CHOOSE x \in s : TRUE
Sums(f, S, h) == h = [s \in SUBSET S |-> IF s = {} THEN 0 ELSE f[One(s)] + h[s \ {One(s)}]]

\* The values of a function on a finite set, which are as many when none is
\* taken twice.
LEMMA ImageFinite ==
  ASSUME NEW S, IsFiniteSet(S), NEW f, DOMAIN f = S, NEW T, T = {f[x] : x \in S}
  PROVE  /\ IsFiniteSet(T)
         /\ (\A x, y \in S : f[x] = f[y] => x = y) => Cardinality(T) = Cardinality(S)
<1> DEFINE g == [x \in S |-> f[x]]
<1>1. g \in Surjection(S, T)
  BY DEF Surjection
<1>2. ASSUME \A x, y \in S : f[x] = f[y] => x = y
      PROVE  g \in Injection(S, T)
  BY <1>1, <1>2 DEF Injection, IsInjective, Surjection
<1> HIDE DEF g
<1> QED
  BY <1>1, <1>2, FS_Surjection

\* A set of numbers that is not empty has a smallest.
LEMMA Smallest ==
  ASSUME NEW S \in SUBSET Nat, S # {}
  PROVE  \E n \in S : \A k \in S : n <= k
<1>1. \E n \in S : \A k \in S : ~ (<<k, n>> \in OpToRel(<, Nat))
  BY NatLessThanWellFounded, WFMin
<1>2. PICK n \in S : \A k \in S : ~ (k < n)
  BY <1>1 DEF OpToRel
<1>3. \A k \in S : n <= k
  BY <1>2
<1> QED
  BY <1>3

\* A finite set of numbers can be listed, and a list of its length without repetitions holds all of it.
LEMMA Enumerates ==
  ASSUME NEW len \in Nat, NEW S \in SUBSET (1..len)
  PROVE  /\ Cardinality(S) \in Nat
         /\ \E f \in [1..Cardinality(S) -> S] : IsInjective(f)
         /\ \A f \in [1..Cardinality(S) -> S] : IsInjective(f) => \A x \in S : \E i \in 1..Cardinality(S) : f[i] = x
<1> DEFINE n == Cardinality(S)
<1>0. IsFiniteSet(S)
  <2>1. IsFiniteSet(1..len)
    BY FS_Interval
  <2> QED
    BY <2>1, FS_Subset
<1>1. n \in Nat /\ ExistsBijection(1..n, S)
  BY <1>0, FS_CardinalityType
<1>2. IsFiniteSet(1..n) /\ Cardinality(1..n) = n
  <2>1. IsFiniteSet(1..n) /\ Cardinality(1..n) = IF 1 > n THEN 0 ELSE n - 1 + 1
    BY <1>1, FS_Interval
  <2> QED
    BY <1>1, <2>1
<1>3. \E f \in [1..n -> S] : IsInjective(f)
  BY <1>1 DEF ExistsBijection, Bijection, Injection
<1>4. ASSUME NEW f \in [1..n -> S], IsInjective(f)
      PROVE  \A x \in S : \E i \in 1..n : f[i] = x
  <2>1. f \in Injection(1..n, S)
    BY <1>4 DEF Injection
  <2>2. f \in Surjection(1..n, S)
    <3> HIDE DEF n
    <3> QED
      BY <1>0, <1>2, <2>1, FS_Injection DEF n
  <2> QED
    BY <2>2 DEF Surjection
<1> QED
  BY <1>1, <1>3, <1>4

\* Among subsets of a finite set there is a minimal one.
LEMMA Minimal ==
  ASSUME NEW S, IsFiniteSet(S), NEW B \in SUBSET (SUBSET S), B # {}
  PROVE  \E s \in B : IsFiniteSet(s) /\ \A t \in SUBSET s : t # s => t \notin B
<1>1. \A s \in SUBSET S : IsFiniteSet(s) /\ Cardinality(s) \in Nat
  BY FS_Subset, FS_CardinalityType
<1> DEFINE Sizes == {Cardinality(s) : s \in B}
<1>2. Sizes \subseteq Nat /\ Sizes # {}
  BY <1>1
<1>3. \E n \in Sizes : \A k \in Sizes : ~ (<<k, n>> \in OpToRel(<, Nat))
  <2> HIDE DEF Sizes
  <2> QED
    BY <1>2, NatLessThanWellFounded, WFMin
<1>4. PICK n \in Sizes : \A k \in Sizes : ~ (k < n)
  BY <1>2, <1>3 DEF OpToRel
<1>5. PICK s \in B : n = Cardinality(s)
  BY <1>4
<1>6. ASSUME NEW t \in SUBSET s, t # s, t \in B
      PROVE  FALSE
  <2>1. IsFiniteSet(s) /\ Cardinality(t) \in Nat /\ Cardinality(s) \in Nat
    BY <1>1, <1>5, <1>6
  <2>2. Cardinality(t) <= Cardinality(s) /\ (Cardinality(s) = Cardinality(t) => s = t)
    BY <2>1, FS_Subset
  <2>3. ~ (Cardinality(t) < n)
    BY <1>4, <1>6
  <2> QED
    BY <1>5, <1>6, <2>1, <2>2, <2>3
<1> QED
  BY <1>1, <1>5, <1>6

LEMMA OneOf == \A s : s # {} => One(s) \in s
  BY DEF One

LEMMA SumsUnique ==
  ASSUME NEW f, NEW S, IsFiniteSet(S), NEW h, NEW k, Sums(f, S, h), Sums(f, S, k)
  PROVE  \A s \in SUBSET S : h[s] = k[s]
<1> DEFINE B == {s \in SUBSET S : h[s] # k[s]}
<1> SUFFICES ASSUME B # {} PROVE FALSE
  OBVIOUS
<1>1. PICK s \in B : \A t \in SUBSET s : t # s => t \notin B
  <2> HIDE DEF B
  <2>1. B \in SUBSET (SUBSET S)
    BY DEF B
  <2> QED
    BY <2>1, Minimal
<1>2. s \in SUBSET S /\ h[s] # k[s]
  BY <1>1
<1>3. /\ h[s] = IF s = {} THEN 0 ELSE f[One(s)] + h[s \ {One(s)}]
      /\ k[s] = IF s = {} THEN 0 ELSE f[One(s)] + k[s \ {One(s)}]
  BY <1>2 DEF Sums
<1>4. s # {}
  BY <1>2, <1>3
<1>5. One(s) \in s /\ s \ {One(s)} \in SUBSET s /\ s \ {One(s)} # s
  BY <1>4, OneOf
<1>6. h[s \ {One(s)}] = k[s \ {One(s)}]
  BY <1>1, <1>2, <1>5
<1> QED
  BY <1>2, <1>3, <1>4, <1>6

LEMMA SumIs ==
  ASSUME NEW f, NEW S
  PROVE  SumFunctionOnSet(f, S) = (CHOOSE h : Sums(f, S, h))[S]
  BY Zenon DEF SumFunctionOnSet, FoldFunctionOnSet, MapThenFoldSet, Sums, One

\* What the recursive definition computes, one element at a time.
LEMMA SumStep ==
  ASSUME NEW f, NEW S, IsFiniteSet(S)
  PROVE  SumFunctionOnSet(f, S) =
           IF S = {} THEN 0 ELSE f[One(S)] + SumFunctionOnSet(f, S \ {One(S)})
<1> DEFINE Sum(s) == SumFunctionOnSet(f, s)
           Next(s) == IF s = {} THEN 0 ELSE f[One(s)] + Sum(s \ {One(s)})
           B == {s \in SUBSET S : Sum(s) # Next(s)}
<1> SUFFICES ASSUME B # {} PROVE FALSE
  OBVIOUS
<1>1. PICK s \in B : IsFiniteSet(s) /\ \A t \in SUBSET s : t # s => t \notin B
  <2>1. B \in SUBSET (SUBSET S)
    OBVIOUS
  <2> HIDE DEF B
  <2> QED
    BY <2>1, Minimal
<1>2. s \in SUBSET S /\ Sum(s) # Next(s)
  BY <1>1
<1>3. \A t \in SUBSET s : t # s => Sum(t) = Next(t)
  BY <1>1, <1>2
<1> DEFINE h == [t \in SUBSET s |-> IF t = s THEN Next(s) ELSE Sum(t)]
<1>4. Sums(f, s, h)
  <2>1. \A t \in SUBSET s : h[t] = IF t = {} THEN 0 ELSE f[One(t)] + h[t \ {One(t)}]
    <3> SUFFICES ASSUME NEW t \in SUBSET s
                 PROVE  h[t] = IF t = {} THEN 0 ELSE f[One(t)] + h[t \ {One(t)}]
      OBVIOUS
    <3>1. h[t] = Next(t)
      BY <1>3
    <3>2. t # {} => t \ {One(t)} \in SUBSET s /\ t \ {One(t)} # s
      BY OneOf
    <3>3. t # {} => h[t \ {One(t)}] = Sum(t \ {One(t)})
      BY <3>2
    <3> QED
      BY <3>1, <3>3
  <2>2. h = [t \in SUBSET s |-> h[t]]
    OBVIOUS
  <2> HIDE DEF h
  <2> QED
    BY <2>1, <2>2, Zenon DEF Sums
<1> DEFINE g == CHOOSE k : Sums(f, s, k)
<1>5. Sums(f, s, g)
  <2> HIDE DEF h
  <2> QED
    BY <1>4
<1>6. Sum(s) = g[s]
  BY SumIs
<1>7. g[s] = h[s]
  <2> HIDE DEF g, h
  <2>1. s \in SUBSET s
    OBVIOUS
  <2> QED
    BY <1>1, <1>4, <1>5, <2>1, SumsUnique
<1> QED
  BY <1>2, <1>6, <1>7

\* The sum of whole numbers is one.
LEMMA SumTyped ==
  ASSUME NEW f, NEW S, IsFiniteSet(S), \A x \in S : f[x] \in Int
  PROVE  SumFunctionOnSet(f, S) \in Int
<1> DEFINE B == {s \in SUBSET S : SumFunctionOnSet(f, s) \notin Int}
<1> SUFFICES ASSUME B # {} PROVE FALSE
  OBVIOUS
<1>1. PICK s \in B : IsFiniteSet(s) /\ \A t \in SUBSET s : t # s => t \notin B
  <2>1. B \in SUBSET (SUBSET S)
    OBVIOUS
  <2> HIDE DEF B
  <2> QED
    BY <2>1, Minimal
<1>2. s \in SUBSET S /\ SumFunctionOnSet(f, s) \notin Int
  BY <1>1
<1>3. SumFunctionOnSet(f, s) = IF s = {} THEN 0 ELSE f[One(s)] + SumFunctionOnSet(f, s \ {One(s)})
  BY <1>1, SumStep
<1>4. s # {}
  BY <1>2, <1>3
<1>5. One(s) \in s /\ s \ {One(s)} \in SUBSET s /\ s \ {One(s)} # s
  BY <1>4, OneOf
<1>6. SumFunctionOnSet(f, s \ {One(s)}) \in Int /\ f[One(s)] \in Int
  BY <1>1, <1>2, <1>5
<1> QED
  BY <1>2, <1>3, <1>4, <1>6

\* Sums depend on the values in the set only.
LEMMA SumSame ==
  ASSUME NEW f, NEW g, NEW S, IsFiniteSet(S), \A x \in S : f[x] = g[x]
  PROVE  SumFunctionOnSet(f, S) = SumFunctionOnSet(g, S)
<1> DEFINE B == {s \in SUBSET S : SumFunctionOnSet(f, s) # SumFunctionOnSet(g, s)}
<1> SUFFICES ASSUME B # {} PROVE FALSE
  OBVIOUS
<1>1. PICK s \in B : IsFiniteSet(s) /\ \A t \in SUBSET s : t # s => t \notin B
  <2>1. B \in SUBSET (SUBSET S)
    OBVIOUS
  <2> HIDE DEF B
  <2> QED
    BY <2>1, Minimal
<1>2. s \in SUBSET S /\ SumFunctionOnSet(f, s) # SumFunctionOnSet(g, s)
  BY <1>1
<1>3. /\ SumFunctionOnSet(f, s) = IF s = {} THEN 0 ELSE f[One(s)] + SumFunctionOnSet(f, s \ {One(s)})
      /\ SumFunctionOnSet(g, s) = IF s = {} THEN 0 ELSE g[One(s)] + SumFunctionOnSet(g, s \ {One(s)})
  BY <1>1, SumStep
<1>4. s # {}
  BY <1>2, <1>3
<1>5. One(s) \in s /\ s \ {One(s)} \in SUBSET s /\ s \ {One(s)} # s
  BY <1>4, OneOf
<1>6. SumFunctionOnSet(f, s \ {One(s)}) = SumFunctionOnSet(g, s \ {One(s)}) /\ f[One(s)] = g[One(s)]
  BY <1>1, <1>2, <1>5
<1> QED
  BY <1>2, <1>3, <1>4, <1>6

\* Any element can be taken out first.
LEMMA SumTakes ==
  ASSUME NEW f, NEW S, IsFiniteSet(S), \A x \in S : f[x] \in Int
  PROVE  \A x \in S : SumFunctionOnSet(f, S) = SumFunctionOnSet(f, S \ {x}) + f[x]
<1> DEFINE Sum(s) == SumFunctionOnSet(f, s)
           B == {s \in SUBSET S : \E x \in s : Sum(s) # Sum(s \ {x}) + f[x]}
<1> SUFFICES ASSUME B # {} PROVE FALSE
  OBVIOUS
<1>1. PICK s \in B : IsFiniteSet(s) /\ \A t \in SUBSET s : t # s => t \notin B
  <2>1. B \in SUBSET (SUBSET S)
    OBVIOUS
  <2> HIDE DEF B
  <2> QED
    BY <2>1, Minimal
<1>2. s \in SUBSET S
  BY <1>1
<1>3. PICK x \in s : Sum(s) # Sum(s \ {x}) + f[x]
  BY <1>1
<1>4. \A t \in SUBSET s : t # s => \A u \in t : Sum(t) = Sum(t \ {u}) + f[u]
  BY <1>1, <1>2
<1>5. \A t \in SUBSET s : Sum(t) \in Int
  <2> SUFFICES ASSUME NEW t \in SUBSET s PROVE Sum(t) \in Int
    OBVIOUS
  <2>1. IsFiniteSet(t) /\ \A u \in t : f[u] \in Int
    BY <1>1, <1>2, FS_Subset
  <2> QED
    BY <2>1, SumTyped
<1>6. PICK z : z = One(s) /\ z \in s
  BY <1>3, OneOf
<1>7. Sum(s) = f[z] + Sum(s \ {z})
  BY <1>1, <1>6, SumStep
<1> HIDE DEF Sum
<1>8. f[x] \in Int /\ f[z] \in Int /\ Sum(s \ {z}) \in Int /\ Sum(s \ {x}) \in Int
  BY <1>2, <1>3, <1>5, <1>6
<1>9. x # z
  BY <1>3, <1>7, <1>8
<1>10. /\ s \ {z} \in SUBSET s /\ s \ {z} # s /\ x \in s \ {z}
       /\ s \ {x} \in SUBSET s /\ s \ {x} # s /\ z \in s \ {x}
       /\ (s \ {z}) \ {x} = (s \ {x}) \ {z}
  BY <1>3, <1>6, <1>9
<1>11. PICK rest : rest = (s \ {z}) \ {x}
  OBVIOUS
<1>12. Sum(s \ {z}) = Sum(rest) + f[x] /\ Sum(s \ {x}) = Sum(rest) + f[z]
  BY <1>4, <1>10, <1>11
<1>13. Sum(rest) \in Int
  BY <1>5, <1>11
<1> QED
  BY <1>3, <1>7, <1>8, <1>12, <1>13

LEMMA SumAdds ==
  ASSUME NEW f, NEW S, IsFiniteSet(S), NEW y, y \notin S, f[y] \in Int, \A x \in S : f[x] \in Int
  PROVE  SumFunctionOnSet(f, S \cup {y}) = SumFunctionOnSet(f, S) + f[y]
<1>1. IsFiniteSet(S \cup {y}) /\ y \in S \cup {y} /\ (S \cup {y}) \ {y} = S /\ \A x \in S \cup {y} : f[x] \in Int
  BY FS_AddElement
<1>2. \A x \in S \cup {y} : SumFunctionOnSet(f, S \cup {y}) = SumFunctionOnSet(f, (S \cup {y}) \ {x}) + f[x]
  BY <1>1, SumTakes
<1> QED
  BY <1>1, <1>2

LEMMA SumOfNone == \A f : SumFunctionOnSet(f, {}) = 0
  BY SumStep, FS_EmptySet

\* The sum of sums.
LEMMA SumPlus ==
  ASSUME NEW f, NEW g, NEW h, NEW S, IsFiniteSet(S),
         \A x \in S : f[x] \in Int /\ g[x] \in Int /\ h[x] = f[x] + g[x]
  PROVE  SumFunctionOnSet(h, S) = SumFunctionOnSet(f, S) + SumFunctionOnSet(g, S)
<1> DEFINE B == {s \in SUBSET S : SumFunctionOnSet(h, s) # SumFunctionOnSet(f, s) + SumFunctionOnSet(g, s)}
<1> SUFFICES ASSUME B # {} PROVE FALSE
  OBVIOUS
<1>1. PICK s \in B : IsFiniteSet(s) /\ \A t \in SUBSET s : t # s => t \notin B
  <2>1. B \in SUBSET (SUBSET S)
    OBVIOUS
  <2> HIDE DEF B
  <2> QED
    BY <2>1, Minimal
<1>2. s \in SUBSET S /\ SumFunctionOnSet(h, s) # SumFunctionOnSet(f, s) + SumFunctionOnSet(g, s)
  BY <1>1
<1>3. s # {}
  BY <1>2, SumOfNone
<1>4. PICK x \in s : TRUE
  BY <1>3
<1>5. PICK t : t = s \ {x}
  OBVIOUS
<1>6. t \in SUBSET s /\ t # s /\ IsFiniteSet(t)
  BY <1>1, <1>4, <1>5, FS_Subset
<1>7. SumFunctionOnSet(h, t) = SumFunctionOnSet(f, t) + SumFunctionOnSet(g, t)
  BY <1>1, <1>2, <1>6
<1>8. \A u \in s : f[u] \in Int /\ g[u] \in Int /\ h[u] \in Int
  BY <1>2
<1>9. /\ SumFunctionOnSet(f, s) = SumFunctionOnSet(f, t) + f[x]
      /\ SumFunctionOnSet(g, s) = SumFunctionOnSet(g, t) + g[x]
      /\ SumFunctionOnSet(h, s) = SumFunctionOnSet(h, t) + h[x]
  BY <1>1, <1>4, <1>5, <1>8, SumTakes
<1>10. SumFunctionOnSet(f, t) \in Int /\ SumFunctionOnSet(g, t) \in Int
  BY <1>6, <1>8, SumTyped
<1>11. f[x] \in Int /\ g[x] \in Int /\ h[x] = f[x] + g[x]
  BY <1>2, <1>4
<1> QED
  BY <1>2, <1>7, <1>9, <1>10, <1>11

\* Sums of natural numbers grow with the set, and by more with two disjoint sets.
LEMMA SumApart ==
  ASSUME NEW f, NEW S, NEW T, IsFiniteSet(S), IsFiniteSet(T), S \cap T = {},
         \A x \in S \cup T : f[x] \in Int
  PROVE  SumFunctionOnSet(f, S \cup T) = SumFunctionOnSet(f, S) + SumFunctionOnSet(f, T)
<1> DEFINE B == {s \in SUBSET T : SumFunctionOnSet(f, S \cup s) # SumFunctionOnSet(f, S) + SumFunctionOnSet(f, s)}
<1> SUFFICES ASSUME B # {} PROVE FALSE
  OBVIOUS
<1>1. PICK s \in B : IsFiniteSet(s) /\ \A t \in SUBSET s : t # s => t \notin B
  <2>1. B \in SUBSET (SUBSET T)
    OBVIOUS
  <2> HIDE DEF B
  <2> QED
    BY <2>1, Minimal
<1>2. s \in SUBSET T /\ SumFunctionOnSet(f, S \cup s) # SumFunctionOnSet(f, S) + SumFunctionOnSet(f, s)
  BY <1>1
<1>0. SumFunctionOnSet(f, S) \in Int
  BY SumTyped
<1>3. s # {}
  <2> SUFFICES ASSUME s = {} PROVE FALSE
    OBVIOUS
  <2>1. S \cup s = S /\ SumFunctionOnSet(f, s) = 0
    BY SumOfNone
  <2> QED
    BY <1>0, <1>2, <2>1
<1>4. PICK x \in s : TRUE
  BY <1>3
<1>5. PICK t : t = s \ {x}
  OBVIOUS
<1>6. t \in SUBSET s /\ t # s /\ IsFiniteSet(t)
  BY <1>1, <1>4, <1>5, FS_Subset
<1>7. SumFunctionOnSet(f, S \cup t) = SumFunctionOnSet(f, S) + SumFunctionOnSet(f, t)
  BY <1>1, <1>2, <1>6
<1>8. SumFunctionOnSet(f, s) = SumFunctionOnSet(f, t) + f[x]
  <2>1. \A u \in s : f[u] \in Int
    BY <1>2
  <2> QED
    BY <1>1, <1>4, <1>5, <2>1, SumTakes
<1>9. SumFunctionOnSet(f, S \cup s) = SumFunctionOnSet(f, S \cup t) + f[x]
  <2>1. S \cup s = (S \cup t) \cup {x} /\ x \notin S \cup t /\ f[x] \in Int /\ \A u \in S \cup t : f[u] \in Int
    BY <1>2, <1>4, <1>5
  <2>2. IsFiniteSet(S \cup t)
    BY <1>6, FS_Union
  <2> QED
    BY <2>1, <2>2, SumAdds
<1>10. SumFunctionOnSet(f, t) \in Int /\ f[x] \in Int
  <2>1. \A u \in t : f[u] \in Int
    BY <1>2, <1>6
  <2> QED
    BY <1>2, <1>4, <1>6, <2>1, SumTyped
<1> QED
  BY <1>0, <1>2, <1>7, <1>8, <1>9, <1>10

LEMMA SumNatural ==
  ASSUME NEW f, NEW S, IsFiniteSet(S), \A x \in S : f[x] \in Nat
  PROVE  /\ SumFunctionOnSet(f, S) \in Nat
         /\ \A x \in S : f[x] <= SumFunctionOnSet(f, S)
<1> DEFINE B == {s \in SUBSET S : SumFunctionOnSet(f, s) \notin Nat}
<1>1. B = {}
  <2> SUFFICES ASSUME B # {} PROVE FALSE
    OBVIOUS
  <2>1. PICK s \in B : IsFiniteSet(s) /\ \A t \in SUBSET s : t # s => t \notin B
    <3>1. B \in SUBSET (SUBSET S)
      OBVIOUS
    <3> HIDE DEF B
    <3> QED
      BY <3>1, Minimal
  <2>2. s \in SUBSET S /\ SumFunctionOnSet(f, s) \notin Nat
    BY <2>1
  <2>3. SumFunctionOnSet(f, s) = IF s = {} THEN 0 ELSE f[One(s)] + SumFunctionOnSet(f, s \ {One(s)})
    BY <2>1, SumStep
  <2>4. s # {}
    BY <2>2, <2>3
  <2>5. One(s) \in s /\ s \ {One(s)} \in SUBSET s /\ s \ {One(s)} # s
    BY <2>4, OneOf
  <2>6. SumFunctionOnSet(f, s \ {One(s)}) \in Nat /\ f[One(s)] \in Nat
    BY <2>1, <2>2, <2>5
  <2> QED
    BY <2>2, <2>3, <2>4, <2>6
<1>2. \A s \in SUBSET S : SumFunctionOnSet(f, s) \in Nat
  BY <1>1
<1> HIDE DEF B
<1>3. \A x \in S : f[x] \in Int
  OBVIOUS
<1>4. ASSUME NEW x \in S PROVE f[x] <= SumFunctionOnSet(f, S)
  <2>1. SumFunctionOnSet(f, S) = SumFunctionOnSet(f, S \ {x}) + f[x]
    BY <1>3, SumTakes
  <2>2. SumFunctionOnSet(f, S \ {x}) \in Nat /\ f[x] \in Nat
    BY <1>2
  <2> QED
    BY <2>1, <2>2
<1> QED
  BY <1>2, <1>4

LEMMA SumZero ==
  ASSUME NEW f, NEW S, IsFiniteSet(S), \A x \in S : f[x] = 0
  PROVE  SumFunctionOnSet(f, S) = 0
<1>1. SumFunctionOnSet(f, S) \in Int
  BY SumTyped
<1>2. SumFunctionOnSet(f, S) = SumFunctionOnSet(f, S) + SumFunctionOnSet(f, S)
  <2>1. \A x \in S : f[x] \in Int /\ f[x] = f[x] + f[x]
    OBVIOUS
  <2> QED
    BY <2>1, SumPlus
<1>3. \A n \in Int : n = n + n => n = 0
  OBVIOUS
<1> QED
  BY <1>1, <1>2, <1>3

=============================================================================
