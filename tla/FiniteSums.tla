------------------------------ MODULE FiniteSums ------------------------------
(***************************************************************************)
(* Sums of natural numbers over finite sets, for the components that count *)
(* units and bytes: the laws their proofs rest on, from the recursive      *)
(* definition that MapThenSumSet uses, and the least number of a set.      *)
(*                                                                         *)
(* Induction is on sets of numbers, which the provers can instantiate.     *)
(***************************************************************************)
EXTENDS Naturals, FiniteSets, FiniteSetsExt, FiniteSetTheorems, WellFoundedInduction, TLAPS

\* The element taken out next, the equation of a sum, and the sum of f over S.
First(s) == CHOOSE x \in s : TRUE
Sums(f, S, h) == h = [s \in SUBSET S |-> IF s = {} THEN 0 ELSE f[First(s)] + h[s \ {First(s)}]]
SumOf(f, S) == (CHOOSE h : Sums(f, S, h))[S]

\* A sum of the library, of the values of a function, is this one.
LEMMA SumIs ==
  ASSUME NEW f, NEW S
  PROVE  MapThenSumSet(LAMBDA x : f[x], S) = SumOf(f, S)
BY DEF MapThenSumSet, MapThenFoldSet, SumOf, Sums, First

-----------------------------------------------------------------------------
\* Induction.

\* A nonempty set of numbers has a least one.
LEMMA SmallestNumber ==
  ASSUME NEW S \in SUBSET Nat, S # {}
  PROVE  \E x \in S : \A y \in S : x <= y
<1>1. PICK x \in S : \A y \in S : <<y, x>> \notin OpToRel(<, Nat)
  BY NatLessThanWellFounded, WFMin, Zenon
<1>2. \A y \in S : ~(y < x)
  BY <1>1 DEF OpToRel
<1> QED
  BY <1>2

\* A set of numbers that holds 0 and with each number the next holds them all.
LEMMA Counting ==
  ASSUME NEW T \in SUBSET Nat, 0 \in T, \A n \in T : n + 1 \in T
  PROVE  T = Nat
<1> DEFINE R == Nat \ T
<1> SUFFICES ASSUME R # {} PROVE FALSE
  OBVIOUS
<1>1. PICK x \in R : \A y \in R : x <= y
  BY SmallestNumber, Zenon
<1>2. x # 0 /\ x \in Nat
  OBVIOUS
<1>3. x - 1 \in Nat /\ x - 1 < x /\ (x - 1) + 1 = x
  BY <1>2
<1>4. x - 1 \notin R
  BY <1>1, <1>3
<1> QED
  BY <1>3, <1>4

\* A collection of subsets that holds the empty one, and with each another by one
\* more element, holds the whole finite set.
LEMMA AddingUp ==
  ASSUME NEW S, IsFiniteSet(S), NEW T, {} \in T,
         \A s \in SUBSET S, x \in S : s \in T /\ x \notin s => s \cup {x} \in T
  PROVE  S \in T
<1> DEFINE N == {n \in Nat : \A s \in SUBSET S : Cardinality(s) = n => s \in T}
<1>1. 0 \in N
  BY FS_EmptySet, FS_Subset
<1>2. ASSUME NEW n \in N PROVE n + 1 \in N
  <2> SUFFICES ASSUME NEW s \in SUBSET S, Cardinality(s) = n + 1 PROVE s \in T
    OBVIOUS
  <2>1. IsFiniteSet(s) /\ s # {}
    BY FS_EmptySet, FS_Subset
  <2>2. PICK x \in s : TRUE
    BY <2>1
  <2>3. Cardinality(s \ {x}) = n
    <3>1. Cardinality(s \ {x}) = Cardinality(s) - 1
      BY <2>1, <2>2, FS_RemoveElement
    <3> QED
      BY <3>1
  <2>4. s \ {x} \in T /\ s = (s \ {x}) \cup {x}
    BY <2>2, <2>3
  <2> QED
    BY <2>2, <2>4
<1>3. N = Nat
  <2> HIDE DEF N
  <2>1. N \subseteq Nat
    BY DEF N
  <2> QED
    BY <1>1, <1>2, <2>1, Counting
<1> QED
  BY <1>3, FS_CardinalityType

-----------------------------------------------------------------------------
\* The equation has a solution, and only one.

\* Sets of at most n elements of S.
Upto(S, n) == {s \in SUBSET S : Cardinality(s) <= n}
SumsTo(f, S, n, h) ==
  h = [s \in Upto(S, n) |-> IF s = {} THEN 0 ELSE f[First(s)] + h[s \ {First(s)}]]

\* What is taken out of a set was in it.
LEMMA FirstIsIn == ASSUME NEW s, s # {} PROVE First(s) \in s
BY DEF First

\* The smaller subsets of a set, one element fewer at a time.
LEMMA SmallerUpto ==
  ASSUME NEW S, IsFiniteSet(S), NEW n \in Nat, NEW s \in Upto(S, n + 1), s # {}
  PROVE  s \ {First(s)} \in Upto(S, n)
<1>1. IsFiniteSet(s) /\ First(s) \in s
  BY FS_Subset, FirstIsIn DEF Upto
<1>2. Cardinality(s \ {First(s)}) = Cardinality(s) - 1 /\ Cardinality(s) \in Nat
  BY <1>1, FS_RemoveElement, FS_CardinalityType
<1> QED
  BY <1>2 DEF Upto

\* A sum over the subsets of at most n elements exists, and extends to those of n + 1.
LEMMA SolvedUpto ==
  ASSUME NEW S, IsFiniteSet(S), NEW f, NEW m \in Nat
  PROVE  \E h : SumsTo(f, S, m, h)
<1> DEFINE N == {n \in Nat : \E h : SumsTo(f, S, n, h)}
<1>1. 0 \in N
  <2> DEFINE h == [s \in Upto(S, 0) |-> 0]
  <2>1. \A s \in Upto(S, 0) : s = {}
    <3> SUFFICES ASSUME NEW s \in Upto(S, 0) PROVE s = {}
      OBVIOUS
    <3>1. IsFiniteSet(s) /\ Cardinality(s) \in Nat /\ Cardinality(s) <= 0
      BY FS_Subset, FS_CardinalityType DEF Upto
    <3> QED
      BY <3>1, FS_EmptySet
  <2>2. SumsTo(f, S, 0, h)
    BY <2>1 DEF SumsTo
  <2> QED
    BY <2>2
<1>2. ASSUME NEW n \in N PROVE n + 1 \in N
  <2>1. PICK h : SumsTo(f, S, n, h)
    OBVIOUS
  <2> DEFINE k == [s \in Upto(S, n + 1) |-> IF s = {} THEN 0 ELSE f[First(s)] + h[s \ {First(s)}]]
  <2>2. ASSUME NEW s \in Upto(S, n + 1), s # {} PROVE k[s \ {First(s)}] = h[s \ {First(s)}]
    <3> DEFINE t == s \ {First(s)}
    <3>1. t \in Upto(S, n)
      BY <2>2, SmallerUpto
    <3>2. t \in Upto(S, n + 1)
      <4>1. IsFiniteSet(t)
        BY <3>1, FS_Subset DEF Upto
      <4>2. Cardinality(t) \in Nat
        BY <4>1, FS_CardinalityType
      <4> QED
        BY <3>1, <4>2 DEF Upto
    <3> HIDE DEF t
    <3>3. k[t] = IF t = {} THEN 0 ELSE f[First(t)] + h[t \ {First(t)}]
      BY <3>2
    <3>4. h[t] = IF t = {} THEN 0 ELSE f[First(t)] + h[t \ {First(t)}]
      BY <2>1, <3>1 DEF SumsTo
    <3> QED
      BY <3>3, <3>4 DEF t
  <2>3. SumsTo(f, S, n + 1, k)
    BY <2>2 DEF SumsTo
  <2> QED
    BY <2>3
<1>3. N = Nat
  <2> HIDE DEF N
  <2>1. N \subseteq Nat
    BY DEF N
  <2> QED
    BY <1>1, <1>2, <2>1, Counting
<1> QED
  BY <1>3

\* There is a solution, and the sum of the definition is one.
LEMMA Solved ==
  ASSUME NEW S, IsFiniteSet(S), NEW f
  PROVE  Sums(f, S, CHOOSE h : Sums(f, S, h))
<1>1. Cardinality(S) \in Nat /\ Upto(S, Cardinality(S)) = SUBSET S
  BY FS_CardinalityType, FS_Subset DEF Upto
<1>2. PICK h : SumsTo(f, S, Cardinality(S), h)
  BY <1>1, SolvedUpto
<1>3. Sums(f, S, h)
  BY <1>1, <1>2 DEF Sums, SumsTo
<1> QED
  BY <1>3

\* What it gives for the sets below does not depend on the set it is taken for.
LEMMA SumBelow ==
  ASSUME NEW S, IsFiniteSet(S), NEW f, NEW t \in SUBSET S
  PROVE  (CHOOSE h : Sums(f, S, h))[t] = SumOf(f, t)
<1> DEFINE H == CHOOSE h : Sums(f, S, h)
           K == CHOOSE h : Sums(f, t, h)
           N == {n \in Nat : \A s \in SUBSET t : Cardinality(s) = n => H[s] = K[s]}
<1>1. IsFiniteSet(t) /\ Sums(f, S, H) /\ Sums(f, t, K)
  BY Solved, FS_Subset
<1> HIDE DEF H, K
<1>2. 0 \in N
  <2> SUFFICES ASSUME NEW s \in SUBSET t, Cardinality(s) = 0 PROVE H[s] = K[s]
    OBVIOUS
  <2>1. s = {}
    BY <1>1, FS_EmptySet, FS_Subset
  <2> QED
    BY <1>1, <2>1 DEF Sums
<1>3. ASSUME NEW n \in N PROVE n + 1 \in N
  <2> SUFFICES ASSUME NEW s \in SUBSET t, Cardinality(s) = n + 1 PROVE H[s] = K[s]
    OBVIOUS
  <2>1. IsFiniteSet(s) /\ s # {}
    BY <1>1, FS_EmptySet, FS_Subset
  <2>2. First(s) \in s
    BY <2>1, FirstIsIn
  <2>3. Cardinality(s \ {First(s)}) = n
    <3>1. Cardinality(s \ {First(s)}) = Cardinality(s) - 1
      BY <2>1, <2>2, FS_RemoveElement
    <3> QED
      BY <3>1
  <2>4. H[s \ {First(s)}] = K[s \ {First(s)}]
    BY <2>3
  <2>5. s \in SUBSET S /\ s # {}
    BY <2>1
  <2>6. H[s] = f[First(s)] + H[s \ {First(s)}]
    BY <1>1, <2>5 DEF Sums
  <2>7. K[s] = f[First(s)] + K[s \ {First(s)}]
    BY <1>1, <2>1 DEF Sums
  <2> QED
    BY <2>4, <2>6, <2>7
<1>4. N = Nat
  <2> HIDE DEF N
  <2>1. N \subseteq Nat
    BY DEF N
  <2> QED
    BY <1>2, <1>3, <2>1, Counting
<1> QED
  BY <1>1, <1>4, FS_CardinalityType DEF SumOf, H, K

-----------------------------------------------------------------------------
\* The laws.

\* Nothing adds up to nothing.
LEMMA SumEmpty == \A f : SumOf(f, {}) = 0
<1> TAKE f
<1>1. Sums(f, {}, CHOOSE h : Sums(f, {}, h))
  BY Solved, FS_EmptySet
<1> QED
  BY <1>1 DEF Sums, SumOf

\* A sum is the element taken out first and the sum of the others.
LEMMA SumNext ==
  ASSUME NEW S, IsFiniteSet(S), NEW f, S # {}
  PROVE  SumOf(f, S) = f[First(S)] + SumOf(f, S \ {First(S)})
<1> DEFINE H == CHOOSE h : Sums(f, S, h)
<1>1. Sums(f, S, H) /\ H[S \ {First(S)}] = SumOf(f, S \ {First(S)})
  BY Solved, SumBelow
<1> QED
  BY <1>1 DEF Sums, SumOf

\* A sum of numbers is one.
LEMMA SumIsNat ==
  ASSUME NEW S, IsFiniteSet(S), NEW f, \A x \in S : f[x] \in Nat
  PROVE  SumOf(f, S) \in Nat
<1> DEFINE N == {n \in Nat : \A s \in SUBSET S : Cardinality(s) = n => SumOf(f, s) \in Nat}
<1>1. 0 \in N
  BY SumEmpty, FS_EmptySet, FS_Subset
<1>2. ASSUME NEW n \in N PROVE n + 1 \in N
  <2> SUFFICES ASSUME NEW s \in SUBSET S, Cardinality(s) = n + 1 PROVE SumOf(f, s) \in Nat
    OBVIOUS
  <2>1. IsFiniteSet(s) /\ s # {} /\ First(s) \in s
    BY FS_EmptySet, FS_Subset, FirstIsIn
  <2>2. Cardinality(s \ {First(s)}) = n
    <3>1. Cardinality(s \ {First(s)}) = Cardinality(s) - 1
      BY <2>1, FS_RemoveElement
    <3> QED
      BY <3>1
  <2>3. SumOf(f, s \ {First(s)}) \in Nat /\ f[First(s)] \in Nat
    BY <2>1, <2>2
  <2> QED
    BY <2>1, <2>3, SumNext
<1>3. N = Nat
  <2> HIDE DEF N
  <2>1. N \subseteq Nat
    BY DEF N
  <2> QED
    BY <1>1, <1>2, <2>1, Counting
<1> QED
  BY <1>3, FS_CardinalityType

\* Any element may be taken out of a sum.
LEMMA SumWithout ==
  ASSUME NEW S, IsFiniteSet(S), NEW f, \A x \in S : f[x] \in Nat
  PROVE  \A x \in S : SumOf(f, S) = f[x] + SumOf(f, S \ {x})
<1> DEFINE Out(s) == \A x \in s : SumOf(f, s) = f[x] + SumOf(f, s \ {x})
           N == {n \in Nat : \A s \in SUBSET S : Cardinality(s) = n => Out(s)}
<1>1. 0 \in N
  BY FS_EmptySet, FS_Subset
<1>2. ASSUME NEW n \in N PROVE n + 1 \in N
  <2> SUFFICES ASSUME NEW s \in SUBSET S, Cardinality(s) = n + 1, NEW x \in s
               PROVE  SumOf(f, s) = f[x] + SumOf(f, s \ {x})
    OBVIOUS
  <2> DEFINE c == First(s)
             less == s \ {x}
             rest == s \ {c}
             both == (s \ {x}) \ {c}
  <2>1. IsFiniteSet(s) /\ s # {} /\ c \in s
    BY FS_EmptySet, FS_Subset, FirstIsIn
  <2>2. SumOf(f, s) = f[c] + SumOf(f, rest)
    BY <2>1, SumNext
  <2> HIDE DEF c
  <2>3. CASE x = c
    BY <2>2, <2>3
  <2>4. CASE x # c
    <3>1. Cardinality(less) = n /\ Cardinality(rest) = n
      <4>1. Cardinality(less) = Cardinality(s) - 1 /\ Cardinality(rest) = Cardinality(s) - 1
        BY <2>1, FS_RemoveElement
      <4> QED
        BY <4>1
    <3>2. Out(less) /\ Out(rest)
      BY <3>1
    <3>3. x \in rest /\ c \in less /\ rest \ {x} = both
      BY <2>1, <2>4
    <3>4. SumOf(f, less) = f[c] + SumOf(f, both) /\ SumOf(f, rest) = f[x] + SumOf(f, both)
      BY <3>2, <3>3
    <3>5. SumOf(f, both) \in Nat /\ f[c] \in Nat /\ f[x] \in Nat
      <4>1. IsFiniteSet(both) /\ \A y \in both : f[y] \in Nat
        BY <2>1, FS_Subset
      <4> QED
        BY <2>1, <4>1, SumIsNat
    <3> HIDE DEF less, rest, both
    <3> QED
      BY <2>2, <3>4, <3>5 DEF less
  <2> QED
    BY <2>3, <2>4
<1>3. N = Nat
  <2> HIDE DEF N
  <2>1. N \subseteq Nat
    BY DEF N
  <2> QED
    BY <1>1, <1>2, <2>1, Counting
<1> QED
  BY <1>3, FS_CardinalityType

\* Another element adds its value.
LEMMA SumWith ==
  ASSUME NEW S, IsFiniteSet(S), NEW f, NEW x, x \notin S, \A y \in S \cup {x} : f[y] \in Nat
  PROVE  SumOf(f, S \cup {x}) = f[x] + SumOf(f, S)
<1>1. IsFiniteSet(S \cup {x}) /\ (S \cup {x}) \ {x} = S /\ x \in S \cup {x}
  BY FS_AddElement
<1> QED
  BY <1>1, SumWithout

\* No value is more than the sum.
LEMMA SumBounds ==
  ASSUME NEW S, IsFiniteSet(S), NEW f, \A x \in S : f[x] \in Nat
  PROVE  \A x \in S : f[x] <= SumOf(f, S)
<1> TAKE x \in S
<1>1. IsFiniteSet(S \ {x}) /\ \A y \in S \ {x} : f[y] \in Nat
  BY FS_Subset
<1>2. SumOf(f, S \ {x}) \in Nat
  BY <1>1, SumIsNat
<1> QED
  BY <1>2, SumWithout

\* Only the values on S count.
LEMMA SumSame ==
  ASSUME NEW S, IsFiniteSet(S), NEW f, NEW g, \A x \in S : f[x] = g[x] /\ f[x] \in Nat
  PROVE  SumOf(f, S) = SumOf(g, S)
<1> DEFINE T == {s \in SUBSET S : SumOf(f, s) = SumOf(g, s)}
<1>1. {} \in T
  BY SumEmpty
<1>2. ASSUME NEW s \in SUBSET S, NEW x \in S, s \in T, x \notin s PROVE s \cup {x} \in T
  <2>1. IsFiniteSet(s) /\ (\A y \in s \cup {x} : f[y] \in Nat) /\ (\A y \in s \cup {x} : g[y] \in Nat)
    BY <1>2, FS_Subset
  <2>2. SumOf(f, s \cup {x}) = f[x] + SumOf(f, s) /\ SumOf(g, s \cup {x}) = g[x] + SumOf(g, s)
    BY <1>2, <2>1, SumWith
  <2> QED
    BY <1>2, <2>2
<1> HIDE DEF T
<1>3. S \in T
  BY <1>1, <1>2, AddingUp
<1> QED
  BY <1>3 DEF T

\* What is left out counts as nothing.
LEMMA SumFiltered ==
  ASSUME NEW S, IsFiniteSet(S), NEW T \in SUBSET S, NEW f, NEW g,
         \A x \in T : f[x] = g[x] /\ f[x] \in Nat, \A x \in S \ T : g[x] = 0
  PROVE  SumOf(f, T) = SumOf(g, S)
<1> DEFINE U == {s \in SUBSET S : SumOf(f, s \cap T) = SumOf(g, s)}
<1>1. {} \in U
  <2>1. {} \cap T = {}
    OBVIOUS
  <2> QED
    BY <2>1, SumEmpty
<1>2. ASSUME NEW s \in SUBSET S, NEW x \in S, s \in U, x \notin s PROVE s \cup {x} \in U
  <2>1. IsFiniteSet(s) /\ IsFiniteSet(s \cap T) /\ x \notin s \cap T
    BY <1>2, FS_Subset
  <2>2. (\A y \in s \cup {x} : g[y] \in Nat) /\ (\A y \in s : g[y] \in Nat)
    OBVIOUS
  <2>3. SumOf(g, s \cup {x}) = g[x] + SumOf(g, s) /\ SumOf(g, s) \in Nat
    BY <1>2, <2>1, <2>2, SumWith, SumIsNat
  <2>4. CASE x \in T
    <3>1. \A y \in (s \cap T) \cup {x} : f[y] \in Nat
      BY <2>4
    <3>2. SumOf(f, (s \cap T) \cup {x}) = f[x] + SumOf(f, s \cap T)
      BY <2>1, <3>1, SumWith
    <3>3. (s \cup {x}) \cap T = (s \cap T) \cup {x} /\ f[x] = g[x]
      BY <2>4
    <3> QED
      BY <1>2, <2>3, <3>2, <3>3
  <2>5. CASE x \notin T
    <3>1. (s \cup {x}) \cap T = s \cap T /\ g[x] = 0
      BY <2>5
    <3> QED
      BY <1>2, <2>3, <3>1
  <2> QED
    BY <2>4, <2>5
<1> HIDE DEF U
<1>3. S \in U
  BY <1>1, <1>2, AddingUp
<1>4. S \cap T = T
  OBVIOUS
<1> QED
  BY <1>3, <1>4 DEF U

\* A sum of nothing.
LEMMA SumOfZeros ==
  ASSUME NEW S, IsFiniteSet(S), NEW f, \A x \in S : f[x] = 0
  PROVE  SumOf(f, S) = 0
<1>1. SumOf(f, {}) = SumOf(f, S)
  BY SumFiltered
<1> QED
  BY <1>1, SumEmpty

\* One value changes.
LEMMA SumChanged ==
  ASSUME NEW S, IsFiniteSet(S), NEW x \in S, NEW f, NEW g,
         \A y \in S : f[y] \in Nat /\ g[y] \in Nat, \A y \in S \ {x} : f[y] = g[y]
  PROVE  SumOf(f, S) + g[x] = SumOf(g, S) + f[x] /\ SumOf(f, S) \in Nat /\ SumOf(g, S) \in Nat
<1>1. IsFiniteSet(S \ {x}) /\ \A y \in S \ {x} : f[y] \in Nat
  BY FS_Subset
<1>2. SumOf(f, S \ {x}) = SumOf(g, S \ {x}) /\ SumOf(f, S \ {x}) \in Nat
  BY <1>1, SumSame, SumIsNat
<1>3. SumOf(f, S) = f[x] + SumOf(f, S \ {x}) /\ SumOf(g, S) = g[x] + SumOf(g, S \ {x})
  BY SumWithout
<1> QED
  BY <1>2, <1>3
=============================================================================
