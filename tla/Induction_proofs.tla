-------------------------- MODULE Induction_proofs --------------------------
(***************************************************************************)
(* Facts about data of any size on which the other proofs rest: induction  *)
(* over numbers and finite sets, finite sums and ascending sequences.      *)
(* What is shown by induction is given as a set (the numbers, or the       *)
(* subsets, for which it holds), so that a use of it is a first-order step.*)
(***************************************************************************)
EXTENDS Ordered, FiniteSetsExt, FiniteSetTheorems, WellFoundedInduction, TLAPS


-----------------------------------------------------------------------------
(* Induction *)

\* Every set of numbers has a smallest one.
LEMMA SmallestOf ==
    ASSUME NEW T \in SUBSET Nat, T # {}
    PROVE  \E m \in T : \A k \in T : m <= k
  <1> DEFINE R == {p \in Nat \X Nat : p[1] < p[2]}
  <1>1. IsWellFoundedOn(R, Nat)
    BY NatLessThanWellFounded DEF OpToRel
  <1>2. PICK m \in T : \A k \in T : ~(<<k, m>> \in R)
    <2> HIDE DEF R
    <2> QED BY <1>1, WFMin
  <1>3. ASSUME NEW k \in T PROVE m <= k
    <2>1. <<k, m>> \in Nat \X Nat
      OBVIOUS
    <2>2. ~(k < m)
      BY <1>2, <2>1
    <2> QED BY <2>2
  <1> QED BY <1>3

\* A set that has 0, and the successor of each number it has, has them all.
LEMMA NumberInduction ==
    ASSUME NEW T, 0 \in T, \A n \in Nat : n \in T => n + 1 \in T
    PROVE  Nat \subseteq T
  <1> SUFFICES ASSUME Nat \ T # {} PROVE FALSE
    OBVIOUS
  <1>1. PICK m \in Nat \ T : \A k \in Nat \ T : m <= k
    BY SmallestOf
  <1>2. m # 0
    BY <1>1
  <1>3. m - 1 \in Nat /\ (m - 1) + 1 = m
    BY <1>1, <1>2
  <1>4. m - 1 \in T
    BY <1>1, <1>3
  <1> QED BY <1>1, <1>3, <1>4

\* A set that has each subset of S all of whose parts with one element less it
\* has, has every subset of S, provided S is finite.
LEMMA SubsetInduction ==
    ASSUME NEW S, IsFiniteSet(S), NEW T,
           \A A \in SUBSET S : (\A x \in A : A \ {x} \in T) => A \in T
    PROVE  SUBSET S \subseteq T
  <1> DEFINE N == {n \in Nat : \A A \in SUBSET S : Cardinality(A) = n => A \in T}
  <1>1. \A A \in SUBSET S : IsFiniteSet(A) /\ Cardinality(A) \in Nat
    BY FS_Subset, FS_CardinalityType
  <1>2. 0 \in N
    <2> SUFFICES ASSUME NEW A \in SUBSET S, Cardinality(A) = 0
                 PROVE  A \in T
      OBVIOUS
    <2>1. A = {}
      BY <1>1, FS_EmptySet
    <2> QED BY <2>1
  <1>3. ASSUME NEW n \in Nat, n \in N
        PROVE  n + 1 \in N
    <2> SUFFICES ASSUME NEW A \in SUBSET S, Cardinality(A) = n + 1
                 PROVE  A \in T
      OBVIOUS
    <2>1. ASSUME NEW x \in A
          PROVE  A \ {x} \in T
      <3>1. Cardinality(A \ {x}) = Cardinality(A) - 1
        BY <1>1, FS_RemoveElement
      <3>2. Cardinality(A \ {x}) = n
        BY <3>1
      <3>3. A \ {x} \in SUBSET S
        OBVIOUS
      <3> QED BY <1>3, <3>2, <3>3
    <2> QED BY <2>1
  <1>4. Nat \subseteq N
    <2> HIDE DEF N
    <2> QED BY <1>2, <1>3, NumberInduction
  <1> QED BY <1>1, <1>4

-----------------------------------------------------------------------------
(* Sums *)

\* What MapThenSumSet computes, for a function.
SumOf(f, S) == MapThenSumSet(LAMBDA x : f[x], S)

\* The partial sums over the sets of D, in the order of MapThenSumSet.
Pick(s) == CHOOSE x \in s : TRUE
Adds(f, g, D) ==
    g = [s \in D |-> IF s = {} THEN 0 ELSE f[Pick(s)] + g[s \ {Pick(s)}]]

\* Two of them agree on the subsets of T.
Agree(g, h, T) == \A s \in SUBSET T : g[s] = h[s]

\* There are such partial sums ...
LEMMA PartialSums ==
    ASSUME NEW f, NEW S, IsFiniteSet(S)
    PROVE  \E g : Adds(f, g, SUBSET S)
  <1> DEFINE D(n) == {s \in SUBSET S : Cardinality(s) <= n}
             N == {n \in Nat : \E g : Adds(f, g, D(n))}
  <1>1. \A A \in SUBSET S : IsFiniteSet(A) /\ Cardinality(A) \in Nat
    BY FS_Subset, FS_CardinalityType
  <1>2. 0 \in N
    <2>1. \A s \in D(0) : s = {}
      BY <1>1, FS_EmptySet
    <2>2. Adds(f, [s \in D(0) |-> 0], D(0))
      <3> HIDE DEF D
      <3> QED BY <2>1 DEF Adds
    <2> QED BY <2>2
  <1>3. ASSUME NEW n \in Nat, n \in N
        PROVE  n + 1 \in N
    <2>1. PICK g : Adds(f, g, D(n))
      BY <1>3
    <2> DEFINE h == [s \in D(n + 1) |->
                       IF s = {} THEN 0 ELSE f[Pick(s)] + g[s \ {Pick(s)}]]
    <2>2. ASSUME NEW s \in D(n + 1), s # {}
          PROVE  s \ {Pick(s)} \in D(n) /\ s \ {Pick(s)} \in D(n + 1)
      <3>1. Pick(s) \in s
        BY <2>2 DEF Pick
      <3>2. Cardinality(s \ {Pick(s)}) = Cardinality(s) - 1
        BY <1>1, <3>1, FS_RemoveElement
      <3>3. Cardinality(s \ {Pick(s)}) <= n /\ Cardinality(s \ {Pick(s)}) <= n + 1
        BY <1>1, <3>2
      <3> QED BY <3>3
    <2>3. \A s \in D(n) : g[s] = IF s = {} THEN 0 ELSE f[Pick(s)] + g[s \ {Pick(s)}]
      <3> HIDE DEF D
      <3> QED BY <2>1 DEF Adds
    <2>4. \A s \in D(n + 1) : s \in D(n) => h[s] = g[s]
      <3> HIDE DEF D
      <3> QED BY <2>3
    <2>5. Adds(f, h, D(n + 1))
      <3>1. \A s \in D(n + 1) : s # {} => h[s \ {Pick(s)}] = g[s \ {Pick(s)}]
        <4> HIDE DEF D, h
        <4> QED BY <2>2, <2>4
      <3> HIDE DEF D
      <3>2. h = [s \in D(n + 1) |->
                    IF s = {} THEN 0 ELSE f[Pick(s)] + h[s \ {Pick(s)}]]
        BY <3>1
      <3> QED BY <3>2 DEF Adds
    <2>6. \E k : Adds(f, k, D(n + 1))
      <3> HIDE DEF D, h
      <3> QED BY <2>5
    <2> QED BY <2>6
  <1>4. Cardinality(S) \in N
    <2>1. Nat \subseteq N
      <3> HIDE DEF N
      <3> QED BY <1>2, <1>3, NumberInduction
    <2> QED BY <2>1, FS_CardinalityType
  <1>5. D(Cardinality(S)) = SUBSET S
    BY FS_Subset
  <1> QED BY <1>4, <1>5

\* ... and all agree.
LEMMA PartialSumsAgree ==
    ASSUME NEW f, NEW S, NEW T \in SUBSET S, IsFiniteSet(T),
           NEW g, Adds(f, g, SUBSET S), NEW h, Adds(f, h, SUBSET T)
    PROVE  Agree(g, h, T)
  <1> DEFINE Same == {s \in SUBSET T : g[s] = h[s]}
  <1>1. ASSUME NEW A \in SUBSET T, \A x \in A : A \ {x} \in Same
        PROVE  A \in Same
    <2>1. A \in SUBSET S
      OBVIOUS
    <2>2. g[A] = IF A = {} THEN 0 ELSE f[Pick(A)] + g[A \ {Pick(A)}]
      BY <2>1 DEF Adds
    <2>3. h[A] = IF A = {} THEN 0 ELSE f[Pick(A)] + h[A \ {Pick(A)}]
      BY DEF Adds
    <2>4. A # {} => Pick(A) \in A
      BY DEF Pick
    <2>5. A # {} => g[A \ {Pick(A)}] = h[A \ {Pick(A)}]
      BY <1>1, <2>4
    <2> QED BY <2>2, <2>3, <2>5
  <1>2. SUBSET T \subseteq Same
    <2> HIDE DEF Same
    <2> QED BY <1>1, SubsetInduction
  <1> QED BY <1>2 DEF Agree

LEMMA SumIsPartial ==
    ASSUME NEW f, NEW S, IsFiniteSet(S), NEW g, Adds(f, g, SUBSET S)
    PROVE  SumOf(f, S) = g[S]
  <1> DEFINE h == CHOOSE h : Adds(f, h, SUBSET S)
  <1>1. Adds(f, h, SUBSET S)
    OBVIOUS
  <1>2. SumOf(f, S) = h[S]
    BY DEF SumOf, MapThenSumSet, MapThenFoldSet, Adds, Pick
  <1>3. g[S] = h[S]
    <2>1. PICK k : k = h
      OBVIOUS
    <2>2. Adds(f, k, SUBSET S) /\ S \in SUBSET S
      BY <1>1, <2>1
    <2>3. Agree(g, k, S)
      BY <2>2, PartialSumsAgree
    <2> QED BY <2>1, <2>2, <2>3 DEF Agree
  <1> QED BY <1>2, <1>3

\* The sum of nothing is 0, ...
LEMMA SumOfNothing ==
    ASSUME NEW f
    PROVE  SumOf(f, {}) = 0
  <1>1. IsFiniteSet({})
    BY FS_EmptySet
  <1>2. PICK g : Adds(f, g, SUBSET {})
    BY <1>1, PartialSums
  <1>3. g[{}] = 0
    BY <1>2 DEF Adds
  <1> QED BY <1>1, <1>2, <1>3, SumIsPartial

\* ... that of a set is its picked element and the sum of the rest, ...
LEMMA SumPicks ==
    ASSUME NEW f, NEW S, IsFiniteSet(S), S # {}
    PROVE  Pick(S) \in S /\ SumOf(f, S) = f[Pick(S)] + SumOf(f, S \ {Pick(S)})
  <1> DEFINE R == S \ {Pick(S)}
  <1>1. Pick(S) \in S
    BY DEF Pick
  <1>2. IsFiniteSet(R) /\ R \in SUBSET S
    BY FS_RemoveElement
  <1>3. PICK g : Adds(f, g, SUBSET S)
    BY PartialSums
  <1>4. PICK h : Adds(f, h, SUBSET R)
    BY <1>2, PartialSums
  <1>5. g[S] = f[Pick(S)] + g[R]
    BY <1>3 DEF Adds
  <1>6. g[R] = h[R]
    <2> HIDE DEF R
    <2>1. Agree(g, h, R)
      BY <1>2, <1>3, <1>4, PartialSumsAgree
    <2> QED BY <2>1 DEF Agree
  <1>7. SumOf(f, S) = g[S]
    BY <1>3, SumIsPartial
  <1>8. SumOf(f, R) = h[R]
    <2> HIDE DEF R
    <2> QED BY <1>2, <1>4, SumIsPartial
  <1> HIDE DEF R
  <1>9. SumOf(f, S) = f[Pick(S)] + SumOf(f, R)
    BY <1>5, <1>6, <1>7, <1>8
  <1> QED BY <1>1, <1>9 DEF R

\* ... it is a number if what is added up are numbers, ...
LEMMA SumType ==
    ASSUME NEW S, IsFiniteSet(S), NEW f, \A x \in S : f[x] \in Nat
    PROVE  SumOf(f, S) \in Nat
  <1> DEFINE T == {A \in SUBSET S : SumOf(f, A) \in Nat}
  <1>1. ASSUME NEW A \in SUBSET S, \A x \in A : A \ {x} \in T
        PROVE  A \in T
    <2>1. CASE A = {}
      BY <2>1, SumOfNothing
    <2>2. CASE A # {}
      <3>1. IsFiniteSet(A)
        BY FS_Subset
      <3>2. Pick(A) \in A /\ SumOf(f, A) = f[Pick(A)] + SumOf(f, A \ {Pick(A)})
        BY <2>2, <3>1, SumPicks
      <3>3. SumOf(f, A \ {Pick(A)}) \in Nat
        BY <1>1, <3>2
      <3> QED BY <3>2, <3>3
    <2> QED BY <2>1, <2>2
  <1>2. SUBSET S \subseteq T
    <2> HIDE DEF T
    <2> QED BY <1>1, SubsetInduction
  <1> QED BY <1>2

\* ... and any element may be taken out first.
LEMMA SumTakesOut ==
    ASSUME NEW S, IsFiniteSet(S), NEW f, \A x \in S : f[x] \in Nat, NEW x \in S
    PROVE  SumOf(f, S) = f[x] + SumOf(f, S \ {x})
  <1> DEFINE T == {A \in SUBSET S : \A y \in A : SumOf(f, A) = f[y] + SumOf(f, A \ {y})}
  <1>0. \A A \in SUBSET S : IsFiniteSet(A)
    BY FS_Subset
  <1>1. ASSUME NEW A \in SUBSET S, \A y \in A : A \ {y} \in T
        PROVE  A \in T
    <2> SUFFICES ASSUME NEW y \in A
                 PROVE  SumOf(f, A) = f[y] + SumOf(f, A \ {y})
      OBVIOUS
    <2>1. PICK p : p = Pick(A)
      OBVIOUS
    <2>2. p \in A /\ SumOf(f, A) = f[p] + SumOf(f, A \ {p})
      BY <1>0, <2>1, SumPicks
    <2>3. CASE p = y
      BY <2>2, <2>3
    <2>4. CASE p # y
      <3>1. y \in A \ {p} /\ p \in A \ {y} /\ (A \ {p}) \ {y} = (A \ {y}) \ {p}
        BY <2>2, <2>4
      <3>2. SumOf(f, A \ {p}) = f[y] + SumOf(f, (A \ {p}) \ {y})
        BY <1>1, <2>2, <3>1
      <3>3. SumOf(f, A \ {y}) = f[p] + SumOf(f, (A \ {y}) \ {p})
        BY <1>1, <3>1
      <3>4. PICK r : r = SumOf(f, (A \ {p}) \ {y})
        OBVIOUS
      <3>5. r \in Nat /\ f[y] \in Nat /\ f[p] \in Nat
        <4>1. IsFiniteSet((A \ {p}) \ {y}) /\ \A z \in (A \ {p}) \ {y} : f[z] \in Nat
          BY <1>0
        <4> QED BY <2>2, <3>4, <4>1, SumType
      <3>6. SumOf(f, A) = f[p] + (f[y] + r) /\ SumOf(f, A \ {y}) = f[p] + r
        BY <2>2, <3>1, <3>2, <3>3, <3>4
      <3> QED BY <3>5, <3>6
    <2> QED BY <2>3, <2>4
  <1>2. SUBSET S \subseteq T
    <2> HIDE DEF T
    <2> QED BY <1>1, SubsetInduction
  <1> QED BY <1>2

\* The sum over two sets without a common element is that of both sums.
LEMMA SumOfUnion ==
    ASSUME NEW S, NEW T, IsFiniteSet(S), IsFiniteSet(T), S \cap T = {},
           NEW f, \A x \in S \cup T : f[x] \in Nat
    PROVE  SumOf(f, S \cup T) = SumOf(f, S) + SumOf(f, T)
  <1> DEFINE P == {A \in SUBSET T : SumOf(f, S \cup A) = SumOf(f, S) + SumOf(f, A)}
  <1>0. \A A \in SUBSET T : IsFiniteSet(A) /\ IsFiniteSet(S \cup A)
    BY FS_Subset, FS_Union
  <1>1. ASSUME NEW A \in SUBSET T, \A y \in A : A \ {y} \in P
        PROVE  A \in P
    <2>0. SumOf(f, S) \in Nat
      BY SumType
    <2>1. CASE A = {}
      <3>1. S \cup A = S /\ SumOf(f, A) = 0
        BY <2>1, SumOfNothing
      <3> QED BY <2>0, <3>1
    <2>2. CASE A # {}
      <3>1. PICK y : y \in A
        BY <2>2
      <3>2. (S \cup A) \ {y} = S \cup (A \ {y})
        BY <3>1
      <3>3. SumOf(f, S \cup A) = f[y] + SumOf(f, (S \cup A) \ {y})
        BY <1>0, <3>1, SumTakesOut
      <3>4. SumOf(f, A) = f[y] + SumOf(f, A \ {y})
        BY <1>0, <3>1, SumTakesOut
      <3>5. SumOf(f, S \cup (A \ {y})) = SumOf(f, S) + SumOf(f, A \ {y})
        BY <1>1, <3>1
      <3>6. SumOf(f, A \ {y}) \in Nat /\ f[y] \in Nat
        <4>1. IsFiniteSet(A \ {y}) /\ \A z \in A \ {y} : f[z] \in Nat
          BY <1>0
        <4> QED BY <3>1, <4>1, SumType
      <3>7. SumOf(f, S \cup A) = f[y] + (SumOf(f, S) + SumOf(f, A \ {y}))
        BY <3>2, <3>3, <3>5
      <3>8. SumOf(f, S \cup A) = SumOf(f, S) + SumOf(f, A)
        BY <2>0, <3>4, <3>6, <3>7
      <3> QED BY <3>8
    <2> QED BY <2>1, <2>2
  <1>2. SUBSET T \subseteq P
    <2> HIDE DEF P
    <2> QED BY <1>1, SubsetInduction
  <1> QED BY <1>2

\* Sums of equal numbers are equal.
LEMMA SumOfEquals ==
    ASSUME NEW S, IsFiniteSet(S), NEW f, NEW g, \A x \in S : f[x] = g[x]
    PROVE  SumOf(f, S) = SumOf(g, S)
  <1> DEFINE T == {A \in SUBSET S : SumOf(f, A) = SumOf(g, A)}
  <1>1. ASSUME NEW A \in SUBSET S, \A x \in A : A \ {x} \in T
        PROVE  A \in T
    <2>1. CASE A = {}
      BY <2>1, SumOfNothing
    <2>2. CASE A # {}
      <3>1. IsFiniteSet(A)
        BY FS_Subset
      <3>2. /\ Pick(A) \in A
            /\ SumOf(f, A) = f[Pick(A)] + SumOf(f, A \ {Pick(A)})
            /\ SumOf(g, A) = g[Pick(A)] + SumOf(g, A \ {Pick(A)})
        BY <2>2, <3>1, SumPicks
      <3>3. SumOf(f, A \ {Pick(A)}) = SumOf(g, A \ {Pick(A)})
        BY <1>1, <3>2
      <3> QED BY <3>2, <3>3
    <2> QED BY <2>1, <2>2
  <1>2. SUBSET S \subseteq T
    <2> HIDE DEF T
    <2> QED BY <1>1, SubsetInduction
  <1> QED BY <1>2

\* Nothing adds up to nothing.
LEMMA SumOfZeros ==
    ASSUME NEW S, IsFiniteSet(S), NEW f, \A x \in S : f[x] = 0
    PROVE  SumOf(f, S) = 0
  <1> DEFINE T == {A \in SUBSET S : SumOf(f, A) = 0}
  <1>1. ASSUME NEW A \in SUBSET S, \A x \in A : A \ {x} \in T
        PROVE  A \in T
    <2>1. CASE A = {}
      BY <2>1, SumOfNothing
    <2>2. CASE A # {}
      <3>1. IsFiniteSet(A)
        BY FS_Subset
      <3>2. Pick(A) \in A /\ SumOf(f, A) = f[Pick(A)] + SumOf(f, A \ {Pick(A)})
        BY <2>2, <3>1, SumPicks
      <3> QED BY <1>1, <3>2
    <2> QED BY <2>1, <2>2
  <1>2. SUBSET S \subseteq T
    <2> HIDE DEF T
    <2> QED BY <1>1, SubsetInduction
  <1>3. S \in T
    BY <1>2
  <1> QED BY <1>3

-----------------------------------------------------------------------------
(* Ascending sequences *)

Rises(s, n) == \A i, j \in 1 .. n : i < j => s[i] < s[j]

\* A finite set of numbers can be listed in ascending order: its smallest
\* element, then the rest.
LEMMA AscendingExists ==
    ASSUME NEW S \in SUBSET Nat, IsFiniteSet(S)
    PROVE  \E s \in [1 .. Cardinality(S) -> S] : Rises(s, Cardinality(S))
  <1> DEFINE T == {A \in SUBSET S :
                     \E s \in [1 .. Cardinality(A) -> A] : Rises(s, Cardinality(A))}
  <1>1. ASSUME NEW A \in SUBSET S, \A x \in A : A \ {x} \in T
        PROVE  A \in T
    <2>0. IsFiniteSet(A) /\ Cardinality(A) \in Nat
      BY FS_Subset, FS_CardinalityType
    <2>1. CASE A = {}
      <3>1. Cardinality(A) = 0
        BY <2>1, FS_EmptySet
      <3>2. [i \in 1 .. 0 |-> 0] \in [1 .. 0 -> A] /\ Rises([i \in 1 .. 0 |-> 0], 0)
        BY DEF Rises
      <3> QED BY <3>1, <3>2
    <2>2. CASE A # {}
      <3>1. PICK m \in A : \A k \in A : m <= k
        BY <2>2, SmallestOf
      <3>2. PICK n : n = Cardinality(A \ {m})
        OBVIOUS
      <3>3. n \in Nat /\ Cardinality(A) = n + 1
        <4>1. IsFiniteSet(A \ {m}) /\ n = Cardinality(A) - 1
          BY <2>0, <3>1, <3>2, FS_RemoveElement
        <4>2. n \in Nat
          BY <3>2, <4>1, FS_CardinalityType
        <4> QED BY <2>0, <4>1, <4>2
      <3>4. PICK s \in [1 .. n -> A \ {m}] : Rises(s, n)
        BY <1>1, <3>1, <3>2
      <3> DEFINE t == [i \in 1 .. n + 1 |-> IF i = 1 THEN m ELSE s[i - 1]]
      <3>5. \A i \in 1 .. n + 1 : i # 1 => i - 1 \in 1 .. n
        BY <3>3
      <3>6. ASSUME NEW i \in 1 .. n
            PROVE  s[i] \in A /\ s[i] # m /\ m < s[i] /\ s[i] \in Nat
        <4>1. s[i] \in A /\ s[i] # m
          BY <3>4
        <4>2. s[i] \in Nat /\ m \in Nat /\ m <= s[i]
          BY <3>1, <4>1
        <4> QED BY <4>1, <4>2
      <3>7. t \in [1 .. n + 1 -> A]
        BY <3>1, <3>5, <3>6
      <3>8. ASSUME NEW i \in 1 .. n + 1, NEW j \in 1 .. n + 1, i < j
            PROVE  t[i] < t[j]
        <4>1. j # 1 /\ j - 1 \in 1 .. n /\ t[j] = s[j - 1]
          BY <3>3, <3>5, <3>8
        <4>2. CASE i = 1
          BY <3>6, <4>1, <4>2
        <4>3. CASE i # 1
          <5>1. i - 1 \in 1 .. n /\ t[i] = s[i - 1] /\ i - 1 < j - 1
            BY <3>3, <3>5, <3>8, <4>3
          <5> QED BY <3>4, <4>1, <5>1 DEF Rises
        <4> QED BY <4>2, <4>3
      <3>9. Rises(t, n + 1)
        <4> HIDE DEF t
        <4> QED BY <3>8 DEF Rises
      <3> HIDE DEF t
      <3> QED BY <3>3, <3>7, <3>9
    <2> QED BY <2>1, <2>2
  <1>2. SUBSET S \subseteq T
    <2> HIDE DEF T
    <2> QED BY <1>1, SubsetInduction
  <1> QED BY <1>2

\* Ascending lists each element of the set once, and each number before the
\* larger ones.
LEMMA AscendingLists ==
    ASSUME NEW S \in SUBSET Nat, IsFiniteSet(S)
    PROVE  /\ Cardinality(S) \in Nat
           /\ Ascending(S) \in [1 .. Cardinality(S) -> S]
           /\ Rises(Ascending(S), Cardinality(S))
           /\ \A x \in S : \E i \in 1 .. Cardinality(S) : Ascending(S)[i] = x
  <1>0. PICK n : n = Cardinality(S)
    OBVIOUS
  <1>1. n \in Nat /\ IsFiniteSet(1 .. n) /\ Cardinality(1 .. n) = n
    <2>1. n \in Nat
      BY <1>0, FS_CardinalityType
    <2> QED BY <2>1, FS_Interval
  <1>2. Ascending(S) \in [1 .. n -> S] /\ Rises(Ascending(S), n)
    BY <1>0, AscendingExists DEF Ascending, Rises
  <1>3. PICK s : s = Ascending(S)
    OBVIOUS
  <1>4. \A i, j \in 1 .. n : s[i] = s[j] => i = j
    <2> SUFFICES ASSUME NEW i \in 1 .. n, NEW j \in 1 .. n, i # j
                 PROVE  s[i] # s[j]
      OBVIOUS
    <2>1. s[i] \in Nat /\ s[j] \in Nat
      BY <1>2, <1>3
    <2>2. CASE i < j
      BY <1>2, <1>3, <2>1, <2>2 DEF Rises
    <2>3. CASE j < i
      BY <1>2, <1>3, <2>1, <2>3 DEF Rises
    <2> QED BY <1>1, <2>2, <2>3
  <1>5. s \in Injection(1 .. n, S)
    BY <1>2, <1>3, <1>4 DEF Injection, IsInjective
  <1>6. s \in Surjection(1 .. n, S)
    BY <1>0, <1>1, <1>5, FS_Injection
  <1>7. \A x \in S : \E i \in 1 .. n : s[i] = x
    BY <1>6 DEF Surjection
  <1> QED BY <1>0, <1>1, <1>2, <1>3, <1>7
=============================================================================
