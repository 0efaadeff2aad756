-------------------------------- MODULE Numbers --------------------------------
(***************************************************************************)
(* What the proofs of the other modules rest on: Min and Max of sets of    *)
(* heights, multiples of a size, and sums over finite sets.                *)
(***************************************************************************)
EXTENDS Integers, FiniteSetsExt, FiniteSetTheorems, WellFoundedInduction, TLAPS

\* A set of heights has a least element, which is Min of it.
LEMMA MinOfHeights ==
  ASSUME NEW S \in SUBSET Nat, S # {}
  PROVE  Min(S) \in S /\ \A y \in S : Min(S) <= y
<1> DEFINE R == OpToRel(<, Nat)
<1>1. IsWellFoundedOn(R, Nat)
  BY NatLessThanWellFounded
<1>2. \A x, y \in Nat : x < y => <<x, y>> \in R
  BY DEF OpToRel
<1> HIDE DEF R
<1>3. PICK x \in S : \A y \in S : ~ (<<y, x>> \in R)
  BY <1>1, WFMin
<1>4. \A a, b \in Nat : ~(a < b) => b <= a
  OBVIOUS
<1>5. \E m \in S : \A y \in S : m <= y
  BY <1>2, <1>3, <1>4
<1> QED BY <1>5 DEF Min

\* A bounded set of heights has a greatest element, which is Max of it.
LEMMA MaxOfHeights ==
  ASSUME NEW n \in Nat, NEW S \in SUBSET (0..n), S # {}
  PROVE  Max(S) \in S /\ \A y \in S : y <= Max(S)
<1> DEFINE T == {d \in 0..n : n - d \in S}
           m == Min(T)
<1>1. T \in SUBSET Nat
  OBVIOUS
<1>2. \A y \in S : y \in 0..n /\ n - y \in T
  <2> TAKE y \in S
  <2>1. y \in 0..n
    OBVIOUS
  <2>2. n - y \in 0..n /\ n - (n - y) = y
    BY <2>1
  <2> QED BY <2>1, <2>2
<1>3. m \in T /\ \A d \in T : m <= d
  BY <1>1, <1>2, MinOfHeights
<1>4. n - m \in S /\ m \in 0..n
  BY <1>3
<1> HIDE DEF T, m
<1>5. \A y \in S : n - m >= y
  <2> TAKE y \in S
  <2>1. y \in 0..n /\ m <= n - y
    BY <1>2, <1>3
  <2> QED BY <2>1, <1>4
<1>6. Max(S) \in S /\ \A y \in S : Max(S) >= y
  BY <1>4, <1>5 DEF Max
<1>7. \A y \in S : Max(S) \in 0..n /\ y \in 0..n
  BY <1>6
<1> QED BY <1>6, <1>7

\* The smaller of two numbers is one of them.
LEMMA MinOfTwo ==
  ASSUME NEW a \in Int, NEW b \in Int
  PROVE  Min({a, b}) \in {a, b} /\ Min({a, b}) <= a /\ Min({a, b}) <= b
<1>1. \E m \in {a, b} : \A y \in {a, b} : m <= y
  <2>1. CASE a <= b
    BY <2>1
  <2>2. CASE b <= a
    BY <2>2
  <2> QED BY <2>1, <2>2
<1> QED BY <1>1 DEF Min

\* So is the greater.
LEMMA MaxOfTwo ==
  ASSUME NEW a \in Int, NEW b \in Int
  PROVE  Max({a, b}) \in {a, b} /\ Max({a, b}) >= a /\ Max({a, b}) >= b
<1>1. \E m \in {a, b} : \A y \in {a, b} : m >= y
  <2>1. CASE a <= b
    BY <2>1
  <2>2. CASE b <= a
    BY <2>2
  <2> QED BY <2>1, <2>2
<1> QED BY <1>1 DEF Max

HasGreatest(S) == \E m \in S : \A y \in S : y <= m

\* A finite set of minutes has a last one.
LEMMA GreatestOfFinite ==
  ASSUME NEW S \in SUBSET Nat, IsFiniteSet(S), S # {}
  PROVE  HasGreatest(S)
<1> DEFINE Endless == {n \in Nat : \E T \in SUBSET S : T # {} /\ Cardinality(T) = n /\ ~HasGreatest(T)}
<1>1. SUFFICES ASSUME ~HasGreatest(S) PROVE FALSE
  OBVIOUS
<1>2. Cardinality(S) \in Nat
  BY FS_CardinalityType
<1>3. Cardinality(S) \in Endless
  BY <1>1, <1>2
<1>4. Endless \subseteq Nat
  OBVIOUS
<1> HIDE DEF Endless
<1>5. Min(Endless) \in Endless /\ \A n \in Endless : Min(Endless) <= n
  BY <1>3, <1>4, MinOfHeights
<1>6. PICK T \in SUBSET S : T # {} /\ Cardinality(T) = Min(Endless) /\ ~HasGreatest(T)
  BY <1>5 DEF Endless
<1>7. IsFiniteSet(T)
  BY <1>6, FS_Subset
<1>8. PICK x \in T : TRUE
  BY <1>6
<1>9. IsFiniteSet(T \ {x}) /\ Cardinality(T \ {x}) = Cardinality(T) - 1 /\ Cardinality(T) \in Nat
  BY <1>7, <1>8, FS_RemoveElement, FS_CardinalityType
<1>10. x \in Nat
  BY <1>6, <1>8
<1>11. T \ {x} # {}
  <2>1. ASSUME T \ {x} = {} PROVE FALSE
    <3>1. \A y \in T : y = x
      BY <2>1
    <3>2. \A y \in T : y <= x
      BY <1>10, <3>1
    <3> QED BY <1>6, <1>8, <3>2 DEF HasGreatest
  <2> QED BY <2>1
<1>12. HasGreatest(T \ {x})
  <2>1. ASSUME ~HasGreatest(T \ {x}) PROVE FALSE
    <3>1. Cardinality(T \ {x}) \in Nat
      BY <1>9, FS_CardinalityType
    <3>2. T \ {x} \in SUBSET S
      BY <1>6
    <3>3. Cardinality(T \ {x}) \in Endless
      BY <1>11, <2>1, <3>1, <3>2 DEF Endless
    <3>4. Cardinality(T) <= Cardinality(T) - 1
      BY <1>5, <1>6, <1>9, <3>3
    <3> QED BY <1>9, <3>4
  <2> QED BY <2>1
<1>13. PICK m \in T \ {x} : \A y \in T \ {x} : y <= m
  BY <1>12 DEF HasGreatest
<1>14. m \in Nat /\ \A y \in T : y \in Nat
  BY <1>6
<1>15. CASE x <= m
  <2>1. \A y \in T : y <= m
    BY <1>13, <1>15
  <2> QED BY <1>6, <2>1 DEF HasGreatest
<1>16. CASE m <= x
  <2>1. \A y \in T : y <= x
    BY <1>10, <1>13, <1>14, <1>16
  <2> QED BY <1>6, <1>8, <2>1 DEF HasGreatest
<1> QED BY <1>10, <1>14, <1>15, <1>16

-----------------------------------------------------------------------------
(* Multiples.                                                                *)

\* The quotient and the remainder.
LEMMA Division ==
  ASSUME NEW t \in Int, NEW z \in Nat \ {0}
  PROVE  t \div z \in Int /\ t % z \in 0..(z - 1) /\ t = (t \div z) * z + (t % z)
<1>1. t \div z \in Int /\ t % z \in 0..(z - 1)
  OBVIOUS
<1>2. t = z * (t \div z) + (t % z)
  OBVIOUS
<1>3. \A q \in Int : z * q = q * z
  OBVIOUS
<1> QED BY <1>1, <1>2, <1>3

\* Factors of multiples less than a size apart are in order.
LEMMA SizesApart ==
  ASSUME NEW m \in Int, NEW n \in Int, NEW z \in Nat \ {0}, m * z < n * z + z
  PROVE  m <= n
OBVIOUS

\* Sums and differences of multiples.
LEMMA Distributes ==
  ASSUME NEW m \in Int, NEW n \in Int, NEW z \in Int
  PROVE  m * z + n * z = (m + n) * z /\ m * z - n * z = (m - n) * z /\ 0 * z = 0 /\ 1 * z = z
OBVIOUS

Multiple(z, a) == \E m \in Int : a = m * z

\* A multiple leaves no remainder.
LEMMA MultipleIs ==
  ASSUME NEW z \in Nat \ {0}, NEW a \in Int
  PROVE  Multiple(z, a) <=> a % z = 0
<1>1. a = (a \div z) * z + (a % z) /\ a \div z \in Int
  BY Division
<1>2. ASSUME a % z = 0 PROVE Multiple(z, a)
  <2>1. (a \div z) * z \in Int
    BY <1>1
  <2>2. a = (a \div z) * z
    BY <1>1, <1>2, <2>1
  <2> QED BY <1>1, <2>2 DEF Multiple
<1>3. ASSUME NEW m \in Int, a = m * z PROVE a % z = 0
  <2> DEFINE q == a \div z  r == a % z
  <2>1. q \in Int /\ r \in 0..(z - 1) /\ a = q * z + r
    BY Division
  <2> HIDE DEF q, r
  <2>2. m * z < q * z + z /\ q * z < m * z + z
    <3> DEFINE x == m * z  y == q * z
    <3>1. x \in Int /\ y \in Int /\ x = y + r
      BY <1>3, <2>1
    <3> HIDE DEF x, y
    <3>2. x < y + z /\ y < x + z
      BY <2>1, <3>1
    <3> QED BY <3>2 DEF x, y
  <2>3. m <= q /\ q <= m
    BY <2>1, <2>2, SizesApart
  <2>4. m = q
    BY <2>1, <2>3
  <2>5. q * z \in Int
    BY <2>1
  <2>6. r = 0
    BY <1>3, <2>1, <2>4, <2>5
  <2> QED BY <2>6 DEF r
<1> QED BY <1>2, <1>3 DEF Multiple

\* Multiples are closed under sum and difference ..
LEMMA MultipleSum ==
  ASSUME NEW z \in Nat \ {0}, NEW a \in Int, NEW b \in Int, Multiple(z, a), Multiple(z, b)
  PROVE  Multiple(z, a + b) /\ Multiple(z, a - b) /\ Multiple(z, 0) /\ Multiple(z, z)
<1>1. PICK m \in Int : a = m * z
  BY DEF Multiple
<1>2. PICK n \in Int : b = n * z
  BY DEF Multiple
<1>3. /\ m * z + n * z = (m + n) * z /\ m * z - n * z = (m - n) * z
      /\ 0 * z = 0 /\ 1 * z = z
  BY Distributes
<1>4. m + n \in Int /\ m - n \in Int
  OBVIOUS
<1>5. /\ \E i \in Int : a + b = i * z
      /\ \E i \in Int : a - b = i * z
  BY <1>1, <1>2, <1>3, <1>4
<1>6. (\E i \in Int : 0 = i * z) /\ \E i \in Int : z = i * z
  BY <1>3
<1> QED BY <1>5, <1>6 DEF Multiple

\* .. hold the size itself ..
LEMMA SelfMultiple ==
  ASSUME NEW z \in Nat \ {0}
  PROVE  Multiple(z, z)
<1>1. z = 1 * z
  OBVIOUS
<1> QED BY <1>1 DEF Multiple

\* .. and nest.
LEMMA MultipleOfMultiple ==
  ASSUME NEW z \in Nat \ {0}, NEW y \in Int, NEW a \in Int, Multiple(z, y), Multiple(y, a)
  PROVE  Multiple(z, a)
<1>1. PICK m \in Int : y = m * z
  BY DEF Multiple
<1>2. PICK n \in Int : a = n * y
  BY DEF Multiple
<1>3. a = (n * m) * z /\ n * m \in Int
  BY <1>1, <1>2
<1> QED BY <1>3 DEF Multiple

\* Multiples that are less than a size apart are in order.
LEMMA MultiplesApart ==
  ASSUME NEW z \in Nat \ {0}, NEW a \in Int, NEW b \in Int, Multiple(z, a), Multiple(z, b), a < b + z
  PROVE  a <= b
<1>1. PICK m \in Int : a = m * z
  BY DEF Multiple
<1>2. PICK n \in Int : b = n * z
  BY DEF Multiple
<1>3. m <= n
  BY <1>1, <1>2, SizesApart
<1>4. \A x \in Int : x >= 0 => x * z >= 0
  OBVIOUS
<1>5. (n - m) * z >= 0 /\ n * z - m * z = (n - m) * z
  BY <1>3, <1>4, Distributes
<1>6. \A x, y, w \in Int : w >= 0 /\ x - y = w => x >= y
  OBVIOUS
<1>7. (n - m) * z \in Int
  OBVIOUS
<1> QED BY <1>1, <1>2, <1>5, <1>6, <1>7

-----------------------------------------------------------------------------
(* Sums.                                                                     *)

\* g sums v over the subsets of S, the way MapThenSumSet does.
Summing(g, v, S) ==
  g = [s \in SUBSET S |-> IF s = {} THEN 0 ELSE v[CHOOSE x \in s : TRUE] + g[s \ {CHOOSE x \in s : TRUE}]]

PartsUnited(U, s) == UNION {U[x] : x \in s}

\* The union of finitely many finite sets.
LEMMA UnitedFinite ==
  ASSUME NEW S, IsFiniteSet(S), NEW U, \A x \in S : IsFiniteSet(U[x])
  PROVE  IsFiniteSet(PartsUnited(U, S))
<1> DEFINE T == {U[x] : x \in S}
           f == [x \in S |-> U[x]]
<1>1. f \in [S -> T] /\ \A t \in T : \E x \in S : f[x] = t
  OBVIOUS
<1>2. f \in Surjection(S, T)
  BY <1>1 DEF Surjection
<1> HIDE DEF f
<1>3. IsFiniteSet(T)
  BY <1>2, FS_Surjection
<1>4. \A t \in T : IsFiniteSet(t)
  OBVIOUS
<1> QED BY <1>3, <1>4, FS_UNION DEF PartsUnited

\* Numbers that count disjoint sets add up to the number of their union.
LEMMA SumOfParts ==
  ASSUME NEW S, IsFiniteSet(S), NEW U, NEW v,
         \A x \in S : IsFiniteSet(U[x]) /\ v[x] = Cardinality(U[x]),
         \A x, y \in S : x # y => U[x] \cap U[y] = {}
  PROVE  LET w == [s \in SUBSET S |-> Cardinality(PartsUnited(U, s))]
         IN  Summing(w, v, S) /\ \A g : Summing(g, v, S) => g = w
<1> DEFINE w == [s \in SUBSET S |-> Cardinality(PartsUnited(U, s))]
           pick(s) == CHOOSE x \in s : TRUE
<1>1. \A s \in SUBSET S : IsFiniteSet(PartsUnited(U, s))
  <2> TAKE s \in SUBSET S
  <2>1. IsFiniteSet(s)
    BY FS_Subset
  <2> QED BY <2>1, UnitedFinite
<1>2. w[{}] = 0
  <2>1. PartsUnited(U, {}) = {}
    BY DEF PartsUnited
  <2> QED BY <2>1, FS_EmptySet
<1>3. \A s \in SUBSET S : s # {} => pick(s) \in s
  OBVIOUS
<1>4. ASSUME NEW s \in SUBSET S, NEW x \in s
      PROVE  w[s] = v[x] + w[s \ {x}]
  <2> DEFINE A == PartsUnited(U, s \ {x})
  <2>1. PartsUnited(U, s) = A \cup U[x]
    BY DEF PartsUnited
  <2>2. A \cap U[x] = {}
    BY DEF PartsUnited
  <2>3. s \ {x} \in SUBSET S /\ x \in S
    OBVIOUS
  <2>4. IsFiniteSet(A) /\ IsFiniteSet(U[x])
    BY <1>1, <2>3
  <2> HIDE DEF A
  <2>5. Cardinality(A \cup U[x]) = Cardinality(A) + Cardinality(U[x]) - Cardinality({})
    BY <2>2, <2>4, FS_Union
  <2>6. Cardinality(A) \in Nat /\ Cardinality(U[x]) \in Nat /\ Cardinality({}) = 0
    BY <2>4, FS_CardinalityType, FS_EmptySet
  <2>7. Cardinality(A \cup U[x]) = Cardinality(U[x]) + Cardinality(A)
    BY <2>5, <2>6
  <2>8. w[s] = Cardinality(A \cup U[x]) /\ w[s \ {x}] = Cardinality(A) /\ v[x] = Cardinality(U[x])
    BY <2>1, <2>3 DEF A
  <2> QED BY <2>7, <2>8
<1>5. \A s \in SUBSET S : w[s] = IF s = {} THEN 0 ELSE v[pick(s)] + w[s \ {pick(s)}]
  <2> TAKE s \in SUBSET S
  <2>1. s # {} => pick(s) \in s
    BY <1>3
  <2> HIDE DEF w, pick
  <2>2. s # {} => w[s] = v[pick(s)] + w[s \ {pick(s)}]
    BY <1>4, <2>1
  <2> QED BY <1>2, <2>2
<1>6. w = [s \in SUBSET S |-> w[s]]
  OBVIOUS
<1> DEFINE next(g) == [s \in SUBSET S |-> IF s = {} THEN 0 ELSE v[pick(s)] + g[s \ {pick(s)}]]
<1>7. w = next(w)
  <2>1. \A s \in SUBSET S : next(w)[s] = w[s]
    <3> HIDE DEF w, pick
    <3> QED BY <1>5
  <2> HIDE DEF w, pick
  <2> QED BY <1>6, <2>1
<1>8. Summing(w, v, S)
  BY <1>7 DEF Summing
<1>9. ASSUME NEW g, Summing(g, v, S)
      PROVE  g = w
  <2>1. \A s \in SUBSET S : g[s] = IF s = {} THEN 0 ELSE v[pick(s)] + g[s \ {pick(s)}]
    BY <1>9 DEF Summing
  <2> DEFINE bad == {s \in SUBSET S : g[s] # w[s]}
  <2>2. ASSUME bad # {} PROVE FALSE
    <3>1. FiniteSubsetsOf(S) = SUBSET S
      BY FS_FiniteSubsetsOfFinite
    <3>2. IsWellFoundedOn(StrictSubsetOrdering(S), SUBSET S)
      BY <3>1, FS_StrictSubsetOrderingWellFounded
    <3>3. bad \subseteq SUBSET S
      OBVIOUS
    <3> HIDE DEF bad
    <3>4. PICK s \in bad : \A t \in bad : ~ (<<t, s>> \in StrictSubsetOrdering(S))
      BY <2>2, <3>2, <3>3, WFMin
    <3>5. s \in SUBSET S /\ g[s] # w[s]
      BY DEF bad
    <3>6. s # {}
      BY <1>5, <2>1, <3>5
    <3>7. pick(s) \in s
      BY <1>3, <3>5, <3>6
    <3> DEFINE t == s \ {pick(s)}
    <3> HIDE DEF pick
    <3>8. t \in SUBSET S /\ t \subseteq s /\ t # s
      BY <3>5, <3>7
    <3>9. <<t, s>> \in StrictSubsetOrdering(S)
      BY <3>5, <3>8 DEF StrictSubsetOrdering
    <3>10. t \notin bad
      BY <3>4, <3>9
    <3>11. g[t] = w[t]
      BY <3>8, <3>10 DEF bad
    <3> HIDE DEF w
    <3> QED BY <1>5, <2>1, <3>5, <3>6, <3>11
  <2>3. \A s \in SUBSET S : g[s] = w[s]
    BY <2>2
  <2>4. g = [s \in SUBSET S |-> g[s]]
    BY <1>9 DEF Summing
  <2> HIDE DEF w
  <2>5. w = [s \in SUBSET S |-> w[s]]
    BY <1>6
  <2> QED BY <2>3, <2>4, <2>5
<1> QED BY <1>8, <1>9

\* Sets without a common element.
LEMMA DisjointSum ==
  ASSUME NEW P, IsFiniteSet(P), NEW Q, IsFiniteSet(Q), P \cap Q = {}
  PROVE  Cardinality(P \cup Q) = Cardinality(P) + Cardinality(Q) /\ Cardinality(P) \in Nat /\ Cardinality(Q) \in Nat
<1>1. Cardinality(P \cup Q) = Cardinality(P) + Cardinality(Q) - Cardinality(P \cap Q)
  BY FS_Union
<1>2. Cardinality(P) \in Nat /\ Cardinality(Q) \in Nat
  BY FS_CardinalityType
<1>3. Cardinality(P \cap Q) = 0
  BY FS_EmptySet
<1> QED BY <1>1, <1>2, <1>3

\* What is counted under different keys is disjoint and finite.
Apart(U, S) == \A x, y \in S : x # y => U[x] \cap U[y] = {}
Counted(U, S) == Apart(U, S) /\ \A x \in S : IsFiniteSet(U[x])

\* One function sums v, and it counts the union.
Sums(v, S, n) == (\E g : Summing(g, v, S)) /\ \A g : Summing(g, v, S) => g[S] = n

\* Numbers that count disjoint parts sum to the number of the union.
LEMMA SumsTo ==
  ASSUME NEW S, IsFiniteSet(S), NEW U, Counted(U, S), NEW v, \A x \in S : v[x] = Cardinality(U[x])
  PROVE  Sums(v, S, Cardinality(PartsUnited(U, S)))
<1> DEFINE w == [t \in SUBSET S |-> Cardinality(PartsUnited(U, t))]
<1>1. Summing(w, v, S) /\ \A g : Summing(g, v, S) => g = w
  BY SumOfParts DEF Counted, Apart
<1>2. w[S] = Cardinality(PartsUnited(U, S))
  OBVIOUS
<1> HIDE DEF w
<1> QED BY <1>1, <1>2 DEF Sums
===============================================================================
