--------------------------- MODULE FiniteLemmas ---------------------------
(***************************************************************************)
(* What the proofs of several components need of finite sets and of        *)
(* sequences: a finite set of naturals has a largest element, the sum of   *)
(* naturals over a finite set (MapThenSumSet) changes by as much as the    *)
(* one term that changes, and what counts in a sequence does when it grows *)
(* at its end or loses its beginning.                                      *)
(*                                                                         *)
(* MapThenSumSet is recursive, so that its laws need an induction.  Here   *)
(* it is an argument by a least counterexample, a set of subsets without   *)
(* the property, which needs no theorem with an operator for a parameter.  *)
(***************************************************************************)
EXTENDS Integers, Sequences, FiniteSets, FiniteSetsExt, FiniteSetTheorems, TLAPS

-----------------------------------------------------------------------------
\* A set of subsets of a finite set that is not empty has a least one: without
\* any one of its elements it is not in the set.
LEMMA LeastSubset ==
  ASSUME NEW S, IsFiniteSet(S), NEW Bad, Bad \in SUBSET SUBSET S, Bad # {}
  PROVE  \E T \in Bad : \A x \in T : T \ {x} \notin Bad
<1>1. IsWellFoundedOn(StrictSubsetOrdering(S), FiniteSubsetsOf(S))
  BY FS_StrictSubsetOrderingWellFounded
<1>2. FiniteSubsetsOf(S) = SUBSET S
  BY FS_FiniteSubsetsOfFinite
<1>3. PICK T \in Bad : \A U \in Bad : ~ (<<U, T>> \in StrictSubsetOrdering(S))
  BY <1>1, <1>2, WFMin
<1>4. ASSUME NEW x \in T, T \ {x} \in Bad PROVE FALSE
  <2>1. <<T \ {x}, T>> \in StrictSubsetOrdering(S)
    BY <1>4 DEF StrictSubsetOrdering
  <2> QED BY <2>1, <1>3, <1>4
<1> QED BY <1>3, <1>4

\* A finite set of naturals that is not empty has a largest element.
LEMMA LargestElement ==
  ASSUME NEW S \in SUBSET Nat, IsFiniteSet(S), S # {}
  PROVE  Max(S) \in S /\ \A y \in S : y <= Max(S)
<1> DEFINE Bad == {T \in SUBSET S : T # {} /\ ~ \E x \in T : \A y \in T : x >= y}
<1>1. ASSUME Bad # {} PROVE FALSE
  <2>1. PICK T \in Bad : \A x \in T : T \ {x} \notin Bad
    <3>1. Bad \in SUBSET SUBSET S
      OBVIOUS
    <3> HIDE DEF Bad
    <3> QED BY <1>1, <3>1, LeastSubset
  <2>2. PICK x : x \in T
    BY <2>1
  <2>3. T \ {x} # {}
    BY <2>1, <2>2
  <2>4. PICK z \in T \ {x} : \A y \in T \ {x} : z >= y
    BY <2>1, <2>2, <2>3
  <2>5. x \in Nat /\ z \in Nat /\ T \subseteq Nat
    BY <2>1, <2>2, <2>4
  <2>6. CASE z >= x
    BY <2>1, <2>4, <2>5, <2>6
  <2>7. CASE x >= z
    BY <2>1, <2>2, <2>4, <2>5, <2>7
  <2> QED BY <2>5, <2>6, <2>7
<1>2. PICK x \in S : \A y \in S : x >= y
  BY <1>1
<1>3. Max(S) \in S /\ \A y \in S : Max(S) >= y
  BY <1>2, Zenon DEF Max
<1> QED BY <1>3

\* It has a smallest one too.
LEMMA SmallestElement ==
  ASSUME NEW S \in SUBSET Nat, IsFiniteSet(S), S # {}
  PROVE  Min(S) \in S /\ \A y \in S : Min(S) <= y
<1>1. \E x \in S : \A y \in S : x <= y
  <2>1. PICK b \in S : \A y \in S : y <= b
    BY LargestElement
  <2> DEFINE D == {b - y : y \in S}
  <2>2. D \subseteq 0..b /\ D \in SUBSET Nat /\ b - b \in D
    <3>1. \A y \in S : y \in Nat /\ y <= b /\ b \in Nat
      BY <2>1
    <3>2. \A y \in S : b - y \in 0..b /\ b - y \in Nat
      BY <3>1
    <3> QED BY <3>2
  <2>3. IsFiniteSet(D)
    <3>1. IsFiniteSet(0..b)
      BY FS_Interval
    <3> QED BY <2>2, <3>1, FS_Subset
  <2>4. Max(D) \in D /\ \A d \in D : d <= Max(D)
    BY <2>2, <2>3, LargestElement
  <2>5. PICK x \in S : Max(D) = b - x
    BY <2>4
  <2>6. \A y \in S : b - y <= b - x
    BY <2>4, <2>5
  <2> QED BY <2>1, <2>6
<1>2. Min(S) \in S /\ \A y \in S : Min(S) <= y
  BY <1>1, Zenon DEF Min
<1> QED BY <1>2

\* The smaller of two naturals.
LEMMA SmallerOfTwo ==
  ASSUME NEW a \in Nat, NEW b \in Nat
  PROVE  Min({a, b}) = IF a <= b THEN a ELSE b
<1>1. \E x \in {a, b} : \A y \in {a, b} : x <= y
  OBVIOUS
<1>2. Min({a, b}) \in {a, b} /\ \A y \in {a, b} : Min({a, b}) <= y
  BY <1>1, Zenon DEF Min
<1> QED BY <1>2

-----------------------------------------------------------------------------
\* The pairs that a sum of naturals counts.
Pile(f, T) == {p \in T \X Nat : 1 <= p[2] /\ p[2] <= f[p[1]]}

Pick(s) == CHOOSE x \in s : TRUE

LEMMA PickIn == ASSUME NEW s, s # {} PROVE Pick(s) \in s
<1>1. PICK y : y \in s
  OBVIOUS
<1> QED BY <1>1, Zenon DEF Pick

LEMMA PileStep ==
  ASSUME NEW S, NEW f \in [S -> Nat], NEW T \in SUBSET S, NEW x \in T,
         IsFiniteSet(Pile(f, T \ {x}))
  PROVE  /\ IsFiniteSet(Pile(f, T))
         /\ Cardinality(Pile(f, T)) = f[x] + Cardinality(Pile(f, T \ {x}))
<1> DEFINE C == {x} \X (1..f[x])
<1>1. f[x] \in Nat
  OBVIOUS
<1>2. IsFiniteSet(1..f[x]) /\ Cardinality(1..f[x]) = f[x]
  BY <1>1, FS_Interval
<1>3. IsFiniteSet(C) /\ Cardinality(C) = f[x]
  <2>1. IsFiniteSet({x}) /\ Cardinality({x}) = 1
    BY FS_Singleton
  <2>2. IsFiniteSet(C) /\ Cardinality(C) = 1 * Cardinality(1..f[x])
    BY <2>1, <1>2, FS_Product
  <2> QED BY <2>2, <1>1, <1>2
<1>4. Pile(f, T) = Pile(f, T \ {x}) \cup C
  BY DEF Pile
<1>5. Pile(f, T \ {x}) \cap C = {}
  BY DEF Pile
<1> HIDE DEF C
<1>6. /\ IsFiniteSet(Pile(f, T \ {x}) \cup C)
      /\ Cardinality(Pile(f, T \ {x}) \cup C)
           = Cardinality(Pile(f, T \ {x})) + Cardinality(C)
               - Cardinality(Pile(f, T \ {x}) \cap C)
  BY <1>3, FS_Union
<1>7. Cardinality(Pile(f, T \ {x})) \in Nat
  BY FS_CardinalityType
<1>8. Cardinality(Pile(f, T)) = Cardinality(Pile(f, T \ {x})) + f[x] - 0
  BY <1>3, <1>4, <1>5, <1>6, FS_EmptySet
<1> QED BY <1>1, <1>4, <1>6, <1>7, <1>8

LEMMA PileEmpty ==
  ASSUME NEW f PROVE IsFiniteSet(Pile(f, {})) /\ Cardinality(Pile(f, {})) = 0
<1>1. Pile(f, {}) = {}
  BY DEF Pile
<1> QED BY <1>1, FS_EmptySet

LEMMA PileFinite ==
  ASSUME NEW S, IsFiniteSet(S), NEW f \in [S -> Nat], NEW T \in SUBSET S
  PROVE  IsFiniteSet(Pile(f, T))
<1> DEFINE Bad == {U \in SUBSET S : ~IsFiniteSet(Pile(f, U))}
<1>1. SUFFICES ASSUME Bad # {} PROVE FALSE
  OBVIOUS
<1>2. PICK U \in Bad : \A x \in U : U \ {x} \notin Bad
  <2> HIDE DEF Bad
  <2>1. Bad \in SUBSET SUBSET S
    BY DEF Bad
  <2> QED BY <1>1, <2>1, LeastSubset
<1>3. U # {}
  BY <1>2, PileEmpty
<1>4. PICK x : x \in U
  BY <1>3
<1>5. IsFiniteSet(Pile(f, U \ {x}))
  BY <1>2, <1>4
<1> QED BY <1>2, <1>4, <1>5, PileStep

Total(f, S) == Cardinality(Pile(f, S))

\* A step of the fold behind MapThenSumSet.
Turn(f, S, g) ==
  [s \in SUBSET S |-> IF s = {} THEN 0 ELSE f[Pick(s)] + g[s \ {Pick(s)}]]

LEMMA CountTurns ==
  ASSUME NEW S, IsFiniteSet(S), NEW f \in [S -> Nat]
  PROVE  LET count == [s \in SUBSET S |-> Total(f, s)] IN count = Turn(f, S, count)
<1> DEFINE count == [s \in SUBSET S |-> Total(f, s)]
<1>1. ASSUME NEW s \in SUBSET S, s # {}
      PROVE  count[s] = f[Pick(s)] + count[s \ {Pick(s)}]
  <2>1. Pick(s) \in s
    BY <1>1, PickIn
  <2>2. IsFiniteSet(Pile(f, s \ {Pick(s)}))
    BY PileFinite
  <2> QED BY <2>1, <2>2, PileStep DEF Total
<1>2. count[{}] = 0
  BY PileEmpty DEF Total
<1> QED BY <1>1, <1>2 DEF Turn

LEMMA TurnsAreCount ==
  ASSUME NEW S, IsFiniteSet(S), NEW f \in [S -> Nat], NEW g, g = Turn(f, S, g)
  PROVE  g[S] = Total(f, S)
<1> DEFINE Bad == {U \in SUBSET S : g[U] # Total(f, U)}
<1>1. SUFFICES ASSUME Bad # {} PROVE FALSE
  OBVIOUS
<1>2. PICK U \in Bad : \A x \in U : U \ {x} \notin Bad
  <2>1. Bad \in SUBSET SUBSET S
    OBVIOUS
  <2> HIDE DEF Bad
  <2> QED BY <1>1, <2>1, LeastSubset
<1>3. U # {}
  <2>1. g[{}] = 0
    BY DEF Turn
  <2> QED BY <1>2, <2>1, PileEmpty DEF Total
<1>4. Pick(U) \in U
  BY <1>3, PickIn
<1>5. g[U] = f[Pick(U)] + g[U \ {Pick(U)}]
  BY <1>2, <1>3 DEF Turn
<1>6. g[U \ {Pick(U)}] = Total(f, U \ {Pick(U)})
  BY <1>2, <1>4
<1>7. Total(f, U) = f[Pick(U)] + Total(f, U \ {Pick(U)})
  <2>1. IsFiniteSet(Pile(f, U \ {Pick(U)}))
    BY <1>2, PileFinite
  <2> QED BY <2>1, <1>2, <1>4, PileStep DEF Total
<1> QED BY <1>2, <1>5, <1>6, <1>7

LEMMA TotalType ==
  ASSUME NEW S, IsFiniteSet(S), NEW f \in [S -> Nat]
  PROVE  Total(f, S) \in Nat
BY PileFinite, FS_CardinalityType DEF Total

\* A total without one of its terms.
LEMMA TotalSplit ==
  ASSUME NEW S, IsFiniteSet(S), NEW f \in [S -> Nat], NEW x \in S
  PROVE  /\ Total(f, S \ {x}) \in Nat
         /\ Total(f, S) = f[x] + Total(f, S \ {x})
<1>1. IsFiniteSet(Pile(f, S \ {x}))
  BY PileFinite
<1> QED BY <1>1, PileStep, FS_CardinalityType DEF Total

\* It changes by as much as the one term that changes.
LEMMA TotalUpdate ==
  ASSUME NEW S, IsFiniteSet(S), NEW f \in [S -> Nat], NEW g \in [S -> Nat],
         NEW x \in S, \A y \in S \ {x} : g[y] = f[y]
  PROVE  Total(g, S) + f[x] = Total(f, S) + g[x]
<1>1. Pile(f, S \ {x}) = Pile(g, S \ {x})
  BY DEF Pile
<1>2. Total(f, S \ {x}) = Total(g, S \ {x})
  BY <1>1 DEF Total
<1>3. f[x] \in Nat /\ g[x] \in Nat
  OBVIOUS
<1> QED BY <1>2, <1>3, TotalSplit

LEMMA TotalZero ==
  ASSUME NEW S, IsFiniteSet(S), NEW f \in [S -> Nat]
  PROVE  Total(f, S) = 0 <=> \A x \in S : f[x] = 0
<1>1. IsFiniteSet(Pile(f, S))
  BY PileFinite
<1>2. Total(f, S) = 0 <=> Pile(f, S) = {}
  BY <1>1, FS_EmptySet DEF Total
<1>3. ASSUME NEW x \in S, f[x] # 0 PROVE <<x, 1>> \in Pile(f, S)
  BY <1>3 DEF Pile
<1>4. ASSUME \A x \in S : f[x] = 0 PROVE Pile(f, S) = {}
  BY <1>4 DEF Pile
<1> QED BY <1>2, <1>3, <1>4

-----------------------------------------------------------------------------
\* Appending, and taking the head.
LEMMA AppendFacts ==
  ASSUME NEW S, NEW q \in Seq(S), NEW e \in S
  PROVE  /\ Append(q, e) \in Seq(S)
         /\ Len(Append(q, e)) = Len(q) + 1
         /\ \A i \in 1..Len(q) : Append(q, e)[i] = q[i]
         /\ Append(q, e)[Len(q) + 1] = e
OBVIOUS

LEMMA TailFacts ==
  ASSUME NEW S, NEW q \in Seq(S), q # <<>>
  PROVE  /\ Head(q) \in S /\ Head(q) = q[1]
         /\ Tail(q) \in Seq(S)
         /\ Len(q) \in Nat \ {0} /\ Len(Tail(q)) = Len(q) - 1
         /\ \A i \in 1..(Len(q) - 1) : Tail(q)[i] = q[i + 1]
OBVIOUS

LEMMA LenFacts ==
  ASSUME NEW S, NEW q \in Seq(S)
  PROVE  Len(q) \in Nat /\ (Len(q) = 0 <=> q = <<>>)
OBVIOUS

-----------------------------------------------------------------------------
(***************************************************************************)
(* How many of a sequence of Booleans are true: after position i (Since),  *)
(* up to position n (Until).                                               *)
(***************************************************************************)
After(q, i) == {j \in (i + 1)..Len(q) : q[j]}
Upto(q, n)  == {j \in 1..n : q[j]}
Since(q, i) == Cardinality(After(q, i))
Until(q, n) == Cardinality(Upto(q, n))

\* A set of naturals moved by k.
LEMMA ShiftedSet ==
  ASSUME NEW S \in SUBSET Int, IsFiniteSet(S), NEW k \in Int,
         NEW T, T \subseteq Int, \A j \in Int : j \in T <=> j + k \in S
  PROVE  IsFiniteSet(T) /\ Cardinality(T) = Cardinality(S)
<1> DEFINE f == [j \in S |-> j - k]
<1>1. \A j \in S : j \in Int /\ j - k \in Int /\ (j - k) + k = j
  OBVIOUS
<1>2. \A j \in S : f[j] \in T
  BY <1>1
<1>3. \A i, j \in S : f[i] = f[j] => i = j
  BY <1>1
<1>4. \A t \in T : t \in Int /\ t + k \in S /\ (t + k) - k = t
  OBVIOUS
<1>5. \A t \in T : \E j \in S : f[j] = t
  BY <1>4
<1>6. f \in [S -> T]
  BY <1>2
<1> HIDE DEF f
<1>7. f \in Bijection(S, T)
  BY <1>3, <1>5, <1>6 DEF Bijection, Injection, Surjection, IsInjective
<1> QED BY <1>7, FS_Bijection DEF ExistsBijection

LEMMA SinceType ==
  ASSUME NEW q \in Seq(BOOLEAN), NEW i \in Nat
  PROVE  IsFiniteSet(After(q, i)) /\ Since(q, i) \in Nat
<1>1. Len(q) \in Nat
  BY LenFacts
<1>2. IsFiniteSet((i + 1)..Len(q)) /\ After(q, i) \subseteq (i + 1)..Len(q)
  BY <1>1, FS_Interval DEF After
<1> QED BY <1>2, FS_Subset, FS_CardinalityType DEF Since

LEMMA UntilType ==
  ASSUME NEW q, NEW n \in Nat
  PROVE  IsFiniteSet(Upto(q, n)) /\ Until(q, n) \in Nat
<1>1. IsFiniteSet(1..n) /\ Upto(q, n) \subseteq 1..n
  BY FS_Interval DEF Upto
<1> QED BY <1>1, FS_Subset, FS_CardinalityType DEF Until

\* One more at the end.
LEMMA SinceAppend ==
  ASSUME NEW q \in Seq(BOOLEAN), NEW b \in BOOLEAN, NEW i \in 0..Len(q)
  PROVE  Since(Append(q, b), i) = Since(q, i) + IF b THEN 1 ELSE 0
<1>1. /\ Len(q) \in Nat /\ Append(q, b) \in Seq(BOOLEAN)
      /\ Len(Append(q, b)) = Len(q) + 1
      /\ \A j \in 1..Len(q) : Append(q, b)[j] = q[j]
      /\ Append(q, b)[Len(q) + 1] = b
  BY LenFacts, AppendFacts
<1>2. PICK r : r = Append(q, b)
  OBVIOUS
<1>3. i \in Nat /\ i <= Len(q)
  BY <1>1
<1>4. \A j \in (i + 1)..Len(q) : r[j] = q[j]
  BY <1>1, <1>2, <1>3
<1>5. CASE b
  <2>1. r[Len(q) + 1]
    BY <1>1, <1>2, <1>5
  <2>2. After(r, i) = After(q, i) \cup {Len(q) + 1}
    BY <1>1, <1>2, <1>3, <1>4, <2>1 DEF After
  <2>3. Len(q) + 1 \notin After(q, i)
    BY <1>1 DEF After
  <2>4. Cardinality(After(q, i) \cup {Len(q) + 1}) = Cardinality(After(q, i)) + 1
    BY <1>3, <2>3, SinceType, FS_AddElement
  <2> QED BY <1>2, <1>5, <2>2, <2>4 DEF Since
<1>6. CASE ~b
  <2>1. ~r[Len(q) + 1]
    BY <1>1, <1>2, <1>6
  <2>2. After(r, i) = After(q, i)
    BY <1>1, <1>2, <1>3, <1>4, <2>1 DEF After
  <2>3. Since(q, i) \in Nat
    BY <1>3, SinceType
  <2> QED BY <1>2, <1>6, <2>2, <2>3 DEF Since
<1> QED BY <1>5, <1>6

\* One sequence behind another.
LEMMA ConcatFacts ==
  ASSUME NEW S, NEW q \in Seq(S), NEW r \in Seq(S)
  PROVE  /\ q \o r \in Seq(S) /\ Len(q \o r) = Len(q) + Len(r)
         /\ \A i \in 1..Len(q) : (q \o r)[i] = q[i]
         /\ \A i \in 1..Len(r) : (q \o r)[Len(q) + i] = r[i]
OBVIOUS

LEMMA SinceConcat ==
  ASSUME NEW q \in Seq(BOOLEAN), NEW r \in Seq(BOOLEAN)
  PROVE  /\ \A i \in 0..Len(q) : Since(q \o r, i) = Since(q, i) + Since(r, 0)
         /\ \A i \in 0..Len(r) : Since(q \o r, Len(q) + i) = Since(r, i)
<1>0. /\ q \o r \in Seq(BOOLEAN) /\ Len(q) \in Nat /\ Len(r) \in Nat
      /\ Len(q \o r) = Len(q) + Len(r)
      /\ \A i \in 1..Len(q) : (q \o r)[i] = q[i]
      /\ \A i \in 1..Len(r) : (q \o r)[Len(q) + i] = r[i]
  BY LenFacts, ConcatFacts
<1>1. PICK c \in Seq(BOOLEAN), n \in Nat, m \in Nat :
        /\ c = q \o r /\ n = Len(q) /\ m = Len(r) /\ Len(c) = n + m
        /\ \A i \in 1..n : c[i] = q[i]
        /\ \A i \in 1..m : c[n + i] = r[i]
  BY <1>0, Zenon
<1>2. ASSUME NEW i \in 0..m
      PROVE  IsFiniteSet(After(c, n + i)) /\ Since(c, n + i) = Since(r, i)
  <2>1. i \in Nat /\ n + i \in Nat
    BY <1>1
  <2>2. After(r, i) \in SUBSET Int /\ IsFiniteSet(After(r, i))
    BY <2>1, SinceType, <1>1 DEF After
  <2>3. After(c, n + i) \subseteq Int
    BY <1>1, <2>1 DEF After
  <2>4. \A j \in Int : j \in After(c, n + i) <=> j + (-n) \in After(r, i)
    <3> SUFFICES ASSUME NEW j \in Int
                 PROVE  j \in After(c, n + i) <=> j + (-n) \in After(r, i)
      OBVIOUS
    <3>1. PICK k \in Int : k = j + (-n)
      BY <1>1
    <3>2. j = n + k /\ (j \in (n + i + 1)..(n + m) <=> k \in (i + 1)..m)
      BY <1>1, <2>1, <3>1
    <3>3. k \in (i + 1)..m => c[n + k] = r[k]
      BY <1>1, <2>1
    <3>4. j \in After(c, n + i) <=> j \in (n + i + 1)..(n + m) /\ c[j]
      BY <1>1 DEF After
    <3>5. k \in After(r, i) <=> k \in (i + 1)..m /\ r[k]
      BY <1>1 DEF After
    <3> QED BY <3>1, <3>2, <3>3, <3>4, <3>5
  <2>5. PICK z \in Int : z = -n
    BY <1>1
  <2> QED BY <2>2, <2>3, <2>4, <2>5, ShiftedSet DEF Since
<1>3. ASSUME NEW i \in 0..n PROVE Since(c, i) = Since(q, i) + Since(r, 0)
  <2>1. i \in Nat /\ i <= n
    BY <1>1
  <2>2. \A j \in Nat : j \in After(q, i) <=> j \in (i + 1)..n /\ c[j]
    BY <1>1, <2>1 DEF After
  <2>3. After(c, i) = After(q, i) \cup After(c, n)
    BY <1>1, <2>1, <2>2 DEF After
  <2>4. After(q, i) \cap After(c, n) = {}
    BY <1>1 DEF After
  <2>5. IsFiniteSet(After(q, i)) /\ IsFiniteSet(After(c, n))
    BY <1>1, <2>1, SinceType
  <2>6. Cardinality(After(q, i) \cup After(c, n))
          = Cardinality(After(q, i)) + Cardinality(After(c, n))
              - Cardinality(After(q, i) \cap After(c, n))
    BY <2>5, FS_Union
  <2>7. Cardinality(After(q, i) \cap After(c, n)) = 0
    BY <2>4, FS_EmptySet
  <2>8. Since(c, i) = Since(q, i) + Since(c, n) - 0
    BY <2>3, <2>6, <2>7 DEF Since
  <2>9. Since(c, n) = Since(r, 0)
    <3>1. 0 \in 0..m /\ n + 0 = n
      BY <1>1
    <3> QED BY <3>1, <1>2
  <2>10. Since(q, i) \in Nat /\ Since(r, 0) \in Nat
    BY <2>1, SinceType
  <2> QED BY <2>8, <2>9, <2>10
<1> QED BY <1>1, <1>2, <1>3

\* Without the first k.
LEMMA SuffixFacts ==
  ASSUME NEW S, NEW q \in Seq(S), NEW k \in 0..Len(q)
  PROVE  /\ SubSeq(q, k + 1, Len(q)) \in Seq(S)
         /\ Len(SubSeq(q, k + 1, Len(q))) = Len(q) - k
         /\ \A i \in 1..(Len(q) - k) : SubSeq(q, k + 1, Len(q))[i] = q[k + i]
<1>1. Len(q) \in Nat /\ k \in Nat /\ k <= Len(q)
  BY LenFacts
<1> QED BY <1>1

LEMMA SinceSuffix ==
  ASSUME NEW q \in Seq(BOOLEAN), NEW k \in 0..Len(q), NEW r \in Seq(BOOLEAN),
         r = SubSeq(q, k + 1, Len(q))
  PROVE  /\ \A i \in 0..Len(r) : Since(r, i) = Since(q, k + i)
         /\ \A n \in k..Len(q) : Until(q, n) = Until(q, k) + Until(r, n - k)
<1>0. /\ Len(q) \in Nat /\ k \in Nat /\ Len(r) \in Nat /\ Len(r) = Len(q) - k
      /\ \A i \in 1..(Len(q) - k) : r[i] = q[k + i]
  BY LenFacts, SuffixFacts
<1>1. PICK m \in Nat : /\ m = Len(r) /\ Len(q) = k + m /\ k \in Nat
                       /\ \A i \in 1..m : r[i] = q[k + i]
  <2>1. Len(q) = k + Len(r) /\ \A i \in 1..Len(r) : r[i] = q[k + i]
    BY <1>0
  <2> QED BY <1>0, <2>1, Zenon
<1>4. k \in Nat /\ Len(q) = k + m
  BY <1>1
<1>2. ASSUME NEW i \in 0..m PROVE Since(r, i) = Since(q, k + i)
  <2>1. i \in Nat /\ k + i \in Nat
    BY <1>1
  <2>2. After(q, k + i) \in SUBSET Int /\ IsFiniteSet(After(q, k + i))
    BY <2>1, SinceType, <1>1 DEF After
  <2>3. After(r, i) \subseteq Int
    BY <1>1, <2>1 DEF After
  <2>4. \A j \in Int : j \in After(r, i) <=> j + k \in After(q, k + i)
    <3> SUFFICES ASSUME NEW j \in Int
                 PROVE  j \in After(r, i) <=> j + k \in After(q, k + i)
      OBVIOUS
    <3>1. j \in (i + 1)..m <=> j + k \in (k + i + 1)..(k + m)
      BY <1>1, <2>1
    <3>2. j \in (i + 1)..m => r[j] = q[j + k]
      BY <1>1, <2>1
    <3>3. j \in After(r, i) <=> j \in (i + 1)..m /\ r[j]
      BY <1>1 DEF After
    <3>4. j + k \in After(q, k + i) <=> j + k \in (k + i + 1)..(k + m) /\ q[j + k]
      BY <1>1 DEF After
    <3> QED BY <3>1, <3>2, <3>3, <3>4
  <2>5. k \in Int
    BY <1>4
  <2>6. Cardinality(After(r, i)) = Cardinality(After(q, k + i))
    BY <2>2, <2>3, <2>4, <2>5, ShiftedSet
  <2> QED BY <2>6 DEF Since
<1>3. ASSUME NEW n \in k..Len(q) PROVE Until(q, n) = Until(q, k) + Until(r, n - k)
  <2>1. PICK d \in 0..m : d = n - k /\ n = k + d /\ n \in Nat /\ d \in Nat
    <3>1. n \in Nat /\ k <= n /\ n <= k + m
      BY <1>4
    <3>2. n - k \in 0..m /\ n = k + (n - k) /\ n - k \in Nat
      BY <1>4, <3>1
    <3> QED BY <3>1, <3>2
  <2> DEFINE Rest == {j \in (k + 1)..n : q[j]}
  <2>2. Upto(q, n) = Upto(q, k) \cup Rest
    BY <1>1, <2>1 DEF Upto
  <2>3. Upto(q, k) \cap Rest = {}
    BY <1>1 DEF Upto
  <2>4. IsFiniteSet(Upto(q, k)) /\ IsFiniteSet(Upto(r, d))
    BY <1>1, <2>1, UntilType
  <2>5. IsFiniteSet(Rest) /\ Cardinality(Rest) = Cardinality(Upto(r, d))
    <3>1. Upto(r, d) \in SUBSET Int /\ Rest \subseteq Int
      BY <1>1 DEF Upto
    <3>2. \A j \in Int : j \in Rest <=> j + (-k) \in Upto(r, d)
      <4> SUFFICES ASSUME NEW j \in Int PROVE j \in Rest <=> j + (-k) \in Upto(r, d)
        OBVIOUS
      <4>1. PICK i \in Int : i = j + (-k) /\ j = k + i
        BY <1>4
      <4>2. j \in (k + 1)..n <=> i \in 1..d
        BY <1>1, <2>1, <4>1
      <4>3. i \in 1..d => r[i] = q[k + i]
        <5>1. i \in 1..d => i \in 1..m
          BY <2>1
        <5> QED BY <1>1, <5>1, Zenon
      <4>4. i \in Upto(r, d) <=> i \in 1..d /\ r[i]
        BY DEF Upto
      <4> QED BY <4>1, <4>2, <4>3, <4>4
    <3> HIDE DEF Rest
    <3>3. PICK z \in Int : z = -k
      BY <1>1
    <3> QED BY <2>4, <3>1, <3>2, <3>3, ShiftedSet
  <2> HIDE DEF Rest
  <2>6. Cardinality(Upto(q, k) \cup Rest)
          = Cardinality(Upto(q, k)) + Cardinality(Rest) - Cardinality(Upto(q, k) \cap Rest)
    BY <2>4, <2>5, FS_Union
  <2>7. Cardinality(Upto(q, k) \cap Rest) = 0
    BY <2>3, FS_EmptySet
  <2>8. Until(q, n) = Until(q, k) + Until(r, d) - 0
    BY <2>2, <2>5, <2>6, <2>7 DEF Until
  <2>9. Until(q, k) \in Nat /\ Until(r, d) \in Nat
    BY <1>1, <2>1, UntilType
  <2> QED BY <2>1, <2>8, <2>9
<1> QED BY <1>1, <1>2, <1>3

\* All of it.
LEMMA SinceUntil ==
  ASSUME NEW q \in Seq(BOOLEAN)
  PROVE  /\ Since(q, 0) = Until(q, Len(q)) /\ Until(q, 0) = 0
         /\ \A k \in 0..Len(q) : Since(q, 0) = Until(q, k) + Since(q, k)
<1>1. Len(q) \in Nat
  BY LenFacts
<1>2. After(q, 0) = Upto(q, Len(q)) /\ Upto(q, 0) = {}
  BY DEF After, Upto
<1>3. Cardinality(Upto(q, 0)) = 0
  BY <1>2, FS_EmptySet
<1>4. ASSUME NEW k \in 0..Len(q) PROVE Since(q, 0) = Until(q, k) + Since(q, k)
  <2>1. k \in Nat
    OBVIOUS
  <2>2. After(q, 0) = Upto(q, k) \cup After(q, k)
    BY <1>1, <2>1 DEF After, Upto
  <2>3. Upto(q, k) \cap After(q, k) = {}
    BY <2>1 DEF After, Upto
  <2>4. IsFiniteSet(Upto(q, k)) /\ IsFiniteSet(After(q, k))
    BY <2>1, SinceType, UntilType
  <2>5. Cardinality(Upto(q, k) \cup After(q, k))
          = Cardinality(Upto(q, k)) + Cardinality(After(q, k))
              - Cardinality(Upto(q, k) \cap After(q, k))
    BY <2>4, FS_Union
  <2>6. Cardinality(Upto(q, k) \cap After(q, k)) = 0
    BY <2>3, FS_EmptySet
  <2>7. Since(q, 0) = Until(q, k) + Since(q, k) - 0
    BY <2>2, <2>5, <2>6 DEF Since, Until
  <2>8. Until(q, k) \in Nat /\ Since(q, k) \in Nat
    BY <2>1, SinceType, UntilType
  <2> QED BY <2>7, <2>8
<1> QED BY <1>2, <1>3, <1>4 DEF Since, Until

\* One position more.
LEMMA UntilNext ==
  ASSUME NEW q \in Seq(BOOLEAN), NEW n \in Nat, n < Len(q)
  PROVE  Until(q, n + 1) = Until(q, n) + IF q[n + 1] THEN 1 ELSE 0
<1>1. IsFiniteSet(Upto(q, n)) /\ Cardinality(Upto(q, n)) \in Nat /\ n + 1 \notin Upto(q, n)
  BY UntilType DEF Until, Upto
<1>2. Cardinality(Upto(q, n) \cup {n + 1}) = Cardinality(Upto(q, n)) + 1
  BY <1>1, FS_AddElement
<1>3. CASE q[n + 1]
  <2>1. Upto(q, n + 1) = Upto(q, n) \cup {n + 1}
    BY <1>3 DEF Upto
  <2> QED BY <1>2, <1>3, <2>1 DEF Until
<1>4. CASE ~q[n + 1]
  <2>1. Upto(q, n + 1) = Upto(q, n)
    BY <1>4 DEF Upto
  <2> QED BY <1>1, <1>4, <2>1 DEF Until
<1> QED BY <1>3, <1>4

\* Up to the first one.
LEMMA UntilFirst ==
  ASSUME NEW q \in Seq(BOOLEAN), NEW k \in 1..Len(q), q[k],
         \A j \in 1..Len(q) : q[j] => k <= j
  PROVE  Until(q, k) = 1
<1>1. Len(q) \in Nat /\ k \in Nat
  BY LenFacts
<1>2. Upto(q, k) = {k}
  BY <1>1 DEF Upto
<1>3. Cardinality({k}) = 1
  BY FS_Singleton
<1> QED BY <1>2, <1>3 DEF Until

-----------------------------------------------------------------------------
(***************************************************************************)
(* How many elements of a sequence are in a set, and how often it holds e. *)
(***************************************************************************)
Places(s, M)   == {i \in DOMAIN s : s[i] \in M}
Matches(s, M)  == Cardinality(Places(s, M))
Mentions(s, e) == Matches(s, {e})

LEMMA MatchesType ==
  ASSUME NEW S, NEW s \in Seq(S), NEW M
  PROVE  /\ IsFiniteSet(Places(s, M)) /\ Matches(s, M) \in Nat
         /\ Matches(s, M) = 0 <=> \A i \in DOMAIN s : s[i] \notin M
<1>1. IsFiniteSet(1..Len(s)) /\ Places(s, M) \subseteq 1..Len(s)
  BY FS_Interval DEF Places
<1>2. IsFiniteSet(Places(s, M)) /\ Matches(s, M) \in Nat
  BY <1>1, FS_Subset, FS_CardinalityType DEF Matches
<1>3. Matches(s, M) = 0 <=> Places(s, M) = {}
  BY <1>2, FS_EmptySet DEF Matches
<1> QED BY <1>2, <1>3 DEF Places

LEMMA MatchesAppend ==
  ASSUME NEW S, NEW s \in Seq(S), NEW d \in S, NEW M
  PROVE  Matches(Append(s, d), M) = Matches(s, M) + (IF d \in M THEN 1 ELSE 0)
<1>1. /\ DOMAIN s = 1..Len(s) /\ DOMAIN Append(s, d) = 1..(Len(s) + 1)
      /\ Len(s) \in Nat /\ Append(s, d)[Len(s) + 1] = d
      /\ \A i \in 1..Len(s) : Append(s, d)[i] = s[i]
  OBVIOUS
<1>2. Places(Append(s, d), M)
        = IF d \in M THEN Places(s, M) \cup {Len(s) + 1} ELSE Places(s, M)
  BY <1>1 DEF Places
<1>3. Len(s) + 1 \notin Places(s, M)
  BY <1>1 DEF Places
<1>4. Cardinality(Places(s, M) \cup {Len(s) + 1}) = Cardinality(Places(s, M)) + 1
  BY <1>3, MatchesType, FS_AddElement
<1> QED BY <1>2, <1>4, MatchesType DEF Matches

LEMMA MatchesTail ==
  ASSUME NEW S, NEW s \in Seq(S), s # <<>>, NEW M
  PROVE  Matches(s, M) = Matches(Tail(s), M) + (IF Head(s) \in M THEN 1 ELSE 0)
<1> DEFINE V == {i \in Places(s, M) : i # 1}
<1>1. /\ DOMAIN s = 1..Len(s) /\ DOMAIN Tail(s) = 1..(Len(s) - 1)
      /\ \A i \in 1..(Len(s) - 1) : Tail(s)[i] = s[i + 1]
      /\ Head(s) = s[1] /\ Len(s) \in Nat \ {0} /\ Tail(s) \in Seq(S)
  OBVIOUS
<1>2. V \in SUBSET Int /\ IsFiniteSet(V)
  <2>1. V \subseteq Places(s, M) /\ Places(s, M) \subseteq Int
    BY <1>1 DEF Places
  <2> QED BY <2>1, MatchesType, FS_Subset
<1>3. Places(Tail(s), M) \subseteq Int
  BY <1>1 DEF Places
<1>4. \A j \in Int : j \in Places(Tail(s), M) <=> j + 1 \in V
  BY <1>1 DEF Places
<1>5. Places(s, M) = IF Head(s) \in M THEN V \cup {1} ELSE V
  BY <1>1 DEF Places
<1>6. 1 \notin V
  OBVIOUS
<1> HIDE DEF V
<1>7. Cardinality(Places(Tail(s), M)) = Cardinality(V)
  <2>1. PICK k \in Int : k = 1
    OBVIOUS
  <2>2. \A j \in Int : j \in Places(Tail(s), M) <=> j + k \in V
    BY <1>4, <2>1
  <2> QED BY <1>2, <1>3, <2>2, ShiftedSet
<1>8. Cardinality(V \cup {1}) = Cardinality(V) + 1
  BY <1>2, <1>6, FS_AddElement
<1>9. Cardinality(V) \in Nat
  BY <1>2, FS_CardinalityType
<1> QED BY <1>5, <1>7, <1>8, <1>9 DEF Matches

LEMMA MentionsType ==
  ASSUME NEW S, NEW s \in Seq(S), NEW e
  PROVE  /\ Mentions(s, e) \in Nat
         /\ Mentions(s, e) = 0 <=> \A i \in DOMAIN s : s[i] # e
<1>1. /\ Matches(s, {e}) \in Nat
      /\ Matches(s, {e}) = 0 <=> \A i \in DOMAIN s : s[i] \notin {e}
  BY MatchesType
<1> QED BY <1>1 DEF Mentions

LEMMA MentionsAppend ==
  ASSUME NEW S, NEW s \in Seq(S), NEW d \in S, NEW e
  PROVE  Mentions(Append(s, d), e) = Mentions(s, e) + (IF d = e THEN 1 ELSE 0)
<1>1. Matches(Append(s, d), {e}) = Matches(s, {e}) + (IF d \in {e} THEN 1 ELSE 0)
  BY MatchesAppend
<1> QED BY <1>1 DEF Mentions

LEMMA MentionsTail ==
  ASSUME NEW S, NEW s \in Seq(S), s # <<>>, NEW e
  PROVE  Mentions(s, e) = Mentions(Tail(s), e) + (IF Head(s) = e THEN 1 ELSE 0)
<1>1. Matches(s, {e}) = Matches(Tail(s), {e}) + (IF Head(s) \in {e} THEN 1 ELSE 0)
  BY MatchesTail
<1> QED BY <1>1 DEF Mentions
=============================================================================
