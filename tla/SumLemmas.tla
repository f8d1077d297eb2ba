------------------------------- MODULE SumLemmas -------------------------------
(***************************************************************************)
(* Folds over finite sets and sequences, and the sums the ledgers are made   *)
(* of. A fold takes the elements of a set in a given order (MapThenSumSet in  *)
(* the one CHOOSE yields, FoldLeft by index), by a function that calls itself *)
(* on what is left. That such a function exists, and what its values are, is  *)
(* proved here by induction over the subsets of the set: the induction is     *)
(* stated with a set of subsets for the property.                             *)
(***************************************************************************)
EXTENDS Integers, FiniteSetTheorems, WellFoundedInduction, TLAPS

Pick(s) == CHOOSE x \in s : TRUE

\* The sums of f over the subsets of S, as MapThenSumSet defines them.
SumOver(f, S) ==
  CHOOSE g : g = [s \in SUBSET S |->
                    IF s = {} THEN 0
                    ELSE f[CHOOSE x \in s : TRUE] + g[s \ {CHOOSE x \in s : TRUE}]]

\* g steps through f on the sets of D.
SumSteps(g, f, D) ==
  \A s \in D : g[s] = IF s = {} THEN 0 ELSE f[Pick(s)] + g[s \ {Pick(s)}]

IsSum(g, f, S) ==
  /\ \A s \in SUBSET S : g[s] \in Int
  /\ SumSteps(g, f, SUBSET S)

\* A set of naturals has a least element.
LEMMA LeastNatural ==
  ASSUME NEW S \in SUBSET Nat, S # {}
  PROVE  \E x \in S : \A y \in S : x <= y
<1> DEFINE R == {ss \in Nat \X Nat : ss[1] < ss[2]}
<1>1. IsWellFoundedOn(R, Nat)
  <2>1. R = OpToRel(<, Nat)
    BY Zenon DEF OpToRel
  <2> QED BY <2>1, NatLessThanWellFounded
<1>2. PICK x \in S : \A y \in S : ~(<<y, x>> \in R)
  <2> HIDE DEF R
  <2> QED BY <1>1, WFMin
<1>3. ASSUME NEW y \in S PROVE x <= y
  <2>1. ~(<<y, x>>[1] < <<y, x>>[2])
    BY <1>2, Zenon
  <2>2. ~(y < x)
    BY <2>1
  <2> QED BY <2>2, SMT
<1> QED BY <1>3

LEMMA PickIn == \A s : s # {} => Pick(s) \in s
  BY Zenon DEF Pick

\* What holds of the empty set, and of a set whenever it holds of the set
\* without any one of its elements, holds of every subset of a finite set.
LEMMA SubsetDescent ==
  ASSUME NEW S, IsFiniteSet(S), NEW G, {} \in G,
         \A T \in SUBSET S : T # {} /\ (\A x \in T : T \ {x} \in G) => T \in G
  PROVE  \A T \in SUBSET S : T \in G
<1> SUFFICES ASSUME NEW U \in SUBSET S, U \notin G PROVE FALSE
  OBVIOUS
<1> DEFINE Bad == {T \in SUBSET S : T \notin G}
           sizes == {Cardinality(T) : T \in Bad}
<1>1. \A T \in SUBSET S : IsFiniteSet(T) /\ Cardinality(T) \in Nat
  BY FS_Subset, FS_CardinalityType
<1>2. sizes \in SUBSET Nat /\ sizes # {}
  BY <1>1
<1>3. PICK k \in sizes : \A j \in sizes : k <= j
  <2> HIDE DEF sizes
  <2> QED BY <1>2, LeastNatural
<1>4. PICK T \in Bad : Cardinality(T) = k
  BY <1>3
<1>5. PICK x \in T : T \ {x} \in Bad
  BY <1>4
<1>6. Cardinality(T \ {x}) = Cardinality(T) - 1
  BY <1>1, <1>5, FS_RemoveElement
<1>7. Cardinality(T) - 1 \in sizes
  BY <1>5, <1>6
<1> HIDE DEF sizes
<1> QED BY <1>1, <1>3, <1>4, <1>7, SMT

\* The same, one element at a time: the one picked first.
LEMMA SubsetInduction ==
  ASSUME NEW S, IsFiniteSet(S), NEW G, {} \in G,
         \A T \in SUBSET S : T # {} /\ T \ {Pick(T)} \in G => T \in G
  PROVE  \A T \in SUBSET S : T \in G
<1>1. \A T \in SUBSET S : T # {} /\ (\A x \in T : T \ {x} \in G) => T \in G
  BY PickIn
<1> QED BY <1>1, SubsetDescent

LEMMA SumUnique ==
  ASSUME NEW S, IsFiniteSet(S), NEW f, NEW g, NEW h,
         SumSteps(g, f, SUBSET S), SumSteps(h, f, SUBSET S)
  PROVE  \A s \in SUBSET S : g[s] = h[s]
<1> DEFINE G == {T \in SUBSET S : g[T] = h[T]}
<1>1. {} \in G
  BY DEF SumSteps
<1>2. \A T \in SUBSET S : T # {} /\ T \ {Pick(T)} \in G => T \in G
  BY Zenon DEF SumSteps
<1>3. \A T \in SUBSET S : T \in G
  <2> HIDE DEF G
  <2> QED BY <1>1, <1>2, SubsetInduction
<1> QED BY <1>3

UpTo(S, k) == {s \in SUBSET S : Cardinality(s) <= k}

LEMMA SubsetSizes ==
  ASSUME NEW S, IsFiniteSet(S), NEW s \in SUBSET S
  PROVE  /\ Cardinality(s) \in Nat
         /\ Cardinality(s) = 0 <=> s = {}
         /\ \A x \in s : Cardinality(s \ {x}) = Cardinality(s) - 1
<1>1. IsFiniteSet(s) /\ Cardinality(s) \in Nat
  BY FS_Subset, FS_CardinalityType
<1> QED BY <1>1, FS_EmptySet, FS_RemoveElement

\* g folds F over the sets of D, p[s] being the element of s it takes last.
FoldSteps(g, F, base, p, D) ==
  \A s \in D : g[s] = IF s = {} THEN base ELSE F[<<p[s], g[s \ {p[s]}]>>]

\* There is a fold over the subsets of at most k elements.
Foldable(F, base, p, S, A, k) ==
  \E g \in [UpTo(S, k) -> A] : FoldSteps(g, F, base, p, UpTo(S, k))

LEMMA FoldUpTo ==
  ASSUME NEW S, IsFiniteSet(S), NEW A, NEW base \in A, NEW F \in [S \X A -> A], NEW p,
         \A s \in SUBSET S : s # {} => p[s] \in s
  PROVE  \A k \in Nat : Foldable(F, base, p, S, A, k)
<1> DEFINE Bad == {k \in Nat : ~Foldable(F, base, p, S, A, k)}
<1> SUFFICES ASSUME Bad # {} PROVE FALSE
  OBVIOUS
<1>1. PICK k \in Bad : \A j \in Bad : k <= j
  <2>1. Bad \in SUBSET Nat
    OBVIOUS
  <2> HIDE DEF Bad
  <2> QED BY <2>1, LeastNatural
<1>2. k \in Nat /\ ~Foldable(F, base, p, S, A, k)
  OBVIOUS
<1>3. k # 0
  <2> DEFINE g == [s \in UpTo(S, 0) |-> base]
  <2>1. ASSUME NEW s \in UpTo(S, 0) PROVE s = {}
    <3>1. s \in SUBSET S /\ Cardinality(s) <= 0
      BY DEF UpTo
    <3>2. Cardinality(s) \in Nat /\ (Cardinality(s) = 0 <=> s = {})
      BY <3>1, SubsetSizes
    <3> QED BY <3>1, <3>2
  <2>2. g \in [UpTo(S, 0) -> A] /\ FoldSteps(g, F, base, p, UpTo(S, 0))
    BY <2>1 DEF FoldSteps
  <2> HIDE DEF g
  <2>3. Foldable(F, base, p, S, A, 0)
    BY <2>2 DEF Foldable
  <2> QED BY <1>2, <2>3
<1>4. k - 1 \in Nat /\ k - 1 \notin Bad
  <2> HIDE DEF Bad
  <2> QED BY <1>1, <1>2, <1>3
<1>5. PICK g \in [UpTo(S, k - 1) -> A] : FoldSteps(g, F, base, p, UpTo(S, k - 1))
  BY <1>4 DEF Foldable
<1>6. ASSUME NEW s \in UpTo(S, k), s # {}
      PROVE  s \ {p[s]} \in UpTo(S, k - 1) /\ p[s] \in S
  <2>1. s \in SUBSET S /\ Cardinality(s) <= k
    BY DEF UpTo
  <2>2. p[s] \in s
    BY <1>6, <2>1
  <2>3. Cardinality(s) \in Nat /\ Cardinality(s \ {p[s]}) = Cardinality(s) - 1
    BY <2>1, <2>2, SubsetSizes
  <2>4. Cardinality(s \ {p[s]}) <= k - 1
    BY <1>2, <2>1, <2>3
  <2> QED BY <2>1, <2>2, <2>4 DEF UpTo
<1>7. UpTo(S, k - 1) \subseteq UpTo(S, k)
  <2> SUFFICES ASSUME NEW s \in UpTo(S, k - 1) PROVE s \in UpTo(S, k)
    OBVIOUS
  <2>1. s \in SUBSET S /\ Cardinality(s) <= k - 1
    BY DEF UpTo
  <2>2. Cardinality(s) \in Nat
    BY <2>1, SubsetSizes
  <2>3. Cardinality(s) <= k
    BY <1>2, <2>1, <2>2
  <2> QED BY <2>1, <2>3 DEF UpTo
<1> DEFINE Next(s) == IF s = {} THEN base ELSE F[<<p[s], g[s \ {p[s]}]>>]
           h == [s \in UpTo(S, k) |-> Next(s)]
<1>8. \A s \in UpTo(S, k) : Next(s) \in A
  BY <1>5, <1>6
<1>9. h \in [UpTo(S, k) -> A]
  <2> HIDE DEF Next
  <2> QED BY <1>8
<1>10. \A s \in UpTo(S, k) : h[s] = Next(s)
  OBVIOUS
<1>11. \A s \in UpTo(S, k - 1) : h[s] = g[s]
  BY <1>5, <1>7, <1>10, Zenon DEF FoldSteps
<1>12. FoldSteps(h, F, base, p, UpTo(S, k))
  <2> HIDE DEF h
  <2> QED BY <1>6, <1>10, <1>11, Zenon DEF FoldSteps
<1> HIDE DEF h
<1> QED BY <1>2, <1>9, <1>12 DEF Foldable

\* A fold over the subsets of a finite set exists, and stays in its type.
LEMMA FoldExists ==
  ASSUME NEW S, IsFiniteSet(S), NEW A, NEW base \in A, NEW F \in [S \X A -> A], NEW p,
         \A s \in SUBSET S : s # {} => p[s] \in s
  PROVE  \E g \in [SUBSET S -> A] : FoldSteps(g, F, base, p, SUBSET S)
<1> DEFINE k == Cardinality(S)
<1>1. k \in Nat /\ \A s \in SUBSET S : Cardinality(s) <= k
  BY FS_Subset, FS_CardinalityType
<1>2. UpTo(S, k) = SUBSET S
  BY <1>1 DEF UpTo
<1> HIDE DEF k
<1>3. Foldable(F, base, p, S, A, k)
  BY <1>1, FoldUpTo
<1> QED BY <1>2, <1>3, Zenon DEF Foldable

\* The order of a fold over a sequence: FoldLeft takes the largest index last.
Largest(s) == CHOOSE x \in s : \A y \in s : x >= y

LEMMA LargestIn ==
  ASSUME NEW n \in Nat, NEW s \in SUBSET (1 .. n), s # {}
  PROVE  Largest(s) \in s /\ \A y \in s : y <= Largest(s)
<1> DEFINE below == {n - x : x \in s}
<1>1. below \in SUBSET Nat /\ below # {}
  <2>1. \A x \in s : n - x \in Nat
    OBVIOUS
  <2> QED BY <2>1
<1>2. PICK b \in below : \A c \in below : b <= c
  <2> HIDE DEF below
  <2> QED BY <1>1, LeastNatural
<1>3. PICK x \in s : b = n - x
  OBVIOUS
<1>4. \A y \in s : n - x <= n - y
  BY <1>2, <1>3
<1>5. \A y \in s : x >= y
  <2> SUFFICES ASSUME NEW y \in s PROVE x >= y
    OBVIOUS
  <2>1. x \in Nat /\ y \in Nat /\ n - x <= n - y
    BY <1>3, <1>4
  <2> QED BY <2>1
<1>6. Largest(s) \in s /\ \A y \in s : Largest(s) >= y
  BY <1>3, <1>5 DEF Largest
<1>7. \A y \in s : y \in Nat /\ Largest(s) \in Nat
  BY <1>6
<1> QED BY <1>6, <1>7

LEMMA LargestUpTo ==
  ASSUME NEW k \in Nat, k # 0
  PROVE  Largest(1 .. k) = k /\ (1 .. k) \ {k} = 1 .. (k - 1)
<1>1. k \in 1 .. k /\ 1 .. k # {}
  OBVIOUS
<1>2. Largest(1 .. k) \in 1 .. k /\ k <= Largest(1 .. k)
  BY <1>1, LargestIn
<1>3. Largest(1 .. k) = k
  BY <1>2
<1>4. (1 .. k) \ {k} = 1 .. (k - 1)
  OBVIOUS
<1> QED BY <1>3, <1>4

LEMMA SumExists ==
  ASSUME NEW S, IsFiniteSet(S), NEW f \in [S -> Int]
  PROVE  \E g \in [SUBSET S -> Int] : IsSum(g, f, S)
<1> DEFINE F == [x \in S \X Int |-> f[x[1]] + x[2]]
           p == [s \in SUBSET S |-> Pick(s)]
<1>1. F \in [S \X Int -> Int] /\ \A x \in S : \A a \in Int : F[<<x, a>>] = f[x] + a
  OBVIOUS
<1>2. \A s \in SUBSET S : p[s] = Pick(s) /\ (s # {} => p[s] \in s)
  BY PickIn
<1> HIDE DEF F, p
<1>3. PICK g \in [SUBSET S -> Int] : FoldSteps(g, F, 0, p, SUBSET S)
  <2>1. 0 \in Int
    OBVIOUS
  <2> QED BY <1>1, <1>2, <2>1, FoldExists
<1>4. ASSUME NEW s \in SUBSET S
      PROVE  g[s] = IF s = {} THEN 0 ELSE f[Pick(s)] + g[s \ {Pick(s)}]
  <2>1. CASE s = {}
    BY <1>3, <2>1 DEF FoldSteps
  <2>2. CASE s # {}
    <3>1. g[s] = F[<<Pick(s), g[s \ {Pick(s)}]>>]
      BY <1>2, <1>3, <2>2, Zenon DEF FoldSteps
    <3>2. Pick(s) \in S /\ g[s \ {Pick(s)}] \in Int
      BY <1>2, <2>2
    <3> QED BY <1>1, <2>2, <3>1, <3>2
  <2> QED BY <2>1, <2>2
<1> QED BY <1>3, <1>4 DEF IsSum, SumSteps

\* So what MapThenSumSet chooses is one.
LEMMA SumOverIsSum ==
  ASSUME NEW S, IsFiniteSet(S), NEW f \in [S -> Int]
  PROVE  IsSum(SumOver(f, S), f, S)
<1>1. PICK h \in [SUBSET S -> Int] : IsSum(h, f, S)
  BY SumExists
<1>2. h = [s \in SUBSET S |->
             IF s = {} THEN 0
             ELSE f[CHOOSE x \in s : TRUE] + h[s \ {CHOOSE x \in s : TRUE}]]
  BY <1>1, Zenon DEF IsSum, SumSteps, Pick
<1>3. SumOver(f, S) = [s \in SUBSET S |->
             IF s = {} THEN 0
             ELSE f[CHOOSE x \in s : TRUE] + SumOver(f, S)[s \ {CHOOSE x \in s : TRUE}]]
  BY <1>2, Zenon DEF SumOver
<1>4. SumSteps(SumOver(f, S), f, SUBSET S)
  BY <1>3, Zenon DEF Pick, SumSteps
<1>5. \A s \in SUBSET S : SumOver(f, S)[s] = h[s]
  BY <1>1, <1>4, SumUnique DEF IsSum
<1> QED BY <1>1, <1>4, <1>5 DEF IsSum

\* A sum of numbers that are at least 0 is at least 0, and a bound on each
\* number bounds it.
LEMMA SumBounds ==
  ASSUME NEW S, IsFiniteSet(S), NEW f \in [S -> Int], NEW b \in Nat,
         \A x \in S : 0 <= f[x] /\ f[x] <= b
  PROVE  \A T \in SUBSET S : /\ SumOver(f, S)[T] \in Int
                            /\ 0 <= SumOver(f, S)[T]
                            /\ SumOver(f, S)[T] <= Cardinality(T) * b
<1> DEFINE g == SumOver(f, S)
           G == {T \in SUBSET S : 0 <= g[T] /\ g[T] <= Cardinality(T) * b}
<1>1. (\A s \in SUBSET S : g[s] \in Int) /\ SumSteps(g, f, SUBSET S)
  BY SumOverIsSum DEF IsSum
<1> HIDE DEF g
<1>2. {} \in G
  <2>1. g[{}] = 0
    BY <1>1, Zenon DEF SumSteps
  <2>2. Cardinality({}) * b = 0
    BY FS_EmptySet
  <2> QED BY <2>1, <2>2
<1>3. ASSUME NEW T \in SUBSET S, T # {}, T \ {Pick(T)} \in G PROVE T \in G
  <2> DEFINE k == Cardinality(T) - 1
             U == T \ {Pick(T)}
  <2>1. k \in Nat /\ Cardinality(T) = k + 1 /\ Cardinality(U) = k /\ Pick(T) \in S
    <3>1. Cardinality(T) \in Nat /\ Cardinality(U) = Cardinality(T) - 1 /\ Pick(T) \in T
      BY <1>3, SubsetSizes, PickIn
    <3>2. Cardinality(U) \in Nat
      BY SubsetSizes
    <3> HIDE DEF U
    <3> QED BY <3>1, <3>2
  <2>2. g[T] = f[Pick(T)] + g[U]
    BY <1>1, <1>3, Zenon DEF SumSteps
  <2>3. 0 <= g[U] /\ g[U] <= k * b /\ g[U] \in Int
    BY <1>1, <1>3, <2>1
  <2> HIDE DEF k, U
  <2>4. 0 <= g[T] /\ g[T] <= b + k * b
    BY <2>1, <2>2, <2>3
  <2>5. b + k * b = (k + 1) * b
    BY <2>1
  <2> QED BY <2>1, <2>4, <2>5
<1>4. \A T \in SUBSET S : T \in G
  <2> HIDE DEF G
  <2> QED BY <1>2, <1>3, SubsetInduction
<1> QED BY <1>1, <1>4 DEF g

\* Where two functions differ at one place only, so do their sums.
LEMMA SumChange ==
  ASSUME NEW S, IsFiniteSet(S), NEW f \in [S -> Int], NEW h \in [S -> Int], NEW x \in S,
         \A y \in S \ {x} : h[y] = f[y]
  PROVE  SumOver(h, S)[S] = SumOver(f, S)[S] + (h[x] - f[x])
<1> DEFINE a == SumOver(f, S)
           b == SumOver(h, S)
           G == {T \in SUBSET S : b[T] = IF x \in T THEN a[T] + (h[x] - f[x]) ELSE a[T]}
<1>1. /\ \A s \in SUBSET S : a[s] \in Int /\ b[s] \in Int
      /\ SumSteps(a, f, SUBSET S) /\ SumSteps(b, h, SUBSET S)
  BY SumOverIsSum DEF IsSum
<1> HIDE DEF a, b
<1>2. {} \in G
  BY <1>1 DEF SumSteps
<1>3. ASSUME NEW T \in SUBSET S, T # {}, T \ {Pick(T)} \in G PROVE T \in G
  <2> DEFINE p == Pick(T)
             U == T \ {p}
  <2>1. p \in T
    BY <1>3, PickIn
  <2>2. a[T] = f[p] + a[U] /\ b[T] = h[p] + b[U]
    BY <1>1, <1>3, Zenon DEF SumSteps
  <2>3. b[U] = IF x \in U THEN a[U] + (h[x] - f[x]) ELSE a[U]
    BY <1>3
  <2>4. a[U] \in Int /\ b[U] \in Int
    BY <1>1
  <2> HIDE DEF p
  <2>5. CASE p = x
    BY <2>1, <2>2, <2>3, <2>4, <2>5
  <2>6. CASE p # x
    BY <2>1, <2>2, <2>3, <2>4, <2>6
  <2> QED BY <2>5, <2>6
<1>4. S \in G
  <2> HIDE DEF G
  <2> QED BY <1>2, <1>3, SubsetInduction
<1> QED BY <1>4 DEF a, b

\* The order does not matter: any element can be taken out of a sum.
LEMMA SumRemove ==
  ASSUME NEW S, IsFiniteSet(S), NEW f \in [S -> Int]
  PROVE  \A T \in SUBSET S : \A x \in T :
           SumOver(f, S)[T] = f[x] + SumOver(f, S)[T \ {x}]
<1> DEFINE g == SumOver(f, S)
           G == {T \in SUBSET S : \A x \in T : g[T] = f[x] + g[T \ {x}]}
<1>1. (\A s \in SUBSET S : g[s] \in Int) /\ SumSteps(g, f, SUBSET S)
  BY SumOverIsSum DEF IsSum
<1> HIDE DEF g
<1>2. {} \in G
  OBVIOUS
<1>3. ASSUME NEW T \in SUBSET S, T # {}, \A x \in T : T \ {x} \in G PROVE T \in G
  <2> DEFINE p == Pick(T)
  <2>1. p \in T
    BY <1>3, PickIn
  <2>2. g[T] = f[p] + g[T \ {p}]
    BY <1>1, <1>3, Zenon DEF SumSteps
  <2> HIDE DEF p
  <2>3. ASSUME NEW x \in T, x # p PROVE g[T] = f[x] + g[T \ {x}]
    <3>1. T \ {p} \in G /\ x \in T \ {p}
      BY <1>3, <2>1, <2>3
    <3>2. g[T \ {p}] = f[x] + g[(T \ {p}) \ {x}]
      BY <3>1
    <3>3. T \ {x} \in G /\ p \in T \ {x}
      BY <1>3, <2>1, <2>3
    <3>4. g[T \ {x}] = f[p] + g[(T \ {x}) \ {p}]
      BY <3>3
    <3>5. (T \ {p}) \ {x} = (T \ {x}) \ {p}
      OBVIOUS
    <3> DEFINE rest == g[(T \ {x}) \ {p}]
    <3>6. g[T] = f[p] + (f[x] + rest) /\ g[T \ {x}] = f[p] + rest
      BY <2>2, <3>2, <3>4, <3>5, Zenon
    <3>7. rest \in Int /\ f[p] \in Int /\ f[x] \in Int
      BY <1>1, <2>1
    <3> HIDE DEF rest
    <3>8. f[p] + (f[x] + rest) = f[x] + (f[p] + rest)
      BY <3>7
    <3> QED BY <3>6, <3>8, Zenon
  <2> QED BY <2>2, <2>3
<1>4. \A T \in SUBSET S : T \in G
  <2> HIDE DEF G
  <2> QED BY <1>2, <1>3, SubsetDescent
<1> QED BY <1>4 DEF g

\* Sums of naturals: never negative, and at least each number and the sum of
\* the others.
LEMMA SumNat ==
  ASSUME NEW S, IsFiniteSet(S), NEW f \in [S -> Nat]
  PROVE  /\ \A T \in SUBSET S : SumOver(f, S)[T] \in Nat
         /\ \A x \in S : /\ f[x] <= SumOver(f, S)[S]
                         /\ SumOver(f, S)[S \ {x}] <= SumOver(f, S)[S]
<1> DEFINE g == SumOver(f, S)
           G == {T \in SUBSET S : g[T] \in Nat}
<1>f. f \in [S -> Int]
  OBVIOUS
<1>1. SumSteps(g, f, SUBSET S)
  BY <1>f, SumOverIsSum DEF IsSum
<1>2. \A x \in S : g[S] = f[x] + g[S \ {x}]
  <2>1. \A T \in SUBSET S : \A x \in T : g[T] = f[x] + g[T \ {x}]
    BY <1>f, SumRemove
  <2> QED BY <2>1, Zenon
<1> HIDE DEF g
<1>3. {} \in G
  BY <1>1 DEF SumSteps
<1>4. ASSUME NEW T \in SUBSET S, T # {}, T \ {Pick(T)} \in G PROVE T \in G
  <2>1. g[T] = f[Pick(T)] + g[T \ {Pick(T)}]
    BY <1>1, <1>4, Zenon DEF SumSteps
  <2>2. f[Pick(T)] \in Nat /\ g[T \ {Pick(T)}] \in Nat
    BY <1>4, PickIn
  <2> QED BY <2>1, <2>2
<1>5. \A T \in SUBSET S : T \in G
  <2> HIDE DEF G
  <2> QED BY <1>3, <1>4, SubsetInduction
<1>6. \A x \in S : f[x] \in Nat /\ g[S \ {x}] \in Nat
  BY <1>5
<1>7. \A x \in S : f[x] <= g[S] /\ g[S \ {x}] <= g[S]
  <2> SUFFICES ASSUME NEW x \in S PROVE f[x] <= g[S] /\ g[S \ {x}] <= g[S]
    OBVIOUS
  <2> DEFINE a == f[x]
             rest == g[S \ {x}]
             all == g[S]
  <2>1. all = a + rest
    BY <1>2
  <2>2. a \in Nat /\ rest \in Nat
    BY <1>6
  <2> HIDE DEF a, rest, all
  <2>3. a <= all /\ rest <= all
    BY <2>1, <2>2
  <2> QED BY <2>3 DEF a, rest, all
<1> QED BY <1>5, <1>7 DEF g

\* The sum over a part is the sum of the function's values there.
LEMMA SumRestrict ==
  ASSUME NEW S, IsFiniteSet(S), NEW f \in [S -> Int],
         NEW T \in SUBSET S, NEW h \in [T -> Int], \A x \in T : h[x] = f[x]
  PROVE  SumOver(h, T)[T] = SumOver(f, S)[T]
<1>1. IsFiniteSet(T)
  BY FS_Subset
<1>2. SumSteps(SumOver(h, T), h, SUBSET T)
  BY <1>1, SumOverIsSum DEF IsSum
<1>3. SumSteps(SumOver(f, S), f, SUBSET S)
  BY SumOverIsSum DEF IsSum
<1>4. SumSteps(SumOver(f, S), h, SUBSET T)
  <2> SUFFICES ASSUME NEW s \in SUBSET T
               PROVE  SumOver(f, S)[s] =
                        IF s = {} THEN 0 ELSE h[Pick(s)] + SumOver(f, S)[s \ {Pick(s)}]
    BY Zenon DEF SumSteps
  <2>1. s \in SUBSET S
    OBVIOUS
  <2>2. s # {} => h[Pick(s)] = f[Pick(s)]
    BY PickIn
  <2> QED BY <1>3, <2>1, <2>2, Zenon DEF SumSteps
<1> QED BY <1>1, <1>2, <1>4, SumUnique
=============================================================================
