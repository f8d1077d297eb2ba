-------------------------- MODULE FleetBudgets_proofs --------------------------
(***************************************************************************)
(* Theorems about FleetBudgets, for any nodes, values, secrets, cap, chunk,  *)
(* clock and number of faults. No finiteness is assumed of them: the nodes   *)
(* that have reported are finitely many in every reachable state.            *)
(***************************************************************************)
EXTENDS FleetBudgets, SumLemmas

(***************************************************************************)
(* The ledger's arithmetic. A ledger state is read over the nodes that       *)
(* reported, with natural spends.                                           *)
(***************************************************************************)
IsLedger(c) ==
  /\ c.cap \in Nat
  /\ IsFiniteSet(Reporters(c))
  /\ c.spend \in [Reporters(c) -> Nat]

LEMMA TotalSpendIsSum ==
  ASSUME NEW c
  PROVE  TotalSpend(c) = SumOver(c.spend, Reporters(c))[Reporters(c)]
  BY Zenon DEF TotalSpend, SumOver, MapThenSumSet, MapThenFoldSet

LEMMA TotalSpendNat ==
  ASSUME NEW c, IsLedger(c)
  PROVE  /\ TotalSpend(c) \in Nat
         /\ \A n \in Reporters(c) : c.spend[n] \in Nat /\ c.spend[n] <= TotalSpend(c)
<1>1. IsFiniteSet(Reporters(c)) /\ c.spend \in [Reporters(c) -> Nat]
  BY DEF IsLedger
<1>2. Reporters(c) \in SUBSET Reporters(c)
  OBVIOUS
<1>3. SumOver(c.spend, Reporters(c))[Reporters(c)] \in Nat
  BY <1>1, <1>2, SumNat
<1>4. \A n \in Reporters(c) : c.spend[n] <= SumOver(c.spend, Reporters(c))[Reporters(c)]
  BY <1>1, SumNat
<1>5. \A n \in Reporters(c) : c.spend[n] \in Nat
  BY <1>1
<1> QED BY <1>3, <1>4, <1>5, TotalSpendIsSum

\* Forgetting a node never raises the total.
LEMMA ForgettingLowers ==
  ASSUME NEW c, IsLedger(c), NEW n, IsLedger(ForgetNode(c, n)),
         Reporters(ForgetNode(c, n)) = Reporters(c) \ {n},
         \A m \in Reporters(c) \ {n} : ForgetNode(c, n).spend[m] = c.spend[m]
  PROVE  TotalSpend(ForgetNode(c, n)) <= TotalSpend(c)
<1> DEFINE d == ForgetNode(c, n)
           R == Reporters(c)
<1>1. IsFiniteSet(R) /\ c.spend \in [R -> Nat] /\ d.spend \in [R \ {n} -> Nat]
  BY DEF IsLedger
<1>2. TotalSpend(c) = SumOver(c.spend, R)[R]
      /\ TotalSpend(d) = SumOver(d.spend, R \ {n})[R \ {n}]
  <2>1. Reporters(d) = R \ {n}
    OBVIOUS
  <2> HIDE DEF d
  <2> QED BY <2>1, TotalSpendIsSum
<1>3. \A m \in R \ {n} : d.spend[m] = c.spend[m]
  OBVIOUS
<1> HIDE DEF d, R
<1>4. SumOver(d.spend, R \ {n})[R \ {n}] = SumOver(c.spend, R)[R \ {n}]
  <2>1. R \ {n} \in SUBSET R /\ c.spend \in [R -> Int] /\ d.spend \in [R \ {n} -> Int]
    BY <1>1
  <2> QED BY <1>1, <1>3, <2>1, SumRestrict
<1>5. ASSUME n \in R PROVE TotalSpend(d) <= TotalSpend(c)
  <2>1. SumOver(c.spend, R)[R \ {n}] <= SumOver(c.spend, R)[R]
    BY <1>1, <1>5, SumNat
  <2> QED BY <1>2, <1>4, <2>1, Zenon
<1>6. ASSUME n \notin R PROVE TotalSpend(d) <= TotalSpend(c)
  <2>1. R \ {n} = R
    BY <1>6
  <2>2. R \in SUBSET R
    OBVIOUS
  <2>3. SumOver(c.spend, R)[R] \in Nat
    BY <1>1, <2>2, SumNat
  <2>4. TotalSpend(d) = TotalSpend(c)
    BY <1>2, <1>4, <2>1, Zenon
  <2> QED BY <1>2, <2>3, <2>4
<1> QED BY <1>5, <1>6 DEF d

-----------------------------------------------------------------------------
(***************************************************************************)
(* Shares: each is at most the cap, and together they are.                   *)
(***************************************************************************)

\* What a floored quotient is.
LEMMA Quotient ==
  ASSUME NEW a \in Nat, NEW b \in Nat, b > 0
  PROVE  a \div b \in Nat /\ (a \div b) * b <= a /\ a \div b <= a
  BY SMT

LEMMA TimesGrows ==
  ASSUME NEW q \in Nat, NEW a \in Nat, NEW b \in Nat, a <= b
  PROVE  q * a \in Nat /\ q * b \in Nat /\ q * a <= q * b
  BY SMT

\* Equal floors for at most N nodes fit what they are floors of.
LEMMA FloorsFit ==
  ASSUME NEW x \in Nat, NEW k \in Nat, NEW N \in Nat, N > 0, k <= N
  PROVE  /\ x \div (FloorParts * N) \in Nat
         /\ (x \div (FloorParts * N)) * k <= x
<1> DEFINE b == FloorParts * N
           q == x \div b
<1>1. FloorParts \in Nat /\ FloorParts >= 1
  BY FloorAssumption
<1>2. b \in Nat /\ b > 0 /\ k <= b
  <2>1. N * 1 <= N * FloorParts /\ N * FloorParts \in Nat
    BY <1>1, TimesGrows
  <2>2. N * FloorParts = FloorParts * N /\ N * 1 = N
    BY <1>1
  <2>3. b = FloorParts * N
    OBVIOUS
  <2> HIDE DEF b
  <2> QED BY <2>1, <2>2, <2>3
<1> HIDE DEF b
<1>3. q \in Nat /\ q * b <= x
  BY <1>2, Quotient
<1> HIDE DEF q
<1>4. q * k <= q * b /\ q * k \in Nat /\ q * b \in Nat
  BY <1>2, <1>3, TimesGrows
<1>5. q \in Nat /\ q * k <= x
  BY <1>3, <1>4
<1> QED BY <1>5 DEF q, b

LEMMA NodeCountFits ==
  ASSUME NEW c, IsLedger(c)
  PROVE  /\ NodeCount(c) \in Nat /\ NodeCount(c) > 0
         /\ \A S \in SUBSET Reporters(c) :
              Cardinality(S) \in Nat /\ Cardinality(S) <= NodeCount(c)
<1>1. IsFiniteSet(Reporters(c))
  BY DEF IsLedger
<1>2. Cardinality(Reporters(c)) \in Nat
  BY <1>1, FS_CardinalityType
<1>3. NodeCount(c) \in Nat /\ NodeCount(c) > 0 /\ Cardinality(Reporters(c)) <= NodeCount(c)
  BY <1>2 DEF NodeCount, Larger
<1>4. ASSUME NEW S \in SUBSET Reporters(c)
      PROVE  Cardinality(S) \in Nat /\ Cardinality(S) <= NodeCount(c)
  <2>1. Cardinality(S) \in Nat /\ Cardinality(S) <= Cardinality(Reporters(c))
    BY <1>1, FS_Subset, FS_CardinalityType
  <2> QED BY <1>2, <1>3, <2>1
<1> QED BY <1>3, <1>4

\* The cold nodes' floors fit the cap, and leave the hot nodes the rest.
LEMMA ColdFloorsFit ==
  ASSUME NEW c, IsLedger(c)
  PROVE  /\ ColdFloor(c) \in 0 .. c.cap
         /\ Cardinality(Cold(c)) \in Nat
         /\ HotPool(c) \in 0 .. c.cap
         /\ ColdFloor(c) * Cardinality(Cold(c)) + HotPool(c) = c.cap
<1> DEFINE N == NodeCount(c)
           k == Cardinality(Cold(c))
           room == Headroom(c)
           q == ColdFloor(c)
<1>1. c.cap \in Nat
  BY DEF IsLedger
<1>2. N \in Nat /\ N > 0 /\ k \in Nat /\ k <= N
  <2>1. Cold(c) \in SUBSET Reporters(c)
    BY DEF Cold
  <2> QED BY <2>1, NodeCountFits
<1>3. room \in Nat /\ room <= c.cap
  <2>1. TotalSpend(c) \in Nat
    BY TotalSpendNat
  <2> QED BY <1>1, <2>1 DEF Headroom, Larger
<1>4. q = 0 \/ q = room \div (FloorParts * N)
  BY Zenon DEF ColdFloor
<1> HIDE DEF N, k, room
<1>5. q \in Nat /\ q <= room
  <2>1. room \div (FloorParts * N) \in Nat /\ (room \div (FloorParts * N)) * 1 <= room
    BY <1>2, <1>3, FloorsFit
  <2> HIDE DEF q
  <2> QED BY <1>3, <1>4, <2>1
<1>6. q * k <= room /\ q * k \in Nat
  <2>1. CASE q = 0
    <3> HIDE DEF q
    <3>1. q * k = 0
      BY <1>2, <2>1
    <3> QED BY <1>3, <3>1
  <2>2. CASE q = room \div (FloorParts * N)
    <3>1. (room \div (FloorParts * N)) * k <= room
      BY <1>2, <1>3, FloorsFit
    <3>2. q * k \in Nat
      BY <1>2, <1>5, TimesGrows
    <3> HIDE DEF q
    <3> QED BY <2>2, <3>1, <3>2
  <2> QED BY <1>4, <2>1, <2>2
<1>7. HotPool(c) = c.cap - q * k
  BY DEF HotPool, k
<1> HIDE DEF q
<1>8. q \in 0 .. c.cap
  BY <1>1, <1>3, <1>5
<1>9. HotPool(c) \in 0 .. c.cap /\ q * k + HotPool(c) = c.cap
  BY <1>1, <1>3, <1>6, <1>7
<1> QED BY <1>2, <1>8, <1>9 DEF q, k

\* What ShareFor grants a node of the ledger, by the rule that applies.
LEMMA ShareCases ==
  ASSUME NEW c, IsLedger(c), NEW n
  PROVE  /\ TotalSpend(c) = 0 =>
              ShareFor(c, n) = c.cap \div (FloorParts * NodeCount(c))
         /\ TotalSpend(c) > 0 /\ SpendOf(c, n) = 0 => ShareFor(c, n) = ColdFloor(c)
         /\ TotalSpend(c) > 0 /\ SpendOf(c, n) # 0 =>
              ShareFor(c, n) = (HotPool(c) * SpendOf(c, n)) \div TotalSpend(c)
<1>1. TotalSpend(c) \in Nat
  BY TotalSpendNat
<1>2. CASE TotalSpend(c) = 0
  BY <1>1, <1>2 DEF ShareFor
<1>3. CASE TotalSpend(c) > 0 /\ SpendOf(c, n) = 0
  BY <1>1, <1>3 DEF ShareFor
<1>4. CASE TotalSpend(c) > 0 /\ SpendOf(c, n) # 0
  BY <1>1, <1>4 DEF ShareFor
<1> QED BY <1>1, <1>2, <1>3, <1>4

\* A hot node's weighted slice of the pool.
LEMMA HotSlice ==
  ASSUME NEW h \in Nat, NEW f \in Nat, NEW t \in Nat, t > 0
  PROVE  /\ (h * f) \div t \in Nat
         /\ t * ((h * f) \div t) <= h * f
         /\ f <= t => (h * f) \div t <= h
<1> DEFINE a == h * f
           q == a \div t
<1>1. a \in Nat
  BY SMT
<1>2. f <= t => a <= h * t
  BY TimesGrows
<1> HIDE DEF a
<1>3. q \in Nat /\ q * t <= a
  BY <1>1, Quotient
<1> HIDE DEF q
<1>4. t * q <= a
  BY <1>3
<1>5. ASSUME f <= t, q > h PROVE FALSE
  <2>1. t * (h + 1) <= t * q
    BY <1>3, <1>5, TimesGrows
  <2>2. t * (h + 1) = h * t + t
    OBVIOUS
  <2>3. h * t \in Nat
    OBVIOUS
  <2> QED BY <1>2, <1>4, <1>5, <2>1, <2>2, <2>3, <1>1, <1>3
<1>6. q \in Nat /\ t * q <= a /\ (f <= t => q <= h)
  BY <1>3, <1>4, <1>5
<1> QED BY <1>6 DEF q, a

LEMMA EqualSplit ==
  ASSUME NEW c, IsLedger(c)
  PROVE  /\ c.cap \div (FloorParts * NodeCount(c)) \in 0 .. c.cap
         /\ \A S \in SUBSET Reporters(c) :
              Cardinality(S) * (c.cap \div (FloorParts * NodeCount(c))) <= c.cap
<1> DEFINE N == NodeCount(c)
           q == c.cap \div (FloorParts * N)
<1>1. c.cap \in Nat /\ N \in Nat /\ N > 0
  BY NodeCountFits DEF IsLedger
<1>2. \A S \in SUBSET Reporters(c) : Cardinality(S) \in Nat /\ Cardinality(S) <= N
  BY NodeCountFits
<1> HIDE DEF N
<1>3. q \in Nat /\ q * 1 <= c.cap
  BY <1>1, FloorsFit
<1>4. ASSUME NEW S \in SUBSET Reporters(c) PROVE Cardinality(S) * q <= c.cap
  <2> DEFINE k == Cardinality(S)
  <2>1. k \in Nat /\ k <= N
    BY <1>2
  <2> HIDE DEF k
  <2>2. q * k <= c.cap
    BY <1>1, <2>1, FloorsFit
  <2> HIDE DEF q
  <2>3. k * q <= c.cap
    BY <1>3, <2>1, <2>2
  <2> QED BY <2>3 DEF k
<1>5. q \in 0 .. c.cap
  <2> HIDE DEF q
  <2> QED BY <1>1, <1>3
<1> QED BY <1>4, <1>5 DEF q, N

LEMMA SpendOfBounded ==
  ASSUME NEW c, IsLedger(c), NEW n
  PROVE  SpendOf(c, n) \in Nat /\ SpendOf(c, n) <= TotalSpend(c)
  BY TotalSpendNat DEF SpendOf

\* No node, known to the ledger or not, is granted more than the cap.
LEMMA ShareWithinCap ==
  ASSUME NEW c, IsLedger(c), NEW n
  PROVE  ShareFor(c, n) \in 0 .. c.cap
<1> DEFINE t == TotalSpend(c)
           f == SpendOf(c, n)
           h == HotPool(c)
<1>1. t \in Nat /\ f \in Nat /\ f <= t
  BY TotalSpendNat, SpendOfBounded
<1>2. h \in 0 .. c.cap /\ c.cap \in Nat
  BY ColdFloorsFit DEF IsLedger
<1>3. CASE t = 0
  BY <1>3, ShareCases, EqualSplit
<1>4. CASE t > 0 /\ f = 0
  BY <1>4, ShareCases, ColdFloorsFit
<1>5. CASE t > 0 /\ f # 0
  <2>1. ShareFor(c, n) = (h * f) \div t
    BY <1>5, ShareCases
  <2> HIDE DEF t, f, h
  <2> DEFINE s == (h * f) \div t
  <2>2. s \in Nat /\ s <= h
    BY <1>1, <1>2, <1>5, HotSlice
  <2> HIDE DEF s
  <2>3. s \in 0 .. c.cap
    BY <1>2, <2>2
  <2> QED BY <2>1, <2>3 DEF s
<1> QED BY <1>1, <1>3, <1>4, <1>5

\* The sum in Conserves is the sum of the function of the shares.
Shares(c) == [n \in Reporters(c) |-> ShareFor(c, n)]

LEMMA ConservesIsSum ==
  ASSUME NEW c, IsLedger(c)
  PROVE  Conserves(c) <=> SumOver(Shares(c), Reporters(c))[Reporters(c)] <= c.cap
<1> DEFINE R == Reporters(c)
           g == CHOOSE g : g = [s \in SUBSET R |->
                  IF s = {} THEN 0
                  ELSE ShareFor(c, CHOOSE x \in s : TRUE) + g[s \ {CHOOSE x \in s : TRUE}]]
           a == SumOver(Shares(c), R)
<1>1. Conserves(c) <=> g[R] <= c.cap
  BY Zenon DEF Conserves, MapThenSumSet, MapThenFoldSet
<1>2. IsFiniteSet(R) /\ Shares(c) \in [R -> Int]
  <2>1. c.cap \in Nat /\ IsFiniteSet(R)
    BY DEF IsLedger
  <2>2. \A n \in R : ShareFor(c, n) \in Int
    BY <2>1, ShareWithinCap
  <2> QED BY <2>1, <2>2 DEF Shares
<1>3. \A s \in SUBSET R : s # {} => Shares(c)[Pick(s)] = ShareFor(c, Pick(s))
  BY PickIn DEF Shares
<1>4. SumSteps(a, Shares(c), SUBSET R)
  BY <1>2, SumOverIsSum DEF IsSum
<1>5. PICK b : b = [s \in SUBSET R |-> a[s]]
  OBVIOUS
<1>6. \A s \in SUBSET R : b[s] = a[s]
  BY <1>5
<1> HIDE DEF a
<1>7. \A s \in SUBSET R :
        b[s] = IF s = {} THEN 0 ELSE ShareFor(c, Pick(s)) + b[s \ {Pick(s)}]
  <2> SUFFICES ASSUME NEW s \in SUBSET R
               PROVE  b[s] = IF s = {} THEN 0 ELSE ShareFor(c, Pick(s)) + b[s \ {Pick(s)}]
    OBVIOUS
  <2>1. s \ {Pick(s)} \in SUBSET R
    OBVIOUS
  <2> QED BY <1>3, <1>4, <1>6, <2>1, Zenon DEF SumSteps
<1>8. b = [s \in SUBSET R |->
             IF s = {} THEN 0
             ELSE ShareFor(c, CHOOSE x \in s : TRUE) + b[s \ {CHOOSE x \in s : TRUE}]]
  <2>1. b = [s \in SUBSET R |-> b[s]]
    BY <1>5, <1>6, Zenon
  <2>2. \A s \in SUBSET R :
          b[s] = IF s = {} THEN 0
                 ELSE ShareFor(c, CHOOSE x \in s : TRUE) + b[s \ {CHOOSE x \in s : TRUE}]
    BY <1>7, Zenon DEF Pick
  <2> QED BY <2>1, <2>2, Zenon
<1>9. g = [s \in SUBSET R |->
             IF s = {} THEN 0
             ELSE ShareFor(c, CHOOSE x \in s : TRUE) + g[s \ {CHOOSE x \in s : TRUE}]]
  BY <1>8, Zenon
<1> HIDE DEF g
<1>10. SumSteps(g, Shares(c), SUBSET R)
  <2>1. \A s \in SUBSET R :
          g[s] = IF s = {} THEN 0
                 ELSE ShareFor(c, CHOOSE x \in s : TRUE) + g[s \ {CHOOSE x \in s : TRUE}]
    BY <1>9, Zenon
  <2> QED BY <1>3, <2>1, Zenon DEF SumSteps, Pick
<1>11. g[R] = a[R]
  <2>1. R \in SUBSET R
    OBVIOUS
  <2>2. \A s \in SUBSET R : g[s] = a[s]
    BY <1>2, <1>4, <1>10, SumUnique
  <2> QED BY <2>1, <2>2, Zenon
<1> QED BY <1>1, <1>11, Zenon DEF a

\* Once something was spent: over any nodes of the ledger, the shares are at
\* most the floors of the cold ones and the hot ones' parts of the pool.
LEMMA WeightedShares ==
  ASSUME NEW c, IsLedger(c), TotalSpend(c) > 0
  PROVE  \A U \in SUBSET Reporters(c) :
           TotalSpend(c) * SumOver(Shares(c), Reporters(c))[U]
             <= (TotalSpend(c) * ColdFloor(c)) * Cardinality(U \cap Cold(c))
                  + HotPool(c) * SumOver(c.spend, Reporters(c))[U]
<1> DEFINE R == Reporters(c)
           t == TotalSpend(c)
           q == ColdFloor(c)
           h == HotPool(c)
           sh == Shares(c)
           f == c.spend
           a == SumOver(sh, R)
           b == SumOver(f, R)
           K(U) == Cardinality(U \cap Cold(c))
           G == {U \in SUBSET R : t * a[U] <= (t * q) * K(U) + h * b[U]}
<1>1. t \in Nat /\ t > 0 /\ q \in Nat /\ h \in Nat
  BY TotalSpendNat, ColdFloorsFit DEF IsLedger
<1>2. IsFiniteSet(R) /\ f \in [R -> Nat] /\ f \in [R -> Int] /\ sh \in [R -> Int]
  <2>1. c.cap \in Nat /\ IsFiniteSet(R) /\ f \in [R -> Nat]
    BY DEF IsLedger
  <2>2. \A n \in R : ShareFor(c, n) \in Int
    BY <2>1, ShareWithinCap
  <2> QED BY <2>1, <2>2 DEF Shares
<1>3. /\ \A s \in SUBSET R : a[s] \in Int /\ b[s] \in Int
      /\ SumSteps(a, sh, SUBSET R) /\ SumSteps(b, f, SUBSET R)
  BY <1>2, SumOverIsSum DEF IsSum
<1>4. \A n \in R : /\ f[n] \in Nat
                   /\ sh[n] = ShareFor(c, n)
                   /\ SpendOf(c, n) = f[n]
                   /\ n \in Cold(c) <=> f[n] = 0
  BY <1>2 DEF SpendOf, Cold, Shares
<1>5. \A n \in R : IF n \in Cold(c) THEN sh[n] = q ELSE t * sh[n] <= h * f[n]
  <2> SUFFICES ASSUME NEW n \in R
               PROVE  IF n \in Cold(c) THEN sh[n] = q ELSE t * sh[n] <= h * f[n]
    OBVIOUS
  <2>1. CASE n \in Cold(c)
    <3>1. SpendOf(c, n) = 0
      BY <1>4, <2>1
    <3>2. ShareFor(c, n) = ColdFloor(c)
      BY <3>1, ShareCases
    <3> QED BY <1>4, <2>1, <3>2, Zenon
  <2>2. CASE n \notin Cold(c)
    <3> DEFINE fn == f[n]
    <3>1. fn \in Nat /\ fn # 0 /\ sh[n] = (h * fn) \div t
      <4>1. fn \in Nat /\ fn # 0 /\ SpendOf(c, n) = fn /\ sh[n] = ShareFor(c, n)
        BY <1>4, <2>2, Zenon
      <4>2. SpendOf(c, n) # 0
        BY <4>1, Zenon
      <4>3. ShareFor(c, n) = (HotPool(c) * SpendOf(c, n)) \div TotalSpend(c)
        BY <4>2, ShareCases
      <4> QED BY <4>1, <4>3, Zenon
    <3> HIDE DEF t, h, fn
    <3>2. t * ((h * fn) \div t) <= h * fn
      BY <1>1, <3>1, HotSlice
    <3>3. t * sh[n] <= h * fn
      BY <3>1, <3>2, Zenon
    <3> QED BY <2>2, <3>3, Zenon DEF fn
  <2> QED BY <2>1, <2>2
<1>6. \A U \in SUBSET R : IsFiniteSet(U \cap Cold(c)) /\ K(U) \in Nat
  BY <1>2, FS_Subset, FS_CardinalityType
<1> HIDE DEF a, b, t, q, h, sh, f
<1>7. {} \in G
  <2>1. a[{}] = 0 /\ b[{}] = 0
    BY <1>3, Zenon DEF SumSteps
  <2>2. K({}) = 0
    <3>1. {} \cap Cold(c) = {}
      OBVIOUS
    <3> QED BY <3>1, FS_EmptySet
  <2> QED BY <1>1, <2>1, <2>2
<1>8. ASSUME NEW U \in SUBSET R, U # {}, U \ {Pick(U)} \in G PROVE U \in G
  <2> DEFINE p == Pick(U)
             V == U \ {p}
             x == a[V]
             y == b[V]
             k == K(V)
             sp == sh[p]
             fp == f[p]
             A == t * q
  <2>1. p \in U /\ p \in R
    BY <1>8, PickIn
  <2>2. a[U] = sp + x /\ b[U] = fp + y
    BY <1>3, <1>8, Zenon DEF SumSteps
  <2>3. x \in Int /\ y \in Int /\ k \in Nat /\ fp \in Nat /\ sp \in Int
    BY <1>2, <1>3, <1>4, <1>6, <2>1
  <2>4. t * x <= A * k + h * y
    BY <1>8
  <2>5. K(U) = IF p \in Cold(c) THEN k + 1 ELSE k
    <3>1. IsFiniteSet(U \cap Cold(c)) /\ K(U) \in Nat
      BY <1>6
    <3>2. V \cap Cold(c) = (U \cap Cold(c)) \ {p}
      OBVIOUS
    <3>3. k = IF p \in U \cap Cold(c) THEN K(U) - 1 ELSE K(U)
      <4> HIDE DEF p, V
      <4> QED BY <3>1, <3>2, FS_RemoveElement
    <3> HIDE DEF p, V, k
    <3> QED BY <2>1, <3>1, <3>3
  <2>6. A \in Nat /\ A = t * q
    BY <1>1
  <2>7. IF p \in Cold(c) THEN sp = q /\ fp = 0 ELSE t * sp <= h * fp
    <3>1. p \in Cold(c) => sp = q /\ fp = 0
      BY <1>4, <1>5, <2>1, Zenon
    <3>2. p \notin Cold(c) => t * sp <= h * fp
      BY <1>5, <2>1, Zenon
    <3> QED BY <3>1, <3>2, Zenon
  <2> HIDE DEF p, V, x, y, k, sp, fp, A, K, G
  <2>8. t * (sp + x) <= A * K(U) + h * (fp + y)
    <3>1. t * (sp + x) = t * sp + t * x /\ h * (fp + y) = h * fp + h * y
      BY <1>1, <2>3
    <3>2. t * sp \in Int /\ t * x \in Int /\ h * fp \in Int /\ h * y \in Int /\ A * k \in Int
      BY <1>1, <2>3, <2>6
    <3>3. CASE p \in Cold(c)
      <4>1. A * (k + 1) = A * k + A /\ h * fp = 0 /\ t * sp = A
        BY <1>1, <2>3, <2>6, <2>7, <3>3
      <4>2. A * K(U) = A * k + A
        BY <2>5, <3>3, <4>1
      <4> QED BY <2>4, <2>6, <3>1, <3>2, <4>1, <4>2
    <3>4. CASE p \notin Cold(c)
      <4>1. t * sp <= h * fp /\ A * K(U) = A * k
        BY <2>5, <2>7, <3>4
      <4> QED BY <2>4, <3>1, <3>2, <4>1
    <3> QED BY <3>3, <3>4
  <2>9. t * a[U] <= A * K(U) + h * b[U]
    BY <2>2, <2>8, Zenon
  <2> QED BY <2>6, <2>9, Zenon DEF G, K
<1>9. \A U \in SUBSET R : U \in G
  <2> HIDE DEF G
  <2> QED BY <1>2, <1>7, <1>8, SubsetInduction
<1>10. \A U \in SUBSET R : t * a[U] <= (t * q) * K(U) + h * b[U]
  BY <1>9
<1> QED BY <1>10, Zenon DEF a, b, t, q, h, sh, f

(***************************************************************************)
(* The conservation claim of share_for_node, of every ledger state: any cap, *)
(* any finite set of nodes that reported, any natural spends, overspent or   *)
(* not.                                                                      *)
(***************************************************************************)
THEOREM SharesPartitionCap ==
  ASSUME NEW c, IsLedger(c)
  PROVE  Conserves(c)
<1> DEFINE R == Reporters(c)
           t == TotalSpend(c)
           total == SumOver(Shares(c), R)[R]
<1>1. IsFiniteSet(R) /\ c.cap \in Nat /\ t \in Nat /\ R \in SUBSET R
  BY TotalSpendNat DEF IsLedger
<1>2. \A n \in R : Shares(c)[n] = ShareFor(c, n) /\ ShareFor(c, n) \in 0 .. c.cap
  BY ShareWithinCap DEF Shares
<1>3. Shares(c) \in [R -> Int]
  <2>1. \A n \in R : ShareFor(c, n) \in Int
    BY <1>1, <1>2
  <2> QED BY <2>1 DEF Shares
<1>4. ASSUME t = 0 PROVE total <= c.cap
  <2> DEFINE q == c.cap \div (FloorParts * NodeCount(c))
  <2>1. q \in 0 .. c.cap /\ Cardinality(R) * q <= c.cap
    BY <1>1, EqualSplit
  <2>2. \A n \in R : Shares(c)[n] = q
    BY <1>2, <1>4, ShareCases
  <2> HIDE DEF q
  <2>3. q \in Nat /\ \A n \in R : 0 <= Shares(c)[n] /\ Shares(c)[n] <= q
    BY <1>1, <2>1, <2>2
  <2>4. total \in Int /\ total <= Cardinality(R) * q
    BY <1>1, <1>3, <2>3, SumBounds
  <2>5. Cardinality(R) * q \in Int
    BY <1>1, <2>3, FS_CardinalityType
  <2> HIDE DEF total
  <2> QED BY <1>1, <2>1, <2>4, <2>5
<1>5. ASSUME t > 0 PROVE total <= c.cap
  <2> DEFINE q == ColdFloor(c)
             k == Cardinality(Cold(c))
             h == HotPool(c)
  <2>1. q \in Nat /\ k \in Nat /\ h \in Nat /\ q * k + h = c.cap
    BY <1>1, ColdFloorsFit
  <2>2. R \cap Cold(c) = Cold(c)
    BY DEF Cold
  <2>3. t * total <= (t * q) * k + h * t
    BY <1>1, <1>5, <2>2, WeightedShares, TotalSpendIsSum
  <2>4. total \in Int
    BY <1>1, <1>3, SumOverIsSum DEF IsSum
  <2> HIDE DEF t, total, q, k, h
  <2>5. (t * q) * k + h * t = t * c.cap
    <3>1. (t * q) * k + h * t = t * (q * k + h)
      BY <1>1, <2>1
    <3> QED BY <2>1, <3>1, Zenon
  <2>6. ASSUME total > c.cap PROVE FALSE
    <3>1. t * (c.cap + 1) <= t * total /\ t * (c.cap + 1) = t * c.cap + t
      BY <1>1, <1>5, <2>4, <2>6, TimesGrows
    <3>2. t * c.cap \in Int /\ t * total \in Int
      BY <1>1, <2>4
    <3> QED BY <1>1, <1>5, <2>3, <2>5, <3>1, <3>2
  <2> QED BY <1>1, <2>4, <2>6
<1>6. total <= c.cap
  BY <1>1, <1>4, <1>5
<1> QED BY <1>6, ConservesIsSum

-----------------------------------------------------------------------------
(***************************************************************************)
(* What the state is made of, with the contents of the channels and what the *)
(* arithmetic above needs of a ledger.                                      *)
(***************************************************************************)
Spent == 0 .. Cap + Chunk - 1
Entries == [share : 0 .. Cap, spent : Spent, wid : 0 .. MaxNow]
Partial(D, S) == UNION {[M -> S] : M \in SUBSET D}
Channel(S) == {<<>>} \cup {<<m>> : m \in S}
Streams == [phase : {"none", "open", "cut", "gone"},
            up    : Channel(Partial(Values, Spent)),
            down  : Channel(Partial(Values, 0 .. Cap))]

LEMMA Parameters ==
  /\ Cap \in Nat /\ Cap > 0 /\ Chunk \in Nat /\ Chunk > 0
  /\ MaxNow \in Nat /\ MaxFaults \in Nat
  /\ Windowed \in BOOLEAN
  BY BudgetsAssumption

LEMMA PartialIs ==
  ASSUME NEW D, NEW S, NEW f
  PROVE  f \in Partial(D, S) <=> DOMAIN f \in SUBSET D /\ f \in [DOMAIN f -> S]
  BY DEF Partial

LEMMA ChannelIs ==
  ASSUME NEW S
  PROVE  /\ <<>> \in Channel(S)
         /\ \A m \in S : <<m>> \in Channel(S)
         /\ \A q \in Channel(S) : q # <<>> => Head(q) \in S
         /\ \A q \in Channel(S) : Len(q) <= 1
<1>1. <<>> \in Channel(S) /\ \A m \in S : <<m>> \in Channel(S)
  BY Zenon DEF Channel
<1>2. ASSUME NEW q \in Channel(S) PROVE Len(q) <= 1 /\ (q # <<>> => Head(q) \in S)
  <2>1. CASE q = <<>>
    BY <2>1
  <2>2. CASE \E m \in S : q = <<m>>
    <3>1. PICK m \in S : q = <<m>>
      BY <2>2
    <3>2. Len(<<m>>) = 1 /\ Head(<<m>>) = m
      OBVIOUS
    <3> QED BY <3>1, <3>2
  <2> QED BY <2>1, <2>2, Zenon DEF Channel
<1> QED BY <1>1, <1>2

Good(c) ==
  /\ c \in States(Nodes, Spent)
  /\ c.cap \in {0, Cap}
  /\ IsFiniteSet(Reporters(c))

\* While the total is at the cap the latch is set.
Alerted(c) == c.cap > 0 /\ TotalSpend(c) >= c.cap => c.hard

LEMMA GoodIsLedger ==
  ASSUME NEW c, Good(c)
  PROVE  /\ IsLedger(c)
         /\ Reporters(c) \in SUBSET Nodes
         /\ c.spend \in [Reporters(c) -> Spent]
         /\ c.cap \in {0, Cap} /\ c.soft \in BOOLEAN /\ c.hard \in BOOLEAN
<1>1. /\ c.cap \in Nat /\ c.soft \in BOOLEAN /\ c.hard \in BOOLEAN
      /\ c.spend \in Partial(Nodes, Spent)
  BY DEF Good, States, Partial
<1>2. Reporters(c) \in SUBSET Nodes /\ c.spend \in [Reporters(c) -> Spent]
  BY <1>1, PartialIs DEF Reporters
<1>3. c.spend \in [Reporters(c) -> Nat]
  BY <1>2, Parameters DEF Spent
<1> QED BY <1>1, <1>2, <1>3 DEF Good, IsLedger

Ledgers == [cap : {0, Cap}, spend : Partial(Nodes, Spent), soft : BOOLEAN, hard : BOOLEAN]

LEMMA GoodIf ==
  ASSUME NEW c \in Ledgers, IsFiniteSet(Reporters(c))
  PROVE  Good(c)
<1>1. /\ c = [cap |-> c.cap, spend |-> c.spend, soft |-> c.soft, hard |-> c.hard]
      /\ c.cap \in {0, Cap} /\ c.soft \in BOOLEAN /\ c.hard \in BOOLEAN
      /\ c.spend \in Partial(Nodes, Spent)
  BY DEF Ledgers
<1>2. c.cap \in Nat
  BY <1>1, Parameters
<1> HIDE DEF Spent
<1>3. c \in States(Nodes, Spent)
  BY <1>1, <1>2, Zenon DEF States, Partial
<1> QED BY <1>1, <1>3 DEF Good

LEMMA GoodIsRecord ==
  ASSUME NEW c, Good(c)
  PROVE  c \in Ledgers /\ IsFiniteSet(Reporters(c))
<1>1. /\ c = [cap |-> c.cap, spend |-> c.spend, soft |-> c.soft, hard |-> c.hard]
      /\ c.cap \in {0, Cap} /\ c.soft \in BOOLEAN /\ c.hard \in BOOLEAN
      /\ c.spend \in Partial(Nodes, Spent)
  BY DEF Good, States, Partial
<1>2. IsFiniteSet(Reporters(c))
  BY DEF Good
<1> QED BY <1>1, <1>2, Zenon DEF Ledgers

LEMMA UnknownGood == Good(Unknown) /\ Alerted(Unknown)
<1>1. <<>> \in Partial(Nodes, Spent)
  <2>1. <<>> \in [{} -> Spent]
    OBVIOUS
  <2> QED BY <2>1, Zenon DEF Partial
<1>2. Unknown \in Ledgers
  BY <1>1 DEF Unknown, Ledgers
<1>3. Reporters(Unknown) = {}
  BY DEF Unknown, Reporters
<1>4. Good(Unknown)
  BY <1>2, <1>3, FS_EmptySet, GoodIf
<1> QED BY <1>4 DEF Unknown, Alerted

\* Only the figures count for a total.
LEMMA SameFigures ==
  ASSUME NEW c, NEW d, c.spend = d.spend
  PROVE  Reporters(c) = Reporters(d) /\ TotalSpend(c) = TotalSpend(d)
<1>1. Reporters(c) = Reporters(d)
  BY DEF Reporters
<1> QED BY <1>1, TotalSpendIsSum

\* report_spend keeps a ledger a ledger, and raises the alert for its total.
LEMMA ReportingIsSound ==
  ASSUME NEW c, Good(c), NEW n \in Nodes, NEW spent \in Spent
  PROVE  /\ Good(ReportSpend(c, n, Cap, spent))
         /\ Alerted(ReportSpend(c, n, Cap, spent))
<1> DEFINE R == Reporters(c) \cup {n}
           spend == [m \in R |-> IF m = n THEN spent ELSE c.spend[m]]
           cap == Larger(c.cap, Cap)
           f == Figure(c, n, Cap, spent)
           r == Rearmed(c, f)
           e == FleetAlerts(r)
<1>1. c \in Ledgers /\ IsFiniteSet(Reporters(c))
  BY GoodIsRecord
<1>2. c.cap \in {0, Cap} /\ Reporters(c) \in SUBSET Nodes /\ c.spend \in [Reporters(c) -> Spent]
  BY GoodIsLedger
<1>3. R \in SUBSET Nodes /\ IsFiniteSet(R)
  BY <1>1, <1>2, FS_AddElement
<1>4. spend \in [R -> Spent] /\ DOMAIN spend = R
  BY <1>2
<1>5. spend \in Partial(Nodes, Spent)
  BY <1>3, <1>4, PartialIs
<1>6. cap \in {0, Cap}
  BY <1>2, Parameters DEF Larger
<1>7. f = [c EXCEPT !.cap = cap, !.spend = spend]
  BY DEF Figure
<1> HIDE DEF cap, spend, f
<1>8. f \in Ledgers /\ f.spend = spend
  BY <1>1, <1>5, <1>6, <1>7 DEF Ledgers
<1>9. r \in Ledgers /\ r.spend = spend
  BY <1>8 DEF Rearmed, Ledgers
<1> HIDE DEF r
<1> DEFINE s == r.soft \/ (r.cap > 0 /\ 10 * TotalSpend(r) >= 8 * r.cap)
           h == r.hard \/ (r.cap > 0 /\ TotalSpend(r) >= r.cap)
<1>10. e = [r EXCEPT !.soft = s, !.hard = h]
  BY DEF FleetAlerts
<1>11. s \in BOOLEAN /\ h \in BOOLEAN
  OBVIOUS
<1>12. r.cap > 0 /\ TotalSpend(r) >= r.cap => h
  OBVIOUS
<1> HIDE DEF s, h, e
<1>13. e \in Ledgers /\ e.spend = spend /\ e.cap = r.cap /\ e.hard = h
  BY <1>9, <1>10, <1>11 DEF Ledgers
<1>14. Reporters(e) = R
  BY <1>4, <1>13, Zenon DEF Reporters
<1>15. Good(e)
  BY <1>3, <1>13, <1>14, GoodIf
<1>16. TotalSpend(e) = TotalSpend(r)
  BY <1>9, <1>13, SameFigures
<1>17. Alerted(e)
  BY <1>12, <1>13, <1>16, Zenon DEF Alerted
<1>18. ReportSpend(c, n, Cap, spent) = e
  BY DEF ReportSpend, e, r, f
<1> QED BY <1>15, <1>17, <1>18, Zenon

LEMMA ForgettingIsSound ==
  ASSUME NEW c, Good(c), NEW n
  PROVE  /\ Good(ForgetNode(c, n))
         /\ Alerted(c) => Alerted(ForgetNode(c, n))
<1> DEFINE R == Reporters(c) \ {n}
           spend == [m \in R |-> c.spend[m]]
           d == ForgetNode(c, n)
<1>1. c \in Ledgers /\ IsFiniteSet(Reporters(c)) /\ IsLedger(c) /\ c.cap \in Nat
  BY GoodIsRecord, GoodIsLedger, Parameters
<1>2. Reporters(c) \in SUBSET Nodes /\ c.spend \in [Reporters(c) -> Spent]
  BY GoodIsLedger
<1>3. R \in SUBSET Nodes /\ IsFiniteSet(R)
  BY <1>1, <1>2, FS_RemoveElement
<1>4. /\ spend \in [R -> Spent] /\ DOMAIN spend = R
      /\ \A m \in R : spend[m] = c.spend[m]
  BY <1>2
<1>5. d = [c EXCEPT !.spend = spend]
  BY DEF ForgetNode
<1> HIDE DEF d, spend
<1>6. spend \in Partial(Nodes, Spent)
  BY <1>3, <1>4, PartialIs
<1>7. d \in Ledgers /\ d.spend = spend /\ d.cap = c.cap /\ d.hard = c.hard
  BY <1>1, <1>5, <1>6 DEF Ledgers
<1>8. Reporters(d) = R
  BY <1>4, <1>7, Zenon DEF Reporters
<1>9. Good(d) /\ IsLedger(d)
  BY <1>3, <1>7, <1>8, GoodIf, GoodIsLedger
<1>10. TotalSpend(d) <= TotalSpend(c)
  <2>1. \A m \in R : d.spend[m] = c.spend[m]
    BY <1>4, <1>7, Zenon
  <2> QED BY <1>1, <1>8, <1>9, <2>1, ForgettingLowers DEF d
<1>11. TotalSpend(d) \in Nat /\ TotalSpend(c) \in Nat
  BY <1>1, <1>9, TotalSpendNat
<1>12. Alerted(c) => Alerted(d)
  BY <1>1, <1>7, <1>10, <1>11 DEF Alerted
<1> QED BY <1>9, <1>12 DEF d

-----------------------------------------------------------------------------
(***************************************************************************)
(* The inductive invariant behind the types: what TypeOK says, the contents  *)
(* of the channels, ledgers of finitely many nodes, and that a node has only *)
(* used the dials that its faults account for, so that one is left to join   *)
(* on.                                                                       *)
(***************************************************************************)
StateTypes ==
  /\ now \in 0 .. MaxNow
  /\ faults \in 0 .. MaxFaults
  /\ secretOf \in [Nodes -> Secrets]
  /\ tokens \in [Secrets -> Tokens]
  /\ process \in [Nodes -> {"started", "serving", "exited"}]
  /\ conn \in [Nodes -> {0} \cup Dials]
  /\ entry \in [Nodes -> [Values -> Entries]]
  /\ stream \in [Nodes -> [Dials -> Streams]]

GoodLedgers ==
  /\ ledger = [v \in Values |-> ledger[v]]
  /\ \A v \in Values : Good(ledger[v]) /\ Alerted(ledger[v])

DownWhileOpen ==
  \A n \in Nodes, k \in Dials :
    stream[n][k].down # <<>> => stream[n][k].phase = "open"

DialsUsed ==
  \A n \in Nodes, k \in Dials :
    stream[n][k].phase # "none" => k <= faults + (IF conn[n] = 0 THEN 0 ELSE 1)

ConnUsed == \A n \in Nodes : conn[n] <= faults + 1

BudgetInv == StateTypes /\ GoodLedgers /\ DownWhileOpen /\ DialsUsed /\ ConnUsed

LEMMA WindowType == StateTypes => Window \in 0 .. MaxNow
  BY Parameters DEF StateTypes, Window

LEMMA RolledType ==
  ASSUME StateTypes, NEW e \in Entries
  PROVE  Rolled(e) \in Entries /\ Rolled(e).share = e.share
<1>1. Window \in 0 .. MaxNow /\ 0 \in Spent
  BY WindowType, Parameters DEF Spent
<1> HIDE DEF Spent
<1> QED BY <1>1 DEF Rolled, Entries

LEMMA EntryOf ==
  ASSUME StateTypes, NEW n \in Nodes, NEW v \in Values
  PROVE  entry[n][v] \in Entries /\ Rolled(entry[n][v]) \in Entries
         /\ Rolled(entry[n][v]).spent \in Spent
<1>1. entry[n][v] \in Entries
  BY DEF StateTypes
<1>2. Rolled(entry[n][v]) \in Entries
  BY <1>1, RolledType
<1> QED BY <1>1, <1>2 DEF Entries

LEMMA StreamOf ==
  ASSUME StateTypes, NEW n \in Nodes, NEW k \in Dials
  PROVE  /\ stream[n][k] \in Streams
         /\ stream[n][k].up \in Channel(Partial(Values, Spent))
         /\ stream[n][k].down \in Channel(Partial(Values, 0 .. Cap))
<1>1. stream[n][k] \in Streams
  BY DEF StateTypes
<1> QED BY <1>1 DEF Streams

LEMMA UndialedType ==
  /\ Undialed \in Streams
  /\ [Undialed EXCEPT !.phase = "gone"] \in Streams
  /\ [Undialed EXCEPT !.phase = "gone"].down = <<>>
<1>1. \A S : <<>> \in Channel(S)
  BY ChannelIs
<1> QED BY <1>1 DEF Undialed, Streams

\* Changing one of a node's streams.
LEMMA StreamSet ==
  ASSUME StateTypes, NEW n \in Nodes, NEW k \in Dials, NEW s \in Streams,
         stream' = [stream EXCEPT ![n][k] = s]
  PROVE  /\ stream' \in [Nodes -> [Dials -> Streams]]
         /\ \A m \in Nodes, j \in Dials :
              stream'[m][j] = IF m = n /\ j = k THEN s ELSE stream[m][j]
<1>1. stream \in [Nodes -> [Dials -> Streams]]
  BY DEF StateTypes
<1> QED BY <1>1

(***************************************************************************)
(* The invariant holds initially.                                           *)
(***************************************************************************)
LEMMA InitBudget == Init => BudgetInv
<1> SUFFICES ASSUME Init PROVE BudgetInv
  OBVIOUS
<1>1. StateTypes
  <2>1. \A t \in Secrets : Mint(0) \in Tokens
    BY TokenAssumption DEF Mint, Tokens
  <2>2. Fresh \in Entries
    BY Parameters DEF Fresh, Entries, Spent
  <2>3. now \in 0 .. MaxNow /\ faults \in 0 .. MaxFaults
    BY Parameters DEF Init
  <2>4. tokens \in [Secrets -> Tokens]
    BY <2>1 DEF Init
  <2>5. entry \in [Nodes -> [Values -> Entries]]
    BY <2>2 DEF Init
  <2>6. stream \in [Nodes -> [Dials -> Streams]]
    BY UndialedType DEF Init
  <2> QED BY <2>3, <2>4, <2>5, <2>6 DEF Init, StateTypes
<1>2. GoodLedgers
  BY UnknownGood DEF Init, GoodLedgers
<1>3. \A n \in Nodes, k \in Dials : stream[n][k] = Undialed
  BY DEF Init
<1>4. DownWhileOpen /\ DialsUsed
  BY <1>3 DEF Undialed, DownWhileOpen, DialsUsed
<1>5. ConnUsed
  <2> SUFFICES ASSUME NEW n \in Nodes PROVE conn[n] <= faults + 1
    BY DEF ConnUsed
  <2>1. conn[n] = 0 /\ faults = 0
    BY DEF Init
  <2> QED BY <2>1
<1> QED BY <1>1, <1>2, <1>4, <1>5 DEF BudgetInv

(***************************************************************************)
(* Every step preserves it.                                                 *)
(***************************************************************************)

\* A node off its stream has a dial left: the next of the ones its faults
\* entitle it to.
LEMMA DialLeft ==
  ASSUME StateTypes, DialsUsed, NEW n \in Nodes, conn[n] = 0
  PROVE  /\ Min(DialsLeft(n)) \in Dials /\ Min(DialsLeft(n)) # 0
         /\ Min(DialsLeft(n)) <= faults + 1
<1> DEFINE S == DialsLeft(n)
<1>1. faults \in Nat /\ faults <= MaxFaults /\ MaxFaults \in Nat
  BY Parameters DEF StateTypes
<1>2. faults + 1 \in S
  <2>1. faults + 1 \in Dials
    BY <1>1 DEF Dials
  <2>2. ~(faults + 1 <= faults + 0)
    BY <1>1
  <2>3. stream[n][faults + 1].phase = "none"
    BY <2>1, <2>2 DEF DialsUsed
  <2> QED BY <2>1, <2>3 DEF DialsLeft
<1>3. S \subseteq Dials /\ S \in SUBSET Nat
  BY <1>1 DEF DialsLeft, Dials
<1> HIDE DEF S
<1>4. \E x \in S : \A y \in S : x <= y
  BY <1>2, <1>3, LeastNatural
<1>5. Min(S) \in S /\ \A y \in S : Min(S) <= y
  BY <1>4, Zenon DEF Min
<1>6. Min(S) \in Dials /\ Min(S) <= faults + 1
  BY <1>2, <1>3, <1>5
<1>7. Min(S) # 0
  BY <1>1, <1>6 DEF Dials
<1> QED BY <1>6, <1>7 DEF S

LEMMA JoinKeeps ==
  ASSUME BudgetInv, NEW n \in Nodes, Join(n)
  PROVE  BudgetInv'
<1> DEFINE k == Min(DialsLeft(n))
           s == [stream[n][k] EXCEPT !.phase = "open"]
<1>1. StateTypes /\ GoodLedgers /\ DownWhileOpen /\ DialsUsed /\ conn[n] = 0
  BY DEF BudgetInv, Join
<1>2. k \in Dials /\ k # 0 /\ k <= faults + 1
  BY <1>1, DialLeft
<1>3. /\ tokens' = [tokens EXCEPT ![secretOf[n]] = Bind(@, n)]
      /\ stream' = [stream EXCEPT ![n][k] = s]
      /\ conn' = [conn EXCEPT ![n] = k]
      /\ process' = [process EXCEPT ![n] = "serving"]
      /\ UNCHANGED <<now, faults, secretOf, entry, ledger>>
  BY DEF Join
<1> HIDE DEF k
<1>4. s \in Streams /\ s.phase = "open" /\ s.down = stream[n][k].down
  BY <1>1, <1>2, StreamOf DEF Streams
<1> HIDE DEF s
<1>5. /\ stream' \in [Nodes -> [Dials -> Streams]]
      /\ \A m \in Nodes, j \in Dials :
           stream'[m][j] = IF m = n /\ j = k THEN s ELSE stream[m][j]
  BY <1>1, <1>2, <1>3, <1>4, StreamSet
<1>6. StateTypes'
  <2>1. tokens' \in [Secrets -> Tokens]
    BY <1>1, <1>3 DEF StateTypes, Bind, Tokens
  <2>2. conn' \in [Nodes -> {0} \cup Dials] /\ process' \in [Nodes -> {"started", "serving", "exited"}]
    BY <1>1, <1>2, <1>3 DEF StateTypes
  <2> QED BY <1>1, <1>3, <1>5, <2>1, <2>2 DEF StateTypes
<1>7. GoodLedgers'
  BY <1>1, <1>3 DEF GoodLedgers
<1>8. DownWhileOpen'
  BY <1>1, <1>2, <1>4, <1>5 DEF DownWhileOpen
<1>9. DialsUsed'
  <2> SUFFICES ASSUME NEW m \in Nodes, NEW j \in Dials, stream'[m][j].phase # "none"
               PROVE  j <= faults + (IF conn'[m] = 0 THEN 0 ELSE 1)
    BY <1>3 DEF DialsUsed
  <2>1. CASE m = n
    <3>1. conn'[m] = k /\ k # 0
      BY <1>1, <1>2, <1>3, <2>1 DEF StateTypes
    <3>2. CASE j = k
      BY <1>2, <3>1, <3>2
    <3>3. CASE j # k
      <4>1. j <= faults + 0
        BY <1>1, <1>5, <2>1, <3>3 DEF DialsUsed
      <4>2. faults \in Nat /\ j \in Nat
        BY <1>1, Parameters DEF StateTypes, Dials
      <4> QED BY <3>1, <4>1, <4>2
    <3> QED BY <3>2, <3>3
  <2>2. CASE m # n
    <3>1. stream'[m][j] = stream[m][j] /\ conn'[m] = conn[m]
      BY <1>1, <1>3, <1>5, <2>2 DEF StateTypes
    <3> QED BY <1>1, <3>1 DEF DialsUsed
  <2> QED BY <2>1, <2>2
<1>10. ConnUsed'
  BY <1>1, <1>2, <1>3 DEF StateTypes, BudgetInv, ConnUsed
<1> QED BY <1>6, <1>7, <1>8, <1>9, <1>10 DEF BudgetInv

LEMMA RefusedKeeps ==
  ASSUME BudgetInv, NEW n \in Nodes, Refused(n)
  PROVE  BudgetInv'
<1>1. process' \in [Nodes -> {"started", "serving", "exited"}]
  BY DEF BudgetInv, StateTypes, Refused
<1> QED BY <1>1 DEF BudgetInv, StateTypes, GoodLedgers, DownWhileOpen, DialsUsed, ConnUsed, Refused

LEMMA ServeKeeps ==
  ASSUME BudgetInv, NEW n \in Nodes, NEW v \in Values, Serve(n, v)
  PROVE  BudgetInv'
<1> DEFINE e == Rolled(entry[n][v])
           f == [e EXCEPT !.spent = @ + Chunk]
<1>1. StateTypes
  BY DEF BudgetInv
<1>2. e \in Entries
  BY <1>1, EntryOf
<1>3. e.spent + 1 <= Cap
  <2>1. e.spent + 1 <= Ceiling(n, e) /\ e.share \in 0 .. Cap
    BY <1>2 DEF Serve, Entries
  <2>2. Ceiling(n, e) <= Cap /\ Ceiling(n, e) \in Int /\ e.spent \in Int
    BY <1>2, <2>1, Parameters DEF Ceiling, Entries, Spent
  <2> HIDE DEF e
  <2> QED BY <2>1, <2>2, Parameters
<1>4. /\ entry' = [entry EXCEPT ![n][v] = f]
      /\ UNCHANGED <<now, faults, secretOf, tokens, process, conn, stream, ledger>>
  BY DEF Serve
<1> HIDE DEF e
<1>5. f \in Entries
  <2>1. e.spent + Chunk \in Spent
    BY <1>2, <1>3, Parameters DEF Entries, Spent
  <2> HIDE DEF Spent
  <2> QED BY <1>2, <2>1 DEF Entries
<1> HIDE DEF f
<1>6. entry' \in [Nodes -> [Values -> Entries]]
  BY <1>1, <1>4, <1>5 DEF StateTypes
<1> QED BY <1>4, <1>6 DEF BudgetInv, StateTypes, GoodLedgers, DownWhileOpen, DialsUsed, ConnUsed

\* A step that leaves a node's dial phases and connections alone.
LEMMA DialsStay ==
  ASSUME StateTypes, DialsUsed, NEW n \in Nodes, NEW k \in Dials, NEW s \in Streams,
         stream' = [stream EXCEPT ![n][k] = s], s.phase = stream[n][k].phase,
         UNCHANGED <<faults, conn>>
  PROVE  DialsUsed'
<1>1. \A m \in Nodes, j \in Dials : stream'[m][j].phase = stream[m][j].phase
  BY StreamSet
<1> QED BY <1>1 DEF DialsUsed

LEMMA DownStays ==
  ASSUME StateTypes, DownWhileOpen, NEW n \in Nodes, NEW k \in Dials, NEW s \in Streams,
         stream' = [stream EXCEPT ![n][k] = s], s.down # <<>> => s.phase = "open"
  PROVE  DownWhileOpen'
<1>1. \A m \in Nodes, j \in Dials :
        stream'[m][j] = IF m = n /\ j = k THEN s ELSE stream[m][j]
  BY StreamSet
<1> QED BY <1>1 DEF DownWhileOpen

LEMMA ReportKeeps ==
  ASSUME BudgetInv, NEW n \in Nodes, Report(n)
  PROVE  BudgetInv'
<1> DEFINE k == conn[n]
           V == Reported(n)
           r == Spends(n, V)
           s == [stream[n][k] EXCEPT !.up = <<r>>]
           row == [v \in Values |-> Rolled(entry[n][v])]
<1>1. StateTypes /\ GoodLedgers /\ DownWhileOpen /\ DialsUsed
  BY DEF BudgetInv
<1>2. k \in Dials
  BY <1>1 DEF Report, StateTypes
<1>3. /\ stream' = [stream EXCEPT ![n][k] = s]
      /\ entry' = [entry EXCEPT ![n] = row]
      /\ UNCHANGED <<now, faults, secretOf, tokens, process, conn, ledger>>
  BY DEF Report
<1>4. V \in SUBSET Values
  BY DEF Reported, Escalating, Reportable
<1>5. r \in [V -> Spent] /\ DOMAIN r = V
  BY <1>1, <1>4, EntryOf DEF Spends
<1>6. r \in Partial(Values, Spent)
  BY <1>4, <1>5, PartialIs
<1>7. row \in [Values -> Entries]
  BY <1>1, EntryOf
<1> HIDE DEF k, V, r, row
<1>8. s \in Streams /\ s.phase = stream[n][k].phase /\ s.down = stream[n][k].down
  <2>1. <<r>> \in Channel(Partial(Values, Spent))
    BY <1>6, ChannelIs
  <2> QED BY <1>1, <1>2, <2>1, StreamOf DEF Streams
<1> HIDE DEF s
<1>9. stream' \in [Nodes -> [Dials -> Streams]]
  BY <1>1, <1>2, <1>3, <1>8, StreamSet
<1>10. entry' \in [Nodes -> [Values -> Entries]]
  BY <1>1, <1>3, <1>7 DEF StateTypes
<1>11. StateTypes'
  BY <1>1, <1>3, <1>9, <1>10 DEF StateTypes
<1>12. GoodLedgers'
  BY <1>1, <1>3 DEF GoodLedgers
<1>13. DownWhileOpen'
  <2>1. s.down # <<>> => s.phase = "open"
    BY <1>1, <1>2, <1>8 DEF DownWhileOpen
  <2> QED BY <1>1, <1>2, <1>3, <1>8, <2>1, DownStays
<1>14. DialsUsed'
  BY <1>1, <1>2, <1>3, <1>8, DialsStay
<1>15. ConnUsed'
  BY <1>3 DEF BudgetInv, ConnUsed
<1> QED BY <1>11, <1>12, <1>13, <1>14, <1>15 DEF BudgetInv

\* The ledgers after a report, and the shares granted from them.
After(n, report) ==
  [v \in Values |-> IF v \in DOMAIN report
                    THEN ReportSpend(ledger[v], n, Cap, report[v]) ELSE ledger[v]]
Grant(n, after) == [v \in {w \in Values : after[w].cap > 0} |-> ShareFor(after[v], n)]

LEMMA AfterIsGood ==
  ASSUME GoodLedgers, NEW n \in Nodes, NEW report \in Partial(Values, Spent)
  PROVE  \A v \in Values : Good(After(n, report)[v]) /\ Alerted(After(n, report)[v])
<1>1. \A v \in DOMAIN report : report[v] \in Spent
  BY PartialIs
<1> SUFFICES ASSUME NEW v \in Values
             PROVE  Good(After(n, report)[v]) /\ Alerted(After(n, report)[v])
  OBVIOUS
<1>2. Good(ledger[v]) /\ Alerted(ledger[v])
  BY DEF GoodLedgers
<1>3. CASE v \in DOMAIN report
  <2>1. After(n, report)[v] = ReportSpend(ledger[v], n, Cap, report[v])
    BY <1>3 DEF After
  <2>2. report[v] \in Spent
    BY <1>1, <1>3
  <2> QED BY <1>2, <2>1, <2>2, ReportingIsSound
<1>4. CASE v \notin DOMAIN report
  <2>1. After(n, report)[v] = ledger[v]
    BY <1>4 DEF After
  <2> QED BY <1>2, <2>1
<1> QED BY <1>3, <1>4

LEMMA GrantType ==
  ASSUME NEW n, NEW after, \A v \in Values : Good(after[v])
  PROVE  Grant(n, after) \in Partial(Values, 0 .. Cap)
<1> DEFINE W == {w \in Values : after[w].cap > 0}
<1>1. \A v \in W : ShareFor(after[v], n) \in 0 .. Cap
  <2> SUFFICES ASSUME NEW v \in W PROVE ShareFor(after[v], n) \in 0 .. Cap
    OBVIOUS
  <2>1. IsLedger(after[v]) /\ after[v].cap \in {0, Cap}
    BY GoodIsLedger
  <2>2. ShareFor(after[v], n) \in 0 .. after[v].cap
    BY <2>1, ShareWithinCap
  <2> QED BY <2>1, <2>2, Parameters
<1>2. Grant(n, after) = [v \in W |-> ShareFor(after[v], n)]
  BY DEF Grant
<1>3. Grant(n, after) \in [W -> 0 .. Cap] /\ DOMAIN Grant(n, after) = W /\ W \in SUBSET Values
  BY <1>1, <1>2
<1> QED BY <1>3, PartialIs

LEMMA IngestKeeps ==
  ASSUME BudgetInv, NEW n \in Nodes, NEW k \in Dials, Ingest(n, k)
  PROVE  BudgetInv'
<1> DEFINE report == Head(stream[n][k].up)
           after == After(n, report)
           down == IF stream[n][k].phase = "open" THEN <<Grant(n, after)>> ELSE <<>>
           s == [stream[n][k] EXCEPT !.up = <<>>, !.down = down]
<1>1. StateTypes /\ GoodLedgers /\ DownWhileOpen /\ DialsUsed
  BY DEF BudgetInv
<1>2. report \in Partial(Values, Spent)
  <2>1. stream[n][k].up # <<>>
    BY DEF Ingest
  <2> QED BY <1>1, <2>1, StreamOf, ChannelIs
<1>3. /\ ledger' = after
      /\ stream' = [stream EXCEPT ![n][k].up = <<>>, ![n][k].down = down]
      /\ UNCHANGED <<now, faults, secretOf, tokens, process, conn, entry>>
  BY DEF Ingest, After, Grant
<1> HIDE DEF report
<1>4. \A v \in Values : Good(after[v]) /\ Alerted(after[v])
  BY <1>1, <1>2, AfterIsGood
<1>5. after = [v \in Values |-> after[v]]
  BY DEF After
<1> HIDE DEF after
<1>6. Grant(n, after) \in Partial(Values, 0 .. Cap)
  BY <1>4, GrantType
<1>7. /\ down \in Channel(Partial(Values, 0 .. Cap))
      /\ down # <<>> => stream[n][k].phase = "open"
  BY <1>6, ChannelIs
<1> HIDE DEF down
<1>8. stream' = [stream EXCEPT ![n][k] = s]
  BY <1>1, <1>3 DEF StateTypes, Streams
<1>9. s \in Streams /\ s.phase = stream[n][k].phase /\ s.down = down
  <2>1. <<>> \in Channel(Partial(Values, Spent))
    BY ChannelIs
  <2> QED BY <1>1, <1>7, <2>1, StreamOf DEF Streams
<1> HIDE DEF s
<1>10. stream' \in [Nodes -> [Dials -> Streams]]
  BY <1>1, <1>8, <1>9, StreamSet
<1>11. StateTypes'
  BY <1>1, <1>3, <1>10 DEF StateTypes
<1>12. GoodLedgers'
  BY <1>3, <1>4, <1>5 DEF GoodLedgers
<1>13. DownWhileOpen'
  BY <1>1, <1>7, <1>8, <1>9, DownStays
<1>14. DialsUsed'
  <2>1. UNCHANGED <<faults, conn>>
    BY <1>3
  <2> QED BY <1>1, <1>8, <1>9, <2>1, DialsStay
<1>15. ConnUsed'
  BY <1>3 DEF BudgetInv, ConnUsed
<1> QED BY <1>11, <1>12, <1>13, <1>14, <1>15 DEF BudgetInv

LEMMA GrantedKeeps ==
  ASSUME BudgetInv, NEW n \in Nodes, Granted(n)
  PROVE  BudgetInv'
<1> DEFINE k == conn[n]
           grant == Head(stream[n][k].down)
           row == [v \in Values |->
                     IF v \in DOMAIN grant
                     THEN [Rolled(entry[n][v]) EXCEPT !.share = grant[v]]
                     ELSE entry[n][v]]
           s == [stream[n][k] EXCEPT !.down = <<>>]
<1>1. StateTypes /\ GoodLedgers /\ DownWhileOpen /\ DialsUsed
  BY DEF BudgetInv
<1>2. k \in Dials
  BY <1>1 DEF Granted, StateTypes
<1>3. /\ stream' = [stream EXCEPT ![n][k] = s]
      /\ entry' = [entry EXCEPT ![n] = row]
      /\ UNCHANGED <<now, faults, secretOf, tokens, process, conn, ledger>>
  BY DEF Granted
<1>4. grant \in Partial(Values, 0 .. Cap)
  <2>1. stream[n][k].down # <<>>
    BY DEF Granted
  <2>2. stream[n][k].down \in Channel(Partial(Values, 0 .. Cap))
    BY <1>1, <1>2, StreamOf
  <2> HIDE DEF k
  <2> QED BY <2>1, <2>2, ChannelIs
<1> HIDE DEF k, grant
<1>5. row \in [Values -> Entries]
  <2> SUFFICES ASSUME NEW v \in Values PROVE row[v] \in Entries
    OBVIOUS
  <2>1. entry[n][v] \in Entries /\ Rolled(entry[n][v]) \in Entries
    BY <1>1, EntryOf
  <2>2. v \in DOMAIN grant => grant[v] \in 0 .. Cap
    <3>1. grant \in [DOMAIN grant -> 0 .. Cap]
      BY <1>4, PartialIs
    <3> QED BY <3>1
  <2> HIDE DEF Spent
  <2> QED BY <2>1, <2>2 DEF Entries
<1> HIDE DEF row
<1>6. s \in Streams /\ s.phase = stream[n][k].phase /\ s.down = <<>>
  <2>1. <<>> \in Channel(Partial(Values, 0 .. Cap))
    BY ChannelIs
  <2> QED BY <1>1, <1>2, <2>1, StreamOf DEF Streams
<1> HIDE DEF s
<1>7. stream' \in [Nodes -> [Dials -> Streams]]
  BY <1>1, <1>2, <1>3, <1>6, StreamSet
<1>8. entry' \in [Nodes -> [Values -> Entries]]
  BY <1>1, <1>3, <1>5 DEF StateTypes
<1>9. StateTypes'
  BY <1>1, <1>3, <1>7, <1>8 DEF StateTypes
<1>10. GoodLedgers'
  BY <1>1, <1>3 DEF GoodLedgers
<1>11. DownWhileOpen'
  BY <1>1, <1>2, <1>3, <1>6, DownStays
<1>12. DialsUsed'
  <2>1. UNCHANGED <<faults, conn>>
    BY <1>3
  <2> QED BY <1>1, <1>2, <1>3, <1>6, <2>1, DialsStay
<1>13. ConnUsed'
  BY <1>3 DEF BudgetInv, ConnUsed
<1> QED BY <1>9, <1>10, <1>11, <1>12, <1>13 DEF BudgetInv

LEMMA DropKeeps ==
  ASSUME BudgetInv, NEW n \in Nodes, Drop(n)
  PROVE  BudgetInv'
<1> DEFINE k == conn[n]
           s == [stream[n][k] EXCEPT !.phase = "cut", !.down = <<>>]
<1>1. StateTypes /\ GoodLedgers /\ DownWhileOpen /\ DialsUsed
  BY DEF BudgetInv
<1>2. k \in Dials /\ k # 0
  BY <1>1 DEF Drop, StateTypes
<1>3. /\ stream' = [stream EXCEPT ![n][k].phase = "cut", ![n][k].down = <<>>]
      /\ conn' = [conn EXCEPT ![n] = 0]
      /\ faults < MaxFaults /\ faults' = faults + 1
      /\ UNCHANGED <<now, secretOf, tokens, process, entry, ledger>>
  BY DEF Drop
<1>k. k = conn[n]
  OBVIOUS
<1> HIDE DEF k
<1>4. stream' = [stream EXCEPT ![n][k] = s]
  BY <1>1, <1>2, <1>3 DEF StateTypes, Streams
<1>5. s \in Streams /\ s.phase = "cut" /\ s.down = <<>>
  <2>1. <<>> \in Channel(Partial(Values, 0 .. Cap))
    BY ChannelIs
  <2> QED BY <1>1, <1>2, <2>1, StreamOf DEF Streams
<1> HIDE DEF s
<1>6. /\ stream' \in [Nodes -> [Dials -> Streams]]
      /\ \A m \in Nodes, j \in Dials :
           stream'[m][j] = IF m = n /\ j = k THEN s ELSE stream[m][j]
  BY <1>1, <1>2, <1>4, <1>5, StreamSet
<1>7. faults \in Nat /\ faults' \in 0 .. MaxFaults /\ faults' = faults + 1
  BY <1>1, <1>3, Parameters DEF StateTypes
<1>8. conn' \in [Nodes -> {0} \cup Dials] /\ conn'[n] = 0
      /\ \A m \in Nodes \ {n} : conn'[m] = conn[m]
  BY <1>1, <1>3 DEF StateTypes
<1>9. StateTypes'
  BY <1>1, <1>3, <1>6, <1>7, <1>8 DEF StateTypes
<1>10. GoodLedgers'
  BY <1>1, <1>3 DEF GoodLedgers
<1>11. DownWhileOpen'
  BY <1>1, <1>2, <1>4, <1>5, DownStays
<1>12. DialsUsed'
  <2> SUFFICES ASSUME NEW m \in Nodes, NEW j \in Dials, stream'[m][j].phase # "none"
               PROVE  j <= faults' + (IF conn'[m] = 0 THEN 0 ELSE 1)
    BY DEF DialsUsed
  <2>1. j \in Nat
    BY Parameters DEF Dials
  <2>2. CASE m = n
    <3>1. conn[n] # 0 /\ (j # k => stream[n][j].phase # "none")
      BY <1>2, <1>k, <1>6, <2>2
    <3>2. j <= faults + 1
      <4>1. CASE stream[n][j].phase # "none"
        BY <1>1, <3>1, <4>1 DEF DialsUsed
      <4>2. CASE j = k
        BY <1>k, <4>2 DEF BudgetInv, ConnUsed
      <4> QED BY <3>1, <4>1, <4>2
    <3> QED BY <1>7, <1>8, <2>1, <2>2, <3>2
  <2>3. CASE m # n
    <3>1. stream[m][j].phase # "none" /\ conn'[m] = conn[m]
      BY <1>6, <1>8, <2>3
    <3>2. j <= faults + (IF conn[m] = 0 THEN 0 ELSE 1)
      BY <1>1, <3>1 DEF DialsUsed
    <3> QED BY <1>7, <2>1, <3>1, <3>2
  <2> QED BY <2>2, <2>3
<1>13. ConnUsed'
  <2> SUFFICES ASSUME NEW m \in Nodes PROVE conn'[m] <= faults' + 1
    BY DEF ConnUsed
  <2>1. conn[m] \in Nat /\ conn[m] <= faults + 1
    BY <1>1, Parameters DEF StateTypes, Dials, BudgetInv, ConnUsed
  <2>2. conn'[m] = 0 \/ conn'[m] = conn[m]
    BY <1>8
  <2> QED BY <1>7, <2>1, <2>2
<1> QED BY <1>9, <1>10, <1>11, <1>12, <1>13 DEF BudgetInv

LEMMA TeardownKeeps ==
  ASSUME BudgetInv, NEW n \in Nodes, NEW k \in Dials, Teardown(n, k)
  PROVE  BudgetInv'
<1> DEFINE s == [Undialed EXCEPT !.phase = "gone"]
<1>1. StateTypes /\ GoodLedgers /\ DownWhileOpen /\ DialsUsed
  BY DEF BudgetInv
<1>2. /\ stream[n][k].phase = "cut"
      /\ stream' = [stream EXCEPT ![n][k] = s]
      /\ ledger' = [v \in Values |-> ForgetNode(ledger[v], n)]
      /\ UNCHANGED <<now, faults, secretOf, tokens, process, conn, entry>>
  BY DEF Teardown
<1>3. s \in Streams /\ s.down = <<>>
  BY UndialedType
<1> HIDE DEF s
<1>4. /\ stream' \in [Nodes -> [Dials -> Streams]]
      /\ \A m \in Nodes, j \in Dials :
           stream'[m][j] = IF m = n /\ j = k THEN s ELSE stream[m][j]
  BY <1>1, <1>2, <1>3, StreamSet
<1>5. StateTypes'
  BY <1>1, <1>2, <1>4 DEF StateTypes
<1>6. GoodLedgers'
  <2>1. ledger' = [v \in Values |-> ledger'[v]]
    BY <1>2
  <2>2. \A v \in Values : Good(ledger'[v]) /\ Alerted(ledger'[v])
    <3> SUFFICES ASSUME NEW v \in Values PROVE Good(ledger'[v]) /\ Alerted(ledger'[v])
      OBVIOUS
    <3>1. Good(ledger[v]) /\ Alerted(ledger[v])
      BY <1>1 DEF GoodLedgers
    <3>2. ledger'[v] = ForgetNode(ledger[v], n)
      BY <1>2
    <3> QED BY <3>1, <3>2, ForgettingIsSound
  <2> QED BY <2>1, <2>2 DEF GoodLedgers
<1>7. DownWhileOpen'
  BY <1>1, <1>2, <1>3, DownStays
<1>8. DialsUsed'
  <2>1. \A m \in Nodes, j \in Dials :
          stream'[m][j].phase # "none" => stream[m][j].phase # "none"
    BY <1>2, <1>4
  <2> QED BY <1>1, <1>2, <2>1 DEF DialsUsed
<1>9. ConnUsed'
  BY <1>2 DEF BudgetInv, ConnUsed
<1> QED BY <1>5, <1>6, <1>7, <1>8, <1>9 DEF BudgetInv

LEMMA RestartKeeps ==
  ASSUME BudgetInv, Restart
  PROVE  BudgetInv'
<1> DEFINE gone == [Undialed EXCEPT !.phase = "gone"]
<1>1. StateTypes /\ GoodLedgers /\ DownWhileOpen /\ DialsUsed
  BY DEF BudgetInv
<1>2. /\ faults < MaxFaults /\ faults' = faults + 1
      /\ tokens' = [s \in Secrets |-> Mint(now)]
      /\ ledger' = [v \in Values |-> Unknown]
      /\ conn' = [n \in Nodes |-> 0]
      /\ stream' = [n \in Nodes |-> [k \in Dials |->
                     IF stream[n][k].phase = "none" THEN Undialed ELSE gone]]
      /\ UNCHANGED <<now, secretOf, process, entry>>
  BY DEF Restart
<1>3. gone \in Streams /\ gone.down = <<>> /\ Undialed \in Streams
      /\ Undialed.down = <<>> /\ Undialed.phase = "none"
  BY UndialedType DEF Undialed
<1> HIDE DEF gone
<1>4. stream' \in [Nodes -> [Dials -> Streams]]
  BY <1>2, <1>3
<1>5. \A n \in Nodes, k \in Dials :
        stream'[n][k] = IF stream[n][k].phase = "none" THEN Undialed ELSE gone
  BY <1>2
<1>6. faults \in Nat /\ faults' \in 0 .. MaxFaults /\ faults' = faults + 1
  BY <1>1, <1>2, Parameters DEF StateTypes
<1>7. tokens' \in [Secrets -> Tokens]
  <2>1. Mint(now) \in Tokens
    BY <1>1, TokenAssumption, Parameters DEF StateTypes, Mint, Tokens
  <2> QED BY <1>2, <2>1
<1>8. conn' \in [Nodes -> {0} \cup Dials] /\ \A n \in Nodes : conn'[n] = 0
  BY <1>2
<1>9. StateTypes'
  BY <1>1, <1>2, <1>4, <1>6, <1>7, <1>8 DEF StateTypes
<1>10. GoodLedgers'
  BY <1>2, UnknownGood DEF GoodLedgers
<1>11. DownWhileOpen'
  BY <1>3, <1>5 DEF DownWhileOpen
<1>12. DialsUsed'
  <2> SUFFICES ASSUME NEW n \in Nodes, NEW k \in Dials, stream'[n][k].phase # "none"
               PROVE  k <= faults' + (IF conn'[n] = 0 THEN 0 ELSE 1)
    BY DEF DialsUsed
  <2>1. stream[n][k].phase # "none"
    BY <1>3, <1>5
  <2>2. k \in Nat /\ k <= faults + (IF conn[n] = 0 THEN 0 ELSE 1)
    BY <1>1, <2>1, Parameters DEF DialsUsed, Dials
  <2> QED BY <1>6, <1>8, <2>2
<1>13. ConnUsed'
  BY <1>6, <1>8 DEF ConnUsed
<1> QED BY <1>9, <1>10, <1>11, <1>12, <1>13 DEF BudgetInv

LEMMA TickKeeps ==
  ASSUME BudgetInv, Tick
  PROVE  BudgetInv'
<1>1. now' \in 0 .. MaxNow
  BY Parameters DEF BudgetInv, StateTypes, Tick
<1> QED BY <1>1 DEF BudgetInv, StateTypes, GoodLedgers, DownWhileOpen, DialsUsed,
                    ConnUsed, Tick

LEMMA BudgetStep == BudgetInv /\ [Next]_vars => BudgetInv'
<1> SUFFICES ASSUME BudgetInv, [Next]_vars PROVE BudgetInv'
  OBVIOUS
<1>1. ASSUME NEW n \in Nodes, Node(n) PROVE BudgetInv'
  BY <1>1, JoinKeeps, RefusedKeeps, ReportKeeps, GrantedKeeps, DropKeeps, ServeKeeps, Zenon
     DEF Node
<1>2. ASSUME NEW n \in Nodes, NEW k \in Dials, Session(n, k) PROVE BudgetInv'
  BY <1>2, IngestKeeps, TeardownKeeps, Zenon DEF Session
<1>3. CASE Restart
  BY <1>3, RestartKeeps
<1>4. CASE Tick
  BY <1>4, TickKeeps
<1>5. CASE UNCHANGED vars
  BY <1>5 DEF vars, BudgetInv, StateTypes, GoodLedgers, DownWhileOpen, DialsUsed, ConnUsed
<1> QED BY <1>1, <1>2, <1>3, <1>4, <1>5, Zenon DEF Next

LEMMA BudgetInvariant == Spec => []BudgetInv
<1>1. Init => BudgetInv
  BY InitBudget
<1>2. BudgetInv /\ [Next]_vars => BudgetInv'
  BY BudgetStep
<1> QED BY <1>1, <1>2, PTL DEF Spec

(***************************************************************************)
(* Type correctness: in particular no share is above the cap and no counter  *)
(* a whole chunk above it, whatever is granted, lost or forgotten.           *)
(***************************************************************************)
THEOREM BudgetTypesHold == Spec => []TypeOK
<1>1. ASSUME BudgetInv PROVE TypeOK
  <2>1. StateTypes /\ GoodLedgers /\ DownWhileOpen
    BY <1>1 DEF BudgetInv
  <2>2. entry \in [Nodes -> [Values -> [share : 0 .. Cap, spent : 0 .. Cap + Chunk - 1,
                                        wid : 0 .. MaxNow]]]
    BY <2>1 DEF StateTypes, Entries, Spent
  <2>3. \A n \in Nodes, k \in Dials :
          /\ stream[n][k].phase \in {"none", "open", "cut", "gone"}
          /\ Len(stream[n][k].up) <= 1 /\ Len(stream[n][k].down) <= 1
          /\ stream[n][k].down # <<>> => stream[n][k].phase = "open"
    <3> SUFFICES ASSUME NEW n \in Nodes, NEW k \in Dials
                 PROVE  /\ stream[n][k].phase \in {"none", "open", "cut", "gone"}
                        /\ Len(stream[n][k].up) <= 1 /\ Len(stream[n][k].down) <= 1
                        /\ stream[n][k].down # <<>> => stream[n][k].phase = "open"
      OBVIOUS
    <3>1. /\ stream[n][k] \in Streams
          /\ stream[n][k].up \in Channel(Partial(Values, Spent))
          /\ stream[n][k].down \in Channel(Partial(Values, 0 .. Cap))
      BY <2>1, StreamOf
    <3>2. stream[n][k].phase \in {"none", "open", "cut", "gone"}
      BY <3>1 DEF Streams
    <3>3. Len(stream[n][k].up) <= 1 /\ Len(stream[n][k].down) <= 1
      BY <3>1, ChannelIs
    <3>4. stream[n][k].down # <<>> => stream[n][k].phase = "open"
      BY <2>1 DEF DownWhileOpen
    <3> QED BY <3>2, <3>3, <3>4, Zenon
  <2>4. ledger \in [Values -> States(Nodes, Spent)]
    BY <2>1 DEF GoodLedgers, Good
  <2> QED BY <2>1, <2>2, <2>3, <2>4, Zenon DEF StateTypes, Spent, TypeOK
<1> QED BY <1>1, BudgetInvariant, PTL

(***************************************************************************)
(* The shares of every value partition its cap in every reachable state.     *)
(***************************************************************************)
THEOREM SharesAlwaysConserve == Spec => []SharesConserve
<1>1. ASSUME BudgetInv PROVE SharesConserve
  <2> SUFFICES ASSUME NEW v \in Values PROVE Conserves(ledger[v])
    BY DEF SharesConserve
  <2>1. Good(ledger[v])
    BY <1>1 DEF BudgetInv, GoodLedgers
  <2> QED BY <2>1, GoodIsLedger, SharesPartitionCap
<1> QED BY <1>1, BudgetInvariant, PTL

(***************************************************************************)
(* No crossing of the cap that the ledger's figures show goes without its    *)
(* alert.                                                                   *)
(***************************************************************************)
THEOREM NoCrossingMissed == Spec => []CrossingsAlerted
<1>1. ASSUME BudgetInv PROVE CrossingsAlerted
  BY <1>1, Zenon DEF BudgetInv, GoodLedgers, Alerted, CrossingsAlerted
<1> QED BY <1>1, BudgetInvariant, PTL

(***************************************************************************)
(* A token admits one node: the types are all that has to be carried along.  *)
(***************************************************************************)
THEOREM TokensAreSingleUse == Spec => []OneNodePerToken
<1>1. Init => OneNodePerToken
  BY DEF Init, OneNodePerToken
<1>2. BudgetInv /\ OneNodePerToken /\ [Next]_vars => OneNodePerToken'
  <2> SUFFICES ASSUME BudgetInv, OneNodePerToken, [Next]_vars,
                      NEW m \in Nodes, conn'[m] # 0
               PROVE  Token(m)'.bound = m
    BY DEF OneNodePerToken
  <2>1. /\ tokens \in [Secrets -> Tokens] /\ secretOf \in [Nodes -> Secrets]
        /\ conn \in [Nodes -> {0} \cup Dials]
    BY DEF BudgetInv, StateTypes
  <2>2. CASE UNCHANGED <<tokens, secretOf>> /\ (conn'[m] = conn[m])
    BY <2>2 DEF OneNodePerToken, Token
  <2>3. ASSUME NEW n \in Nodes, Join(n) PROVE Token(m)'.bound = m
    <3>1. /\ Admits(Token(n), n, now)
          /\ tokens' = [tokens EXCEPT ![secretOf[n]] = Bind(@, n)]
          /\ conn' = [conn EXCEPT ![n] = Min(DialsLeft(n))]
          /\ secretOf' = secretOf
      BY <2>3 DEF Join
    <3>2. Token(n).bound \in {n, Free} /\ n # Free /\ m # Free
      <4>1. Token(n).bound \in {n, Free}
        BY <3>1 DEF Admits, Authorize
      <4> QED BY <4>1, TokenAssumption
    <3>3. tokens'[secretOf[n]].bound = n
      BY <2>1, <3>1 DEF Tokens, Bind
    <3>4. CASE m = n
      BY <3>1, <3>3, <3>4 DEF Token
    <3>5. CASE m # n
      <4>1. Token(m).bound = m
        BY <2>1, <3>1, <3>5 DEF OneNodePerToken
      <4>2. secretOf[m] # secretOf[n]
        BY <3>2, <3>5, <4>1 DEF Token
      <4>3. tokens'[secretOf[m]] = tokens[secretOf[m]]
        BY <2>1, <3>1, <4>2
      <4> QED BY <3>1, <4>1, <4>3 DEF Token
    <3> QED BY <3>4, <3>5
  <2>4. ASSUME NEW n \in Nodes, Drop(n) PROVE Token(m)'.bound = m
    <3>1. conn' = [conn EXCEPT ![n] = 0] /\ UNCHANGED <<tokens, secretOf>>
      BY <2>4 DEF Drop
    <3>2. conn'[m] = conn[m]
      BY <2>1, <3>1
    <3> QED BY <2>2, <3>1, <3>2
  <2>5. ASSUME NEW n \in Nodes, Node(n) PROVE Token(m)'.bound = m
    <3>1. CASE Refused(n) \/ Report(n) \/ Granted(n) \/ \E v \in Values : Serve(n, v)
      BY <2>2, <3>1 DEF Refused, Report, Granted, Serve
    <3> QED BY <2>3, <2>4, <2>5, <3>1, Zenon DEF Node
  <2>6. ASSUME NEW n \in Nodes, NEW k \in Dials, Session(n, k) PROVE Token(m)'.bound = m
    BY <2>2, <2>6 DEF Session, Ingest, Teardown
  <2>7. CASE Restart
    <3>1. conn' = [n \in Nodes |-> 0]
      BY <2>7 DEF Restart
    <3> QED BY <3>1
  <2>8. CASE Tick \/ UNCHANGED vars
    BY <2>2, <2>8 DEF Tick, vars
  <2> QED BY <2>5, <2>6, <2>7, <2>8, Zenon DEF Next
<1> QED BY <1>1, <1>2, BudgetInvariant, PTL DEF Spec
=============================================================================
