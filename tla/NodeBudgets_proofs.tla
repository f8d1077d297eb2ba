--------------------------- MODULE NodeBudgets_proofs ---------------------------
(***************************************************************************)
(* Theorems about NodeBudgets: type correctness, the published bound on      *)
(* overspend, and exact billing and refunds of a stream that is not cut, for *)
(* any finite number of request slots and any configurations, windows,       *)
(* grants, chunks and usage frames.                                          *)
(***************************************************************************)
EXTENDS NodeBudgets, SumLemmas

(***************************************************************************)
(* What a request context carries from one callback to the next.             *)
(***************************************************************************)

\* The bound terms are terms of a configuration, and the values a request
\* bills or is about to look at have some. A usage count is one the upstream
\* may send.
Bound0(c) ==
  /\ c \in Ctxs
  /\ \A i \in CapIds : c.terms[i] # Uncapped => c.terms[i].cap <= MaxCap
  /\ \A i \in c.caps \cup c.todo : c.terms[i] # Uncapped
  /\ c.auth # NoUsage => c.auth <= MaxUsage

\* A live stream that bills has committed its whole estimate.
Level(c) == ~c.cut /\ c.caps # {} => c.metered = c.est

CtxInv(c) ==
  /\ Bound0(c)
  /\ c.phase \in {"idle", "admitting", "admitted"} => ~c.cut /\ c.est = 0 /\ c.metered = 0
  /\ c.phase \in {"idle", "admitted", "open"} => c.todo = {}
  /\ c.phase = "open" => Level(c)
  /\ c.phase = "charging" =>
       ~c.cut /\ c.tap = "stream" /\ c.metered = c.est /\ c.delta <= MaxChunk /\ c.delta <= c.est
  /\ c.phase \in {"charging", "settling"} => c.todo \subseteq c.caps

EntryInv ==
  /\ \A i \in CapIds : ledger[i] # NoEntry => ledger[i].cap <= MaxCap
  /\ \A r \in Requests : \A i \in ctx[r].caps : ledger[i] # NoEntry

NodeInv == TypeOK /\ EntryInv /\ \A r \in Requests : CtxInv(ctx[r])

(***************************************************************************)
(* What a request can still add to a counter that is above the largest cap:  *)
(* the frame that replaces its estimate once it was cut or is being settled, *)
(* a chunk or such a frame while it is live, and nothing before it was        *)
(* admitted for the value or after it was settled.                           *)
(***************************************************************************)
Tail(c) == IF c.tap = "json" THEN MaxUsage ELSE Minus(MaxUsage, c.est)

Left(c, i) ==
  CASE i \notin c.caps \/ c.phase = "settled" -> 0
    [] i \in c.caps /\ c.phase = "settling" -> IF i \in c.todo THEN Tail(c) ELSE 0
    [] i \in c.caps /\ c.phase \notin {"settling", "settled"} ->
         IF c.cut THEN Tail(c) ELSE PerRequestExcess

Lefts(i) == [r \in Requests |-> Left(ctx[r], i)]

SpentOn(i) == IF ledger[i] = NoEntry THEN 0 ELSE ledger[i].spent

\* What is above the cap, with all that can still be added, fits the bound.
OverrunFits(i) ==
  SpentOn(i) > MaxCap =>
    SpentOn(i) + SumOver(Lefts(i), Requests)[Requests]
      <= MaxCap + Cardinality(Requests) * PerRequestExcess

-----------------------------------------------------------------------------
(***************************************************************************)
(* The ledger's operators.                                                  *)
(***************************************************************************)
LEMMA Parameters ==
  /\ MaxCap \in Nat /\ MaxChunk \in Nat /\ MaxUsage \in Nat /\ MaxClock \in Nat
  /\ HourLength \in Nat /\ HourLength > 0
  /\ PerRequestExcess \in Nat /\ MaxChunk <= PerRequestExcess /\ MaxUsage <= PerRequestExcess
  /\ NoEntry \notin Entries /\ NoUsage \notin Nat /\ Uncapped \notin Terms
  BY NodeAssumption, LedgerAssumption DEF PerRequestExcess

LEMMA IdAtNat ==
  ASSUME NEW window \in Windows, NEW now \in Nat
  PROVE  IdAt(window, now) \in Nat
<1>1. now \div HourLength \in Nat
  BY Parameters, SMT
<1> QED BY <1>1 DEF IdAt, Windows

LEMMA NewEntryType ==
  ASSUME NEW cap \in Nat
  PROVE  NewEntry(cap) \in Entries /\ NewEntry(cap).cap = cap /\ NewEntry(cap).spent = 0
  BY DEF NewEntry, Entries, Windows

\* Rolling and syncing leave the cap alone, and the counter too or at 0.
Resets(e, d) ==
  /\ d \in Entries
  /\ d.cap = e.cap
  /\ d.spent = e.spent \/ d.spent = 0

LEMMA RollResets ==
  ASSUME NEW e \in Entries, NEW now \in Nat
  PROVE  Resets(e, Roll(e, now))
<1>1. IdAt(e.window, now) \in Nat
  BY IdAtNat DEF Entries
<1> QED BY <1>1 DEF Roll, Restart, Resets, Entries

LEMMA SyncResets ==
  ASSUME NEW e \in Entries, NEW t \in Terms, NEW now \in Nat
  PROVE  Resets(e, SyncTerms(e, t, now))
<1>1. t.window \in Windows
  BY DEF Terms
<1>2. IdAt(t.window, now) \in Nat
  BY <1>1, IdAtNat
<1>3. CASE e.window = t.window
  BY <1>3, RollResets DEF SyncTerms
<1>4. CASE e.window # t.window
  BY <1>1, <1>2, <1>4 DEF SyncTerms, Restart, Resets, Entries
<1> QED BY <1>3, <1>4

LEMMA CommitAdds ==
  ASSUME NEW e \in Entries, NEW t \in Terms, NEW tokens \in Nat
  PROVE  /\ Commit(e, t, tokens) \in Entries
         /\ Commit(e, t, tokens).cap = e.cap
         /\ Commit(e, t, tokens).spent = e.spent + tokens
<1> DEFINE s == e.soft \/ (t.cap > 0 /\ 100 * (e.spent + tokens) >= AlertPercent * t.cap)
           h == e.hard \/ (t.cap > 0 /\ e.spent + tokens >= t.cap)
           n == e.spent + tokens
<1>1. Commit(e, t, tokens) = [e EXCEPT !.spent = n, !.soft = s, !.hard = h]
  BY DEF Commit
<1>2. s \in BOOLEAN /\ h \in BOOLEAN /\ n \in Nat /\ n = e.spent + tokens
  BY DEF Entries
<1> HIDE DEF s, h, n
<1> QED BY <1>1, <1>2 DEF Entries

LEMMA ReconcileAdds ==
  ASSUME NEW e \in Entries, NEW est \in Nat, NEW auth \in Nat
  PROVE  /\ Reconcile(e, est, auth) \in Entries
         /\ Reconcile(e, est, auth).cap = e.cap
         /\ Reconcile(e, est, auth).spent <= e.spent + Minus(auth, est)
<1> DEFINE n == IF auth >= est THEN e.spent + (auth - est) ELSE Minus(e.spent, est - auth)
<1>1. Reconcile(e, est, auth) = [e EXCEPT !.spent = n]
  BY DEF Reconcile
<1>2. n \in Nat /\ n <= e.spent + Minus(auth, est)
  BY DEF Entries, Minus
<1> HIDE DEF n
<1> QED BY <1>1, <1>2 DEF Entries

\* The largest frame bounds what settling adds.
LEMMA TailBounds ==
  ASSUME NEW c \in Ctxs
  PROVE  /\ Tail(c) \in Nat /\ Tail(c) <= PerRequestExcess
         /\ \A auth \in 0 .. MaxUsage :
              /\ c.tap = "json" => auth <= Tail(c)
              /\ c.tap # "json" => Minus(auth, c.est) <= Tail(c)
<1>1. c.est \in Nat
  BY DEF Ctxs
<1> QED BY <1>1, Parameters DEF Tail, Minus

LEMMA LeftBounds ==
  ASSUME NEW c \in Ctxs, NEW i
  PROVE  Left(c, i) \in Nat /\ Left(c, i) <= PerRequestExcess
<1>1. Tail(c) \in Nat /\ Tail(c) <= PerRequestExcess
  BY TailBounds
<1>2. PerRequestExcess \in Nat
  BY Parameters
<1>3. Left(c, i) \in {0, Tail(c), PerRequestExcess}
  BY DEF Left
<1> QED BY <1>1, <1>2, <1>3

LEMMA LeftCases ==
  ASSUME NEW c, NEW i
  PROVE  /\ i \notin c.caps \/ c.phase = "settled" => Left(c, i) = 0
         /\ i \in c.caps /\ c.phase = "settling" =>
              Left(c, i) = IF i \in c.todo THEN Tail(c) ELSE 0
         /\ i \in c.caps /\ c.phase \notin {"settling", "settled"} =>
              Left(c, i) = IF c.cut THEN Tail(c) ELSE PerRequestExcess
<1>1. CASE i \notin c.caps \/ c.phase = "settled"
  BY <1>1 DEF Left
<1>2. CASE i \in c.caps /\ c.phase = "settling"
  BY <1>2 DEF Left
<1>3. CASE i \in c.caps /\ c.phase \notin {"settling", "settled"}
  BY <1>3 DEF Left
<1> QED BY <1>1, <1>2, <1>3

(***************************************************************************)
(* The contexts the callbacks leave behind.                                  *)
(***************************************************************************)
LEMMA Bound0Facts ==
  ASSUME NEW c, Bound0(c)
  PROVE  /\ c \in Ctxs
         /\ c.caps \in SUBSET CapIds /\ c.todo \in SUBSET CapIds
         /\ c.est \in Nat /\ c.metered \in Nat /\ c.delta \in Nat /\ c.now \in Nat
         /\ c.auth = NoUsage \/ c.auth \in 0 .. MaxUsage
         /\ \A i \in c.caps \cup c.todo : c.terms[i] \in Terms /\ c.terms[i].cap <= MaxCap
<1>1. c \in Ctxs
  BY DEF Bound0
<1>2. /\ c.caps \in SUBSET CapIds /\ c.todo \in SUBSET CapIds
      /\ c.est \in Nat /\ c.metered \in Nat /\ c.delta \in Nat /\ c.now \in 0 .. MaxClock
      /\ c.auth \in Nat \cup {NoUsage}
      /\ c.terms \in [CapIds -> Terms \cup {Uncapped}]
  BY <1>1 DEF Ctxs
<1>3. c.auth = NoUsage \/ c.auth \in 0 .. MaxUsage
  BY <1>2, Parameters DEF Bound0
<1>4. c.now \in Nat
  BY <1>2, Parameters
<1>5. \A i \in c.caps \cup c.todo : c.terms[i] \in Terms /\ c.terms[i].cap <= MaxCap
  BY <1>2 DEF Bound0
<1> QED BY <1>1, <1>2, <1>3, <1>4, <1>5

LEMMA IdleIsFine ==
  /\ CtxInv(IdleCtx)
  /\ IdleCtx.caps = {}
<1>1. NoTerms \in [CapIds -> Terms \cup {Uncapped}] /\ \A i \in CapIds : NoTerms[i] = Uncapped
  BY DEF NoTerms
<1>2. 0 \in 0 .. MaxClock
  BY Parameters
<1>3. IdleCtx \in Ctxs
  BY <1>1, <1>2 DEF IdleCtx, Ctxs, Phases
<1>4. Bound0(IdleCtx)
  BY <1>1, <1>3 DEF Bound0, IdleCtx
<1> QED BY <1>4 DEF CtxInv, IdleCtx

\* What a live or cut request can still add.
LiveLeft(c, i) ==
  IF i \notin c.caps THEN 0 ELSE IF c.cut THEN Tail(c) ELSE PerRequestExcess

LEMMA AfterChargeIsFine ==
  ASSUME NEW c, Bound0(c), Level(c), clock \in 0 .. MaxClock, NEW last \in BOOLEAN
  PROVE  /\ CtxInv(AfterCharge(c, last))
         /\ AfterCharge(c, last).caps = c.caps
         /\ \A i : Left(AfterCharge(c, last), i) <= LiveLeft(c, i)
<1> DEFINE d == AfterCharge(c, last)
<1>1. c \in Ctxs
  BY DEF Bound0
<1>2. /\ d \in Ctxs /\ d.caps = c.caps /\ d.terms = c.terms /\ d.auth = c.auth
      /\ d.cut = c.cut /\ d.est = c.est /\ d.metered = c.metered /\ d.tap = c.tap
      /\ \/ d.phase = "open" /\ d.todo = {}
         \/ d.phase \in {"settled", "settling"} /\ d.todo = c.caps
  <2>1. CASE ~last
    <3>1. d = [c EXCEPT !.phase = "open", !.todo = {}, !.now = 0, !.delta = 0]
      BY <2>1 DEF AfterCharge
    <3>2. 0 \in 0 .. MaxClock
      BY Parameters
    <3> HIDE DEF d
    <3> QED BY <1>1, <3>1, <3>2 DEF Ctxs, Phases
  <2>2. CASE last
    <3> DEFINE p == IF c.caps = {} THEN "settled" ELSE "settling"
    <3>1. d = [c EXCEPT !.phase = p, !.todo = c.caps, !.now = clock, !.delta = 0]
      BY <2>2 DEF AfterCharge
    <3>2. p \in {"settled", "settling"}
      OBVIOUS
    <3> HIDE DEF d, p
    <3> QED BY <1>1, <3>1, <3>2 DEF Ctxs, Phases
  <2> QED BY <2>1, <2>2
<1> HIDE DEF d
<1>3. Bound0(d)
  BY <1>2 DEF Bound0
<1>4. CtxInv(d)
  BY <1>2, <1>3 DEF CtxInv, Level
<1>5. ASSUME NEW i PROVE Left(d, i) <= LiveLeft(c, i)
  <2>1. Tail(d) = Tail(c) /\ Tail(c) \in Nat /\ Tail(c) <= PerRequestExcess
    BY <1>1, <1>2, TailBounds DEF Tail
  <2>2. PerRequestExcess \in Nat
    BY Parameters
  <2>3. CASE i \notin c.caps
    BY <1>2, <2>3, LeftCases DEF LiveLeft
  <2>4. CASE i \in c.caps
    <3>1. Left(d, i) = 0 \/ Left(d, i) = (IF d.cut THEN Tail(d) ELSE PerRequestExcess)
          \/ Left(d, i) = Tail(d)
      BY <1>2, <2>4, LeftCases
    <3> QED BY <1>2, <2>1, <2>2, <2>4, <3>1 DEF LiveLeft
  <2> QED BY <2>3, <2>4
<1> QED BY <1>2, <1>4, <1>5 DEF d

(***************************************************************************)
(* A step of one request: if its context stays in order and its part of the  *)
(* bill covers what it does to the counters, the invariant is kept.          *)
(***************************************************************************)
Overruns == \A i \in CapIds : OverrunFits(i)

LEMMA NodeFacts ==
  ASSUME NodeInv
  PROVE  /\ clock \in 0 .. MaxClock /\ clock \in Nat
         /\ \A r \in Requests : ctx[r] \in Ctxs /\ Bound0(ctx[r]) /\ CtxInv(ctx[r])
         /\ \A i \in CapIds : SpentOn(i) \in Nat
         /\ \A i \in CapIds : ledger[i] # NoEntry =>
              ledger[i] \in Entries /\ SpentOn(i) = ledger[i].spent
<1>1. clock \in 0 .. MaxClock /\ clock \in Nat
  BY Parameters DEF NodeInv, TypeOK
<1>2. \A r \in Requests : ctx[r] \in Ctxs /\ Bound0(ctx[r]) /\ CtxInv(ctx[r])
  BY DEF NodeInv, CtxInv, Bound0
<1>3. \A i \in CapIds : ledger[i] # NoEntry =>
        ledger[i] \in Entries /\ SpentOn(i) = ledger[i].spent
  BY DEF NodeInv, TypeOK, SpentOn
<1>4. \A i \in CapIds : SpentOn(i) \in Nat
  BY <1>3 DEF SpentOn, Entries
<1> QED BY <1>1, <1>2, <1>3, <1>4

LEMMA LeftsType ==
  ASSUME NodeInv, NEW i
  PROVE  /\ Lefts(i) \in [Requests -> Int]
         /\ \A r \in Requests : Lefts(i)[r] = Left(ctx[r], i) /\ Lefts(i)[r] \in Nat
                               /\ Lefts(i)[r] <= PerRequestExcess
<1>1. \A r \in Requests : Left(ctx[r], i) \in Nat /\ Left(ctx[r], i) <= PerRequestExcess
  BY NodeFacts, LeftBounds
<1> QED BY <1>1 DEF Lefts

LEMMA OneOverruns ==
  ASSUME NodeInv, NodeInv', NEW i \in CapIds, OverrunFits(i), NEW r \in Requests,
         \A m \in Requests \ {r} : ctx'[m] = ctx[m],
         SpentOn(i)' > MaxCap =>
           SpentOn(i)' + Left(ctx'[r], i)
             <= (IF SpentOn(i) > MaxCap THEN SpentOn(i) ELSE MaxCap) + Left(ctx[r], i)
  PROVE  OverrunFits(i)'
<1> DEFINE f == Lefts(i)
           h == Lefts(i)'
           P == PerRequestExcess
           a == SumOver(f, Requests)[Requests]
           b == SumOver(h, Requests)[Requests]
           k == Cardinality(Requests)
<1>1. SpentOn(i) \in Nat /\ SpentOn(i)' \in Nat
  <2>1. ledger'[i] # NoEntry => ledger'[i] \in Entries
    BY DEF NodeInv, TypeOK
  <2>2. SpentOn(i)' \in Nat
    BY <2>1 DEF SpentOn, Entries
  <2> QED BY <2>2, NodeFacts
<1>2. /\ f \in [Requests -> Int]
      /\ \A m \in Requests : f[m] = Left(ctx[m], i) /\ f[m] \in Nat /\ f[m] <= P
  BY LeftsType
<1>3. /\ h \in [Requests -> Int]
      /\ \A m \in Requests : h[m] = Left(ctx'[m], i) /\ h[m] \in Nat /\ h[m] <= P
  <2>1. \A m \in Requests : ctx'[m] \in Ctxs
    BY DEF NodeInv, TypeOK
  <2>2. \A m \in Requests : Left(ctx'[m], i) \in Nat /\ Left(ctx'[m], i) <= P
    BY <2>1, LeftBounds
  <2> QED BY <2>2 DEF Lefts
<1>4. IsFiniteSet(Requests) /\ k \in Nat /\ P \in Nat /\ MaxCap \in Nat
  BY NodeAssumption, Parameters, FS_CardinalityType
<1>5. \A m \in Requests \ {r} : h[m] = f[m]
  BY <1>2, <1>3
<1> HIDE DEF f, h, P
<1>6. a \in Int /\ b \in Int
  <2>1. Requests \in SUBSET Requests
    OBVIOUS
  <2> QED BY <1>2, <1>3, <1>4, <2>1, SumOverIsSum DEF IsSum
<1>7. b = a + (h[r] - f[r])
  BY <1>2, <1>3, <1>4, <1>5, SumChange
<1>8. b <= h[r] + (k * P - P)
  <2> DEFINE others == SumOver(h, Requests)[Requests \ {r}]
             j == Cardinality(Requests \ {r})
  <2>1. b = h[r] + others
    <3>1. Requests \in SUBSET Requests
      OBVIOUS
    <3> QED BY <1>3, <1>4, <3>1, SumRemove
  <2>2. others \in Int /\ others <= j * P
    <3>1. Requests \ {r} \in SUBSET Requests
      OBVIOUS
    <3>2. \A m \in Requests : 0 <= h[m] /\ h[m] <= P
      BY <1>3
    <3> QED BY <1>3, <1>4, <3>1, <3>2, SumBounds
  <2>3. j = k - 1
    BY <1>4, FS_RemoveElement
  <2>4. j * P = k * P - P
    BY <1>4, <2>3
  <2>5. h[r] \in Nat /\ k * P \in Int
    BY <1>3, <1>4
  <2> HIDE DEF others, j
  <2> QED BY <1>4, <2>1, <2>2, <2>4, <2>5
<1>9. SUFFICES ASSUME SpentOn(i)' > MaxCap
               PROVE  SpentOn(i)' + b <= MaxCap + k * P
  <2>1. OverrunFits(i)' <=> (SpentOn(i)' > MaxCap => SpentOn(i)' + b <= MaxCap + k * P)
    BY DEF OverrunFits, h, P
  <2> QED BY <2>1
<1> DEFINE x == SpentOn(i)
           y == SpentOn(i)'
           fr == f[r]
           hr == h[r]
           kP == k * P
<1>10. y + hr <= (IF x > MaxCap THEN x ELSE MaxCap) + fr
  BY <1>2, <1>3, <1>9
<1>11. x > MaxCap => x + a <= MaxCap + kP
  BY DEF OverrunFits, f, P
<1>12. fr \in Nat /\ hr \in Nat /\ fr <= P /\ kP \in Int /\ x \in Nat /\ y \in Nat
  BY <1>1, <1>2, <1>3, <1>4
<1>13. b = a + (hr - fr) /\ b <= hr + (kP - P)
  BY <1>7, <1>8
<1> HIDE DEF x, y, fr, hr, kP, a, b, k
<1>14. y + b <= MaxCap + kP
  <2>1. CASE x > MaxCap
    BY <1>4, <1>6, <1>10, <1>11, <1>12, <1>13, <2>1
  <2>2. CASE ~(x > MaxCap)
    BY <1>4, <1>6, <1>10, <1>12, <1>13, <2>2
  <2> QED BY <2>1, <2>2
<1> QED BY <1>14 DEF y, kP

Highest(i) == IF SpentOn(i) > MaxCap THEN SpentOn(i) ELSE MaxCap

\* A step of r that leaves d as its context and e at counter i.
LEMMA LedgerStep ==
  ASSUME NodeInv, Overruns, NEW r \in Requests, NEW i \in CapIds,
         NEW d, CtxInv(d), ctx' = [ctx EXCEPT ![r] = d],
         NEW e \in Entries, e.cap <= MaxCap, ledger' = [ledger EXCEPT ![i] = e],
         UNCHANGED <<partitioned, config, clock>>,
         d.caps \subseteq ctx[r].caps \cup {i},
         \A j \in CapIds \ {i} : Left(d, j) <= Left(ctx[r], j),
         e.spent > MaxCap => e.spent + Left(d, i) <= Highest(i) + Left(ctx[r], i)
  PROVE  NodeInv' /\ Overruns'
<1>1. /\ ledger \in [CapIds -> Entries \cup {NoEntry}] /\ ctx \in [Requests -> Ctxs]
      /\ EntryInv /\ \A m \in Requests : CtxInv(ctx[m])
  BY DEF NodeInv, TypeOK
<1>2. d \in Ctxs /\ d.caps \in SUBSET CapIds /\ e # NoEntry
  BY Bound0Facts, Parameters DEF CtxInv
<1>3. /\ ctx' \in [Requests -> Ctxs] /\ ctx'[r] = d
      /\ \A m \in Requests \ {r} : ctx'[m] = ctx[m]
  BY <1>1, <1>2
<1>4. /\ ledger' \in [CapIds -> Entries \cup {NoEntry}] /\ ledger'[i] = e
      /\ \A j \in CapIds \ {i} : ledger'[j] = ledger[j]
  BY <1>1
<1>5. TypeOK'
  BY <1>3, <1>4 DEF NodeInv, TypeOK
<1>6. \A m \in Requests : CtxInv(ctx'[m])
  BY <1>1, <1>3
<1>7. EntryInv'
  <2>1. \A j \in CapIds : ledger'[j] # NoEntry => ledger'[j].cap <= MaxCap
    BY <1>1, <1>4 DEF EntryInv
  <2>2. ASSUME NEW m \in Requests, NEW j \in ctx'[m].caps PROVE ledger'[j] # NoEntry
    <3>1. j \in CapIds
      BY <1>3, <2>2 DEF Ctxs
    <3>2. j = i \/ j \in ctx[m].caps
      BY <1>3, <2>2
    <3> QED BY <1>1, <1>2, <1>4, <3>1, <3>2 DEF EntryInv
  <2> QED BY <2>1, <2>2 DEF EntryInv
<1>8. NodeInv'
  BY <1>5, <1>6, <1>7 DEF NodeInv
<1>9. ASSUME NEW j \in CapIds PROVE OverrunFits(j)'
  <2>1. SpentOn(j)' = IF j = i THEN e.spent ELSE SpentOn(j)
    BY <1>2, <1>4 DEF SpentOn
  <2>2. SpentOn(j)' > MaxCap =>
          SpentOn(j)' + Left(ctx'[r], j)
            <= (IF SpentOn(j) > MaxCap THEN SpentOn(j) ELSE MaxCap) + Left(ctx[r], j)
    <3>1. CASE j = i
      BY <1>3, <2>1, <3>1 DEF Highest
    <3>2. CASE j # i
      <4>1. SpentOn(j) \in Nat /\ Left(d, j) \in Nat /\ Left(ctx[r], j) \in Nat
        BY <1>1, <1>2, NodeFacts, LeftBounds
      <4>2. Left(d, j) <= Left(ctx[r], j) /\ SpentOn(j)' = SpentOn(j) /\ ctx'[r] = d
        BY <1>3, <2>1, <3>2
      <4> QED BY <4>1, <4>2
    <3> QED BY <3>1, <3>2
  <2>3. OverrunFits(j)
    BY DEF Overruns
  <2> QED BY <1>3, <1>8, <2>2, <2>3, OneOverruns
<1>10. Overruns'
  BY <1>9 DEF Overruns
<1> QED BY <1>8, <1>10

\* A step of r that leaves the ledger alone.
LEMMA ContextStep ==
  ASSUME NodeInv, Overruns, NEW r \in Requests,
         NEW d, CtxInv(d), ctx' = [ctx EXCEPT ![r] = d],
         UNCHANGED <<ledger, partitioned, config, clock>>,
         d.caps \subseteq ctx[r].caps,
         \A j \in CapIds : Left(d, j) <= Left(ctx[r], j)
  PROVE  NodeInv' /\ Overruns'
<1>1. ctx \in [Requests -> Ctxs] /\ EntryInv /\ \A m \in Requests : CtxInv(ctx[m])
  BY DEF NodeInv, TypeOK
<1>2. d \in Ctxs
  BY Bound0Facts DEF CtxInv
<1>3. /\ ctx' \in [Requests -> Ctxs] /\ ctx'[r] = d
      /\ \A m \in Requests \ {r} : ctx'[m] = ctx[m]
  BY <1>1, <1>2
<1>4. TypeOK'
  BY <1>3 DEF NodeInv, TypeOK
<1>5. \A m \in Requests : CtxInv(ctx'[m])
  BY <1>1, <1>3
<1>6. EntryInv'
  BY <1>1, <1>3 DEF EntryInv
<1>7. NodeInv'
  BY <1>4, <1>5, <1>6 DEF NodeInv
<1>8. ASSUME NEW j \in CapIds PROVE OverrunFits(j)'
  <2>1. SpentOn(j)' = SpentOn(j)
    BY DEF SpentOn
  <2>2. SpentOn(j)' > MaxCap =>
          SpentOn(j)' + Left(ctx'[r], j)
            <= (IF SpentOn(j) > MaxCap THEN SpentOn(j) ELSE MaxCap) + Left(ctx[r], j)
    <3>1. SpentOn(j) \in Nat /\ Left(d, j) \in Nat /\ Left(ctx[r], j) \in Nat
      BY <1>1, <1>2, NodeFacts, LeftBounds
    <3>2. Left(d, j) <= Left(ctx[r], j) /\ ctx'[r] = d
      BY <1>3
    <3> QED BY <2>1, <3>1, <3>2
  <2>3. OverrunFits(j)
    BY DEF Overruns
  <2> QED BY <1>3, <1>7, <2>2, <2>3, OneOverruns
<1>9. Overruns'
  BY <1>8 DEF Overruns
<1> QED BY <1>7, <1>9

(***************************************************************************)
(* Admission.                                                               *)
(***************************************************************************)
LEMMA SyncedType ==
  ASSUME NodeInv, NEW r \in Requests, NEW i \in ctx[r].caps \cup ctx[r].todo
  PROVE  /\ i \in CapIds
         /\ ctx[r].terms[i] \in Terms /\ ctx[r].terms[i].cap \in Nat
         /\ ctx[r].terms[i].cap <= MaxCap
         /\ Synced(r, i) \in Entries /\ Synced(r, i).cap <= MaxCap
         /\ Synced(r, i).spent = SpentOn(i) \/ Synced(r, i).spent = 0
<1> DEFINE t == ctx[r].terms[i]
           en == Ensure(i, t.cap)
           now == ctx[r].now
<1>1. i \in CapIds /\ t \in Terms /\ t.cap <= MaxCap /\ now \in Nat
  BY NodeFacts, Bound0Facts
<1>2. t.cap \in Nat
  BY <1>1 DEF Terms
<1>3. en \in Entries /\ en.cap <= MaxCap /\ en.spent = SpentOn(i)
  <2>1. CASE ledger[i] = NoEntry
    BY <1>1, <1>2, <2>1, NewEntryType DEF Ensure, SpentOn
  <2>2. CASE ledger[i] # NoEntry
    BY <1>1, <2>2, NodeFacts DEF Ensure, NodeInv, EntryInv
  <2> QED BY <2>1, <2>2
<1>4. Synced(r, i) = SyncTerms(en, t, now)
  BY DEF Synced
<1> HIDE DEF t, en, now
<1>5. Resets(en, SyncTerms(en, t, now))
  BY <1>1, <1>3, SyncResets
<1>6. Synced(r, i) \in Entries /\ Synced(r, i).cap = en.cap
      /\ (Synced(r, i).spent = en.spent \/ Synced(r, i).spent = 0)
  BY <1>4, <1>5 DEF Resets
<1> QED BY <1>1, <1>2, <1>3, <1>6 DEF t

LEMMA ArriveStep ==
  ASSUME NodeInv, Overruns, NEW r \in Requests, NEW S \in SUBSET CapIds, Arrive(r, S)
  PROVE  NodeInv' /\ Overruns'
<1> DEFINE capped == {i \in S : config[i] # Uncapped}
           p == IF capped = {} THEN "admitted" ELSE "admitting"
           d == [IdleCtx EXCEPT !.terms = config, !.phase = p, !.todo = capped, !.now = clock]
<1>1. ctx[r].phase = "idle" /\ ctx' = [ctx EXCEPT ![r] = d]
      /\ UNCHANGED <<ledger, partitioned, config, clock>>
  BY DEF Arrive
<1>2. /\ config \in [CapIds -> Terms \cup {Uncapped}] /\ clock \in 0 .. MaxClock
      /\ \A i \in CapIds : config[i] # Uncapped => config[i].cap <= MaxCap
  BY NodeAssumption DEF NodeInv, TypeOK
<1>3. /\ capped \in SUBSET CapIds /\ \A i \in capped : config[i] # Uncapped
      /\ p \in {"admitted", "admitting"} /\ (p = "admitted" => capped = {})
  OBVIOUS
<1>4. IdleCtx \in Ctxs /\ ~IdleCtx.cut /\ IdleCtx.est = 0 /\ IdleCtx.metered = 0
      /\ IdleCtx.caps = {} /\ IdleCtx.auth = NoUsage
  BY IdleIsFine DEF CtxInv, Bound0, IdleCtx
<1> HIDE DEF capped, p
<1>5. /\ d \in Ctxs /\ d.terms = config /\ d.todo = capped /\ d.phase = p
      /\ ~d.cut /\ d.est = 0 /\ d.metered = 0 /\ d.caps = {} /\ d.auth = NoUsage
  BY <1>2, <1>3, <1>4 DEF Ctxs, Phases
<1> HIDE DEF d
<1>6. Bound0(d)
  BY <1>2, <1>3, <1>5 DEF Bound0
<1>7. CtxInv(d)
  BY <1>3, <1>5, <1>6 DEF CtxInv
<1>8. \A j \in CapIds : Left(d, j) <= Left(ctx[r], j)
  <2> SUFFICES ASSUME NEW j \in CapIds PROVE Left(d, j) <= Left(ctx[r], j)
    OBVIOUS
  <2>1. Left(d, j) = 0
    BY <1>5, LeftCases
  <2>2. Left(ctx[r], j) \in Nat
    BY NodeFacts, LeftBounds
  <2> QED BY <2>1, <2>2
<1> QED BY <1>1, <1>5, <1>7, <1>8, ContextStep

LEMMA AdmitStep ==
  ASSUME NodeInv, Overruns, NEW r \in Requests, NEW i \in CapIds, Admit(r, i)
  PROVE  NodeInv' /\ Overruns'
<1> DEFINE c == ctx[r]
           e == Synced(r, i)
           p == IF c.todo = {i} THEN "admitted" ELSE c.phase
           d == [c EXCEPT !.caps = @ \cup {i}, !.todo = @ \ {i}, !.phase = p]
<1>1. /\ c.phase = "admitting" /\ i \in c.todo
      /\ ~Denies(e, partitioned) /\ ledger' = [ledger EXCEPT ![i] = e]
      /\ UNCHANGED <<partitioned, config, clock>>
  BY DEF Admit, Reaches
<1>2. ctx' = [ctx EXCEPT ![r] = d]
  BY DEF Admit, NodeInv, TypeOK
<1>3. c \in Ctxs /\ Bound0(c) /\ CtxInv(c)
  BY NodeFacts
<1>4. e \in Entries /\ e.cap <= MaxCap
  BY <1>1, SyncedType
<1>5. e.spent <= MaxCap
  <2> HIDE DEF e
  <2>1. e.spent \in Nat /\ e.cap \in Nat /\ e.share \in Nat
    BY <1>4 DEF Entries
  <2>2. e.spent + 1 <= Ceiling(e, partitioned)
    <3>1. Ceiling(e, partitioned) \in Nat
      BY <2>1 DEF Ceiling, AtMost
    <3> QED BY <1>1, <2>1, <3>1 DEF Denies
  <2>3. Ceiling(e, partitioned) <= e.cap /\ Ceiling(e, partitioned) \in Nat
    BY <2>1 DEF Ceiling, AtMost
  <2> QED BY <1>4, <2>1, <2>2, <2>3, Parameters
<1>6. p \in {"admitted", "admitting"} /\ (p = "admitted" => c.todo = {i})
  BY <1>1
<1> HIDE DEF c, p, e
<1>7. /\ d \in Ctxs /\ d.terms = c.terms /\ d.todo = c.todo \ {i} /\ d.phase = p
      /\ d.cut = c.cut /\ d.est = c.est /\ d.metered = c.metered
      /\ d.caps = c.caps \cup {i} /\ d.auth = c.auth
  BY <1>3, <1>6 DEF Ctxs, Phases
<1> HIDE DEF d
<1>8. Bound0(d)
  BY <1>1, <1>3, <1>7 DEF Bound0
<1>9. CtxInv(d)
  BY <1>1, <1>3, <1>6, <1>7, <1>8 DEF CtxInv
<1>10. ASSUME NEW j \in CapIds \ {i} PROVE Left(d, j) <= Left(c, j)
  <2>1. j \in d.caps <=> j \in c.caps
    BY <1>7
  <2>2. Left(d, j) = Left(c, j)
    BY <1>1, <1>3, <1>6, <1>7, <2>1, LeftCases DEF CtxInv
  <2>3. Left(c, j) \in Nat
    BY <1>3, LeftBounds
  <2> QED BY <2>2, <2>3
<1>11. e.spent > MaxCap => e.spent + Left(d, i) <= Highest(i) + Left(c, i)
  <2>1. e.spent \in Nat
    BY <1>4 DEF Entries
  <2> QED BY <1>5, <2>1, Parameters
<1> QED BY <1>1, <1>2, <1>4, <1>7, <1>9, <1>10, <1>11, LedgerStep DEF c

LEMMA IdleStep ==
  ASSUME NodeInv, NEW r \in Requests
  PROVE  /\ CtxInv(IdleCtx) /\ IdleCtx.caps \subseteq ctx[r].caps
         /\ \A j \in CapIds : Left(IdleCtx, j) = 0 /\ Left(IdleCtx, j) <= Left(ctx[r], j)
<1>1. \A j \in CapIds : Left(IdleCtx, j) = 0
  BY IdleIsFine, LeftCases
<1>2. \A j \in CapIds : Left(ctx[r], j) \in Nat
  BY NodeFacts, LeftBounds
<1>3. \A j \in CapIds : Left(IdleCtx, j) <= Left(ctx[r], j)
  BY <1>1, <1>2
<1> QED BY <1>1, <1>3, IdleIsFine

LEMMA RefuseStep ==
  ASSUME NodeInv, Overruns, NEW r \in Requests, NEW i \in CapIds, Refuse(r, i)
  PROVE  NodeInv' /\ Overruns'
<1> DEFINE e == Synced(r, i)
<1>1. /\ i \in ctx[r].todo /\ ledger' = [ledger EXCEPT ![i] = e]
      /\ ctx' = [ctx EXCEPT ![r] = IdleCtx] /\ UNCHANGED <<partitioned, config, clock>>
  BY DEF Refuse, Reaches
<1>2. e \in Entries /\ e.cap <= MaxCap /\ (e.spent = SpentOn(i) \/ e.spent = 0)
  BY <1>1, SyncedType
<1>3. /\ CtxInv(IdleCtx) /\ IdleCtx.caps \subseteq ctx[r].caps
      /\ \A j \in CapIds : Left(IdleCtx, j) = 0 /\ Left(IdleCtx, j) <= Left(ctx[r], j)
  BY IdleStep
<1> HIDE DEF e
<1>4. e.spent > MaxCap => e.spent + Left(IdleCtx, i) <= Highest(i) + Left(ctx[r], i)
  <2>1. SpentOn(i) \in Nat /\ Left(ctx[r], i) \in Nat /\ Left(IdleCtx, i) = 0
    BY <1>3, NodeFacts, LeftBounds
  <2> QED BY <1>2, <2>1, Parameters DEF Highest
<1> QED BY <1>1, <1>2, <1>3, <1>4, LedgerStep

LEMMA GateRefusesStep ==
  ASSUME NodeInv, Overruns, NEW r \in Requests, GateRefuses(r) \/ Done(r)
  PROVE  NodeInv' /\ Overruns'
<1>1. ctx' = [ctx EXCEPT ![r] = IdleCtx] /\ UNCHANGED <<ledger, partitioned, config, clock>>
  BY DEF GateRefuses, Done
<1> QED BY <1>1, IdleStep, ContextStep

LEMMA ResponseHeadStep ==
  ASSUME NodeInv, Overruns, NEW r \in Requests, NEW tap \in Taps, ResponseHead(r, tap)
  PROVE  NodeInv' /\ Overruns'
<1> DEFINE c == ctx[r]
           d == [c EXCEPT !.phase = "open", !.tap = tap]
<1>1. c.phase = "admitted" /\ UNCHANGED <<ledger, partitioned, config, clock>>
  BY DEF ResponseHead
<1>2. ctx' = [ctx EXCEPT ![r] = d]
  BY DEF ResponseHead, NodeInv, TypeOK
<1>3. c \in Ctxs /\ Bound0(c) /\ CtxInv(c) /\ tap \in {"stream", "json"}
  BY NodeFacts, NodeAssumption
<1> HIDE DEF c
<1>4. /\ d \in Ctxs /\ d.terms = c.terms /\ d.todo = c.todo /\ d.phase = "open"
      /\ d.cut = c.cut /\ d.est = c.est /\ d.metered = c.metered
      /\ d.caps = c.caps /\ d.auth = c.auth
  BY <1>3 DEF Ctxs, Phases
<1> HIDE DEF d
<1>5. Bound0(d)
  BY <1>3, <1>4 DEF Bound0
<1>6. CtxInv(d)
  BY <1>1, <1>3, <1>4, <1>5 DEF CtxInv, Level
<1>7. \A j \in CapIds : Left(d, j) <= Left(c, j)
  <2> SUFFICES ASSUME NEW j \in CapIds PROVE Left(d, j) <= Left(c, j)
    OBVIOUS
  <2>1. Left(d, j) = Left(c, j)
    BY <1>1, <1>3, <1>4, LeftCases DEF CtxInv
  <2>2. Left(c, j) \in Nat
    BY <1>3, LeftBounds
  <2> QED BY <2>1, <2>2
<1> QED BY <1>1, <1>2, <1>4, <1>6, <1>7, ContextStep DEF c

(***************************************************************************)
(* The stream.                                                              *)
(***************************************************************************)
LEMMA LiveIsLeft ==
  ASSUME NEW c, c.phase \notin {"settling", "settled"}, NEW i
  PROVE  Left(c, i) = LiveLeft(c, i)
  BY LeftCases DEF LiveLeft

LEMMA NetsType ==
  ASSUME NEW c \in Ctxs, NEW i \in CapIds, NEW a \in Int, NEW b \in Int
  PROVE  Nets(c, i, a, b) \in [CapIds -> Int]
<1>1. c.net \in [CapIds -> Int] /\ b - a \in Int
  BY DEF Ctxs
<1> QED BY <1>1 DEF Nets

LEMMA AbortStep ==
  ASSUME NodeInv, Overruns, NEW r \in Requests, Abort(r)
  PROVE  NodeInv' /\ Overruns'
<1> DEFINE c == ctx[r]
           d == AfterCharge(c, TRUE)
<1>1. c.phase = "open" /\ UNCHANGED <<ledger, partitioned, config, clock>>
      /\ ctx' = [ctx EXCEPT ![r] = d]
  BY DEF Abort, NodeInv, TypeOK
<1>2. Bound0(c) /\ Level(c) /\ clock \in 0 .. MaxClock
  BY <1>1, NodeFacts DEF CtxInv
<1> HIDE DEF c
<1>3. CtxInv(d) /\ d.caps = c.caps /\ \A j : Left(d, j) <= LiveLeft(c, j)
  BY <1>2, AfterChargeIsFine
<1>4. \A j : Left(c, j) = LiveLeft(c, j)
  BY <1>1, LiveIsLeft
<1> HIDE DEF d
<1>5. d.caps \subseteq c.caps /\ \A j \in CapIds : Left(d, j) <= Left(c, j)
  BY <1>3, <1>4
<1> QED BY <1>1, <1>3, <1>5, ContextStep DEF c

LEMMA JsonEndsStep ==
  ASSUME NodeInv, Overruns, NEW r \in Requests, NEW usage \in Usages \cup {NoUsage},
         JsonEnds(r, usage)
  PROVE  NodeInv' /\ Overruns'
<1> DEFINE c == ctx[r]
           b == (usage # NoUsage)
           x == [c EXCEPT !.auth = usage, !.frame = b]
           d == AfterCharge(x, TRUE)
<1>1. c.phase = "open" /\ UNCHANGED <<ledger, partitioned, config, clock>>
      /\ ctx' = [ctx EXCEPT ![r] = d]
  BY DEF JsonEnds, NodeInv, TypeOK
<1>2. c \in Ctxs /\ Bound0(c) /\ Level(c) /\ clock \in 0 .. MaxClock
  BY <1>1, NodeFacts DEF CtxInv
<1>3. b \in BOOLEAN /\ usage \in Nat \cup {NoUsage} /\ (usage # NoUsage => usage <= MaxUsage)
  BY NodeAssumption
<1> HIDE DEF c, b
<1>4. /\ x \in Ctxs /\ x.caps = c.caps /\ x.todo = c.todo /\ x.terms = c.terms
      /\ x.cut = c.cut /\ x.est = c.est /\ x.metered = c.metered /\ x.tap = c.tap
      /\ x.auth = usage
  BY <1>2, <1>3 DEF Ctxs
<1> HIDE DEF x
<1>5. Bound0(x) /\ Level(x)
  BY <1>2, <1>3, <1>4 DEF Bound0, Level
<1>6. CtxInv(d) /\ d.caps = x.caps /\ \A j : Left(d, j) <= LiveLeft(x, j)
  BY <1>2, <1>5, AfterChargeIsFine
<1>7. \A j : Left(c, j) = LiveLeft(c, j) /\ LiveLeft(x, j) = LiveLeft(c, j)
  BY <1>1, <1>4, LiveIsLeft DEF LiveLeft, Tail
<1> HIDE DEF d
<1>8. d.caps \subseteq c.caps /\ \A j \in CapIds : Left(d, j) <= Left(c, j)
  BY <1>4, <1>6, <1>7
<1> QED BY <1>1, <1>6, <1>8, ContextStep DEF c

LEMMA UsageType ==
  ASSUME NEW c, c.auth = NoUsage \/ c.auth \in 0 .. MaxUsage, c.frame \in BOOLEAN,
         NEW usage \in UsageAfter(c)
  PROVE  /\ usage[1] \in Nat \cup {NoUsage} /\ usage[2] \in BOOLEAN
         /\ usage[1] # NoUsage => usage[1] <= MaxUsage
<1>1. /\ \A u \in Usages \cup EarlyUsages : u \in Nat /\ u <= MaxUsage
      /\ c.auth \in Nat \cup {NoUsage} /\ (c.auth # NoUsage => c.auth <= MaxUsage)
  BY NodeAssumption
<1>2. \/ usage = <<c.auth, c.frame>>
      \/ \E u \in Usages \cup EarlyUsages : usage = <<u, TRUE>> \/ usage = <<u, FALSE>>
  BY DEF UsageAfter
<1>3. CASE usage = <<c.auth, c.frame>>
  BY <1>1, <1>3
<1>4. ASSUME NEW u \in Usages \cup EarlyUsages, usage = <<u, TRUE>> \/ usage = <<u, FALSE>>
      PROVE  /\ usage[1] \in Nat \cup {NoUsage} /\ usage[2] \in BOOLEAN
             /\ usage[1] # NoUsage => usage[1] <= MaxUsage
  <2>1. usage[1] = u /\ usage[2] \in BOOLEAN
    <3>1. CASE usage = <<u, TRUE>>
      BY <3>1
    <3>2. CASE usage = <<u, FALSE>>
      BY <3>2
    <3> QED BY <1>4, <3>1, <3>2, Zenon
  <2> QED BY <1>1, <2>1
<1> QED BY <1>2, <1>3, <1>4, Zenon

LEMMA ChunkStep ==
  ASSUME NodeInv, Overruns, NEW r \in Requests, NEW n \in 0 .. MaxChunk,
         NEW usage \in UsageAfter(ctx[r]), NEW wasm \in BOOLEAN, NEW last \in BOOLEAN,
         Chunk(r, n, usage, wasm, last)
  PROVE  NodeInv' /\ Overruns'
<1> DEFINE c == ctx[r]
           cut == c.cut \/ wasm
           est == c.est + n
           auth == usage[1]
           frame == usage[2]
           fed == [c EXCEPT !.est = est, !.auth = auth, !.frame = frame,
                            !.cut = cut, !.last = last]
           delta == Increment(c, est)
           x == [fed EXCEPT !.phase = "charging", !.todo = c.caps, !.now = clock,
                            !.delta = delta, !.metered = est]
<1>1. /\ c.phase = "open" /\ c.tap = "stream"
      /\ UNCHANGED <<ledger, partitioned, config, clock>>
      /\ ctx' = [ctx EXCEPT ![r] = IF Charges(c, cut, est) THEN x ELSE AfterCharge(fed, last)]
  BY DEF Chunk
<1>2. c \in Ctxs /\ Bound0(c) /\ Level(c) /\ clock \in 0 .. MaxClock
  BY <1>1, NodeFacts DEF CtxInv
<1>3. /\ c.est \in Nat /\ c.metered \in Nat /\ c.cut \in BOOLEAN /\ c.frame \in BOOLEAN
      /\ c.caps \in SUBSET CapIds /\ (c.auth = NoUsage \/ c.auth \in 0 .. MaxUsage)
  BY <1>2, Bound0Facts DEF Ctxs
<1>4. /\ auth \in Nat \cup {NoUsage} /\ frame \in BOOLEAN
      /\ auth # NoUsage => auth <= MaxUsage
  BY <1>3, UsageType
<1>5. cut \in BOOLEAN /\ est \in Nat /\ est = c.est + n /\ n <= MaxChunk /\ n \in Nat
      /\ (c.cut => cut)
  BY <1>3, Parameters
<1>6. Charges(c, cut, est) => c.caps # {} /\ ~cut /\ delta = n /\ delta \in Nat
  BY <1>2, <1>3, <1>5 DEF Charges, Increment, Level
<1>7. ~Charges(c, cut, est) /\ ~cut /\ c.caps # {} => c.metered = est
  BY <1>2, <1>3, <1>5 DEF Charges, Level
<1> HIDE DEF c, cut, est, auth, frame, delta
<1>8. /\ fed \in Ctxs /\ fed.caps = c.caps /\ fed.todo = c.todo /\ fed.terms = c.terms
      /\ fed.cut = cut /\ fed.est = est /\ fed.metered = c.metered /\ fed.tap = c.tap
      /\ fed.auth = auth /\ fed.phase = c.phase
  <2>1. c \in Ctxs
    BY <1>2
  <2>2. fed \in Ctxs
    <3> DEFINE metered == [c EXCEPT !.est = est, !.auth = auth, !.frame = frame]
    <3>1. metered \in Ctxs
      BY <2>1, <1>4, <1>5 DEF Ctxs
    <3>2. fed = [metered EXCEPT !.cut = cut, !.last = last]
      OBVIOUS
    <3> HIDE DEF metered, fed
    <3> QED BY <3>1, <3>2, <1>5 DEF Ctxs
  <2>3. /\ fed.caps = c.caps /\ fed.todo = c.todo /\ fed.terms = c.terms
        /\ fed.cut = cut /\ fed.est = est /\ fed.metered = c.metered
    BY <2>1 DEF Ctxs
  <2>4. fed.tap = c.tap /\ fed.auth = auth /\ fed.phase = c.phase
    BY <2>1 DEF Ctxs
  <2> QED BY <2>2, <2>3, <2>4
<1> HIDE DEF fed
<1>9. Bound0(fed)
  BY <1>2, <1>4, <1>8 DEF Bound0
<1>10. \A j : Left(c, j) = LiveLeft(c, j)
  BY <1>1, LiveIsLeft
<1>11. CASE Charges(c, cut, est)
  <2>1. /\ x \in Ctxs /\ x.caps = c.caps /\ x.todo = c.caps /\ x.terms = c.terms
        /\ x.cut = cut /\ x.est = est /\ x.metered = est /\ x.tap = c.tap
        /\ x.auth = auth /\ x.phase = "charging" /\ x.delta = delta
    BY <1>2, <1>3, <1>5, <1>6, <1>8, <1>11 DEF Ctxs, Phases
  <2> HIDE DEF x
  <2>2. Bound0(x)
    BY <1>9, <1>8, <2>1 DEF Bound0
  <2>3. CtxInv(x)
    BY <1>1, <1>3, <1>5, <1>6, <1>11, <2>1, <2>2 DEF CtxInv
  <2>4. x.caps \subseteq c.caps /\ \A j \in CapIds : Left(x, j) <= Left(c, j)
    <3> SUFFICES ASSUME NEW j \in CapIds PROVE Left(x, j) <= Left(c, j)
      BY <2>1
    <3>1. Left(x, j) = LiveLeft(x, j)
      BY <2>1, LiveIsLeft
    <3>2. LiveLeft(x, j) = LiveLeft(c, j)
      BY <1>5, <1>6, <1>11, <2>1 DEF LiveLeft
    <3>3. Left(x, j) \in Nat
      BY <2>1, LeftBounds
    <3> QED BY <1>10, <3>1, <3>2, <3>3
  <2>5. ctx' = [ctx EXCEPT ![r] = x]
    BY <1>1, <1>11
  <2> QED BY <1>1, <2>3, <2>4, <2>5, ContextStep DEF c
<1>12. CASE ~Charges(c, cut, est)
  <2> DEFINE d == AfterCharge(fed, last)
  <2>1. Level(fed)
    BY <1>7, <1>8, <1>12 DEF Level
  <2>2. CtxInv(d) /\ d.caps = fed.caps /\ \A j : Left(d, j) <= LiveLeft(fed, j)
    BY <1>2, <1>9, <2>1, AfterChargeIsFine
  <2>3. ctx' = [ctx EXCEPT ![r] = d]
    BY <1>1, <1>12
  <2> HIDE DEF d
  <2>4. ASSUME NEW j \in CapIds PROVE Left(d, j) <= Left(c, j)
    <3>1. Tail(fed) <= Tail(c) /\ Tail(c) <= PerRequestExcess
          /\ Tail(fed) \in Nat /\ Tail(c) \in Nat /\ PerRequestExcess \in Nat
      <4>1. Tail(c) <= PerRequestExcess /\ Tail(fed) \in Nat /\ Tail(c) \in Nat
        BY <1>2, <1>8, TailBounds
      <4>2. Tail(fed) <= Tail(c)
        BY <1>3, <1>5, <1>8, Parameters DEF Tail, Minus
      <4> QED BY <4>1, <4>2, Parameters
    <3>2. LiveLeft(fed, j) <= LiveLeft(c, j)
      BY <1>5, <1>8, <3>1 DEF LiveLeft
    <3>3. Left(d, j) \in Nat /\ LiveLeft(fed, j) \in Nat /\ LiveLeft(c, j) \in Nat
      <4>1. d \in Ctxs
        BY <2>2, Bound0Facts DEF CtxInv
      <4> QED BY <3>1, <4>1, LeftBounds DEF LiveLeft
    <3> QED BY <1>10, <2>2, <3>2, <3>3
  <2>5. d.caps \subseteq c.caps
    BY <1>8, <2>2
  <2> QED BY <1>1, <2>2, <2>3, <2>4, <2>5, ContextStep DEF c
<1> QED BY <1>11, <1>12

LEMMA ChargeStep ==
  ASSUME NodeInv, Overruns, NEW r \in Requests, NEW i \in CapIds, Charge(r, i)
  PROVE  NodeInv' /\ Overruns'
<1> DEFINE c == ctx[r]
           t == c.terms[i]
           sy == Synced(r, i)
           e == Commit(sy, t, c.delta)
           net == Nets(c, i, 0, c.delta)
           x == [c EXCEPT !.net = net, !.todo = @ \ {i}]
           y == [x EXCEPT !.cut = TRUE]
           d == IF Crosses(e, t, partitioned) THEN AfterCharge(y, c.last)
                ELSE IF c.todo = {i} THEN AfterCharge(x, c.last) ELSE x
<1>1. /\ c.phase = "charging" /\ i \in c.todo /\ ledger' = [ledger EXCEPT ![i] = e]
      /\ ctx' = [ctx EXCEPT ![r] = d]
      /\ UNCHANGED <<partitioned, config, clock>>
  BY DEF Charge, Reaches
<1>2. c \in Ctxs /\ Bound0(c) /\ CtxInv(c) /\ clock \in 0 .. MaxClock
  BY NodeFacts
<1>3. /\ ~c.cut /\ c.tap = "stream" /\ c.metered = c.est /\ c.delta <= MaxChunk
      /\ c.delta <= c.est /\ c.todo \subseteq c.caps
  BY <1>1, <1>2 DEF CtxInv
<1>4. c.est \in Nat /\ c.delta \in Nat /\ c.last \in BOOLEAN /\ c.caps \in SUBSET CapIds
  BY <1>2 DEF Ctxs
<1>5. /\ t \in Terms /\ t.cap \in Nat /\ t.cap <= MaxCap
      /\ sy \in Entries /\ sy.cap <= MaxCap /\ (sy.spent = SpentOn(i) \/ sy.spent = 0)
  BY <1>1, SyncedType
<1> HIDE DEF t, sy
<1>6. e \in Entries /\ e.cap <= MaxCap /\ e.spent = sy.spent + c.delta
  BY <1>4, <1>5, CommitAdds
<1>7. net \in [CapIds -> Int]
  BY <1>2, <1>4, NetsType
<1>8. SpentOn(i) \in Nat /\ sy.spent \in Nat /\ sy.spent <= Highest(i) /\ Highest(i) \in Nat
  <2>1. SpentOn(i) \in Nat
    BY NodeFacts
  <2> QED BY <1>5, <2>1, Parameters DEF Highest
<1> HIDE DEF e, net, c
<1>9. /\ x \in Ctxs /\ x.caps = c.caps /\ x.todo = c.todo \ {i} /\ x.terms = c.terms
      /\ x.cut = c.cut /\ x.est = c.est /\ x.metered = c.metered /\ x.tap = c.tap
      /\ x.auth = c.auth /\ x.phase = c.phase /\ x.delta = c.delta
  BY <1>2, <1>7 DEF Ctxs
<1>10. Bound0(x) /\ CtxInv(x) /\ Level(x)
  <2> HIDE DEF x
  <2>1. Bound0(x)
    BY <1>2, <1>9 DEF Bound0
  <2>2. CtxInv(x)
    BY <1>1, <1>3, <1>9, <2>1 DEF CtxInv
  <2>3. Level(x)
    BY <1>3, <1>9 DEF Level
  <2> QED BY <2>1, <2>2, <2>3
<1>11. \A j : LiveLeft(c, j) = Left(c, j)
  BY <1>1, LiveIsLeft
<1>12. \A j : LiveLeft(x, j) = Left(c, j) /\ Left(x, j) = Left(c, j)
  <2> HIDE DEF x
  <2>1. \A j : LiveLeft(x, j) = LiveLeft(c, j)
    BY <1>9 DEF LiveLeft, Tail
  <2>2. \A j : LiveLeft(x, j) = Left(x, j)
    BY <1>1, <1>9, LiveIsLeft
  <2> QED BY <1>11, <2>1, <2>2
<1>13. Left(c, i) = PerRequestExcess
  BY <1>1, <1>3, <1>11 DEF LiveLeft
<1>14. Tail(c) \in Nat /\ Tail(c) <= PerRequestExcess /\ PerRequestExcess \in Nat
       /\ c.delta + Tail(c) <= PerRequestExcess
  <2>1. Tail(c) \in Nat /\ Tail(c) <= PerRequestExcess
    BY <1>2, TailBounds
  <2>2. Tail(c) = Minus(MaxUsage, c.est)
    BY <1>3 DEF Tail
  <2> QED BY <1>3, <1>4, <2>1, <2>2, Parameters DEF Minus
<1>15. /\ CtxInv(d) /\ d.caps = c.caps
       /\ \A j : Left(d, j) <= Left(c, j)
       /\ e.spent > MaxCap => e.spent + Left(d, i) <= Highest(i) + Left(c, i)
  <2>1. CASE Crosses(e, t, partitioned)
    <3>1. /\ y \in Ctxs /\ y.caps = x.caps /\ y.todo = x.todo /\ y.terms = x.terms
          /\ y.cut /\ y.est = x.est /\ y.tap = x.tap /\ y.auth = x.auth
      <4> HIDE DEF x
      <4> QED BY <1>9 DEF Ctxs
    <3> HIDE DEF x
    <3>2. d = AfterCharge(y, c.last)
      BY <2>1
    <3> HIDE DEF y, d
    <3>3. Bound0(y) /\ Level(y)
      BY <1>10, <3>1 DEF Bound0, Level
    <3>4. CtxInv(d) /\ d.caps = y.caps /\ \A j : Left(d, j) <= LiveLeft(y, j)
      BY <1>2, <1>4, <3>2, <3>3, AfterChargeIsFine
    <3>5. Tail(y) = Tail(c)
      BY <1>9, <3>1 DEF Tail
    <3>6. \A j : LiveLeft(y, j) \in Nat /\ LiveLeft(y, j) <= Left(c, j)
                 /\ LiveLeft(y, j) <= Tail(c)
      BY <1>3, <1>9, <1>11, <1>14, <3>1, <3>5 DEF LiveLeft
    <3>7. \A j : Left(d, j) \in Nat /\ Left(c, j) \in Nat
      <4>1. d \in Ctxs
        BY <3>4, Bound0Facts DEF CtxInv
      <4> QED BY <1>2, <4>1, LeftBounds
    <3>8. \A j : Left(d, j) <= Left(c, j) /\ Left(d, j) <= Tail(c)
      BY <1>14, <3>4, <3>6, <3>7
    <3>9. e.spent + Left(d, i) <= Highest(i) + Left(c, i)
      <4>1. Left(d, i) \in Nat /\ Left(d, i) <= Tail(c)
        BY <3>7, <3>8
      <4> QED BY <1>4, <1>6, <1>8, <1>13, <1>14, <4>1
    <3> QED BY <1>9, <3>1, <3>4, <3>8, <3>9
  <2>2. CASE ~Crosses(e, t, partitioned)
    <3>1. e.spent \in Nat /\ e.spent <= MaxCap
      <4>1. e.spent \in Nat /\ e.share \in Nat
        BY <1>6 DEF Entries
      <4>2. Bound(e, t, partitioned) \in Nat /\ Bound(e, t, partitioned) <= t.cap
        BY <1>5, <4>1 DEF Bound, AtMost
      <4>3. e.spent <= Bound(e, t, partitioned)
        BY <2>2, <4>1, <4>2 DEF Crosses
      <4> QED BY <1>5, <4>1, <4>2, <4>3, Parameters
    <3>2. d = AfterCharge(x, c.last) \/ d = x
      BY <2>2
    <3> HIDE DEF x, d
    <3>3. CtxInv(d) /\ d.caps = c.caps /\ \A j : Left(d, j) <= Left(c, j)
      <4>1. \A j : Left(c, j) \in Nat
        BY <1>2, LeftBounds
      <4>2. CASE d = x
        BY <1>9, <1>10, <1>12, <4>1, <4>2
      <4>3. CASE d = AfterCharge(x, c.last)
        <5>1. CtxInv(d) /\ d.caps = x.caps /\ \A j : Left(d, j) <= LiveLeft(x, j)
          BY <1>2, <1>4, <1>10, <4>3, AfterChargeIsFine
        <5> QED BY <1>9, <1>12, <5>1
      <4> QED BY <3>2, <4>2, <4>3
    <3> QED BY <3>1, <3>3, Parameters
  <2> QED BY <2>1, <2>2
<1> HIDE DEF d, x
<1>16. d.caps \subseteq c.caps \cup {i} /\ \A j \in CapIds \ {i} : Left(d, j) <= Left(c, j)
  BY <1>15
<1> QED BY <1>1, <1>6, <1>15, <1>16, LedgerStep DEF c

LEMMA SettleStep ==
  ASSUME NodeInv, Overruns, NEW r \in Requests, NEW i \in CapIds, Settle(r, i)
  PROVE  NodeInv' /\ Overruns'
<1> DEFINE c == ctx[r]
           e == Settled(r, i)
           p == IF c.todo = {i} THEN "settled" ELSE c.phase
           net == Nets(c, i, Settling(r, i), e.spent)
           d == [c EXCEPT !.net = net, !.todo = @ \ {i}, !.phase = p]
           l == ledger[i]
           sy == Synced(r, i)
           ro == Roll(l, c.now)
<1>1. /\ c.phase = "settling" /\ i \in c.todo /\ ledger' = [ledger EXCEPT ![i] = e]
      /\ UNCHANGED <<partitioned, config, clock>>
  BY DEF Settle, Reaches
<1>2. ctx' = [ctx EXCEPT ![r] = d]
  BY DEF Settle, NodeInv, TypeOK
<1>3. c \in Ctxs /\ Bound0(c) /\ CtxInv(c) /\ c.todo \subseteq c.caps
  BY <1>1, NodeFacts DEF CtxInv
<1>4. c.est \in Nat /\ c.now \in Nat /\ (c.auth = NoUsage \/ c.auth \in 0 .. MaxUsage)
  BY <1>3, Bound0Facts
<1>5. l \in Entries /\ l.cap <= MaxCap /\ l.spent = SpentOn(i)
  <2>1. l # NoEntry
    BY <1>1, <1>3 DEF NodeInv, EntryInv
  <2> QED BY <2>1, NodeFacts DEF NodeInv, EntryInv
<1>6. c.terms[i] \in Terms /\ sy \in Entries /\ sy.cap <= MaxCap
      /\ (sy.spent = SpentOn(i) \/ sy.spent = 0)
  BY <1>1, SyncedType
<1>7. ro \in Entries /\ ro.cap <= MaxCap /\ (ro.spent = SpentOn(i) \/ ro.spent = 0)
  BY <1>4, <1>5, RollResets DEF Resets
<1>8. /\ SpentOn(i) \in Nat /\ Highest(i) \in Nat /\ SpentOn(i) <= Highest(i)
      /\ sy.spent \in Nat /\ ro.spent \in Nat /\ sy.spent <= Highest(i) /\ ro.spent <= Highest(i)
  <2>1. SpentOn(i) \in Nat
    BY NodeFacts
  <2> QED BY <1>6, <1>7, <2>1, Parameters DEF Highest
<1>9. /\ Tail(c) \in Nat
      /\ c.auth # NoUsage /\ c.tap = "json" => c.auth \in Nat /\ c.auth <= Tail(c)
      /\ c.auth # NoUsage /\ c.tap # "json" => c.auth \in Nat /\ Minus(c.auth, c.est) <= Tail(c)
  BY <1>3, <1>4, TailBounds
<1>10. /\ e \in Entries /\ e.cap <= MaxCap /\ e.spent <= Highest(i) + Tail(c)
       /\ Settling(r, i) \in Int
  <2>1. CASE c.auth = NoUsage
    <3>1. e = l /\ Settling(r, i) = l.spent
      BY <2>1 DEF Settled, Settling
    <3> HIDE DEF e, l
    <3> QED BY <1>5, <1>8, <1>9, <3>1
  <2>2. CASE c.auth # NoUsage /\ c.tap = "json"
    <3>1. e = Commit(sy, c.terms[i], c.auth) /\ Settling(r, i) = sy.spent
      BY <2>2 DEF Settled, Settling
    <3> HIDE DEF e, c, sy
    <3>2. e \in Entries /\ e.cap = sy.cap /\ e.spent = sy.spent + c.auth
      BY <1>6, <1>9, <2>2, <3>1, CommitAdds
    <3> QED BY <1>6, <1>8, <1>9, <2>2, <3>1, <3>2
  <2>3. CASE c.auth # NoUsage /\ c.tap # "json"
    <3>1. e = Reconcile(ro, c.est, c.auth) /\ Settling(r, i) = ro.spent
      BY <2>3 DEF Settled, Settling
    <3> HIDE DEF e, c, ro
    <3>2. e \in Entries /\ e.cap = ro.cap /\ e.spent <= ro.spent + Minus(c.auth, c.est)
      BY <1>4, <1>7, <1>9, <2>3, <3>1, ReconcileAdds
    <3>3. e.spent \in Nat /\ Minus(c.auth, c.est) \in Nat
      BY <1>4, <1>9, <2>3, <3>2 DEF Entries, Minus
    <3> QED BY <1>7, <1>8, <1>9, <2>3, <3>1, <3>2, <3>3
  <2> QED BY <2>1, <2>2, <2>3
<1>11. e.spent \in Nat
  BY <1>10 DEF Entries
<1> HIDE DEF e
<1>12. net \in [CapIds -> Int]
  BY <1>3, <1>10, <1>11, NetsType
<1>13. p \in {"settled", "settling"} /\ (p = "settled" \/ p = c.phase)
  BY <1>1
<1> HIDE DEF net, p, c
<1>14. /\ d \in Ctxs /\ d.terms = c.terms /\ d.todo = c.todo \ {i} /\ d.phase = p
       /\ d.cut = c.cut /\ d.est = c.est /\ d.tap = c.tap
       /\ d.caps = c.caps /\ d.auth = c.auth
  BY <1>3, <1>12, <1>13 DEF Ctxs, Phases
<1> HIDE DEF d
<1>15. Bound0(d)
  BY <1>3, <1>14 DEF Bound0
<1>16. CtxInv(d)
  BY <1>3, <1>13, <1>14, <1>15 DEF CtxInv
<1>17. Left(d, i) = 0 /\ Left(c, i) = Tail(c)
  <2>1. i \in c.caps /\ i \notin d.todo
    BY <1>1, <1>3, <1>14
  <2> QED BY <1>1, <1>13, <1>14, <2>1, LeftCases
<1>18. ASSUME NEW j \in CapIds \ {i} PROVE Left(d, j) <= Left(c, j)
  <2>1. Tail(d) = Tail(c)
    BY <1>14 DEF Tail
  <2>2. Left(d, j) = 0 \/ Left(d, j) = Left(c, j)
    BY <1>1, <1>13, <1>14, <2>1, LeftCases
  <2>3. Left(c, j) \in Nat
    BY <1>3, LeftBounds
  <2> QED BY <2>2, <2>3
<1>19. e.spent + Left(d, i) <= Highest(i) + Left(c, i)
  BY <1>8, <1>9, <1>10, <1>11, <1>17
<1>20. d.caps \subseteq c.caps \cup {i}
  BY <1>14
<1> QED BY <1>1, <1>2, <1>10, <1>16, <1>18, <1>19, <1>20, LedgerStep DEF c

(***************************************************************************)
(* The control-plane client, the operator and the clock: they never raise a  *)
(* counter.                                                                 *)
(***************************************************************************)
LEMMA CalmStep ==
  ASSUME NodeInv, Overruns, ctx' = ctx,
         partitioned' \in BOOLEAN, config' \in Configs, clock' \in 0 .. MaxClock,
         ledger' \in [CapIds -> Entries \cup {NoEntry}],
         \A i \in CapIds : ledger'[i] # NoEntry => ledger'[i].cap <= MaxCap,
         \A i \in CapIds : ledger[i] # NoEntry => ledger'[i] # NoEntry,
         \A i \in CapIds : SpentOn(i)' = SpentOn(i) \/ SpentOn(i)' = 0
  PROVE  NodeInv' /\ Overruns'
<1>1. TypeOK'
  BY DEF NodeInv, TypeOK
<1>2. \A m \in Requests : CtxInv(ctx'[m])
  BY DEF NodeInv
<1>3. EntryInv'
  <2>1. ASSUME NEW m \in Requests, NEW j \in ctx'[m].caps PROVE ledger'[j] # NoEntry
    <3>1. j \in CapIds /\ ledger[j] # NoEntry
      BY DEF NodeInv, TypeOK, EntryInv, Ctxs
    <3> QED BY <3>1
  <2> QED BY <2>1 DEF EntryInv
<1>4. NodeInv'
  BY <1>1, <1>2, <1>3 DEF NodeInv
<1>5. ASSUME NEW i \in CapIds PROVE OverrunFits(i)'
  <2>1. SpentOn(i)' > MaxCap => SpentOn(i)' = SpentOn(i)
    BY Parameters
  <2>2. Lefts(i)' = Lefts(i)
    BY DEF Lefts
  <2>3. OverrunFits(i)
    BY DEF Overruns
  <2> QED BY <2>1, <2>2, <2>3 DEF OverrunFits
<1> QED BY <1>4, <1>5 DEF Overruns

LEMMA GrantStep ==
  ASSUME NodeInv, Overruns, NEW i \in CapIds, NEW c \in Configs, NEW share \in Shares,
         c[i] # Uncapped, Grant(i, c[i].cap, share)
  PROVE  NodeInv' /\ Overruns'
<1> DEFINE en == Ensure(i, c[i].cap)
           e == [en EXCEPT !.share = share]
<1>1. ledger' = [ledger EXCEPT ![i] = e] /\ UNCHANGED <<partitioned, config, clock, ctx>>
  BY DEF Grant
<1>2. c[i] \in Terms /\ c[i].cap \in Nat /\ c[i].cap <= MaxCap /\ share \in Nat
  <2>1. c[i] \in Terms /\ c[i].cap <= MaxCap /\ share \in Nat
    BY NodeAssumption
  <2> QED BY <2>1 DEF Terms
<1>3. en \in Entries /\ en.cap <= MaxCap /\ en.spent = SpentOn(i)
  <2>1. CASE ledger[i] = NoEntry
    BY <1>2, <2>1, NewEntryType DEF Ensure, SpentOn
  <2>2. CASE ledger[i] # NoEntry
    BY <2>2, NodeFacts DEF Ensure, NodeInv, EntryInv
  <2> QED BY <2>1, <2>2
<1> HIDE DEF en
<1>4. e \in Entries /\ e.cap <= MaxCap /\ e.spent = SpentOn(i) /\ e # NoEntry
  <2>1. e \in Entries /\ e.cap <= MaxCap /\ e.spent = SpentOn(i)
    BY <1>2, <1>3 DEF Entries
  <2> QED BY <2>1, Parameters
<1> HIDE DEF e
<1>5. /\ ledger \in [CapIds -> Entries \cup {NoEntry}]
      /\ partitioned \in BOOLEAN /\ config \in Configs /\ clock \in 0 .. MaxClock
  BY DEF NodeInv, TypeOK
<1>6. /\ ledger' \in [CapIds -> Entries \cup {NoEntry}] /\ ledger'[i] = e
      /\ \A j \in CapIds \ {i} : ledger'[j] = ledger[j]
  BY <1>1, <1>4, <1>5
<1>7. /\ \A j \in CapIds : ledger'[j] # NoEntry => ledger'[j].cap <= MaxCap
      /\ \A j \in CapIds : ledger[j] # NoEntry => ledger'[j] # NoEntry
  BY <1>4, <1>6 DEF NodeInv, EntryInv
<1>8. \A j \in CapIds : SpentOn(j)' = SpentOn(j)
  BY <1>4, <1>6 DEF SpentOn
<1> QED BY <1>1, <1>5, <1>6, <1>7, <1>8, CalmStep

LEMMA ReportStep ==
  ASSUME NodeInv, Overruns, Report
  PROVE  NodeInv' /\ Overruns'
<1>1. /\ \A i \in CapIds : ledger'[i] = IF ledger[i] = NoEntry THEN NoEntry
                                         ELSE Roll(ledger[i], clock)
      /\ ledger' = [i \in CapIds |-> ledger'[i]]
      /\ UNCHANGED <<partitioned, config, clock, ctx>>
  BY DEF Report
<1>2. ASSUME NEW i \in CapIds, ledger[i] # NoEntry
      PROVE  /\ ledger'[i] \in Entries /\ ledger'[i] # NoEntry /\ ledger'[i].cap <= MaxCap
             /\ ledger'[i].spent = ledger[i].spent \/ ledger'[i].spent = 0
  <2>1. ledger[i] \in Entries /\ ledger[i].cap <= MaxCap /\ clock \in Nat
    BY <1>2, NodeFacts DEF NodeInv, EntryInv
  <2>2. Resets(ledger[i], Roll(ledger[i], clock))
    BY <2>1, RollResets
  <2>3. ledger'[i] = Roll(ledger[i], clock)
    BY <1>1, <1>2
  <2> QED BY <2>1, <2>2, <2>3, Parameters DEF Resets
<1>3. ledger' \in [CapIds -> Entries \cup {NoEntry}]
  BY <1>1, <1>2
<1>4. \A i \in CapIds : SpentOn(i)' = SpentOn(i) \/ SpentOn(i)' = 0
  BY <1>1, <1>2 DEF SpentOn
<1>5. /\ \A i \in CapIds : ledger'[i] # NoEntry => ledger'[i].cap <= MaxCap
      /\ \A i \in CapIds : ledger[i] # NoEntry => ledger'[i] # NoEntry
  BY <1>1, <1>2
<1>6. partitioned \in BOOLEAN /\ config \in Configs /\ clock \in 0 .. MaxClock
  BY DEF NodeInv, TypeOK
<1> QED BY <1>1, <1>3, <1>4, <1>5, <1>6, CalmStep

LEMMA QuietStep ==
  ASSUME NodeInv, Overruns, UNCHANGED <<ledger, ctx>>,
         partitioned' \in BOOLEAN, config' \in Configs, clock' \in 0 .. MaxClock
  PROVE  NodeInv' /\ Overruns'
<1>1. /\ ledger' \in [CapIds -> Entries \cup {NoEntry}]
      /\ \A i \in CapIds : ledger'[i] # NoEntry => ledger'[i].cap <= MaxCap
      /\ \A i \in CapIds : ledger[i] # NoEntry => ledger'[i] # NoEntry
      /\ \A i \in CapIds : SpentOn(i)' = SpentOn(i)
  BY DEF NodeInv, TypeOK, EntryInv, SpentOn
<1> QED BY <1>1, CalmStep

LEMMA EnvironmentStep ==
  ASSUME NodeInv, Overruns, Environment
  PROVE  NodeInv' /\ Overruns'
<1>1. partitioned \in BOOLEAN /\ config \in Configs /\ clock \in 0 .. MaxClock
  BY DEF NodeInv, TypeOK
<1>2. ASSUME NEW i \in CapIds, NEW c \in Configs, NEW share \in Shares,
             c[i] # Uncapped /\ Grant(i, c[i].cap, share)
      PROVE  NodeInv' /\ Overruns'
  BY <1>2, GrantStep
<1>3. CASE FlipPartition
  <2>1. UNCHANGED <<ledger, ctx, config, clock>> /\ partitioned' \in BOOLEAN
    BY <1>1, <1>3 DEF FlipPartition
  <2> QED BY <1>1, <2>1, QuietStep
<1>4. CASE Report
  BY <1>4, ReportStep
<1>5. ASSUME NEW c \in Configs, SwapConfig(c) PROVE NodeInv' /\ Overruns'
  <2>1. UNCHANGED <<ledger, ctx, partitioned, clock>> /\ config' \in Configs
    BY <1>5 DEF SwapConfig
  <2> QED BY <1>1, <2>1, QuietStep
<1>6. CASE Tick
  <2>1. UNCHANGED <<ledger, ctx, partitioned, config>> /\ clock' \in 0 .. MaxClock
    BY <1>1, <1>6, Parameters DEF Tick
  <2> QED BY <1>1, <2>1, QuietStep
<1> QED BY <1>2, <1>3, <1>4, <1>5, <1>6, Zenon DEF Environment

(***************************************************************************)
(* The theorems.                                                            *)
(***************************************************************************)
LEMMA InitNode == Init => NodeInv /\ Overruns
<1> SUFFICES ASSUME Init PROVE NodeInv /\ Overruns
  OBVIOUS
<1>1. /\ \A r \in Requests : ctx[r] = IdleCtx
      /\ ctx = [r \in Requests |-> ctx[r]]
      /\ \A i \in CapIds : ledger[i] = NoEntry
      /\ ledger = [i \in CapIds |-> ledger[i]]
      /\ partitioned \in BOOLEAN /\ config \in Configs /\ clock = 0
  BY DEF Init
<1>2. CtxInv(IdleCtx) /\ IdleCtx \in Ctxs /\ IdleCtx.caps = {}
  BY IdleIsFine DEF CtxInv, Bound0
<1>3. TypeOK
  BY <1>1, <1>2, Parameters DEF TypeOK
<1>4. EntryInv
  BY <1>1, <1>2 DEF EntryInv
<1>5. NodeInv
  BY <1>1, <1>2, <1>3, <1>4 DEF NodeInv
<1>6. Overruns
  BY <1>1, Parameters DEF Overruns, OverrunFits, SpentOn
<1> QED BY <1>5, <1>6

LEMMA RequestStep ==
  ASSUME NodeInv, Overruns, NEW r \in Requests, Admission(r) \/ Stream(r)
  PROVE  NodeInv' /\ Overruns'
<1>1. CASE Admission(r)
  BY <1>1, ArriveStep, AdmitStep, RefuseStep, GateRefusesStep, ResponseHeadStep, Zenon
     DEF Admission
<1>2. CASE Stream(r)
  <2>1. ASSUME NEW n \in 0 .. MaxChunk, NEW usage \in UsageAfter(ctx[r]),
               NEW last \in BOOLEAN, NEW wasm \in {FALSE, WasmCuts},
               Chunk(r, n, usage, wasm, last)
        PROVE  NodeInv' /\ Overruns'
    <3>1. wasm \in BOOLEAN
      BY NodeAssumption
    <3> QED BY <2>1, <3>1, ChunkStep
  <2> QED BY <1>2, <2>1, ChargeStep, AbortStep, JsonEndsStep, SettleStep, GateRefusesStep, Zenon
          DEF Stream
<1> QED BY <1>1, <1>2

LEMMA NodeStep == NodeInv /\ Overruns /\ [Next]_vars => NodeInv' /\ Overruns'
<1> SUFFICES ASSUME NodeInv, Overruns, [Next]_vars PROVE NodeInv' /\ Overruns'
  OBVIOUS
<1>1. CASE \E r \in Requests : Admission(r) \/ Stream(r)
  BY <1>1, RequestStep
<1>2. CASE Environment
  BY <1>2, EnvironmentStep
<1>3. CASE UNCHANGED vars
  <2>1. UNCHANGED <<ledger, ctx>> /\ partitioned' \in BOOLEAN /\ config' \in Configs
        /\ clock' \in 0 .. MaxClock
    BY <1>3 DEF vars, NodeInv, TypeOK
  <2> QED BY <2>1, QuietStep
<1> QED BY <1>1, <1>2, <1>3, Zenon DEF Next

LEMMA NodeInvariant == Spec => [](NodeInv /\ Overruns)
<1>1. Init => NodeInv /\ Overruns
  BY InitNode
<1>2. NodeInv /\ Overruns /\ [Next]_vars => (NodeInv /\ Overruns)'
  BY NodeStep
<1> QED BY <1>1, <1>2, PTL DEF Spec

(***************************************************************************)
(* Type correctness: among the rest, no counter, estimate or charge is ever  *)
(* negative, whatever settling takes back.                                   *)
(***************************************************************************)
THEOREM NodeTypesHold == Spec => []TypeOK
<1>1. NodeInv /\ Overruns => TypeOK
  BY DEF NodeInv
<1> QED BY <1>1, NodeInvariant, PTL

(***************************************************************************)
(* The published bound on overspend: a counter passes the largest cap by at  *)
(* most one chunk, or one usage frame if that is larger, per request slot.   *)
(***************************************************************************)
THEOREM OvershootIsBounded == Spec => []OvershootBounded
<1>1. ASSUME NodeInv, Overruns PROVE OvershootBounded
  <2> SUFFICES ASSUME NEW i \in CapIds, ledger[i] # NoEntry
               PROVE  ledger[i].spent <= MaxCap + Cardinality(Requests) * PerRequestExcess
    BY DEF OvershootBounded
  <2> DEFINE x == SpentOn(i)
             a == SumOver(Lefts(i), Requests)[Requests]
             b == Cardinality(Requests) * PerRequestExcess
  <2>1. x \in Nat /\ ledger[i].spent = x
    BY <1>1, NodeFacts
  <2>2. a \in Nat
    <3>1. Lefts(i) \in [Requests -> Nat]
      BY <1>1, LeftsType DEF Lefts
    <3>2. IsFiniteSet(Requests) /\ Requests \in SUBSET Requests
      BY NodeAssumption
    <3> QED BY <3>1, <3>2, SumNat
  <2>3. b \in Nat /\ MaxCap \in Nat
    <3>1. Cardinality(Requests) \in Nat /\ PerRequestExcess \in Nat /\ MaxCap \in Nat
      BY NodeAssumption, Parameters, FS_CardinalityType
    <3> QED BY <3>1
  <2>4. x > MaxCap => x + a <= MaxCap + b
    BY <1>1 DEF Overruns, OverrunFits
  <2> HIDE DEF x, a, b
  <2>5. x <= MaxCap + b
    BY <2>1, <2>2, <2>3, <2>4
  <2> QED BY <2>1, <2>5, Zenon DEF b
<1> QED BY <1>1, NodeInvariant, PTL

-----------------------------------------------------------------------------
(***************************************************************************)
(* Billing. What counter i owes to a request at each point of its life, and   *)
(* that every counter holds at least what it owes to the requests in flight:  *)
(* this is what keeps a settlement's subtraction from saturating.             *)
(***************************************************************************)
BillStands(c, i) == c.phase = "settled" \/ (c.phase = "settling" /\ i \notin c.todo)

Owed(c, i) ==
  IF i \notin c.caps THEN 0
  ELSE IF BillStands(c, i) THEN BillOf(c)
  ELSE IF c.phase = "charging" /\ i \in c.todo THEN c.est - c.delta ELSE c.est

BillCtx(c) ==
  /\ \A i \in CapIds : c.net[i] = Owed(c, i)
  /\ c.tap = "json" => c.est = 0
  /\ \A i \in CapIds : c.terms[i] # Uncapped => c.terms[i].window = "lifetime"

NetsOn(i) == [r \in Requests |-> ctx[r].net[i]]

Covers(i) == SumOver(NetsOn(i), Requests)[Requests] <= SpentOn(i)

NeverRolls(e) == e.window = "lifetime" /\ e.wid = 0

LedgerNeverRolls == \A i \in CapIds : ledger[i] # NoEntry => NeverRolls(ledger[i])

BillInv ==
  /\ \A r \in Requests : BillCtx(ctx[r])
  /\ \A i \in CapIds : Covers(i)
  /\ LedgerNeverRolls

LEMMA OwedNat ==
  ASSUME NEW c \in Ctxs, CtxInv(c), NEW i \in CapIds
  PROVE  Owed(c, i) \in Nat
<1>1. c.est \in Nat /\ c.delta \in Nat /\ (c.auth = NoUsage \/ c.auth \in Nat)
  BY DEF Ctxs
<1>2. BillOf(c) \in Nat
  BY <1>1 DEF BillOf
<1>3. c.phase = "charging" => c.est - c.delta \in Nat
  BY <1>1 DEF CtxInv
<1> QED BY <1>1, <1>2, <1>3 DEF Owed

\* A lifetime entry stays the one it is, whatever the clock.
LEMMA LifetimeRolls ==
  ASSUME NEW e, NeverRolls(e), NEW now
  PROVE  Roll(e, now) = e
<1>1. IdAt("lifetime", now) = 0
  BY DEF IdAt
<1> QED BY <1>1 DEF Roll, NeverRolls

LEMMA LifetimeEntries ==
  ASSUME NEW e \in Entries, NeverRolls(e)
  PROVE  /\ \A t \in Terms : \A n \in Nat : NeverRolls(Commit(e, t, n))
         /\ \A est \in Nat : \A auth \in Nat : NeverRolls(Reconcile(e, est, auth))
         /\ \A share \in Nat : NeverRolls([e EXCEPT !.share = share])
  BY DEF Commit, Reconcile, NeverRolls, Entries

LEMMA LifetimeEnsured ==
  ASSUME NodeInv, LedgerNeverRolls, NEW i \in CapIds, NEW cap \in Nat
  PROVE  /\ Ensure(i, cap) \in Entries /\ NeverRolls(Ensure(i, cap))
         /\ Ensure(i, cap).spent = SpentOn(i)
<1>1. CASE ledger[i] = NoEntry
  <2>1. NeverRolls(NewEntry(cap))
    BY DEF NeverRolls, NewEntry
  <2> QED BY <1>1, <2>1, NewEntryType DEF Ensure, SpentOn
<1>2. CASE ledger[i] # NoEntry
  BY <1>2, NodeFacts DEF Ensure, LedgerNeverRolls
<1> QED BY <1>1, <1>2

\* Under lifetime terms the entry a loop finds is the one in the ledger.
LEMMA LifetimeSynced ==
  ASSUME NodeInv, BillInv, NEW r \in Requests, NEW i \in ctx[r].caps \cup ctx[r].todo
  PROVE  /\ i \in CapIds /\ ctx[r].terms[i] \in Terms
         /\ Synced(r, i) \in Entries /\ NeverRolls(Synced(r, i))
         /\ Synced(r, i).spent = SpentOn(i)
<1> DEFINE t == ctx[r].terms[i]
           en == Ensure(i, t.cap)
<1>1. i \in CapIds /\ t \in Terms /\ t # Uncapped
  BY NodeFacts, Bound0Facts, Parameters
<1>2. t.cap \in Nat /\ t.window = "lifetime"
  BY <1>1 DEF BillInv, BillCtx, Terms
<1>3. en \in Entries /\ NeverRolls(en) /\ en.spent = SpentOn(i)
  BY <1>1, <1>2, LifetimeEnsured DEF BillInv
<1>4. Synced(r, i) = SyncTerms(en, t, ctx[r].now)
  BY DEF Synced
<1> HIDE DEF t, en
<1>5. Synced(r, i) = en
  BY <1>2, <1>3, <1>4, LifetimeRolls DEF SyncTerms, NeverRolls
<1> QED BY <1>1, <1>3, <1>5 DEF t

(***************************************************************************)
(* A step of one request keeps the books when its context stays in order and *)
(* each counter moves at least as far as what it owes.                       *)
(***************************************************************************)
LEMMA CoversStep ==
  ASSUME NodeInv, NodeInv', NEW r \in Requests, NEW i \in CapIds, Covers(i),
         \A m \in Requests \ {r} : ctx'[m] = ctx[m],
         ctx'[r].net[i] - ctx[r].net[i] <= SpentOn(i)' - SpentOn(i)
  PROVE  Covers(i)'
<1> DEFINE f == NetsOn(i)
           h == NetsOn(i)'
           a == SumOver(f, Requests)[Requests]
           b == SumOver(h, Requests)[Requests]
           x == SpentOn(i)
           y == SpentOn(i)'
<1>1. x \in Nat /\ y \in Nat
  <2>1. ledger'[i] # NoEntry => ledger'[i] \in Entries
    BY DEF NodeInv, TypeOK
  <2> QED BY <2>1, NodeFacts DEF SpentOn, Entries
<1>2. /\ \A m \in Requests : ctx[m].net[i] \in Int /\ ctx'[m].net[i] \in Int
      /\ IsFiniteSet(Requests) /\ Requests \in SUBSET Requests
  BY NodeAssumption DEF NodeInv, TypeOK, Ctxs
<1>3. /\ f \in [Requests -> Int] /\ h \in [Requests -> Int]
      /\ \A m \in Requests : f[m] = ctx[m].net[i] /\ h[m] = ctx'[m].net[i]
  BY <1>2 DEF NetsOn
<1>4. \A m \in Requests \ {r} : h[m] = f[m]
  BY <1>3
<1>5. h[r] - f[r] <= y - x
  BY <1>3
<1>6. a <= x
  BY DEF Covers
<1> HIDE DEF f, h, x, y
<1>7. a \in Int /\ b = a + (h[r] - f[r])
  <2>1. a \in Int
    BY <1>2, <1>3, SumOverIsSum DEF IsSum
  <2>2. b = a + (h[r] - f[r])
    BY <1>2, <1>3, <1>4, SumChange
  <2> QED BY <2>1, <2>2
<1>8. h[r] \in Int /\ f[r] \in Int
  BY <1>3
<1> HIDE DEF a, b
<1>9. b <= y
  BY <1>1, <1>5, <1>6, <1>7, <1>8
<1> QED BY <1>9 DEF Covers, b, h, y

LEMMA BillStep ==
  ASSUME NodeInv, NodeInv', BillInv, NEW r \in Requests, NEW d, BillCtx(d),
         ctx' = [ctx EXCEPT ![r] = d], LedgerNeverRolls',
         \A i \in CapIds : d.net[i] - ctx[r].net[i] <= SpentOn(i)' - SpentOn(i)
  PROVE  BillInv'
<1>1. ctx'[r] = d /\ \A m \in Requests \ {r} : ctx'[m] = ctx[m]
  BY DEF NodeInv, TypeOK
<1>2. \A m \in Requests : BillCtx(ctx'[m])
  BY <1>1 DEF BillInv
<1>3. \A i \in CapIds : Covers(i)'
  BY <1>1, CoversStep DEF BillInv
<1> QED BY <1>2, <1>3 DEF BillInv

\* A step that leaves the ledger alone and bills nothing new.
LEMMA QuietBillStep ==
  ASSUME NodeInv, NodeInv', BillInv, NEW r \in Requests, NEW d, BillCtx(d),
         ctx' = [ctx EXCEPT ![r] = d], ledger' = ledger,
         \A i \in CapIds : d.net[i] <= ctx[r].net[i]
  PROVE  BillInv'
<1>1. ctx' \in [Requests -> Ctxs] /\ ctx'[r] = d /\ ctx[r] \in Ctxs /\ d \in Ctxs
  BY DEF NodeInv, TypeOK
<1>2. LedgerNeverRolls' /\ \A i \in CapIds : SpentOn(i)' = SpentOn(i) /\ SpentOn(i) \in Nat
  BY NodeFacts DEF BillInv, LedgerNeverRolls, SpentOn
<1>3. \A i \in CapIds : d.net[i] \in Int /\ ctx[r].net[i] \in Int
  BY <1>1 DEF Ctxs
<1>4. \A i \in CapIds : d.net[i] - ctx[r].net[i] <= SpentOn(i)' - SpentOn(i)
  BY <1>2, <1>3
<1> QED BY <1>2, <1>4, BillStep

\* What the loops leave behind owes the estimate, until settling reaches it.
LEMMA AfterChargeBills ==
  ASSUME NEW c \in Ctxs, NEW last \in BOOLEAN,
         \A i \in CapIds : c.net[i] = IF i \in c.caps THEN c.est ELSE 0,
         c.tap = "json" => c.est = 0,
         \A i \in CapIds : c.terms[i] # Uncapped => c.terms[i].window = "lifetime"
  PROVE  BillCtx(AfterCharge(c, last)) /\ AfterCharge(c, last).net = c.net
<1> DEFINE d == AfterCharge(c, last)
<1>1. /\ d.caps = c.caps /\ d.terms = c.terms /\ d.est = c.est /\ d.tap = c.tap
      /\ d.net = c.net
      /\ \/ d.phase = "open"
         \/ d.phase = "settled" /\ c.caps = {}
         \/ d.phase = "settling" /\ d.todo = c.caps
  <2>1. CASE ~last
    <3>1. d = [c EXCEPT !.phase = "open", !.todo = {}, !.now = 0, !.delta = 0]
      BY <2>1 DEF AfterCharge
    <3> HIDE DEF d
    <3> QED BY <3>1 DEF Ctxs
  <2>2. CASE last
    <3> DEFINE p == IF c.caps = {} THEN "settled" ELSE "settling"
    <3>1. d = [c EXCEPT !.phase = p, !.todo = c.caps, !.now = clock, !.delta = 0]
      BY <2>2 DEF AfterCharge
    <3>2. (p = "settled" /\ c.caps = {}) \/ p = "settling"
      OBVIOUS
    <3> HIDE DEF d, p
    <3> QED BY <3>1, <3>2 DEF Ctxs
  <2> QED BY <2>1, <2>2
<1> HIDE DEF d
<1>2. \A i \in CapIds : Owed(d, i) = IF i \in c.caps THEN c.est ELSE 0
  BY <1>1 DEF Owed, BillStands
<1>3. BillCtx(d)
  BY <1>1, <1>2 DEF BillCtx
<1> QED BY <1>1, <1>3 DEF d

\* A live request that is not charging owes its whole estimate everywhere.
LEMMA LiveOwes ==
  ASSUME NEW c, BillCtx(c), c.phase \in {"admitting", "admitted", "open"}
  PROVE  \A i \in CapIds : c.net[i] = IF i \in c.caps THEN c.est ELSE 0
  BY DEF BillCtx, Owed, BillStands

LEMMA NetsNat ==
  ASSUME NodeInv, BillInv, NEW r \in Requests
  PROVE  \A i \in CapIds : ctx[r].net[i] = Owed(ctx[r], i) /\ ctx[r].net[i] \in Nat
  BY NodeFacts, OwedNat DEF BillInv, BillCtx

\* An empty slot owes nothing.
LEMMA IdleBillStep ==
  ASSUME NodeInv, NodeInv', BillInv, NEW r \in Requests, ledger' = ledger,
         NEW d, d.caps = {}, d.phase # "settled", d.est = 0, d.net = [i \in CapIds |-> 0],
         \A i \in CapIds : d.terms[i] # Uncapped => d.terms[i].window = "lifetime",
         ctx' = [ctx EXCEPT ![r] = d]
  PROVE  BillInv'
<1>1. BillCtx(d)
  BY DEF BillCtx, Owed
<1>2. \A i \in CapIds : d.net[i] <= ctx[r].net[i]
  BY NetsNat
<1> QED BY <1>1, <1>2, QuietBillStep

LEMMA IdleOwesNothing ==
  /\ IdleCtx.caps = {} /\ IdleCtx.phase # "settled" /\ IdleCtx.est = 0
  /\ IdleCtx.net = [i \in CapIds |-> 0]
  /\ \A i \in CapIds : IdleCtx.terms[i] # Uncapped => IdleCtx.terms[i].window = "lifetime"
  BY DEF IdleCtx, NoTerms

LEMMA ArriveBills ==
  ASSUME NodeInv, NodeInv', BillInv, LifetimeOnly, NEW r \in Requests,
         NEW S \in SUBSET CapIds, Arrive(r, S)
  PROVE  BillInv'
<1> DEFINE capped == {i \in S : config[i] # Uncapped}
           p == IF capped = {} THEN "admitted" ELSE "admitting"
           d == [IdleCtx EXCEPT !.terms = config, !.phase = p, !.todo = capped, !.now = clock]
<1>1. ctx' = [ctx EXCEPT ![r] = d] /\ ledger' = ledger
  BY DEF Arrive
<1>2. \A i \in CapIds : config[i] # Uncapped => config[i].window = "lifetime"
  BY DEF LifetimeOnly, NodeInv, TypeOK
<1>3. p # "settled"
  OBVIOUS
<1> HIDE DEF capped, p
<1>4. /\ d.caps = {} /\ d.phase # "settled" /\ d.est = 0 /\ d.net = [i \in CapIds |-> 0]
      /\ d.terms = config
  BY <1>3 DEF IdleCtx
<1> HIDE DEF d
<1> QED BY <1>1, <1>2, <1>4, IdleBillStep

\* Admitting, or refusing, leaves every counter as it was.
LEMMA SyncedBills ==
  ASSUME NodeInv, BillInv, NEW r \in Requests, NEW i \in ctx[r].todo,
         ledger' = [ledger EXCEPT ![i] = Synced(r, i)]
  PROVE  LedgerNeverRolls' /\ \A j \in CapIds : SpentOn(j)' = SpentOn(j) /\ SpentOn(j) \in Nat
<1>1. /\ i \in CapIds /\ Synced(r, i) \in Entries /\ NeverRolls(Synced(r, i))
      /\ Synced(r, i).spent = SpentOn(i) /\ Synced(r, i) # NoEntry
  BY LifetimeSynced, Parameters
<1>2. \A j \in CapIds : ledger'[j] = IF j = i THEN Synced(r, i) ELSE ledger[j]
  BY DEF NodeInv, TypeOK
<1>3. LedgerNeverRolls'
  BY <1>1, <1>2 DEF BillInv, LedgerNeverRolls
<1>4. \A j \in CapIds : SpentOn(j)' = SpentOn(j)
  BY <1>1, <1>2 DEF SpentOn
<1> QED BY <1>3, <1>4, NodeFacts

LEMMA AdmitBills ==
  ASSUME NodeInv, NodeInv', BillInv, NEW r \in Requests, NEW i \in CapIds, Admit(r, i)
  PROVE  BillInv'
<1> DEFINE c == ctx[r]
           p == IF c.todo = {i} THEN "admitted" ELSE c.phase
           d == [c EXCEPT !.caps = @ \cup {i}, !.todo = @ \ {i}, !.phase = p]
<1>1. /\ c.phase = "admitting" /\ i \in c.todo /\ ledger' = [ledger EXCEPT ![i] = Synced(r, i)]
  BY DEF Admit, Reaches
<1>2. ctx' = [ctx EXCEPT ![r] = d]
  BY DEF Admit, NodeInv, TypeOK
<1>3. c \in Ctxs /\ CtxInv(c) /\ BillCtx(c)
  BY NodeFacts DEF BillInv
<1>4. LedgerNeverRolls' /\ \A j \in CapIds : SpentOn(j)' = SpentOn(j) /\ SpentOn(j) \in Nat
  BY <1>1, SyncedBills
<1>5. c.est = 0
  BY <1>1, <1>3 DEF CtxInv
<1>6. p \in {"admitting", "admitted"}
  BY <1>1
<1>7. \A j \in CapIds : c.net[j] = 0
  BY <1>1, <1>3, <1>5, LiveOwes
<1> HIDE DEF c, p
<1>8. /\ d.caps = c.caps \cup {i} /\ d.phase = p /\ d.est = c.est /\ d.net = c.net
      /\ d.terms = c.terms /\ d.tap = c.tap
  BY <1>3 DEF Ctxs
<1> HIDE DEF d
<1>9. BillCtx(d)
  BY <1>3, <1>5, <1>6, <1>7, <1>8 DEF BillCtx, Owed, BillStands
<1>10. \A j \in CapIds : d.net[j] - c.net[j] <= SpentOn(j)' - SpentOn(j)
  BY <1>4, <1>7, <1>8
<1> QED BY <1>2, <1>4, <1>9, <1>10, BillStep DEF c

LEMMA RefuseBills ==
  ASSUME NodeInv, NodeInv', BillInv, NEW r \in Requests, NEW i \in CapIds, Refuse(r, i)
  PROVE  BillInv'
<1>1. /\ i \in ctx[r].todo /\ ledger' = [ledger EXCEPT ![i] = Synced(r, i)]
      /\ ctx' = [ctx EXCEPT ![r] = IdleCtx]
  BY DEF Refuse, Reaches
<1>2. LedgerNeverRolls' /\ \A j \in CapIds : SpentOn(j)' = SpentOn(j) /\ SpentOn(j) \in Nat
  BY <1>1, SyncedBills
<1>3. BillCtx(IdleCtx) /\ \A j \in CapIds : IdleCtx.net[j] = 0
  BY IdleOwesNothing DEF BillCtx, Owed
<1>4. \A j \in CapIds : IdleCtx.net[j] - ctx[r].net[j] <= SpentOn(j)' - SpentOn(j)
  BY <1>2, <1>3, NetsNat
<1> QED BY <1>1, <1>2, <1>3, <1>4, BillStep

LEMMA EmptyingBills ==
  ASSUME NodeInv, NodeInv', BillInv, NEW r \in Requests, GateRefuses(r) \/ Done(r)
  PROVE  BillInv'
<1>1. ctx' = [ctx EXCEPT ![r] = IdleCtx] /\ ledger' = ledger
  BY DEF GateRefuses, Done
<1> QED BY <1>1, IdleOwesNothing, IdleBillStep

LEMMA ResponseHeadBills ==
  ASSUME NodeInv, NodeInv', BillInv, NEW r \in Requests, NEW tap, ResponseHead(r, tap)
  PROVE  BillInv'
<1> DEFINE c == ctx[r]
           d == [c EXCEPT !.phase = "open", !.tap = tap]
<1>1. c.phase = "admitted" /\ ledger' = ledger
  BY DEF ResponseHead
<1>2. ctx' = [ctx EXCEPT ![r] = d]
  BY DEF ResponseHead, NodeInv, TypeOK
<1>3. c \in Ctxs /\ CtxInv(c) /\ BillCtx(c)
  BY NodeFacts DEF BillInv
<1>4. c.est = 0 /\ \A j \in CapIds : c.net[j] = 0
  BY <1>1, <1>3, LiveOwes DEF CtxInv
<1> HIDE DEF c
<1>5. d.caps = c.caps /\ d.phase = "open" /\ d.est = 0 /\ d.net = c.net /\ d.terms = c.terms
  BY <1>3, <1>4 DEF Ctxs
<1> HIDE DEF d
<1>6. BillCtx(d)
  BY <1>3, <1>4, <1>5 DEF BillCtx, Owed, BillStands
<1>7. \A j \in CapIds : d.net[j] <= c.net[j]
  BY <1>4, <1>5
<1> QED BY <1>1, <1>2, <1>6, <1>7, QuietBillStep DEF c

LEMMA AbortBills ==
  ASSUME NodeInv, NodeInv', BillInv, NEW r \in Requests, Abort(r)
  PROVE  BillInv'
<1> DEFINE c == ctx[r]
           d == AfterCharge(c, TRUE)
<1>1. c.phase = "open" /\ ledger' = ledger /\ ctx' = [ctx EXCEPT ![r] = d]
  BY DEF Abort, NodeInv, TypeOK
<1>2. c \in Ctxs /\ BillCtx(c)
  BY NodeFacts DEF BillInv
<1>3. \A j \in CapIds : c.net[j] = IF j \in c.caps THEN c.est ELSE 0
  BY <1>1, <1>2, LiveOwes
<1> HIDE DEF c
<1>4. BillCtx(d) /\ d.net = c.net
  BY <1>2, <1>3, AfterChargeBills DEF BillCtx
<1>5. \A j \in CapIds : c.net[j] \in Int
  BY <1>2 DEF Ctxs
<1> HIDE DEF d
<1>6. \A j \in CapIds : d.net[j] <= c.net[j]
  BY <1>4, <1>5
<1> QED BY <1>1, <1>4, <1>6, QuietBillStep DEF c

LEMMA JsonEndsBills ==
  ASSUME NodeInv, NodeInv', BillInv, NEW r \in Requests, NEW usage \in Usages \cup {NoUsage},
         JsonEnds(r, usage)
  PROVE  BillInv'
<1> DEFINE c == ctx[r]
           b == (usage # NoUsage)
           x == [c EXCEPT !.auth = usage, !.frame = b]
           d == AfterCharge(x, TRUE)
<1>1. c.phase = "open" /\ ledger' = ledger /\ ctx' = [ctx EXCEPT ![r] = d]
  BY DEF JsonEnds, NodeInv, TypeOK
<1>2. c \in Ctxs /\ BillCtx(c)
  BY NodeFacts DEF BillInv
<1>3. \A j \in CapIds : c.net[j] = IF j \in c.caps THEN c.est ELSE 0
  BY <1>1, <1>2, LiveOwes
<1>4. b \in BOOLEAN /\ usage \in Nat \cup {NoUsage}
  BY NodeAssumption
<1> HIDE DEF c, b
<1>5. /\ x \in Ctxs /\ x.caps = c.caps /\ x.terms = c.terms /\ x.est = c.est /\ x.tap = c.tap
      /\ x.net = c.net
  BY <1>2, <1>4 DEF Ctxs
<1> HIDE DEF x
<1>6. BillCtx(d) /\ d.net = c.net
  BY <1>2, <1>3, <1>5, AfterChargeBills DEF BillCtx
<1>7. \A j \in CapIds : c.net[j] \in Int
  BY <1>2 DEF Ctxs
<1> HIDE DEF d
<1>8. \A j \in CapIds : d.net[j] <= c.net[j]
  BY <1>6, <1>7
<1> QED BY <1>1, <1>6, <1>8, QuietBillStep DEF c

\* A chunk that is charged moves what is owed by its growth, before the loop
\* runs; one that is not charged had none, or bills no value.
LEMMA ChunkBills ==
  ASSUME NodeInv, NodeInv', BillInv, NothingCut, NothingCut', NEW r \in Requests,
         NEW n \in 0 .. MaxChunk, NEW usage \in UsageAfter(ctx[r]),
         NEW wasm \in BOOLEAN, NEW last \in BOOLEAN, Chunk(r, n, usage, wasm, last)
  PROVE  BillInv'
<1> DEFINE c == ctx[r]
           cut == c.cut \/ wasm
           est == c.est + n
           auth == usage[1]
           frame == usage[2]
           fed == [c EXCEPT !.est = est, !.auth = auth, !.frame = frame,
                            !.cut = cut, !.last = last]
           delta == Increment(c, est)
           x == [fed EXCEPT !.phase = "charging", !.todo = c.caps, !.now = clock,
                            !.delta = delta, !.metered = est]
<1>1. /\ c.phase = "open" /\ c.tap = "stream" /\ ledger' = ledger
      /\ ctx' = [ctx EXCEPT ![r] = IF Charges(c, cut, est) THEN x ELSE AfterCharge(fed, last)]
  BY DEF Chunk
<1>2. c \in Ctxs /\ Bound0(c) /\ Level(c) /\ BillCtx(c)
  BY <1>1, NodeFacts DEF CtxInv, BillInv
<1>3. /\ c.est \in Nat /\ c.metered \in Nat /\ c.cut \in BOOLEAN /\ c.frame \in BOOLEAN
      /\ c.caps \in SUBSET CapIds /\ (c.auth = NoUsage \/ c.auth \in 0 .. MaxUsage)
      /\ c.net \in [CapIds -> Int]
  BY <1>2, Bound0Facts DEF Ctxs
<1>4. auth \in Nat \cup {NoUsage} /\ frame \in BOOLEAN
  BY <1>3, UsageType
<1>5. cut \in BOOLEAN /\ est \in Nat /\ est = c.est + n /\ n \in Nat /\ ~c.cut
  BY <1>3, Parameters DEF NothingCut
<1>6. \A j \in CapIds : c.net[j] = IF j \in c.caps THEN c.est ELSE 0
  BY <1>1, <1>2, LiveOwes
<1>7. Charges(c, cut, est) => delta = n
  BY <1>2, <1>3, <1>5 DEF Charges, Increment, Level
<1>8. ~Charges(c, cut, est) /\ ~cut /\ c.caps # {} => est = c.est
  BY <1>2, <1>3, <1>5 DEF Charges, Level
<1> HIDE DEF c, cut, est, auth, frame, delta
<1>9. /\ fed \in Ctxs /\ fed.caps = c.caps /\ fed.terms = c.terms /\ fed.cut = cut
      /\ fed.est = est /\ fed.tap = c.tap /\ fed.net = c.net
  <2>1. fed \in Ctxs
    <3> DEFINE part == [c EXCEPT !.est = est, !.auth = auth, !.frame = frame]
    <3>1. part \in Ctxs
      BY <1>2, <1>4, <1>5 DEF Ctxs
    <3>2. fed = [part EXCEPT !.cut = cut, !.last = last]
      OBVIOUS
    <3> HIDE DEF part, fed
    <3> QED BY <3>1, <3>2, <1>5 DEF Ctxs
  <2>2. /\ fed.caps = c.caps /\ fed.terms = c.terms /\ fed.cut = cut
        /\ fed.est = est /\ fed.tap = c.tap /\ fed.net = c.net
    BY <1>2 DEF Ctxs
  <2> QED BY <2>1, <2>2
<1> HIDE DEF fed
<1>10. \A j \in CapIds : c.net[j] \in Int
  BY <1>3
<1>11. CASE Charges(c, cut, est)
  <2>1. /\ x.caps = c.caps /\ x.todo = c.caps /\ x.terms = c.terms /\ x.est = est
        /\ x.tap = c.tap /\ x.phase = "charging" /\ x.delta = delta /\ x.net = c.net
    BY <1>9 DEF Ctxs
  <2> HIDE DEF x
  <2>2. \A j \in CapIds : Owed(x, j) = IF j \in c.caps THEN est - n ELSE 0
    BY <1>7, <1>11, <2>1 DEF Owed, BillStands
  <2>3. BillCtx(x)
    BY <1>1, <1>2, <1>3, <1>5, <1>6, <2>1, <2>2 DEF BillCtx
  <2>4. ctx' = [ctx EXCEPT ![r] = x] /\ \A j \in CapIds : x.net[j] <= c.net[j]
    BY <1>1, <1>10, <1>11, <2>1
  <2> QED BY <1>1, <2>3, <2>4, QuietBillStep DEF c
<1>12. CASE ~Charges(c, cut, est)
  <2> DEFINE d == AfterCharge(fed, last)
  <2>1. ctx' = [ctx EXCEPT ![r] = d]
    BY <1>1, <1>12
  <2>2. ~cut
    <3>1. ctx'[r] = d
      BY <2>1 DEF NodeInv, TypeOK
    <3>2. d.cut = fed.cut
      BY <1>9 DEF AfterCharge, Ctxs
    <3> QED BY <1>9, <3>1, <3>2 DEF NothingCut
  <2>3. \A j \in CapIds : fed.net[j] = IF j \in fed.caps THEN fed.est ELSE 0
    BY <1>6, <1>8, <1>9, <1>12, <2>2
  <2>4. BillCtx(d) /\ d.net = c.net
    BY <1>1, <1>2, <1>9, <2>3, AfterChargeBills DEF BillCtx
  <2> HIDE DEF d
  <2>5. \A j \in CapIds : d.net[j] <= c.net[j]
    BY <1>10, <2>4
  <2> QED BY <1>1, <2>1, <2>4, <2>5, QuietBillStep DEF c
<1> QED BY <1>11, <1>12

\* Committing a chunk at value i settles what the loop owed there.
LEMMA ChargeBills ==
  ASSUME NodeInv, NodeInv', BillInv, NothingCut', NEW r \in Requests, NEW i \in CapIds,
         Charge(r, i)
  PROVE  BillInv'
<1> DEFINE c == ctx[r]
           t == c.terms[i]
           sy == Synced(r, i)
           e == Commit(sy, t, c.delta)
           net == Nets(c, i, 0, c.delta)
           x == [c EXCEPT !.net = net, !.todo = @ \ {i}]
           y == [x EXCEPT !.cut = TRUE]
           crosses == Crosses(e, t, partitioned)
           d == IF crosses THEN AfterCharge(y, c.last)
                ELSE IF c.todo = {i} THEN AfterCharge(x, c.last) ELSE x
<1>1. /\ c.phase = "charging" /\ i \in c.todo /\ ledger' = [ledger EXCEPT ![i] = e]
      /\ ctx' = [ctx EXCEPT ![r] = d]
  BY DEF Charge, Reaches
<1>2. c \in Ctxs /\ CtxInv(c) /\ BillCtx(c)
  BY NodeFacts DEF BillInv
<1>3. c.est \in Nat /\ c.delta \in Nat /\ c.last \in BOOLEAN /\ c.todo \subseteq c.caps
      /\ c.net \in [CapIds -> Int]
  BY <1>1, <1>2 DEF CtxInv, Ctxs
<1>4. /\ t \in Terms /\ sy \in Entries /\ NeverRolls(sy) /\ sy.spent = SpentOn(i)
  BY <1>1, LifetimeSynced
<1> HIDE DEF t, sy
<1>5. e \in Entries /\ e.spent = SpentOn(i) + c.delta /\ NeverRolls(e) /\ e # NoEntry
  <2> HIDE DEF c
  <2>1. e \in Entries /\ e.spent = SpentOn(i) + c.delta
    BY <1>3, <1>4, CommitAdds
  <2>2. NeverRolls(e)
    BY <1>3, <1>4, LifetimeEntries
  <2> HIDE DEF e
  <2> QED BY <2>1, <2>2, Parameters
<1>6. net = [c.net EXCEPT ![i] = @ + c.delta]
  BY <1>3 DEF Nets
<1> HIDE DEF e, net, c, crosses
<1>7. /\ x \in Ctxs /\ x.caps = c.caps /\ x.todo = c.todo \ {i} /\ x.terms = c.terms
      /\ x.est = c.est /\ x.tap = c.tap /\ x.phase = c.phase /\ x.delta = c.delta
      /\ x.net = net /\ x.cut = c.cut
  <2>1. net \in [CapIds -> Int]
    BY <1>3, <1>6
  <2> QED BY <1>2, <2>1 DEF Ctxs
<1>8. \A j \in CapIds : net[j] = IF j = i THEN c.net[j] + c.delta ELSE c.net[j]
  BY <1>3, <1>6
<1>9. ~crosses
  <2> SUFFICES ASSUME crosses PROVE FALSE
    OBVIOUS
  <2>1. d = AfterCharge(y, c.last)
    OBVIOUS
  <2>2. y \in Ctxs /\ y.cut
    <3> HIDE DEF x
    <3> QED BY <1>7 DEF Ctxs
  <2> HIDE DEF y
  <2>3. AfterCharge(y, c.last).cut
    BY <2>2 DEF AfterCharge, Ctxs
  <2> HIDE DEF d
  <2>4. ctx'[r] = d
    BY <1>1 DEF NodeInv, TypeOK
  <2> QED BY <2>1, <2>3, <2>4 DEF NothingCut
<1> HIDE DEF x
<1>10. \A j \in CapIds : c.net[j] = IF j \notin c.caps THEN 0
                                    ELSE IF j \in c.todo THEN c.est - c.delta ELSE c.est
  BY <1>1, <1>2 DEF BillCtx, Owed, BillStands
<1>11. BillCtx(d) /\ d.net = net
  <2>1. CASE c.todo = {i}
    <3>1. d = AfterCharge(x, c.last)
      BY <1>9, <2>1
    <3>2. \A j \in CapIds : x.net[j] = IF j \in x.caps THEN x.est ELSE 0
      BY <1>1, <1>3, <1>7, <1>8, <1>10, <2>1
    <3>3. /\ x.tap = "json" => x.est = 0
          /\ \A j \in CapIds : x.terms[j] # Uncapped => x.terms[j].window = "lifetime"
      BY <1>2, <1>7 DEF BillCtx
    <3> HIDE DEF d
    <3> QED BY <1>3, <1>7, <3>1, <3>2, <3>3, AfterChargeBills
  <2>2. CASE c.todo # {i}
    <3>1. d = x
      BY <1>9, <2>2
    <3>2. \A j \in CapIds : Owed(x, j) = IF j \notin c.caps THEN 0
                              ELSE IF j \in c.todo \ {i} THEN c.est - c.delta ELSE c.est
      BY <1>1, <1>7 DEF Owed, BillStands
    <3>3. \A j \in CapIds : net[j] = Owed(x, j)
      BY <1>1, <1>3, <1>8, <1>10, <3>2
    <3> QED BY <1>2, <1>7, <3>1, <3>3 DEF BillCtx
  <2> QED BY <2>1, <2>2
<1> HIDE DEF d
<1>12. \A j \in CapIds : ledger'[j] = IF j = i THEN e ELSE ledger[j]
  BY <1>1 DEF NodeInv, TypeOK
<1>13. LedgerNeverRolls'
  BY <1>5, <1>12 DEF BillInv, LedgerNeverRolls
<1>14. \A j \in CapIds : SpentOn(j)' = (IF j = i THEN SpentOn(j) + c.delta ELSE SpentOn(j))
                         /\ SpentOn(j) \in Nat
  BY <1>5, <1>12, NodeFacts DEF SpentOn
<1>15. \A j \in CapIds : d.net[j] - c.net[j] <= SpentOn(j)' - SpentOn(j)
  BY <1>3, <1>8, <1>11, <1>14
<1> QED BY <1>1, <1>11, <1>13, <1>15, BillStep DEF c

\* A counter holds what any one request put on it.
LEMMA CoversEach ==
  ASSUME NodeInv, BillInv, NEW r \in Requests, NEW i \in CapIds
  PROVE  ctx[r].net[i] <= SpentOn(i)
<1> DEFINE f == NetsOn(i)
           a == SumOver(f, Requests)[Requests]
<1>1. f \in [Requests -> Nat] /\ f[r] = ctx[r].net[i]
  BY NetsNat DEF NetsOn
<1>2. a <= SpentOn(i)
  BY DEF BillInv, Covers
<1>3. IsFiniteSet(Requests) /\ Requests \in SUBSET Requests
  BY NodeAssumption
<1>4. SpentOn(i) \in Nat
  BY NodeFacts
<1> HIDE DEF f
<1>5. f[r] <= a /\ a \in Nat /\ f[r] \in Nat
  BY <1>1, <1>3, SumNat
<1> HIDE DEF a
<1> QED BY <1>1, <1>2, <1>4, <1>5

\* The estimate never exceeds the counter it is reconciled on.
LEMMA ReconcileExact ==
  ASSUME NEW e \in Entries, NEW est \in Nat, NEW auth \in Nat, est <= e.spent
  PROVE  /\ Reconcile(e, est, auth) \in Entries
         /\ Reconcile(e, est, auth).spent = e.spent + (auth - est)
<1> DEFINE n == IF auth >= est THEN e.spent + (auth - est) ELSE Minus(e.spent, est - auth)
<1>1. Reconcile(e, est, auth) = [e EXCEPT !.spent = n]
  BY DEF Reconcile
<1>2. n \in Nat /\ n = e.spent + (auth - est)
  BY DEF Entries, Minus
<1> HIDE DEF n
<1> QED BY <1>1, <1>2 DEF Entries

\* Settling trades what was owed for the bill: the counter moves by exactly
\* the difference, since it holds the estimate that is taken back.
LEMMA SettleBills ==
  ASSUME NodeInv, NodeInv', BillInv, NEW r \in Requests, NEW i \in CapIds, Settle(r, i)
  PROVE  BillInv'
<1> DEFINE c == ctx[r]
           e == Settled(r, i)
           p == IF c.todo = {i} THEN "settled" ELSE c.phase
           from == Settling(r, i)
           net == Nets(c, i, from, e.spent)
           d == [c EXCEPT !.net = net, !.todo = @ \ {i}, !.phase = p]
           l == ledger[i]
           sy == Synced(r, i)
<1>1. /\ c.phase = "settling" /\ i \in c.todo /\ ledger' = [ledger EXCEPT ![i] = e]
  BY DEF Settle, Reaches
<1>2. ctx' = [ctx EXCEPT ![r] = d]
  BY DEF Settle, NodeInv, TypeOK
<1>3. c \in Ctxs /\ CtxInv(c) /\ BillCtx(c) /\ c.todo \subseteq c.caps
  BY <1>1, NodeFacts DEF CtxInv, BillInv
<1>4. /\ c.est \in Nat /\ (c.auth = NoUsage \/ c.auth \in Nat) /\ c.net \in [CapIds -> Int]
      /\ c.tap \in {"stream", "json"}
  BY <1>3 DEF Ctxs
<1>5. l \in Entries /\ l.spent = SpentOn(i) /\ NeverRolls(l)
  <2>1. l # NoEntry
    BY <1>1, <1>3 DEF NodeInv, EntryInv
  <2> QED BY <2>1, NodeFacts DEF BillInv, LedgerNeverRolls
<1>6. c.terms[i] \in Terms /\ sy \in Entries /\ NeverRolls(sy) /\ sy.spent = SpentOn(i)
  BY <1>1, LifetimeSynced
<1>7. Roll(l, c.now) = l
  BY <1>5, LifetimeRolls
<1>8. c.net[i] = c.est /\ c.est <= SpentOn(i) /\ SpentOn(i) \in Nat
  <2>1. c.net[i] = c.est
    BY <1>1, <1>3 DEF BillCtx, Owed, BillStands
  <2>2. c.net[i] <= SpentOn(i)
    BY CoversEach
  <2> QED BY <2>1, <2>2, NodeFacts
<1>9. /\ e \in Entries /\ NeverRolls(e) /\ from = SpentOn(i)
      /\ e.spent - SpentOn(i) = BillOf(c) - c.est
      /\ BillOf(c) \in Nat
  <2>1. CASE c.auth = NoUsage
    <3>1. e = l /\ from = l.spent
      BY <2>1 DEF Settled, Settling
    <3>2. BillOf(c) = c.est
      BY <1>3, <1>4, <2>1 DEF BillOf, BillCtx
    <3> HIDE DEF e, from, l, c
    <3> QED BY <1>4, <1>5, <1>8, <3>1, <3>2
  <2>2. CASE c.auth # NoUsage /\ c.tap = "json"
    <3>1. e = Commit(sy, c.terms[i], c.auth) /\ from = sy.spent
      BY <2>2 DEF Settled, Settling
    <3>2. BillOf(c) = c.auth /\ c.est = 0 /\ c.auth \in Nat
      BY <1>3, <1>4, <2>2 DEF BillOf, BillCtx
    <3> HIDE DEF e, from, sy, c
    <3>3. e \in Entries /\ e.spent = sy.spent + c.auth /\ NeverRolls(e)
      BY <1>6, <3>1, <3>2, CommitAdds, LifetimeEntries
    <3> QED BY <1>6, <1>8, <3>1, <3>2, <3>3
  <2>3. CASE c.auth # NoUsage /\ c.tap # "json"
    <3>1. e = Reconcile(l, c.est, c.auth) /\ from = l.spent
      BY <1>7, <2>3 DEF Settled, Settling
    <3>2. BillOf(c) = c.auth /\ c.auth \in Nat
      BY <1>4, <2>3 DEF BillOf
    <3> HIDE DEF e, from, l, c
    <3>3. e \in Entries /\ e.spent = l.spent + (c.auth - c.est) /\ NeverRolls(e)
      BY <1>4, <1>5, <1>8, <3>1, <3>2, ReconcileExact, LifetimeEntries
    <3> QED BY <1>4, <1>5, <1>8, <3>1, <3>2, <3>3
  <2> QED BY <2>1, <2>2, <2>3
<1>10. e.spent \in Nat /\ e # NoEntry
  BY <1>9, Parameters DEF Entries
<1>11. p \in {"settled", "settling"} /\ (p = "settled" => c.todo = {i})
  BY <1>1
<1> HIDE DEF e, from, l, sy, c, p
<1>12. \A j \in CapIds : net[j] = IF j = i THEN BillOf(c) ELSE c.net[j]
  <2>1. net = [c.net EXCEPT ![i] = @ + (e.spent - from)]
    BY DEF Nets
  <2>2. c.net[i] + (e.spent - from) = BillOf(c)
    BY <1>4, <1>8, <1>9, <1>10
  <2> HIDE DEF net
  <2> QED BY <1>4, <2>1, <2>2
<1>13. net \in [CapIds -> Int]
  BY <1>3, <1>8, <1>9, <1>10, NetsType
<1> HIDE DEF net
<1>14. /\ d.caps = c.caps /\ d.todo = c.todo \ {i} /\ d.phase = p /\ d.terms = c.terms
       /\ d.est = c.est /\ d.tap = c.tap /\ d.auth = c.auth /\ d.net = net
  BY <1>3, <1>13 DEF Ctxs
<1> HIDE DEF d
<1>15. BillOf(d) = BillOf(c)
  BY <1>14 DEF BillOf
<1>16. \A j \in CapIds : c.net[j] = IF j \notin c.caps THEN 0
                                    ELSE IF j \in c.todo THEN c.est ELSE BillOf(c)
  BY <1>1, <1>3 DEF BillCtx, Owed, BillStands
<1>17. \A j \in CapIds : Owed(d, j) = IF j \notin c.caps THEN 0
                                      ELSE IF j \in c.todo \ {i} THEN c.est ELSE BillOf(c)
  BY <1>11, <1>14, <1>15 DEF Owed, BillStands
<1>18. \A j \in CapIds : net[j] = Owed(d, j)
  BY <1>1, <1>3, <1>12, <1>16, <1>17
<1>19. BillCtx(d)
  BY <1>3, <1>14, <1>18 DEF BillCtx
<1>20. \A j \in CapIds : ledger'[j] = IF j = i THEN e ELSE ledger[j]
  BY <1>1 DEF NodeInv, TypeOK
<1>21. LedgerNeverRolls'
  BY <1>9, <1>20 DEF BillInv, LedgerNeverRolls
<1>22. \A j \in CapIds : SpentOn(j)' = (IF j = i THEN e.spent ELSE SpentOn(j))
                         /\ SpentOn(j) \in Nat
  BY <1>10, <1>20, NodeFacts DEF SpentOn
<1>23. \A j \in CapIds : d.net[j] - c.net[j] <= SpentOn(j)' - SpentOn(j)
  BY <1>4, <1>8, <1>9, <1>10, <1>12, <1>14, <1>22
<1> QED BY <1>2, <1>19, <1>21, <1>23, BillStep DEF c

LEMMA CalmBills ==
  ASSUME NodeInv, BillInv, ctx' = ctx, LedgerNeverRolls',
         \A i \in CapIds : SpentOn(i)' = SpentOn(i)
  PROVE  BillInv'
<1>1. \A i \in CapIds : Covers(i)'
  BY DEF BillInv, Covers, NetsOn
<1> QED BY <1>1 DEF BillInv

\* Grants, reports and the rest leave a lifetime counter alone.
LEMMA EnvironmentBills ==
  ASSUME NodeInv, BillInv, Environment
  PROVE  BillInv'
<1>1. ASSUME NEW i \in CapIds, NEW c \in Configs, NEW share \in Shares,
             c[i] # Uncapped, Grant(i, c[i].cap, share)
      PROVE  BillInv'
  <2> DEFINE en == Ensure(i, c[i].cap)
             e == [en EXCEPT !.share = share]
  <2>1. ledger' = [ledger EXCEPT ![i] = e] /\ ctx' = ctx
    BY <1>1 DEF Grant
  <2>2. c[i].cap \in Nat /\ share \in Nat
    <3>1. c[i] \in Terms /\ share \in Nat
      BY <1>1, NodeAssumption
    <3> QED BY <3>1 DEF Terms
  <2>3. en \in Entries /\ NeverRolls(en) /\ en.spent = SpentOn(i)
    BY <2>2, LifetimeEnsured DEF BillInv
  <2> HIDE DEF en
  <2>4. e \in Entries /\ NeverRolls(e) /\ e.spent = SpentOn(i)
    BY <2>2, <2>3 DEF Entries, NeverRolls
  <2> HIDE DEF e
  <2>5. e # NoEntry /\ \A j \in CapIds : ledger'[j] = IF j = i THEN e ELSE ledger[j]
    BY <2>1, <2>4, Parameters DEF NodeInv, TypeOK
  <2>6. LedgerNeverRolls' /\ \A j \in CapIds : SpentOn(j)' = SpentOn(j)
    BY <2>4, <2>5 DEF BillInv, LedgerNeverRolls, SpentOn
  <2> QED BY <2>1, <2>6, CalmBills
<1>2. CASE Report
  <2>1. ctx' = ctx /\ \A i \in CapIds : ledger'[i] = ledger[i]
    BY <1>2, LifetimeRolls DEF Report, BillInv, LedgerNeverRolls
  <2>2. LedgerNeverRolls' /\ \A j \in CapIds : SpentOn(j)' = SpentOn(j)
    BY <2>1 DEF BillInv, LedgerNeverRolls, SpentOn
  <2> QED BY <2>1, <2>2, CalmBills
<1>3. CASE UNCHANGED <<ledger, ctx>>
  <2>1. LedgerNeverRolls' /\ \A j \in CapIds : SpentOn(j)' = SpentOn(j)
    BY <1>3 DEF BillInv, LedgerNeverRolls, SpentOn
  <2> QED BY <1>3, <2>1, CalmBills
<1>4. FlipPartition \/ Tick \/ (\E c \in Configs : SwapConfig(c)) => UNCHANGED <<ledger, ctx>>
  BY DEF FlipPartition, Tick, SwapConfig
<1> QED BY <1>1, <1>2, <1>3, <1>4, Zenon DEF Environment

LEMMA RequestBills ==
  ASSUME NodeInv, NodeInv', BillInv, LifetimeOnly, NothingCut, NothingCut',
         NEW r \in Requests, Admission(r) \/ Stream(r)
  PROVE  BillInv'
<1>1. CASE Admission(r)
  BY <1>1, ArriveBills, AdmitBills, RefuseBills, EmptyingBills, ResponseHeadBills, Zenon
     DEF Admission
<1>2. CASE Stream(r)
  <2>1. ASSUME NEW n \in 0 .. MaxChunk, NEW usage \in UsageAfter(ctx[r]),
               NEW last \in BOOLEAN, NEW wasm \in {FALSE, WasmCuts},
               Chunk(r, n, usage, wasm, last)
        PROVE  BillInv'
    <3>1. wasm \in BOOLEAN
      BY NodeAssumption
    <3> QED BY <2>1, <3>1, ChunkBills
  <2> QED BY <1>2, <2>1, ChargeBills, AbortBills, JsonEndsBills, SettleBills, EmptyingBills, Zenon
          DEF Stream
<1> QED BY <1>1, <1>2

LEMMA InitBills == Init => BillInv
<1> SUFFICES ASSUME Init PROVE BillInv
  OBVIOUS
<1>1. /\ \A r \in Requests : ctx[r] = IdleCtx
      /\ \A i \in CapIds : ledger[i] = NoEntry
  BY DEF Init
<1>2. LedgerNeverRolls /\ \A i \in CapIds : SpentOn(i) = 0
  BY <1>1 DEF LedgerNeverRolls, SpentOn
<1>3. BillCtx(IdleCtx)
  BY IdleOwesNothing DEF BillCtx, Owed
<1>4. ASSUME NEW i \in CapIds PROVE Covers(i)
  <2> DEFINE f == NetsOn(i)
             a == SumOver(f, Requests)[Requests]
  <2>1. /\ f \in [Requests -> Int] /\ \A r \in Requests : 0 <= f[r] /\ f[r] <= 0
    BY <1>1, <1>4, IdleOwesNothing DEF NetsOn
  <2>2. IsFiniteSet(Requests) /\ Requests \in SUBSET Requests /\ 0 \in Nat
        /\ Cardinality(Requests) * 0 = 0
    BY NodeAssumption, FS_CardinalityType
  <2> HIDE DEF f
  <2>3. a <= Cardinality(Requests) * 0
    BY <2>1, <2>2, SumBounds
  <2> HIDE DEF a
  <2>4. a <= SpentOn(i)
    BY <1>2, <2>2, <2>3
  <2> QED BY <2>4 DEF Covers, a, f
<1> QED BY <1>1, <1>2, <1>3, <1>4 DEF BillInv

LEMMA BillsHold ==
  ASSUME LifetimeOnly
  PROVE  Spec /\ []NothingCut => [](NodeInv /\ BillInv)
<1> DEFINE Inv == NodeInv /\ Overruns /\ BillInv
<1>1. Init => Inv
  BY InitNode, InitBills
<1>2. ASSUME Inv, [Next]_vars, NothingCut, NothingCut' PROVE Inv'
  <2>1. NodeInv' /\ Overruns'
    BY <1>2, NodeStep
  <2>2. CASE \E r \in Requests : Admission(r) \/ Stream(r)
    BY <1>2, <2>1, <2>2, RequestBills
  <2>3. CASE Environment
    BY <1>2, <2>1, <2>3, EnvironmentBills
  <2>4. CASE UNCHANGED vars
    <3>1. ctx' = ctx /\ ledger' = ledger
      BY <2>4 DEF vars
    <3>2. LedgerNeverRolls' /\ \A j \in CapIds : SpentOn(j)' = SpentOn(j)
      BY <1>2, <3>1 DEF BillInv, LedgerNeverRolls, SpentOn
    <3> QED BY <1>2, <2>1, <3>1, <3>2, CalmBills
  <2> QED BY <1>2, <2>1, <2>2, <2>3, <2>4, Zenon DEF Next
<1> QED BY <1>1, <1>2, PTL DEF Spec

(***************************************************************************)
(* Exact billing: under lifetime caps, and as long as no stream is cut, a     *)
(* settled stream has changed every counter it billed by exactly its bill,    *)
(* whatever the interleaving with other requests, partitions, grants and      *)
(* configuration swaps.                                                      *)
(***************************************************************************)
THEOREM UncutStreamsBill ==
  ASSUME LifetimeOnly
  PROVE  Spec /\ []NothingCut => []UncutStreamsBillExactly
<1>1. ASSUME NodeInv, BillInv PROVE UncutStreamsBillExactly
  <2> SUFFICES ASSUME NEW r \in Requests, ctx[r].phase = "settled", NEW i \in ctx[r].caps
               PROVE  ctx[r].net[i] = BillOf(ctx[r])
    BY DEF UncutStreamsBillExactly
  <2>1. i \in CapIds /\ BillCtx(ctx[r])
    BY <1>1, NodeFacts, Bound0Facts DEF BillInv
  <2> QED BY <2>1 DEF BillCtx, Owed, BillStands
<1> QED BY <1>1, BillsHold, PTL

(***************************************************************************)
(* RefundsOnlyItsOwn is false of the code only for what LifetimeOnly and       *)
(* NothingCut leave out: no other interleaving makes a settlement take back    *)
(* what another stream committed (reconcile's saturating subtraction).        *)
(***************************************************************************)
THEOREM UncutStreamsRefundTheirOwn ==
  ASSUME LifetimeOnly
  PROVE  Spec /\ []NothingCut => []RefundsOnlyItsOwn
<1>1. ASSUME NodeInv, BillInv PROVE RefundsOnlyItsOwn
  <2> SUFFICES ASSUME NEW r \in Requests, NEW i \in CapIds PROVE ctx[r].net[i] >= 0
    BY DEF RefundsOnlyItsOwn
  <2>1. ctx[r] \in Ctxs /\ CtxInv(ctx[r]) /\ ctx[r].net[i] = Owed(ctx[r], i)
    BY <1>1, NodeFacts DEF BillInv, BillCtx
  <2>2. Owed(ctx[r], i) \in Nat
    BY <2>1, OwedNat
  <2> QED BY <2>1, <2>2
<1> QED BY <1>1, BillsHold, PTL
=============================================================================
