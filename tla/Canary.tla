------------------------------- MODULE Canary -------------------------------
(* The analysis of one wave of a canary rollout (canary.rs, telemetry.rs,    *)
(* analyze_wave of canary_rollout.rs) over what the nodes report: health and  *)
(* refusals into per-node windows, spend into the budget ledger, whose        *)
(* figures leave with the node's stream. One analysis runs at a time: of two  *)
(* rollouts that overlap, the second would reset what the first collects.    *)
(* Rates and factors are compared in integers, exactly; thresholds are in    *)
(* percent.                                                                  *)
EXTENDS Integers, FiniteSets, SequencesExt

CONSTANTS
  CanaryNodes, BaselineNodes,
  CanaryPolicy,      \* [window, metrics, errorIncrease, p99Factor, spendFactor, zscore]
  MinBaseline, \* MIN_BASELINE_FOR_ZSCORE
  MaxSamples,  \* MAX_LATENCY_SAMPLES
  Reports,     \* health strings: [healthy, req, err, p99], NoTally where absent
  NoTally,
  MaxEvents    \* bound on what the nodes do

Nodes == CanaryNodes \cup BaselineNodes

Tally == Nat \cup {NoTally}

ASSUME CanaryAssumption ==
  /\ CanaryNodes \cap BaselineNodes = {} /\ IsFiniteSet(Nodes)
  /\ MaxEvents \in Nat /\ MinBaseline \in Nat \ {0} /\ MaxSamples \in Nat
  /\ NoTally \notin Nat
  /\ Reports \subseteq [healthy : BOOLEAN, req : Tally, err : Tally, p99 : Tally]
  /\ CanaryPolicy.errorIncrease \in 0 .. 100
  /\ CanaryPolicy.p99Factor > 0 /\ CanaryPolicy.spendFactor > 0 /\ CanaryPolicy.zscore > 0

(***************************************************************************)
(* The statistics. A pool is a function from its nodes to                  *)
(* [requests, errors, latencies, spent].                                   *)
(***************************************************************************)
Total(pool, field) == SumFunction([n \in DOMAIN pool |-> pool[n][field]])

HasSamples(pool) ==
  \E n \in DOMAIN pool : pool[n].requests > 0 \/ pool[n].latencies # <<>> \/ pool[n].spent > 0

\* A pool that served nothing has rate 0.
Errors(pool) == IF Total(pool, "requests") = 0 THEN 0 ELSE Total(pool, "errors")
Served(pool) == IF Total(pool, "requests") = 0 THEN 1 ELSE Total(pool, "requests")

ErrorBreach(c, b) ==
  100 * (Errors(c) * Served(b) - Errors(b) * Served(c))
    > CanaryPolicy.errorIncrease * Served(c) * Served(b)

\* percentile: the sample of the nearest rank, rounded half up, from 0.
Samples(pool) == UNION {{n} \X DOMAIN pool[n].latencies : n \in DOMAIN pool}
Latency(pool, s) == pool[s[1]].latencies[s[2]]
NoMore(pool, v) == Cardinality({s \in Samples(pool) : Latency(pool, s) <= v})
Rank(pool) == (99 * (Cardinality(Samples(pool)) - 1) + 50) \div 100

P99(pool) ==
  CHOOSE v \in {Latency(pool, s) : s \in Samples(pool)} :
    /\ NoMore(pool, v) > Rank(pool)
    /\ \A s \in Samples(pool) : Latency(pool, s) < v => NoMore(pool, Latency(pool, s)) <= Rank(pool)

P99Breach(c, b) ==
  /\ Samples(c) # {} /\ Samples(b) # {}
  /\ P99(b) > 0 /\ 100 * P99(c) > P99(b) * CanaryPolicy.p99Factor

SumOfSquares(pool) == SumFunction([n \in DOMAIN pool |-> pool[n].spent * pool[n].spent])

\* How far the canary's mean lies above the baseline's, times both sizes; and
\* the baseline's variance, times its size squared.
Excess(c, b) == Total(c, "spent") * Cardinality(DOMAIN b) - Total(b, "spent") * Cardinality(DOMAIN c)
Variance(b) ==
  Cardinality(DOMAIN b) * SumOfSquares(b) - Total(b, "spent") * Total(b, "spent")

Outlier(c, b) ==
  /\ Cardinality(DOMAIN b) >= MinBaseline /\ Variance(b) > 0 /\ Excess(c, b) > 0
  /\ 10000 * Excess(c, b) * Excess(c, b) >
       CanaryPolicy.zscore * CanaryPolicy.zscore * Variance(b) * Cardinality(DOMAIN c) * Cardinality(DOMAIN c)

TotalsCompared(c, b) ==
  IF Total(b, "spent") = 0 THEN Total(c, "spent") > 0
  ELSE 100 * Total(c, "spent") * Cardinality(DOMAIN b) > CanaryPolicy.spendFactor * Total(b, "spent")

SpendBreach(c, b) ==
  IF Total(b, "spent") = 0 THEN Total(c, "spent") > 0
  ELSE \/ 100 * Total(c, "spent") * Cardinality(DOMAIN b) >
            CanaryPolicy.spendFactor * Total(b, "spent") * Cardinality(DOMAIN c)
       \/ Outlier(c, b)

\* analyze: the first breach, in this order; a canary that said nothing is no
\* evidence; without a baseline there is nothing to compare with.
Analyze(c, b) ==
  CASE ~HasSamples(c) -> "no data"
    [] HasSamples(c) /\ ~HasSamples(b) -> "pass"
    [] OTHER ->
         IF "error_rate" \in CanaryPolicy.metrics /\ ErrorBreach(c, b) THEN "error rate"
         ELSE IF "p99" \in CanaryPolicy.metrics /\ P99Breach(c, b) THEN "p99"
         ELSE IF "spend_anomaly" \in CanaryPolicy.metrics /\ SpendBreach(c, b) THEN "spend"
         ELSE "pass"

(***************************************************************************)
(* The window.                                                             *)
(***************************************************************************)
VARIABLES
  window,  \* FleetTelemetry.per_node: [requests, errors, latencies]
  ledger,  \* a node's figure in the budget ledger, NoTally once forgotten
  opened,  \* spend_window_open: the figure when the analysis window opened
  spent,   \* the cumulative figure of the node's own counters
  verdict, \* of the wave: "pending", "open", or what analyze returned
  since,   \* what a node did after its window was opened (not in the code)
  events

canaryVars == <<window, ledger, opened, spent, verdict, since, events>>

NoReports == [requests |-> 0, errors |-> 0, latencies |-> <<>>]
Nothing == [requests |-> 0, errors |-> 0, spent |-> 0]

CanaryInit ==
  /\ window = [n \in Nodes |-> NoReports]
  /\ ledger = [n \in Nodes |-> NoTally] /\ opened = [n \in Nodes |-> NoTally]
  /\ spent = [n \in Nodes |-> 0] /\ since = [n \in Nodes |-> Nothing]
  /\ verdict = "pending" /\ events = 0

\* record_health: explicit tallies, or one failed request for a bare
\* "degraded"; the first samples of a window are kept.
Tallied(r) ==
  [requests |-> IF r.req # NoTally THEN r.req ELSE IF r.healthy THEN 0 ELSE 1,
   errors |-> CASE r.req # NoTally /\ r.err # NoTally -> r.err
                [] r.healthy /\ (r.req = NoTally \/ r.err = NoTally) -> 0
                [] OTHER -> 1]

KeptAll(samples, p99) == IF p99 = NoTally THEN samples ELSE Append(samples, p99)

Kept(samples, p99) ==
  IF p99 = NoTally \/ Len(samples) >= MaxSamples THEN samples ELSE Append(samples, p99)

Count(n, tally) ==
  since' = [since EXCEPT ![n].requests = @ + tally.requests, ![n].errors = @ + tally.errors]

Record(n, tally, p99) ==
  /\ window' = [window EXCEPT ![n] =
       [requests |-> @.requests + tally.requests, errors |-> @.errors + tally.errors,
        latencies |-> Kept(@.latencies, p99)]]
  /\ Count(n, tally)

Event == events < MaxEvents /\ events' = events + 1

Heartbeat(n) ==
  /\ Event
  /\ \E r \in Reports : Record(n, Tallied(r), r.p99)
  /\ UNCHANGED <<ledger, opened, spent, verdict>>

\* record_nack
Nack(n) ==
  /\ Event /\ Record(n, [requests |-> 1, errors |-> 1], NoTally)
  /\ UNCHANGED <<ledger, opened, spent, verdict>>

\* The node bills tokens; its next UsageReport carries the cumulative figure.
Spend(n) ==
  /\ Event
  /\ spent' = [spent EXCEPT ![n] = @ + 1]
  /\ since' = [since EXCEPT ![n].spent = @ + 1]
  /\ UNCHANGED <<window, ledger, opened, verdict>>

ReportSpend(n) ==
  /\ spent[n] > 0 /\ ledger[n] # spent[n]
  /\ ledger' = [ledger EXCEPT ![n] = spent[n]]
  /\ UNCHANGED <<window, opened, spent, verdict, since, events>>

\* The stream ends: forget_node. A restarted node counts from zero.
Disconnect(n) ==
  /\ Event /\ ledger[n] # NoTally
  /\ ledger' = [ledger EXCEPT ![n] = NoTally]
  /\ spent' \in {spent, [spent EXCEPT ![n] = 0]}
  /\ UNCHANGED <<window, opened, verdict, since>>

Figure(n) == IF ledger[n] = NoTally THEN 0 ELSE ledger[n]

\* node_windowed_spend: a saturating difference.
WindowedSpend(n) ==
  LET base == IF opened[n] = NoTally THEN 0 ELSE opened[n]
  IN IF Figure(n) > base THEN Figure(n) - base ELSE 0

\* open_spend_window for both pools, and what is counted as before it.
OpenSpend ==
  /\ opened' = [n \in Nodes |-> Figure(n)]
  /\ since' = [n \in Nodes |->
       [(IF n \in CanaryNodes THEN Nothing ELSE since[n]) EXCEPT
          !.spent = IF spent[n] > Figure(n) THEN spent[n] - Figure(n) ELSE 0]]

OpenKeepingWindows ==
  /\ verdict = "pending" /\ CanaryPolicy.window > 0
  /\ OpenSpend /\ UNCHANGED window
  /\ verdict' = "open"
  /\ UNCHANGED <<ledger, spent, events>>

\* analyze_wave: the canary's windows start afresh, the baseline's go on.
Open ==
  /\ verdict = "pending" /\ CanaryPolicy.window > 0
  /\ OpenSpend
  /\ window' = [n \in Nodes |-> IF n \in CanaryNodes THEN NoReports ELSE window[n]]
  /\ verdict' = "open"
  /\ UNCHANGED <<ledger, spent, events>>

LifetimeTelemetry(n) ==
  [requests |-> window[n].requests, errors |-> window[n].errors,
   latencies |-> window[n].latencies, spent |-> Figure(n)]

\* assemble_telemetry
Telemetry(n) ==
  [requests |-> window[n].requests, errors |-> window[n].errors,
   latencies |-> window[n].latencies, spent |-> WindowedSpend(n)]

Assemble(S) == [n \in S |-> Telemetry(n)]

Judge ==
  /\ verdict = IF CanaryPolicy.window > 0 THEN "open" ELSE "pending"
  /\ verdict' = Analyze(Assemble(CanaryNodes), Assemble(BaselineNodes))
  /\ UNCHANGED <<window, ledger, opened, spent, since, events>>

\* The walk goes on to the next wave, or ends; the pools stay as they are.
NextWave ==
  /\ verdict \notin {"pending", "open"} /\ verdict' = "pending"
  /\ UNCHANGED <<window, ledger, opened, spent, since, events>>

CanaryNext ==
  \/ \E n \in Nodes : Heartbeat(n) \/ Nack(n) \/ Spend(n) \/ ReportSpend(n) \/ Disconnect(n)
  \/ Open \/ Judge \/ NextWave

CanarySpec == CanaryInit /\ [][CanaryNext]_canaryVars

-----------------------------------------------------------------------------
(* Properties. *)

CanaryTypeOK ==
  /\ verdict \in {"pending", "open", "no data", "pass", "error rate", "p99", "spend"}
  /\ window \in [Nodes -> [requests : Nat, errors : Nat, latencies : Seq(Nat)]]
  /\ \A n \in Nodes : Len(window[n].latencies) <= MaxSamples
  /\ ledger \in [Nodes -> Tally] /\ opened \in [Nodes -> Tally]
  /\ spent \in [Nodes -> Nat] /\ events \in Nat
  /\ since \in [Nodes -> [requests : Nat, errors : Nat, spent : Nat]]

\* While a wave's window is open (and no other rollout's resets it), the
\* canary's requests and errors are those that arrived since it opened: what a
\* node reported of an earlier wave, or of an earlier commit, weighs nothing
\* (reset_many).
WindowIsTheWaves ==
  verdict = "open" =>
    \A n \in CanaryNodes :
      window[n].requests = since[n].requests /\ window[n].errors = since[n].errors

\* The spend a wave is judged on was spent after its window opened, or had
\* not been reported then, for every node in the ledger when it opened
\* (node_windowed_spend is a difference, never a lifetime total).
SpendIsTheWindows ==
  [][Judge => \A n \in Nodes :
       opened[n] \notin {0, NoTally} => Assemble({n})[n].spent <= since[n].spent]_canaryVars

\* Under factors of at least 1 a wave that behaves as its peers is never rolled
\* back: whatever was reported, no metric finds a pool to breach against itself.
\* A smaller factor, which parse_canary_policy accepts, does (README, section 5).
PeersNeverBreach ==
  \A S \in {CanaryNodes, BaselineNodes} :
    Analyze(Assemble(S), Assemble(S)) \in {"pass", "no data"}
=============================================================================
