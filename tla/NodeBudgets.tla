----------------------------- MODULE NodeBudgets -----------------------------
(***************************************************************************)
(* Budget enforcement on one node: the shared NodeBudgets map               *)
(* (crates/gatewayd/src/budget.rs) driven by concurrent proxied requests    *)
(* (admit_caps and charge_caps_and_cut of proxy_stream.rs; the response     *)
(* filters, logging and settle_stream of proxy.rs), the metering tap        *)
(* (gateway-core/src/metering.rs) and the control-plane client.             *)
(*                                                                         *)
(* The map's mutex is taken once per capped value, so a request that bills  *)
(* several values is one action per value, in tag order, with other         *)
(* requests in between. The clock is read once per hook, before any lock.   *)
(* A value is named by its position in tag order.                           *)
(***************************************************************************)
EXTENDS BudgetLedger, FiniteSets

CONSTANTS
  Requests,     \* request slots of the proxy; a slot is reused
  CapIds,       \* the key=value pairs, numbered in tag order
  Configs,      \* configurations: the terms of each value, or Uncapped
  Shares,       \* share sizes the control plane grants
  MaxCap,       \* the largest cap of any configuration
  MaxChunk,     \* bound on the tokens one chunk adds to the estimate
  MaxEst,       \* bound on a stream's estimate
  Usages,       \* counts a provider's terminal usage frame may carry
  EarlyUsages,  \* counts a message_start may carry, {} for most dialects
  MaxUsage,     \* the largest of both
  Taps,         \* response kinds the upstream may answer with
  WasmCuts,     \* whether a module may cut a stream
  MaxClock,     \* bound on the wall clock, in minutes
  Uncapped, NoEntry, NoUsage

ASSUME NodeAssumption ==
  /\ IsFiniteSet(Requests)
  /\ CapIds \subseteq Nat
  /\ MaxCap \in Nat /\ MaxChunk \in Nat /\ MaxEst \in Nat
  /\ MaxUsage \in Nat /\ MaxClock \in Nat
  /\ Configs \subseteq [CapIds -> Terms \cup {Uncapped}]
  /\ \A c \in Configs : \A i \in CapIds : c[i] # Uncapped => c[i].cap <= MaxCap
  /\ Uncapped \notin Terms
  /\ Shares \subseteq Nat
  /\ Usages \subseteq 0 .. MaxUsage /\ EarlyUsages \subseteq 0 .. MaxUsage
  /\ Taps \subseteq {"stream", "json"}
  /\ WasmCuts \in BOOLEAN
  /\ NoEntry \notin Entries
  /\ NoUsage \notin Nat

VARIABLES
  ledger,       \* NodeBudgets.inner
  partitioned,  \* the control plane is unreachable
  config,       \* the active snapshot's composed terms
  clock,        \* now_unix, in minutes
  ctx           \* ReqCtx of every slot

vars == <<ledger, partitioned, config, clock, ctx>>

Phases == {"idle", "admitting", "admitted", "open", "charging", "settling", "settled"}

Ctxs ==
  [phase   : Phases,
   terms   : [CapIds -> Terms \cup {Uncapped}], \* the bound snapshot's terms
   caps    : SUBSET CapIds,         \* ctx.caps: the values this request bills
   todo    : SUBSET CapIds,         \* what the running loop has not reached
   now     : 0 .. MaxClock,         \* the hook's clock reading
   tap     : {"stream", "json"},
   est     : Nat,                   \* Meter::estimated_output_tokens
   metered : Nat,                   \* ctx.last_metered_est
   delta   : Nat,                   \* what the running charge loop commits
   auth    : Nat \cup {NoUsage},    \* Meter.authoritative_output
   frame   : BOOLEAN,               \* a usage frame after the opening one arrived
   cut     : BOOLEAN,
   last    : BOOLEAN,               \* this chunk ends the stream
   net     : [CapIds -> Int]]       \* history: what it changed each counter by

NoTerms == [i \in CapIds |-> Uncapped]

IdleCtx ==
  [phase |-> "idle", terms |-> NoTerms, caps |-> {}, todo |-> {}, now |-> 0,
   tap |-> "stream", est |-> 0, metered |-> 0, delta |-> 0, auth |-> NoUsage,
   frame |-> FALSE, cut |-> FALSE, last |-> FALSE, net |-> [i \in CapIds |-> 0]]

Init ==
  /\ ledger = [i \in CapIds |-> NoEntry]
  /\ partitioned = FALSE
  /\ config \in Configs
  /\ clock = 0
  /\ ctx = [r \in Requests |-> IdleCtx]

-----------------------------------------------------------------------------
(* The ledger's operations, each one critical section of its mutex. *)

\* NodeBudgets::ensure
Ensure(i, cap) == IF ledger[i] = NoEntry THEN NewEntry(cap) ELSE ledger[i]

\* The entry r finds under the lock: ensured, its terms synced, rolled.
Synced(r, i) ==
  SyncTerms(Ensure(i, ctx[r].terms[i].cap), ctx[r].terms[i], ctx[r].now)

\* The value the loop reaches next, in tag order.
Reaches(r, i) ==
  /\ i \in ctx[r].todo
  /\ \A j \in ctx[r].todo : i <= j

\* History: r changed counter i by this many tokens, resets left aside.
Nets(c, i, before, after) == [c.net EXCEPT ![i] = @ + (after - before)]

-----------------------------------------------------------------------------
(* Admission: request_filter and admit_caps. *)

\* The request binds the active snapshot; S is the set of tags it resolved.
Arrive(r, S) ==
  LET capped == {i \in S : config[i] # Uncapped}
  IN /\ ctx[r].phase = "idle"
     /\ ctx' = [ctx EXCEPT ![r] =
          [IdleCtx EXCEPT
             !.terms = config,
             !.phase = IF capped = {} THEN "admitted" ELSE "admitting",
             !.todo = capped,
             !.now = clock]]
     /\ UNCHANGED <<ledger, partitioned, config, clock>>

\* NodeBudgets::admit records nothing but the synced entry.
Admit(r, i) ==
  /\ ctx[r].phase = "admitting" /\ Reaches(r, i)
  /\ ~Denies(Synced(r, i), partitioned)
  /\ ledger' = [ledger EXCEPT ![i] = Synced(r, i)]
  /\ ctx' = [ctx EXCEPT ![r].caps = @ \cup {i},
                        ![r].todo = @ \ {i},
                        ![r].phase = IF ctx[r].todo = {i} THEN "admitted" ELSE @]
  /\ UNCHANGED <<partitioned, config, clock>>

\* The first denied value refuses the request.
Refuse(r, i) ==
  /\ ctx[r].phase = "admitting" /\ Reaches(r, i)
  /\ Denies(Synced(r, i), partitioned)
  /\ ledger' = [ledger EXCEPT ![i] = Synced(r, i)]
  /\ ctx' = [ctx EXCEPT ![r] = IdleCtx]
  /\ UNCHANGED <<partitioned, config, clock>>

\* A later gate (credentials, model, a module) refuses an admitted request, or
\* the upstream never answers it: nothing was metered, nothing is billed.
GateRefuses(r) ==
  /\ ctx[r].phase = "admitted"
  /\ ctx' = [ctx EXCEPT ![r] = IdleCtx]
  /\ UNCHANGED <<ledger, partitioned, config, clock>>

\* The response head picks the tap (upstream_response_filter, decide_tap). A
\* head that drops the tap is a stream on which the meter observes nothing.
ResponseHead(r, tap) ==
  /\ ctx[r].phase = "admitted"
  /\ ctx' = [ctx EXCEPT ![r].phase = "open", ![r].tap = tap]
  /\ UNCHANGED <<ledger, partitioned, config, clock>>

-----------------------------------------------------------------------------
(* The stream: response_body_filter. *)

\* What the meter knows after the adapter fed it a chunk: nothing new, a
\* usage frame (some dialects repeat it, the last one counts), or the count
\* a message_start opens with.
UsageAfter(c) ==
  {<<c.auth, c.frame>>}
    \cup {<<u, TRUE>> : u \in Usages}
    \cup {<<u, FALSE>> : u \in IF c.est = 0 /\ c.auth = NoUsage
                               THEN EarlyUsages ELSE {}}

\* What the callback does once nothing is left to charge: return (its locals
\* die with it), or settle the stream it ended.
AfterCharge(c, last) ==
  IF ~last THEN [c EXCEPT !.phase = "open", !.todo = {}, !.now = 0, !.delta = 0]
  ELSE [c EXCEPT !.phase = IF c.caps = {} THEN "settled" ELSE "settling",
                 !.todo = c.caps, !.now = clock, !.delta = 0]

\* Whether the callback charges at all: the caps bound, the stream not cut.
Charges(c, cut, est) == c.caps # {} /\ ~cut /\ est > c.metered

\* Mutant of Increment: every chunk charges the stream from its start.
WholeEstimate(c, est) == est

\* What one callback commits: the estimate's growth since the last charge.
Increment(c, est) == est - c.metered

\* A chunk of n tokens of output; a cut stream only ever takes the last one.
Chunk(r, n, usage, wasm, last) ==
  LET c == ctx[r]
      cut == c.cut \/ wasm
      fed == [c EXCEPT !.est = c.est + n, !.auth = usage[1], !.frame = usage[2],
                       !.cut = cut, !.last = last]
  IN /\ c.phase = "open" /\ c.tap = "stream"
     /\ c.cut => last
     /\ c.est + n <= MaxEst
     /\ ctx' = [ctx EXCEPT ![r] =
          IF Charges(c, cut, c.est + n)
            THEN [fed EXCEPT !.phase = "charging", !.todo = c.caps, !.now = clock,
                             !.delta = Increment(c, c.est + n),
                             !.metered = c.est + n]
            ELSE AfterCharge(fed, last)]
     /\ UNCHANGED <<ledger, partitioned, config, clock>>

\* charge_caps_and_cut at value i: commit, and go on while nothing crosses.
Charge(r, i) ==
  LET c == ctx[r]
      e == Commit(Synced(r, i), c.terms[i], c.delta)
      charged == [c EXCEPT !.net = Nets(c, i, 0, c.delta), !.todo = @ \ {i}]
  IN /\ c.phase = "charging" /\ Reaches(r, i)
     /\ ledger' = [ledger EXCEPT ![i] = e]
     /\ ctx' = [ctx EXCEPT ![r] =
          IF Crosses(e, c.terms[i], partitioned)
            THEN AfterCharge([charged EXCEPT !.cut = TRUE], c.last)
            ELSE IF c.todo = {i} THEN AfterCharge(charged, c.last) ELSE charged]
     /\ UNCHANGED <<partitioned, config, clock>>

-----------------------------------------------------------------------------
(* settle_stream *)

\* logging: an abort, an error or the teardown that follows a cut.
Abort(r) ==
  /\ ctx[r].phase = "open" /\ ctx[r].tap = "stream"
  /\ ctx' = [ctx EXCEPT ![r] = AfterCharge(@, TRUE)]
  /\ UNCHANGED <<ledger, partitioned, config, clock>>

\* A JSON body ended: the terminal parse reads its usage, or nothing.
JsonEnds(r, usage) ==
  /\ ctx[r].phase = "open" /\ ctx[r].tap = "json"
  /\ ctx' = [ctx EXCEPT ![r] =
       AfterCharge([@ EXCEPT !.auth = usage, !.frame = (usage # NoUsage)], TRUE)]
  /\ UNCHANGED <<ledger, partitioned, config, clock>>

\* What settling does to value i's entry: reconcile the estimate to the
\* frame (settle), or charge the JSON total (charge_terminal_and_log).
Settled(r, i) ==
  LET c == ctx[r]
  IN IF c.auth = NoUsage THEN ledger[i]
     ELSE IF c.tap = "json" THEN Commit(Synced(r, i), c.terms[i], c.auth)
     ELSE Reconcile(Roll(ledger[i], c.now), c.est, c.auth)

\* The counter settling starts from.
Settling(r, i) ==
  LET c == ctx[r]
  IN IF c.auth = NoUsage THEN ledger[i].spent
     ELSE IF c.tap = "json" THEN Synced(r, i).spent
     ELSE Roll(ledger[i], c.now).spent

Settle(r, i) ==
  LET c == ctx[r]
  IN /\ c.phase = "settling" /\ Reaches(r, i)
     /\ ledger' = [ledger EXCEPT ![i] = Settled(r, i)]
     /\ ctx' = [ctx EXCEPT
          ![r].net = Nets(c, i, Settling(r, i), Settled(r, i).spent),
          ![r].todo = @ \ {i},
          ![r].phase = IF c.todo = {i} THEN "settled" ELSE @]
     /\ UNCHANGED <<partitioned, config, clock>>

\* Mutant of Done: logging settles what end_of_stream already settled.
LoggingSettlesAgain(r) ==
  /\ ctx[r].phase = "settled"
  /\ ctx' = [ctx EXCEPT ![r] = IF ctx[r].last THEN AfterCharge([@ EXCEPT !.last = FALSE], TRUE)
                               ELSE IdleCtx]
  /\ UNCHANGED <<ledger, partitioned, config, clock>>

\* logging finds the settled flag set and only records the span.
Done(r) ==
  /\ ctx[r].phase = "settled"
  /\ ctx' = [ctx EXCEPT ![r] = IdleCtx]
  /\ UNCHANGED <<ledger, partitioned, config, clock>>
-----------------------------------------------------------------------------
(* The control-plane client, the operator and the wall clock. *)

\* apply_shares, on a value the node may not have seen yet.
Grant(i, cap, share) ==
  /\ ~partitioned
  /\ ledger' = [ledger EXCEPT ![i] = [Ensure(i, cap) EXCEPT !.share = share]]
  /\ UNCHANGED <<partitioned, config, clock, ctx>>

\* set_partitioned, on the loss of the stream and on reconnect.
FlipPartition ==
  /\ partitioned' = ~partitioned
  /\ UNCHANGED <<ledger, config, clock, ctx>>

\* The usage tick: spend_report and escalating roll every entry they read.
Report ==
  /\ ledger' = [i \in CapIds |-> IF ledger[i] = NoEntry THEN NoEntry
                                 ELSE Roll(ledger[i], clock)]
  /\ UNCHANGED <<partitioned, config, clock, ctx>>

SwapConfig(c) ==
  /\ config' = c
  /\ UNCHANGED <<ledger, partitioned, clock, ctx>>

Tick ==
  /\ clock < MaxClock
  /\ clock' = clock + 1
  /\ UNCHANGED <<ledger, partitioned, config, ctx>>

-----------------------------------------------------------------------------
Stream(r) ==
  \/ \E n \in 0 .. MaxChunk, usage \in UsageAfter(ctx[r]), last \in BOOLEAN,
       wasm \in {FALSE, WasmCuts} : Chunk(r, n, usage, wasm, last)
  \/ \E i \in CapIds : Charge(r, i)
  \/ Abort(r)
  \/ \E usage \in Usages \cup {NoUsage} : JsonEnds(r, usage)
  \/ \E i \in CapIds : Settle(r, i)
  \/ Done(r)

Admission(r) ==
  \/ \E S \in SUBSET CapIds : Arrive(r, S)
  \/ \E i \in CapIds : Admit(r, i) \/ Refuse(r, i)
  \/ GateRefuses(r)
  \/ \E tap \in Taps : ResponseHead(r, tap)

Environment ==
  \/ \E i \in CapIds, c \in Configs, share \in Shares :
       c[i] # Uncapped /\ Grant(i, c[i].cap, share)
  \/ FlipPartition
  \/ Report
  \/ \E c \in Configs : SwapConfig(c)
  \/ Tick

Next ==
  \/ \E r \in Requests : Admission(r) \/ Stream(r)
  \/ Environment

Spec == Init /\ [][Next]_vars

-----------------------------------------------------------------------------
(* Properties. *)

TypeOK ==
  /\ ledger \in [CapIds -> Entries \cup {NoEntry}]
  /\ partitioned \in BOOLEAN
  /\ config \in Configs
  /\ clock \in 0 .. MaxClock
  /\ ctx \in [Requests -> Ctxs]

\* The published bound on overspend: whatever the interleaving of admissions,
\* chunks and settlements, and through grants, partitions, window rollovers
\* and config swaps, a node's counter passes the largest cap by at most one
\* chunk, or one usage frame if that is larger, per concurrent request: a
\* settled stream trades its estimate for the frame. Admission reserves
\* nothing, so every slot can be past its check when the cap is reached.
PerRequestExcess == IF MaxChunk >= MaxUsage THEN MaxChunk ELSE MaxUsage

OvershootBounded ==
  \A i \in CapIds : ledger[i] # NoEntry =>
    ledger[i].spent <= MaxCap + Cardinality(Requests) * PerRequestExcess

\* A stream that was not cut leaves every counter it billed changed by exactly
\* its bill: the usage frame when one arrived, else the estimate, else nothing
\* for a JSON body without usage. Settled once, whichever hook came first.
BillOf(c) ==
  IF c.auth # NoUsage THEN c.auth ELSE IF c.tap = "json" THEN 0 ELSE c.est

UncutStreamsBillExactly ==
  \A r \in Requests :
    ctx[r].phase = "settled" /\ ~ctx[r].cut =>
      \A i \in ctx[r].caps : ctx[r].net[i] = BillOf(ctx[r])

\* It is said of the executions without a cut, under caps that never roll over:
\* a cut stream takes back what others committed (RefundsOnlyItsOwn), and a
\* window that rolls under a stream forgets what its frame then corrects.
NothingCut == \A r \in Requests : ~ctx[r].cut

LifetimeOnly == \A c \in Configs : \A i \in CapIds : c[i] # Uncapped => c[i].window = "lifetime"

\* docs/11: an aborted or cut stream bills at what was metered before the
\* end. Without a terminal usage frame, the metered estimate stands. False of
\* the code: see the README, section 5.
EstimateStands ==
  \A r \in Requests :
    LET c == ctx[r]
    IN c.phase = "settled" /\ c.tap = "stream" /\ ~c.frame /\ (c.cut \/ ~c.last) =>
         \A i \in c.caps : c.net[i] = c.metered

\* reconcile's comment: it replaces tokens already committed for this stream.
\* Settling a stream never takes back what other streams committed. False of
\* the code: see the README, section 5.
RefundsOnlyItsOwn ==
  \A r \in Requests : \A i \in CapIds : ctx[r].net[i] >= 0

\* The admission check uses the terms of the request's own snapshot: no
\* request is admitted with its counter already at the cap it bound. False of
\* the code: see the README, section 5.
AdmitsUnderBoundCap ==
  [][\A r \in Requests, i \in CapIds :
       Admit(r, i) => ledger'[i].spent < ctx[r].terms[i].cap]_vars
=============================================================================
