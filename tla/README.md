# smallgateway, specified in TLA+

smallgateway is an LLM gateway. `gatewayd` proxies model traffic and enforces
attribution, credentials and token budgets; `gatewayctl` renders configuration from
a repository and rolls it out to a fleet of `gatewayd` nodes; an operator runs both
on Kubernetes. This directory holds TLA+ modules translated from the code, TLC
configurations that check them on small instances, and TLAPS proofs of the
results that matter most.

Run a check with `tlc -workers 2 -config X.cfg M`, a proof with `tlapm M.tla`.
`PROJECT.json` ties every definition to the source lines it models.

1. The system
2. Modules
3. Runs
4. Proofs
5. Where the code and its documents disagree
6. Not modelled
7. Plan

## 1. The system

| Component | State it keeps | Operations | What is hard | Module |
|---|---|---|---|---|
| Hot swap (`gatewayd/reload.rs`, `gateway-core/snapshot.rs`) | the active snapshot, the version counter, the reload lock, the watcher's last mtime | SIGHUP, poll tick, pushed text; load by every request | triggers race; a reload fails half-way; old versions drain | `HotSwap` |
| WASM runtime (`gatewayd/wasm_runtime.rs`, `gateway-wasm/bind.rs`) | module set per version, per-event gate, break-glass pin | `on_swap`, `bind`, SIGUSR1, the `on_request` chain | pairing two cells without one lock; pruning by reference count | `HotSwap`, `RequestPath` |
| Node budgets (`gatewayd/budget.rs`, `gateway-core/budget.rs`) | per capped value: cap, share, spend, window, alert latch; the partition flag | `admit`, `meter`, `settle`, `charge_terminal`, `apply_shares`, `spend_report` | nothing is reserved at admission; caps, windows and shares move under running streams | `NodeBudgets` |
| Response tap (`gatewayd/proxy.rs`, `gateway-core/dialect/`, `metering.rs`) | parser buffer, adapter, meter, disposition | head, chunk, end, abort | chunks split anywhere; a body it cannot read must not be a silent zero | `ResponseTap`, `NodeBudgets` |
| Request pipeline (`gatewayd/proxy*.rs`) | one `ReqCtx` per request | the gates, both upstream filters, replays | order of the gates; awaits between them; a body finalized once and sent twice | `RequestPath` |
| Configuration and scopes (`gateway-core/config.rs`, `scope.rs`, `validate.rs`, `attribution.rs`, `jwt.rs`) | none | compose, validate, match, resolve, verify | what the validator refuses must make the request path safe for every override | `Scopes` |
| Cloud credentials (`gatewayd/aws_auth.rs`, `gcp_auth.rs`, `gateway-core/aws.rs`) | two caches, by key | look up, exchange, sign | one session's credentials for another; expiry | `RequestPath` |
| Control-plane client (`gatewayd/client.rs`) | last fleet version, backoff | dial, bind pushes, heartbeat, usage reports | reconnect, partition, stale answers | `FleetRollout`, `FleetBudgets` |
| Fleet budgets (`gatewayctl/budget.rs`) | per value: cap, spend per node, latches | report, forget, allocate shares | figures come late, or after the node is forgotten | `FleetBudgets` |
| Join tokens (`gatewayctl/token.rs`) | token table | mint, authorize | single use, yet reconnects must pass | `FleetBudgets` |
| Sessions (`gatewayctl/server.rs`, `store.rs`) | outbound channel and pending pushes per node, last ack, nack count | connect, bootstrap push, ack, nack, status, disconnect | reconnect races disconnect; versions assigned apart from sends | `FleetRollout` |
| Rollout (`gatewayctl/fleet.rs`, `rollout.rs`, `waves.rs`, `canary_rollout.rs`) | applied render, commit per wave, committed version, waves in flight | wave walk, adjudicate, halt, verdict, rollback, gate | partial application; reload during a walk | `FleetRollout` |
| Canary analysis (`canary.rs`, `telemetry.rs`) | windows of requests, errors and latencies per node; spend at the opening | record, reset, analyze | what belongs to the wave that is judged | `Canary` |
| Reconciler (`gatewayctl/reconcile.rs`) | none of its own | classify, heal | must not fight a rollout in progress or halted | `FleetRollout` |
| Source, render, admission (`source.rs`, `render.rs`, `gatewayset.rs`, `admission.rs`, `main.rs`) | the render cache, the desired commit | resolve, assemble, stamp, admit, apply | the source is read anew at each step, by two tasks | `Release` |
| Operator (`operator/`) | none of its own: the cluster's objects | reconcile, in steps | each step may fail or be the last; stale reads | `Operator` |
| WASM host, wire protocol, process wiring, telemetry export | | | | section 6 |

The components meet at these places. A trigger (file or push) calls `Reloader`,
which calls the WASM runtime's `on_swap` under its lock and then stores the
snapshot. Every request loads the snapshot, binds the module set of that version
and keeps both to its end. Its gates resolve it under the composed policy of its
route and app, ask the budget map, fetch credentials through the shared caches and
sign; its response hooks feed the tap and call the budget map again, once per
capped value and per hook. The client moves spend up and shares down between the
node's map and the fleet ledger. Reload tasks admit and render the source; rollout
and reconciler push those renders through the sessions and read back
acknowledgements, and the canary analysis judges a wave by what the nodes report.

What makes each part correct: a request sees one configuration, and the one it
sees was accepted; what is forwarded met the contract of its route and app, and
is signed as itself; spend is counted once and passes a cap by a bounded amount;
reported usage is billed or the hole is loud; shares partition a cap; a wave
commits on a full sweep and a halted rollout leaves the rest of the fleet where it
was; what a node is sent comes from one state of the repository; nobody joins on
another node's token; a cluster converges to its resource. The hazards behind
these are listed line by line in `PROJECT.json`.

## 2. Modules

| Module | Models | Extends |
|---|---|---|
| `ConfigCell` | what a reloading data plane promises a request: the abstract specification | |
| `HotSwap` | both file triggers, the reload path, the module map, break-glass, request binding; implements `ConfigCell` | |
| `BudgetLedger` | one ledger entry, as pure operators | |
| `NodeBudgets` | concurrent requests over the shared map | `BudgetLedger` |
| `Dialects` | framings, the four adapters, the JSON body, the meter, as pure operators | |
| `ResponseTap` | one response, from its heads to its settlement | `Dialects` |
| `Scopes` | composition, validation, routing, tokens and attribution, as pure operators | |
| `RequestPath` | requests through the gates, the credential caches and the upstream filters | `Scopes` |
| `Fleet` | the fleet's and the node's records and what is computed from them | |
| `WaveRollout` | what a rollout promises the fleet: the abstract specification | |
| `FleetRollout` | triggers, wave walks, sessions, the reconciler, the nodes' streams and processes, running at once; implements `WaveRollout` with one trigger | `Fleet` |
| `Canary` | the telemetry windows, the spend windows and the verdict | |
| `JoinTokens`, `ShareLedger` | one token; one value of the fleet ledger | |
| `FleetBudgets` | nodes that join, spend, report and are granted shares | `JoinTokens`, `ShareLedger` |
| `ConfigRepo` | what gatewayctl makes of one state of the repository, and admission | `Scopes` |
| `Release` | how states of the source reach the render cache | `ConfigRepo` |
| `Operator` | the reconcile loop and the part of Kubernetes it relies on | |
| `SumLemmas` | folds and sums over finite sets, for the proofs about ledgers and paths | `TLAPS` |
| `*_proofs` | theorems about `HotSwap`, `NodeBudgets`, `RequestPath`, `FleetRollout`, `FleetBudgets`, `Release` and `Canary` (together), `Operator` | the module, `TLAPS`; the budgets', `RequestPath`'s and `Release`'s, `SumLemmas` |
| `MC*` | instances for TLC | the module |

### HotSwap and ConfigCell

A configuration text is a member of `Contents`; hashing is equality of texts and a
module set is named by the text that declares it. Three classes of text exist:
accepted, refused by validation (`Unparsable`, which also stands for a file that
cannot be read), and refused by the module loader (`Unloadable`) after a version
was already stamped.

* `file`, `dirty`: the file and whether its mtime differs from the watcher's
  `last_mtime`. `PollTick` clears `dirty` before the reload reads the file, in the
  code's order.
* `pc`, `lock`, `pending`, `stamped`: one reload. `ReloadReturns` is the no-op and
  the rejection, `Render` the read, comparison and stamp, `HookFails` and `OnSwap`
  the two ends of the swap hook, `Store` the swap of the cell and the release.
  `lock` is kept only across steps; a reload that returns at once is one action.
* `byVersion`, `perEvent`: `Bindings`. `Kept` is the `retain` of `on_swap`; the
  reference count of a set is the requests that hold it plus the `old_set` clone
  `on_swap` itself keeps alive, which is what protects the active version.
* `rpc`, `snap`, `mods`, `gate`: `new_ctx` takes three reads under three locks, so
  it is three actions. A slot is reused after `Finish`.

A push from the control plane takes the same lock and the same path; it brings no
new behaviour to this module but its origin, and control-plane mode builds no WASM
runtime.

`ConfigCell` hides files, triggers, locks and the map: there is a snapshot in
force, `Publish` moves it forward to an accepted text, a request takes the one in
force when it arrives and is bound to that text's modules, to the break-glass set
or to none. `HotSwap` implements it: `Store` is `Publish`, the first read of
`new_ctx` is `Arrive`, the second `Bind`, every other step stutters. What the map
must get right for that is in the refinement's `Bind`: a version that was pruned
or paired with another text's modules would be bound to something else.

### BudgetLedger and NodeBudgets

`BudgetLedger` gives each ledger operation as a function from entry to entry.
`NodeBudgets` runs them: the map's mutex is taken once per value, so `Admit`,
`Charge` and `Settle` are one action per value, in tag order, and the other
requests run in between. The clock is read once per hook, before any lock
(`now`). `Chunk` is one call of the body filter: what the adapter fed the meter, a
module's cut, the increment to charge, then the loop of `Charge` steps
(`charge_caps_and_cut`, which stops at the first value that crosses), and
settlement when the chunk ended the stream. `Abort` is `logging` on a stream that
never reached its end, `JsonEnds` the terminal parse of a JSON body.

Token counts are small integers; the meter's characters-to-tokens heuristic is
the choice of how much a chunk adds. Which usage counts a provider sends is an
input: `Usages` are ordinary usage frames, `EarlyUsages` the count some dialects
put in the opening frame. Two of the four windows are kept (`minute`, `hour`) beside
`lifetime`. Counters are far below 2^64, so `saturating_add` is addition;
`saturating_sub` does saturate. `net` in a request's context is history: by how
much the request itself changed each counter, resets aside.

### Dialects and ResponseTap

A wire is a sequence of cells and a chunk any number of them. A cell is a line or
a line end of an SSE stream, the prelude or the rest of an event-stream message, or a
slice of a JSON body; a frame's JSON is reduced to the fields the adapters read. `SseFeed` and
`FrameFeed` return what is complete and keep the rest, with the code's behaviour
on a length that is too short or a checksum that fails. `Normalize` is the four
adapters, one frame at a time. `JsonFeed` and `JsonFinish` hold a body whole up
to the cap and parse it at the end.

`ResponseTap` is one response: `Informational` (a 1xx head changes nothing),
`ResponseHead` (`decide_tap` and the match on its plan), `Chunk`, and `Settle` from
`EndOfStream` or `Abort`. What settlement charges to the ledger is `NodeBudgets`'.

### Scopes and RequestPath

`Scopes` has a scope as a record of sets and functions of keys, and composes fleet,
project, route and app scopes as `finalize` does: lists replace unless they hold the
base marker, maps merge with the lower scope winning. `Accepted` is what the
validator refuses at load; `MatchRoute` and `Normalize` are routing; `Verified` is
the choice of candidate keys and the checks of a token, whose signature is named
by the key it verifies under; `Policy` is the two-pass resolution by which a
resolved selector picks the app's override.

`RequestPath` takes a request through the code's gates. Every action runs from one
await to the next.

* `Arrive` loads the snapshot and verifies the token: an offer is a configuration
  and an input, and offers the validator refuses are dropped. `Filter` is
  everything up to the first credential exchange, `Deny` a counter at its cap
  (which values are there is `NodeBudgets`').
* `Lookup`, `MintBase`, `Mint`, `ExchangeFails`: the caches, shared by all requests.
  Two requests may mint the same session at once; a chained role's first hop has
  a key of its own.
* `Inject`, `ReadBody`, `Module`: forced headers, the model gate and the body it
  reads, the module chain, whose first decision other than "continue" stands.
* `Send` is one attempt, both upstream filters included; `Replay` is pingora's
  second attempt on a fresh connection. `signed` is taken by the first.

Values are looked up by key; header names, template texts, STS and SigV4 wire
formats and the text of rejections are left out.

### Fleet, FleetRollout and WaveRollout

A commit stands for the whole repository; what one node is sent is its render of
a commit, and hashing is equality of renders. A node in `Stamped` gets a render of
its own, which is why the fleet-wide render a rollback pushes is not one of its
renders. The wave plan is a constant: a plan that changes with the commit is not modelled.

* `repo`, `polled`: the repository, and what the poll saw last. `Admit` and
  `Resolve` read the repository at two moments, as the code does.
* `fleet`, `store`: `FleetInner` and the `NodeState`s. Counters, times and reasons that are
  only displayed are left out; the refusals in a row are counted up to the threshold.
* `walk`: each trigger's task, from admission to the end of its rollout. `Conclude`,
  `Pass`, `Breach` and `RolledBack` end a wave; `frozen` is the wave's record at the
  moment its nodes acknowledged, which a rollback restores.
* `slot`: each pusher's push to each node. One push takes three steps: the render
  is read (`ChooseInWalk`, `ChooseInHeal`, `Reconnect`), the version assigned
  (`Number`), the message sent (`Send`). Each is its own critical section, and
  the other pushers run in between. The waiter is keyed by pusher, the code's
  push id; `Deliver` answers every waiter of the version.
* `Visit`: the reconciler's tick comes to a node, classifies it and is not deferred.
  The tick's order of nodes is free and visits that do nothing are left out.
* `session`, `link`, `ending`: the entry in the sessions, the node's stream, and streams
  that ended before their handler noticed. `Teardown` removes whatever session the
  node id has. While `LateTeardown` is TRUE a node may rejoin before it; the stream
  it rejoined on stays open, since its handler keeps a sender to answer heartbeats.
* `down`, `up`, `running`: the queues and the render a node serves. `Bind` is
  `bind_push` over the node's reload path, with the refusals an input.
* Faults: `Drop` loses a stream and the answers on it; `Crash` loses the process, and
  the node that comes back serves nothing until its first push. A first push it
  refuses ends that stream (`RefuseFirst`: `wait_first_push` returns an error and the
  process exits), and whoever restarts it dials again. `MaxFaults` bounds both.
* `ran`, `halted`: history for the properties.

`WaveRollout` hides sessions, versions, pushes, answers, the reconciler and the analysis.
A commit that is applied has one rollout (`due`), to the nodes connected when it
begins; `plan` holds the waves it has still to advance, `record` what each wave was last
advanced to, `served` what each node has served. `Advance` takes the first wave
of the plan, once all of it has served the commit; `Stop` empties the plan and
leaves every record where it was. In `FleetRollout`, `Resolve` is `Apply`; an unanalyzed sweep or
`Pass` is `Advance`; a refusal, a silence or a `Breach` is `Stop`, the last because the
record that a rollback restores never moved; `Bind` is `Serve`; everything
else stutters. Which commit the reconciler or a bootstrap hands a node is not promised here: it is the
subject of `Converges` and `HaltHoldsLaterWaves`.

Simplifications. The analysis is the choice between `Pass` and `Breach`, on for
the commits in `Analyzed`; `Canary` has the verdict. The manual gate only delays a
walk. A break-glass window opens and closes at any moment. A redial waits at least
for the bootstrap task of the last join. `connect`, the session's insertion and the
render read for the bootstrap are one step, as are the two removals of
`Teardown`. A heartbeat enters an idle stream. Sending takes the lock of the
sessions for one step only. The control plane does not restart in this module: it
does in `FleetBudgets`, where what it forgets is the subject.

### Canary

Per node, `window` is the telemetry window, `ledger` the node's figure in the budget
ledger (which leaves with its stream), `opened` the figure when the analysis window
opened. `Heartbeat` is a health string, with or without explicit tallies; `Nack` a
refusal, counted as a failed request. `Open` resets the canary's windows and opens the
spend of both pools; `Judge` is `assemble_telemetry` and `analyze`. The percentile, which the
code reads off the sorted samples, is the least sample that more samples than its rank
do not exceed. The thresholds are compared exactly, in
integers, where the code divides floating-point numbers. `since` is history: what
a node did after its window opened. One analysis runs at a time: two triggers may have
rollouts overlap in the code, and the reset of one then empties the windows the other is collecting;
the properties are about a wave whose windows no other rollout touches.

### JoinTokens, ShareLedger, FleetBudgets

`JoinTokens` is `authorize` on one token, `ShareLedger` one `CapState`: reports
replace a node's figure, a total that drops re-arms the latches, `ShareFor` slices
the cap by spend with a floor for cold nodes. Products of floating-point numbers
are floored quotients; over the caps in use the two agree.

`FleetBudgets` composes them with nodes: `Join` and `Refused` (a refusal is fatal
to a process that never joined and retried by one that did), `Serve`, `Report` (a
value near its share takes precedence over the rest of the report), `Ingest` with its
answer, `Granted`; `Drop` with a `Teardown` that may come after the next join, and
`Restart`, which empties tokens, ledger and sessions. A response is one chunk here.

### ConfigRepo and Release

`ConfigRepo` has a document as a function from paths to values, assembled from the
fragment files, stamped with every GatewaySet a label set matches, and validated by
`Scopes`. `Admitted` is the code's admission: the rules on the unstamped document
and on the labels that represent each set.

`Release` has the three tasks that resolve the source: the start (`serve`), the
poll and SIGHUP. Each `Admit` and `Render` reads `head` anew; `SetPolicy` and `Apply` are two critical sections;
`Push` is `desired_for` through the cache that `Apply` empties.

### Operator

`cr` and `status` are the resource, `secret`, `repo`, `ctl`, `dp` the objects the
operator writes, `pods` and `nodes` what the cluster runs of them. Each ensure step is an
action, `seen` the resource the pass read. `Fail` is an error of any of them. The rest is
Kubernetes as far as the operator relies on it, external to the code: a surging
Deployment, an ordered StatefulSet, a status write that conflicts with an edit, eviction, crashes.

## 3. Runs

| Run | Bounds | Shows |
|---|---|---|
| `hot_swap` | 1 request slot, 4 texts (one of each rejected kind), 5 versions, fair | the cell is implemented and paired, superseded sets do not pile up, an edit is eventually served |
| `budgets_overshoot` | 2 slots, caps 1 and 2 per minute, share 9, estimate up to 2, 2 minutes | the overspend past the largest cap: one chunk, or one larger usage frame, per slot; the bound is reached |
| `budgets_billing` | 2 slots, 2 values, lifetime caps, JSON and streams | exact billing of uncut streams |
| `response_tap` | two streams per dialect, event streams with a damaged frame before their usage, JSON bodies of 2 and 4 cells against a cap of 3, unreadable heads, one informational head | events do not depend on the chunks, keep their order, and usage reported in intact frames is billed or the hole stamped |
| `request_path` | some 400 configurations and inputs for one request, 2 for another beside those that mint, lifetime 2, margin 1, 3 clock ticks, 1 replay | what reaches a provider is what the contract says, signed as the request's own session |
| `fleet_rollout` | 2 nodes, canary wave and the rest, 2 commits, 2 edits or an edit and a fault, refusals by the second node, analysis of one commit, break-glass of the first node when there is no fault | versions name one render, honest nodes agree, the waves advance as `WaveRollout` promises |
| `fleet_self_heal` | 2 nodes, 1 edit, 1 lost stream or crash, fair | every node converges on its desired render |
| `fleet_halt` | refusal in the first wave, 1 edit | violated, see section 5 |
| `canary` | 1 canary, 2 peers, 5 events, 1 latency sample per window | a verdict weighs what happened in its window; under factors of at least 1 peers never breach |
| `fleet_budgets` | 2 nodes, cap 20, chunk 10, 1 fault, fair; either 1 value in use, 2 tokens that live for 1 tick, 1 tick, or 2 values in use, a token per node, no tick | shares partition the cap, crossings are alerted and reach the control plane unless another value shadows them, a token is one node's |
| `release` | 5 commits, 3 label sets | what nodes are sent is rendered from the repository in force and validates |
| `operator` | 2 generations, 1 or 2 replicas, 2 faults, fair | no pod behind its template, one token, convergence |

Why these are enough.

`hot_swap` needs two texts to swap between, one of each rejected kind, and
a version to lose to a failed hook. Counting resident sets takes more versions than
slots plus two, which five are with one slot; what compares several requests is
proved for any number of them.

For `budgets_overshoot`, every slot can be past its check
when the cap is reached, so two slots separate "one request" from "all requests";
the share is larger than every cap because an over-allocated share is the case
`check_partitioned` guards against; two caps and two minutes give a stale cap and a
rollover under a running stream. `budgets_billing` has the constraint `NothingCut`:
executions up to the first cut, since after one the refund of section 5 touches
other streams' counters. Its caps are for life: a settlement that crosses a rollover
bills the new window and may saturate, which the code documents as a boundary
fuzz. Request slots are interchangeable, which the symmetric runs use; no run with a
liveness property uses symmetry.

`response_tap` tries every way to split every stream into chunks, and an abort at
every point. The streams have the frames each adapter treats apart: text, a held-back
finish, usage before and after it, errors, frames that do not parse, CRLF line ends
and comment lines. `ChunkingInvisible`, `OrderingContract` and
`UsageBilledOrLoud` are about streams whose frames pass their checks (`Intact`); section 5 has
what happens to the usage in the others (`NoSilentZero`).

`request_path` gives the first request every combination of where a key comes from
and which override applies, every body and module under every provider kind, every
spelling of a path with dots, and tokens that fail in every way. Configurations the
validator must refuse are among them. The second request exists to share the caches:
it is the same role under another session, or the service account. It runs only
beside a first request that mints as well (`AloneOrSharing`): requests meet in the
caches and nowhere else, so beside any other it would only multiply the states. Two ticks of
life, one of margin and three of clock let credentials be fresh, stale and expired.

`fleet_rollout` uses two nodes because the wave order needs two waves and the
properties compare pushers at one node; two edits, so that a second rollout goes
back to a commit that nodes have acknowledged before and late answers of the
first are still about; both a stamped and an unstamped node; queues of length
one still let a push of one pusher overtake another's, since they are ordered
when sent and not when numbered. `TwoChanges` trades an edit, and the
break-glass window, for a lost stream or a crash of the second node. Its trigger is SIGHUP, that of the others the
poll. A threshold of two refusals lets a node become persistently divergent
within two heals. The fault of `fleet_self_heal` is the second node's, which is
then absent from its wave, pushed late, pushed twice, or back with nothing to serve.

`canary` needs two peers for a variance, and five events to have one wave judged and
a node lose its stream during the next.

`fleet_budgets` has a cap of two chunks, so that one node alone or both
together cross it. `Story` splits its behaviours in two. With one value in use, tokens expire before the one
fault is over, and both nodes may have been started with one token. With both values in use, the first node spends
the first value up to its cap and a chunk of the second, the second node the second value only: it is shadowed on
one node and reported by the other, and crossed by both together or, if nothing fails, by the second alone.
The fault is then the first node's or, before the second has joined, a restart. `CrossingsReachFleet` counts the spend of nodes
whose reports carry the value; counting the shadowed ones too it is false (section 5). Two restarts,
a node that is lost again, or two shadowing nodes are beyond the run. Nodes and tokens are interchangeable, so
`MCInit` fixes what the first node was started with.

`release` has a commit of every fate: plain, with three overlapping GatewaySets and a
wave plan, blocked by an overlay, not renderable, with a refused canary policy.
`operator` has two edits' worth of generations, so that a pass can have read the first while the second is in force.

Where deadlock checking is off the system may stop: once edits and faults are used up
and everyone has converged, what the code still does (ticks, polls and heartbeats
that find nothing new) changes no state and is not an action; a `RequestPath` slot
is used once.

Fairness. Nothing is ever assumed of operators, clients, edits, faults or clocks.

* `hot_swap`: the watcher thread ticks forever and a reload that holds or awaits the
  lock is a running thread, so `StartWatcher`, `PollTick` and each trigger's `Reload`
  are weakly fair. Weak fairness of a trigger that waits for the lock is
  enough because the other one is always between two bounded reloads; the promise
  is waived once the model runs out of versions.
* `fleet_self_heal`: a rollout, a push and a heal are tasks of a running runtime, the
  wait for an answer has a timeout, and the node's supervisor redials forever, binds
  what it is sent and ticks its heartbeat, so each is weakly fair. `Visit` is strongly
  fair: the tick comes round to every connected node, but a heal of another node or a
  wave in flight may keep disabling it.
* `fleet_budgets`: the supervisor redials for ever, the usage reporter ticks, and both
  inbound loops read what they are sent: `Join`, `Report`, `Granted` per node and
  the handler of each dial are weakly fair.
* `operator`: a pass is requeued whatever its outcome, and the cluster's controllers
  and the nodes' supervisors never give up.

## 4. Proofs

Every theorem holds for any values of the constants that satisfy the module's named
assumptions. A safety theorem is proved from an inductive invariant: it holds
initially, every action keeps it, and it implies the property.

`HotSwap_proofs` (any requests, texts and number of versions; the bootstrap text is
accepted and the markers are not texts):

* `TypeCorrect`: `Spec => []TypeOK`.
* `ActiveSnapshotPaired`: `Spec => []CellHasModules`.
* `RejectedNeverServed`: `Spec => []OnlyAcceptedServed`.
* `VersionIdentifiesConfig`: `Spec => []VersionNamesContent`.
* `VersionsOnlyGrow`: `Spec => NoVersionRegression`.
* `CellRefinement`: `Spec => ImplementsCell`.
* `ResidentBound`: `Spec => []ResidentSetsBounded`.

None of these is inductive. `SwapInv` strengthens them with four facts: the lock is
held exactly by the trigger that is between render and store, hence by at most one
(`LockInv`); while it is held the holder's pending version is the last one stamped, above
the cell's, with an accepted text once the hook has passed, and already in the map
(`PendingInv`); the cell's version is at most the last stamped and is paired
(`CellInv`); a version a request holds was stamped and agrees with the cell, with
the map and with every other request on the text it names (`RequestInv`). A
`Render` by a second trigger is what would break it, and `LockInv` excludes that.
The refinement follows step by step: `RequestInv` gives `Bind` its text, `PendingInv`
gives `Publish` its larger version. For the bound, `MapInv` says which versions the map may
hold beside those of requests, and `AtMostTwoMore` counts them.

`NodeBudgets_proofs` (any finite number of concurrent requests, any configurations,
values, windows, shares, chunks and usage frames up to the named bounds):

* `NodeTypesHold`: `Spec => []TypeOK`.
* `OvershootIsBounded`: `Spec => []OvershootBounded`.
* `UncutStreamsBill`: `LifetimeOnly` and `Spec /\ []NothingCut => []UncutStreamsBillExactly`.
* `UncutStreamsRefundTheirOwn`: the same hypotheses and `[]RefundsOnlyItsOwn`.

The bound says nothing of what is still to come, so it is not inductive: a counter at
its bound with a request still streaming would break it. `OverrunFits` counts what is
to come: once a counter is above the largest cap, its value *plus* what every request
may still add to it (`Left`) is within the bound. A request not yet past its check
may add nothing, since a counter above the largest cap refuses it (`Admit`); a live
one may add a chunk, with which it is cut, or trade its estimate for a larger frame;
one that was cut or settles may only make that trade. So while a counter is at
most the largest cap each slot has its full excess before it, and every later step
takes from `Left` at least what it adds to the counter (`LedgerStep`, `ContextStep`,
one lemma per action). `NodeInv` carries what that needs of each request: that a live stream has
committed its whole estimate (`Level`), that the values still to charge are among
the billed ones, and that the caps in force never exceed the largest.

Exact billing is about executions without a cut and under caps for life; with either
hypothesis dropped it is false of the code (sections 3 and 5), and both hold of real
deployments' executions. `BillInv` says what each counter owes each request at
every point of its life (`Owed`: nothing, the estimate less a delta still to be
committed, or the bill), that `net` is exactly that, and that every counter
holds at least the sum of what it owes (`Covers`). The last is not about the request
that settles but about all the others: it keeps the saturating subtraction of a
settlement from saturating. Shares, partitions, configurations and other requests
are as free as in `Spec`.

`FleetRollout_proofs` (any finite set of nodes, any waves, commits, queues' contents,
refusals and faults):

* `RolloutTypesHold`: `Spec => []TypeOK`.
* `VersionsNameRenders`: `Spec => []VersionNamesRender`.
* `HonestAnswersMatch`: `Spec => []HonestNodesAgree`.
* `AdvancedWavesServed`: `OneTrigger => (Spec => AdvancedMeansServed)`.
* `RolloutIsByWaves`: `OneTrigger => (Spec => ImplementsWaves)`.

`TypeInv` adds to `TypeOK` what the messages, slots and walks hold. That a version names one
render is a statement about every record of one: the control plane's, the pushes
numbered and under way, the answers on their way back. `VersionInv` adds that none of
them is above the node's counter, so that a number newly handed out names nothing
yet; a step that hands out none only moves or drops records (`QuietStep`). From it,
an honest answer that carries a waiter's version carries its render.
`ServedInv` follows a walk's target into its slots (`SlotsOfWalk`), to the render
a node has served (`AcksServed`) and back to the record of the wave
(`VerdictPending`). It needs the target to stay the applied commit while the walk lasts (`OnTarget`), which a
second trigger's reload breaks: with both triggers the property is false of the code
(section 5), so the theorem is about a control plane whose reloads all come from
the poll, or all from SIGHUP. It holds under every fault.

The refinement of `WaveRollout` takes one invariant more, `AtNodes`: a walk between its pushes and its
verdict stands at a wave that has nodes. With it, what is left of the plan
(`ToGo`) begins at the walk's wave; `OnwardToGo` says that the next wave `Onward`
chooses skips none that has nodes, so that `Conclude` and `Pass` remove exactly
one wave from the plan (`AdvanceStep`), and `ServedInv` gives the guard of
`Advance`. `RolloutWaves` does the other steps of a walk, `StreamWaves` those of the nodes.

`SumLemmas` and `FleetBudgets_proofs` (any nodes, secrets, values, cap, chunk, clock
and number of faults; no set is assumed finite):

* `SharesPartitionCap`: the slices of any ledger state, reachable or not, sum to at most its cap.
* `BudgetTypesHold`: `Spec => []TypeOK`.
* `SharesAlwaysConserve`: `Spec => []SharesConserve`.
* `NoCrossingMissed`: `Spec => []CrossingsAlerted`.
* `TokensAreSingleUse`: `Spec => []OneNodePerToken`.

The ledger's total is a sum over the nodes that reported, computed by a function that
calls itself on smaller sets. `SubsetInduction` is the induction this needs, stated with a set of
subsets in place of a predicate and proved from the well-ordering of the naturals;
from it follow that such a function exists and is unique whatever element each step
takes (`FoldExists`), that a sum does not depend on the order
(`SumRemove`), and what a change of one figure does to it (`SumChange`). The same
lemmas serve the sums of `NodeBudgets_proofs` and the folds over paths below.
`ShareFor` floors a weighted slice for each node that spent and gives the others an
equal floor; `WeightedShares` multiplies out the quotients and sums them,
`ColdFloorsFit` bounds the floors, and together they are the partition. `BudgetInv` adds to the types what
the streams carry, that a ledger state has finitely many reporters and
its latch set when its total is at the cap (`ReportingIsSound`, `ForgettingIsSound`: a
node that is forgotten only lowers the total), and that a node has used no more dials than its faults
account for, without which `Join` would be stuck rather than typed.

`RequestPath_proofs` (any configurations, inputs, number of requests, retries, cached
credentials):

* `NoCallerRawMaterial`: `Spec => []NeverCallerRaw`. Requests run under accepted
  configurations only (`Indexed`, `Validated`), and an accepted one has passed
  `PolicyOk` for the base policy and for every app's, hence for the final one.
* `ForwardedIsAdmitted`: `Spec => []SentWasAdmitted`. `GateInv` says which gates each
  step has behind it: past the filter the required keys resolved, past the model gate
  the model is allowed; a replay goes back no further than `send`. `ClaimsInv` says
  that the claims a request runs with are its verified token's, so a required key that
  is read from a claim was vouched for by a trusted key.
* `CredentialsAreItsOwn`: `Spec => []SignsAsItself`. Whatever is in a cache is filed
  under all that it was minted for (`CacheInv`), and a request's identity does not change
  between its lookup and its signature (`IdentityStays`).
* `AcceptedIsForced`: `Spec => []AcceptedCarriesPolicy`. A body read early is the
  finalized one until the first attempt takes it (`SignedInv`); a replay has none, and then the signature
  covers an empty body, which no provider accepts for another (`SignedCarriesForced`).
* `RoutesAreOfTheResource`: `Spec => []RouteOfResource`. Resolving a path is a fold over its
  segments. By induction over the sets of segments folded so far, what it leaves has no dot
  segment in any spelling (`CollapseCleans`); by a least counterexample over
  prefixes, it leaves a path without any as it is (`CollapseLeaves`). So a
  provider that decodes and resolves the forwarded path once more reads what was matched
  (`ProviderReadsTheSame`), and `PathInv` carries the path from arrival to the upstream.
* `ForcedUnlessReadEarly`: `Spec /\ []EarlyReadsSign => []ForcedFieldsSent`, where `EarlyReadsSign` says that
  a body is read early only for a provider that signs. It shows that the
  finding of section 5 has no other cause (`ForcedInv`).

`Release_proofs` (any repositories, commits and label sets):

* `ReleaseTypes`: `Spec => []TypeOK`.
* `CacheCoherent`: `Spec => []CacheAgrees`.
* `OnlyValidSent`: `Spec => []SentValidates`.
* `RulesReachCoveredNodes`: `Spec => []CoveredNodesObeyRules`.
* `AdmissionGates`: `Spec /\ SourceHolds => []AdmittedBeforeDesired`.

`ReleaseInv` adds that before the first commit is in force nothing is cached and only
the start runs (`StartInv`), and that whatever a task is about to apply did render (`RenderedInv`). The last
is what the fall-back of `desired_for` needs: the fleet-wide render it falls back on is a configuration.
A render depends on a node's labels through the GatewaySets they pick and nothing else
(`StampByPicked`), so the rules that admission evaluated on a set's representative hold of
every node that picks the same (`CoveredObeys`), and what the cache holds is that render
(`CacheAgrees`). `SourceHolds` says that the source does not move while a task is between the resolve
that admits and the resolve that renders: `VettedInv` follows an admitted commit through
that window to the store, and so the finding of section 5 has no other cause.

The second part of `Release_proofs` is about `Canary` (any finite pools, policy, number of
events, cap on samples and health strings with natural tallies):

* `CanaryTypesHold`: `CanarySpec => []CanaryTypeOK`, the cap on samples included.
* `WindowsAreTheWaves`: `CanarySpec => []WindowIsTheWaves`.
* `SpendIsOfTheWindow`: `CanarySpec => SpendIsTheWindows`.
* `NoPoolBreachesItself`: `FactorsAllowEquality => (CanarySpec => []PeersNeverBreach)`.

`WindowIsTheWaves` is inductive with the types. The third needs `SpendSince`: a node's own counter and its
figure in the ledger both exceed the figure at the opening by at most what is counted
since; a late report only moves one to the other, and a lost stream or a restart lowers them.
For the fourth, totals are sums (`TotalIsNatural`, from `SumLemmas`), and the percentile of a
pool with samples exists and is a natural (`P99IsNatural`: the rank is below the number of samples, some
sample is the largest, and the least good one is chosen); then each rule compares a number with
itself. `FactorsAllowEquality` says that the two factors are at least 1. It is needed:
`parse_canary_policy` asks that they be positive, and with a factor below 1 a wave
that behaves exactly as its peers is rolled back.

`Operator_proofs` (any number of generations, replicas and faults):

* `NeverBehindTemplate`: `Spec => []RepoBeforeRollout`, from the order of the ensure
  steps: in any pass that is past the repository step the ConfigMap is at least
  what it has read (`ConfigsInv`), so a template never names a configuration the
  ConfigMap does not hold yet (`TemplateInv`), nor a pod of it (`PodsInv`).
* `TokensAgree`: `Spec => []NodesStayAdmitted`, since every pod and node was started
  with the one token there is (`PodTokens`, `NodeTokens`).
* `OperatorTypesHold`: `Spec => []TypeOK`. A session is with a *ready* pod
  (`SessionInv`): a pod that becomes ready is replaced in the model, and nobody was joined to it.

Only model-checked:

* liveness (`EditsAreServed`, `Converges`, `ClusterConverges`, `BoundNodesRejoin`,
  `CrossingsReachFleet`): fairness is beyond the prover;
* `ResponseTap`: its parsers are recursive operators, which the prover cannot use;
* `RequestPath!TypeOK`: it tells `None` from records, which holds of TLC's model value and is
  nothing an assumption can state of every constant; no other proof uses it.

## 5. Where the code and its documents disagree

`HaltHoldsLaterWaves` is a run of its own (`fleet_halt`): a node counts as pending in a
later wave only if some wave already reached the target. When the first wave halts
none has, and the reconciler moves every later wave to the commit that was just refused.

The modules state other promises that the code does not keep. Each can be seen
with a change to a configuration here; where a theorem gives the exact condition under which
the promise holds, the table names it:

| Property | What the code does | To reproduce |
|---|---|---|
| `HotSwap!GateMatchesSnapshot` | a request can bind version N with its modules and run them under version N+1's `per_event_hooks`, or the reverse | `MCHotSwap.cfg` with this invariant |
| `NodeBudgets!EstimateStands` | an aborted stream of a dialect that opens with a usage count is billed the opening count, not what was metered | `MCBudgetsBilling.cfg` without symmetry and constraint, one request, `CapIds = {1}`, `MaxCap = 3`, `Usages = {2}`, `EarlyUsages = {1}`, `MaxUsage = 2`, `Taps = {"stream"}` |
| `NodeBudgets!AdmitsUnderBoundCap` | the cap checked at admission is fixed when a value is first seen; lowering it in a new configuration does not reach admission | `MCBudgetsOvershoot.cfg` without symmetry, one request, `Usages = {2}`, `MaxUsage = 2`, `MaxClock = 0` |
| `NodeBudgets!RefundsOnlyItsOwn` | a stream that is cut is reconciled from its whole estimate, though the last chunk may never have been charged to every value; the difference is taken out of other streams' spend (`UncutStreamsRefundTheirOwn`) | `MCBudgetsBilling.cfg` without symmetry and constraint, one request, `MaxCap = 3`, `Usages = {0}`, `MaxUsage = 2`, `Taps = {"stream"}` |
| `RequestPath!ForcedFieldsSent` | forced body fields are skipped when a model gate read the body early on a provider that does not sign (`ForcedUnlessReadEarly`) | `MCRequestPath.cfg` with `Requests = {"r1"}` |
| `FleetRollout!Converges` | a node whose old stream is noticed to have ended only after it rejoined loses its new session: it is connected, its heartbeats arrive, and it is neither rolled to nor healed until that stream breaks too | `MCFleetSelfHeal.cfg` with `LateTeardown = TRUE` |
| `FleetRollout!AdvancedMeansServed` | with both triggers, one walk has fixed its target B when the other applies A again; its nodes acknowledge A and the wave is recorded on B (`AdvancedWavesServed`) | `MCFleetRollout.cfg` with this property and `Triggers = {"poll", "hangup"}` |
| `FleetBudgets!SpendReachesLedger`, `FleetBudgets!CrossingsNeverMissed` | while one value stays above 90% of its share every report carries that value alone: the others' spend never reaches the control plane, and a cap that the nodes cross together is never alerted | `MCFleetBudgets.cfg` with either property |
| `ResponseTap!NoSilentZero` | usage decoded in the chunk of an event-stream frame whose checksum fails, or sent after one whose length is too short, is neither billed nor stamped | `MCResponseTap.cfg` with this invariant |
| `Release!AdmittedBeforeDesired` | the source is resolved once to admit and again to render: a commit that lands in between becomes desired unadmitted (`AdmissionGates`) | `MCRelease.cfg` with this invariant |
| `Operator!ReadyMeansServed` | Ready is written for a new generation on the answer of the old control-plane pod | `MCOperator.cfg` with `SPECIFICATION Spec`, `MaxFaults = 0` |

Met while reading and modelling, without a property:

* Reloads. The poll and SIGHUP may overtake each other: the older render ends up in force
  and the poll, which has seen the newer commit, never repairs it; and one commit's
  canary policy with another's render. The watcher's first fingerprint is taken after the start's render. A
  malformed `waves.yaml` is one wave. Admission checks a GatewaySet on one label set
  per set, so a node that combines sets otherwise is not covered.
* Canary. Two rollouts that overlap reset each other's windows. A factor below 1 is accepted
  and rolls back a wave equal to its peers (`NoPoolBreachesItself`). A spend window that opens while a node is forgotten counts the node's
  whole life as the wave's. The baseline's latencies are never reset and kept up to a
  cap, so its p99 freezes. Any spend breaches a baseline that spent nothing; a canary
  that only fails passes against a baseline that said nothing.
* Shares. Each node's share bounds it only while partitioned, so a connected fleet of
  N nodes may spend N times a cap. Shares granted at different moments need not sum below it either.
* Restarts. After one of the control plane, a node that was away longer than the tokens live
  is refused for ever. A report or a teardown of an old stream that comes late
  rewrites the new session's figure.
* Crashes. A node that crashes during a halted rollout is bootstrapped with the
  commit that halted; if it refuses it, it exits.
* Requests. The model gate runs after the credential exchange, against its comment
  (`gatewayd/src/proxy.rs:858`). A replay after a signed body was taken sends the
  body again under a signature over an empty one, which a provider that checks it refuses; one
  after a body was partly buffered sees it twice. Credentials may expire while a slow body is read. The GCP cache key leaves out the
  project number. A token whose `exp` is not an unsigned integer does not expire. A
  module that mutates ends the chain: later modules do not get to reject.
* Event streams. A length that is too short is never drained, so every later chunk
  fails; a bad checksum loses the good frames before it in the chunk; neither is stamped as a metering hole.
* Operator. A ConfigMap edited between the repository step and a pod's start is what the
  pod unpacks. Deleting the join Secret gives new nodes a token that the running
  control plane does not know. Labels that do not parse give tokens without labels.

## 6. Not modelled

* The WASM host: a call is one decision to the proxy (`RequestPath`), loading succeeds
  or not (`HotSwap`). `ModuleState` migrates counters that no production code increments.
* The wire protocol's message constructors, command lines, read-only HTTP endpoints, the
  raw and tampered pushes that exist for tests, and the telemetry exporter, whose
  only state is a bounded channel that drops what does not fit. `SentValidates` is about
  what walks, heals and bootstraps send, not about those pushes.
* Text: YAML, CEL, templates, glob and label grammars, header names, the JSON of frames,
  checksums, and the signature algorithms. The models take their results. Alert
  delivery, logging and spans carry no state the properties read.
* In the fleet: the await of one node's full channel under the lock of all sessions; a
  wave plan that changes with the commit; a restart of the control plane during a
  rollout, after which a halted rollout is forgotten; the manual gate, whose only
  effect is delay.
* In the canary: two analyses at once, of rollouts started by both triggers.
* Floating point: the shares and the canary's statistics are integers.
* `spikes/`, `website/`, `upstream/` and the charts under `deploy/` are not the system.

## 7. Plan

Done: hot swap with its abstract specification, node budgets, the fleet's rollout with
faults, request path and scopes, fleet budgets and tokens, release, operator and canary
analysis, all with proofs; response tap, with runs. Next, in this order:

1. `FleetRollout` extended: the control plane's restart, the session lock held over a
   full channel, a wave plan per commit; composed with `Canary` for its verdicts.
2. `WaveRollout` for two triggers: what is left of it when reloads overlap, once the
   code fixes a walk's target and its renders at the same moment.
