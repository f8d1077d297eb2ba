-------------------------------- MODULE Fleet --------------------------------
(***************************************************************************)
(* What the control plane computes about the fleet, as operators on its two *)
(* records: FleetInner of crates/gatewayctl/src/fleet.rs (with the wave plan *)
(* of waves.rs) and NodeState of store.rs, classified as reconcile.rs does.  *)
(*                                                                           *)
(* A commit stands for the whole content of the configuration repository.    *)
(* A render is the bytes one node is sent; its hash identifies it.           *)
(***************************************************************************)
EXTENDS Integers, FiniteSets, Sequences

CONSTANTS
  Nodes,          \* node ids; their order is the order pushes and ticks follow
  Commits,
  Initial,        \* the commit the control plane started with
  Waves,          \* the plan: for each wave, the nodes its selector matches
  Stamped,        \* nodes whose labels match a GatewaySet
  NackThreshold,  \* PERSISTENT_NACK_THRESHOLD
  Nothing         \* None

ASSUME FleetAssumption ==
  /\ Nodes \subseteq Nat
  /\ IsFiniteSet(Nodes)
  /\ Initial \in Commits
  /\ Waves \in Seq(SUBSET Nodes)
  /\ Stamped \subseteq Nodes
  /\ NackThreshold \in Nat \ {0}
  /\ Nothing \notin Commits

Renders == [commit : Commits, stamped : BOOLEAN]

\* The fleet-wide render, and one node's own.
Base(c) == [commit |-> c, stamped |-> FALSE]
Rendered(c, n) == [commit |-> c, stamped |-> n \in Stamped]

First(S) == CHOOSE x \in S : \A y \in S : x <= y

(***************************************************************************)
(* The wave plan.                                                          *)
(***************************************************************************)

\* Every named wave, then the implicit final one.
WaveIndices == 1 .. Len(Waves) + 1

\* WavePlan::wave_index_for: the first wave whose selector matches.
WaveOf(n) ==
  First({w \in 1 .. Len(Waves) : n \in Waves[w]} \cup {Len(Waves) + 1})

\* WavePlan::assign
Assign(connected) ==
  [w \in WaveIndices |-> {n \in connected : WaveOf(n) = w}]

(***************************************************************************)
(* FleetInner.                                                             *)
(***************************************************************************)

Fleets ==
  [applied : Commits,
   committed : Nat,
   perNode : [Nodes -> [version : Nat, hash : Renders \cup {Nothing}]],
   waveCommit : [WaveIndices -> Commits \cup {Nothing}]]

DesiredFor(f, n) == Rendered(f.applied, n)

\* next_version_for: the same render again keeps its number.
SameVersion(f, n, r) == [f EXCEPT !.perNode[n].hash = r]
NextVersionFor(f, n, r) ==
  IF f.perNode[n].hash = r THEN f
  ELSE [f EXCEPT !.perNode[n] = [version |-> @.version + 1, hash |-> r]]

\* set_wave_commit and revert_wave_commit; Nothing is "(never committed)".
SetWaveCommit(f, w, c) == [f EXCEPT !.waveCommit[w] = c]

\* node_pending_in_unapplied_wave
PendingInUnappliedWave(f, n) ==
  /\ Len(Waves) > 1
  /\ \E w \in WaveIndices : f.waveCommit[w] = f.applied
  /\ f.waveCommit[WaveOf(n)] # f.applied

\* conclude_wave_multi: every result is an acknowledgement of the render its
\* node was pushed.
NoRefusal(results) == \A n \in DOMAIN results : results[n].state # "nacked"
CleanSweep(results) ==
  \A n \in DOMAIN results :
    /\ results[n].state = "acked"
    /\ results[n].ack = results[n].render

(***************************************************************************)
(* NodeState. Versions, reasons, health and times are recorded for the      *)
(* status page only.                                                        *)
(***************************************************************************)

NodeStates ==
  [connected : BOOLEAN,
   acked : Renders \cup {Nothing},
   nacks : 0 .. NackThreshold,
   observed : Renders \cup {Nothing},
   glass : BOOLEAN]  \* a break-glass window is open

\* Only whether the count has reached the threshold is ever asked.
RecordNack(s) ==
  [s EXCEPT !.nacks = IF @ < NackThreshold THEN @ + 1 ELSE @]

RecordAck(s, r) == [s EXCEPT !.acked = r, !.nacks = 0]

DeliveredIsStale(s, delivered, desired) ==
  ~s.glass /\ s.nacks < NackThreshold /\ delivered # desired

\* classify, with the delivered hash tick folds in: the cases that heal.
HealsByRepush(s, delivered, desired) ==
  LET held == IF s.acked = Nothing THEN delivered ELSE s.acked IN
  /\ ~s.glass
  /\ s.nacks < NackThreshold
  /\ \/ held # desired
     \/ s.observed \notin {desired, Nothing}
=============================================================================
