----------------------------- MODULE WaveRollout -----------------------------
(* What a rollout promises the fleet (canary_rollout.rs, docs/07-control-     *)
(* plane.md): a commit that is applied is rolled out once, to the nodes that  *)
(* are connected when its rollout begins, each in one wave; the waves advance *)
(* in their order, each when all of its nodes have served the commit, and a   *)
(* wave's record moves at no other time; a rollout that stops leaves every    *)
(* wave that is still to come where it was. Pushes, versions, answers,        *)
(* timeouts, verdicts and rollbacks are not visible here. FleetRollout        *)
(* implements this specification when one trigger is in use.                  *)
EXTENDS Naturals

CONSTANTS
  Nodes,
  Commits,
  Initial,  \* the commit the control plane started with
  WaveCount,
  Never     \* the record of a wave that no rollout has reached

VARIABLES
  applied,  \* the commit the fleet should be on
  due,      \* whether its rollout has yet to begin
  plan,     \* the nodes of each wave the rollout has still to advance
  record,   \* the commit each wave was last advanced to
  served    \* the commits each node has served its own render of

vars == <<applied, due, plan, record, served>>

Done == [w \in 1 .. WaveCount |-> {}]

Init ==
  /\ applied = Initial
  /\ due = FALSE
  /\ plan = Done
  /\ record = [w \in 1 .. WaveCount |-> Never]
  /\ served = [n \in Nodes |-> {Initial}]

Apply ==
  /\ ~due /\ plan = Done
  /\ applied' \in Commits \ {applied}
  /\ due' = TRUE
  /\ UNCHANGED <<plan, record, served>>

Begin ==
  /\ due /\ due' = FALSE
  /\ plan' \in [1 .. WaveCount -> SUBSET Nodes]
  /\ \A v, w \in 1 .. WaveCount : v # w => plan'[v] \cap plan'[w] = {}
  /\ UNCHANGED <<applied, record, served>>

Serve ==
  /\ \E n \in Nodes, c \in Commits : served' = [served EXCEPT ![n] = @ \cup {c}]
  /\ UNCHANGED <<applied, due, plan, record>>

\* The first of the waves to come, once all of it serves the commit.
Advance(w) ==
  /\ plan[w] # {} /\ \A v \in 1 .. w - 1 : plan[v] = {}
  /\ \A n \in plan[w] : applied \in served[n]
  /\ record' = [record EXCEPT ![w] = applied]
  /\ plan' = [plan EXCEPT ![w] = {}]
  /\ UNCHANGED <<applied, due, served>>

\* A refusal, a silence or a verdict: nothing that was to come does.
Stop ==
  /\ plan # Done /\ plan' = Done
  /\ UNCHANGED <<applied, due, record, served>>

Next == Apply \/ Begin \/ Serve \/ Stop \/ \E w \in 1 .. WaveCount : Advance(w)

Spec == Init /\ [][Next]_vars
=============================================================================
