--------------------------- MODULE MCNodeBudgets ---------------------------
(* Model-checking instances of NodeBudgets. *)
EXTENDS NodeBudgets, TLC

SlotSymmetry == Permutations(Requests)

Cap(n, w) == [cap |-> n, window |-> w]

\* One value whose minute cap the operator retunes.
RetunedCaps == {[i \in CapIds |-> Cap(n, "minute")] : n \in {1, 2}}

\* Every value capped for its whole life.
LifetimeCaps == {[i \in CapIds |-> Cap(MaxCap, "lifetime")]}
=============================================================================
