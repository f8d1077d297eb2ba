--------------------------- MODULE MCFleetRollout ---------------------------
(* Model-checking instances of FleetRollout. *)
EXTENDS FleetRollout

CONSTANTS A, B

\* A canary wave, and everyone else in the implicit final wave.
CanaryWave == <<{1}, {}>>
\* The second commit does not pass one of the nodes' own validation.
FirstRefuses == {<<B, 1>>}
SecondRefuses == {<<B, 2>>}

\* Two edits, or an edit and a fault without a break-glass window.
TwoChanges ==
  edits + faults <= 2 /\ (faults > 0 => \A n \in Nodes : ~store[n].glass)
=============================================================================
