--------------------------- MODULE MCFleetBudgets ---------------------------
(* FleetBudgets for TLC. Nodes and secrets are interchangeable, so it is      *)
(* enough that the first node was started with the first secret. A behaviour  *)
(* is about tokens and time, with one value in use, or about two values that  *)
(* compete for a node's reports: with a token per node, a clock that stands,  *)
(* one chunk of the second value on the first node and up to two on the       *)
(* second, which is asked for nothing else and keeps its stream.              *)
EXTENDS FleetBudgets

CONSTANTS n1, n2, s1, s2, v1, v2

VARIABLE both   \* whether both values are in use

MCInit ==
  /\ Init
  /\ both \in BOOLEAN
  /\ secretOf[n1] = s1
  /\ both => secretOf[n2] = s2

\* What clients ask for and what fails; the rest of Next is as it is.
Story ==
  IF both
  THEN /\ now' = 0
       /\ entry'[n1][v2].spent <= Chunk
       /\ entry'[n2][v1].spent = 0
       /\ entry'[n2][v2].spent <= Chunk \/ faults' = 0
       /\ conn[n2] # 0 => conn'[n2] # 0
  ELSE \A n \in Nodes : entry'[n][v2].spent = 0

MCNext == Next /\ Story /\ UNCHANGED both

MCSpec == MCInit /\ [][MCNext]_<<vars, both>> /\ Fairness
=============================================================================
