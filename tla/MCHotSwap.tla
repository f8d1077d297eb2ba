----------------------------- MODULE MCHotSwap -----------------------------
(* Model-checking instance of HotSwap: one request slot and five versions, so *)
(* that a slot can drain an old version over more swaps than the map keeps.   *)
EXTENDS HotSwap
=============================================================================
