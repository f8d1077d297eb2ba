------------------------------ MODULE MCCanary ------------------------------
(* Model-checking instance of Canary: one canary node, two peers.            *)
EXTENDS Canary

MCPolicy ==
  [window |-> 1, metrics |-> {"error_rate", "p99", "spend_anomaly"}, errorIncrease |-> 5,
   p99Factor |-> 150, spendFactor |-> 150, zscore |-> 100]

Health(healthy, req, err, p99) == [healthy |-> healthy, req |-> req, err |-> err, p99 |-> p99]

\* "ok req=1 err=0 p99=1", "ok req=2 p99=3", "degraded".
MCReports ==
  {Health(TRUE, 1, 0, 1), Health(TRUE, 2, NoTally, 3), Health(FALSE, NoTally, NoTally, NoTally)}
=============================================================================
