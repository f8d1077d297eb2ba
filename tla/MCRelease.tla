------------------------------ MODULE MCRelease ------------------------------
(* Model-checking instance of Release: a plain repository, one whose          *)
(* GatewaySets pass one by one but not together, one whose overlay admission  *)
(* blocks, one that does not render, and one whose canary policy is refused.  *)
EXTENDS Release

CONSTANTS A, B, C, D, E

MCProvider == [kind |-> "openai", sts |-> None, auth |-> FALSE, locations |-> None, inject |-> None]

Canary == [p99Factor |-> 2, spendFactor |-> 2, zscore |-> 3, errorIncrease |-> 5]

Files ==
  (<<"required">> :> {"team", "tenant"}) @@ (<<"header", "team">> :> TRUE)
  @@ (<<"header", "tenant">> :> TRUE) @@ (<<"pinned", "tpm">> :> 10)
  @@ (<<"routes">> :> <<NoScope>>)
  @@ (<<"body", "default_response">> :> "text") @@ (<<"body", "unknown_route">> :> "text")

Set(name, selector, overlay) == [name |-> name, selector |-> selector, overlay |-> overlay]

\* A regional override that raises a cap as far as it may, a tier that asks
\* for fewer keys, and one with a lower cap for everyone.
Regional ==
  Set(2, [region |-> <<"eu", "us">>],
      (<<"app key">> :> "tenant") @@ (<<"app pinned", "acme", "tpm">> :> 40))
Gold == Set(3, [tier |-> <<"gold">>], <<"required">> :> {"team"})
Silver == Set(1, [tier |-> <<"silver">>], <<"pinned", "tpm">> :> 1)
Blank == Set(1, [region |-> <<"eu">>], <<"body", "default_response">> :> "blank")

Repo(files, sets, waves, canary_) ==
  [files |-> files, sets |-> sets, waves |-> waves, canary |-> canary_]
Wave(name, selector) == [name |-> name, selector |-> selector]

MCRepos ==
  (A :> Repo(Files, <<>>, <<>>, Canary)) @@
  (B :> Repo(Files, <<Gold, Silver, Regional>>, <<Wave("canary", [region |-> <<"eu">>])>>, Canary)) @@
  (C :> Repo(Files, <<Blank>>, <<Wave("w", <<>>), Wave("w", <<>>)>>, Canary)) @@
  (D :> Repo(Restrict(Files, {<<"required">>}), <<>>, <<>>, Canary)) @@
  (E :> Repo(Files, <<>>, <<>>, [Canary EXCEPT !.zscore = 0]))

MCFleets ==
  {[region |-> "eu"], [region |-> "us", tier |-> "gold"], [region |-> "eu", tier |-> "silver"]}
=============================================================================
