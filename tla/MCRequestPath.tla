--------------------------- MODULE MCRequestPath ---------------------------
(* What requests may meet: configurations over the keys team (which selects  *)
(* an app's override) and user, the one or two routes they have, and inputs. *)
(* Configurations the validator refuses are offered too: Arrive drops them.  *)
EXTENDS RequestPath

With1(f) == f @@ NoScope

\* Where a key comes from.
From(k, origin) ==
  CASE origin = "caller"  -> [headers |-> {k}]
    [] origin = "claim"   -> [claims |-> {k}, headers |-> {k}]
    [] origin = "pinned"  -> [pinned |-> k :> "p"]
    [] origin = "derived" -> [derived |-> {k}]

Fleet(origin) == With1(From("team", origin) @@ [required |-> {"team"}])
Project(origin) == With1(From("user", origin))
Gate == With1([caps |-> "team" :> ("a1" :> TRUE @@ Base :> FALSE), models |-> {"m1"},
               required |-> {Base, "user"}])
Labels == With1([labels |-> "cost" :> "team"])

Overrides ==
  {With1(f) : f \in {[required |-> {"user"}], [required |-> {Base, "user"}],
     [pinned |-> "user" :> "q"], [pinned |-> "team" :> "q"], [models |-> {"m2"}],
     [derived |-> {"user"}, models |-> {"m1"}]}}
NoApps == <<>>

Sts(role, allow, chained) ==
  [role |-> role, session |-> {"user"}, tags |-> {"team"}, allow |-> allow, chained |-> chained]
UserGate == [key |-> "user", values |-> {"u1", "q", "p"}]
Provider0 == [kind |-> "openai", sts |-> None, auth |-> FALSE, locations |-> None, inject |-> None]
Bedrock(sts) == [Provider0 EXCEPT !.kind = "bedrock", !.sts = sts]
Forcing(provider, keys, body) ==
  [provider EXCEPT !.inject = [keys |-> keys, body |-> body]]
Vertex(auth, locations) ==
  [Provider0 EXCEPT !.kind = "vertex", !.auth = auth, !.locations = locations]

\* An identity provider with two keys, and what it signs.
Idp == [alg |-> "RS256", keys |-> {[kid |-> "k1", key |-> "K1"], [kid |-> "k2", key |-> "K2"]}]
Secret == [alg |-> "HS256", keys |-> {[kid |-> None, key |-> "S"]}]
Token(claims) == [alg |-> "RS256", kid |-> "k1", by |-> "K1", exp |-> None, claims |-> claims]

At1(prefix, conditioned, provider, chain) ==
  [prefix |-> prefix, conditioned |-> conditioned, provider |-> provider, chain |-> chain]
One(provider, chain, apps) ==
  [auth |-> Idp, selector |-> "team", apps |-> apps,
   routes |-> <<At1(<<"a">>, FALSE, provider, chain)>>]

Input ==
  [path |-> <<"a", "x">>, holds |-> TRUE, caller |-> "team" :> "a1" @@ "user" :> "u1",
   token |-> Token("team" :> "a1" @@ "user" :> "u1"), claims |-> <<>>, derived |-> "user" :> "d", location |-> "eu",
   model |-> "m1", body |-> "json", modules |-> <<>>]

\* Who asserts and who proves what, under every origin and every override.
Attributed ==
  {<<One(provider, <<Fleet(team), Project(user), NoScope>>, apps), i>> :
     team \in {"caller", "claim"}, user \in {"caller", "claim", "pinned", "derived"},
     apps \in {NoApps} \cup {"a1" :> s : s \in Overrides},
     provider \in {Bedrock(Sts({"user"}, None, FALSE)), Bedrock(Sts({}, UserGate, TRUE)),
                   Forcing(Provider0, {"user"}, FALSE)},
     i \in {[Input EXCEPT !.token = Token("team" :> "a1" @@ c)] : c \in {<<>>, "user" :> "u2"}}}

\* Every provider under the model gate or not, with every body and module.
Forwarded ==
  {<<One(provider, <<Fleet("claim"), Project("claim"), route>>, NoApps),
     [Input EXCEPT !.body = body, !.modules = modules, !.model = model]>> :
     provider \in {Provider0, Forcing(Provider0, {"team"}, TRUE),
                   Forcing(Bedrock(Sts({"user"}, None, FALSE)), {"team"}, TRUE), Bedrock(None),
                   Vertex(TRUE, {"eu"}), Forcing(Vertex(TRUE, {"us"}), {"team"}, TRUE),
                   Vertex(FALSE, None)},
     route \in {NoScope, Gate, Labels}, <<body, model>> \in {<<"json", "m1">>, <<"text", "m1">>, <<"empty", "m1">>, <<"json", "m2">>},
     modules \in {<<>>, <<"continue", "fault">>, <<"remove", "reject">>}}

\* Two routes under different contracts, reached by every spelling.
Routed2 ==
  {<<[auth |-> None, selector |-> "team", apps |-> NoApps,
      routes |-> <<At1(<<"a">>, FALSE, Provider0, <<Fleet("caller"), NoScope, NoScope>>),
                   At1(<<"b">>, c, Provider0, <<NoScope, NoScope, NoScope>>),
                   At1(<<"b">>, FALSE, Provider0, <<Project("caller"), Gate, NoScope>>)>>],
     [Input EXCEPT !.path = path, !.holds = holds]>> :
     c \in BOOLEAN, holds \in BOOLEAN,
     path \in {<<"a", s, "b">> : s \in {"x"} \cup Dots(1) \cup Dots(2)}
              \cup {<<"..", "b">>, <<"b">>, <<"c">>}}

\* Two sessions of one role, and the service account.
Session(user) ==
  <<One(Bedrock(Sts({}, None, TRUE)), <<Fleet("claim"), Project("claim"), NoScope>>, NoApps),
    [Input EXCEPT !.token.claims = "team" :> "a1" @@ "user" :> user]>>
Account == <<One(Vertex(TRUE, None), <<Fleet("claim"), NoScope, NoScope>>, NoApps), Input>>
Sharing == {Session("u1"), Session("u2"), Account}

\* Every way a token may fail, or be verified under a key it does not name.
Tokens ==
  {None} \cup
  {[Token("team" :> "a1" @@ c) EXCEPT !.alg = t[1], !.kid = t[2], !.by = t[3], !.exp = t[4]] :
     c \in {<<>>, "user" :> "u1"},
     t \in {<<"RS256", "k1", "K1", 0>>, <<"RS256", "k9", "K2", None>>, <<"RS256", None, "K2", 1>>,
            <<"RS256", "k1", "K2", None>>, <<"RS256", "k1", "forged", None>>,
            <<"HS256", None, "S", None>>, <<"none", None, "S", None>>}}
Presented ==
  {<<[One(Bedrock(Sts({}, None, FALSE)), <<Fleet("claim"), Project("claim"), NoScope>>, NoApps)
        EXCEPT !.auth = auth],
     [Input EXCEPT !.token = token]>> :
     auth \in {None, Idp, Secret, [Secret EXCEPT !.keys = {}]}, token \in Tokens}

MCOffers ==
  [r \in Requests |->
     IF r = "r1" THEN Attributed \cup Forwarded \cup Routed2 \cup Presented
                          \cup Sharing
     ELSE {Session("u1"), Account}]

\* The second request is only there to share the caches: what the first one is
\* otherwise, it is alone.
AloneOrSharing ==
  snap["r1"] # None /\ (\E r \in Requests \ {"r1"} : snap[r] # None) =>
    \E o \in Sharing : snap["r1"] = o[1]
=============================================================================
