------------------------------- MODULE Scopes -------------------------------
(* The scoped policy chain (gateway-core scope.rs, validate.rs, config.rs):  *)
(* what finalize composes from the scopes of a file and refuses at load, and *)
(* how attribution.rs resolves a request under the composed policy.          *)
(*                                                                         *)
(* A scope is a record                                                     *)
(*   required : keys that must resolve, with Base to keep the parent's       *)
(*   pinned   : values the gateway assigns, by key                          *)
(*   claims, derived : keys read from a verified token, or computed          *)
(*   headers  : keys the caller may assert under an operator-named header    *)
(*   labels   : billing label -> the key it is read from, with Base as above *)
(*   caps     : by key, which values (and, as Base, all others) are capped   *)
(*   models   : the model gate's list, or None                              *)
(* Header names, label and template texts and cap amounts are left out.      *)
EXTENDS Integers, Sequences, FiniteSets, SequencesExt

CONSTANTS
  None,  \* an absent value
  Base   \* the explicit base marker of a list

NoScope ==
  [required |-> {}, pinned |-> <<>>, claims |-> {}, derived |-> {}, headers |-> {},
   labels |-> <<>>, caps |-> <<>>, models |-> None]

(***************************************************************************)
(* Composition. A list without the marker replaces the parent's; maps merge *)
(* and the lower scope wins.                                               *)
(***************************************************************************)
SpliceRequired(parent, child) ==
  IF child = {} THEN parent
  ELSE (child \ {Base}) \cup (IF Base \in child THEN parent ELSE {})

SpliceLabels(parent, child) ==
  IF DOMAIN child = {} THEN parent
  ELSE Restrict(child, DOMAIN child \ {Base}) @@ (IF Base \in DOMAIN child THEN parent ELSE <<>>)

ComposeCaps(parent, child) ==
  [k \in DOMAIN parent \cup DOMAIN child |->
     (IF k \in DOMAIN child THEN child[k] ELSE <<>>) @@
     (IF k \in DOMAIN parent THEN parent[k] ELSE <<>>)]

Lower(p, s) ==
  [required |-> SpliceRequired(p.required, s.required),
   pinned   |-> s.pinned @@ p.pinned,
   claims   |-> p.claims \cup s.claims,
   derived  |-> p.derived \cup s.derived,
   headers  |-> p.headers \cup s.headers,
   labels   |-> SpliceLabels(p.labels, s.labels),
   caps     |-> ComposeCaps(p.caps, s.caps),
   models   |-> IF s.models = None THEN p.models ELSE s.models]

Compose(chain) == FoldLeft(Lower, NoScope, chain)

Established(p) == DOMAIN p.pinned \cup p.claims \cup p.derived
Universe(p) == p.required \cup Established(p)

Capped(p, k, v) ==
  /\ k \in DOMAIN p.caps
  /\ LET value == IF v \in DOMAIN p.caps[k] THEN v ELSE Base
     IN value \in DOMAIN p.caps[k] /\ p.caps[k][value]

(***************************************************************************)
(* What finalize refuses.                                                  *)
(***************************************************************************)
Origins(s) == <<DOMAIN s.pinned, s.claims, s.derived>>

OneOrigin(chain) ==
  \A i, j \in DOMAIN chain : \A a, b \in 1 .. 3 :
     a # b => Origins(chain[i])[a] \cap Origins(chain[j])[b] = {}

\* A provider: [kind, sts, auth, locations, inject].
\* sts = [role, session, tags : keys of the templates, allow, chained] or None,
\* inject = [keys, body] or None: the keys its templates name, and whether it
\* forces body fields as well as headers.
ProviderOk(v) ==
  /\ v.sts # None => v.kind = "bedrock"
  /\ v.sts # None /\ v.sts.allow # None => v.sts.allow.values # {}
  /\ v.auth => v.kind = "vertex"
  /\ v.locations # None => v.kind = "vertex" /\ v.locations # {}
  /\ v.inject # None /\ v.kind = "bedrock" => v.sts # None

SourcesNamed(p, v) ==
  /\ p.required \subseteq Established(p) \cup p.headers
  /\ v.sts # None /\ v.sts.allow # None => v.sts.allow.key \in Established(p) \cup p.headers

RoleKeys(sts) == sts.role \cup sts.session
AllowKey(sts) == IF sts.allow = None THEN {} ELSE {sts.allow.key}

PolicyOkForKnownKeys(p, v) ==
  /\ v.inject # None => v.inject.keys \subseteq Universe(p)
  /\ v.kind = "vertex" => {p.labels[l] : l \in DOMAIN p.labels} \subseteq Universe(p)
  /\ v.sts # None =>
       /\ v.sts.tags \subseteq Universe(p)
       /\ RoleKeys(v.sts) \cup AllowKey(v.sts) \subseteq Universe(p)

\* validate_effective_for_provider: credentials and injection name only keys
\* the gateway establishes, but for the one key the allow-list closes.
PolicyOk(p, v) ==
  /\ v.inject # None => v.inject.keys \subseteq Established(p)
  /\ v.kind = "vertex" => {p.labels[l] : l \in DOMAIN p.labels} \subseteq Universe(p)
  /\ v.sts # None =>
       /\ v.sts.tags \subseteq Established(p)
       /\ RoleKeys(v.sts) \cup AllowKey(v.sts) \subseteq Universe(p)
       /\ RoleKeys(v.sts) \subseteq Established(p) \cup AllowKey(v.sts)

\* An app's scope may not touch the key that selected it, nor name headers.
AppScopeOk(c, s) ==
  s.headers = {} /\ c.selector \notin DOMAIN s.pinned \cup s.claims \cup s.derived

ChainOk(c, route, chain) ==
  LET p == Compose(chain) IN
  /\ OneOrigin(chain)
  /\ p.claims # {} => c.auth # None
  /\ SourcesNamed(p, route.provider) /\ PolicyOk(p, route.provider)

\* auth.jwt: None, or [alg, keys]: the one secret of HS256, or the RSA keys of a
\* parsed JWKS, each [kid, key], the kid None when the document gives none.
AuthOk(auth) ==
  auth # None => auth.keys # {} /\ (auth.alg = "HS256" => Cardinality(auth.keys) = 1)

\* A configuration: [auth, routes, selector, apps]; a route is
\* [prefix, conditioned, provider, chain], the chain being fleet, project, route.
AppChain(c, route, app) == Append(route.chain, c.apps[app])

RouteOk(c, route) ==
  /\ ProviderOk(route.provider)
  /\ ChainOk(c, route, route.chain)
  /\ \A app \in DOMAIN c.apps : ChainOk(c, route, AppChain(c, route, app))
  /\ DOMAIN Last(route.chain).labels # {} => route.provider.kind = "vertex"
  /\ DOMAIN c.apps # {} => c.selector \in Universe(Compose(route.chain))

Accepted(c) ==
  /\ c.routes # <<>> /\ AuthOk(c.auth)
  /\ \A i \in DOMAIN c.routes : RouteOk(c, c.routes[i])
  /\ \A i, j \in DOMAIN c.routes :
       i # j /\ ~c.routes[i].conditioned /\ ~c.routes[j].conditioned
         => c.routes[i].prefix # c.routes[j].prefix
  /\ \A app \in DOMAIN c.apps : AppScopeOk(c, c.apps[app])

(***************************************************************************)
(* Routing. A path is a sequence of segments.                              *)
(***************************************************************************)
\* Dot segments resolved; here are those that name the directory itself, up
\* those that name its parent.
Collapse(path, here, up) ==
  FoldLeft(LAMBDA done, s : CASE s \in here -> done
                              [] s \in up -> SubSeq(done, 1, Len(done) - 1)
                              [] OTHER -> Append(done, s), <<>>, path)

NormalizePlain(path) == Collapse(path, {"."}, {".."})

Dots(n) == IF n = 1 THEN {".", "%2e"} ELSE {"..", ".%2e", "%2e.", "%2e%2e"}

Normalize(path) == Collapse(path, Dots(1), Dots(2))

Better(c, i, j) ==
  LET ri == c.routes[i] rj == c.routes[j] IN
  \/ Len(ri.prefix) > Len(rj.prefix)
  \/ /\ Len(ri.prefix) = Len(rj.prefix)
     /\ (ri.conditioned /\ ~rj.conditioned) \/ (ri.conditioned = rj.conditioned /\ i <= j)

\* The matched route's index, or None; holds: whether the condition does.
MatchRoute(c, path, holds) ==
  LET found == {i \in DOMAIN c.routes : /\ IsPrefix(c.routes[i].prefix, path)
                                        /\ c.routes[i].conditioned => holds}
  IN IF found = {} THEN None ELSE CHOOSE i \in found : \A j \in found : Better(c, i, j)

(***************************************************************************)
(* Tokens. A bearer token is [alg, kid, by, exp, claims], by naming the key  *)
(* its signature verifies under; None stands for one absent or unreadable.   *)
(***************************************************************************)
Candidates(keys, kid) ==
  LET named == {k \in keys : kid # None /\ k.kid = kid}
  IN IF named # {} THEN named ELSE keys

Verified(auth, token, time) ==
  /\ token.alg = auth.alg
  /\ \E k \in Candidates(auth.keys, token.kid) : token.by = k.key
  /\ token.exp # None => token.exp >= time

VerifiedClaims(auth, token, time) ==
  IF auth # None /\ token # None /\ Verified(auth, token, time) THEN token.claims ELSE <<>>

(***************************************************************************)
(* Attribution. A request brings caller (headers), claims (of a verified    *)
(* token) and derived (what evaluates): values by key.                     *)
(***************************************************************************)
At(f, k) == IF k \in DOMAIN f THEN f[k] ELSE None

Origin(p, k) ==
  CASE k \in DOMAIN p.pinned -> "assigned"
    [] k \in p.claims \ DOMAIN p.pinned -> "proven"
    [] k \in p.derived \ (DOMAIN p.pinned \cup p.claims) -> "derived"
    [] OTHER -> "caller"

Value(p, q, k) ==
  CASE Origin(p, k) = "assigned" -> p.pinned[k]
    [] Origin(p, k) = "proven" -> At(q.claims, k)
    [] Origin(p, k) = "derived" -> At(q.derived, k)
    [] Origin(p, k) = "caller" -> IF k \in p.headers THEN At(q.caller, k) ELSE None

Resolved(p, q) == {k \in Universe(p) : Value(p, q, k) # None}
Missing(p, q) == p.required \ Resolved(p, q)

BasePolicyOnly(c, route, q) == Compose(route.chain)

\* The app override that the resolved selector picks is the final policy.
Policy(c, route, q) ==
  LET base == Compose(route.chain)
      app == IF c.selector \in Resolved(base, q) THEN Value(base, q, c.selector) ELSE None
  IN IF app \in DOMAIN c.apps THEN Compose(AppChain(c, route, app)) ELSE base
=============================================================================
