---------------------------- MODULE RequestPath ----------------------------
(* One data plane's request path (gatewayd proxy.rs, proxy_support.rs) and   *)
(* the credential caches its requests share (aws_auth.rs, gcp_auth.rs,       *)
(* gateway-core aws.rs). Every action runs from one await to the next; the   *)
(* snapshot a request loaded is its configuration to the end.               *)
EXTENDS Scopes

CONSTANTS
  Requests,   \* request slots, each used once
  Offers,     \* per slot, the <<configuration, request>> pairs it may be
  Lifetime,   \* of minted credentials
  Margin,     \* REFRESH_MARGIN_SECS
  MaxTime,    \* bound on the clock
  MaxReplays  \* bound on pingora's replays on a stale upstream connection

ASSUME RequestPathAssumption ==
  /\ Lifetime \in Nat /\ Margin \in Nat /\ MaxTime \in Nat /\ MaxReplays \in Nat
  /\ \A r \in Requests : \A o \in Offers[r] :
       /\ DOMAIN o = {1, 2} /\ {"token", "claims", "path"} \subseteq DOMAIN o[2]
       /\ o[2].path \in Seq(STRING)
  /\ None \notin {"unknown_route", "default_response"}

VARIABLES
  snap,     \* ctx.snapshot: a configuration
  in,       \* what the client sent, its verified claims, and what CEL and each
            \* module would make of it
  pc,
  creds,    \* ctx.aws or ctx.gcp_bearer: [for, expires]
  signed,   \* ctx.signed_body, or None
  upstream, \* what the provider received of the last attempt
  replays,
  outcome,  \* the rejection's reason, an error status or "answered"
  cache,    \* credentials by cache key
  now

request == <<snap, in>>
vars == <<snap, in, pc, creds, signed, upstream, replays, outcome, cache, now>>

Init ==
  /\ snap = [r \in Requests |-> None] /\ in = [r \in Requests |-> None]
  /\ pc = [r \in Requests |-> "idle"] /\ creds = [r \in Requests |-> None]
  /\ signed = [r \in Requests |-> None] /\ upstream = [r \in Requests |-> None]
  /\ replays = [r \in Requests |-> 0] /\ outcome = [r \in Requests |-> None]
  /\ cache = <<>> /\ now = 0

(***************************************************************************)
(* What the request's snapshot says of it.                                 *)
(***************************************************************************)
Matched(r) == MatchRoute(snap[r], Normalize(in[r].path), in[r].holds)
Route(r) == snap[r].routes[Matched(r)]
Provider(r) == Route(r).provider
Final(r) == Policy(snap[r], Route(r), in[r])
Tag(r, k) == IF k \in Resolved(Final(r), in[r]) THEN Value(Final(r), in[r], k) ELSE None
CallerRaw(r, k) == Tag(r, k) # None /\ Origin(Final(r), k) = "caller"

Unresolved(r, keys) == \E k \in keys : Tag(r, k) = None

\* render_operator_template and resolve_session_tags refuse what resolved to
\* nothing, and what the caller asserted.
Unfit(r, keys, gated) == \E k \in keys : Tag(r, k) = None \/ (CallerRaw(r, k) /\ k \notin gated)

\* resolve_role_identity, then resolve_session_tags.
TagsRefused(r, sts) ==
  IF sts.allow # None /\ Tag(r, sts.allow.key) \notin {None} \cup sts.allow.values
  THEN "value_not_allowed"
  ELSE IF \/ Unresolved(r, AllowKey(sts))
          \/ Unfit(r, RoleKeys(sts), AllowKey(sts)) \/ Unfit(r, sts.tags, {})
       THEN "default_response" ELSE None

LocationRefused(r) ==
  Provider(r).locations # None /\ in[r].location \notin Provider(r).locations

ModelInPath(r) == Provider(r).kind \in {"bedrock", "vertex"}
ModelRefused(r) == Final(r).models # None /\ in[r].model \notin Final(r).models

\* The gates up to the first credential exchange, in the code's order. Budget
\* admission, among them, is Deny below.
FilterRefusal(r) ==
  IF Matched(r) = None THEN "unknown_route"
  ELSE IF Missing(Final(r), in[r]) # {} THEN "default_response"
  ELSE LET labels == Final(r).labels IN
       IF Provider(r).kind = "vertex" /\ Unresolved(r, {labels[l] : l \in DOMAIN labels})
       THEN "default_response"
       ELSE IF Provider(r).sts # None THEN TagsRefused(r, Provider(r).sts)
       ELSE IF LocationRefused(r) THEN "unknown_route" ELSE None

Refuse(r, reason) ==
  /\ outcome' = [outcome EXCEPT ![r] = reason] /\ pc' = [pc EXCEPT ![r] = "done"]

Goes(r, step) == pc' = [pc EXCEPT ![r] = step] /\ UNCHANGED outcome

(***************************************************************************)
(* request_filter.                                                         *)
(***************************************************************************)
Arrive(r) ==
  /\ pc[r] = "idle"
  /\ \E o \in Offers[r] :
       LET claims == VerifiedClaims(o[1].auth, o[2].token, now) IN
       /\ Accepted(o[1])
       /\ snap' = [snap EXCEPT ![r] = o[1]]
       /\ in' = [in EXCEPT ![r] = [o[2] EXCEPT !.claims = claims]]
  /\ Goes(r, "filter")
  /\ UNCHANGED <<creds, signed, upstream, replays, cache, now>>

\* admit_caps: some capped tag's counter is at its cap.
Deny(r) ==
  /\ pc[r] = "filter"
  /\ Matched(r) # None /\ Missing(Final(r), in[r]) = {}
  /\ \E k \in Resolved(Final(r), in[r]) : Capped(Final(r), k, Tag(r, k))
  /\ Refuse(r, "cap_exceeded")
  /\ UNCHANGED <<request, creds, signed, upstream, replays, cache, now>>

Filter(r) ==
  /\ pc[r] = "filter"
  /\ IF FilterRefusal(r) # None THEN Refuse(r, FilterRefusal(r))
     ELSE Goes(r, IF Provider(r).sts # None \/ Provider(r).auth THEN "lookup" ELSE "inject")
  /\ UNCHANGED <<request, creds, signed, upstream, replays, cache, now>>

\* What credentials are minted for: a chain's first hop, a service account's
\* bearer, or a role session with its tags. Session names that sanitize alike
\* are one value.
BaseHop == [hop |-> "base"]
ServiceAccount == [hop |-> "service account"]
Identity(r) ==
  LET sts == Provider(r).sts IN
  IF sts = None THEN ServiceAccount
  ELSE [hop |-> "role", role |-> [k \in sts.role |-> Tag(r, k)],
        session |-> [k \in sts.session |-> Tag(r, k)], tags |-> [k \in sts.tags |-> Tag(r, k)]]

KeyWithoutSession(identity) ==
  IF identity.hop = "role" THEN [identity EXCEPT !.session = <<>>] ELSE identity

CacheKey(identity) == identity

Fresh(key) == key \in DOMAIN cache /\ cache[key].expires > now + Margin
Minted(identity) == [for |-> identity, expires |-> now + Lifetime]

\* The cache with what was just minted for an identity filed under its key.
Filed(identity) ==
  [key \in DOMAIN cache \cup {CacheKey(identity)} |->
     IF key = CacheKey(identity) THEN Minted(identity) ELSE cache[key]]

Lookup(r) ==
  /\ pc[r] = "lookup"
  /\ IF Fresh(CacheKey(Identity(r)))
     THEN /\ creds' = [creds EXCEPT ![r] = cache[CacheKey(Identity(r))]]
          /\ Goes(r, "inject")
     ELSE /\ Goes(r, IF Provider(r).sts # None /\ Provider(r).sts.chained /\ ~Fresh(CacheKey(BaseHop))
                     THEN "base" ELSE "mint")
          /\ UNCHANGED creds
  /\ UNCHANGED <<request, signed, upstream, replays, cache, now>>

MintBase(r) ==
  /\ pc[r] = "base"
  /\ cache' = Filed(BaseHop)
  /\ Goes(r, "mint")
  /\ UNCHANGED <<request, creds, signed, upstream, replays, now>>

Mint(r) ==
  /\ pc[r] = "mint"
  /\ cache' = Filed(Identity(r))
  /\ creds' = [creds EXCEPT ![r] = Minted(Identity(r))]
  /\ Goes(r, "inject")
  /\ UNCHANGED <<request, signed, upstream, replays, now>>

ExchangeFailsOpen(r) ==
  /\ pc[r] \in {"base", "mint"}
  /\ Goes(r, "inject")
  /\ UNCHANGED <<request, creds, signed, upstream, replays, cache, now>>

\* Refused, timed out or unreadable: a 502, nothing cached.
ExchangeFails(r) ==
  /\ pc[r] \in {"base", "mint"}
  /\ Refuse(r, "502")
  /\ UNCHANGED <<request, creds, signed, upstream, replays, cache, now>>

ReadsEarly(r) ==
  \/ Provider(r).kind = "bedrock" /\ Provider(r).sts # None
  \/ Final(r).models # None /\ ~ModelInPath(r)

Forces(r) == Provider(r).inject # None /\ Provider(r).inject.body

Inject(r) ==
  /\ pc[r] = "inject"
  /\ IF Provider(r).inject # None /\ Unfit(r, Provider(r).inject.keys, {})
     THEN Refuse(r, "default_response")
     ELSE IF ModelInPath(r) /\ ModelRefused(r) THEN Refuse(r, "model_not_allowed")
     ELSE Goes(r, IF ReadsEarly(r) THEN "read" ELSE "module")
  /\ UNCHANGED <<request, creds, signed, upstream, replays, cache, now>>

\* A body is its content and what the gateway put into it.
Raw(r) == [content |-> in[r].body, marks |-> {}]
With(body, marks) == [body EXCEPT !.marks = @ \cup marks]

ReadKeepingRaw(r) == Raw(r)

\* The finalized body: only a signing provider's is merged here.
Finalized(r) ==
  IF Provider(r).sts # None /\ Forces(r) /\ in[r].body # "empty"
  THEN With(Raw(r), {"forced"}) ELSE Raw(r)

ReadBody(r) ==
  /\ pc[r] = "read"
  /\ IF ~ModelInPath(r) /\ (ModelRefused(r) \/ in[r].body # "json")
     THEN Refuse(r, "model_not_allowed") /\ UNCHANGED signed
     ELSE IF Finalized(r) # Raw(r) /\ in[r].body # "json"
     THEN Refuse(r, "default_response") /\ UNCHANGED signed
     ELSE signed' = [signed EXCEPT ![r] = Finalized(r)] /\ Goes(r, "module")
  /\ UNCHANGED <<request, creds, upstream, replays, cache, now>>

\* The on_request chain of the bound modules: the first decision other than
\* continue is the chain's, and a fault is a rejection.
Decision(r) ==
  LET decided == SelectSeq(in[r].modules, LAMBDA d : d # "continue")
  IN IF decided = <<>> THEN "continue"
     ELSE IF Head(decided) = "fault" THEN "reject" ELSE Head(decided)

Module(r) ==
  /\ pc[r] = "module"
  /\ IF Decision(r) = "reject" THEN Refuse(r, "default_response") ELSE Goes(r, "send")
  /\ UNCHANGED <<request, creds, signed, upstream, replays, cache, now>>

(***************************************************************************)
(* upstream_request_filter and request_body_filter, per attempt.           *)
(***************************************************************************)
Stripped(r) == Final(r).headers

Adjudicated(r) ==
  [k \in Final(r).headers \cap Resolved(Final(r), in[r]) |-> Tag(r, k)]

Mutated(r, headers) == IF Decision(r) = "remove" THEN <<>> ELSE headers

\* By key, the values under the operator-named headers.
Headers(r) ==
  Mutated(r, Adjudicated(r) @@ Restrict(in[r].caller, DOMAIN in[r].caller \ Stripped(r)))

Marks(r) ==
  (IF Provider(r).kind = "vertex" /\ DOMAIN Final(r).labels # {} THEN {"labels"} ELSE {})
    \cup (IF Forces(r) THEN {"forced"} ELSE {})

Body(r) == IF signed[r] # None THEN signed[r] ELSE With(Raw(r), Marks(r))

NoBody == [content |-> "empty", marks |-> {}]
Signature(r) == IF Provider(r).sts = None THEN None
                ELSE [by |-> creds[r].for, over |-> IF signed[r] = None THEN NoBody ELSE signed[r]]

Send(r) ==
  /\ pc[r] = "send"
  /\ IF signed[r] = None /\ Marks(r) # {} /\ in[r].body # "json"
     THEN Refuse(r, "400") /\ UNCHANGED <<signed, upstream>>
     ELSE /\ upstream' = [upstream EXCEPT ![r] =
                [path |-> Normalize(in[r].path), headers |-> Headers(r), body |-> Body(r),
                 signature |-> Signature(r)]]
          /\ signed' = [signed EXCEPT ![r] = None]
          /\ Goes(r, "sent")
  /\ UNCHANGED <<request, creds, replays, cache, now>>

\* pingora replays on another connection when a reused one turns out closed.
Replay(r) ==
  /\ pc[r] = "sent" /\ replays[r] < MaxReplays
  /\ replays' = [replays EXCEPT ![r] = @ + 1]
  /\ Goes(r, "send")
  /\ UNCHANGED <<request, creds, signed, upstream, cache, now>>

Answer(r) ==
  /\ pc[r] = "sent"
  /\ Refuse(r, "answered")
  /\ UNCHANGED <<request, creds, signed, upstream, replays, cache, now>>

\* Time counts from the first credential minted.
Tick ==
  /\ cache # <<>> /\ now < MaxTime
  /\ now' = now + 1
  /\ UNCHANGED <<request, pc, creds, signed, upstream, replays, outcome, cache>>

Serve(r) ==
  \/ Arrive(r) \/ Deny(r) \/ Filter(r) \/ Lookup(r) \/ MintBase(r) \/ Mint(r)
  \/ ExchangeFails(r) \/ Inject(r) \/ ReadBody(r) \/ Module(r)
  \/ Send(r) \/ Replay(r) \/ Answer(r)

Next == Tick \/ \E r \in Requests : Serve(r)
Spec == Init /\ [][Next]_vars

(***************************************************************************)
(* Properties.                                                             *)
(***************************************************************************)
Steps == {"idle", "filter", "lookup", "base", "mint", "inject", "read", "module", "send",
          "sent", "done"}
TypeOK ==
  /\ pc \in [Requests -> Steps] /\ replays \in [Requests -> 0 .. MaxReplays]
  /\ \A r \in Requests :
       /\ pc[r] = "idle" <=> snap[r] = None
       /\ pc[r] = "done" <=> outcome[r] # None
       /\ pc[r] = "sent" => upstream[r] # None
       /\ pc[r] \in {"inject", "read", "module", "send", "sent"} =>
            (creds[r] # None <=> Provider(r).sts # None \/ Provider(r).auth)
       /\ signed[r] # None => Matched(r) # None /\ ReadsEarly(r)
  /\ now \in 0 .. MaxTime

Routed(r) == snap[r] # None /\ Matched(r) \in DOMAIN snap[r].routes

\* "Statically unreachable": no accepted configuration lets a value the caller
\* asserted into role material, session tags or forced fields, but for the key
\* the allow-list closes (validate_effective_for_provider).
NeverCallerRaw ==
  \A r \in Requests : Routed(r) =>
    /\ Provider(r).sts # None =>
         /\ \A k \in Provider(r).sts.tags : ~CallerRaw(r, k)
         /\ \A k \in RoleKeys(Provider(r).sts) \ AllowKey(Provider(r).sts) : ~CallerRaw(r, k)
    /\ Provider(r).inject # None => \A k \in Provider(r).inject.keys : ~CallerRaw(r, k)

\* Credentials minted for one session never sign another's request, whatever
\* exchanges overlap and expire (the cache key names all that was minted for).
SignsAsItself == \A r \in Requests : creds[r] # None => creds[r].for = Identity(r)

\* What a provider accepts (its signature covers the body it got) carries the
\* forced fields, unless the client sent no body.
AcceptedCarriesPolicy ==
  \A r \in Requests :
    LET u == upstream[r] IN
    u # None /\ u.signature # None /\ u.signature.over = u.body /\ u.body.content # "empty"
      => (Forces(r) => "forced" \in u.body.marks)

\* A token of the configured algorithm, under one of its keys, says so of k.
Vouched(r, k) ==
  LET token == in[r].token auth == snap[r].auth IN
  /\ token # None /\ token.alg = auth.alg
  /\ \E key \in auth.keys : token.by = key.key
  /\ k \in DOMAIN token.claims /\ token.claims[k] = in[r].claims[k]

\* Whatever was forwarded under a selector's value met that value's contract:
\* its override is the policy that is enforced, not the one that selected it,
\* and a required key read from a claim was vouched for by a trusted key.
SentWasAdmitted ==
  \A r \in Requests : upstream[r] # None =>
    LET base == Compose(Route(r).chain)
        app == IF snap[r].selector \in Resolved(base, in[r])
               THEN Value(base, in[r], snap[r].selector) ELSE None
        contract == IF app \in DOMAIN snap[r].apps
                    THEN Compose(AppChain(snap[r], Route(r), app)) ELSE base
    IN /\ \A k \in contract.required :
            /\ Value(contract, in[r], k) # None
            /\ Origin(contract, k) = "proven" => Vouched(r, k)
       /\ contract.models = None \/ in[r].model \in contract.models

\* How a well-behaved provider reads a path: decode the dots, then resolve.
Decoded(s) == IF s \in Dots(1) THEN "." ELSE IF s \in Dots(2) THEN ".." ELSE s
ProviderReads(path) == NormalizePlain([i \in DOMAIN path |-> Decoded(path[i])])

\* "Gateway and upstream can never disagree about which resource the contract
\* was enforced for": the path as the provider reads it selects the same route.
RouteOfResource ==
  \A r \in Requests : upstream[r] # None =>
    MatchRoute(snap[r], ProviderReads(upstream[r].path), in[r].holds) = Matched(r)

\* "The default overrides unconditionally (operator wins)": whatever is sent as
\* a JSON body carries the fields the operator forces. False of the code: see
\* the README, section 5.
ForcedFieldsSent ==
  \A r \in Requests : upstream[r] # None /\ Forces(r) /\ upstream[r].body.content = "json"
    => "forced" \in upstream[r].body.marks
=============================================================================
