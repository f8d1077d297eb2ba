------------------------ MODULE RequestPath_proofs ------------------------
(* Proofs about RequestPath for any configurations, inputs, number of        *)
(* requests, replays and credential lifetimes. Policies stay opaque: no proof  *)
(* depends on how scopes compose. Paths do not: what normalization leaves of  *)
(* one is proved over its segments.                                          *)
EXTENDS RequestPath, SumLemmas

Indexed ==
  /\ DOMAIN snap = Requests /\ DOMAIN in = Requests
  /\ DOMAIN pc = Requests /\ DOMAIN upstream = Requests

\* The shape of the state: every table has one entry per request.
LEMMA IndexedHolds == Spec => []Indexed
<1>1. Init => Indexed
  BY DEF Init, Indexed
<1>2. Indexed /\ [Next]_vars => Indexed'
  <2> SUFFICES ASSUME Indexed, [Next]_vars PROVE Indexed'
    OBVIOUS
  <2> USE DEF Indexed, request
  <2>1. CASE UNCHANGED vars
    BY <2>1 DEF vars
  <2>2. CASE Tick
    BY <2>2 DEF Tick
  <2>3. ASSUME NEW r \in Requests, Serve(r) PROVE Indexed'
    <3>1. CASE Arrive(r)
      BY <3>1 DEF Arrive, Goes
    <3>2. CASE Deny(r) \/ Filter(r) \/ Lookup(r)
      BY <3>2 DEF Deny, Filter, Lookup, Goes, Refuse
    <3>3. CASE MintBase(r) \/ Mint(r) \/ ExchangeFails(r)
      BY <3>3 DEF MintBase, Mint, ExchangeFails, Goes, Refuse
    <3>4. CASE Inject(r) \/ ReadBody(r) \/ Module(r)
      BY <3>4 DEF Inject, ReadBody, Module, Goes, Refuse
    <3>5. CASE Send(r) \/ Replay(r) \/ Answer(r)
      BY <3>5 DEF Send, Replay, Answer, Goes, Refuse
    <3>6. QED
      BY <2>3, <3>1, <3>2, <3>3, <3>4, <3>5 DEF Serve
  <2>4. QED
    BY <2>1, <2>2, <2>3 DEF Next
<1>3. QED
  BY <1>1, <1>2, PTL DEF Spec

(***************************************************************************)
(* A request runs under an accepted configuration, to the end.             *)
(***************************************************************************)
Validated == \A r \in Requests : snap[r] # None => Accepted(snap[r])

\* Only Arrive binds a configuration, and only an accepted one.
LEMMA ValidatedHolds == Spec => []Validated
<1>1. Init => Validated
  BY DEF Init, Validated
<1>2. Indexed /\ Validated /\ [Next]_vars => Validated'
  <2> SUFFICES ASSUME Indexed, Validated, [Next]_vars PROVE Validated'
    OBVIOUS
  <2>1. CASE snap' = snap
    BY <2>1 DEF Validated
  <2>2. ASSUME NEW r \in Requests, Arrive(r) PROVE Validated'
    <3>1. PICK o \in Offers[r] : Accepted(o[1]) /\ snap' = [snap EXCEPT ![r] = o[1]]
      BY <2>2 DEF Arrive
    <3>2. QED
      BY <3>1 DEF Validated, Indexed
  <2>3. ASSUME NEW r \in Requests, Serve(r), ~Arrive(r) PROVE snap' = snap
    BY <2>3 DEF Serve, request, Deny, Filter, Lookup, MintBase, Mint, ExchangeFails, Inject,
                ReadBody, Module, Send, Replay, Answer
  <2>4. QED
    BY <2>1, <2>2, <2>3 DEF Next, Tick, vars, request
<1>3. QED
  BY <1>1, <1>2, IndexedHolds, PTL DEF Spec

\* The policy a request runs under passed its provider's checks, whichever
\* app override it selected.
LEMMA FinalIsChecked ==
  ASSUME Validated, NEW r \in Requests, Routed(r)
  PROVE PolicyOk(Final(r), Provider(r))
<1>1. RouteOk(snap[r], Route(r))
  BY DEF Validated, Routed, Accepted, Route
<1>2. PolicyOk(Compose(Route(r).chain), Provider(r))
  BY <1>1 DEF RouteOk, ChainOk, Provider
<1>3. \A app \in DOMAIN snap[r].apps :
        PolicyOk(Compose(AppChain(snap[r], Route(r), app)), Provider(r))
  BY <1>1 DEF RouteOk, ChainOk, Provider
<1>4. QED
  BY <1>2, <1>3 DEF Final, Policy

\* A key the policy establishes never takes the caller's word.
LEMMA EstablishedIsNotCaller ==
  ASSUME NEW r \in Requests, NEW k, k \in Established(Final(r))
  PROVE ~CallerRaw(r, k)
BY DEF Established, CallerRaw, Origin

\* No accepted configuration lets a caller-asserted value into role material,
\* session tags or forced fields (validate_effective_for_provider).
THEOREM NoCallerRawMaterial == Spec => []NeverCallerRaw
<1>1. Validated => NeverCallerRaw
  <2> SUFFICES ASSUME Validated, NEW r \in Requests, Routed(r)
               PROVE /\ Provider(r).sts # None =>
                          /\ \A k \in Provider(r).sts.tags : ~CallerRaw(r, k)
                          /\ \A k \in RoleKeys(Provider(r).sts) \ AllowKey(Provider(r).sts) :
                               ~CallerRaw(r, k)
                     /\ Provider(r).inject # None =>
                          \A k \in Provider(r).inject.keys : ~CallerRaw(r, k)
    BY DEF NeverCallerRaw
  <2>1. PolicyOk(Final(r), Provider(r))
    BY FinalIsChecked
  <2>2. \A k \in Established(Final(r)) : ~CallerRaw(r, k)
    BY EstablishedIsNotCaller
  <2>3. QED
    BY <2>1, <2>2 DEF PolicyOk
<1>2. QED
  BY <1>1, ValidatedHolds, PTL

(***************************************************************************)
(* The gates: attribution before anything else, the model gate before the   *)
(* modules, and so both before anything is forwarded.                      *)
(***************************************************************************)
PastFilter == {"lookup", "base", "mint", "inject", "read", "module", "send", "sent"}
PastGates == {"module", "send", "sent"}

Attributed(r) == Missing(Final(r), in[r]) = {}

Gated(r) ==
  /\ pc[r] = "idle" => upstream[r] = None
  /\ pc[r] \in PastFilter => Attributed(r)
  /\ pc[r] = "read" /\ ModelInPath(r) => ~ModelRefused(r)
  /\ pc[r] \in PastGates => ~ModelRefused(r)
  /\ upstream[r] # None => Attributed(r) /\ ~ModelRefused(r)

GateInv == \A r \in Requests : Gated(r)

\* What a request has passed depends on its own entries only.
LEMMA OthersKeepTheirGates ==
  ASSUME NEW r \in Requests, Gated(r), snap'[r] = snap[r], in'[r] = in[r],
         pc'[r] = pc[r], upstream'[r] = upstream[r]
  PROVE Gated(r)'
BY DEF Gated, Attributed, Final, Route, Matched, ModelInPath, ModelRefused, Provider

\* The same of a request whose configuration and input stay.
LEMMA VerdictsStay ==
  ASSUME NEW r \in Requests, snap' = snap, in' = in
  PROVE /\ Attributed(r)' = Attributed(r) /\ ModelRefused(r)' = ModelRefused(r)
        /\ ModelInPath(r)' = ModelInPath(r)
BY DEF Attributed, Final, Route, Matched, ModelInPath, ModelRefused, Provider

\* Each step of a request takes it from gate to gate.
LEMMA StepKeepsGates ==
  ASSUME Indexed, NEW r \in Requests, Gated(r), Serve(r)
  PROVE Gated(r)'
<1>1. CASE Arrive(r)
  BY <1>1 DEF Arrive, Goes, Gated, Indexed, PastFilter, PastGates
<1>2. ASSUME ~Arrive(r) PROVE snap' = snap /\ in' = in
  BY <1>2 DEF Serve, request, Deny, Filter, Lookup, MintBase, Mint, ExchangeFails, Inject,
              ReadBody, Module, Send, Replay, Answer
<1>3. ASSUME ~Arrive(r)
      PROVE /\ Attributed(r)' = Attributed(r) /\ ModelRefused(r)' = ModelRefused(r)
            /\ ModelInPath(r)' = ModelInPath(r)
  BY <1>2, <1>3, VerdictsStay
<1>4. CASE Filter(r)
  <2>1. ~Arrive(r)
    BY <1>4 DEF Filter, Arrive
  <2>2. pc'[r] \in PastFilter => Attributed(r)
    <3>1. None # "unknown_route" /\ None # "default_response"
      BY RequestPathAssumption
    <3>2. FilterRefusal(r) = None => Attributed(r)
      BY <3>1 DEF FilterRefusal, Attributed
    <3>3. FilterRefusal(r) # None => pc'[r] = "done"
      BY <1>4 DEF Filter, Refuse, Indexed
    <3>4. QED
      BY <3>2, <3>3 DEF PastFilter
  <2>3. /\ upstream' = upstream /\ pc'[r] # "read" /\ pc'[r] \notin PastGates /\ pc'[r] # "idle"
    BY <1>4 DEF Filter, Refuse, Goes, Indexed, PastGates
  <2>4. QED
    BY <1>3, <2>1, <2>2, <2>3 DEF Gated
<1>5. CASE Deny(r) \/ Lookup(r) \/ MintBase(r) \/ Mint(r) \/ ExchangeFails(r)
  <2>1. ~Arrive(r)
    BY <1>5 DEF Deny, Lookup, MintBase, Mint, ExchangeFails, Arrive
  <2>2. /\ upstream' = upstream
        /\ pc'[r] = "done" \/ (pc[r] \in PastFilter /\ pc'[r] \in {"inject", "base", "mint"})
    BY <1>5 DEF Deny, Lookup, MintBase, Mint, ExchangeFails, Refuse, Goes, Indexed, PastFilter
  <2>3. QED
    BY <1>3, <2>1, <2>2 DEF Gated, PastFilter, PastGates
<1>6. CASE Inject(r)
  <2>1. ~Arrive(r)
    BY <1>6 DEF Inject, Arrive
  <2>2. /\ pc[r] = "inject" /\ upstream' = upstream
        /\ \/ pc'[r] = "done"
           \/ pc'[r] = "read" /\ (ModelInPath(r) => ~ModelRefused(r))
           \/ pc'[r] = "module" /\ (ModelInPath(r) => ~ModelRefused(r)) /\ ~ReadsEarly(r)
    BY <1>6 DEF Inject, Refuse, Goes, Indexed
  <2>3. ~ReadsEarly(r) /\ ~ModelInPath(r) => ~ModelRefused(r)
    BY DEF ReadsEarly, ModelRefused
  <2>4. QED
    BY <1>3, <2>1, <2>2, <2>3 DEF Gated, PastFilter, PastGates
<1>7. CASE ReadBody(r)
  <2>1. ~Arrive(r)
    BY <1>7 DEF ReadBody, Arrive
  <2>2. /\ pc[r] = "read" /\ upstream' = upstream
        /\ pc'[r] = "done" \/ (pc'[r] = "module" /\ (~ModelInPath(r) => ~ModelRefused(r)))
    BY <1>7 DEF ReadBody, Refuse, Goes, Indexed
  <2>3. QED
    BY <1>3, <2>1, <2>2 DEF Gated, PastFilter, PastGates
<1>8. CASE Module(r) \/ Replay(r) \/ Answer(r)
  <2>1. ~Arrive(r)
    BY <1>8 DEF Module, Replay, Answer, Arrive
  <2>2. pc[r] \in PastGates /\ upstream' = upstream /\ pc'[r] \in {"done", "send"}
    BY <1>8 DEF Module, Replay, Answer, Refuse, Goes, Indexed, PastGates
  <2>3. QED
    BY <1>3, <2>1, <2>2 DEF Gated, PastFilter, PastGates
<1>9. CASE Send(r)
  <2>1. ~Arrive(r)
    BY <1>9 DEF Send, Arrive
  <2>2. pc[r] = "send" /\ pc'[r] \in {"done", "sent"}
    BY <1>9 DEF Send, Refuse, Goes, Indexed
  <2>3. QED
    BY <1>3, <2>1, <2>2 DEF Gated, PastFilter, PastGates
<1>10. QED
  BY <1>1, <1>4, <1>5, <1>6, <1>7, <1>8, <1>9 DEF Serve

\* A step of one request leaves the entries of the others.
LEMMA StepIsLocal ==
  ASSUME Indexed, NEW r \in Requests, NEW q \in Requests, q # r, Serve(r)
  PROVE snap'[q] = snap[q] /\ in'[q] = in[q] /\ pc'[q] = pc[q] /\ upstream'[q] = upstream[q]
<1>1. CASE Arrive(r)
  BY <1>1 DEF Arrive, Goes, Indexed
<1>2. CASE Deny(r) \/ Filter(r) \/ Lookup(r) \/ MintBase(r) \/ Mint(r) \/ ExchangeFails(r)
  BY <1>2 DEF Deny, Filter, Lookup, MintBase, Mint, ExchangeFails, Goes, Refuse, request, Indexed
<1>3. CASE Inject(r) \/ ReadBody(r) \/ Module(r)
  BY <1>3 DEF Inject, ReadBody, Module, Goes, Refuse, request, Indexed
<1>4. CASE Send(r) \/ Replay(r) \/ Answer(r)
  BY <1>4 DEF Send, Replay, Answer, Goes, Refuse, request, Indexed
<1>5. QED
  BY <1>1, <1>2, <1>3, <1>4 DEF Serve

LEMMA GatesHold == Spec => []GateInv
<1>1. Init => GateInv
  BY DEF Init, GateInv, Gated, PastFilter, PastGates
<1>2. Indexed /\ GateInv /\ [Next]_vars => GateInv'
  <2> SUFFICES ASSUME Indexed, GateInv, [Next]_vars, NEW q \in Requests PROVE Gated(q)'
    BY DEF GateInv
  <2>1. Gated(q)
    BY DEF GateInv
  <2>2. CASE UNCHANGED <<snap, in, pc, upstream>>
    BY <2>1, <2>2, OthersKeepTheirGates
  <2>3. ASSUME NEW r \in Requests, Serve(r), q # r PROVE Gated(q)'
    <3>1. snap'[q] = snap[q] /\ in'[q] = in[q] /\ pc'[q] = pc[q] /\ upstream'[q] = upstream[q]
      BY <2>3, StepIsLocal
    <3>2. QED
      BY <2>1, <3>1, OthersKeepTheirGates
  <2>4. ASSUME Serve(q) PROVE Gated(q)'
    BY <2>1, <2>4, StepKeepsGates
  <2>5. QED
    BY <2>2, <2>3, <2>4 DEF Next, Tick, vars, request
<1>3. QED
  BY <1>1, <1>2, IndexedHolds, PTL DEF Spec

(***************************************************************************)
(* The claims a request resolves with are those of its own token, verified.  *)
(***************************************************************************)
FromToken(r) ==
  LET token == in[r].token IN
  \/ DOMAIN in[r].claims = {}
  \/ /\ token # None /\ token.alg = snap[r].auth.alg
     /\ \E key \in snap[r].auth.keys : token.by = key.key
     /\ in[r].claims = token.claims

ClaimsInv == \A r \in Requests : pc[r] # "idle" => FromToken(r)

\* Verification hands out a trusted token's claims or none (verified_claims).
LEMMA ClaimsAreTrusted ==
  ASSUME NEW auth, NEW token, NEW time,
         NEW claims, claims = VerifiedClaims(auth, token, time)
  PROVE \/ DOMAIN claims = {}
        \/ /\ token # None /\ token.alg = auth.alg
           /\ \E key \in auth.keys : token.by = key.key
           /\ claims = token.claims
<1>1. CASE auth # None /\ token # None /\ Verified(auth, token, time)
  <2>1. \E key \in auth.keys : token.by = key.key
    BY <1>1 DEF Verified, Candidates
  <2>2. claims = token.claims /\ token # None /\ token.alg = auth.alg
    BY <1>1 DEF VerifiedClaims, Verified
  <2>3. QED
    BY <2>1, <2>2
<1>2. CASE ~(auth # None /\ token # None /\ Verified(auth, token, time))
  BY <1>2 DEF VerifiedClaims
<1>3. QED
  BY <1>1, <1>2

\* Only Arrive sets a request's claims.
LEMMA ClaimsHold == Spec => []ClaimsInv
<1>1. Init => ClaimsInv
  BY DEF Init, ClaimsInv
<1>2. Indexed /\ ClaimsInv /\ [Next]_vars => ClaimsInv'
  <2> SUFFICES ASSUME Indexed, ClaimsInv, [Next]_vars PROVE ClaimsInv'
    OBVIOUS
  <2>1. CASE UNCHANGED <<snap, in, pc>>
    BY <2>1 DEF ClaimsInv, FromToken
  <2>2. ASSUME NEW r \in Requests, Arrive(r) PROVE ClaimsInv'
    <3>1. PICK o \in Offers[r] :
            /\ snap' = [snap EXCEPT ![r] = o[1]]
            /\ in' = [in EXCEPT ![r] =
                        [o[2] EXCEPT !.claims = VerifiedClaims(o[1].auth, o[2].token, now)]]
      BY <2>2 DEF Arrive
    <3>2. {"token", "claims"} \subseteq DOMAIN o[2]
      BY RequestPathAssumption
    <3>3. /\ snap'[r] = o[1] /\ in'[r].token = o[2].token
          /\ in'[r].claims = VerifiedClaims(o[1].auth, o[2].token, now)
      BY <3>1, <3>2 DEF Indexed
    <3>4. FromToken(r)'
      BY <3>3, ClaimsAreTrusted DEF FromToken
    <3>5. \A q \in Requests \ {r} : snap'[q] = snap[q] /\ in'[q] = in[q] /\ pc'[q] = pc[q]
      BY <2>2, <3>1 DEF Indexed, Arrive, Goes
    <3>6. QED
      BY <3>4, <3>5 DEF ClaimsInv, FromToken
  <2>3. ASSUME NEW r \in Requests, Serve(r), ~Arrive(r) PROVE ClaimsInv'
    <3>1. snap' = snap /\ in' = in /\ pc[r] # "idle"
      BY <2>3 DEF Serve, request, Deny, Filter, Lookup, MintBase, Mint, ExchangeFails, Inject,
                  ReadBody, Module, Send, Replay, Answer
    <3>2. \A q \in Requests \ {r} : pc'[q] = pc[q]
      BY <2>3, StepIsLocal
    <3>3. QED
      BY <3>1, <3>2 DEF ClaimsInv, FromToken
  <2>4. QED
    BY <2>1, <2>2, <2>3 DEF Next, Tick, vars, request
<1>3. QED
  BY <1>1, <1>2, IndexedHolds, PTL DEF Spec

\* A required key that resolved from a claim was vouched for by a trusted key.
LEMMA ProvenIsVouched ==
  ASSUME Indexed, ClaimsInv, NEW r \in Requests, pc[r] # "idle", NEW p, NEW k,
         Origin(p, k) = "proven", Value(p, in[r], k) # None
  PROVE Vouched(r, k)
<1>1. At(in[r].claims, k) # None
  BY DEF Value
<1>2. k \in DOMAIN in[r].claims
  BY <1>1 DEF At
<1>3. QED
  BY <1>2 DEF ClaimsInv, FromToken, Vouched

\* Whatever is forwarded met the contract of the override its selector picked:
\* its required keys resolved, those read from claims out of a trusted token,
\* and its model is on the list (request_filter).
THEOREM ForwardedIsAdmitted == Spec => []SentWasAdmitted
<1>1. Indexed /\ ClaimsInv /\ GateInv => SentWasAdmitted
  <2> SUFFICES ASSUME Indexed, ClaimsInv, GateInv, NEW r \in Requests, upstream[r] # None
               PROVE /\ \A k \in Final(r).required :
                          /\ Value(Final(r), in[r], k) # None
                          /\ Origin(Final(r), k) = "proven" => Vouched(r, k)
                     /\ Final(r).models = None \/ in[r].model \in Final(r).models
    BY DEF SentWasAdmitted, Final, Policy
  <2>1. Missing(Final(r), in[r]) = {} /\ ~ModelRefused(r) /\ pc[r] # "idle"
    BY DEF GateInv, Gated, Attributed
  <2>2. \A k \in Final(r).required : Value(Final(r), in[r], k) # None
    BY <2>1 DEF Missing, Resolved
  <2>3. QED
    BY <2>1, <2>2, ProvenIsVouched DEF ModelRefused
<1>2. QED
  BY <1>1, ClaimsHold, GatesHold, IndexedHolds, PTL

(***************************************************************************)
(* The credentials a request signs with. Whatever is cached is filed under   *)
(* all that it was minted for, and a request looks up and mints for the      *)
(* identity its own configuration and input give it, which stay.            *)
(***************************************************************************)
CacheInv == \A key \in DOMAIN cache : cache[key].for = key

CredsInv ==
  /\ DOMAIN creds = Requests
  /\ \A r \in Requests : /\ pc[r] = "idle" => creds[r] = None
                         /\ creds[r] # None => creds[r].for = Identity(r)

CredentialInv == CacheInv /\ CredsInv

\* Filing what was minted for an identity under that identity.
LEMMA FilingKeepsCache ==
  ASSUME CacheInv, NEW identity, cache' = Filed(identity)
  PROVE  CacheInv'
<1>1. Minted(identity).for = identity
  BY DEF Minted
<1>2. /\ DOMAIN cache' = {identity} \cup DOMAIN cache
      /\ cache'[identity] = Minted(identity)
      /\ \A key \in DOMAIN cache : key # identity => cache'[key] = cache[key]
  BY DEF Filed, CacheKey
<1>3. QED
  BY <1>1, <1>2 DEF CacheInv

\* A request whose configuration and input stay keeps the identity it mints for.
LEMMA IdentityStays ==
  ASSUME NEW r \in Requests, snap'[r] = snap[r], in'[r] = in[r]
  PROVE  Identity(r)' = Identity(r)
BY DEF Identity, Provider, Route, Matched, Final, Tag

LEMMA CredentialsNext ==
  ASSUME Indexed, CredentialInv, [Next]_vars
  PROVE  CredentialInv'
<1> USE DEF CredentialInv
<1>1. CASE UNCHANGED <<snap, in, pc, creds, cache>>
  BY <1>1, IdentityStays DEF CacheInv, CredsInv
<1>2. ASSUME NEW r \in Requests, Arrive(r) PROVE CredentialInv'
  <2>1. /\ UNCHANGED <<creds, cache>> /\ pc[r] = "idle" /\ pc'[r] # "idle"
        /\ \A q \in Requests \ {r} : snap'[q] = snap[q] /\ in'[q] = in[q] /\ pc'[q] = pc[q]
    BY <1>2 DEF Arrive, Goes, Indexed
  <2>2. creds'[r] = None
    BY <2>1 DEF CredsInv
  <2>3. QED
    BY <2>1, <2>2, IdentityStays DEF CacheInv, CredsInv
<1>3. ASSUME NEW r \in Requests, Serve(r), ~Arrive(r) PROVE CredentialInv'
  <2>1. UNCHANGED <<snap, in>> /\ pc[r] # "idle" /\ pc'[r] # "idle"
    <3>1. UNCHANGED <<snap, in>> /\ pc[r] # "idle"
      BY <1>3 DEF Serve, request, Deny, Filter, Lookup, MintBase, Mint, ExchangeFails, Inject,
                  ReadBody, Module, Send, Replay, Answer
    <3>2. pc'[r] # "idle"
      BY <1>3 DEF Serve, Deny, Filter, Lookup, MintBase, Mint, ExchangeFails, Inject, ReadBody,
                  Module, Send, Replay, Answer, Goes, Refuse, Indexed
    <3>3. QED
      BY <3>1, <3>2
  <2>2. \A q \in Requests \ {r} : pc'[q] = pc[q]
    BY <1>3, StepIsLocal
  <2>3. \A q \in Requests : Identity(q)' = Identity(q)
    BY <2>1, IdentityStays
  <2>4. CASE UNCHANGED <<creds, cache>>
    BY <2>1, <2>2, <2>3, <2>4 DEF CacheInv, CredsInv
  <2>5. CASE Lookup(r)
    <3>1. UNCHANGED cache
      BY <2>5 DEF Lookup
    <3>2. \/ UNCHANGED creds
          \/ /\ Fresh(CacheKey(Identity(r)))
             /\ creds' = [creds EXCEPT ![r] = cache[CacheKey(Identity(r))]]
      BY <2>5 DEF Lookup
    <3>3. Fresh(CacheKey(Identity(r))) => cache[CacheKey(Identity(r))].for = Identity(r)
      BY DEF Fresh, CacheKey, CacheInv
    <3>4. QED
      BY <2>1, <2>2, <2>3, <3>1, <3>2, <3>3 DEF CacheInv, CredsInv
  <2>6. CASE MintBase(r)
    <3>1. UNCHANGED creds /\ CacheInv'
      BY <2>6, FilingKeepsCache DEF MintBase
    <3>2. QED
      BY <2>1, <2>2, <2>3, <3>1 DEF CredsInv
  <2>7. CASE Mint(r)
    <3>1. creds' = [creds EXCEPT ![r] = Minted(Identity(r))] /\ CacheInv'
      BY <2>7, FilingKeepsCache DEF Mint
    <3>2. Minted(Identity(r)).for = Identity(r)
      BY DEF Minted
    <3>3. QED
      BY <2>1, <2>2, <2>3, <3>1, <3>2 DEF CredsInv
  <2>8. QED
    BY <1>3, <2>4, <2>5, <2>6, <2>7
    DEF Serve, Deny, Filter, ExchangeFails, Inject, ReadBody, Module, Send, Replay, Answer
<1>4. QED
  BY <1>1, <1>2, <1>3 DEF Next, Tick, vars, request

\* Whatever exchanges overlap, fail and expire, a request is signed with
\* credentials minted for its own role, session and tags (the cache key).
THEOREM CredentialsAreItsOwn == Spec => []SignsAsItself
<1>1. Init => CredentialInv
  <2>1. Init => DOMAIN cache = {}
    BY DEF Init
  <2>2. QED
    BY <2>1 DEF Init, CredentialInv, CacheInv, CredsInv
<1>2. CredentialInv => SignsAsItself
  BY DEF CredentialInv, CredsInv, SignsAsItself
<1>3. QED
  BY <1>1, <1>2, CredentialsNext, IndexedHolds, PTL DEF Spec

(***************************************************************************)
(* What a provider accepts. The signature covers the body read early, which  *)
(* carries the forced fields; without it, it covers none.                   *)
(***************************************************************************)
SignedInv(r) ==
  /\ pc[r] = "idle" => signed[r] = None /\ upstream[r] = None
  /\ signed[r] # None => signed[r] = Finalized(r)

AcceptedInv(r) ==
  LET u == upstream[r] IN
  u # None /\ u.signature # None /\ u.signature.over = u.body /\ u.body.content # "empty"
    => (Forces(r) => "forced" \in u.body.marks)

BodyInv == DOMAIN signed = Requests /\ \A r \in Requests : SignedInv(r) /\ AcceptedInv(r)

\* What is said of a request's bodies depends on its own entries only.
LEMMA OthersKeepTheirBodies ==
  ASSUME NEW r \in Requests, SignedInv(r), AcceptedInv(r), snap'[r] = snap[r], in'[r] = in[r],
         pc'[r] = pc[r], signed'[r] = signed[r], upstream'[r] = upstream[r]
  PROVE  SignedInv(r)' /\ AcceptedInv(r)'
<1>1. Finalized(r)' = Finalized(r) /\ Forces(r)' = Forces(r)
  BY DEF Finalized, Forces, Raw, Provider, Route, Matched
<1>2. QED
  BY <1>1 DEF SignedInv, AcceptedInv

\* A signed body that is not empty carries what the operator forces.
LEMMA SignedCarriesForced ==
  ASSUME NEW r \in Requests, SignedInv(r), Signature(r) # None,
         Signature(r).over = Body(r), Body(r).content # "empty", Forces(r)
  PROVE  "forced" \in Body(r).marks
<1>1. Provider(r).sts # None
  BY DEF Signature
<1>2. Signature(r).over = IF signed[r] = None THEN NoBody ELSE signed[r]
  BY <1>1 DEF Signature
<1>3. signed[r] # None
  BY <1>2 DEF NoBody
<1>4. Body(r) = Finalized(r)
  BY <1>3 DEF Body, SignedInv
<1>5. Raw(r).content = in[r].body
  BY DEF Raw
<1>6. CASE in[r].body # "empty"
  <2>1. Finalized(r) = With(Raw(r), {"forced"})
    BY <1>1, <1>6 DEF Finalized
  <2>2. With(Raw(r), {"forced"}).marks = {"forced"}
    BY DEF With, Raw
  <2>3. QED
    BY <1>4, <2>1, <2>2
<1>7. CASE in[r].body = "empty"
  <2>1. Finalized(r) = Raw(r)
    BY <1>7 DEF Finalized
  <2>2. QED
    BY <1>4, <1>5, <1>7, <2>1
<1>8. QED
  BY <1>6, <1>7

LEMMA BodiesNext ==
  ASSUME Indexed, BodyInv, [Next]_vars
  PROVE  BodyInv'
<1>1. CASE UNCHANGED <<snap, in, pc, signed, upstream>>
  BY <1>1, OthersKeepTheirBodies DEF BodyInv
<1>2. ASSUME NEW r \in Requests, Serve(r) PROVE BodyInv'
  <2>1. DOMAIN signed' = Requests /\ \A q \in Requests \ {r} : signed'[q] = signed[q]
    BY <1>2 DEF Serve, request, Arrive, Deny, Filter, Lookup, MintBase, Mint, ExchangeFails,
                Inject, ReadBody, Module, Send, Replay, Answer, BodyInv
  <2>2. \A q \in Requests \ {r} : SignedInv(q)' /\ AcceptedInv(q)'
    BY <1>2, <2>1, StepIsLocal, OthersKeepTheirBodies DEF BodyInv
  <2>3. SignedInv(r) /\ AcceptedInv(r)
    BY DEF BodyInv
  <2>4. CASE Arrive(r)
    <3>1. UNCHANGED <<signed, upstream>> /\ signed[r] = None /\ upstream[r] = None
      BY <2>3, <2>4 DEF Arrive, SignedInv
    <3>2. pc'[r] # "idle"
      BY <2>4 DEF Arrive, Goes, Indexed
    <3>3. SignedInv(r)' /\ AcceptedInv(r)'
      BY <3>1, <3>2 DEF SignedInv, AcceptedInv
    <3>4. QED
      BY <2>1, <2>2, <3>3 DEF BodyInv
  <2>5. ASSUME ~Arrive(r) PROVE SignedInv(r)' /\ AcceptedInv(r)'
    <3>1. UNCHANGED <<snap, in>> /\ pc'[r] # "idle"
      <4>1. UNCHANGED <<snap, in>>
        BY <1>2, <2>5 DEF Serve, request, Deny, Filter, Lookup, MintBase, Mint, ExchangeFails,
                          Inject, ReadBody, Module, Send, Replay, Answer
      <4>2. pc'[r] # "idle"
        BY <1>2, <2>5 DEF Serve, Deny, Filter, Lookup, MintBase, Mint, ExchangeFails, Inject,
                          ReadBody, Module, Send, Replay, Answer, Goes, Refuse, Indexed
      <4>3. QED
        BY <4>1, <4>2
    <3>2. Finalized(r)' = Finalized(r) /\ Forces(r)' = Forces(r)
      BY <3>1 DEF Finalized, Forces, Raw, Provider, Route, Matched
    <3>3. CASE UNCHANGED <<signed, upstream>>
      BY <2>3, <3>1, <3>2, <3>3 DEF SignedInv, AcceptedInv
    <3>4. CASE ReadBody(r)
      <4>1. /\ UNCHANGED upstream
            /\ UNCHANGED signed \/ signed'[r] = Finalized(r)
        BY <3>4 DEF ReadBody, BodyInv
      <4>2. QED
        BY <2>3, <3>1, <3>2, <4>1 DEF SignedInv, AcceptedInv
    <3>5. ASSUME Send(r), upstream' # upstream \/ signed' # signed
          PROVE  SignedInv(r)' /\ AcceptedInv(r)'
      <4>1. /\ signed'[r] = None
            /\ upstream'[r] = [path |-> Normalize(in[r].path), headers |-> Headers(r),
                               body |-> Body(r), signature |-> Signature(r)]
        BY <3>5 DEF Send, BodyInv, Indexed
      <4>2. upstream'[r].body = Body(r) /\ upstream'[r].signature = Signature(r)
        BY <4>1
      <4>3. SignedInv(r)'
        BY <3>1, <4>1 DEF SignedInv
      <4>4. AcceptedInv(r)'
        BY <2>3, <3>2, <4>2, SignedCarriesForced DEF AcceptedInv
      <4>5. QED
        BY <4>3, <4>4
    <3>6. QED
      BY <1>2, <2>5, <3>3, <3>4, <3>5
      DEF Serve, Deny, Filter, Lookup, MintBase, Mint, ExchangeFails, Inject, Module, Replay,
          Answer
  <2>6. QED
    BY <2>1, <2>2, <2>4, <2>5 DEF BodyInv
<1>3. QED
  BY <1>1, <1>2 DEF Next, Tick, vars, request

\* A provider that checks its signatures accepts no body without the fields the
\* operator forces, on the first attempt or on a replay (finalize_signed_body).
THEOREM AcceptedIsForced == Spec => []AcceptedCarriesPolicy
<1>1. Init => BodyInv
  BY DEF Init, BodyInv, SignedInv, AcceptedInv
<1>2. BodyInv => AcceptedCarriesPolicy
  BY DEF BodyInv, AcceptedInv, AcceptedCarriesPolicy
<1>3. QED
  BY <1>1, <1>2, BodiesNext, IndexedHolds, PTL DEF Spec

(***************************************************************************)
(* Where ForcedFieldsSent fails, and why nowhere else: a body that is read    *)
(* early for the model gate of a provider that does not sign is the only one  *)
(* that is sent as JSON without the forced fields.                           *)
(***************************************************************************)
EarlyReadsSign == \A r \in Requests : pc[r] = "read" /\ Forces(r) => Provider(r).sts # None

ForcedSent(r) ==
  /\ signed[r] # None /\ Forces(r) => Provider(r).sts # None
  /\ upstream[r] # None /\ Forces(r) /\ upstream[r].body.content = "json"
       => "forced" \in upstream[r].body.marks

ForcedInv == \A r \in Requests : ForcedSent(r)

LEMMA OthersKeepForced ==
  ASSUME NEW r \in Requests, ForcedSent(r), snap'[r] = snap[r], in'[r] = in[r],
         signed'[r] = signed[r], upstream'[r] = upstream[r]
  PROVE  ForcedSent(r)'
BY DEF ForcedSent, Forces, Provider, Route, Matched

\* Finalized, or merged on its way: a JSON body is sent with the forced fields.
LEMMA BodyIsForced ==
  ASSUME NEW r \in Requests, SignedInv(r), ForcedSent(r), Forces(r), Body(r).content = "json"
  PROVE  "forced" \in Body(r).marks
<1>1. CASE signed[r] # None
  <2>1. Body(r) = Finalized(r) /\ Provider(r).sts # None
    BY <1>1 DEF Body, SignedInv, ForcedSent
  <2>2. in[r].body # "empty"
    BY <2>1 DEF Finalized, Raw
  <2>3. Finalized(r) = With(Raw(r), {"forced"})
    BY <2>1, <2>2 DEF Finalized
  <2>4. With(Raw(r), {"forced"}).marks = {"forced"}
    BY DEF With, Raw
  <2>5. QED
    BY <2>1, <2>3, <2>4
<1>2. CASE signed[r] = None
  <2>1. Body(r) = With(Raw(r), Marks(r)) /\ "forced" \in Marks(r)
    BY <1>2 DEF Body, Marks
  <2>2. With(Raw(r), Marks(r)).marks = {} \cup Marks(r)
    BY DEF With, Raw
  <2>3. QED
    BY <2>1, <2>2
<1>3. QED
  BY <1>1, <1>2

LEMMA ForcedNext ==
  ASSUME Indexed, BodyInv, ForcedInv, EarlyReadsSign, [Next]_vars
  PROVE  ForcedInv'
<1>1. CASE UNCHANGED <<snap, in, signed, upstream>>
  BY <1>1, OthersKeepForced DEF ForcedInv
<1>2. ASSUME NEW r \in Requests, Serve(r) PROVE ForcedInv'
  <2>1. \A q \in Requests \ {r} : signed'[q] = signed[q]
    BY <1>2 DEF Serve, request, Arrive, Deny, Filter, Lookup, MintBase, Mint, ExchangeFails,
                Inject, ReadBody, Module, Send, Replay, Answer, BodyInv
  <2>2. \A q \in Requests \ {r} : ForcedSent(q)'
    BY <1>2, <2>1, StepIsLocal, OthersKeepForced DEF ForcedInv
  <2>3. SignedInv(r) /\ ForcedSent(r)
    BY DEF BodyInv, ForcedInv
  <2>4. CASE Arrive(r)
    <3>1. signed'[r] = None /\ upstream'[r] = None
      BY <2>3, <2>4 DEF Arrive, SignedInv
    <3>2. QED
      BY <2>2, <3>1 DEF ForcedInv, ForcedSent
  <2>5. ASSUME ~Arrive(r) PROVE ForcedSent(r)'
    <3>1. UNCHANGED <<snap, in>>
      BY <1>2, <2>5 DEF Serve, request, Deny, Filter, Lookup, MintBase, Mint, ExchangeFails,
                        Inject, ReadBody, Module, Send, Replay, Answer
    <3>2. Forces(r)' = Forces(r) /\ Provider(r)' = Provider(r)
      BY <3>1 DEF Forces, Provider, Route, Matched
    <3>3. CASE UNCHANGED <<signed, upstream>>
      BY <2>3, <3>2, <3>3 DEF ForcedSent
    <3>4. CASE ReadBody(r)
      <4>1. pc[r] = "read" /\ UNCHANGED upstream
        BY <3>4 DEF ReadBody
      <4>2. QED
        BY <2>3, <3>2, <4>1 DEF ForcedSent, EarlyReadsSign
    <3>5. ASSUME Send(r), upstream' # upstream \/ signed' # signed
          PROVE  ForcedSent(r)'
      <4>1. /\ signed'[r] = None
            /\ upstream'[r] = [path |-> Normalize(in[r].path), headers |-> Headers(r),
                               body |-> Body(r), signature |-> Signature(r)]
        BY <3>5 DEF Send, BodyInv, Indexed
      <4>2. upstream'[r].body = Body(r)
        BY <4>1
      <4>3. QED
        BY <2>3, <3>2, <4>1, <4>2, BodyIsForced DEF ForcedSent
    <3>6. QED
      BY <1>2, <2>5, <3>3, <3>4, <3>5
      DEF Serve, Deny, Filter, Lookup, MintBase, Mint, ExchangeFails, Inject, Module, Replay,
          Answer
  <2>6. QED
    BY <2>2, <2>4, <2>5 DEF ForcedInv
<1>3. QED
  BY <1>1, <1>2 DEF Next, Tick, vars, request

\* "The default overrides unconditionally" is true of every execution in which
\* no body is read early on a route that forces fields without signing, under
\* any number of replays (finalize_signed_body, inject_into_body).
THEOREM ForcedUnlessReadEarly == Spec /\ []EarlyReadsSign => []ForcedFieldsSent
<1>1. Init => BodyInv /\ ForcedInv
  BY DEF Init, BodyInv, SignedInv, AcceptedInv, ForcedInv, ForcedSent
<1>2. ForcedInv => ForcedFieldsSent
  BY DEF ForcedInv, ForcedSent, ForcedFieldsSent
<1>3. QED
  BY <1>1, <1>2, BodiesNext, ForcedNext, IndexedHolds, PTL DEF Spec

(***************************************************************************)
(* Paths. Normalize, and what a provider makes of its result.               *)
(***************************************************************************)
\* What FoldLeft chooses: the resolved paths of the sub-sequences of a path.
Collapsing(path, here, up) ==
  CHOOSE g : g = [s \in SUBSET DOMAIN path |->
    IF s = {} THEN <<>>
    ELSE LET x == CHOOSE i \in s : \A j \in s : i >= j
         IN CASE path[x] \in here -> g[s \ {x}]
              [] path[x] \in up -> SubSeq(g[s \ {x}], 1, Len(g[s \ {x}]) - 1)
              [] OTHER -> Append(g[s \ {x}], path[x])]

\* One segment more on a path resolved so far.
Extended(done, segment, here, up) ==
  CASE segment \in here -> done
    [] segment \in up -> SubSeq(done, 1, Len(done) - 1)
    [] OTHER -> Append(done, segment)

LEMMA CollapseFolds ==
  ASSUME NEW path, NEW here, NEW up
  PROVE  Collapse(path, here, up) = Collapsing(path, here, up)[DOMAIN path]
  BY Zenon DEF Collapse, FoldLeft, MapThenFoldSet, Max, Collapsing

LEMMA ExtendedType ==
  ASSUME NEW S, NEW here, NEW up, NEW done \in Seq(S \ (here \cup up)), NEW segment \in S
  PROVE  /\ Extended(done, segment, here, up) \in Seq(S \ (here \cup up))
         /\ segment \notin here \cup up =>
              Extended(done, segment, here, up) = Append(done, segment)
<1> DEFINE A == S \ (here \cup up)
<1>1. segment \notin here /\ segment \notin up => segment \in A
  OBVIOUS
<1> HIDE DEF A
<1>2. done \in Seq(A)
  BY DEF A
<1>3. SubSeq(done, 1, Len(done) - 1) \in Seq(A)
  BY <1>2
<1>4. segment \notin here /\ segment \notin up => Append(done, segment) \in Seq(A)
  BY <1>1, <1>2
<1>5. Extended(done, segment, here, up) \in Seq(A)
  BY <1>2, <1>3, <1>4 DEF Extended
<1> QED BY <1>5 DEF A, Extended

LEMMA CollapsingSteps ==
  ASSUME NEW S, NEW path \in Seq(S), NEW here, NEW up
  PROVE  LET g == Collapsing(path, here, up)
         IN /\ g[{}] = <<>>
            /\ \A s \in SUBSET DOMAIN path : s # {} =>
                 g[s] = Extended(g[s \ {Largest(s)}], path[Largest(s)], here, up)
<1> DEFINE D == DOMAIN path
           A == Seq(S \ (here \cup up))
           F == [y \in D \X A |-> Extended(y[2], path[y[1]], here, up)]
           p == [s \in SUBSET D |-> Largest(s)]
           g == Collapsing(path, here, up)
<1>1. D = 1 .. Len(path) /\ Len(path) \in Nat /\ IsFiniteSet(D) /\ \A i \in D : path[i] \in S
  BY FS_Interval
<1>2. \A s \in SUBSET D : p[s] = Largest(s) /\ (s # {} => Largest(s) \in s)
  BY <1>1, LargestIn
<1>3. /\ F \in [D \X A -> A]
      /\ \A i \in D : \A a \in A : F[<<i, a>>] = Extended(a, path[i], here, up)
  BY <1>1, ExtendedType
<1>4. <<>> \in A
  OBVIOUS
<1> HIDE DEF D, A, F, p
<1>5. PICK h \in [SUBSET D -> A] : FoldSteps(h, F, <<>>, p, SUBSET D)
  <2>1. IsFiniteSet(D) /\ F \in [D \X A -> A] /\ \A s \in SUBSET D : s # {} => p[s] \in s
    BY <1>1, <1>2, <1>3
  <2>2. \E h \in [SUBSET D -> A] : FoldSteps(h, F, <<>>, p, SUBSET D)
    BY <1>4, <2>1, FoldExists
  <2> QED BY <2>2
<1>6. ASSUME NEW s \in SUBSET D
      PROVE  h[s] = IF s = {} THEN <<>>
                    ELSE Extended(h[s \ {Largest(s)}], path[Largest(s)], here, up)
  <2>1. CASE s = {}
    BY <1>5, <2>1 DEF FoldSteps
  <2>2. CASE s # {}
    <3>1. h[s] = F[<<Largest(s), h[s \ {Largest(s)}]>>]
      BY <1>2, <1>5, <2>2, Zenon DEF FoldSteps
    <3>2. Largest(s) \in D /\ h[s \ {Largest(s)}] \in A
      BY <1>2, <2>2
    <3> QED BY <1>3, <2>2, <3>1, <3>2
  <2> QED BY <2>1, <2>2
<1>7. h = [s \in SUBSET D |-> IF s = {} THEN <<>>
             ELSE Extended(h[s \ {Largest(s)}], path[Largest(s)], here, up)]
  BY <1>6
<1>8. g = [s \in SUBSET D |-> IF s = {} THEN <<>>
             ELSE Extended(g[s \ {Largest(s)}], path[Largest(s)], here, up)]
  BY <1>7, Zenon DEF Collapsing, Extended, Largest, D
<1> HIDE DEF g
<1>9. g[{}] = <<>> /\ \A s \in SUBSET D : s # {} =>
        g[s] = Extended(g[s \ {Largest(s)}], path[Largest(s)], here, up)
  <2>1. {} \in SUBSET D
    OBVIOUS
  <2> QED BY <1>8, <2>1, Zenon
<1> QED BY <1>9 DEF g, D

\* No dot segment is left.
LEMMA CollapseCleans ==
  ASSUME NEW S, NEW path \in Seq(S), NEW here, NEW up
  PROVE  Collapse(path, here, up) \in Seq(S \ (here \cup up))
<1> DEFINE g == Collapsing(path, here, up)
           D == DOMAIN path
           A == Seq(S \ (here \cup up))
           G == {T \in SUBSET D : g[T] \in A}
<1>1. D = 1 .. Len(path) /\ Len(path) \in Nat /\ IsFiniteSet(D) /\ \A i \in D : path[i] \in S
  BY FS_Interval
<1>2. g[{}] = <<>> /\ \A s \in SUBSET D : s # {} =>
        g[s] = Extended(g[s \ {Largest(s)}], path[Largest(s)], here, up)
  BY CollapsingSteps
<1>3. <<>> \in A
  OBVIOUS
<1> HIDE DEF g, D
<1>4. {} \in G
  BY <1>2, <1>3
<1>5. ASSUME NEW T \in SUBSET D, T # {}, \A x \in T : T \ {x} \in G PROVE T \in G
  <2>1. Largest(T) \in T
    BY <1>1, <1>5, LargestIn
  <2>2. g[T \ {Largest(T)}] \in A /\ path[Largest(T)] \in S
    BY <1>1, <1>5, <2>1
  <2>3. g[T] = Extended(g[T \ {Largest(T)}], path[Largest(T)], here, up)
    BY <1>2, <1>5
  <2>4. Extended(g[T \ {Largest(T)}], path[Largest(T)], here, up) \in A
    BY <2>2, ExtendedType
  <2> QED BY <2>3, <2>4
<1>6. D \in G
  <2> HIDE DEF G
  <2>1. \A T \in SUBSET D : T # {} /\ (\A x \in T : T \ {x} \in G) => T \in G
    BY <1>5
  <2>2. \A T \in SUBSET D : T \in G
    BY <1>1, <1>4, <2>1, SubsetDescent
  <2> QED BY <2>2
<1> QED BY <1>6, CollapseFolds DEF G, g, D

\* Nothing is resolved in a path without dot segments.
LEMMA CollapseLeaves ==
  ASSUME NEW S, NEW path \in Seq(S), NEW here, NEW up,
         \A i \in DOMAIN path : path[i] \notin here \cup up
  PROVE  Collapse(path, here, up) = path
<1> DEFINE g == Collapsing(path, here, up)
           n == Len(path)
           Bad == {k \in Nat : k <= n /\ g[1 .. k] # SubSeq(path, 1, k)}
<1>1. DOMAIN path = 1 .. n /\ n \in Nat /\ \A i \in 1 .. n : path[i] \in S
  OBVIOUS
<1>2. g[{}] = <<>> /\ \A s \in SUBSET (1 .. n) : s # {} =>
        g[s] = Extended(g[s \ {Largest(s)}], path[Largest(s)], here, up)
  <2>1. g[{}] = <<>> /\ \A s \in SUBSET DOMAIN path : s # {} =>
          g[s] = Extended(g[s \ {Largest(s)}], path[Largest(s)], here, up)
    BY CollapsingSteps
  <2> HIDE DEF g
  <2> QED BY <1>1, <2>1
<1> HIDE DEF g
<1>3. SUFFICES Bad = {}
  <2>1. g[1 .. n] = SubSeq(path, 1, n)
    BY <1>1, <1>3
  <2>2. SubSeq(path, 1, n) = path
    OBVIOUS
  <2> QED BY <1>1, <2>1, <2>2, CollapseFolds DEF g
<1>4. SUFFICES ASSUME Bad # {} PROVE FALSE
  OBVIOUS
<1>5. PICK k \in Bad : \A j \in Bad : k <= j
  <2>1. Bad \in SUBSET Nat
    OBVIOUS
  <2> HIDE DEF Bad
  <2> QED BY <1>4, <2>1, LeastNatural
<1>6. k \in Nat /\ k <= n /\ g[1 .. k] # SubSeq(path, 1, k)
  OBVIOUS
<1>7. k # 0
  <2>1. 1 .. 0 = {} /\ SubSeq(path, 1, 0) = <<>>
    OBVIOUS
  <2> QED BY <1>2, <1>6, <2>1
<1>8. k - 1 \in Nat /\ k - 1 <= n /\ g[1 .. (k - 1)] = SubSeq(path, 1, k - 1)
  <2>1. k - 1 \in Nat /\ k - 1 <= n /\ ~(k <= k - 1)
    BY <1>1, <1>6, <1>7
  <2>2. k - 1 \notin Bad
    BY <1>5, <2>1
  <2> QED BY <2>1, <2>2
<1> HIDE DEF Bad
<1>9. /\ 1 .. k \in SUBSET (1 .. n) /\ 1 .. k # {} /\ k \in 1 .. n
      /\ Largest(1 .. k) = k /\ (1 .. k) \ {k} = 1 .. (k - 1)
  BY <1>1, <1>6, <1>7, LargestUpTo
<1>10. g[1 .. k] = Extended(g[1 .. (k - 1)], path[k], here, up)
  BY <1>2, <1>9
<1>11. g[1 .. k] = Append(SubSeq(path, 1, k - 1), path[k])
  BY <1>1, <1>8, <1>9, <1>10 DEF Extended
<1>12. Append(SubSeq(path, 1, k - 1), path[k]) = SubSeq(path, 1, k)
  BY <1>1, <1>6, <1>9
<1> QED BY <1>6, <1>11, <1>12

\* What a provider that decodes and resolves dots makes of a path the gateway
\* normalized is that path.
LEMMA ProviderReadsTheSame ==
  ASSUME NEW path \in Seq(STRING)
  PROVE  ProviderReads(Normalize(path)) = Normalize(path)
<1> DEFINE q == Normalize(path)
           decoded == [i \in DOMAIN q |-> Decoded(q[i])]
<1>1. q \in Seq(STRING \ (Dots(1) \cup Dots(2)))
  BY CollapseCleans DEF Normalize
<1> HIDE DEF q
<1>2. \A i \in DOMAIN q : q[i] \notin Dots(1) \cup Dots(2) /\ Decoded(q[i]) = q[i]
  BY <1>1 DEF Decoded
<1>3. decoded = q
  BY <1>1, <1>2
<1>4. \A i \in DOMAIN q : q[i] \notin {"."} \cup {".."}
  BY <1>2 DEF Dots
<1>5. Collapse(q, {"."}, {".."}) = q
  BY <1>1, <1>4, CollapseLeaves
<1> QED BY <1>3, <1>5 DEF ProviderReads, NormalizePlain, q

\* What was forwarded carries the path its request came with, normalized.
Forwards(r) ==
  /\ pc[r] # "idle" => in[r].path \in Seq(STRING)
  /\ upstream[r] # None => pc[r] # "idle" /\ upstream[r].path = Normalize(in[r].path)

PathInv == \A r \in Requests : Forwards(r)

LEMMA PathsHold == Spec => []PathInv
<1>1. Init => PathInv
  BY DEF Init, PathInv, Forwards
<1>2. Indexed /\ PathInv /\ [Next]_vars => PathInv'
  <2> SUFFICES ASSUME Indexed, PathInv, [Next]_vars, NEW q \in Requests PROVE Forwards(q)'
    BY DEF PathInv
  <2>1. Forwards(q)
    BY DEF PathInv
  <2>2. CASE UNCHANGED <<in, pc, upstream>>
    BY <2>1, <2>2 DEF Forwards
  <2>3. ASSUME NEW r \in Requests, Serve(r), q # r PROVE Forwards(q)'
    BY <2>1, <2>3, StepIsLocal DEF Forwards
  <2>4. CASE Arrive(q)
    <3>1. PICK o \in Offers[q] :
            in' = [in EXCEPT ![q] =
                     [o[2] EXCEPT !.claims = VerifiedClaims(o[1].auth, o[2].token, now)]]
      BY <2>4 DEF Arrive
    <3>2. o[2].path \in Seq(STRING) /\ "path" \in DOMAIN o[2]
      BY RequestPathAssumption
    <3>3. in'[q].path = o[2].path
      BY <3>1, <3>2 DEF Indexed
    <3>4. pc[q] = "idle" /\ upstream' = upstream
      BY <2>4 DEF Arrive
    <3>5. QED
      BY <2>1, <3>2, <3>3, <3>4 DEF Forwards
  <2>5. CASE Send(q)
    <3>1. pc[q] = "send" /\ pc'[q] \in {"done", "sent"} /\ in' = in
      BY <2>5 DEF Send, Refuse, Goes, Indexed, request
    <3>2. upstream' = upstream \/ upstream'[q].path = Normalize(in[q].path)
      BY <2>5 DEF Send, Indexed
    <3>3. QED
      BY <2>1, <3>1, <3>2 DEF Forwards
  <2>6. ASSUME Serve(q), ~Arrive(q), ~Send(q) PROVE Forwards(q)'
    <3>1. in' = in /\ upstream' = upstream /\ pc[q] # "idle"
      BY <2>6 DEF Serve, request, Deny, Filter, Lookup, MintBase, Mint, ExchangeFails, Inject,
                  ReadBody, Module, Replay, Answer
    <3>2. pc'[q] # "idle"
      BY <2>6 DEF Serve, Deny, Filter, Lookup, MintBase, Mint, ExchangeFails, Inject,
                  ReadBody, Module, Replay, Answer, Refuse, Goes, Indexed
    <3>3. QED
      BY <2>1, <3>1, <3>2 DEF Forwards
  <2>7. QED
    BY <2>2, <2>3, <2>4, <2>5, <2>6 DEF Next, Tick, vars, request
<1>3. QED
  BY <1>1, <1>2, IndexedHolds, PTL DEF Spec

\* Whatever segments a client spells its path with, the provider reads the path
\* it gets as the one the contract was selected for (normalize_and_rewrite).
THEOREM RoutesAreOfTheResource == Spec => []RouteOfResource
<1>1. PathInv => RouteOfResource
  <2> SUFFICES ASSUME PathInv, NEW r \in Requests, upstream[r] # None
               PROVE  MatchRoute(snap[r], ProviderReads(upstream[r].path), in[r].holds)
                        = Matched(r)
    BY DEF RouteOfResource
  <2>1. in[r].path \in Seq(STRING) /\ upstream[r].path = Normalize(in[r].path)
    BY DEF PathInv, Forwards
  <2>2. ProviderReads(upstream[r].path) = Normalize(in[r].path)
    BY <2>1, ProviderReadsTheSame
  <2>3. QED
    BY <2>2, Zenon DEF Matched
<1>2. QED
  BY <1>1, PathsHold, PTL
=============================================================================
