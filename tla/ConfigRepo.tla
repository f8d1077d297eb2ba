----------------------------- MODULE ConfigRepo -----------------------------
(* What gatewayctl makes of one resolved state of the configuration          *)
(* repository: the flat document it assembles (render.rs), the GatewaySets    *)
(* it stamps on it for a node (gatewayset.rs), the wave plan (waves.rs), the  *)
(* canary policy (canary.rs) and the verdict of admission (admission.rs).     *)
(*                                                                           *)
(* A document is a function from the paths it sets to their values:          *)
(*   <<"required">>, <<"header", k>>, <<"pinned", k>>  the fleet scope        *)
(*   <<"routes">>             the list of routes, each a Scopes scope         *)
(*   <<"app key">>, <<"app pinned", v, k>>, <<"app labels", v>>   apps        *)
(*   <<"body", t>>            a mandatory rejection body                     *)
(*   <<"modules">>            for each declared WASM module, whether signed   *)
(* Pinned values are numeric caps; a list is one value, as deep merge has it. *)
(* A repository is a record                                                  *)
(*   files : the document its fragment files spell (gatewaysets apart)        *)
(*   sets  : gatewaysets.yaml, a list of [name, selector, overlay]            *)
(*   waves : waves.yaml, a list of [name, selector]                          *)
(*   canary: canary.yaml, a policy whose thresholds are in percent            *)
(* A selector maps a label to the list of values it accepts.                 *)
EXTENDS Scopes

CONSTANTS
  Factor,    \* DEFAULT_OVERRIDE_FACTOR
  Approval,  \* OVERRIDE_JUSTIFICATION_LABEL
  Provider   \* the provider every route names

Invalid == [invalid |-> TRUE]

(***************************************************************************)
(* Assembly and validation.                                                *)
(***************************************************************************)
Bodies == {"default_response", "unknown_route"}

\* No fragment of the layout holds a wasm section: only an overlay adds one.
Assembled(repo) == Restrict(repo.files, DOMAIN repo.files \ {<<"modules">>})

Field(doc, path, default) == IF path \in DOMAIN doc THEN doc[path] ELSE default

Named(doc, section) == {p[2] : p \in {p \in DOMAIN doc : p[1] = section}}

FleetScope(doc) ==
  [NoScope EXCEPT !.required = Field(doc, <<"required">>, {}),
                  !.headers  = Named(doc, "header"),
                  !.pinned   = [k \in Named(doc, "pinned") |-> doc[<<"pinned", k>>]]]

AppPins(doc, v) == {p[3] : p \in {p \in DOMAIN doc : p[1] = "app pinned" /\ p[2] = v}}
AppScope(doc, v) ==
  [NoScope EXCEPT !.pinned = [k \in AppPins(doc, v) |-> doc[<<"app pinned", v, k>>]]]
Apps(doc) == Named(doc, "app pinned") \cup Named(doc, "app labels")

\* Config::from_yaml, over the composition of Scopes.
ConfigOf(doc) ==
  [auth |-> None,
   selector |-> Field(doc, <<"app key">>, None),
   routes |-> [i \in DOMAIN doc[<<"routes">>] |->
                 [prefix |-> <<i>>, conditioned |-> FALSE, provider |-> Provider,
                  chain |-> <<FleetScope(doc), doc[<<"routes">>][i]>>]],
   apps |-> [v \in Apps(doc) |-> AppScope(doc, v)]]

Valid(doc) ==
  /\ <<"routes">> \in DOMAIN doc
  /\ \A t \in Bodies : <<"body", t>> \in DOMAIN doc
  /\ Accepted(ConfigOf(doc))

\* finalize
Rendered(doc) == IF Valid(doc) THEN doc ELSE Invalid

(***************************************************************************)
(* Selectors, GatewaySets, the wave plan and the canary policy.             *)
(***************************************************************************)
Matches(selector, labels) ==
  \A l \in DOMAIN selector : l \in DOMAIN labels /\ labels[l] \in Range(selector[l])

SelectorOk(selector) == \A l \in DOMAIN selector : selector[l] # <<>>

NamedOnce(entries) ==
  /\ \A i \in DOMAIN entries : SelectorOk(entries[i].selector)
  /\ \A i, j \in DOMAIN entries : i # j => entries[i].name # entries[j].name

\* parse_gatewaysets
SetsOk(repo) == NamedOnce(repo.sets)

\* GatewaySets::matching
Picked(repo, labels) ==
  {i \in DOMAIN repo.sets : Matches(repo.sets[i].selector, labels)}

\* An overlay wins on the paths it names and leaves the others alone; the
\* overlays are merged in name order, so the last writer of a path wins.
Stamp(repo, labels) ==
  LET doc == Assembled(repo)
      Overlay(i) == repo.sets[i].overlay
      Writers(path) == {i \in Picked(repo, labels) : path \in DOMAIN Overlay(i)}
      LastWriter(path) ==
        CHOOSE i \in Writers(path) :
          \A j \in Writers(path) : repo.sets[j].name <= repo.sets[i].name
  IN [path \in DOMAIN doc \cup UNION {DOMAIN Overlay(i) : i \in Picked(repo, labels)} |->
        IF Writers(path) = {} THEN doc[path] ELSE Overlay(LastWriter(path))[path]]

\* render_resolved, and render_resolved_for_node with its check left out.
FleetRender(repo) == Rendered(Assembled(repo))
Unchecked(repo, labels) == Stamp(repo, labels)

\* render_resolved_for_node: what the node will serve is what is validated.
RenderFor(repo, labels) == Rendered(Stamp(repo, labels))

\* read_wave_plan as reload_and_roll takes it: an absent plan is one wave of
\* every node, and so is one that does not parse.
Everyone == <<[name |-> "all", selector |-> <<>>]>>
PlanOk(repo) == NamedOnce(repo.waves) /\ \A i \in DOMAIN repo.waves : repo.waves[i].name # "implicit-final"
Plan(repo) == IF repo.waves # <<>> /\ PlanOk(repo) THEN repo.waves ELSE Everyone

\* parse_canary_policy refuses what could fail every canary, or none.
PolicySane(c) ==
  /\ c.p99Factor > 0 /\ c.spendFactor > 0 /\ c.zscore > 0
  /\ c.errorIncrease \in 0 .. 100

(***************************************************************************)
(* Admission.                                                              *)
(***************************************************************************)
\* GB-1: what counts is the composed policy of the route.
KeysRequired(doc) ==
  LET routes == ConfigOf(doc).routes
  IN \A i \in DOMAIN routes : Compose(routes[i].chain).required # {}

\* GB-4, and the ban on templates other than {{key}} and {{route}}.
BodiesWritten(doc) == \A t \in Bodies : doc[<<"body", t>>] # "blank"
NoTemplates(doc) == \A t \in Bodies : doc[<<"body", t>>] # "{{other}}"

\* An override is measured against the fleet scope's number alone.
Raises(doc, v, k) ==
  /\ <<"pinned", k>> \in DOMAIN doc
  /\ doc[<<"pinned", k>>] > 0
  /\ doc[<<"app pinned", v, k>>] > Factor * doc[<<"pinned", k>>]

OverridesApproved(doc) ==
  \A v \in Apps(doc) : \A k \in AppPins(doc, v) :
     Raises(doc, v, k) => Approval \in Field(doc, <<"app labels", v>>, {})

ModulesSigned(doc) == FALSE \notin Field(doc, <<"modules">>, {})

RoutesListed(doc) == doc[<<"routes">>] # <<>>  \* the operator's CEL rule

\* admit_yaml
ObeysRules(doc) ==
  /\ KeysRequired(doc) /\ BodiesWritten(doc) /\ NoTemplates(doc)
  /\ OverridesApproved(doc) /\ ModulesSigned(doc) /\ RoutesListed(doc)

\* representative_labels: the first value each term accepts.
Representative(selector) == [l \in DOMAIN selector |-> selector[l][1]]

UnstampedOnly(repo) ==
  /\ FleetRender(repo) # Invalid /\ ObeysRules(FleetRender(repo))
  /\ SetsOk(repo) /\ PolicySane(repo.canary)

\* admit_resolved: the base, then every set on the labels that represent it.
\* A plan that does not parse is not looked at.
Admitted(repo) ==
  /\ FleetRender(repo) # Invalid /\ ObeysRules(FleetRender(repo))
  /\ SetsOk(repo)
  /\ \A i \in DOMAIN repo.sets :
       LET doc == RenderFor(repo, Representative(repo.sets[i].selector))
       IN doc # Invalid /\ ObeysRules(doc)
  /\ PolicySane(repo.canary)
=============================================================================
