------------------------------- MODULE Release -------------------------------
(* How a state of the configuration repository becomes what gatewayctl sends  *)
(* its nodes (main.rs, fleet.rs): the start of the process and its two        *)
(* reload tasks read the source, each time anew, to notice, admit and render  *)
(* it; a node is sent the render of its own labels, through a cache. Which    *)
(* node is sent one when is the subject of FleetRollout.                      *)
EXTENDS ConfigRepo

CONSTANTS
  Commits,  \* states of the source, by source_commit
  Repos,    \* what each holds
  Fleets    \* the label sets nodes join with

ASSUME ReleaseAssumption == None \notin Commits /\ Factor \in Nat

Tasks == {"serve", "poll", "hangup"}

VARIABLES
  head,   \* the commit the source shows
  pc,     \* where each task is
  got,    \* the commit its last resolve rendered
  seen,   \* the poll's last fingerprint
  fleet,  \* FleetInner: [commit, plan], None before the first
  canary, \* FleetInner.canary, which has a setter of its own
  cache   \* FleetInner.render_cache, by label set

vars == <<head, pc, got, seen, fleet, canary, cache>>

\* canary.yaml absent or malformed: analysis off.
CanaryOf(repo) == IF PolicySane(repo.canary) THEN repo.canary ELSE None

\* Rendering and admission are functions of the commit, and of a label set.
Renderable == {c \in Commits : FleetRender(Repos[c]) # Invalid}
Admissible == {c \in Commits : Admitted(Repos[c])}

\* desired_for: a stamped render that is not a configuration falls back to
\* the fleet-wide one.
DesiredOf ==
  [c \in Renderable |-> [labels \in Fleets |->
     LET doc == RenderFor(Repos[c], labels)
     IN IF doc = Invalid THEN FleetRender(Repos[c]) ELSE doc]]

\* source_fingerprint: source_commit names the content of every file, which a
\* hash of the fleet-wide render alone does not.
Fingerprint(c) == IF c \in Renderable THEN c ELSE None

Init ==
  /\ head \in Commits
  /\ pc = [t \in Tasks |-> IF t = "serve" THEN "admit" ELSE "off"]
  /\ got = [t \in Tasks |-> None] /\ seen = None
  /\ fleet = None /\ canary = None /\ cache = <<>>

Goes(t, step) == pc' = [pc EXCEPT ![t] = step]

\* The operator moves the ref, or edits the directory.
Move ==
  /\ \E c \in Commits \ {head} : head' = c
  /\ UNCHANGED <<pc, got, seen, fleet, canary, cache>>

\* spawn_poll: one turn of the watcher, and spawn_sighup.
Notice ==
  /\ pc["poll"] = "idle"
  /\ Fingerprint(head) # seen
  /\ seen' = Fingerprint(head) /\ Goes("poll", "admit")
  /\ UNCHANGED <<head, got, fleet, canary, cache>>

Hangup ==
  /\ pc["hangup"] = "idle" /\ Goes("hangup", "admit")
  /\ UNCHANGED <<head, got, seen, fleet, canary, cache>>

\* A start that is refused exits; a reload that is refused keeps what there is.
Refused(t) == Goes(t, IF t = "serve" THEN "exited" ELSE "idle")

\* policy.admit_source: the first resolve.
Admit(t) ==
  /\ pc[t] = "admit"
  /\ IF head \in Admissible THEN Goes(t, "render") ELSE Refused(t)
  /\ UNCHANGED <<head, got, seen, fleet, canary, cache>>

\* resolve_and_render: the second.
Render(t) ==
  /\ pc[t] = "render"
  /\ IF head \in Renderable
     THEN Goes(t, "policy") /\ got' = [got EXCEPT ![t] = head]
     ELSE Refused(t) /\ UNCHANGED got
  /\ UNCHANGED <<head, seen, fleet, canary, cache>>

\* set_canary_policy; at the start, before any other task exists.
SetPolicy(t) ==
  /\ pc[t] = "policy" /\ Goes(t, "apply")
  /\ canary' = CanaryOf(Repos[got[t]])
  /\ UNCHANGED <<head, got, seen, fleet, cache>>

\* set_applied_from_source, or Fleet::from_source: under one lock, the cache
\* goes with the inputs it was computed from. The wave plan is then walked.
Applied(t) == fleet' = [commit |-> got[t], plan |-> Plan(Repos[got[t]])]

ApplyKeepsCache(t) ==
  /\ pc[t] = "apply" /\ t # "serve"
  /\ Applied(t) /\ UNCHANGED cache
  /\ Goes(t, IF got[t] = fleet.commit THEN "idle" ELSE "walk")
  /\ got' = [got EXCEPT ![t] = None]
  /\ UNCHANGED <<head, seen, canary>>

Apply(t) ==
  /\ pc[t] = "apply" /\ t # "serve"
  /\ Applied(t) /\ cache' = <<>>
  /\ Goes(t, IF got[t] = fleet.commit THEN "idle" ELSE "walk")
  /\ got' = [got EXCEPT ![t] = None]
  /\ UNCHANGED <<head, seen, canary>>

Walked(t) ==
  /\ pc[t] = "walk" /\ Goes(t, "idle")
  /\ UNCHANGED <<head, got, seen, fleet, canary, cache>>

\* The reload tasks start after the first render is in force; the watcher
\* takes its first fingerprint then.
StartUp ==
  /\ pc["serve"] = "apply" /\ Applied("serve") /\ UNCHANGED cache
  /\ got' = [got EXCEPT !["serve"] = None]
  /\ pc' = [t \in Tasks |-> IF t = "serve" THEN "up" ELSE IF t = "poll" THEN "first" ELSE "idle"]
  /\ UNCHANGED <<head, seen, canary>>

FirstLook ==
  /\ pc["poll"] = "first" /\ Goes("poll", "idle")
  /\ seen' = Fingerprint(head)
  /\ UNCHANGED <<head, got, fleet, canary, cache>>

\* desired_for: a wave's push, a reconciler's or a stream's first.
Push(labels) ==
  /\ fleet # None /\ labels \notin DOMAIN cache
  /\ cache' = [l \in DOMAIN cache \cup {labels} |->
                 IF l = labels THEN DesiredOf[fleet.commit][l] ELSE cache[l]]
  /\ UNCHANGED <<head, pc, got, seen, fleet, canary>>

Reload(t) == Admit(t) \/ Render(t) \/ SetPolicy(t) \/ Apply(t) \/ Walked(t)

Next ==
  \/ Move \/ Notice \/ Hangup \/ StartUp \/ FirstLook
  \/ \E t \in Tasks : Reload(t)
  \/ \E labels \in Fleets : Push(labels)

Spec == Init /\ [][Next]_vars

-----------------------------------------------------------------------------
(* Properties. *)

\* Proved in Release_proofs.
TypeOK ==
  /\ head \in Commits /\ seen \in Commits \cup {None}
  /\ pc \in [Tasks -> {"off", "first", "idle", "admit", "render", "policy", "apply", "walk", "up", "exited"}]
  /\ got \in [Tasks -> Commits \cup {None}]
  /\ fleet # None => fleet.commit \in Commits
  /\ DOMAIN cache \subseteq Fleets

\* What nodes are sent (desired_for's cache) is always computed from the
\* repository in force, whichever reload task put it there last: every label
\* set at hand was rendered under the commit a new one would be.
CacheAgrees ==
  \A labels \in DOMAIN cache : fleet # None /\ cache[labels] = DesiredOf[fleet.commit][labels]

\* No walk, heal or bootstrap sends a node a document that its own validation
\* refuses (a raw test push, which desired_for does not make, may), even when the
\* overlays of two GatewaySets that were each admitted do not go together
\* (finalize validates after stamping, desired_for falls back).
SentValidates == \A labels \in DOMAIN cache : Valid(cache[labels])

\* What admission does establish: of an admitted repository, every node that
\* matches the sets some representative label set matches, or none, is sent a
\* render that obeys every rule. (A node that combines sets otherwise is not
\* covered: see the README.)
Covered(repo, labels) ==
  \/ Picked(repo, labels) = {}
  \/ \E i \in DOMAIN repo.sets :
       Picked(repo, labels) = Picked(repo, Representative(repo.sets[i].selector))

CoveredNodesObeyRules ==
  fleet # None /\ fleet.commit \in Admissible =>
    \A labels \in DOMAIN cache :
      Covered(Repos[fleet.commit], labels) => ObeysRules(cache[labels])

\* "Admission gates a config before it can become desired" (admission.rs:5,
\* main.rs:285). False of the code, which resolves the source once to admit and
\* once to render: see the README, section 5.
AdmittedBeforeDesired == fleet # None => fleet.commit \in Admissible
=============================================================================
