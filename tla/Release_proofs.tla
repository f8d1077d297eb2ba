--------------------------- MODULE Release_proofs ---------------------------
(* Proofs about Release, for any source, any repositories and any label sets. *)
(* The validation of a document and the rules of admission stay opaque: what *)
(* is proved holds whatever they are. Then proofs about Canary, the analysis *)
(* that the first waves of a released commit have to pass.                   *)
EXTENDS Release, Canary, SumLemmas

\* Until the process is up nothing is in force, nothing is cached and no
\* reload task exists.
StartInv ==
  pc["serve"] # "up" =>
    /\ fleet = None /\ cache = <<>>
    /\ \A t \in Tasks \ {"serve"} : pc[t] = "off"

\* What a task carries from its render to the store rendered, and so did what
\* is in force.
RenderedInv ==
  /\ \A t \in Tasks : pc[t] \in {"policy", "apply"} => got[t] \in Renderable
  /\ fleet # None => fleet.commit \in Renderable

ReleaseInv == TypeOK /\ StartInv /\ RenderedInv /\ CacheAgrees

\* A stamped render, or the fleet-wide one in its place, has been validated.
LEMMA DesiredValidates ==
  ASSUME NEW c \in Renderable, NEW labels \in Fleets
  PROVE  Valid(DesiredOf[c][labels])
<1> DEFINE doc == RenderFor(Repos[c], labels)
<1>1. DesiredOf[c][labels] = IF doc = Invalid THEN FleetRender(Repos[c]) ELSE doc
  BY DEF DesiredOf
<1>2. CASE doc = Invalid
  <2>1. FleetRender(Repos[c]) # Invalid
    BY DEF Renderable
  <2>2. Valid(FleetRender(Repos[c]))
    BY <2>1 DEF FleetRender, Rendered
  <2>3. QED
    BY <1>1, <1>2, <2>2
<1>3. CASE doc # Invalid
  <2>1. Valid(doc)
    BY <1>3 DEF RenderFor, Rendered
  <2>2. QED
    BY <1>1, <1>3, <2>1
<1>4. QED
  BY <1>2, <1>3

LEMMA InitReleaseInv == Init => ReleaseInv
<1> SUFFICES ASSUME Init PROVE ReleaseInv
  OBVIOUS
<1>1. DOMAIN cache = {}
  BY DEF Init
<1>2. TypeOK
  BY <1>1 DEF Init, TypeOK, Tasks
<1>3. StartInv /\ RenderedInv /\ CacheAgrees
  BY <1>1 DEF Init, StartInv, RenderedInv, CacheAgrees, Tasks
<1>4. QED
  BY <1>2, <1>3 DEF ReleaseInv

\* A step that leaves what is in force and its cache alone preserves what is
\* said of them.
LEMMA QuietStep ==
  ASSUME ReleaseInv, UNCHANGED <<fleet, cache>>
  PROVE  CacheAgrees' /\ (fleet' # None => fleet'.commit \in Renderable)
  BY DEF ReleaseInv, CacheAgrees, RenderedInv

\* The store of a render: nothing computed under the old one stays.
LEMMA ApplyStep ==
  ASSUME ReleaseInv, NEW t \in Tasks, Apply(t)
  PROVE  ReleaseInv'
<1> USE DEF ReleaseInv
<1>1. got[t] \in Renderable /\ fleet'.commit = got[t]
  BY DEF Apply, Applied, RenderedInv
<1>2. pc["serve"] = "up" /\ pc'["serve"] = "up"
  BY DEF Apply, Goes, StartInv, TypeOK, Tasks
<1>3. DOMAIN cache' = {}
  BY DEF Apply
<1>4. TypeOK'
  BY <1>1, <1>3 DEF Apply, Goes, TypeOK, Renderable
<1>5. RenderedInv'
  <2> SUFFICES ASSUME NEW s \in Tasks, pc'[s] \in {"policy", "apply"}
               PROVE  got'[s] \in Renderable
    BY <1>1 DEF RenderedInv
  <2>1. s # t /\ pc'[s] = pc[s] /\ got'[s] = got[s]
    BY DEF Apply, Goes, TypeOK
  <2>2. QED
    BY <2>1 DEF RenderedInv
<1>6. StartInv' /\ CacheAgrees'
  BY <1>2, <1>3 DEF StartInv, CacheAgrees
<1>7. QED
  BY <1>4, <1>5, <1>6

\* The first render in force; the cache is still empty.
LEMMA StartUpStep ==
  ASSUME ReleaseInv, StartUp
  PROVE  ReleaseInv'
<1> USE DEF ReleaseInv
<1>1. "serve" \in Tasks /\ got["serve"] \in Renderable /\ fleet'.commit = got["serve"]
  BY DEF StartUp, Applied, RenderedInv, Tasks
<1>2. cache' = <<>> /\ DOMAIN cache' = {}
  BY DEF StartUp, StartInv
<1>3. pc' \in [Tasks -> {"up", "first", "idle"}] /\ pc'["serve"] = "up"
  BY DEF StartUp, Tasks
<1>4. TypeOK'
  BY <1>1, <1>2, <1>3 DEF StartUp, TypeOK, Renderable
<1>5. RenderedInv' /\ StartInv' /\ CacheAgrees'
  BY <1>1, <1>2, <1>3 DEF RenderedInv, StartInv, CacheAgrees
<1>6. QED
  BY <1>4, <1>5

\* A render is computed for a label set under what is in force.
LEMMA PushStep ==
  ASSUME ReleaseInv, NEW labels \in Fleets, Push(labels)
  PROVE  ReleaseInv'
<1> USE DEF ReleaseInv
<1>1. /\ DOMAIN cache' = DOMAIN cache \cup {labels}
      /\ \A l \in DOMAIN cache' :
           cache'[l] = IF l = labels THEN DesiredOf[fleet.commit][labels] ELSE cache[l]
  BY DEF Push
<1>2. pc["serve"] = "up" /\ fleet # None /\ UNCHANGED <<fleet, pc, got>>
  BY DEF Push, StartInv
<1>3. CacheAgrees'
  BY <1>1, <1>2 DEF CacheAgrees
<1>4. TypeOK'
  BY <1>1 DEF Push, TypeOK
<1>5. RenderedInv' /\ StartInv'
  BY <1>2 DEF RenderedInv, StartInv
<1>6. QED
  BY <1>3, <1>4, <1>5

\* A task between its resolve and its store.
LEMMA TaskStep ==
  ASSUME ReleaseInv, NEW t \in Tasks, Admit(t) \/ Render(t) \/ SetPolicy(t) \/ Walked(t)
  PROVE  ReleaseInv'
<1> USE DEF ReleaseInv
<1>1. UNCHANGED <<head, seen, fleet, cache>>
  BY DEF Admit, Render, SetPolicy, Walked
<1>2. /\ pc'[t] \in {"render", "policy", "apply", "idle", "exited"}
      /\ \A s \in Tasks \ {t} : pc'[s] = pc[s] /\ got'[s] = got[s]
      /\ pc[t] \notin {"off", "up"}
  BY DEF Admit, Render, SetPolicy, Walked, Goes, Refused, TypeOK
<1>3. pc' = [pc EXCEPT ![t] = pc'[t]]
  BY DEF Admit, Render, SetPolicy, Walked, Goes, Refused, TypeOK
<1>4. got' \in [Tasks -> Commits \cup {None}]
  BY DEF Admit, Render, SetPolicy, Walked, TypeOK
<1>5. pc'[t] \in {"policy", "apply"} => got'[t] \in Renderable
  BY DEF Admit, Render, SetPolicy, Walked, Goes, Refused, TypeOK, RenderedInv
<1>6. TypeOK'
  BY <1>1, <1>2, <1>3, <1>4 DEF TypeOK
<1>7. RenderedInv'
  BY <1>1, <1>2, <1>5, QuietStep DEF RenderedInv
<1>8. StartInv'
  BY <1>1, <1>2 DEF StartInv, Tasks
<1>9. QED
  BY <1>1, <1>6, <1>7, <1>8, QuietStep

LEMMA NextReleaseInv == ReleaseInv /\ [Next]_vars => ReleaseInv'
<1> SUFFICES ASSUME ReleaseInv, [Next]_vars PROVE ReleaseInv'
  OBVIOUS
<1> USE DEF ReleaseInv
<1>1. CASE UNCHANGED vars
  BY <1>1 DEF vars, TypeOK, StartInv, RenderedInv, CacheAgrees
<1>2. CASE Move
  BY <1>2 DEF Move, TypeOK, StartInv, RenderedInv, CacheAgrees
<1>3. CASE Notice \/ Hangup \/ FirstLook
  <2>1. UNCHANGED <<head, got, fleet, cache>>
    BY <1>3 DEF Notice, Hangup, FirstLook
  <2>2. seen' \in Commits \cup {None}
    BY <1>3 DEF Notice, Hangup, FirstLook, Fingerprint, Renderable, TypeOK
  <2>3. ASSUME NEW t \in {"poll", "hangup"}, NEW step \in {"admit", "idle"},
               pc[t] # "off", pc' = [pc EXCEPT ![t] = step]
        PROVE  ReleaseInv'
    <3>1. t \in Tasks /\ t # "serve" /\ "serve" \in Tasks
      BY DEF Tasks
    <3>2. TypeOK'
      BY <2>1, <2>2, <2>3, <3>1 DEF TypeOK
    <3>3. RenderedInv' /\ StartInv'
      BY <2>1, <2>3, <3>1 DEF RenderedInv, StartInv, TypeOK
    <3>4. QED
      BY <2>1, <3>2, <3>3, QuietStep
  <2>4. CASE Notice
    BY <2>3, <2>4 DEF Notice, Goes
  <2>5. CASE Hangup
    BY <2>3, <2>5 DEF Hangup, Goes
  <2>6. CASE FirstLook
    BY <2>3, <2>6 DEF FirstLook, Goes
  <2>7. QED
    BY <1>3, <2>4, <2>5, <2>6
<1>4. CASE StartUp
  BY <1>4, StartUpStep
<1>5. ASSUME NEW t \in Tasks, Reload(t) PROVE ReleaseInv'
  BY <1>5, ApplyStep, TaskStep DEF Reload
<1>6. ASSUME NEW labels \in Fleets, Push(labels) PROVE ReleaseInv'
  BY <1>6, PushStep
<1>7. QED
  BY <1>1, <1>2, <1>3, <1>4, <1>5, <1>6 DEF Next

LEMMA ReleaseInvariant == Spec => []ReleaseInv
  BY InitReleaseInv, NextReleaseInv, PTL DEF Spec

-----------------------------------------------------------------------------
\* Types hold in every reachable state.
THEOREM ReleaseTypes == Spec => []TypeOK
<1>1. ReleaseInv => TypeOK
  BY DEF ReleaseInv
<1>2. QED
  BY ReleaseInvariant, <1>1, PTL

\* The two reload tasks may store their renders in any order, with pushes and
\* reconciles between: every render at hand is of the repository in force.
THEOREM CacheCoherent == Spec => []CacheAgrees
<1>1. ReleaseInv => CacheAgrees
  BY DEF ReleaseInv
<1>2. QED
  BY ReleaseInvariant, <1>1, PTL

\* finalize after stamping, and the fallback of desired_for: no set of
\* overlays makes a node receive a document its own validation refuses.
THEOREM OnlyValidSent == Spec => []SentValidates
<1>1. ReleaseInv => SentValidates
  <2> SUFFICES ASSUME ReleaseInv, NEW labels \in DOMAIN cache PROVE Valid(cache[labels])
    BY DEF SentValidates
  <2>1. cache[labels] = DesiredOf[fleet.commit][labels] /\ fleet.commit \in Renderable
    BY DEF ReleaseInv, CacheAgrees, RenderedInv
  <2>2. labels \in Fleets
    BY DEF ReleaseInv, TypeOK
  <2>3. QED
    BY <2>1, <2>2, DesiredValidates
<1>2. QED
  BY ReleaseInvariant, <1>1, PTL

-----------------------------------------------------------------------------
\* What a node is sent depends on its labels through the sets they pick only,
\* so a representative label set stands for every node that picks the same.
LEMMA StampByPicked ==
  ASSUME NEW repo, NEW a, NEW b, Picked(repo, a) = Picked(repo, b)
  PROVE  RenderFor(repo, a) = RenderFor(repo, b)
<1>1. Stamp(repo, a) = Stamp(repo, b)
  BY DEF Stamp
<1> QED BY <1>1, Zenon DEF RenderFor

\* A node no set picks is sent the fleet-wide render.
LEMMA StampNothing ==
  ASSUME NEW repo, NEW labels, Picked(repo, labels) = {}
  PROVE  RenderFor(repo, labels) = FleetRender(repo)
<1>1. Assembled(repo) = [path \in DOMAIN Assembled(repo) |-> Assembled(repo)[path]]
  BY DEF Assembled, Restrict
<1> DEFINE doc == Assembled(repo)
<1> HIDE DEF doc
<1>2. Stamp(repo, labels) = [path \in DOMAIN doc |-> doc[path]]
  BY DEF Stamp, doc
<1>3. Stamp(repo, labels) = Assembled(repo)
  BY <1>1, <1>2 DEF doc
<1> QED BY <1>3, Zenon DEF RenderFor, FleetRender

\* What admission evaluated obeys its rules, and stands for what is sent.
LEMMA CoveredObeys ==
  ASSUME NEW c \in Renderable, c \in Admissible, NEW labels \in Fleets,
         Covered(Repos[c], labels)
  PROVE  ObeysRules(DesiredOf[c][labels])
<1> DEFINE repo == Repos[c]
           doc == RenderFor(repo, labels)
<1>1. DesiredOf[c][labels] = IF doc = Invalid THEN FleetRender(repo) ELSE doc
  BY DEF DesiredOf
<1>2. Admitted(repo)
  BY DEF Admissible
<1> HIDE DEF repo
<1>3. ObeysRules(FleetRender(repo))
  BY <1>2 DEF Admitted
<1>4. CASE Picked(repo, labels) = {}
  BY <1>1, <1>3, <1>4, StampNothing
<1>5. ASSUME NEW i \in DOMAIN repo.sets,
             Picked(repo, labels) = Picked(repo, Representative(repo.sets[i].selector))
      PROVE  ObeysRules(DesiredOf[c][labels])
  <2>1. doc = RenderFor(repo, Representative(repo.sets[i].selector))
    BY <1>5, StampByPicked
  <2>2. ObeysRules(RenderFor(repo, Representative(repo.sets[i].selector)))
    BY <1>2, <1>5 DEF Admitted
  <2> QED BY <1>1, <1>3, <2>1, <2>2
<1> QED BY <1>4, <1>5 DEF Covered, repo

\* Under an admitted configuration every node that admission's representatives
\* stand for is sent a render that obeys all rules, whatever is stamped on the
\* others and whichever reload task stored what is in force (admit_resolved).
THEOREM RulesReachCoveredNodes == Spec => []CoveredNodesObeyRules
<1>1. ReleaseInv => CoveredNodesObeyRules
  <2> SUFFICES ASSUME ReleaseInv, fleet # None, fleet.commit \in Admissible,
                      NEW labels \in DOMAIN cache, Covered(Repos[fleet.commit], labels)
               PROVE  ObeysRules(cache[labels])
    BY DEF CoveredNodesObeyRules
  <2>1. cache[labels] = DesiredOf[fleet.commit][labels] /\ fleet.commit \in Renderable
    BY DEF ReleaseInv, CacheAgrees, RenderedInv
  <2>2. labels \in Fleets
    BY DEF ReleaseInv, TypeOK
  <2>3. QED
    BY <2>1, <2>2, CoveredObeys
<1>2. QED
  BY ReleaseInvariant, <1>1, PTL

-----------------------------------------------------------------------------
(* Where AdmittedBeforeDesired fails, and why nowhere else: nothing in the     *)
(* store, the cache or the tasks' overlaps lets an unadmitted commit through,  *)
(* only a source that moves between a task's two resolves.                    *)
SourceHolds == [][\A t \in Tasks : pc[t] = "render" => head' = head]_vars

Vetted(t) ==
  /\ pc[t] = "render" => head \in Admissible
  /\ pc[t] \in {"policy", "apply"} => got[t] \in Admissible

VettedInv == AdmittedBeforeDesired /\ \A t \in Tasks : Vetted(t)

LEMMA VettedStep ==
  ASSUME TypeOK, VettedInv, [Next]_vars,
         [\A t \in Tasks : pc[t] = "render" => head' = head]_vars
  PROVE  VettedInv'
<1> USE DEF VettedInv
<1>1. CASE UNCHANGED vars
  BY <1>1 DEF vars, Vetted, AdmittedBeforeDesired
<1>2. ASSUME ~UNCHANGED vars PROVE \A t \in Tasks : pc[t] = "render" => head' = head
  BY <1>2
<1>3. CASE Move
  BY <1>2, <1>3 DEF Move, Vetted, AdmittedBeforeDesired, vars
<1>4. CASE Notice \/ Hangup \/ FirstLook \/ (\E labels \in Fleets : Push(labels))
  <2>1. UNCHANGED <<head, got, fleet>>
    BY <1>4 DEF Notice, Hangup, FirstLook, Push
  <2>2. \A t \in Tasks : pc'[t] = pc[t] \/ pc'[t] \in {"admit", "idle"}
    BY <1>4 DEF Notice, Hangup, FirstLook, Push, Goes, TypeOK
  <2>3. QED
    BY <2>1, <2>2 DEF Vetted, AdmittedBeforeDesired
<1>5. ASSUME NEW t \in Tasks, Apply(t) \/ (t = "serve" /\ StartUp) PROVE VettedInv'
  <2>1. got[t] \in Admissible /\ fleet'.commit = got[t] /\ head' = head
    BY <1>5 DEF Apply, StartUp, Applied, Vetted
  <2>2. \A s \in Tasks : \/ pc'[s] = pc[s] /\ got'[s] = got[s]
                         \/ pc'[s] \in {"idle", "walk", "up", "first"}
    BY <1>5 DEF Apply, StartUp, Goes, TypeOK
  <2>3. QED
    BY <2>1, <2>2 DEF Vetted, AdmittedBeforeDesired
<1>6. ASSUME NEW t \in Tasks, Admit(t) \/ Render(t) \/ SetPolicy(t) \/ Walked(t)
      PROVE  VettedInv'
  <2>1. UNCHANGED <<head, fleet>>
    BY <1>6 DEF Admit, Render, SetPolicy, Walked
  <2>2. \A s \in Tasks \ {t} : pc'[s] = pc[s] /\ got'[s] = got[s]
    BY <1>6 DEF Admit, Render, SetPolicy, Walked, Goes, Refused, TypeOK
  <2>3. Vetted(t)'
    BY <1>6 DEF Admit, Render, SetPolicy, Walked, Goes, Refused, TypeOK, Vetted
  <2>4. QED
    BY <2>1, <2>2, <2>3 DEF Vetted, AdmittedBeforeDesired
<1>7. "serve" \in Tasks
  BY DEF Tasks
<1>8. QED
  BY <1>1, <1>3, <1>4, <1>5, <1>6, <1>7 DEF Next, Reload

\* "Admission gates a config before it can become desired" (admission.rs:5) is
\* true of every execution in which the source keeps still between the resolve
\* that admits and the resolve that renders, whatever else interleaves.
THEOREM AdmissionGates == Spec /\ SourceHolds => []AdmittedBeforeDesired
<1>1. Init => VettedInv
  BY DEF Init, VettedInv, Vetted, AdmittedBeforeDesired, Tasks
<1>2. TypeOK /\ VettedInv /\ [Next]_vars
        /\ [\A t \in Tasks : pc[t] = "render" => head' = head]_vars => VettedInv'
  BY VettedStep
<1>3. VettedInv => AdmittedBeforeDesired
  BY DEF VettedInv
<1>4. QED
  BY <1>1, <1>2, <1>3, ReleaseTypes, PTL DEF Spec, SourceHolds

(***************************************************************************)
(* A commit that is rendered and admitted is judged on its canary wave. What *)
(* follows is about Canary, for any pools, policy, samples and reports.      *)
(***************************************************************************)

\* A node's own counter, and its figure in the ledger, exceed what the figure
\* was when the window opened by at most what is counted since.
SpendSince ==
  \A n \in Nodes : opened[n] # NoTally =>
    /\ spent[n] <= opened[n] + since[n].spent
    /\ Figure(n) <= opened[n] + since[n].spent

CanaryInv == CanaryTypeOK /\ WindowIsTheWaves /\ SpendSince

\* A health report adds natural numbers, and at most one sample.
LEMMA TalliesAreNatural ==
  ASSUME NEW r \in Reports
  PROVE  /\ Tallied(r) \in [requests : Nat, errors : Nat]
         /\ r.p99 \in Nat \cup {NoTally}
<1>1. r \in [healthy : BOOLEAN, req : Tally, err : Tally, p99 : Tally]
  BY CanaryAssumption
<1>2. /\ r.req \in Nat \cup {NoTally} /\ r.err \in Nat \cup {NoTally}
      /\ r.p99 \in Nat \cup {NoTally}
  BY <1>1 DEF Tally
<1> QED
  BY <1>2 DEF Tallied

\* The first samples of a window are kept, up to the cap.
LEMMA SamplesAreKept ==
  ASSUME NEW s \in Seq(Nat), Len(s) <= MaxSamples,
         NEW p \in Nat \cup {NoTally}
  PROVE  Kept(s, p) \in Seq(Nat) /\ Len(Kept(s, p)) <= MaxSamples
<1>1. CASE p = NoTally \/ Len(s) >= MaxSamples
  BY <1>1 DEF Kept
<1>2. CASE ~(p = NoTally \/ Len(s) >= MaxSamples)
  <2>1. Kept(s, p) = Append(s, p) /\ p \in Nat
    BY <1>2 DEF Kept
  <2>2. MaxSamples \in Nat /\ Len(s) \in Nat
    BY CanaryAssumption
  <2>3. Append(s, p) \in Seq(Nat) /\ Len(Append(s, p)) = Len(s) + 1
    BY <2>1
  <2> QED
    BY <1>2, <2>1, <2>2, <2>3
<1> QED
  BY <1>1, <1>2

LEMMA TwoFields ==
  ASSUME NEW r \in [requests : Nat, errors : Nat, spent : Nat], NEW a \in Nat, NEW b \in Nat
  PROVE  /\ [r EXCEPT !.requests = a, !.errors = b] \in [requests : Nat, errors : Nat, spent : Nat]
         /\ [r EXCEPT !.requests = a, !.errors = b].requests = a
         /\ [r EXCEPT !.requests = a, !.errors = b].errors = b
         /\ [r EXCEPT !.requests = a, !.errors = b].spent = r.spent
<1> DEFINE first == [r EXCEPT !.requests = a]
<1>1. /\ first \in [requests : Nat, errors : Nat, spent : Nat]
      /\ first.requests = a /\ first.spent = r.spent
  OBVIOUS
<1>2. [r EXCEPT !.requests = a, !.errors = b] = [first EXCEPT !.errors = b]
  OBVIOUS
<1> HIDE DEF first
<1> QED
  BY <1>1, <1>2

\* A report is recorded in the node's window and counted since it opened, and
\* nothing else changes.
LEMMA RecordKeepsInv ==
  ASSUME CanaryInv, NEW n \in Nodes,
         NEW tally \in [requests : Nat, errors : Nat], NEW p \in Nat \cup {NoTally},
         Event, Record(n, tally, p), UNCHANGED <<ledger, opened, spent, verdict>>
  PROVE  CanaryInv'
<1> DEFINE next == [requests |-> window[n].requests + tally.requests,
                    errors |-> window[n].errors + tally.errors,
                    latencies |-> Kept(window[n].latencies, p)]
           counted == [since[n] EXCEPT !.requests = @ + tally.requests,
                                       !.errors = @ + tally.errors]
<1>1. /\ window \in [Nodes -> [requests : Nat, errors : Nat, latencies : Seq(Nat)]]
      /\ since \in [Nodes -> [requests : Nat, errors : Nat, spent : Nat]]
      /\ \A m \in Nodes : Len(window[m].latencies) <= MaxSamples
      /\ events \in Nat
  BY DEF CanaryInv, CanaryTypeOK
<1>2. window' = [window EXCEPT ![n] = next]
  BY DEF Record
<1>3. since' = [since EXCEPT ![n] = counted]
  BY <1>1 DEF Record, Count
<1>4. /\ next \in [requests : Nat, errors : Nat, latencies : Seq(Nat)]
      /\ Len(next.latencies) <= MaxSamples
  <2>1. /\ Kept(window[n].latencies, p) \in Seq(Nat)
        /\ Len(Kept(window[n].latencies, p)) <= MaxSamples
    BY <1>1, SamplesAreKept
  <2> QED
    BY <1>1, <2>1
<1>5. /\ counted \in [requests : Nat, errors : Nat, spent : Nat]
      /\ counted.spent = since[n].spent
      /\ counted.requests = since[n].requests + tally.requests
      /\ counted.errors = since[n].errors + tally.errors
  <2>1. since[n] \in [requests : Nat, errors : Nat, spent : Nat]
    BY <1>1
  <2>2. since[n].requests + tally.requests \in Nat /\ since[n].errors + tally.errors \in Nat
    BY <2>1
  <2> QED
    BY <2>1, <2>2, TwoFields
<1>6. events' \in Nat
  BY <1>1 DEF Event
<1>7. CanaryTypeOK'
  <2> HIDE DEF next, counted
  <2>1. window' \in [Nodes -> [requests : Nat, errors : Nat, latencies : Seq(Nat)]]
    BY <1>1, <1>2, <1>4
  <2>2. since' \in [Nodes -> [requests : Nat, errors : Nat, spent : Nat]]
    BY <1>1, <1>3, <1>5
  <2>3. \A m \in Nodes : Len(window'[m].latencies) <= MaxSamples
    BY <1>1, <1>2, <1>4
  <2> QED
    BY <1>6, <2>1, <2>2, <2>3 DEF CanaryInv, CanaryTypeOK
<1>8. WindowIsTheWaves'
  <2> SUFFICES ASSUME verdict = "open", NEW m \in CanaryNodes
               PROVE  /\ window'[m].requests = since'[m].requests
                      /\ window'[m].errors = since'[m].errors
    BY DEF WindowIsTheWaves
  <2>1. m \in Nodes /\ window[m].requests = since[m].requests
        /\ window[m].errors = since[m].errors
    BY DEF CanaryInv, WindowIsTheWaves, Nodes
  <2>2. next.requests = window[n].requests + tally.requests
        /\ next.errors = window[n].errors + tally.errors
    OBVIOUS
  <2> HIDE DEF next, counted
  <2>3. CASE m = n
    BY <1>1, <1>2, <1>3, <1>5, <2>1, <2>2, <2>3
  <2>4. CASE m # n
    BY <1>1, <1>2, <1>3, <2>1, <2>4
  <2> QED
    BY <2>3, <2>4
<1>9. SpendSince'
  <2> HIDE DEF next, counted
  <2>1. \A m \in Nodes : since'[m].spent = since[m].spent
    BY <1>1, <1>3, <1>5
  <2> QED
    BY <2>1 DEF CanaryInv, SpendSince, Figure
<1> QED
  BY <1>7, <1>8, <1>9 DEF CanaryInv


LEMMA HeartbeatKeepsInv ==
  ASSUME CanaryInv, NEW n \in Nodes, Heartbeat(n)
  PROVE  CanaryInv'
<1>1. PICK r \in Reports : Record(n, Tallied(r), r.p99)
  BY DEF Heartbeat
<1>2. Event /\ UNCHANGED <<ledger, opened, spent, verdict>>
  BY DEF Heartbeat
<1> QED
  BY <1>1, <1>2, TalliesAreNatural, RecordKeepsInv

LEMMA NackKeepsInv ==
  ASSUME CanaryInv, NEW n \in Nodes, Nack(n)
  PROVE  CanaryInv'
<1> DEFINE tally == [requests |-> 1, errors |-> 1]
<1>1. Record(n, tally, NoTally)
  BY DEF Nack
<1>2. Event /\ UNCHANGED <<ledger, opened, spent, verdict>>
  BY DEF Nack
<1>3. tally \in [requests : Nat, errors : Nat] /\ NoTally \in Nat \cup {NoTally}
  OBVIOUS
<1> HIDE DEF tally
<1> QED
  BY <1>1, <1>2, <1>3, RecordKeepsInv

\* A node's counter grows by what is counted as spent since.
LEMMA SpendKeepsInv ==
  ASSUME CanaryInv, NEW n \in Nodes, Spend(n)
  PROVE  CanaryInv'
<1>1. /\ spent \in [Nodes -> Nat] /\ opened \in [Nodes -> Nat \cup {NoTally}]
      /\ ledger \in [Nodes -> Nat \cup {NoTally}]
      /\ since \in [Nodes -> [requests : Nat, errors : Nat, spent : Nat]]
      /\ events \in Nat
  BY DEF CanaryInv, CanaryTypeOK, Tally
<1>2. /\ spent' = [spent EXCEPT ![n] = @ + 1]
      /\ since' = [since EXCEPT ![n].spent = @ + 1]
      /\ events' = events + 1
      /\ UNCHANGED <<window, ledger, opened, verdict>>
  BY DEF Spend, Event
<1>3. /\ since' \in [Nodes -> [requests : Nat, errors : Nat, spent : Nat]]
      /\ \A m \in Nodes : /\ since'[m].requests = since[m].requests
                            /\ since'[m].errors = since[m].errors
                            /\ since'[m].spent = IF m = n THEN since[m].spent + 1 ELSE since[m].spent
  BY <1>1, <1>2
<1>4. /\ spent' \in [Nodes -> Nat]
      /\ \A m \in Nodes : spent'[m] = IF m = n THEN spent[m] + 1 ELSE spent[m]
  BY <1>1, <1>2
<1>5. CanaryTypeOK'
  <2>1. events' \in Nat
    BY <1>1, <1>2
  <2> QED
    BY <1>2, <1>3, <1>4, <2>1 DEF CanaryInv, CanaryTypeOK
<1>6. WindowIsTheWaves'
  BY <1>2, <1>3 DEF CanaryInv, WindowIsTheWaves, Nodes
<1>7. SpendSince'
  BY <1>1, <1>2, <1>3, <1>4 DEF CanaryInv, SpendSince, Figure
<1> QED
  BY <1>5, <1>6, <1>7 DEF CanaryInv

LEMMA ReportSpendKeepsInv ==
  ASSUME CanaryInv, NEW n \in Nodes, ReportSpend(n)
  PROVE  CanaryInv'
<1>1. /\ spent \in [Nodes -> Nat] /\ opened \in [Nodes -> Nat \cup {NoTally}]
      /\ ledger \in [Nodes -> Nat \cup {NoTally}]
      /\ since \in [Nodes -> [requests : Nat, errors : Nat, spent : Nat]]
  BY DEF CanaryInv, CanaryTypeOK, Tally
<1>2. /\ ledger' = [ledger EXCEPT ![n] = spent[n]]
      /\ UNCHANGED <<window, opened, spent, verdict, since, events>>
  BY DEF ReportSpend
<1>3. CanaryTypeOK'
  BY <1>1, <1>2 DEF CanaryInv, CanaryTypeOK, Tally
<1>4. WindowIsTheWaves'
  BY <1>2 DEF CanaryInv, WindowIsTheWaves
<1>5. SpendSince'
  <2> SUFFICES ASSUME NEW m \in Nodes, opened[m] # NoTally
               PROVE  /\ spent[m] <= opened[m] + since[m].spent
                      /\ Figure(m)' <= opened[m] + since[m].spent
    BY <1>2 DEF SpendSince
  <2>1. opened[m] \in Nat /\ since[m].spent \in Nat
    BY <1>1
  <2>2. /\ spent[m] <= opened[m] + since[m].spent
        /\ Figure(m) <= opened[m] + since[m].spent
    BY DEF CanaryInv, SpendSince
  <2>3. Figure(m)' \in {Figure(m), spent[m], 0}
    BY <1>1, <1>2 DEF Figure
  <2> QED
    BY <2>1, <2>2, <2>3
<1> QED
  BY <1>3, <1>4, <1>5 DEF CanaryInv

\* The figure of a node that is forgotten is zero, and a restarted node counts
\* from zero: both only fall.
LEMMA DisconnectKeepsInv ==
  ASSUME CanaryInv, NEW n \in Nodes, Disconnect(n)
  PROVE  CanaryInv'
<1>1. /\ spent \in [Nodes -> Nat] /\ opened \in [Nodes -> Nat \cup {NoTally}]
      /\ ledger \in [Nodes -> Nat \cup {NoTally}]
      /\ since \in [Nodes -> [requests : Nat, errors : Nat, spent : Nat]]
      /\ events \in Nat
  BY DEF CanaryInv, CanaryTypeOK, Tally
<1>2. /\ ledger' = [ledger EXCEPT ![n] = NoTally]
      /\ spent' = spent \/ spent' = [spent EXCEPT ![n] = 0]
      /\ events' = events + 1
      /\ UNCHANGED <<window, opened, verdict, since>>
  BY DEF Disconnect, Event
<1>3. /\ spent' \in [Nodes -> Nat]
      /\ \A m \in Nodes : spent'[m] \in {spent[m], 0}
  BY <1>1, <1>2
<1>4. CanaryTypeOK'
  <2>1. ledger' \in [Nodes -> Nat \cup {NoTally}] /\ events' \in Nat
    BY <1>1, <1>2
  <2> QED
    BY <1>2, <1>3, <2>1 DEF CanaryInv, CanaryTypeOK, Tally
<1>5. WindowIsTheWaves'
  BY <1>2 DEF CanaryInv, WindowIsTheWaves
<1>6. SpendSince'
  <2> SUFFICES ASSUME NEW m \in Nodes, opened[m] # NoTally
               PROVE  /\ spent'[m] <= opened[m] + since[m].spent
                      /\ Figure(m)' <= opened[m] + since[m].spent
    BY <1>2 DEF SpendSince
  <2>1. opened[m] \in Nat /\ since[m].spent \in Nat
    BY <1>1
  <2>2. /\ spent[m] <= opened[m] + since[m].spent
        /\ Figure(m) <= opened[m] + since[m].spent
    BY DEF CanaryInv, SpendSince
  <2>3. Figure(m)' \in {Figure(m), 0}
    BY <1>1, <1>2 DEF Figure
  <2> QED
    BY <1>3, <2>1, <2>2, <2>3
<1> QED
  BY <1>4, <1>5, <1>6 DEF CanaryInv

\* Opening starts the canary's windows and counts together, and takes every
\* node's figure as the base its spend is measured from.
LEMMA OpenKeepsInv ==
  ASSUME CanaryInv, Open
  PROVE  CanaryInv'
<1> DEFINE late(n) == IF spent[n] > Figure(n) THEN spent[n] - Figure(n) ELSE 0
           begun(n) == IF n \in CanaryNodes THEN Nothing ELSE since[n]
<1>1. /\ spent \in [Nodes -> Nat] /\ ledger \in [Nodes -> Nat \cup {NoTally}]
      /\ window \in [Nodes -> [requests : Nat, errors : Nat, latencies : Seq(Nat)]]
      /\ \A n \in Nodes : Len(window[n].latencies) <= MaxSamples
      /\ since \in [Nodes -> [requests : Nat, errors : Nat, spent : Nat]]
  BY DEF CanaryInv, CanaryTypeOK, Tally
<1>2. /\ opened' = [n \in Nodes |-> Figure(n)]
      /\ since' = [n \in Nodes |-> [begun(n) EXCEPT !.spent = late(n)]]
      /\ window' = [n \in Nodes |-> IF n \in CanaryNodes THEN NoReports ELSE window[n]]
      /\ verdict' = "open"
      /\ UNCHANGED <<ledger, spent, events>>
  BY DEF Open, OpenSpend
<1>3. \A n \in Nodes : Figure(n) \in Nat /\ late(n) \in Nat /\ spent[n] <= Figure(n) + late(n)
  BY <1>1 DEF Figure
<1>4. /\ NoReports \in [requests : Nat, errors : Nat, latencies : Seq(Nat)]
      /\ NoReports.requests = 0 /\ NoReports.errors = 0
      /\ Len(NoReports.latencies) = 0
  BY DEF NoReports
<1>5. /\ Nothing \in [requests : Nat, errors : Nat, spent : Nat]
      /\ Nothing.requests = 0 /\ Nothing.errors = 0
  BY DEF Nothing
<1>6. \A n \in Nodes : begun(n) \in [requests : Nat, errors : Nat, spent : Nat]
  BY <1>1, <1>5
<1> HIDE DEF late, begun
<1>7. \A n \in Nodes :
        /\ since'[n] \in [requests : Nat, errors : Nat, spent : Nat]
        /\ since'[n].requests = begun(n).requests /\ since'[n].errors = begun(n).errors
        /\ since'[n].spent = late(n)
  BY <1>2, <1>3, <1>6
<1>8. CanaryTypeOK'
  <2>1. since' \in [Nodes -> [requests : Nat, errors : Nat, spent : Nat]]
    BY <1>2, <1>7
  <2>2. opened' \in [Nodes -> Tally]
    BY <1>2, <1>3 DEF Tally
  <2>3. window' \in [Nodes -> [requests : Nat, errors : Nat, latencies : Seq(Nat)]]
    BY <1>1, <1>2, <1>4
  <2>4. \A n \in Nodes : Len(window'[n].latencies) <= MaxSamples
    <3>1. 0 <= MaxSamples
      BY CanaryAssumption
    <3> QED
      BY <1>1, <1>2, <1>4, <3>1
  <2> QED
    BY <1>2, <2>1, <2>2, <2>3, <2>4 DEF CanaryInv, CanaryTypeOK
<1>9. WindowIsTheWaves'
  <2>1. \A n \in CanaryNodes : n \in Nodes /\ begun(n) = Nothing
    BY DEF Nodes, begun
  <2> QED
    BY <1>2, <1>4, <1>5, <1>7, <2>1 DEF WindowIsTheWaves
<1>10. SpendSince'
  <2>1. \A n \in Nodes : Figure(n)' = Figure(n)
    BY <1>2 DEF Figure
  <2> QED
    <3> SUFFICES ASSUME NEW n \in Nodes
                 PROVE  /\ spent[n] <= Figure(n) + since'[n].spent
                        /\ Figure(n) <= Figure(n) + since'[n].spent
      BY <1>2, <2>1 DEF SpendSince
    <3>1. since'[n].spent = late(n) /\ Figure(n) \in Nat /\ late(n) \in Nat
      BY <1>3, <1>7
    <3> QED
      BY <1>3, <3>1
<1> QED
  BY <1>8, <1>9, <1>10 DEF CanaryInv

\* A verdict closes the window, and the walk goes on with the pools as they are.
LEMMA VerdictKeepsInv ==
  ASSUME CanaryInv, Judge \/ NextWave
  PROVE  CanaryInv'
<1>1. UNCHANGED <<window, ledger, opened, spent, since, events>>
  BY DEF Judge, NextWave
<1>2. verdict' \in {"pending", "no data", "pass", "error rate", "p99", "spend"}
  <2>1. \A c, b : Analyze(c, b) \in {"no data", "pass", "error rate", "p99", "spend"}
    BY DEF Analyze
  <2> QED
    BY <2>1 DEF Judge, NextWave
<1>3. CanaryTypeOK'
  BY <1>1, <1>2 DEF CanaryInv, CanaryTypeOK
<1>4. WindowIsTheWaves'
  BY <1>2 DEF WindowIsTheWaves
<1>5. SpendSince'
  BY <1>1 DEF CanaryInv, SpendSince, Figure
<1> QED
  BY <1>3, <1>4, <1>5 DEF CanaryInv

LEMMA CanaryStep ==
  ASSUME CanaryInv, [CanaryNext]_canaryVars
  PROVE  CanaryInv'
<1>1. CASE UNCHANGED canaryVars
  BY <1>1 DEF canaryVars, CanaryInv, CanaryTypeOK, WindowIsTheWaves, SpendSince, Figure
<1>2. CASE CanaryNext
  BY <1>2, HeartbeatKeepsInv, NackKeepsInv, SpendKeepsInv, ReportSpendKeepsInv,
     DisconnectKeepsInv, OpenKeepsInv, VerdictKeepsInv DEF CanaryNext
<1> QED
  BY <1>1, <1>2

LEMMA CanaryStart ==
  ASSUME CanaryInit
  PROVE  CanaryInv
<1>1. MaxSamples \in Nat
  BY CanaryAssumption
<1>2. CanaryTypeOK
  BY <1>1 DEF CanaryInit, CanaryTypeOK, NoReports, Nothing, Tally
<1>3. WindowIsTheWaves /\ SpendSince
  BY DEF CanaryInit, WindowIsTheWaves, SpendSince
<1> QED
  BY <1>2, <1>3 DEF CanaryInv

\* The invariant of the canary's analysis, for any pools, policy and reports.
THEOREM CanaryInvHolds == CanarySpec => []CanaryInv
<1>1. CanaryInit => CanaryInv
  BY CanaryStart
<1>2. CanaryInv /\ [CanaryNext]_canaryVars => CanaryInv'
  BY CanaryStep
<1> QED
  BY <1>1, <1>2, PTL DEF CanarySpec

\* The windows, figures and counts of every node keep their types, and no
\* window holds more than MaxSamples latencies (FleetTelemetry).
THEOREM CanaryTypesHold == CanarySpec => []CanaryTypeOK
<1>1. CanaryInv => CanaryTypeOK
  BY DEF CanaryInv
<1> QED
  BY <1>1, CanaryInvHolds, PTL

\* While a wave's window is open, what is counted against its canary nodes is
\* what they reported since it opened (reset_many), however many waves,
\* commits, refusals and reports came before.
THEOREM WindowsAreTheWaves == CanarySpec => []WindowIsTheWaves
<1>1. CanaryInv => WindowIsTheWaves
  BY DEF CanaryInv
<1> QED
  BY <1>1, CanaryInvHolds, PTL

\* The spend a verdict weighs is never more than the node spent, or had not
\* yet reported, since its window opened, whatever disconnects and restarts
\* came between (node_windowed_spend).
THEOREM SpendIsOfTheWindow == CanarySpec => SpendIsTheWindows
<1>1. CanaryInv => \A n \in Nodes :
        opened[n] \notin {0, NoTally} => Assemble({n})[n].spent <= since[n].spent
  <2> SUFFICES ASSUME CanaryInv, NEW n \in Nodes, opened[n] \notin {0, NoTally}
               PROVE  Assemble({n})[n].spent <= since[n].spent
    OBVIOUS
  <2>1. Assemble({n})[n].spent = WindowedSpend(n)
    BY DEF Assemble, Telemetry
  <2>2. /\ opened[n] \in Nat /\ since[n].spent \in Nat
        /\ Figure(n) \in Nat
    BY DEF CanaryInv, CanaryTypeOK, Tally, Figure
  <2>3. Figure(n) <= opened[n] + since[n].spent
    BY DEF CanaryInv, SpendSince
  <2> QED
    BY <2>1, <2>2, <2>3 DEF WindowedSpend
<1>2. CanaryInv /\ [CanaryNext]_canaryVars
        => [Judge => \A n \in Nodes : opened[n] \notin {0, NoTally} =>
              Assemble({n})[n].spent <= since[n].spent]_canaryVars
  BY <1>1
<1> QED
  BY <1>2, CanaryInvHolds, PTL DEF CanarySpec, SpendIsTheWindows

(***************************************************************************)
(* The statistics of a pool of nodes.                                        *)
(***************************************************************************)
Reported == [requests : Nat, errors : Nat, latencies : Seq(Nat), spent : Nat]

IsPool(pool) ==
  /\ IsFiniteSet(DOMAIN pool) /\ MaxSamples \in Nat
  /\ \A n \in DOMAIN pool : pool[n] \in Reported /\ Len(pool[n].latencies) <= MaxSamples

\* The total of naturals over a finite pool is a natural.
LEMMA TotalIsNatural ==
  ASSUME NEW pool, IsFiniteSet(DOMAIN pool), NEW field,
         \A n \in DOMAIN pool : pool[n][field] \in Nat
  PROVE  Total(pool, field) \in Nat
<1> DEFINE S == DOMAIN pool
           f == [n \in S |-> pool[n][field]]
<1>1. DOMAIN f = S /\ f \in [S -> Nat]
  OBVIOUS
<1>2. Total(pool, field) = SumFunction(f)
  BY DEF Total
<1> HIDE DEF f, S
<1>3. SumFunction(f) = SumFunctionOnSet(f, S)
  BY <1>1, Zenon DEF SumFunction
<1>4. SumFunctionOnSet(f, S) = SumOver(f, S)[S]
  BY Zenon DEF SumFunctionOnSet, FoldFunctionOnSet, MapThenFoldSet, SumOver
<1>5. IsFiniteSet(S) /\ S \in SUBSET S
  BY DEF S
<1>6. \A T \in SUBSET S : SumOver(f, S)[T] \in Nat
  BY <1>1, <1>5, SumNat
<1> QED
  BY <1>2, <1>3, <1>4, <1>5, <1>6

\* One of finitely many positions holds the largest of the naturals there.
LEMMA LargestHeld ==
  ASSUME NEW S, IsFiniteSet(S), S # {}, NEW f \in [S -> Nat]
  PROVE  \E s \in S : \A t \in S : f[t] <= f[s]
<1> DEFINE Top(T) == \E s \in T : \A t \in T : f[t] <= f[s]
           G == {T \in SUBSET S : T = {} \/ Top(T)}
<1>1. {} \in G
  OBVIOUS
<1>2. \A T \in SUBSET S : T # {} /\ T \ {Pick(T)} \in G => T \in G
  <2> SUFFICES ASSUME NEW T \in SUBSET S, T # {}, T \ {Pick(T)} \in G PROVE Top(T)
    OBVIOUS
  <2> DEFINE x == Pick(T)
  <2>1. x \in T
    BY PickIn
  <2> HIDE DEF x
  <2>2. CASE T \ {x} = {}
    <3>1. \A t \in T : t = x
      BY <2>2
    <3> QED
      BY <2>1, <3>1
  <2>3. CASE T \ {x} # {}
    <3>1. PICK s \in T \ {x} : \A t \in T \ {x} : f[t] <= f[s]
      BY <2>3 DEF x
    <3>2. f[s] \in Nat /\ f[x] \in Nat /\ \A t \in T : f[t] \in Nat
      BY <2>1
    <3>3. CASE f[x] <= f[s]
      BY <3>1, <3>3
    <3>4. CASE f[s] <= f[x]
      <4>1. \A t \in T : f[t] <= f[x]
        BY <3>1, <3>2, <3>4
      <4> QED
        BY <2>1, <4>1
    <3> QED
      BY <3>2, <3>3, <3>4
  <2> QED
    BY <2>2, <2>3
<1> HIDE DEF G
<1>3. \A T \in SUBSET S : T \in G
  BY <1>1, <1>2, SubsetInduction
<1> QED
  BY <1>3 DEF G

\* The samples of a pool are finitely many, each with a natural for latency.
LEMMA SamplesOfPool ==
  ASSUME NEW pool, IsPool(pool)
  PROVE  /\ IsFiniteSet(Samples(pool))
         /\ \A s \in Samples(pool) : Latency(pool, s) \in Nat
<1> DEFINE S == DOMAIN pool
<1>1. \A n \in S : /\ pool[n].latencies \in Seq(Nat)
                   /\ DOMAIN pool[n].latencies = 1 .. Len(pool[n].latencies)
                   /\ Len(pool[n].latencies) \in Nat /\ Len(pool[n].latencies) <= MaxSamples
  BY DEF IsPool, Reported
<1>2. \A s \in Samples(pool) : \E n \in S : \E i \in DOMAIN pool[n].latencies : s = <<n, i>>
  BY DEF Samples
<1>3. MaxSamples \in Nat
  BY DEF IsPool
<1>4. Samples(pool) \subseteq S \X (1 .. MaxSamples)
  <2> SUFFICES ASSUME NEW s \in Samples(pool) PROVE s \in S \X (1 .. MaxSamples)
    OBVIOUS
  <2>0. PICK n \in S : \E i \in DOMAIN pool[n].latencies : s = <<n, i>>
    BY <1>2
  <2>1. PICK i \in DOMAIN pool[n].latencies : s = <<n, i>>
    BY <2>0
  <2>2. i \in 1 .. MaxSamples
    BY <1>1, <1>3, <2>1
  <2> QED
    BY <2>1, <2>2
<1>5. IsFiniteSet(S \X (1 .. MaxSamples))
  <2>1. IsFiniteSet(S) /\ IsFiniteSet(1 .. MaxSamples)
    BY <1>3, FS_Interval DEF IsPool
  <2> QED
    BY <2>1, FS_Product
<1>6. \A s \in Samples(pool) : Latency(pool, s) \in Nat
  <2> SUFFICES ASSUME NEW s \in Samples(pool) PROVE Latency(pool, s) \in Nat
    OBVIOUS
  <2>0. PICK n \in S : \E i \in DOMAIN pool[n].latencies : s = <<n, i>>
    BY <1>2
  <2>1. PICK i \in DOMAIN pool[n].latencies : s = <<n, i>>
    BY <2>0
  <2>2. Latency(pool, s) = pool[n].latencies[i]
    BY <2>1 DEF Latency
  <2> QED
    BY <1>1, <2>2
<1> QED
  BY <1>4, <1>5, <1>6, FS_Subset

\* The nearest rank is the rank of a sample.
LEMMA RankOfASample ==
  ASSUME NEW k \in Nat, k # 0
  PROVE  /\ (99 * (k - 1) + 50) \div 100 \in Nat
         /\ (99 * (k - 1) + 50) \div 100 < k
OBVIOUS

\* So the 99th percentile of a pool that has samples is one of them, and a
\* natural.
LEMMA P99IsNatural ==
  ASSUME NEW pool, IsPool(pool), Samples(pool) # {}
  PROVE  P99(pool) \in Nat
<1> DEFINE S == Samples(pool)
           f == [s \in S |-> Latency(pool, s)]
           Good == {v \in Nat : /\ \E s \in S : v = Latency(pool, s)
                                /\ NoMore(pool, v) > Rank(pool)}
<1>1. IsFiniteSet(S) /\ \A s \in S : Latency(pool, s) \in Nat
  BY SamplesOfPool
<1>2. PICK m \in S : \A t \in S : Latency(pool, t) <= Latency(pool, m)
  <2>1. f \in [S -> Nat]
    BY <1>1
  <2>2. \E s \in S : \A t \in S : f[t] <= f[s]
    <3> HIDE DEF f, S
    <3> QED
      BY <1>1, <2>1, LargestHeld DEF S
  <2> QED
    BY <2>2
<1>3. NoMore(pool, Latency(pool, m)) = Cardinality(S)
  <2>1. {s \in S : Latency(pool, s) <= Latency(pool, m)} = S
    BY <1>2
  <2> QED
    BY <2>1 DEF NoMore
<1>4. Cardinality(S) \in Nat /\ Cardinality(S) # 0
  BY <1>1, FS_CardinalityType, FS_EmptySet
<1>5. Cardinality(S) > Rank(pool) /\ Rank(pool) \in Nat
  BY <1>4, RankOfASample DEF Rank
<1>6. Latency(pool, m) \in Good
  BY <1>1, <1>3, <1>5
<1>7. PICK v \in Good : \A u \in Good : v <= u
  <2>1. Good \in SUBSET Nat /\ Good # {}
    BY <1>6
  <2> HIDE DEF Good
  <2> QED
    BY <2>1, LeastNatural
<1>8. \A s \in S : Latency(pool, s) < v => NoMore(pool, Latency(pool, s)) <= Rank(pool)
  <2> SUFFICES ASSUME NEW s \in S, Latency(pool, s) < v
               PROVE  NoMore(pool, Latency(pool, s)) <= Rank(pool)
    OBVIOUS
  <2>1. Latency(pool, s) \in Nat /\ v \in Nat
    BY <1>1
  <2>2. NoMore(pool, Latency(pool, s)) \in Nat
    <3>1. IsFiniteSet({t \in S : Latency(pool, t) <= Latency(pool, s)})
      BY <1>1, FS_Subset
    <3> QED
      BY <3>1, FS_CardinalityType DEF NoMore
  <2>3. ~(NoMore(pool, Latency(pool, s)) > Rank(pool))
    <3>1. SUFFICES ASSUME NoMore(pool, Latency(pool, s)) > Rank(pool) PROVE FALSE
      OBVIOUS
    <3>2. Latency(pool, s) \in Good
      BY <2>1, <3>1
    <3> QED
      BY <1>7, <2>1, <3>2
  <2> QED
    BY <1>5, <2>2, <2>3
<1>9. v \in {Latency(pool, s) : s \in S} /\ NoMore(pool, v) > Rank(pool)
  BY DEF Good
<1>10. P99(pool) \in {Latency(pool, s) : s \in S}
  <2> HIDE DEF Good
  <2> QED
    BY <1>8, <1>9 DEF P99
<1> QED
  BY <1>1, <1>10

(***************************************************************************)
(* No pool breaches against itself.                                          *)
(***************************************************************************)

\* The factors ask for no less than equality. parse_canary_policy asks only
\* that they be positive.
FactorsAllowEquality ==
  /\ CanaryPolicy.p99Factor \in Nat /\ CanaryPolicy.p99Factor >= 100
  /\ CanaryPolicy.spendFactor \in Nat /\ CanaryPolicy.spendFactor >= 100

LEMMA NoErrorBreach ==
  ASSUME NEW pool, IsPool(pool)
  PROVE  ~ErrorBreach(pool, pool)
<1> DEFINE e == Errors(pool)
           r == Served(pool)
           inc == CanaryPolicy.errorIncrease
<1>1. Total(pool, "requests") \in Nat /\ Total(pool, "errors") \in Nat
  <2>1. \A n \in DOMAIN pool : pool[n]["requests"] \in Nat /\ pool[n]["errors"] \in Nat
    BY DEF IsPool, Reported
  <2> QED
    BY <2>1, TotalIsNatural DEF IsPool
<1>2. e \in Nat /\ r \in Nat
  BY <1>1 DEF Errors, Served
<1>3. inc \in Nat
  BY CanaryAssumption
<1>4. ErrorBreach(pool, pool) <=> 100 * (e * r - e * r) > inc * r * r
  BY DEF ErrorBreach
<1> HIDE DEF e, r, inc
<1> DEFINE x == e * r
           y == inc * r * r
<1>5. x \in Nat /\ y \in Nat
  BY <1>2, <1>3
<1>6. ErrorBreach(pool, pool) <=> 100 * (x - x) > y
  BY <1>4
<1> HIDE DEF x, y
<1> QED
  BY <1>5, <1>6

LEMMA NoP99Breach ==
  ASSUME FactorsAllowEquality, NEW pool, IsPool(pool)
  PROVE  ~P99Breach(pool, pool)
<1> DEFINE p == P99(pool)
           k == CanaryPolicy.p99Factor
<1> SUFFICES ASSUME P99Breach(pool, pool) PROVE FALSE
  OBVIOUS
<1>1. Samples(pool) # {} /\ p > 0 /\ 100 * p > p * k
  BY DEF P99Breach
<1>2. p \in Nat /\ k \in Nat /\ k >= 100
  BY <1>1, P99IsNatural DEF FactorsAllowEquality
<1> HIDE DEF p, k
<1> QED
  BY <1>1, <1>2

LEMMA NoSpendBreach ==
  ASSUME FactorsAllowEquality, NEW pool, IsPool(pool)
  PROVE  ~SpendBreach(pool, pool)
<1> DEFINE t == Total(pool, "spent")
           size == Cardinality(DOMAIN pool)
           k == CanaryPolicy.spendFactor
<1>1. t \in Nat
  <2>1. \A n \in DOMAIN pool : pool[n]["spent"] \in Nat
    BY DEF IsPool, Reported
  <2> QED
    BY <2>1, TotalIsNatural DEF IsPool
<1>2. size \in Nat
  BY FS_CardinalityType DEF IsPool
<1>3. k \in Nat /\ k >= 100
  BY DEF FactorsAllowEquality
<1>4. ~Outlier(pool, pool)
  <2>1. Outlier(pool, pool) => t * size - t * size > 0
    BY DEF Outlier, Excess
  <2>2. t * size \in Nat
    BY <1>1, <1>2
  <2> DEFINE x == t * size
  <2>3. x \in Nat /\ (Outlier(pool, pool) => x - x > 0)
    BY <2>1, <2>2
  <2> HIDE DEF x
  <2> QED
    BY <2>3
<1>5. SpendBreach(pool, pool) <=>
        IF t = 0 THEN t > 0
        ELSE 100 * t * size > k * t * size \/ Outlier(pool, pool)
  BY DEF SpendBreach
<1> HIDE DEF t, size, k
<1>6. ~(100 * t * size > k * t * size)
  <2> DEFINE x == t * size
  <2>1. x \in Nat /\ 100 * t * size = 100 * x /\ k * t * size = k * x
    BY <1>1, <1>2, <1>3
  <2> HIDE DEF x
  <2>2. 100 * x <= k * x
    BY <1>3, <2>1
  <2>3. k * x \in Nat /\ 100 * x \in Nat
    BY <1>3, <2>1
  <2> QED
    BY <2>1, <2>2, <2>3
<1> QED
  BY <1>1, <1>4, <1>5, <1>6

\* What the nodes of a set are judged on makes a pool.
LEMMA AssembledIsPool ==
  ASSUME CanaryTypeOK, NEW S \in SUBSET Nodes
  PROVE  IsPool(Assemble(S))
<1> DEFINE pool == Assemble(S)
<1>1. DOMAIN pool = S /\ \A n \in S : pool[n] = Telemetry(n)
  BY DEF Assemble
<1>2. IsFiniteSet(S) /\ MaxSamples \in Nat
  BY CanaryAssumption, FS_Subset
<1>3. \A n \in S : WindowedSpend(n) \in Nat
  <2> SUFFICES ASSUME NEW n \in Nodes PROVE WindowedSpend(n) \in Nat
    OBVIOUS
  <2>1. ledger[n] \in Nat \cup {NoTally} /\ opened[n] \in Nat \cup {NoTally}
    BY DEF CanaryTypeOK, Tally
  <2>2. Figure(n) \in Nat
    BY <2>1 DEF Figure
  <2> QED
    BY <2>1, <2>2 DEF WindowedSpend
<1>4. \A n \in S : Telemetry(n) \in Reported /\ Len(Telemetry(n).latencies) <= MaxSamples
  <2> SUFFICES ASSUME NEW n \in S
               PROVE  Telemetry(n) \in Reported /\ Len(Telemetry(n).latencies) <= MaxSamples
    OBVIOUS
  <2>1. /\ window[n] \in [requests : Nat, errors : Nat, latencies : Seq(Nat)]
        /\ Len(window[n].latencies) <= MaxSamples
    BY DEF CanaryTypeOK
  <2> QED
    BY <1>3, <2>1 DEF Telemetry, Reported
<1> HIDE DEF pool
<1>5. IsPool(pool)
  BY <1>1, <1>2, <1>4 DEF IsPool
<1> QED
  BY <1>5 DEF pool

\* A wave that behaves as its peers is not rolled back, whatever any node ever
\* reported, as long as the factors ask for no less than equality: with a
\* factor below 1, which parse_canary_policy admits, it would be (analyze).
THEOREM NoPoolBreachesItself == FactorsAllowEquality => (CanarySpec => []PeersNeverBreach)
<1> SUFFICES ASSUME FactorsAllowEquality PROVE CanarySpec => []PeersNeverBreach
  OBVIOUS
<1>1. CanaryTypeOK => PeersNeverBreach
  <2> SUFFICES ASSUME CanaryTypeOK, NEW S \in {CanaryNodes, BaselineNodes}
               PROVE  Analyze(Assemble(S), Assemble(S)) \in {"pass", "no data"}
    BY DEF PeersNeverBreach
  <2> DEFINE pool == Assemble(S)
  <2>1. IsPool(pool)
    <3>1. S \in SUBSET Nodes
      BY DEF Nodes
    <3> QED
      BY <3>1, AssembledIsPool
  <2> HIDE DEF pool
  <2>2. ~ErrorBreach(pool, pool) /\ ~P99Breach(pool, pool) /\ ~SpendBreach(pool, pool)
    BY <2>1, NoErrorBreach, NoP99Breach, NoSpendBreach
  <2>3. Analyze(pool, pool) \in {"pass", "no data"}
    BY <2>2 DEF Analyze
  <2> QED
    BY <2>3 DEF pool
<1> QED
  BY <1>1, CanaryTypesHold, PTL
=============================================================================
