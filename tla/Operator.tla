------------------------------ MODULE Operator ------------------------------
(* The LLMGateway controller over a Kubernetes cluster: one worker reconciles *)
(* the resource step by step, any step may fail or the operator restart, and  *)
(* the cluster rolls gatewayctl pods and runs gatewayd pods on its own. The   *)
(* rendered configuration is a number that grows with each edit of it.        *)
EXTENDS Integers, FiniteSets

CONSTANTS MaxGen,     \* bound on the resource's generation
          Replicas,   \* data-plane replica counts a spec may ask for
          MaxFaults,  \* bound on failed calls, restarts, evictions and deletions
          None        \* an object that does not exist

ASSUME OperatorAssumption ==
  /\ MaxGen \in Nat \ {0} /\ MaxFaults \in Nat
  /\ Replicas \subseteq Nat \ {0} /\ Replicas # {}
  /\ None \notin Nat

VARIABLES cr,       \* the resource: [config, replicas, gen]
          status,   \* its status: [ready, degraded, gen, hash]
          secret,   \* the join-token Secret's token, or None
          repo,     \* the configuration in the ConfigMap, or None
          ctl,      \* the Deployment's template [config, replicas], or None
          dp,       \* the StatefulSet's replicas, 0 when it does not exist
          pods,     \* gatewayctl pods: [template, repo, secret, ready]
          nodes,    \* gatewayd pods by ordinal: [secret, conn, acked, serves]
          pc, seen, \* the worker's step and the resource as it read it
          children, \* the data planes it found all ready, 0 when some child is not
          faults

worker == <<pc, seen, children>>
objects == <<secret, repo, ctl, dp>>
vars == <<cr, status, objects, pods, nodes, worker, faults>>

Ordinals == 0 .. (CHOOSE n \in Replicas : \A k \in Replicas : k <= n) - 1

Down == [secret |-> None, conn |-> None, acked |-> FALSE, serves |-> 0]
Up(i) == nodes[i].secret # None

Init ==
  /\ cr \in {[config |-> 1, replicas |-> n, gen |-> 1] : n \in Replicas}
  /\ status = [ready |-> FALSE, degraded |-> FALSE, gen |-> 0, hash |-> 0]
  /\ secret = None /\ repo = None /\ ctl = None /\ dp = 0
  /\ pods = {} /\ nodes = [i \in Ordinals |-> Down]
  /\ pc = "idle" /\ seen = cr /\ children = 0 /\ faults = 0

(***************************************************************************)
(* The resource is edited: its configuration, or only its replicas.        *)
(***************************************************************************)
Edit ==
  /\ cr.gen < MaxGen
  /\ \E n \in Replicas, c \in {cr.config, cr.config + 1} :
       /\ <<n, c>> # <<cr.replicas, cr.config>>
       /\ cr' = [config |-> c, replicas |-> n, gen |-> cr.gen + 1]
  /\ UNCHANGED <<status, objects, pods, nodes, worker, faults>>

(***************************************************************************)
(* Reconcile.                                                              *)
(***************************************************************************)
AfterCtlFirst == [secret |-> "ctl", ctl |-> "repo", repo |-> "dp", dp |-> "observe"]
\* The order of the ensure steps: the ConfigMap before the pods that unpack it.
After == [secret |-> "repo", repo |-> "ctl", ctl |-> "dp", dp |-> "observe"]

Begin ==
  /\ pc = "idle"
  /\ seen' = cr /\ pc' = "secret"
  /\ UNCHANGED <<cr, status, objects, pods, nodes, children, faults>>

TokenEveryPass == IF secret = None THEN 1 ELSE secret + 1

\* Generated once, then stable.
Token == IF secret = None THEN 1 ELSE secret

EnsureJoinSecret ==
  /\ pc = "secret"
  /\ secret' = Token /\ pc' = After.secret
  /\ UNCHANGED <<cr, status, repo, ctl, dp, pods, nodes, seen, children, faults>>

EnsureRepoConfigMap ==
  /\ pc = "repo"
  /\ repo' = seen.config /\ pc' = After.repo
  /\ UNCHANGED <<cr, status, secret, ctl, dp, pods, nodes, seen, children, faults>>

TemplateWithoutHash(s) == [config |-> 1, replicas |-> s.replicas]

\* The template carries the configuration's hash and one token per replica.
Template(s) == [config |-> s.config, replicas |-> s.replicas]

EnsureControlPlane ==
  /\ pc = "ctl"
  /\ ctl' = Template(seen) /\ pc' = After.ctl
  /\ UNCHANGED <<cr, status, secret, repo, dp, pods, nodes, seen, children, faults>>

EnsureDataPlanes ==
  /\ pc = "dp"
  /\ dp' = seen.replicas /\ pc' = After.dp
  /\ UNCHANGED <<cr, status, secret, repo, ctl, pods, nodes, seen, children, faults>>

\* deploymentReady and statefulSetReplicas: any ready pod of any template
\* counts; a gatewayd pod is ready once it serves a configuration.
CtlReady == ctl # None /\ \E p \in pods : p.ready
DpReady == Cardinality({i \in Ordinals : Up(i) /\ nodes[i].serves # 0})

Observe ==
  /\ pc = "observe"
  /\ children' = IF CtlReady /\ dp >= 1 /\ DpReady = dp THEN dp ELSE 0
  /\ pc' = "query"
  /\ UNCHANGED <<cr, status, objects, pods, nodes, seen, faults>>

\* committed: enough nodes of the answering pod acknowledged what it applied.
Committed(p) == Cardinality({i \in Ordinals : nodes[i].conn = p /\ nodes[i].acked}) >= children

\* The status subresource is written against the version that was read: an
\* edit in between is a conflict, and the pass is retried.
Written(s) == status' = IF cr.gen = seen.gen THEN s ELSE status

QueryAndReport ==
  /\ pc = "query"
  /\ \E answer \in {p \in pods : p.ready} \cup {None} :
       /\ answer = None => children = 0 \/ \A p \in pods : ~p.ready
       /\ LET ready == children > 0 /\ answer # None /\ Committed(answer)
          IN Written([ready |-> ready, degraded |-> ~ready /\ status.degraded,
                      gen |-> seen.gen, hash |-> seen.config])
  /\ pc' = "idle"
  /\ UNCHANGED <<cr, objects, pods, nodes, seen, children, faults>>

\* fail: a call of an ensure step returns an error, which the status carries.
Fail ==
  /\ faults < MaxFaults /\ pc \in {"secret", "repo", "ctl", "dp"}
  /\ Written([status EXCEPT !.ready = FALSE, !.degraded = TRUE, !.gen = seen.gen])
  /\ pc' = "idle" /\ faults' = faults + 1
  /\ UNCHANGED <<cr, objects, pods, nodes, seen, children>>

RestartOperator ==
  /\ faults < MaxFaults /\ pc # "idle"
  /\ pc' = "idle" /\ faults' = faults + 1
  /\ UNCHANGED <<cr, status, objects, pods, nodes, seen, children>>

(***************************************************************************)
(* The cluster. A Deployment of one replica surges: the old pod stays until *)
(* the new one is ready. A pod unpacks the ConfigMap when it starts.       *)
(***************************************************************************)
StillConnected(gone) == nodes
Cut(gone) == [i \in Ordinals |-> IF nodes[i].conn \in gone
                                 THEN [nodes[i] EXCEPT !.conn = None, !.acked = FALSE]
                                 ELSE nodes[i]]

StartCtl ==
  /\ ctl # None /\ repo # None /\ secret # None
  /\ \A p \in pods : p.template # ctl
  /\ pods' = pods \cup {[template |-> ctl, repo |-> repo, secret |-> secret, ready |-> FALSE]}
  /\ UNCHANGED <<cr, status, objects, nodes, worker, faults>>

CtlBecomesReady(p) ==
  /\ p \in pods /\ ~p.ready
  /\ pods' = (pods \ {p}) \cup {[p EXCEPT !.ready = TRUE]}
  /\ UNCHANGED <<cr, status, objects, nodes, worker, faults>>

RetireCtl(p) ==
  /\ p \in pods /\ p.template # ctl
  /\ ~p.ready \/ \E q \in pods : q.template = ctl /\ q.ready
  /\ pods' = pods \ {p} /\ nodes' = Cut({p})
  /\ UNCHANGED <<cr, status, objects, worker, faults>>

EvictCtl(p) ==
  /\ p \in pods /\ faults < MaxFaults
  /\ pods' = pods \ {p} /\ nodes' = Cut({p}) /\ faults' = faults + 1
  /\ UNCHANGED <<cr, status, objects, worker>>

\* Someone deletes the Deployment or the StatefulSet.
DeleteCtl ==
  /\ ctl # None /\ faults < MaxFaults
  /\ ctl' = None /\ pods' = {} /\ nodes' = Cut(pods) /\ faults' = faults + 1
  /\ UNCHANGED <<cr, status, secret, repo, dp, worker>>

DeleteDp ==
  /\ dp # 0 /\ faults < MaxFaults
  /\ dp' = 0 /\ nodes' = [i \in Ordinals |-> Down] /\ faults' = faults + 1
  /\ UNCHANGED <<cr, status, secret, repo, ctl, pods, worker>>

\* StatefulSet: pods start in order, each after those before it are ready, and
\* read the token when they start; scaling down stops the last first.
StartNode(i) ==
  /\ i < dp /\ ~Up(i) /\ secret # None
  /\ \A j \in Ordinals : j < i => Up(j) /\ nodes[j].serves # 0
  /\ nodes' = [nodes EXCEPT ![i] = [Down EXCEPT !.secret = secret]]
  /\ UNCHANGED <<cr, status, objects, pods, worker, faults>>

StopNode(i) ==
  /\ i >= dp /\ Up(i) /\ \A j \in Ordinals : j > i => ~Up(j)
  /\ nodes' = [nodes EXCEPT ![i] = Down]
  /\ UNCHANGED <<cr, status, objects, pods, worker, faults>>

CrashNode(i) ==
  /\ Up(i) /\ faults < MaxFaults
  /\ nodes' = [nodes EXCEPT ![i] = Down] /\ faults' = faults + 1
  /\ UNCHANGED <<cr, status, objects, pods, worker>>

\* gatewayd dials the Service until a pod knows its token: the pod's own
\* ordinal's, one of those gatewayctl was started with.
Join(i) ==
  /\ Up(i) /\ nodes[i].conn = None
  /\ \E p \in pods :
       /\ p.ready /\ p.secret = nodes[i].secret /\ i < p.template.replicas
       /\ nodes' = [nodes EXCEPT ![i].conn = p]
  /\ UNCHANGED <<cr, status, objects, pods, worker, faults>>

\* The push on joining, and its acknowledgement.
Acknowledge(i) ==
  /\ nodes[i].conn # None /\ ~nodes[i].acked
  /\ nodes' = [nodes EXCEPT ![i].acked = TRUE, ![i].serves = nodes[i].conn.repo]
  /\ UNCHANGED <<cr, status, objects, pods, worker, faults>>

Reconcile ==
  \/ Begin \/ EnsureJoinSecret \/ EnsureRepoConfigMap
  \/ EnsureControlPlane \/ EnsureDataPlanes \/ Observe \/ QueryAndReport

RollCtl == StartCtl \/ \E p \in pods : CtlBecomesReady(p) \/ RetireCtl(p)

RunNode(i) == StartNode(i) \/ StopNode(i) \/ Join(i) \/ Acknowledge(i)

Fault ==
  \/ Fail \/ RestartOperator \/ DeleteCtl \/ DeleteDp
  \/ \E p \in pods : EvictCtl(p)
  \/ \E i \in Ordinals : CrashNode(i)

Next == Edit \/ Reconcile \/ RollCtl \/ Fault \/ \E i \in Ordinals : RunNode(i)

Spec == Init /\ [][Next]_vars

\* The worker is requeued after every pass, the cluster's controllers and the
\* node's supervisor never give up; nothing is assumed of edits and faults.
FairSpec ==
  /\ Spec
  /\ WF_vars(Reconcile) /\ WF_vars(RollCtl)
  /\ \A i \in Ordinals : WF_vars(RunNode(i))

(***************************************************************************)
(* Properties.                                                             *)
(***************************************************************************)
TypeOK ==
  /\ cr.config \in 1 .. MaxGen /\ cr.gen \in 1 .. MaxGen /\ cr.replicas \in Replicas
  /\ seen.config \in 1 .. cr.config /\ seen.gen \in 1 .. cr.gen /\ seen.replicas \in Replicas
  /\ secret \in {None} \cup Nat /\ repo \in {None} \cup 1 .. MaxGen
  /\ dp \in {0} \cup Replicas
  /\ pc \in {"idle", "secret", "repo", "ctl", "dp", "observe", "query"}
  /\ \A i \in Ordinals : nodes[i].conn # None => nodes[i].conn \in pods /\ Up(i)
  /\ faults \in 0 .. MaxFaults

\* A control plane never runs an older configuration than the hash its template
\* carries: nothing would roll it again (steps 3 and 4 of Reconcile, and the
\* unpacking at pod start).
RepoBeforeRollout == \A p \in pods : p.repo >= p.template.config

\* Pods started at different times share the token, so no restart of either
\* side makes a joined node a stranger ("stable across reconciles").
NodesStayAdmitted ==
  \A p \in pods : \A i \in Ordinals : Up(i) => nodes[i].secret = p.secret

\* Level-triggered: whatever was missed, failed, crashed or deleted, once the
\* edits stop the fleet serves the resource's configuration and says so.
ClusterConverges ==
  <>[](/\ status = [ready |-> TRUE, degraded |-> FALSE, gen |-> cr.gen, hash |-> cr.config]
       /\ \A i \in Ordinals : IF i < cr.replicas THEN nodes[i].serves = cr.config
                                                 ELSE ~Up(i))

\* Step 7's comment: Ready means that every desired node acknowledged the
\* render of the observed generation, not that the pods look healthy. False of
\* the code: see the README, section 5.
ReadyMeansServed ==
  [][status'.ready /\ status' # status =>
       \A i \in Ordinals : i < dp => nodes[i].serves = status'.hash]_vars
=============================================================================
