--------------------------- MODULE Operator_proofs ---------------------------
(* Theorems about Operator, for any generations, replica counts and faults.   *)
EXTENDS Operator, TLAPS

(***************************************************************************)
(* The ConfigMap is never behind the template: pods unpack what their       *)
(* template names, or something newer.                                     *)
(***************************************************************************)
ConfigsInv ==
  /\ cr.config \in Nat /\ seen.config \in Nat /\ seen.config <= cr.config
  /\ repo # None => repo \in Nat /\ repo <= seen.config
  /\ pc = "ctl" => repo = seen.config

TemplateInv ==
  ctl # None => /\ ctl.config \in Nat /\ ctl.config <= seen.config
                /\ repo # None /\ repo >= ctl.config

PodsInv == \A p \in pods : /\ p.repo \in Nat /\ p.template.config \in Nat
                           /\ p.repo >= p.template.config

RolloutInv == ConfigsInv /\ TemplateInv /\ PodsInv

LEMMA RolloutInvInit == Init => RolloutInv
  BY SMT, OperatorAssumption DEF Init, RolloutInv, ConfigsInv, TemplateInv, PodsInv

\* What the cluster and the faults leave alone: everything but the pods and nodes,
\* and the pods only lose members or become ready.
LEMMA FewerPods ==
  ASSUME RolloutInv, UNCHANGED <<cr, seen, repo, ctl, pc>>,
         \A p \in pods' : \E q \in pods : p.repo = q.repo /\ p.template = q.template
  PROVE  RolloutInv'
  BY SMT DEF RolloutInv, ConfigsInv, TemplateInv, PodsInv

LEMMA RolloutInvNext ==
  ASSUME RolloutInv, [Next]_vars
  PROVE  RolloutInv'
<1> USE OperatorAssumption
<1>1. CASE Edit
  BY <1>1, SMT DEF Edit, objects, worker, RolloutInv, ConfigsInv, TemplateInv, PodsInv
<1>2. CASE Reconcile
  <2>1. CASE Begin
    BY <2>1, SMT DEF Begin, objects, RolloutInv, ConfigsInv, TemplateInv, PodsInv
  <2>2. CASE EnsureJoinSecret
    BY <2>2, SMT DEF EnsureJoinSecret, After, RolloutInv, ConfigsInv, TemplateInv, PodsInv
  <2>3. CASE EnsureRepoConfigMap
    BY <2>3, SMT DEF EnsureRepoConfigMap, After, RolloutInv, ConfigsInv, TemplateInv, PodsInv
  <2>4. CASE EnsureControlPlane
    BY <2>4, SMT
    DEF EnsureControlPlane, After, Template, RolloutInv, ConfigsInv, TemplateInv, PodsInv
  <2>5. CASE EnsureDataPlanes
    BY <2>5, SMT DEF EnsureDataPlanes, After, RolloutInv, ConfigsInv, TemplateInv, PodsInv
  <2>6. CASE Observe
    BY <2>6, SMT DEF Observe, objects, RolloutInv, ConfigsInv, TemplateInv, PodsInv
  <2>7. CASE QueryAndReport
    BY <2>7, SMT DEF QueryAndReport, objects, RolloutInv, ConfigsInv, TemplateInv, PodsInv
  <2> QED BY <1>2, <2>1, <2>2, <2>3, <2>4, <2>5, <2>6, <2>7 DEF Reconcile
<1>3. CASE RollCtl
  <2>1. CASE StartCtl
    BY <2>1, SMT DEF StartCtl, objects, worker, RolloutInv, ConfigsInv, TemplateInv, PodsInv
  <2>2. ASSUME NEW p \in pods, CtlBecomesReady(p) PROVE RolloutInv'
    <3>1. pods' = (pods \ {p}) \cup {[p EXCEPT !.ready = TRUE]}
      BY <2>2 DEF CtlBecomesReady
    <3>2. [p EXCEPT !.ready = TRUE].repo = p.repo /\ [p EXCEPT !.ready = TRUE].template = p.template
      OBVIOUS
    <3>3. \A x \in pods' : \E q \in pods : x.repo = q.repo /\ x.template = q.template
      BY <3>1, <3>2
    <3> QED BY <2>2, <3>3, FewerPods DEF CtlBecomesReady, objects, worker
  <2>3. ASSUME NEW p \in pods, RetireCtl(p) PROVE RolloutInv'
    BY <2>3, FewerPods DEF RetireCtl, objects, worker
  <2> QED BY <1>3, <2>1, <2>2, <2>3 DEF RollCtl
<1>4. CASE Fault
  <2>1. CASE Fail
    BY <2>1, SMT DEF Fail, objects, RolloutInv, ConfigsInv, TemplateInv, PodsInv
  <2>2. CASE RestartOperator
    BY <2>2, SMT DEF RestartOperator, objects, RolloutInv, ConfigsInv, TemplateInv, PodsInv
  <2>3. CASE DeleteCtl
    BY <2>3, SMT DEF DeleteCtl, worker, RolloutInv, ConfigsInv, TemplateInv, PodsInv
  <2>4. CASE DeleteDp
    BY <2>4, FewerPods DEF DeleteDp, worker
  <2>5. ASSUME NEW p \in pods, EvictCtl(p) PROVE RolloutInv'
    BY <2>5, FewerPods DEF EvictCtl, objects, worker
  <2>6. ASSUME NEW i \in Ordinals, CrashNode(i) PROVE RolloutInv'
    BY <2>6, FewerPods DEF CrashNode, objects, worker
  <2> QED BY <1>4, <2>1, <2>2, <2>3, <2>4, <2>5, <2>6 DEF Fault
<1>5. ASSUME NEW i \in Ordinals, RunNode(i) PROVE RolloutInv'
  BY <1>5, FewerPods DEF RunNode, StartNode, StopNode, Join, Acknowledge, objects, worker
<1>6. CASE UNCHANGED vars
  BY <1>6, FewerPods DEF vars, objects, worker
<1> QED BY <1>1, <1>2, <1>3, <1>4, <1>5, <1>6 DEF Next

\* No gatewayctl pod runs a configuration older than the hash its template
\* carries, whatever fails, restarts or is deleted between the steps of a pass.
THEOREM NeverBehindTemplate == Spec => []RepoBeforeRollout
<1>1. RolloutInv => RepoBeforeRollout
  BY DEF RolloutInv, PodsInv, RepoBeforeRollout
<1> QED BY <1>1, RolloutInvInit, RolloutInvNext, PTL DEF Spec

(***************************************************************************)
(* The token is generated once and shared by everything that started: while *)
(* there is none nothing runs, and whoever runs read the one there is.      *)
(***************************************************************************)
PodTokens ==
  /\ secret = None => pods = {}
  /\ \A p \in pods : p.secret = secret

NodeTokens == /\ DOMAIN nodes = Ordinals
              /\ \A i \in Ordinals : nodes[i].secret \in {None, secret}

TokenInv == PodTokens /\ NodeTokens

LEMMA TokenInvInit == Init => TokenInv
  BY SMT DEF Init, TokenInv, PodTokens, NodeTokens, Down

\* Stopping a gatewayctl pod drops sessions and changes no token.
LEMMA CutKeepsTokens ==
  ASSUME NodeTokens, secret' = secret, NEW gone, nodes' = Cut(gone)
  PROVE  NodeTokens'
<1>1. DOMAIN nodes' = Ordinals
  BY DEF Cut
<1>2. ASSUME NEW i \in Ordinals PROVE nodes'[i].secret = nodes[i].secret
  <2>1. nodes'[i] = IF nodes[i].conn \in gone
                    THEN [nodes[i] EXCEPT !.conn = None, !.acked = FALSE] ELSE nodes[i]
    BY DEF Cut
  <2>2. [nodes[i] EXCEPT !.conn = None, !.acked = FALSE].secret = nodes[i].secret
    OBVIOUS
  <2> QED BY <2>1, <2>2
<1> QED BY <1>1, <1>2 DEF NodeTokens

LEMMA TokenInvNext ==
  ASSUME TokenInv, [Next]_vars
  PROVE  TokenInv'
<1>1. CASE Edit
  BY <1>1 DEF Edit, objects, TokenInv, PodTokens, NodeTokens
<1>2. CASE EnsureJoinSecret
  BY <1>2, SMT DEF EnsureJoinSecret, Token, TokenInv, PodTokens, NodeTokens
<1>3. CASE Reconcile /\ ~EnsureJoinSecret
  <2>1. UNCHANGED <<secret, pods, nodes>>
    BY <1>3, SMT DEF Reconcile, Begin, EnsureRepoConfigMap, EnsureControlPlane,
                     EnsureDataPlanes, Observe, QueryAndReport, objects
  <2> QED BY <2>1 DEF TokenInv, PodTokens, NodeTokens
<1>4. CASE RollCtl
  <2>1. CASE StartCtl
    BY <2>1, SMT DEF StartCtl, objects, TokenInv, PodTokens, NodeTokens
  <2>2. ASSUME NEW p \in pods, CtlBecomesReady(p) PROVE TokenInv'
    <3>1. [p EXCEPT !.ready = TRUE].secret = p.secret
      OBVIOUS
    <3> QED BY <2>2, <3>1 DEF CtlBecomesReady, objects, TokenInv, PodTokens, NodeTokens
  <2>3. ASSUME NEW p \in pods, RetireCtl(p) PROVE TokenInv'
    BY <2>3, CutKeepsTokens DEF RetireCtl, objects, TokenInv, PodTokens
  <2> QED BY <1>4, <2>1, <2>2, <2>3 DEF RollCtl
<1>5. CASE Fault
  <2>1. CASE Fail \/ RestartOperator
    BY <2>1 DEF Fail, RestartOperator, objects, TokenInv, PodTokens, NodeTokens
  <2>2. CASE DeleteCtl
    BY <2>2, CutKeepsTokens DEF DeleteCtl, TokenInv, PodTokens
  <2>3. CASE DeleteDp
    BY <2>3, SMT DEF DeleteDp, Down, TokenInv, PodTokens, NodeTokens
  <2>4. ASSUME NEW p \in pods, EvictCtl(p) PROVE TokenInv'
    BY <2>4, CutKeepsTokens DEF EvictCtl, objects, TokenInv, PodTokens
  <2>5. ASSUME NEW i \in Ordinals, CrashNode(i) PROVE TokenInv'
    BY <2>5, SMT DEF CrashNode, Down, objects, TokenInv, PodTokens, NodeTokens
  <2> QED BY <1>5, <2>1, <2>2, <2>3, <2>4, <2>5 DEF Fault
<1>6. ASSUME NEW i \in Ordinals, RunNode(i) PROVE TokenInv'
  <2>1. CASE StartNode(i)
    BY <2>1, SMT DEF StartNode, Down, objects, TokenInv, PodTokens, NodeTokens
  <2>2. CASE StopNode(i)
    BY <2>2, SMT DEF StopNode, Down, objects, TokenInv, PodTokens, NodeTokens
  <2>3. CASE Join(i)
    BY <2>3, SMT DEF Join, objects, TokenInv, PodTokens, NodeTokens
  <2>4. CASE Acknowledge(i)
    BY <2>4, SMT DEF Acknowledge, objects, TokenInv, PodTokens, NodeTokens
  <2> QED BY <1>6, <2>1, <2>2, <2>3, <2>4 DEF RunNode
<1>7. CASE UNCHANGED vars
  BY <1>7 DEF vars, objects, TokenInv, PodTokens, NodeTokens
<1> QED BY <1>1, <1>2, <1>3, <1>4, <1>5, <1>6, <1>7 DEF Next

\* Whatever restarts, is evicted or is deleted, every running gatewayd holds the
\* token that every running gatewayctl knows.
THEOREM TokensAgree == Spec => []NodesStayAdmitted
<1>1. TokenInv => NodesStayAdmitted
  BY DEF TokenInv, PodTokens, NodeTokens, NodesStayAdmitted, Up
<1> QED BY <1>1, TokenInvInit, TokenInvNext, PTL DEF Spec

(***************************************************************************)
(* Types. A session is with a running, ready pod: what retires, is evicted   *)
(* or deleted takes its sessions with it, and becoming ready, which replaces *)
(* a pod in the model, happens to pods nobody has joined.                   *)
(***************************************************************************)
ResourceInv ==
  /\ cr.config \in Nat /\ cr.gen \in Nat /\ 1 <= cr.config
  /\ cr.config <= cr.gen /\ cr.gen <= MaxGen /\ cr.replicas \in Replicas
  /\ seen.config \in Nat /\ seen.gen \in Nat /\ 1 <= seen.config /\ 1 <= seen.gen
  /\ seen.config <= cr.config /\ seen.gen <= cr.gen /\ seen.replicas \in Replicas
  /\ secret \in {None} \cup Nat
  /\ repo # None => repo \in Nat /\ 1 <= repo /\ repo <= MaxGen
  /\ dp \in {0} \cup Replicas
  /\ pc \in {"idle", "secret", "repo", "ctl", "dp", "observe", "query"}
  /\ faults \in 0 .. MaxFaults

SessionInv ==
  /\ DOMAIN nodes = Ordinals /\ \A i \in Ordinals : "conn" \in DOMAIN nodes[i]
  /\ \A i \in Ordinals : nodes[i].conn # None =>
       /\ nodes[i].conn \in pods /\ nodes[i].conn.ready
       /\ nodes[i].secret # None

OperatorTypes == ResourceInv /\ SessionInv

LEMMA OperatorTypesInit == Init => OperatorTypes
<1> SUFFICES ASSUME Init PROVE OperatorTypes
  OBVIOUS
<1>1. ResourceInv
  BY SMT, OperatorAssumption DEF Init, ResourceInv
<1>2. SessionInv
  BY DEF Init, SessionInv, Down
<1> QED BY <1>1, <1>2 DEF OperatorTypes

\* Sessions with the pods that are gone end; the others are untouched.
LEMMA CutKeepsSessions ==
  ASSUME SessionInv, NEW gone, nodes' = Cut(gone), pods' = pods \ gone
  PROVE  SessionInv'
<1>1. DOMAIN nodes' = Ordinals
  BY DEF Cut
<1>2. ASSUME NEW i \in Ordinals, nodes'[i].conn # None
      PROVE  nodes'[i] = nodes[i] /\ nodes[i].conn \notin gone
  <2>1. nodes'[i] = IF nodes[i].conn \in gone
                    THEN [nodes[i] EXCEPT !.conn = None, !.acked = FALSE] ELSE nodes[i]
    BY DEF Cut
  <2>2. [nodes[i] EXCEPT !.conn = None, !.acked = FALSE].conn = None
    BY DEF SessionInv
  <2>3. nodes[i].conn \notin gone
    BY <1>2, <2>1, <2>2
  <2> QED BY <2>1, <2>3
<1>3. \A i \in Ordinals : "conn" \in DOMAIN nodes'[i]
  BY DEF Cut, SessionInv
<1> QED BY <1>1, <1>2, <1>3 DEF SessionInv

LEMMA SessionsNext ==
  ASSUME SessionInv, [Next]_vars
  PROVE  SessionInv'
<1>1. CASE UNCHANGED <<pods, nodes>>
  BY <1>1 DEF SessionInv
<1>2. CASE RollCtl
  <2>1. CASE StartCtl
    BY <2>1 DEF StartCtl, SessionInv
  <2>2. ASSUME NEW p \in pods, CtlBecomesReady(p) PROVE SessionInv'
    BY <2>2 DEF CtlBecomesReady, SessionInv
  <2>3. ASSUME NEW p \in pods, RetireCtl(p) PROVE SessionInv'
    BY <2>3, CutKeepsSessions DEF RetireCtl
  <2> QED BY <1>2, <2>1, <2>2, <2>3 DEF RollCtl
<1>3. CASE Fault
  <2>1. CASE Fail \/ RestartOperator
    BY <2>1 DEF Fail, RestartOperator, SessionInv
  <2>2. CASE DeleteCtl
    BY <2>2, CutKeepsSessions DEF DeleteCtl
  <2>3. CASE DeleteDp
    BY <2>3 DEF DeleteDp, Down, SessionInv
  <2>4. ASSUME NEW p \in pods, EvictCtl(p) PROVE SessionInv'
    BY <2>4, CutKeepsSessions DEF EvictCtl
  <2>5. ASSUME NEW i \in Ordinals, CrashNode(i) PROVE SessionInv'
    BY <2>5 DEF CrashNode, Down, SessionInv
  <2> QED BY <1>3, <2>1, <2>2, <2>3, <2>4, <2>5 DEF Fault
<1>4. ASSUME NEW i \in Ordinals, RunNode(i) PROVE SessionInv'
  <2>1. CASE StartNode(i)
    BY <2>1 DEF StartNode, Down, SessionInv
  <2>2. CASE StopNode(i)
    BY <2>2 DEF StopNode, Down, SessionInv
  <2>3. CASE Join(i)
    BY <2>3 DEF Join, Up, SessionInv
  <2>4. CASE Acknowledge(i)
    BY <2>4 DEF Acknowledge, SessionInv
  <2> QED BY <1>4, <2>1, <2>2, <2>3, <2>4 DEF RunNode
<1>5. ASSUME Edit \/ Reconcile PROVE UNCHANGED <<pods, nodes>>
  BY <1>5 DEF Edit, Reconcile, Begin, EnsureJoinSecret, EnsureRepoConfigMap,
              EnsureControlPlane, EnsureDataPlanes, Observe, QueryAndReport
<1> QED BY <1>1, <1>2, <1>3, <1>4, <1>5 DEF Next, vars

LEMMA ResourceNext ==
  ASSUME ResourceInv, [Next]_vars
  PROVE  ResourceInv'
<1> USE OperatorAssumption
<1>1. CASE Edit
  BY <1>1, SMT DEF Edit, objects, worker, ResourceInv
<1>2. CASE Reconcile
  <2>1. CASE Begin
    BY <2>1, SMT DEF Begin, objects, ResourceInv
  <2>2. CASE EnsureJoinSecret
    BY <2>2, SMT DEF EnsureJoinSecret, Token, After, ResourceInv
  <2>3. CASE EnsureRepoConfigMap
    BY <2>3, SMT DEF EnsureRepoConfigMap, After, ResourceInv
  <2>4. CASE EnsureControlPlane
    BY <2>4, SMT DEF EnsureControlPlane, After, ResourceInv
  <2>5. CASE EnsureDataPlanes
    BY <2>5, SMT DEF EnsureDataPlanes, After, ResourceInv
  <2>6. CASE Observe
    BY <2>6, SMT DEF Observe, objects, ResourceInv
  <2>7. CASE QueryAndReport
    BY <2>7, SMT DEF QueryAndReport, objects, ResourceInv
  <2> QED BY <1>2, <2>1, <2>2, <2>3, <2>4, <2>5, <2>6, <2>7 DEF Reconcile
<1>3. CASE RollCtl
  <2>1. UNCHANGED <<cr, objects, worker, faults>>
    BY <1>3, Zenon DEF RollCtl, StartCtl, CtlBecomesReady, RetireCtl
  <2> QED BY <2>1, SMT DEF objects, worker, ResourceInv
<1>4. CASE Fault
  <2>1. CASE Fail \/ RestartOperator
    BY <2>1, SMT DEF Fail, RestartOperator, objects, ResourceInv
  <2>2. CASE DeleteCtl \/ DeleteDp
    BY <2>2, SMT DEF DeleteCtl, DeleteDp, worker, ResourceInv
  <2>3. ASSUME NEW p \in pods, EvictCtl(p) PROVE ResourceInv'
    BY <2>3, SMT DEF EvictCtl, objects, worker, ResourceInv
  <2>4. ASSUME NEW i \in Ordinals, CrashNode(i) PROVE ResourceInv'
    BY <2>4, SMT DEF CrashNode, objects, worker, ResourceInv
  <2> QED BY <1>4, <2>1, <2>2, <2>3, <2>4 DEF Fault
<1>5. ASSUME NEW i \in Ordinals, RunNode(i) PROVE ResourceInv'
  BY <1>5, SMT DEF RunNode, StartNode, StopNode, Join, Acknowledge, objects, worker, ResourceInv
<1>6. CASE UNCHANGED vars
  BY <1>6, SMT DEF vars, objects, worker, ResourceInv
<1> QED BY <1>1, <1>2, <1>3, <1>4, <1>5, <1>6 DEF Next

\* The worker's and the cluster's state stay what they are meant to be, and
\* every session is with a gatewayctl pod that runs.
THEOREM OperatorTypesHold == Spec => []TypeOK
<1>1. OperatorTypes /\ [Next]_vars => OperatorTypes'
  BY SessionsNext, ResourceNext DEF OperatorTypes
<1>2. OperatorTypes => TypeOK
  BY SMT, OperatorAssumption DEF OperatorTypes, ResourceInv, SessionInv, TypeOK, Up
<1> QED BY <1>1, <1>2, OperatorTypesInit, PTL DEF Spec
=============================================================================
