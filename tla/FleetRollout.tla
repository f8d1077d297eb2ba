----------------------------- MODULE FleetRollout -----------------------------
(***************************************************************************)
(* The control plane rolling commits out to connected nodes: the reload     *)
(* triggers and the wave walk (main.rs, rollout.rs, canary_rollout.rs), the  *)
(* push and acknowledgement correlation over each node's stream (server.rs), *)
(* the reconciler (reconcile.rs) and the node's side of the stream           *)
(* (gatewayd/src/client.rs). All of them run at once: tasks of one           *)
(* multi-threaded runtime that share the fleet, the store and the sessions,  *)
(* each under its own lock.                                                  *)
(***************************************************************************)
EXTENDS Fleet, SequencesExt

CONSTANTS
  Triggers,     \* reload triggers in use: "poll", "hangup"
  Admissible,   \* commits that pass admission
  Renderable,   \* commits that resolve and render
  Analyzed,     \* commits whose canary.yaml turns the analysis on
  Refusals,     \* <<commit, node>>: the node's local validation refuses it
  Overridable,  \* nodes an operator may put under break-glass
  Losable,      \* nodes whose stream may break, or whose process may die
  LateTeardown, \* may a node reconnect before its old stream's end is noticed
  MaxEdits,     \* bound on edits of the repository
  MaxFaults,    \* bound on lost streams and crashed nodes
  MaxQueue      \* capacity of a stream's queue, either way

ASSUME RolloutAssumption ==
  /\ Triggers \subseteq {"poll", "hangup"}
  /\ Admissible \subseteq Renderable
  /\ Renderable \subseteq Commits
  /\ Analyzed \subseteq Commits
  /\ Initial \in Admissible
  /\ Refusals \subseteq (Commits \ {Initial}) \X Nodes
  /\ Overridable \cup Losable \subseteq Nodes
  /\ LateTeardown \in BOOLEAN
  /\ {MaxEdits, MaxFaults} \subseteq Nat
  /\ MaxQueue \in Nat \ {0}

VARIABLES
  repo,     \* content of the configuration repository
  polled,   \* content the poll watcher last saw (its fingerprint)
  fleet,    \* Fleet::inner
  store,    \* RuntimeStore
  walk,     \* each trigger's reload and rollout
  slot,     \* each pusher's push to each node
  session,  \* nodes that have an entry in Sessions
  ending,   \* nodes with an ended stream whose handler has not noticed
  link,     \* nodes whose stream is up
  down, up, \* queues of each stream
  running,  \* render each node serves, Nothing before its first push
  ran,      \* history: every render each node has served
  halted,   \* history: the wave the last rollout halted at, and its target
  edits, faults

control == <<fleet, store, walk, slot, session>>
network == <<ending, link, down, up, faults>>
history == <<ran, halted>>
vars == <<repo, polled, control, network, running, history, edits>>

(***************************************************************************)
(* Pushes. A slot is one push_and_await: chosen (render read), numbered      *)
(* (version assigned), waiting (sent, its entry in the session's pending     *)
(* map), then the answer. The reconciler's slot starts as checked: the node  *)
(* was classified, heal_node has not read its desired render yet.            *)
(***************************************************************************)

Pushers == Triggers \cup {"reconciler", "bootstrap"}
Answers == {"acked", "nacked", "silent"}
SlotStates == {"none", "checked", "chosen", "numbered", "waiting"} \cup Answers

Slots == [state : SlotStates, version : Nat, render : Renders \cup {Nothing},
          ack : Renders \cup {Nothing}]

NoPush ==
  [state |-> "none", version |-> 0, render |-> Nothing, ack |-> Nothing]

Chosen(r) == [NoPush EXCEPT !.state = "chosen", !.render = r]

\* Only a wave walk keeps its answers; the others log them. What a bootstrap
\* waits for changes nothing, so its slot is free once the push is sent.
Answered(p, s, answer, ack) ==
  IF p \in Triggers THEN [s EXCEPT !.state = answer, !.ack = ack] ELSE NoPush

\* Sessions::deliver: every waiter of that version, or, as a mutant, of any.
DeliverToAll(n, version, answer, ack) ==
  [p \in Pushers |->
     IF slot[p][n].state = "waiting"
       THEN [slot[p] EXCEPT ![n] = Answered(p, @, answer, ack)] ELSE slot[p]]
Deliver(n, version, answer, ack) ==
  [p \in Pushers |->
     IF slot[p][n].state = "waiting" /\ slot[p][n].version = version
       THEN [slot[p] EXCEPT ![n] = Answered(p, @, answer, ack)] ELSE slot[p]]

\* The session is dropped with its pending map, and its waiters' senders.
Abandoned(n) ==
  [p \in Pushers |->
     IF slot[p][n].state = "waiting"
       THEN [slot[p] EXCEPT ![n] = Answered(p, @, "silent", Nothing)]
       ELSE slot[p]]

(***************************************************************************)
(* Walks.                                                                  *)
(***************************************************************************)

InWalk == {"pushing", "analyzing", "rolling_back"}
Walks ==
  [pc : {"idle", "admitting", "resolving", "applied"} \cup InWalk,
   target : Commits \cup {Nothing}, prior : Commits \cup {Nothing},
   wave : WaveIndices \cup {0}, assigned : [WaveIndices -> SUBSET Nodes],
   version : Nat, frozen : Commits \cup {Nothing}]

NoWalk ==
  [pc |-> "idle", target |-> Nothing, prior |-> Nothing, wave |-> 0,
   assigned |-> [w \in WaveIndices |-> {}], version |-> 0, frozen |-> Nothing]

\* Fleet::wave_in_flight: the guard lives as long as the walk.
WaveInFlight == \E t \in Triggers : walk[t].pc \in InWalk

Rolling(t) == walk[t].assigned[walk[t].wave]

\* On to the next wave that has nodes, or the end of the walk; as a mutant,
\* the next wave with no thought of the end.
OnwardUnchecked(k, f) ==
  [k EXCEPT !.pc = "pushing", !.wave = @ + 1, !.version = f.committed]
Onward(k, f) ==
  LET rest == {w \in WaveIndices : w > k.wave /\ k.assigned[w] # {}} IN
  IF rest = {} THEN NoWalk
  ELSE [k EXCEPT !.pc = "pushing", !.wave = First(rest),
                 !.version = f.committed, !.frozen = Nothing]

Cleared(t) == [slot EXCEPT ![t] = [n \in Nodes |-> NoPush]]

Init ==
  /\ repo = Initial
  /\ polled = Initial
  /\ fleet = [applied |-> Initial, committed |-> 0,
              perNode |-> [n \in Nodes |->
                             [version |-> 1, hash |-> Rendered(Initial, n)]],
              waveCommit |-> [w \in WaveIndices |-> Nothing]]
  /\ store = [n \in Nodes |->
                [connected |-> TRUE, acked |-> Rendered(Initial, n), nacks |-> 0,
                 observed |-> Rendered(Initial, n), glass |-> FALSE]]
  /\ walk = [t \in Triggers |-> NoWalk]
  /\ slot = [p \in Pushers |-> [n \in Nodes |-> NoPush]]
  /\ session = Nodes
  /\ ending = {}
  /\ link = Nodes
  /\ down = [n \in Nodes |-> <<>>]
  /\ up = [n \in Nodes |-> <<>>]
  /\ running = [n \in Nodes |-> Rendered(Initial, n)]
  /\ ran = [n \in Nodes |-> {Rendered(Initial, n)}]
  /\ halted = Nothing
  /\ edits = 0
  /\ faults = 0

(***************************************************************************)
(* Reload triggers.                                                        *)
(***************************************************************************)

Edit ==
  /\ edits < MaxEdits
  /\ edits' = edits + 1
  /\ \E c \in Commits \ {repo} : repo' = c
  /\ UNCHANGED <<polled, control, network, running, history>>

\* A SIGHUP, or a poll that finds another fingerprint.
Start(t) ==
  /\ walk[t].pc = "idle"
  /\ CASE t = "poll" -> repo # polled /\ polled' = repo
       [] OTHER -> UNCHANGED polled
  /\ walk' = [walk EXCEPT ![t].pc = "admitting"]
  /\ UNCHANGED <<repo, fleet, store, slot, session, network, running,
                 history, edits>>

\* admit_source resolves the repository for itself.
Admit(t) ==
  /\ walk[t].pc = "admitting"
  /\ walk' = [walk EXCEPT ![t].pc =
                IF repo \in Admissible THEN "resolving" ELSE "idle"]
  /\ UNCHANGED <<repo, polled, fleet, store, slot, session, network,
                 running, history, edits>>

\* resolve_and_render resolves it again; set_applied_from_source.
Resolve(t) ==
  /\ walk[t].pc = "resolving"
  /\ IF repo \in Renderable \ {fleet.applied}
       THEN /\ fleet' = [fleet EXCEPT !.applied = repo]
            /\ walk' = [walk EXCEPT ![t].pc = "applied",
                                    ![t].prior = fleet.applied]
            /\ halted' = Nothing
       ELSE /\ walk' = [walk EXCEPT ![t] = NoWalk]
            /\ UNCHANGED <<fleet, halted>>
  /\ UNCHANGED <<repo, polled, store, slot, session, network, running,
                 ran, edits>>

\* begin_wave, and the target, plan and assignment of the whole walk.
Begin(t) ==
  /\ walk[t].pc = "applied"
  /\ walk' = [walk EXCEPT ![t] =
                Onward([@ EXCEPT !.target = fleet.applied,
                                 !.assigned = Assign(session)], fleet)]
  /\ UNCHANGED <<repo, polled, fleet, store, slot, session, network,
                 running, history, edits>>

(***************************************************************************)
(* The three steps of a push, and its timeout.                             *)
(***************************************************************************)

\* The next node of the wave: desired_for_node, or, rolling back, the prior
\* fleet-wide render, one node at a time.
ChooseInWalk(t) ==
  LET fresh == {n \in Rolling(t) : slot[t][n].state = "none"}
      underway == {slot[t][n].state : n \in Rolling(t)}
      n == First(fresh)
  IN
  /\ walk[t].pc \in {"pushing", "rolling_back"}
  /\ fresh # {}
  /\ underway \cap {"chosen", "numbered"} = {}
  /\ CASE walk[t].pc = "pushing" ->
            slot' = [slot EXCEPT ![t][n] = Chosen(DesiredFor(fleet, n))]
       [] OTHER ->
            /\ "waiting" \notin underway
            /\ slot' = [slot EXCEPT ![t][n] = Chosen(Base(walk[t].prior))]
  /\ UNCHANGED <<repo, polled, fleet, store, walk, session, network,
                 running, history, edits>>

\* heal_node
ChooseInHeal(n) ==
  /\ slot["reconciler"][n].state = "checked"
  /\ slot' = [slot EXCEPT !["reconciler"][n] = Chosen(DesiredFor(fleet, n))]
  /\ UNCHANGED <<repo, polled, fleet, store, walk, session, network,
                 running, history, edits>>

Number(p, n) ==
  LET f == NextVersionFor(fleet, n, slot[p][n].render)
      v == f.perNode[n].version
  IN
  /\ slot[p][n].state = "chosen"
  /\ fleet' = f
  /\ slot' = [slot EXCEPT ![p][n].state = "numbered", ![p][n].version = v]
  /\ walk' = IF p \in Triggers
               THEN [walk EXCEPT ![p].version = IF v > @ THEN v ELSE @]
               ELSE walk
  /\ UNCHANGED <<repo, polled, store, session, network, running,
                 history, edits>>

\* push_and_await. Sending to a stream that is gone is lost without notice.
Send(p, n) ==
  LET s == slot[p][n] IN
  /\ s.state = "numbered"
  /\ Len(down[n]) < MaxQueue
  /\ IF n \in session
       THEN /\ slot' = [slot EXCEPT ![p][n] =
                 IF p = "bootstrap" THEN NoPush
                 ELSE [s EXCEPT !.state = "waiting"]]
            /\ down' = IF n \in link
                         THEN [down EXCEPT ![n] = Append(@,
                                 [version |-> s.version, render |-> s.render])]
                         ELSE down
       ELSE /\ slot' = [slot EXCEPT ![p][n] = Answered(p, s, "silent", Nothing)]
            /\ UNCHANGED down
  /\ UNCHANGED <<repo, polled, fleet, store, walk, session, ending, link,
                 up, faults, running, history, edits>>

\* WAVE_ACK_TIMEOUT, then clear_pending. A walk awaits its nodes in order,
\* once it has pushed to all of them.
TimeOut(p, n) ==
  /\ slot[p][n].state = "waiting"
  /\ p \in Triggers /\ walk[p].pc = "pushing" =>
       \A m \in Rolling(p) :
         slot[p][m].state \in Answers \cup (IF m < n THEN {} ELSE {"waiting"})
  /\ slot' = [slot EXCEPT ![p][n] = Answered(p, @, "silent", Nothing)]
  /\ UNCHANGED <<repo, polled, fleet, store, walk, session, network,
                 running, history, edits>>

(***************************************************************************)
(* The end of a wave.                                                      *)
(***************************************************************************)

AllAnswered(t) == \A n \in Rolling(t) : slot[t][n].state \in Answers

Halt(t) == [commit |-> walk[t].target, wave |-> walk[t].wave]

\* conclude_wave_multi. With the analysis on, the wave is recorded on the
\* target only after its verdict.
Conclude(t) ==
  LET k == walk[t]
      f == [fleet EXCEPT !.committed = k.version]
  IN
  /\ k.pc = "pushing"
  /\ AllAnswered(t)
  /\ IF ~CleanSweep([n \in Rolling(t) |-> slot[t][n]])
       THEN /\ walk' = [walk EXCEPT ![t] = NoWalk]
            /\ halted' = Halt(t)
            /\ UNCHANGED fleet
       ELSE /\ fleet' = IF k.target \in Analyzed THEN f
                        ELSE SetWaveCommit(f, k.wave, k.target)
            /\ walk' = [walk EXCEPT ![t] =
                 IF k.target \in Analyzed
                   THEN [@ EXCEPT !.pc = "analyzing",
                                  !.frozen = fleet.waveCommit[k.wave]]
                 ELSE Onward(@, f)]
            /\ UNCHANGED halted
  /\ slot' = Cleared(t)
  /\ UNCHANGED <<repo, polled, store, session, network, running, ran,
                 edits>>

\* The analysis passes; a manual gate after the wave only delays what follows.
Pass(t) ==
  LET k == walk[t]
      f == SetWaveCommit(fleet, k.wave, k.target)
  IN
  /\ k.pc = "analyzing"
  /\ fleet' = f
  /\ walk' = [walk EXCEPT ![t] = Onward(@, f)]
  /\ UNCHANGED <<repo, polled, store, slot, session, network, running,
                 history, edits>>

\* A breach or no data: rollback_wave puts the record back on the commit it
\* named when the wave was acknowledged, and re-pushes.
Breach(t) ==
  /\ walk[t].pc = "analyzing"
  /\ fleet' = SetWaveCommit(fleet, walk[t].wave, walk[t].frozen)
  /\ walk' = [walk EXCEPT ![t].pc = "rolling_back"]
  /\ halted' = Halt(t)
  /\ UNCHANGED <<repo, polled, store, slot, session, network,
                 running, ran, edits>>

RolledBack(t) ==
  /\ walk[t].pc = "rolling_back"
  /\ AllAnswered(t)
  /\ walk' = [walk EXCEPT ![t] = NoWalk]
  /\ slot' = Cleared(t)
  /\ UNCHANGED <<repo, polled, fleet, store, session, network, running,
                 history, edits>>

(***************************************************************************)
(* The reconciler.                                                         *)
(***************************************************************************)

Healing == \E n \in Nodes : slot["reconciler"][n].state # "none"

\* A tick comes to a connected node that heals by re-push, and nothing defers
\* it. One heal at a time; a visit that heals nothing changes nothing.
Visit(n) ==
  /\ store[n].connected
  /\ ~Healing
  /\ HealsByRepush(store[n], fleet.perNode[n].hash, DesiredFor(fleet, n))
  /\ ~WaveInFlight
  /\ ~PendingInUnappliedWave(fleet, n)
  /\ slot' = [slot EXCEPT !["reconciler"][n].state = "checked"]
  /\ UNCHANGED <<repo, polled, fleet, store, walk, session, network, running,
                 history, edits>>

\* set_break_glass, and its window lapsing or cleared.
BreakGlass(n) ==
  /\ n \in Overridable
  /\ store' = [store EXCEPT ![n].glass = ~@]
  /\ UNCHANGED <<repo, polled, fleet, walk, slot, session, network,
                 running, history, edits>>

(***************************************************************************)
(* Streams.                                                                *)
(***************************************************************************)

Fault == faults < MaxFaults /\ faults' = faults + 1

\* The node's end of its stream goes, with what is in flight towards it.
Lost(n) ==
  /\ link' = link \ {n}
  /\ ending' = ending \cup (link \cap {n})
  /\ down' = [down EXCEPT ![n] = <<>>]

\* The node's stream breaks, with whatever is in flight.
Drop(n) ==
  /\ n \in Losable \cap (link \ ending)
  /\ Fault
  /\ Lost(n)
  /\ up' = [up EXCEPT ![n] = <<>>]
  /\ UNCHANGED <<repo, polled, control, running, history, edits>>

\* The node's process dies, on a stream or off it. Its successor joins anew
\* and serves nothing before its first push.
Crash(n) ==
  /\ n \in Losable \ (ending \cap link)
  /\ Fault
  /\ Lost(n)
  /\ up' = [up EXCEPT ![n] = <<>>]
  /\ running' = [running EXCEPT ![n] = Nothing]
  /\ UNCHANGED <<repo, polled, control, history, edits>>

\* The stream handler's end: it removes whatever session the node has.
Teardown(n) ==
  /\ n \in ending
  /\ ending' = ending \ {n}
  /\ store' = [store EXCEPT ![n].connected = FALSE]
  /\ session' = session \ {n}
  /\ slot' = Abandoned(n)
  /\ up' = [up EXCEPT ![n] = IF n \in link THEN @ ELSE <<>>]
  /\ UNCHANGED <<repo, polled, fleet, walk, link, down, faults,
                 running, history, edits>>

\* connect, insert, and the bootstrap push of the render desired now. The
\* backoff before a redial outlasts the bootstrap task of the last join.
Reconnect(n) ==
  /\ n \notin link
  /\ LateTeardown \/ n \notin ending
  /\ slot["bootstrap"][n] = NoPush
  /\ link' = link \cup {n}
  /\ store' = [store EXCEPT ![n].connected = TRUE]
  /\ session' = session \cup {n}
  /\ slot' = [Abandoned(n) EXCEPT !["bootstrap"][n] = Chosen(DesiredFor(fleet, n))]
  /\ UNCHANGED <<repo, polled, fleet, walk, ending, down, up, faults,
                 running, history, edits>>

\* What a node sends: an acknowledgement, a refusal or a heartbeat.
Answer(kind, version, render) ==
  [kind |-> kind, version |-> version, render |-> render]

Refuses(n) == down[n] # <<>> /\ <<Head(down[n]).render.commit, n>> \in Refusals

\* bind_push: a render the node already serves is acknowledged like a new one.
\* The first push (wait_first_push) goes the same way, unless it is refused.
Bind(n) ==
  LET m == Head(down[n]) IN
  /\ n \in link
  /\ down[n] # <<>>
  /\ Len(up[n]) < MaxQueue
  /\ down' = [down EXCEPT ![n] = Tail(@)]
  /\ IF Refuses(n)
       THEN /\ running[n] # Nothing
            /\ up' = [up EXCEPT ![n] = Append(@, Answer("nack", m.version, Nothing))]
            /\ UNCHANGED <<running, ran>>
       ELSE /\ up' = [up EXCEPT ![n] = Append(@, Answer("ack", m.version, m.render))]
            /\ running' = [running EXCEPT ![n] = m.render]
            /\ ran' = [ran EXCEPT ![n] = @ \cup {m.render}]
  /\ UNCHANGED <<repo, polled, control, ending, link, faults, halted, edits>>

\* A refused first push is refused and fatal: the process exits, with the
\* refusal on its way.
RefuseFirst(n) ==
  /\ n \in link
  /\ running[n] = Nothing
  /\ Refuses(n)
  /\ up[n] = <<>>
  /\ up' = [up EXCEPT ![n] = <<Answer("nack", Head(down[n]).version, Nothing)>>]
  /\ Lost(n)
  /\ UNCHANGED <<repo, polled, control, faults, running, history, edits>>

\* A heartbeat into an idle stream; one that tells nothing new is left out.
Heartbeat(n) ==
  /\ n \in link
  /\ up[n] = <<>> /\ down[n] = <<>>
  /\ running[n] \notin {Nothing, store[n].observed}
  /\ up' = [up EXCEPT ![n] = <<Answer("status", 0, running[n])>>]
  /\ UNCHANGED <<repo, polled, control, ending, link, down, faults, running,
                 history, edits>>

\* The inbound loop: record, then deliver.
Receive(n) ==
  LET m == Head(up[n]) IN
  /\ up[n] # <<>>
  /\ up' = [up EXCEPT ![n] = Tail(@)]
  /\ CASE m.kind = "ack" ->
            /\ store' = [store EXCEPT ![n] = RecordAck(@, m.render)]
            /\ slot' = Deliver(n, m.version, "acked", m.render)
       [] m.kind = "nack" ->
            /\ store' = [store EXCEPT ![n] = RecordNack(@)]
            /\ slot' = Deliver(n, m.version, "nacked", Nothing)
       [] OTHER ->
            /\ store' = [store EXCEPT ![n].observed = m.render]
            /\ UNCHANGED slot
  /\ UNCHANGED <<repo, polled, fleet, walk, session, ending, link, down,
                 faults, running, history, edits>>

Rollout(t) ==
  \/ Start(t) \/ Admit(t) \/ Resolve(t) \/ Begin(t)
  \/ ChooseInWalk(t) \/ Conclude(t) \/ Pass(t) \/ Breach(t) \/ RolledBack(t)

Push(p, n) == Number(p, n) \/ Send(p, n) \/ TimeOut(p, n)

Stream(n) ==
  \/ Drop(n) \/ Crash(n) \/ Teardown(n) \/ Reconnect(n)
  \/ Bind(n) \/ RefuseFirst(n) \/ Heartbeat(n) \/ Receive(n)

Next ==
  \/ Edit
  \/ \E t \in Triggers : Rollout(t)
  \/ \E p \in Pushers, n \in Nodes : Push(p, n)
  \/ \E n \in Nodes : Visit(n) \/ ChooseInHeal(n) \/ BreakGlass(n) \/ Stream(n)

Spec == Init /\ [][Next]_vars

\* Tasks run and are not starved, timers fire, and the tick comes round to
\* every node; the node redials forever, answers what it is pushed and sends
\* its heartbeats.
Fairness ==
  /\ \A t \in Triggers : WF_vars(Rollout(t))
  /\ \A p \in Pushers, n \in Nodes : WF_vars(Push(p, n))
  /\ \A n \in Nodes : /\ SF_vars(Visit(n))
                      /\ WF_vars(ChooseInHeal(n))
                      /\ WF_vars(Teardown(n) \/ Reconnect(n))
                      /\ WF_vars(Bind(n) \/ RefuseFirst(n))
                      /\ WF_vars(Heartbeat(n))
                      /\ WF_vars(Receive(n))

FairSpec == Spec /\ Fairness

(***************************************************************************)
(* Properties.                                                             *)
(***************************************************************************)

\* The shape of every variable (FleetInner, NodeState, Session, WaveStep).
TypeOK ==
  /\ {repo, polled} \subseteq Commits
  /\ fleet \in Fleets
  /\ store \in [Nodes -> NodeStates]
  /\ walk \in [Triggers -> Walks]
  /\ slot \in [Pushers -> [Nodes -> Slots]]
  /\ session \cup ending \cup link \subseteq Nodes
  /\ running \in [Nodes -> Renders \cup {Nothing}]

\* What is known of a node's versions: the counter, what is on its stream,
\* and what pushers wait for.
Claims(n) ==
  {[version |-> fleet.perNode[n].version, render |-> fleet.perNode[n].hash]}
  \cup Range(down[n])
  \cup {[version |-> m.version, render |-> m.render] :
          m \in {m \in Range(up[n]) : m.kind = "ack"}}
  \cup {[version |-> s.version, render |-> s.render] :
          s \in {s \in {slot[p][n] : p \in Pushers} :
                   s.state \in {"numbered", "waiting"}}}

\* A version handed to a node names one render, whoever pushed it and
\* however late its answer comes (next_version_for).
VersionNamesRender ==
  \A n \in Nodes : \A a, b \in Claims(n) :
    a.version = b.version => a.render = b.render

\* A node that answers truthfully is never adjudicated WrongHash, whatever
\* other pushes it was answering at the time (Sessions::deliver).
HonestNodesAgree ==
  \A t \in Triggers, n \in Nodes :
    slot[t][n].state = "acked" => slot[t][n].ack = slot[t][n].render

\* A wave is recorded on a commit only after every node the walk assigned to
\* it has served its own render of that commit (conclude_wave_multi).
AdvancedMeansServed ==
  [][\A t \in Triggers, w \in WaveIndices :
       /\ walk[t].pc \in {"pushing", "analyzing"}
       /\ fleet.waveCommit'[w] # fleet.waveCommit[w]
       => \A n \in walk[t].assigned[w] :
            Rendered(fleet.waveCommit'[w], n) \in ran[n]]_vars

\* What the control plane promises of its waves, whatever its sessions, nodes
\* and reconciler do: WaveRollout. A rollout has still to advance the wave it
\* is at and those after it; a wave it rolls back is not one of them.
ToAdvance(w) ==
  UNION {walk[t].assigned[w] :
           t \in {t \in Triggers : walk[t].pc \in {"pushing", "analyzing"}
                                    /\ walk[t].wave <= w}}
Promise == INSTANCE WaveRollout WITH
  WaveCount <- Len(Waves) + 1,
  Never <- Nothing,
  applied <- fleet.applied,
  due <- \E t \in Triggers : walk[t].pc = "applied",
  plan <- [w \in WaveIndices |-> ToAdvance(w)],
  record <- fleet.waveCommit,
  served <- [n \in Nodes |-> {c \in Commits : Rendered(c, n) \in ran[n]}]

\* Rollouts advance their waves in order, each on all of its nodes having
\* served the commit, and a commit that halted is not rolled out again
\* (rollout_waves, conclude_wave_multi, rollback_wave).
ImplementsWaves == Promise!Spec

\* After a halt, the nodes of later waves stay on their prior version until
\* another commit is applied (docs/07-control-plane.md).
HaltHoldsLaterWaves ==
  [][\A n \in Nodes :
       /\ halted # Nothing
       /\ WaveOf(n) > halted.wave
       /\ running'[n] \notin {Nothing, running[n]}
       => running'[n].commit # halted.commit]_vars

\* Every node ends up, and stays, on the render desired for it, unless a
\* halted rollout holds its wave back (Reconciler::tick).
Converges ==
  \A n \in Nodes :
    <>[](\/ running[n] = DesiredFor(fleet, n)
         \/ PendingInUnappliedWave(fleet, n))
=============================================================================
