---------------------------- MODULE FleetBudgets ----------------------------
(***************************************************************************)
(* Budget shares at fleet scale: nodes that spend and report, the streams    *)
(* they join on, and the ledger that re-slices the cap (gatewayctl/budget.rs *)
(* and the session handler of server.rs, with the reporter and supervisor of *)
(* gatewayd/client.rs). A response is one chunk here; NodeBudgets has the    *)
(* accounting inside a stream and FleetRollout the pushes on it.             *)
(***************************************************************************)
EXTENDS JoinTokens, ShareLedger, Sequences

CONSTANTS
  Values,       \* capped attribution values, all under one cap
  Secrets,      \* the join tokens of the control plane
  Cap, Chunk,   \* tokens
  Windowed,     \* whether a clock tick starts a new billing window
  MaxNow,       \* clock ticks
  MaxFaults     \* lost streams and control-plane restarts

ASSUME BudgetsAssumption ==
  /\ {Cap, Chunk} \subseteq Nat \ {0}
  /\ {MaxNow, MaxFaults} \subseteq Nat
  /\ Windowed \in BOOLEAN

VARIABLES
  now,       \* seconds on every clock
  faults,    \* how many there were
  secretOf,  \* the --join-token each node was started with
  tokens,    \* JoinTokens
  process,   \* the node's process
  conn,      \* the stream the node believes it is on, 0 while partitioned
  entry,     \* NodeBudgets: share, spend and window of a value on a node
  stream,    \* per node and dial: the session and its two channels
  ledger     \* FleetBudgets.caps

vars == <<now, faults, secretOf, tokens, process, conn, entry, stream, ledger>>

Dials == 1 .. MaxFaults + 1
Window == IF Windowed THEN now ELSE 0

Fresh == [share |-> Cap, spent |-> 0, wid |-> 0]

\* Entry::roll
Rolled(e) == IF e.wid = Window THEN e ELSE [e EXCEPT !.spent = 0, !.wid = Window]

Undialed == [phase |-> "none", up |-> <<>>, down |-> <<>>]

Init ==
  /\ now = 0
  /\ faults = 0
  /\ secretOf \in [Nodes -> Secrets]
  /\ tokens = [s \in Secrets |-> Mint(0)]
  /\ process = [n \in Nodes |-> "started"]
  /\ conn = [n \in Nodes |-> 0]
  /\ entry = [n \in Nodes |-> [v \in Values |-> Fresh]]
  /\ stream = [n \in Nodes |-> [k \in Dials |-> Undialed]]
  /\ ledger = [v \in Values |-> Unknown]

Token(n) == tokens[secretOf[n]]

DialsLeft(n) == {k \in Dials : stream[n][k].phase = "none"}

\* connect_once up to set_partitioned(false), with the handler's admission.
\* The first push it waits for on a first connection is FleetRollout's.
Join(n) ==
  /\ process[n] \in {"started", "serving"} /\ conn[n] = 0
  /\ Admits(Token(n), n, now)
  /\ LET k == Min(DialsLeft(n))
     IN /\ tokens' = [tokens EXCEPT ![secretOf[n]] = Bind(@, n)]
        /\ stream' = [stream EXCEPT ![n][k].phase = "open"]
        /\ conn' = [conn EXCEPT ![n] = k]
        /\ process' = [process EXCEPT ![n] = "serving"]
  /\ UNCHANGED <<now, faults, secretOf, entry, ledger>>

\* A refusal is fatal on the first connection; later it is retried for ever.
Refused(n) ==
  /\ process[n] = "started"
  /\ ~Admits(Token(n), n, now)
  /\ process' = [process EXCEPT ![n] = "exited"]
  /\ UNCHANGED <<now, faults, secretOf, tokens, conn, entry, stream, ledger>>

\* Mutant of Ceiling: the prospective token is not counted.
CeilingOffByOne(n, e) == Cap + 1

\* check(1) on the stream, check_partitioned(1) off it.
Ceiling(n, e) ==
  IF conn[n] = 0 /\ e.share < Cap THEN e.share ELSE Cap

\* A request that is admitted streams one chunk.
Serve(n, v) ==
  /\ process[n] = "serving"
  /\ LET e == Rolled(entry[n][v])
     IN /\ e.spent + 1 <= Ceiling(n, e)
        /\ entry' = [entry EXCEPT ![n][v] = [e EXCEPT !.spent = @ + Chunk]]
  /\ UNCHANGED <<now, faults, secretOf, tokens, process, conn, stream, ledger>>

Spends(n, V) == [v \in V |-> Rolled(entry[n][v]).spent]

\* At or above 90% of the held share.
Escalating(n) ==
  {v \in Values : /\ entry[n][v].share > 0
                  /\ 10 * Rolled(entry[n][v]).spent >= 9 * entry[n][v].share}

Reportable(n) == {v \in Values : Rolled(entry[n][v]).spent > 0}

\* Mutant of Reported: the report leaves out what is near its limit.
ReportedBelowLimit(n) == Reportable(n) \ Escalating(n)

\* A synchronous check takes precedence over the whole usage report.
Reported(n) == IF Escalating(n) # {} THEN Escalating(n) ELSE Reportable(n)

\* One tick of the usage reporter, blocked while the channel is full.
Report(n) ==
  /\ conn[n] # 0
  /\ Reported(n) # {}
  /\ stream[n][conn[n]].up = <<>>
  /\ stream' = [stream EXCEPT ![n][conn[n]].up = <<Spends(n, Reported(n))>>]
  /\ entry' = [entry EXCEPT ![n] = [v \in Values |-> Rolled(entry[n][v])]]
  /\ UNCHANGED <<now, faults, secretOf, tokens, process, conn, ledger>>

\* ingest_usage, then the node's shares of every value known by now.
Ingest(n, k) ==
  /\ stream[n][k].phase \in {"open", "cut"}
  /\ stream[n][k].up # <<>>
  /\ stream[n][k].down = <<>>
  /\ LET report == Head(stream[n][k].up)
         after == [v \in Values |->
                     IF v \in DOMAIN report
                     THEN ReportSpend(ledger[v], n, Cap, report[v])
                     ELSE ledger[v]]
         grant == [v \in {w \in Values : after[w].cap > 0} |->
                     ShareFor(after[v], n)]
     IN /\ ledger' = after
        /\ stream' = [stream EXCEPT ![n][k].up = <<>>,
                        ![n][k].down = IF stream[n][k].phase = "open"
                                       THEN <<grant>> ELSE <<>>]
  /\ UNCHANGED <<now, faults, secretOf, tokens, process, conn, entry>>

\* apply_share_grant: the ceiling moves, the spend stays.
Granted(n) ==
  /\ conn[n] # 0
  /\ stream[n][conn[n]].down # <<>>
  /\ LET grant == Head(stream[n][conn[n]].down)
     IN entry' = [entry EXCEPT ![n] = [v \in Values |->
                    IF v \in DOMAIN grant
                    THEN [Rolled(entry[n][v]) EXCEPT !.share = grant[v]]
                    ELSE entry[n][v]]]
  /\ stream' = [stream EXCEPT ![n][conn[n]].down = <<>>]
  /\ UNCHANGED <<now, faults, secretOf, tokens, process, conn, ledger>>

\* The client sees the stream end and enters partition mode; the server has
\* yet to notice.
Drop(n) ==
  /\ conn[n] # 0
  /\ faults < MaxFaults
  /\ faults' = faults + 1
  /\ stream' = [stream EXCEPT ![n][conn[n]].phase = "cut",
                              ![n][conn[n]].down = <<>>]
  /\ conn' = [conn EXCEPT ![n] = 0]
  /\ UNCHANGED <<now, secretOf, tokens, process, entry, ledger>>

\* The handler's inbound loop ends, by the end of the stream or by an error
\* that leaves a report unread, and forgets the node whatever it dialed since.
Teardown(n, k) ==
  /\ stream[n][k].phase = "cut"
  /\ stream' = [stream EXCEPT ![n][k] = [Undialed EXCEPT !.phase = "gone"]]
  /\ ledger' = [v \in Values |-> ForgetNode(ledger[v], n)]
  /\ UNCHANGED <<now, faults, secretOf, tokens, process, conn, entry>>

\* The control plane restarts: ledger, sessions and tokens were in memory,
\* and the same secrets are minted again.
Restart ==
  /\ faults < MaxFaults
  /\ faults' = faults + 1
  /\ tokens' = [s \in Secrets |-> Mint(now)]
  /\ ledger' = [v \in Values |-> Unknown]
  /\ conn' = [n \in Nodes |-> 0]
  /\ stream' = [n \in Nodes |-> [k \in Dials |->
                  IF stream[n][k].phase = "none" THEN Undialed
                  ELSE [Undialed EXCEPT !.phase = "gone"]]]
  /\ UNCHANGED <<now, secretOf, process, entry>>

Tick ==
  /\ now < MaxNow
  /\ now' = now + 1
  /\ UNCHANGED <<faults, secretOf, tokens, process, conn, entry, stream, ledger>>

Node(n) ==
  Join(n) \/ Refused(n) \/ Report(n) \/ Granted(n) \/ Drop(n)
  \/ \E v \in Values : Serve(n, v)

Session(n, k) == Ingest(n, k) \/ Teardown(n, k)

Next ==
  \/ \E n \in Nodes : Node(n) \/ \E k \in Dials : Session(n, k)
  \/ Restart
  \/ Tick

\* The supervisor re-dials for ever, the reporter ticks, and both inbound
\* loops read what they are sent. Nothing makes a client spend, a stream
\* fail or a clock move.
Fairness ==
  /\ \A n \in Nodes : WF_vars(Join(n)) /\ WF_vars(Report(n)) /\ WF_vars(Granted(n))
  /\ \A n \in Nodes, k \in Dials : WF_vars(Session(n, k))

Spec == Init /\ [][Next]_vars
FairSpec == Spec /\ Fairness

-----------------------------------------------------------------------------
(***************************************************************************)
(* Types: a spend passes the cap by less than one chunk.                     *)
(***************************************************************************)
TypeOK ==
  /\ now \in 0 .. MaxNow
  /\ faults \in 0 .. MaxFaults
  /\ secretOf \in [Nodes -> Secrets]
  /\ tokens \in [Secrets -> Tokens]
  /\ process \in [Nodes -> {"started", "serving", "exited"}]
  /\ conn \in [Nodes -> {0} \cup Dials]
  /\ entry \in [Nodes -> [Values -> [share : 0 .. Cap, spent : 0 .. Cap + Chunk - 1,
                                     wid : 0 .. MaxNow]]]
  /\ \A n \in Nodes, k \in Dials :
       /\ stream[n][k].phase \in {"none", "open", "cut", "gone"}
       /\ Len(stream[n][k].up) <= 1 /\ Len(stream[n][k].down) <= 1
       /\ stream[n][k].down # <<>> => stream[n][k].phase = "open"
  /\ ledger \in [Values -> States(Nodes, 0 .. Cap + Chunk - 1)]

(***************************************************************************)
(* Whatever order reports, late reports, departures and restarts come in,    *)
(* the shares the ledger would grant partition the cap (the invariant the    *)
(* comment on share_for_node calls proven).                                  *)
(***************************************************************************)
SharesConserve == \A v \in Values : Conserves(ledger[v])

(***************************************************************************)
(* While the ledger's total is at the cap the hard alert has been raised for  *)
(* it: report_spend re-arms on a drop before it looks at the new total.      *)
(***************************************************************************)
CrossingsAlerted ==
  \A v \in Values :
    ledger[v].cap > 0 /\ TotalSpend(ledger[v]) >= ledger[v].cap => ledger[v].hard

(***************************************************************************)
(* At most one node of the fleet is on a stream with a given secret, and it  *)
(* is the one the token names: authorize admits a burned token for its own   *)
(* node only.                                                                *)
(***************************************************************************)
OneNodePerToken ==
  \A n \in Nodes : conn[n] # 0 => Token(n).bound = n

LockedOut(n) == process[n] = "serving" /\ conn[n] = 0 /\ ~Admits(Token(n), n, now)

(***************************************************************************)
(* A node that burned its token gets back on a stream after every loss,       *)
(* however old the token is, as long as this control plane remembers it.     *)
(***************************************************************************)
BoundNodesRejoin ==
  \A n \in Nodes : []<>(Token(n).bound = n => conn[n] # 0)

\* The reporter leaves out v as long as another value of the node escalates.
Shadowed(n, v) == Escalating(n) # {} /\ v \notin Escalating(n)

\* What the nodes of N have spent of v in the current window.
SpentOn(N, v) == MapThenSumSet(LAMBDA n : Rolled(entry[n][v]).spent, N)

(***************************************************************************)
(* Once the nodes whose reports carry v have together spent its cap, the     *)
(* control plane's hard alert follows, through lost reports, late teardowns  *)
(* and a restart. Left out are the nodes that can no longer join and those   *)
(* whose escalation of another value keeps v out of every report             *)
(* (client.rs:519-531): with their spend counted this is false, see          *)
(* CrossingsNeverMissed.                                                     *)
(***************************************************************************)
CrossingsReachFleet ==
  \A v \in Values :
    []<>(SpentOn({n \in Nodes : ~LockedOut(n) /\ ~Shadowed(n, v)}, v) >= Cap
           => ledger[v].hard)

(***************************************************************************)
(* "A fleet-wide crossing is never missed even if no single node hit it       *)
(* alone" (gatewayctl/src/budget.rs:10-11), for every node that can join.    *)
(* False of the code: a value that stays at its cap on a node shadows the    *)
(* others (README, section 5).                                               *)
(***************************************************************************)
CrossingsNeverMissed ==
  \A v \in Values :
    []<>(SpentOn({n \in Nodes : ~LockedOut(n)}, v) >= Cap => ledger[v].hard)

(***************************************************************************)
(* "It ingests each node's observed-spend telemetry, tracks the fleet-wide   *)
(* spend per capped value" (gatewayctl/src/budget.rs:5): what a joined node  *)
(* has spent of a value gets into the ledger. False of the code: see the     *)
(* README, section 5.                                                        *)
(***************************************************************************)
SpendReachesLedger ==
  \A n \in Nodes, v \in Values :
    conn[n] # 0 /\ entry[n][v].spent > 0
      ~> SpendOf(ledger[v], n) = entry[n][v].spent \/ conn[n] = 0
=============================================================================
