----------------------------- MODULE ShareLedger -----------------------------
(***************************************************************************)
(* One capped value in the control plane's ledger: CapState and the share   *)
(* arithmetic of crates/gatewayctl/src/budget.rs. The f64 products are       *)
(* floored quotients here; over caps up to 38 the two agree.                *)
(***************************************************************************)
EXTENDS Integers, FiniteSets, FiniteSetsExt

CONSTANT FloorParts  \* 1 / COLD_NODE_FLOOR_FRACTION

ASSUME FloorAssumption == FloorParts \in Nat \ {0}

\* CapState: spend maps the nodes that reported to their cumulative spend.
States(N, S) == [cap : Nat, spend : UNION {[M -> S] : M \in SUBSET N},
                 soft : BOOLEAN, hard : BOOLEAN]

Unknown == [cap |-> 0, spend |-> <<>>, soft |-> FALSE, hard |-> FALSE]

Reporters(c) == DOMAIN c.spend

TotalSpend(c) == MapThenSumSet(LAMBDA n : c.spend[n], Reporters(c))

SpendOf(c, n) == IF n \in Reporters(c) THEN c.spend[n] ELSE 0

Larger(a, b) == IF a >= b THEN a ELSE b

\* fleet_alerts: the latches after the total was looked at (soft at 80%).
FleetAlerts(c) ==
  [c EXCEPT !.soft = @ \/ (c.cap > 0 /\ 10 * TotalSpend(c) >= 8 * c.cap),
            !.hard = @ \/ (c.cap > 0 /\ TotalSpend(c) >= c.cap)]

Figure(c, n, cap, spent) ==
  [c EXCEPT !.cap = Larger(@, cap),
            !.spend = [m \in Reporters(c) \cup {n} |->
                         IF m = n THEN spent ELSE c.spend[m]]]

Rearmed(c, after) ==
  IF TotalSpend(after) < TotalSpend(c)
  THEN [after EXCEPT !.soft = FALSE, !.hard = FALSE] ELSE after

\* Mutant of ReportSpend: the latches re-arm after the alerts were raised.
ReportSpendRearmsLast(c, n, cap, spent) ==
  Rearmed(c, FleetAlerts(Figure(c, n, cap, spent)))

\* report_spend: the figure is replaced, not added; a total that drops means
\* a new window and re-arms both latches.
ReportSpend(c, n, cap, spent) ==
  FleetAlerts(Rearmed(c, Figure(c, n, cap, spent)))

\* forget_node: a latch that fired stays fired.
ForgetNode(c, n) ==
  [c EXCEPT !.spend = [m \in Reporters(c) \ {n} |-> c.spend[m]]]

Cold(c) == {n \in Reporters(c) : c.spend[n] = 0}

NodeCount(c) == Larger(Cardinality(Reporters(c)), 1)

Headroom(c) == Larger(c.cap - TotalSpend(c), 0)

ColdFloor(c) ==
  IF Cold(c) = {} THEN 0 ELSE Headroom(c) \div (FloorParts * NodeCount(c))

HotPool(c) == c.cap - ColdFloor(c) * Cardinality(Cold(c))

\* Mutant of ShareFor: a hot node keeps what it spent and gets a slice too.
ShareForKeepsSpend(c, n) ==
  CASE TotalSpend(c) = 0 -> c.cap \div (FloorParts * NodeCount(c))
    [] SpendOf(c, n) = 0 -> ColdFloor(c)
    [] OTHER -> SpendOf(c, n) + (Headroom(c) * SpendOf(c, n)) \div TotalSpend(c)

\* share_for_node: an all-cold fleet splits a floor of the cap, else cold
\* nodes get a floor of the headroom and hot nodes divide the rest by weight.
ShareFor(c, n) ==
  CASE TotalSpend(c) = 0 -> c.cap \div (FloorParts * NodeCount(c))
    [] TotalSpend(c) > 0 /\ SpendOf(c, n) = 0 -> ColdFloor(c)
    [] OTHER -> (HotPool(c) * SpendOf(c, n)) \div TotalSpend(c)

(***************************************************************************)
(* The conservation claim of share_for_node: the shares computed from one    *)
(* ledger state partition the cap, also when the fleet has overspent it.     *)
(***************************************************************************)
Conserves(c) ==
  MapThenSumSet(LAMBDA n : ShareFor(c, n), Reporters(c)) <= c.cap
=============================================================================
