---------------------------- MODULE BudgetLedger ----------------------------
(***************************************************************************)
(* One capped value's counter on one node: LocalBudget and AlertLatch of    *)
(* crates/gateway-core/src/budget.rs and Entry of gatewayd/src/budget.rs,   *)
(* as operators on an entry. Only capped values reach the ledger: admit_caps *)
(* skips a tag without terms and apply_shares always names a cap, so an      *)
(* entry's cap is a number. Counters stay far below 2^64.                    *)
(***************************************************************************)
EXTENDS Integers

CONSTANTS
  HourLength,   \* minutes in an hour, the two window kinds of the model
  AlertPercent  \* alert_at of the terms

ASSUME LedgerAssumption ==
  /\ HourLength \in Nat \ {0}
  /\ AlertPercent \in 1 .. 100

\* CapTerms.window: None is "lifetime".
Windows == {"lifetime", "minute", "hour"}

Entries == [cap : Nat, share : Nat, spent : Nat, window : Windows,
            wid : Nat, soft : BOOLEAN, hard : BOOLEAN]

Terms == [cap : Nat, window : Windows]

AtMost(a, b) == IF a <= b THEN a ELSE b

\* a.saturating_sub(b)
Minus(a, b) == IF a >= b THEN a - b ELSE 0

\* Window::id_at; a lifetime cap has the one window 0.
IdAt(window, now) ==
  CASE window = "minute" -> now
    [] window = "hour" -> now \div HourLength
    [] OTHER -> 0

\* LocalBudget::new and the fresh latch of NodeBudgets::ensure: the node
\* holds the whole cap until the control plane rebalances it.
NewEntry(cap) ==
  [cap |-> cap, share |-> cap, spent |-> 0, window |-> "lifetime",
   wid |-> 0, soft |-> FALSE, hard |-> FALSE]

\* reset_window_spend and a new latch, in window id.
Restart(e, wid) ==
  [e EXCEPT !.spent = 0, !.soft = FALSE, !.hard = FALSE, !.wid = wid]

\* Entry::roll
Roll(e, now) ==
  IF IdAt(e.window, now) = e.wid THEN e
  ELSE Restart(e, IdAt(e.window, now))

\* Entry::sync_terms: a changed window kind starts over. The cap the entry
\* was created with is not among the terms it adopts.
SyncTerms(e, t, now) ==
  IF e.window = t.window THEN Roll(e, now)
  ELSE Restart([e EXCEPT !.window = t.window], IdAt(t.window, now))

\* check(1), or check_partitioned(1): what a prospective token may not pass.
\* Escalate serves the request like Allow.
Ceiling(e, partitioned) == IF partitioned THEN AtMost(e.share, e.cap) ELSE e.cap

Denies(e, partitioned) == e.spent + 1 > Ceiling(e, partitioned)

\* commit, then AlertLatch::cross against the request's own cap.
Commit(e, t, tokens) ==
  LET spent == e.spent + tokens
  IN [e EXCEPT !.spent = spent,
               !.soft = @ \/ (t.cap > 0 /\ 100 * spent >= AlertPercent * t.cap),
               !.hard = @ \/ (t.cap > 0 /\ spent >= t.cap)]

\* The bound a running stream is cut at: the bound terms' cap, or the held
\* share of it while partitioned.
Bound(e, t, partitioned) == IF partitioned THEN AtMost(e.share, t.cap) ELSE t.cap

Crosses(e, t, partitioned) == e.spent > Bound(e, t, partitioned)

\* Mutant of Reconcile: the subtraction does not saturate.
ReconcileUnsaturated(e, est, auth) == [e EXCEPT !.spent = @ + (auth - est)]

\* LocalBudget::reconcile: the estimate committed so far becomes the frame.
Reconcile(e, est, auth) ==
  [e EXCEPT !.spent = IF auth >= est THEN @ + (auth - est)
                      ELSE Minus(@, est - auth)]
=============================================================================
