----------------------------- MODULE ConfigCell -----------------------------
(* What a reloading data plane promises to a request (snapshot.rs, reload.rs, *)
(* wasm_runtime.rs): it is served under one accepted configuration, the one    *)
(* in force when it arrived, with the modules of that configuration or none,  *)
(* until it ends; and the configuration in force only moves forward. Files,   *)
(* triggers, locks and the map of module sets are not visible here. HotSwap   *)
(* implements this specification.                                             *)
EXTENDS Naturals

CONSTANTS
  Requests,
  Accepted,  \* texts that validate and whose modules load
  First,     \* the snapshot the process starts with
  Empty,     \* the module set of a request that has none
  NoModules  \* the sets a request may be bound to instead of its text's own

VARIABLES
  active,    \* the snapshot in force
  phase,     \* of each slot: "free", "arrived" or "bound"
  snapshot,  \* the snapshot each slot's request runs under
  modules    \* and its module set

vars == <<active, phase, snapshot, modules>>

Init ==
  /\ active = First
  /\ phase = [r \in Requests |-> "free"]
  /\ snapshot = [r \in Requests |-> First]
  /\ modules = [r \in Requests |-> Empty]

\* A reload goes through.
Publish ==
  /\ active' \in [version : Nat, content : Accepted]
  /\ active'.version > active.version
  /\ UNCHANGED <<phase, snapshot, modules>>

Arrive(r) ==
  /\ phase[r] = "free" /\ phase' = [phase EXCEPT ![r] = "arrived"]
  /\ snapshot' = [snapshot EXCEPT ![r] = active]
  /\ UNCHANGED <<active, modules>>

Bind(r) ==
  /\ phase[r] = "arrived" /\ phase' = [phase EXCEPT ![r] = "bound"]
  /\ \E m \in NoModules \cup {snapshot[r].content} : modules' = [modules EXCEPT ![r] = m]
  /\ UNCHANGED <<active, snapshot>>

End(r) ==
  /\ phase[r] = "bound" /\ phase' = [phase EXCEPT ![r] = "free"]
  /\ modules' = [modules EXCEPT ![r] = Empty]
  /\ UNCHANGED <<active, snapshot>>

Next == Publish \/ \E r \in Requests : Arrive(r) \/ Bind(r) \/ End(r)

Spec == Init /\ [][Next]_vars
=============================================================================
