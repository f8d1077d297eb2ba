------------------------------ MODULE HotSwap ------------------------------
(***************************************************************************)
(* Hot reload of a file-mode data plane: crates/gatewayd/src/reload.rs      *)
(* (the one reload path and its two triggers), gateway-core/src/snapshot.rs *)
(* (version stamping), gatewayd/src/wasm_runtime.rs (the module set paired  *)
(* with every version) and the per-request binding of proxy.rs (new_ctx).   *)
(*                                                                         *)
(* A configuration text is a member of Contents. Its module set is named by *)
(* the content itself: on_swap compiles exactly the set the text declares.  *)
(* An unreadable file and a text that does not validate are both rejected   *)
(* before anything is stamped, so both are members of Unparsable.           *)
(***************************************************************************)
EXTENDS Integers, FiniteSets

CONSTANTS
  Requests,     \* request slots of the proxy; a slot is reused after Finish
  Contents,     \* texts the configuration file may hold
  Unparsable,   \* texts Config::from_yaml (or the read itself) rejects
  Unloadable,   \* texts whose module set fails to verify or compile
  PerEventOn,   \* texts with wasm.per_event_hooks = true
  FirstContent, \* the text the process bootstrapped from
  Missing,      \* the empty set bound because the version is not in the map
  Disabled,     \* the empty set bound because break-glass is active
  NoTrigger,    \* nobody holds reload_lock
  MaxVersion    \* bound on the versions the renderer stamps

Triggers == {"sighup", "poll"}
Versions == 1 .. MaxVersion
Accepted == Contents \ (Unparsable \cup Unloadable)
Snapshots == [version : Versions, content : Contents]
Bindings == Contents \cup {Missing, Disabled}

ASSUME HotSwapAssumption ==
  /\ MaxVersion \in Nat \ {0} /\ IsFiniteSet(Requests)
  /\ FirstContent \in Accepted
  /\ Missing \notin Contents /\ Disabled \notin Contents
  /\ Missing # Disabled
  /\ NoTrigger \notin Triggers

VARIABLES
  file,       \* what the configuration file holds now
  dirty,      \* the file's mtime differs from the watcher's last_mtime
  pc,         \* where each trigger's thread stands in Reloader::reload
  lock,       \* the holder of reload_lock, or NoTrigger
  pending,    \* the snapshot each trigger's running reload rendered
  stamped,    \* Renderer.next: versions stamped so far
  cell,       \* SharedSnapshot: the active snapshot
  byVersion,  \* Bindings.by_version: module set per version
  perEvent,   \* Bindings.per_event
  pinned,     \* a break-glass window is open
  rpc,        \* where each request stands in new_ctx and after
  snap,       \* ctx.snapshot
  mods,       \* ctx.modules
  gate        \* ctx.wasm_per_event

reloadVars == <<pc, lock, pending, stamped>>
bindVars == <<byVersion, perEvent>>
reqVars == <<rpc, snap, mods, gate>>
vars == <<file, dirty, reloadVars, cell, bindVars, pinned, reqVars>>

\* What Reloader::bootstrap stored: version 1 of the text it read.
Bootstrapped == [version |-> 1, content |-> FirstContent]

\* The state after Reloader::bootstrap and WasmRuntime::bootstrap: version 1,
\* its module set in the map, and the watcher thread not yet started.
Init ==
  /\ file = FirstContent
  /\ dirty = FALSE
  /\ pc = [t \in Triggers |-> IF t = "poll" THEN "starting" ELSE "idle"]
  /\ lock = NoTrigger
  /\ pending = [t \in Triggers |-> Bootstrapped]
  /\ stamped = 1
  /\ cell = Bootstrapped
  /\ byVersion = [v \in Versions |-> IF v = 1 THEN FirstContent ELSE Missing]
  /\ perEvent = (FirstContent \in PerEventOn)
  /\ pinned = FALSE
  /\ rpc = [r \in Requests |-> "idle"]
  /\ snap = [r \in Requests |-> Bootstrapped]
  /\ mods = [r \in Requests |-> Missing]
  /\ gate = [r \in Requests |-> FALSE]

-----------------------------------------------------------------------------
(* The two triggers and the file they read. *)

\* The operator (or a config-map mount) rewrites the file.
EditFile(c) ==
  /\ c # file
  /\ file' = c
  /\ dirty' = TRUE
  /\ UNCHANGED <<reloadVars, cell, bindVars, pinned, reqVars>>

\* The watcher thread records the mtime it starts from, reloading nothing.
StartWatcher ==
  /\ pc["poll"] = "starting"
  /\ pc' = [pc EXCEPT !["poll"] = "idle"]
  /\ dirty' = FALSE
  /\ UNCHANGED <<file, lock, pending, stamped, cell, bindVars, pinned, reqVars>>

\* A poll tick that sees a new mtime; last_mtime advances before the reload.
PollTick ==
  /\ pc["poll"] = "idle"
  /\ dirty
  /\ dirty' = FALSE
  /\ pc' = [pc EXCEPT !["poll"] = "waiting"]
  /\ UNCHANGED <<file, lock, pending, stamped, cell, bindVars, pinned, reqVars>>

Hangup ==
  /\ pc["sighup"] = "idle"
  /\ pc' = [pc EXCEPT !["sighup"] = "waiting"]
  /\ UNCHANGED <<file, dirty, lock, pending, stamped, cell, bindVars, pinned, reqVars>>

-----------------------------------------------------------------------------
(* Reloader::reload, under reload_lock from the read of the file to the      *)
(* store of the snapshot.                                                    *)

\* Mutant: the lock is not taken.
TakesNoLock(t) == pc[t] = "waiting"

TakesLock(t) ==
  /\ pc[t] = "waiting"
  /\ lock = NoTrigger

\* Same content as the active snapshot, or a text that does not validate:
\* the reload returns at once and no version is stamped.
ReloadReturns(t) ==
  /\ TakesLock(t)
  /\ file = cell.content \/ file \in Unparsable
  /\ pc' = [pc EXCEPT ![t] = "idle"]
  /\ UNCHANGED <<file, dirty, lock, pending, stamped, cell, bindVars, pinned, reqVars>>

\* Renderer::render_text accepts the text and stamps the next version.
Render(t) ==
  /\ TakesLock(t)
  /\ file # cell.content
  /\ file \notin Unparsable
  /\ stamped < MaxVersion
  /\ lock' = t
  /\ stamped' = stamped + 1
  /\ pending' = [pending EXCEPT ![t] = [version |-> stamped + 1, content |-> file]]
  /\ pc' = [pc EXCEPT ![t] = "rendered"]
  /\ UNCHANGED <<file, dirty, cell, bindVars, pinned, reqVars>>

\* The swap hook fails: the stamped version is lost, the cell keeps serving.
HookFails(t) ==
  /\ pc[t] = "rendered"
  /\ pending[t].content \in Unloadable
  /\ pc' = [pc EXCEPT ![t] = "idle"]
  /\ lock' = NoTrigger
  /\ pending' = [pending EXCEPT ![t] = Bootstrapped]
  /\ UNCHANGED <<file, dirty, stamped, cell, bindVars, pinned, reqVars>>

\* A request holds the Arc of version v's set from its bind to its end.
Holds(r, v) ==
  /\ rpc[r] \in {"bound", "serving"}
  /\ mods[r] \in Contents
  /\ snap[r].version = v

\* Mutants of the retain: old_set dropped first; nothing pruned.
KeptWithoutOldSet(v, new) ==
  \/ v >= new
  \/ \E r \in Requests : Holds(r, v)
KeptEverything(v, new) == v \in Versions /\ new > 0

\* The versions the retain of the swap to version new keeps. old_set is a live clone of the
\* replaced version's Arc while retain runs, so that version counts as held.
Kept(v, new) ==
  \/ v >= new
  \/ v = cell.version
  \/ \E r \in Requests : Holds(r, v)

\* WasmRuntime::on_swap, one critical section of the bindings lock.
OnSwap(t) ==
  /\ pc[t] = "rendered"
  /\ pending[t].content \notin Unloadable
  /\ byVersion' = [v \in Versions |->
                     IF v = pending[t].version THEN pending[t].content
                     ELSE IF Kept(v, pending[t].version) THEN byVersion[v] ELSE Missing]
  /\ perEvent' = (pending[t].content \in PerEventOn)
  /\ pc' = [pc EXCEPT ![t] = "hooked"]
  /\ UNCHANGED <<file, dirty, lock, pending, stamped, cell, pinned, reqVars>>

\* Mutant: the watcher records the file's mtime once the reload is over.
StoreMarksSeen(t) ==
  /\ pc[t] = "hooked"
  /\ cell' = pending[t]
  /\ pending' = [pending EXCEPT ![t] = Bootstrapped]
  /\ pc' = [pc EXCEPT ![t] = "idle"]
  /\ lock' = NoTrigger
  /\ dirty' = (dirty /\ t # "poll")
  /\ UNCHANGED <<file, stamped, bindVars, pinned, reqVars>>

\* SharedSnapshot::store, then the lock is released and the reload's locals die.
Store(t) ==
  /\ pc[t] = "hooked"
  /\ cell' = pending[t]
  /\ pending' = [pending EXCEPT ![t] = Bootstrapped]
  /\ pc' = [pc EXCEPT ![t] = "idle"]
  /\ lock' = NoTrigger
  /\ UNCHANGED <<file, dirty, stamped, bindVars, pinned, reqVars>>

-----------------------------------------------------------------------------
(* Break-glass: SIGUSR1 pins the empty set; the window lapses by itself.     *)

BreakGlass ==
  /\ ~pinned
  /\ pinned' = TRUE
  /\ UNCHANGED <<file, dirty, reloadVars, cell, bindVars, reqVars>>

PinLapses ==
  /\ pinned
  /\ pinned' = FALSE
  /\ UNCHANGED <<file, dirty, reloadVars, cell, bindVars, reqVars>>

-----------------------------------------------------------------------------
(* new_ctx: three reads, each under its own lock, then the request's life.   *)

\* Mutant: a load that finds a writer falls back to a default snapshot.
LoadDefaultsWhenBusy(r) ==
  /\ rpc[r] = "idle"
  /\ snap' = [snap EXCEPT ![r] =
                IF lock = NoTrigger THEN cell
                ELSE [version |-> 0, content |-> FirstContent]]
  /\ rpc' = [rpc EXCEPT ![r] = "loaded"]
  /\ UNCHANGED <<file, dirty, reloadVars, cell, bindVars, pinned, mods, gate>>

\* shared.load()
LoadSnapshot(r) ==
  /\ rpc[r] = "idle"
  /\ snap' = [snap EXCEPT ![r] = cell]
  /\ rpc' = [rpc EXCEPT ![r] = "loaded"]
  /\ UNCHANGED <<file, dirty, reloadVars, cell, bindVars, pinned, mods, gate>>

\* rt.bind(snapshot.version, now)
BindModules(r) ==
  /\ rpc[r] = "loaded"
  /\ mods' = [mods EXCEPT ![r] =
                IF pinned THEN Disabled ELSE byVersion[snap[r].version]]
  /\ rpc' = [rpc EXCEPT ![r] = "bound"]
  /\ UNCHANGED <<file, dirty, reloadVars, cell, bindVars, pinned, snap, gate>>

\* rt.per_event_enabled(), ANDed with wants(OnResponseEvent)
ReadGate(r) ==
  /\ rpc[r] = "bound"
  /\ gate' = [gate EXCEPT ![r] = perEvent /\ mods[r] \in Contents]
  /\ rpc' = [rpc EXCEPT ![r] = "serving"]
  /\ UNCHANGED <<file, dirty, reloadVars, cell, bindVars, pinned, snap, mods>>

\* The response drained: the request drops its Arcs.
Finish(r) ==
  /\ rpc[r] = "serving"
  /\ rpc' = [rpc EXCEPT ![r] = "idle"]
  /\ mods' = [mods EXCEPT ![r] = Missing]
  /\ gate' = [gate EXCEPT ![r] = FALSE]
  /\ UNCHANGED <<file, dirty, reloadVars, cell, bindVars, pinned, snap>>

-----------------------------------------------------------------------------
Reload(t) ==
  \/ ReloadReturns(t)
  \/ Render(t)
  \/ HookFails(t)
  \/ OnSwap(t)
  \/ Store(t)

Request(r) ==
  \/ LoadSnapshot(r)
  \/ BindModules(r)
  \/ ReadGate(r)
  \/ Finish(r)

Next ==
  \/ \E c \in Contents : EditFile(c)
  \/ StartWatcher
  \/ PollTick
  \/ Hangup
  \/ \E t \in Triggers : Reload(t)
  \/ BreakGlass
  \/ PinLapses
  \/ \E r \in Requests : Request(r)

Spec == Init /\ [][Next]_vars

\* The watcher thread keeps ticking and a reload that holds or awaits the
\* lock is a running thread. Neither the operator nor requests are fair.
Fairness ==
  /\ WF_vars(StartWatcher)
  /\ WF_vars(PollTick)
  /\ \A t \in Triggers : WF_vars(Reload(t))

FairSpec == Spec /\ Fairness

-----------------------------------------------------------------------------
(* Properties. *)

TypeOK ==
  /\ file \in Contents
  /\ dirty \in BOOLEAN
  /\ pc \in [Triggers -> {"starting", "idle", "waiting", "rendered", "hooked"}]
  /\ lock \in Triggers \cup {NoTrigger}
  /\ pending \in [Triggers -> Snapshots]
  /\ stamped \in Versions
  /\ cell \in Snapshots
  /\ byVersion \in [Versions -> Contents \cup {Missing}]
  /\ perEvent \in BOOLEAN
  /\ pinned \in BOOLEAN
  /\ rpc \in [Requests -> {"idle", "loaded", "bound", "serving"}]
  /\ snap \in [Requests -> Snapshots]
  /\ mods \in [Requests -> Bindings]
  /\ gate \in [Requests -> BOOLEAN]

\* Storing the set before the cell advances, and never pruning the version
\* the cell names, keeps a module set of the right content behind the active
\* snapshot at every moment of every reload (on_swap's store ordering).
CellHasModules == byVersion[cell.version] = cell.content

\* Proved (RejectedNeverServed), and implied by ImplementsCell:
\* no text the validator or the module loader refuses is ever the active
\* snapshot or bound by a request, whatever two racing triggers do to the
\* file in between (NACK keeps old).
OnlyAcceptedServed ==
  /\ cell.content \in Accepted
  /\ \A r \in Requests : snap[r].content \in Accepted

\* Proved (VersionIdentifiesConfig), and implied by ImplementsCell:
\* a version number names one content: two streams logging the same cfg=vN
\* ran the same configuration, and a bound module set is the one compiled
\* from the bound snapshot's own text or the empty set, never another's.
VersionNamesContent ==
  /\ \A r \in Requests :
       /\ snap[r].version = cell.version => snap[r].content = cell.content
       /\ rpc[r] \in {"bound", "serving"} =>
            mods[r] \in {snap[r].content, Missing, Disabled}
  /\ \A r, q \in Requests :
       snap[r].version = snap[q].version => snap[r].content = snap[q].content

\* Proved (VersionsOnlyGrow), and implied by ImplementsCell:
\* the active version only ever grows: the reload lock keeps two triggers
\* from rendering v2 and v3 and storing them in the wrong order.
NoVersionRegression ==
  [][cell' # cell => cell'.version > cell.version]_vars

\* The versions whose module set the map holds.
Resident == {v \in Versions : byVersion[v] # Missing}

\* The map keeps the set of every version some stream still holds, and at
\* most two more than there are request slots: pruning neither drops a
\* draining version nor lets drained ones accumulate across swaps.
ResidentSetsBounded ==
  /\ \A r \in Requests : \A v \in Versions : Holds(r, v) => v \in Resident
  /\ Cardinality(Resident) <= Cardinality(Requests) + 2

\* An acceptable edit made while the watcher runs ends up served with no
\* reload of an older text in flight to replace it, unless the file changes
\* again first (or the model runs out of versions): last_mtime is read before
\* the file, so no edit can slip between the two.
EditsAreServed ==
  \A c \in Accepted :
    (file = c /\ dirty /\ pc["poll"] # "starting")
      ~> \/ cell.content = c /\ lock = NoTrigger
         \/ file # c
         \/ stamped = MaxVersion

\* The requests' view of reload.rs and wasm_runtime.rs: two triggers, a lock,
\* a file that moves and a pruned map of module sets look to every request like
\* one configuration that moves forward, read once when it arrives and kept,
\* with its own modules or none, until it ends.
Phase(r) ==
  IF rpc[r] = "idle" THEN "free" ELSE IF rpc[r] = "loaded" THEN "arrived" ELSE "bound"

Cell == INSTANCE ConfigCell
  WITH First <- Bootstrapped, Empty <- Missing, NoModules <- {Missing, Disabled},
       active <- cell, phase <- [r \in Requests |-> Phase(r)],
       snapshot <- snap, modules <- mods

ImplementsCell == Cell!Spec

\* wasm_runtime.rs:4 and proxy.rs:553 state that a request binds a version and
\* its module settings together, with no torn read. False of the per-event
\* gate, which is read on its own: see the README, section 5.
GateMatchesSnapshot ==
  \A r \in Requests :
    rpc[r] = "serving" /\ mods[r] \in Contents =>
      gate[r] = (snap[r].content \in PerEventOn)
=============================================================================
