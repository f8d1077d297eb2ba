--------------------------- MODULE HotSwap_proofs ---------------------------
(***************************************************************************)
(* Proofs about HotSwap, for any number of request slots, any contents and  *)
(* any bound on the versions. The inductive invariant is built around the   *)
(* reload lock: whoever holds it is the only trigger past its render, and   *)
(* its pending version is larger than every version a request could hold.   *)
(***************************************************************************)
EXTENDS HotSwap, FiniteSetTheorems, TLAPS

\* The lock's holder is exactly the trigger between its render and its store.
LockInv ==
  \A t \in Triggers : (pc[t] \in {"rendered", "hooked"}) <=> (lock = t)

\* The holder's snapshot is the newest stamped one, ahead of the cell, and it
\* passed validation; once hooked its module set loaded and is in the map.
PendingInv ==
  \A t \in Triggers :
    /\ lock = t =>
         /\ pending[t].version = stamped
         /\ cell.version < stamped
         /\ pending[t].content \notin Unparsable
    /\ pc[t] = "hooked" =>
         /\ pending[t].content \notin Unloadable
         /\ byVersion[pending[t].version] = pending[t].content

\* The cell never runs ahead of the stamp and always names an accepted text.
CellInv ==
  /\ cell.version <= stamped
  /\ cell.content \in Accepted
  /\ CellHasModules

\* What a request bound: a version the cell has reached, the content that
\* version names, and a module set compiled from that content or none.
RequestInv ==
  \A r \in Requests :
    /\ snap[r].version <= cell.version
    /\ snap[r].content \in Accepted
    /\ snap[r].version = cell.version => snap[r].content = cell.content
    /\ byVersion[snap[r].version] \in {snap[r].content, Missing}
    /\ rpc[r] \in {"bound", "serving"} =>
         mods[r] \in {snap[r].content, Missing, Disabled}
    /\ \A q \in Requests :
         snap[r].version = snap[q].version => snap[r].content = snap[q].content

SwapInv == TypeOK /\ LockInv /\ PendingInv /\ CellInv /\ RequestInv

-----------------------------------------------------------------------------
\* The process starts well typed: bootstrap's snapshot is version 1 of the
\* text it read, with its module set in the map.
LEMMA InitTypeOK == Init => TypeOK
<1> SUFFICES ASSUME Init PROVE TypeOK
  OBVIOUS
<1>1. 1 \in Versions /\ FirstContent \in Contents
  BY HotSwapAssumption DEF HotSwapAssumption, Versions, Accepted
<1>2. perEvent \in BOOLEAN
  BY DEF Init
<1>3. byVersion \in [Versions -> Contents \cup {Missing}]
  BY <1>1 DEF Init
<1>4. /\ snap \in [Requests -> Snapshots] /\ cell \in Snapshots
      /\ pending \in [Triggers -> Snapshots]
  BY <1>1 DEF Init, Snapshots, Bootstrapped
<1>5. QED
  BY <1>1, <1>2, <1>3, <1>4 DEF Init, TypeOK, Bindings, Triggers

\* Every handler keeps the state well typed.
LEMMA NextTypeOK == TypeOK /\ [Next]_vars => TypeOK'
<1> SUFFICES ASSUME TypeOK, [Next]_vars PROVE TypeOK'
  OBVIOUS
<1> USE HotSwapAssumption
<1>1. CASE UNCHANGED vars
  BY <1>1 DEF TypeOK, vars, reloadVars, bindVars, reqVars
<1>2. ASSUME NEW c \in Contents, EditFile(c) PROVE TypeOK'
  BY <1>2 DEF EditFile, TypeOK, reloadVars, bindVars, reqVars
<1>3. CASE StartWatcher
  BY <1>3 DEF StartWatcher, TypeOK, bindVars, reqVars, Triggers
<1>4. CASE PollTick
  BY <1>4 DEF PollTick, TypeOK, bindVars, reqVars, Triggers
<1>5. CASE Hangup
  BY <1>5 DEF Hangup, TypeOK, bindVars, reqVars, Triggers
<1>6. ASSUME NEW t \in Triggers, Reload(t) PROVE TypeOK'
  <2>0. Bootstrapped \in Snapshots
    BY DEF Bootstrapped, Snapshots, Versions, HotSwapAssumption, Accepted
  <2>1. CASE ReloadReturns(t)
    BY <2>1 DEF ReloadReturns, TypeOK, bindVars, reqVars
  <2>2. CASE Render(t)
    BY <2>2 DEF Render, TypeOK, bindVars, reqVars, Snapshots, Versions
  <2>3. CASE HookFails(t)
    BY <2>3, <2>0 DEF HookFails, TypeOK, bindVars, reqVars
  <2>4. CASE OnSwap(t)
    <3>1. pending[t].content \in Contents
      BY DEF TypeOK, Snapshots
    <3>2. byVersion' \in [Versions -> Contents \cup {Missing}]
      BY <2>4, <3>1 DEF OnSwap, TypeOK
    <3>3. QED
      BY <2>4, <3>2 DEF OnSwap, TypeOK, reqVars
  <2>5. CASE Store(t)
    BY <2>5, <2>0 DEF Store, TypeOK, bindVars, reqVars
  <2>6. QED
    BY <1>6, <2>1, <2>2, <2>3, <2>4, <2>5 DEF Reload
<1>7. CASE BreakGlass \/ PinLapses
  BY <1>7 DEF BreakGlass, PinLapses, TypeOK, reloadVars, bindVars, reqVars
<1>8. ASSUME NEW r \in Requests, Request(r) PROVE TypeOK'
  <2>1. CASE LoadSnapshot(r)
    BY <2>1 DEF LoadSnapshot, TypeOK, reloadVars, bindVars
  <2>2. CASE BindModules(r)
    <3>1. byVersion[snap[r].version] \in Bindings
      BY DEF TypeOK, Snapshots, Bindings
    <3>2. mods' \in [Requests -> Bindings]
      BY <2>2, <3>1 DEF BindModules, TypeOK, Bindings
    <3>3. QED
      BY <2>2, <3>2 DEF BindModules, TypeOK, reloadVars, bindVars
  <2>3. CASE ReadGate(r)
    BY <2>3 DEF ReadGate, TypeOK, reloadVars, bindVars
  <2>4. CASE Finish(r)
    BY <2>4 DEF Finish, TypeOK, Bindings, reloadVars, bindVars
  <2>5. QED
    BY <1>8, <2>1, <2>2, <2>3, <2>4 DEF Request
<1>9. QED
  BY <1>1, <1>2, <1>3, <1>4, <1>5, <1>6, <1>7, <1>8 DEF Next

\* Types hold in every reachable state, for every value of the constants.
THEOREM TypeCorrect == Spec => []TypeOK
  BY InitTypeOK, NextTypeOK, PTL DEF Spec
-----------------------------------------------------------------------------
\* Bootstrap establishes the invariant: version 1 is accepted and paired.
LEMMA InitSwapInv == Init => SwapInv
<1> SUFFICES ASSUME Init PROVE SwapInv
  OBVIOUS
<1>1. TypeOK
  BY InitTypeOK
<1>2. byVersion[1] = FirstContent /\ FirstContent \in Accepted
  BY HotSwapAssumption DEF Init, Versions
<1>3. LockInv /\ PendingInv
  BY HotSwapAssumption DEF HotSwapAssumption, Init, LockInv, PendingInv, Triggers
<1>4. CellInv
  BY <1>2 DEF Init, Bootstrapped, CellInv, CellHasModules
<1>5. RequestInv
  BY <1>2 DEF Init, Bootstrapped, RequestInv
<1>6. QED
  BY <1>1, <1>3, <1>4, <1>5 DEF SwapInv

\* Everything the invariant reads apart from the triggers' program counters.
swapVars == <<lock, pending, stamped, cell, byVersion, rpc, snap, mods>>

\* A step that moves one trigger without entering or leaving the lock's
\* critical section, and nothing else the invariant reads, preserves it.
LEMMA IdleStep ==
  ASSUME SwapInv, TypeOK', UNCHANGED swapVars,
         \A t \in Triggers :
           pc'[t] = pc[t] \/ {pc[t], pc'[t]} \cap {"rendered", "hooked"} = {}
  PROVE  SwapInv'
<1>1. LockInv'
  BY DEF SwapInv, LockInv, swapVars
<1>2. PendingInv' /\ CellInv' /\ RequestInv'
  BY DEF SwapInv, PendingInv, CellInv, CellHasModules, RequestInv, swapVars
<1>3. QED
  BY <1>1, <1>2 DEF SwapInv

\* Rendering under the free lock: the holder's version is new to everybody.
LEMMA RenderStep ==
  ASSUME SwapInv, TypeOK', NEW t \in Triggers, Render(t)
  PROVE  SwapInv'
<1> USE DEF Render, TakesLock, SwapInv, TypeOK, Snapshots, Versions, bindVars, reqVars
<1>1. \A s \in Triggers : pc[s] \notin {"rendered", "hooked"}
  BY HotSwapAssumption DEF LockInv
<1>2. LockInv'
  BY <1>1 DEF LockInv
<1>3. PendingInv'
  BY <1>1 DEF PendingInv, CellInv
<1>4. CellInv' /\ RequestInv'
  BY DEF CellInv, CellHasModules, RequestInv
<1>5. QED
  BY <1>2, <1>3, <1>4

\* A failed hook gives the lock back and leaves the cell and the map alone.
LEMMA HookFailsStep ==
  ASSUME SwapInv, TypeOK', NEW t \in Triggers, HookFails(t)
  PROVE  SwapInv'
<1> USE DEF HookFails, SwapInv, TypeOK, bindVars, reqVars
<1>1. lock = t
  BY DEF LockInv
<1>2. LockInv'
  BY <1>1, HotSwapAssumption DEF LockInv
<1>3. PendingInv'
  BY <1>1, <1>2, HotSwapAssumption DEF PendingInv, LockInv
<1>4. CellInv' /\ RequestInv'
  BY DEF CellInv, CellHasModules, RequestInv
<1>5. QED
  BY <1>2, <1>3, <1>4

\* on_swap writes only the pending version's entry, which nobody can name
\* yet, and prunes entries to Missing but never the cell's.
LEMMA OnSwapStep ==
  ASSUME SwapInv, TypeOK', NEW t \in Triggers, OnSwap(t)
  PROVE  SwapInv'
<1> USE DEF OnSwap, SwapInv, reqVars
<1>1. lock = t /\ lock # NoTrigger
  BY HotSwapAssumption DEF LockInv
<1>2. /\ pending[t].version = stamped /\ cell.version < stamped
      /\ pending[t].version \in Versions /\ cell.version \in Versions
      /\ stamped \in Int
  BY <1>1 DEF PendingInv, TypeOK, Snapshots, Versions
<1>3. byVersion'[pending[t].version] = pending[t].content
  BY <1>2
<1>4. \A v \in Versions : v # pending[t].version =>
        byVersion'[v] \in {byVersion[v], Missing}
  BY DEF TypeOK
<1>5. LockInv'
  BY <1>1 DEF LockInv, TypeOK
<1>6. PendingInv'
  <2>1. \A s \in Triggers : pc'[s] = "hooked" => s = t
    BY <1>1, <1>5 DEF LockInv
  <2>2. QED
    BY <1>1, <1>3, <2>1 DEF PendingInv
<1>7. CellInv'
  <2>1. byVersion'[cell.version] = byVersion[cell.version]
    BY <1>2 DEF Kept, Versions
  <2>2. QED
    BY <2>1 DEF CellInv, CellHasModules
<1>8. RequestInv'
  <2>1. ASSUME NEW r \in Requests
        PROVE  byVersion'[snap[r].version] \in {snap[r].content, Missing}
    <3>1. snap[r].version \in Versions /\ snap[r].version # pending[t].version
      BY <1>2 DEF RequestInv, TypeOK, Snapshots, Versions
    <3>2. QED
      BY <3>1, <1>4 DEF RequestInv
  <2>2. QED
    BY <2>1 DEF RequestInv
<1>9. QED
  BY <1>5, <1>6, <1>7, <1>8

\* The store moves the cell to the pending version, above every request's.
LEMMA StoreStep ==
  ASSUME SwapInv, TypeOK', NEW t \in Triggers, Store(t)
  PROVE  SwapInv' /\ cell'.version > cell.version
<1> USE DEF Store, SwapInv, bindVars, reqVars
<1>1. lock = t /\ lock # NoTrigger
  BY HotSwapAssumption DEF LockInv
<1>2. /\ pending[t].version = stamped /\ cell.version < stamped
      /\ pending[t].content \in Accepted
      /\ byVersion[pending[t].version] = pending[t].content
      /\ stamped \in Int /\ cell.version \in Int
  BY <1>1 DEF PendingInv, TypeOK, Snapshots, Versions, Accepted
<1>3. LockInv'
  BY <1>1, HotSwapAssumption DEF LockInv, TypeOK
<1>4. PendingInv'
  BY <1>1, <1>3, HotSwapAssumption DEF PendingInv, LockInv
<1>5. CellInv'
  BY <1>2 DEF CellInv, CellHasModules
<1>6. RequestInv'
  <2>1. \A r \in Requests : snap[r].version \in Int /\ snap[r].version < stamped
    BY <1>2 DEF RequestInv, TypeOK, Snapshots, Versions
  <2>2. QED
    BY <1>2, <2>1 DEF RequestInv
<1>7. QED
  BY <1>2, <1>3, <1>4, <1>5, <1>6

\* A request that loads the cell, binds a set, reads the gate or ends.
LEMMA RequestStep ==
  ASSUME SwapInv, TypeOK', NEW r \in Requests, Request(r)
  PROVE  SwapInv'
<1> USE DEF SwapInv, reloadVars, bindVars
<1>1. UNCHANGED <<pc, lock, pending, stamped, cell, byVersion>>
  BY DEF Request, LoadSnapshot, BindModules, ReadGate, Finish
<1>2. LockInv' /\ PendingInv' /\ CellInv'
  BY <1>1 DEF LockInv, PendingInv, CellInv, CellHasModules
<1>3. RequestInv'
  <2>1. CASE LoadSnapshot(r)
    <3>1. \A q \in Requests : snap'[q] = (IF q = r THEN cell ELSE snap[q])
      BY <2>1 DEF LoadSnapshot, TypeOK
    <3>2. \A q \in Requests :
            rpc'[q] \in {"bound", "serving"} =>
              q # r /\ rpc[q] \in {"bound", "serving"} /\ mods'[q] = mods[q]
      BY <2>1 DEF LoadSnapshot, TypeOK
    <3>3. cell.version \in Int
      BY DEF TypeOK, Snapshots, Versions
    <3>4. QED
      BY <1>1, <3>1, <3>2, <3>3 DEF RequestInv, CellInv, CellHasModules
  <2>2. CASE BindModules(r)
    BY <2>2, <1>1 DEF BindModules, RequestInv, TypeOK
  <2>3. CASE ReadGate(r)
    BY <2>3, <1>1 DEF ReadGate, RequestInv, TypeOK
  <2>4. CASE Finish(r)
    BY <2>4, <1>1 DEF Finish, RequestInv, TypeOK
  <2>5. QED
    BY <2>1, <2>2, <2>3, <2>4 DEF Request
<1>4. QED
  BY <1>2, <1>3

\* The invariant is inductive.
LEMMA NextSwapInv == SwapInv /\ [Next]_vars => SwapInv'
<1> SUFFICES ASSUME SwapInv, [Next]_vars PROVE SwapInv'
  OBVIOUS
<1>1. TypeOK'
  BY NextTypeOK DEF SwapInv
<1>2. CASE UNCHANGED vars
  BY <1>1, <1>2, IdleStep DEF vars, reloadVars, bindVars, reqVars, swapVars
<1>3. ASSUME NEW c \in Contents, EditFile(c) PROVE SwapInv'
  BY <1>1, <1>3, IdleStep DEF EditFile, reloadVars, bindVars, reqVars, swapVars
<1>4. CASE StartWatcher \/ PollTick \/ Hangup
  BY <1>1, <1>4, IdleStep
     DEF StartWatcher, PollTick, Hangup, bindVars, reqVars, swapVars, SwapInv,
         TypeOK, Triggers
<1>5. CASE BreakGlass \/ PinLapses
  BY <1>1, <1>5, IdleStep
     DEF BreakGlass, PinLapses, reloadVars, bindVars, reqVars, swapVars
<1>6. ASSUME NEW t \in Triggers, Reload(t) PROVE SwapInv'
  <2>1. CASE ReloadReturns(t)
    BY <1>1, <2>1, IdleStep
       DEF ReloadReturns, TakesLock, bindVars, reqVars, swapVars, SwapInv, TypeOK
  <2>2. QED
    BY <1>1, <1>6, <2>1, RenderStep, HookFailsStep, OnSwapStep, StoreStep DEF Reload
<1>7. ASSUME NEW r \in Requests, Request(r) PROVE SwapInv'
  BY <1>1, <1>7, RequestStep
<1>8. QED
  BY <1>2, <1>3, <1>4, <1>5, <1>6, <1>7 DEF Next

LEMMA SwapInvariant == Spec => []SwapInv
  BY InitSwapInv, NextSwapInv, PTL DEF Spec

-----------------------------------------------------------------------------
\* on_swap's store ordering and its retain: at every moment of every reload
\* the active version's own module set is in the map.
THEOREM ActiveSnapshotPaired == Spec => []CellHasModules
<1>1. SwapInv => CellHasModules
  BY DEF SwapInv, CellInv
<1>2. QED
  BY SwapInvariant, <1>1, PTL

\* NACK keeps old: no refused text is ever active or bound.
THEOREM RejectedNeverServed == Spec => []OnlyAcceptedServed
<1>1. SwapInv => OnlyAcceptedServed
  BY DEF SwapInv, CellInv, RequestInv, OnlyAcceptedServed
<1>2. QED
  BY SwapInvariant, <1>1, PTL

\* One version, one content, one module set: a stream that pinned vN runs the
\* configuration and the modules vN names, or no modules, until it ends.
THEOREM VersionIdentifiesConfig == Spec => []VersionNamesContent
<1>1. SwapInv => VersionNamesContent
  BY DEF SwapInv, RequestInv, VersionNamesContent
<1>2. QED
  BY SwapInvariant, <1>1, PTL

\* The reload lock makes a version regression impossible.
THEOREM VersionsOnlyGrow == Spec => NoVersionRegression
<1>1. SwapInv /\ [Next]_vars => [cell' # cell => cell'.version > cell.version]_vars
  <2> SUFFICES ASSUME SwapInv, Next, cell' # cell
               PROVE  cell'.version > cell.version
    OBVIOUS
  <2>1. PICK t \in Triggers : Store(t)
    BY DEF Next, EditFile, StartWatcher, PollTick, Hangup, Reload, ReloadReturns,
           Render, HookFails, OnSwap, BreakGlass, PinLapses, Request,
           LoadSnapshot, BindModules, ReadGate, Finish, reloadVars
  <2>2. TypeOK'
    BY NextTypeOK DEF SwapInv
  <2>3. QED
    BY <2>1, <2>2, StoreStep
<1>2. QED
  BY SwapInvariant, <1>1, PTL DEF Spec, NoVersionRegression

-----------------------------------------------------------------------------
\* Requests see one configuration that moves forward: every step of the
\* triggers, of the file and of break-glass is a publication or a stutter of
\* ConfigCell, and every step of a request is an arrival, a binding or an end.
THEOREM CellRefinement == Spec => ImplementsCell
<1>1. Init => Cell!Init
  BY DEF Init, Cell!Init, Phase
<1>2. SwapInv /\ [Next]_vars => [Cell!Next]_Cell!vars
  <2> SUFFICES ASSUME SwapInv, [Next]_vars PROVE [Cell!Next]_Cell!vars
    OBVIOUS
  <2> DEFINE phase == [r \in Requests |-> Phase(r)]
  <2>1. ASSUME UNCHANGED <<cell, rpc, snap, mods>> PROVE UNCHANGED Cell!vars
    BY <2>1 DEF Cell!vars, Phase
  <2>2. CASE UNCHANGED vars
    BY <2>1, <2>2 DEF vars, reqVars
  <2>3. ASSUME NEW c \in Contents, EditFile(c) PROVE UNCHANGED Cell!vars
    BY <2>1, <2>3 DEF EditFile, reqVars
  <2>4. CASE StartWatcher \/ PollTick \/ Hangup \/ BreakGlass \/ PinLapses
    BY <2>1, <2>4 DEF StartWatcher, PollTick, Hangup, BreakGlass, PinLapses, reqVars
  <2>5. ASSUME NEW t \in Triggers, Reload(t) PROVE [Cell!Next]_Cell!vars
    <3>1. CASE ReloadReturns(t) \/ Render(t) \/ HookFails(t) \/ OnSwap(t)
      BY <2>1, <3>1 DEF ReloadReturns, Render, HookFails, OnSwap, reqVars
    <3>2. CASE Store(t)
      <4>1. TypeOK'
        BY NextTypeOK DEF SwapInv
      <4>2. cell'.version > cell.version /\ cell'.content \in Accepted
        BY <3>2, <4>1, StoreStep DEF SwapInv, CellInv
      <4>3. cell' \in [version : Nat, content : Accepted]
        BY <4>1, <4>2, HotSwapAssumption DEF TypeOK, Snapshots, Versions
      <4>4. UNCHANGED <<rpc, snap, mods>>
        BY <3>2 DEF Store, reqVars
      <4>5. Cell!Publish
        BY <4>2, <4>3, <4>4 DEF Cell!Publish, Phase
      <4>6. QED
        BY <4>5 DEF Cell!Next
    <3>3. QED
      BY <2>5, <3>1, <3>2 DEF Reload
  <2>6. ASSUME NEW r \in Requests, Request(r) PROVE [Cell!Next]_Cell!vars
    <3>2. rpc \in [Requests -> {"idle", "loaded", "bound", "serving"}]
      BY DEF SwapInv, TypeOK
    <3>3. UNCHANGED cell
      BY <2>6 DEF Request, LoadSnapshot, BindModules, ReadGate, Finish
    <3>4. CASE LoadSnapshot(r)
      <4>1. phase[r] = "free" /\ phase' = [phase EXCEPT ![r] = "arrived"]
        BY <3>2, <3>4 DEF LoadSnapshot, Phase
      <4>2. snap' = [snap EXCEPT ![r] = cell] /\ UNCHANGED mods
        BY <3>4 DEF LoadSnapshot
      <4>3. Cell!Arrive(r)
        BY <3>3, <4>1, <4>2 DEF Cell!Arrive
      <4>4. QED
        BY <4>3 DEF Cell!Next
    <3>5. CASE BindModules(r)
      <4>1. phase[r] = "arrived" /\ phase' = [phase EXCEPT ![r] = "bound"]
        BY <3>2, <3>5 DEF BindModules, Phase
      <4>2. /\ mods' = [mods EXCEPT ![r] = IF pinned THEN Disabled ELSE byVersion[snap[r].version]]
            /\ UNCHANGED snap
        BY <3>5 DEF BindModules
      <4>3. byVersion[snap[r].version] \in {snap[r].content, Missing}
        BY DEF SwapInv, RequestInv
      <4>4. Cell!Bind(r)
        BY <3>3, <4>1, <4>2, <4>3 DEF Cell!Bind
      <4>5. QED
        BY <4>4 DEF Cell!Next
    <3>6. CASE ReadGate(r)
      <4>1. UNCHANGED phase
        BY <3>2, <3>6 DEF ReadGate, Phase
      <4>2. UNCHANGED Cell!vars
        BY <3>3, <3>6, <4>1 DEF ReadGate, Cell!vars
      <4>3. QED
        BY <4>2
    <3>7. CASE Finish(r)
      <4>1. phase[r] = "bound" /\ phase' = [phase EXCEPT ![r] = "free"]
        BY <3>2, <3>7 DEF Finish, Phase
      <4>2. mods' = [mods EXCEPT ![r] = Missing] /\ UNCHANGED snap
        BY <3>7 DEF Finish
      <4>3. Cell!End(r)
        BY <3>3, <4>1, <4>2 DEF Cell!End
      <4>4. QED
        BY <4>3 DEF Cell!Next
    <3>8. QED
      BY <2>6, <3>4, <3>5, <3>6, <3>7 DEF Request, Cell!Next
  <2>7. QED
    BY <2>2, <2>3, <2>4, <2>5, <2>6 DEF Next
<1>3. QED
  BY <1>1, <1>2, SwapInvariant, PTL DEF Spec, ImplementsCell, Cell!Spec

-----------------------------------------------------------------------------
\* What bounds the map: no version has a set before it is stamped, and a swap
\* prunes it down to the versions requests hold, the replaced one and the new.
MapInv ==
  /\ SwapInv /\ ResidentSetsBounded
  /\ \A v \in Resident : v <= stamped

\* The versions requests run under are no more than the requests.
LEMMA HeldVersions ==
  LET held == {snap[r].version : r \in Requests}
  IN IsFiniteSet(held) /\ Cardinality(held) <= Cardinality(Requests)
<1> DEFINE held == {snap[r].version : r \in Requests}
           f == [r \in Requests |-> snap[r].version]
<1>1. f \in Surjection(Requests, held)
  BY DEF Surjection
<1>2. IsFiniteSet(Requests)
  BY HotSwapAssumption DEF HotSwapAssumption
<1> HIDE DEF f, held
<1>3. IsFiniteSet(held) /\ Cardinality(held) <= Cardinality(Requests)
  BY <1>1, <1>2, FS_Surjection
<1>4. QED
  BY <1>3 DEF held

\* A set of at most the held versions and two more.
LEMMA AtMostTwoMore ==
  ASSUME NEW S, NEW T, NEW a, NEW b, IsFiniteSet(T), S \subseteq T \cup {a, b}
  PROVE  IsFiniteSet(S) /\ Cardinality(S) <= Cardinality(T) + 2
<1> DEFINE U == T \cup {a}
           V == U \cup {b}
<1>1. Cardinality(T) \in Nat
  BY FS_CardinalityType
<1>2. IsFiniteSet(U) /\ Cardinality(U) <= Cardinality(T) + 1
  BY <1>1, FS_AddElement
<1>3. Cardinality(U) \in Nat
  BY <1>2, FS_CardinalityType
<1>4. S \in SUBSET V
  OBVIOUS
<1> HIDE DEF U
<1>5. IsFiniteSet(V) /\ Cardinality(V) <= Cardinality(U) + 1
  <2>1. /\ IsFiniteSet(U \cup {b})
        /\ Cardinality(U \cup {b}) = IF b \in U THEN Cardinality(U) ELSE Cardinality(U) + 1
    BY <1>2, FS_AddElement
  <2>2. QED
    BY <2>1, <1>3
<1>6. Cardinality(V) \in Nat
  BY <1>5, FS_CardinalityType
<1> HIDE DEF V
<1>7. IsFiniteSet(S) /\ Cardinality(S) <= Cardinality(V)
  BY <1>4, <1>5, FS_Subset
<1>8. Cardinality(S) \in Nat
  BY <1>7, FS_CardinalityType
<1>9. QED
  BY <1>1, <1>2, <1>3, <1>5, <1>6, <1>7, <1>8

\* The retain of a swap.
LEMMA OnSwapPrunes ==
  ASSUME MapInv, TypeOK', NEW t \in Triggers, OnSwap(t)
  PROVE  ResidentSetsBounded' /\ \A v \in Resident' : v <= stamped'
<1> USE DEF MapInv, SwapInv
<1>1. lock = t /\ pending[t].version = stamped /\ stamped' = stamped
  BY HotSwapAssumption DEF LockInv, PendingInv, OnSwap
<1>2. stamped \in Versions /\ cell.version \in Versions /\ Versions \subseteq Int
  BY DEF TypeOK, Snapshots, Versions
<1>3. pending[t].content \in Contents /\ Missing \notin Contents
  BY HotSwapAssumption DEF HotSwapAssumption, TypeOK, Snapshots
<1>4. \A v \in Versions :
        byVersion'[v] = IF v = stamped THEN pending[t].content
                        ELSE IF Kept(v, stamped) THEN byVersion[v] ELSE Missing
  BY <1>1 DEF OnSwap
<1>5. UNCHANGED <<rpc, snap, mods>>
  BY DEF OnSwap, reqVars
<1>6. \A r \in Requests : \A v \in Versions : Holds(r, v)' => v \in Resident'
  <2> SUFFICES ASSUME NEW r \in Requests, NEW v \in Versions, Holds(r, v)
               PROVE  byVersion'[v] # Missing
    BY <1>5 DEF Holds, Resident
  <2>1. byVersion[v] # Missing
    BY DEF ResidentSetsBounded, Resident
  <2>2. Kept(v, stamped)
    BY DEF Kept
  <2>3. QED
    BY <1>3, <1>4, <2>1, <2>2
<1>7. \A v \in Resident' : v <= stamped'
  BY <1>1, <1>2, <1>4 DEF Resident
<1>8. Cardinality(Resident') <= Cardinality(Requests) + 2
  <2> DEFINE held == {snap[r].version : r \in Requests}
  <2>1. Resident' \subseteq held \cup {cell.version, stamped}
    <3> SUFFICES ASSUME NEW v \in Resident', v # stamped, v # cell.version
                 PROVE  v \in held
      OBVIOUS
    <3>1. v \in Versions /\ Kept(v, stamped) /\ v < stamped
      BY <1>1, <1>2, <1>4, <1>7 DEF Resident
    <3>2. PICK r \in Requests : Holds(r, v)
      BY <1>2, <3>1 DEF Kept
    <3>3. QED
      BY <3>2 DEF Holds
  <2>2. IsFiniteSet(held) /\ Cardinality(held) <= Cardinality(Requests)
    BY HeldVersions
  <2>3. Cardinality(held) \in Nat /\ Cardinality(Requests) \in Nat
    BY <2>2, FS_CardinalityType, HotSwapAssumption DEF HotSwapAssumption
  <2> HIDE DEF held
  <2>4. IsFiniteSet(Resident') /\ Cardinality(Resident') <= Cardinality(held) + 2
    BY <2>1, <2>2, AtMostTwoMore
  <2>5. Cardinality(Resident') \in Nat
    BY <2>4, FS_CardinalityType
  <2>6. QED
    BY <2>2, <2>3, <2>4, <2>5
<1>9. QED
  BY <1>6, <1>7, <1>8 DEF ResidentSetsBounded

\* Every other step leaves the map alone, and a request that binds a set of
\* the map binds a resident one.
LEMMA NextMapInv == MapInv /\ [Next]_vars => MapInv'
<1> SUFFICES ASSUME MapInv, [Next]_vars PROVE MapInv'
  OBVIOUS
<1> USE DEF MapInv
<1>1. SwapInv' /\ TypeOK'
  BY NextSwapInv DEF SwapInv
<1>2. ASSUME UNCHANGED byVersion, stamped' >= stamped,
             \A r \in Requests : \A v \in Versions : Holds(r, v)' => Holds(r, v) \/ v \in Resident
      PROVE  MapInv'
  <2>1. Resident' = Resident
    BY <1>2 DEF Resident
  <2>2. \A v \in Resident' : v <= stamped'
    BY <1>1, <1>2, <2>1 DEF Resident, Versions, SwapInv, TypeOK
  <2>3. QED
    BY <1>1, <1>2, <2>1, <2>2 DEF ResidentSetsBounded
<1>3. stamped \in Int
  BY DEF SwapInv, TypeOK, Versions
<1>4. CASE UNCHANGED vars
  BY <1>2, <1>3, <1>4 DEF vars, reloadVars, bindVars, reqVars, Holds
<1>5. CASE (\E c \in Contents : EditFile(c)) \/ StartWatcher \/ PollTick \/ Hangup
           \/ BreakGlass \/ PinLapses
  BY <1>2, <1>3, <1>5
     DEF EditFile, StartWatcher, PollTick, Hangup, BreakGlass, PinLapses,
         reloadVars, bindVars, reqVars, Holds
<1>6. ASSUME NEW t \in Triggers, Reload(t) PROVE MapInv'
  <2>1. CASE ReloadReturns(t) \/ Render(t) \/ HookFails(t) \/ Store(t)
    BY <1>2, <1>3, <2>1 DEF ReloadReturns, Render, HookFails, Store, bindVars, reqVars, Holds
  <2>2. CASE OnSwap(t)
    BY <1>1, <2>2, OnSwapPrunes
  <2>3. QED
    BY <1>6, <2>1, <2>2 DEF Reload
<1>7. ASSUME NEW r \in Requests, Request(r) PROVE MapInv'
  <2>1. UNCHANGED <<byVersion, stamped>>
    BY <1>7 DEF Request, LoadSnapshot, BindModules, ReadGate, Finish, bindVars, reloadVars
  <2>2. SUFFICES ASSUME NEW q \in Requests, NEW v \in Versions, Holds(q, v)'
                 PROVE  Holds(q, v) \/ v \in Resident
    BY <1>2, <1>3, <2>1
  <2> USE DEF Holds, SwapInv, TypeOK
  <2>3. CASE LoadSnapshot(r)
    BY <2>2, <2>3 DEF LoadSnapshot
  <2>4. CASE BindModules(r)
    BY <2>2, <2>4, HotSwapAssumption DEF BindModules, Resident, HotSwapAssumption
  <2>5. CASE ReadGate(r)
    BY <2>2, <2>5 DEF ReadGate
  <2>6. CASE Finish(r)
    BY <2>2, <2>6 DEF Finish
  <2>7. QED
    BY <1>7, <2>3, <2>4, <2>5, <2>6 DEF Request
<1>8. QED
  BY <1>4, <1>5, <1>6, <1>7 DEF Next

\* At the start only version 1 has a set, and nothing is held.
LEMMA InitMapInv == Init => MapInv
<1> SUFFICES ASSUME Init PROVE MapInv
  OBVIOUS
<1>1. Resident \subseteq {} \cup {1, 1}
  BY DEF Init, Resident
<1>2. Cardinality(Resident) <= 0 + 2 /\ IsFiniteSet(Resident)
  BY <1>1, AtMostTwoMore, FS_EmptySet
<1>3. Cardinality(Requests) \in Nat /\ Cardinality(Resident) \in Nat
  BY <1>2, FS_CardinalityType, HotSwapAssumption DEF HotSwapAssumption
<1>4. ResidentSetsBounded
  BY <1>2, <1>3 DEF ResidentSetsBounded, Holds, Init
<1>5. QED
  BY <1>1, <1>4, InitSwapInv DEF MapInv, Init

\* However many reloads a process sees, the map holds at most two module sets
\* more than there are requests, among them the set of every request that
\* still drains.
THEOREM ResidentBound == Spec => []ResidentSetsBounded
<1>1. MapInv => ResidentSetsBounded
  BY DEF MapInv
<1>2. QED
  BY InitMapInv, NextMapInv, <1>1, PTL DEF Spec
=============================================================================
