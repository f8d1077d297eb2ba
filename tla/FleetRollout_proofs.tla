-------------------------- MODULE FleetRollout_proofs --------------------------
(***************************************************************************)
(* Theorems about FleetRollout, for any nodes, commits, wave plan, queue    *)
(* capacity, edits and faults.                                             *)
(***************************************************************************)
EXTENDS FleetRollout, SequenceTheorems, WellFoundedInduction, TLAPS

(***************************************************************************)
(* The operators the model is built from.                                  *)
(***************************************************************************)

\* First: the least element of a set of naturals.
LEMMA FirstIsLeast ==
  ASSUME NEW S \in SUBSET Nat, S # {}
  PROVE  First(S) \in S /\ \A y \in S : First(S) <= y
<1> DEFINE R == {ss \in Nat \X Nat : ss[1] < ss[2]}
<1>1. IsWellFoundedOn(R, Nat)
  <2>1. R = OpToRel(<, Nat)
    BY Zenon DEF OpToRel
  <2> QED BY <2>1, NatLessThanWellFounded
<1>2. PICK x \in S : \A y \in S : ~(<<y, x>> \in R)
  <2> HIDE DEF R
  <2> QED BY <1>1, WFMin
<1>3. ASSUME NEW y \in S PROVE x <= y
  <2>1. ~(<<y, x>>[1] < <<y, x>>[2])
    BY <1>2, Zenon
  <2>2. ~(y < x)
    BY <2>1
  <2> QED BY <2>2, SMT
<1> QED BY <1>3 DEF First

LEMMA WaveIndicesNat ==
  WaveIndices \subseteq Nat /\ 0 \notin WaveIndices /\ Len(Waves) + 1 \in WaveIndices
<1>1. Len(Waves) \in Nat
  BY FleetAssumption, LenProperties
<1> QED BY <1>1, SMT DEF WaveIndices

\* Every node has a wave: the last one takes whoever no selector matches.
LEMMA WaveOfNode == \A n \in Nodes : WaveOf(n) \in WaveIndices
<1> SUFFICES ASSUME NEW n \in Nodes PROVE WaveOf(n) \in WaveIndices
  OBVIOUS
<1> DEFINE S == {w \in 1 .. Len(Waves) : n \in Waves[w]} \cup {Len(Waves) + 1}
<1>1. Len(Waves) \in Nat
  BY FleetAssumption, LenProperties
<1>2. S \subseteq WaveIndices /\ S # {}
  BY <1>1, SMT DEF WaveIndices
<1>3. S \in SUBSET Nat
  BY <1>2, WaveIndicesNat
<1>4. First(S) \in S
  <2> HIDE DEF S
  <2> QED BY <1>2, <1>3, FirstIsLeast
<1> QED BY <1>2, <1>4 DEF WaveOf

LEMMA AssignType ==
  \A connected \in SUBSET Nodes :
    Assign(connected) \in [WaveIndices -> SUBSET Nodes]
  BY DEF Assign

LEMMA RendersType ==
  ASSUME NEW c \in Commits
  PROVE  /\ Base(c) \in Renders
         /\ \A n \in Nodes : Rendered(c, n) \in Renders
  BY DEF Base, Rendered, Renders

LEMMA NoWalkType == NoWalk \in Walks
  BY DEF NoWalk, Walks

LEMMA NoPushType == NoPush \in Slots
  BY DEF NoPush, Slots, SlotStates

\* Onward ends the walk or takes it to a later wave that has nodes, with
\* everything else of the walk as it was.
LEMMA OnwardGoesOn ==
  ASSUME NEW k \in Walks, NEW f \in Fleets
  PROVE  \/ Onward(k, f) = NoWalk
         \/ /\ Onward(k, f) \in Walks
            /\ Onward(k, f).pc = "pushing"
            /\ Onward(k, f).wave \in WaveIndices
            /\ Onward(k, f).target = k.target
            /\ Onward(k, f).prior = k.prior
            /\ Onward(k, f).assigned = k.assigned
<1> DEFINE rest == {w \in WaveIndices : w > k.wave /\ k.assigned[w] # {}}
<1>1. CASE rest = {}
  BY <1>1 DEF Onward
<1>2. CASE rest # {}
  <2>1. First(rest) \in WaveIndices
    <3>1. rest \in SUBSET Nat
      BY WaveIndicesNat
    <3>2. First(rest) \in rest
      <4> HIDE DEF rest
      <4> QED BY <1>2, <3>1, FirstIsLeast
    <3> QED BY <3>2
  <2>2. Onward(k, f) = [k EXCEPT !.pc = "pushing", !.wave = First(rest),
                                 !.version = f.committed, !.frozen = Nothing]
    BY <1>2 DEF Onward
  <2>3. f.committed \in Nat
    BY DEF Fleets
  <2> HIDE DEF rest
  <2> QED BY <2>1, <2>2, <2>3 DEF Walks, InWalk
<1> QED BY <1>1, <1>2

\* A number is never handed out twice for different renders, and only grows.
LEMMA NextVersionGrows ==
  ASSUME NEW f \in Fleets, NEW n \in Nodes, NEW r \in Renders,
         NEW g, g = NextVersionFor(f, n, r)
  PROVE  /\ g \in Fleets
         /\ g.applied = f.applied /\ g.waveCommit = f.waveCommit
         /\ g.perNode[n].hash = r
         /\ \A m \in Nodes \ {n} : g.perNode[m] = f.perNode[m]
         /\ \/ g.perNode[n] = f.perNode[n]
            \/ g.perNode[n].version = f.perNode[n].version + 1
<1>1. CASE f.perNode[n].hash = r
  BY <1>1 DEF NextVersionFor
<1>2. CASE f.perNode[n].hash # r
  <2> DEFINE q == [version |-> f.perNode[n].version + 1, hash |-> r]
  <2>1. g = [f EXCEPT !.perNode[n] = q]
    BY <1>2 DEF NextVersionFor
  <2>2. f.perNode \in [Nodes -> [version : Nat, hash : Renders \cup {Nothing}]]
    BY DEF Fleets
  <2>3. q \in [version : Nat, hash : Renders \cup {Nothing}]
    BY <2>2
  <2>4. g.perNode = [f.perNode EXCEPT ![n] = q]
    BY <2>1 DEF Fleets
  <2>5. /\ g.perNode \in [Nodes -> [version : Nat, hash : Renders \cup {Nothing}]]
        /\ g.perNode[n] = q
        /\ \A m \in Nodes \ {n} : g.perNode[m] = f.perNode[m]
    <3> HIDE DEF q
    <3> QED BY <2>2, <2>3, <2>4
  <2>6. g \in Fleets /\ g.applied = f.applied /\ g.waveCommit = f.waveCommit
    <3> HIDE DEF q
    <3> QED BY <2>1, <2>4, <2>5 DEF Fleets
  <2> QED BY <2>5, <2>6
<1> QED BY <1>1, <1>2

LEMMA SetWaveCommitType ==
  ASSUME NEW f \in Fleets, NEW w \in WaveIndices, NEW c \in Commits \cup {Nothing}
  PROVE  /\ SetWaveCommit(f, w, c) \in Fleets
         /\ SetWaveCommit(f, w, c).applied = f.applied
         /\ SetWaveCommit(f, w, c).perNode = f.perNode
         /\ SetWaveCommit(f, w, c).waveCommit = [f.waveCommit EXCEPT ![w] = c]
  BY DEF SetWaveCommit, Fleets

\* A stream's queue is handled from both ends.
LEMMA QueueEnds ==
  ASSUME NEW S, NEW s \in Seq(S)
  PROVE  /\ \A x \in Range(s) : x \in S
         /\ s # <<>> => /\ Head(s) \in Range(s)
                        /\ Tail(s) \in Seq(S)
                        /\ Range(Tail(s)) \subseteq Range(s)
         /\ \A x \in S : /\ Append(s, x) \in Seq(S)
                         /\ Range(Append(s, x)) = Range(s) \cup {x}
         /\ <<>> \in Seq(S) /\ Range(<<>>) = {}
<1>1. Range(s) \subseteq S /\ Range(s) = {s[i] : i \in 1 .. Len(s)} /\ Len(s) \in Nat
  BY RangeOfSeq, RangeEquality, LenProperties
<1>2. ASSUME s # <<>>
      PROVE  /\ Head(s) \in Range(s)
             /\ Tail(s) \in Seq(S)
             /\ Range(Tail(s)) \subseteq Range(s)
  <2>1. Tail(s) \in Seq(S) /\ Len(Tail(s)) = Len(s) - 1
        /\ \A i \in 1 .. Len(Tail(s)) : Tail(s)[i] = s[i + 1]
    BY <1>2, HeadTailProperties
  <2>2. 1 \in 1 .. Len(s) /\ Head(s) = s[1]
    BY <1>2, <1>1, EmptySeq, SMT
  <2>3. Range(Tail(s)) = {Tail(s)[i] : i \in 1 .. Len(Tail(s))}
    BY <2>1, RangeEquality
  <2>4. \A i \in 1 .. Len(Tail(s)) : i + 1 \in 1 .. Len(s)
    BY <1>1, <2>1, SMT
  <2> QED BY <1>1, <2>1, <2>2, <2>3, <2>4
<1>3. ASSUME NEW x \in S
      PROVE  Append(s, x) \in Seq(S) /\ Range(Append(s, x)) = Range(s) \cup {x}
  <2> DEFINE q == Append(s, x)
  <2>1. /\ q \in Seq(S) /\ Len(q) = Len(s) + 1
        /\ \A i \in 1 .. Len(s) : q[i] = s[i]
        /\ q[Len(s) + 1] = x
    BY AppendProperties
  <2> HIDE DEF q
  <2>2. Range(q) = {q[i] : i \in 1 .. Len(q)}
    BY <2>1, RangeEquality
  <2>3. 1 .. Len(q) = (1 .. Len(s)) \cup {Len(s) + 1}
    BY <1>1, <2>1, SMT
  <2>4. Range(q) = Range(s) \cup {x}
    BY <1>1, <2>1, <2>2, <2>3
  <2> QED BY <2>1, <2>4 DEF q
<1>4. <<>> \in Seq(S) /\ Range(<<>>) = {}
  <2>1. <<>> \in Seq(S) /\ Len(<<>>) = 0
    BY EmptySeq
  <2>2. Range(<<>>) = {<<>>[i] : i \in 1 .. Len(<<>>)}
    BY <2>1, RangeEquality
  <2>3. 1 .. Len(<<>>) = {}
    BY <2>1, SMT
  <2> QED BY <2>1, <2>2, <2>3
<1> QED BY <1>1, <1>2, <1>3, <1>4

LEMMA RangeOfOne == \A x : Range(<<x>>) = {x}
<1> SUFFICES ASSUME NEW x PROVE Range(<<x>>) = {x}
  OBVIOUS
<1>1. <<x>> \in Seq({x}) /\ Len(<<x>>) = 1 /\ <<x>>[1] = x
  BY SMT
<1>2. Range(<<x>>) = {<<x>>[i] : i \in 1 .. Len(<<x>>)}
  BY <1>1, RangeEquality
<1>3. 1 .. Len(<<x>>) = {1}
  BY <1>1, SMT
<1> QED BY <1>1, <1>2, <1>3

(***************************************************************************)
(* Types. What TypeOK leaves out is what the steps take from the queues and *)
(* the slots: every push and every acknowledgement names a real render, and *)
(* a walk past its resolution knows its commits and its wave.               *)
(***************************************************************************)

Pushed == [version : Nat, render : Renders]
Messages ==
  [kind : {"ack", "status"}, version : Nat, render : Renders]
  \cup [kind : {"nack"}, version : Nat, render : {Nothing}]

StreamTypes ==
  down \in [Nodes -> Seq(Pushed)] /\ up \in [Nodes -> Seq(Messages)]

SlotTypes ==
  \A p \in Pushers, n \in Nodes :
    slot[p][n].state \in {"chosen", "numbered", "waiting"} =>
      slot[p][n].render \in Renders

WalkTypes ==
  \A t \in Triggers :
    /\ walk[t].pc \in InWalk \cup {"applied"} => walk[t].prior \in Commits
    /\ walk[t].pc \in InWalk => /\ walk[t].target \in Commits
                                /\ walk[t].wave \in WaveIndices

SlotInv == slot \in [Pushers -> [Nodes -> Slots]] /\ SlotTypes
WalkInv == walk \in [Triggers -> Walks] /\ WalkTypes
StoreInv == store \in [Nodes -> NodeStates]
RestInv ==
  /\ {repo, polled} \subseteq Commits
  /\ session \cup ending \cup link \subseteq Nodes
  /\ running \in [Nodes -> Renders \cup {Nothing}]

TypeInv ==
  fleet \in Fleets /\ SlotInv /\ WalkInv /\ StoreInv /\ StreamTypes /\ RestInv

LEMMA TypeInvInit == Init => TypeInv
<1> SUFFICES ASSUME Init PROVE TypeInv
  OBVIOUS
<1> USE FleetAssumption DEF Init
<1>1. fleet \in Fleets
  BY RendersType DEF Fleets
<1>2. SlotInv
  BY NoPushType DEF SlotInv, SlotTypes, NoPush
<1>3. WalkInv
  BY NoWalkType DEF WalkInv, WalkTypes, NoWalk, InWalk
<1>4. StoreInv
  BY RendersType DEF StoreInv, NodeStates
<1>5. StreamTypes
  BY EmptySeq DEF StreamTypes
<1>6. RestInv
  BY RendersType DEF RestInv
<1> QED BY <1>1, <1>2, <1>3, <1>4, <1>5, <1>6 DEF TypeInv

\* One slot changed.
LEMMA SlotSet ==
  ASSUME SlotInv, NEW p \in Pushers, NEW n \in Nodes, NEW s \in Slots,
         s.state \in {"chosen", "numbered", "waiting"} => s.render \in Renders,
         slot' = [slot EXCEPT ![p][n] = s]
  PROVE  SlotInv'
  BY DEF SlotInv, SlotTypes

\* Waiters answered, as Deliver and Abandoned do.
AnswerTo(hit, n, answer, ack) ==
  [p \in Pushers |->
     IF p \in hit
       THEN [slot[p] EXCEPT ![n] = Answered(p, @, answer, ack)] ELSE slot[p]]

LEMMA SlotsAnswered ==
  ASSUME SlotInv, NEW n \in Nodes, NEW hit \in SUBSET Pushers,
         NEW answer \in Answers, NEW ack \in Renders \cup {Nothing},
         slot' = AnswerTo(hit, n, answer, ack)
  PROVE  SlotInv'
<1>1. ASSUME NEW p \in Pushers
      PROVE  /\ Answered(p, slot[p][n], answer, ack) \in Slots
             /\ Answered(p, slot[p][n], answer, ack).state \in Answers \cup {"none"}
  <2>1. slot[p][n] \in Slots
    BY DEF SlotInv
  <2> DEFINE s == [slot[p][n] EXCEPT !.state = answer, !.ack = ack]
  <2>2. s \in Slots /\ s.state \in Answers
    BY <2>1 DEF Slots, SlotStates
  <2>3. Answered(p, slot[p][n], answer, ack) \in {s, NoPush}
    BY DEF Answered
  <2> HIDE DEF s
  <2> QED BY <2>2, <2>3, NoPushType DEF NoPush
<1>2. slot' \in [Pushers -> [Nodes -> Slots]]
  BY <1>1 DEF SlotInv, AnswerTo
<1>3. ASSUME NEW p \in Pushers, NEW m \in Nodes
      PROVE  \/ slot'[p][m] = slot[p][m]
             \/ slot'[p][m].state \in Answers \cup {"none"}
  BY <1>1 DEF SlotInv, AnswerTo
<1> QED BY <1>2, <1>3 DEF SlotInv, SlotTypes, Answers

\* A trigger's slots are free again.
LEMMA SlotsCleared ==
  ASSUME SlotInv, NEW t \in Triggers, slot' = Cleared(t)
  PROVE  SlotInv'
  BY NoPushType DEF SlotInv, SlotTypes, Cleared, NoPush, Pushers

\* A walk changed, to one with its commits and wave where it needs them.
LEMMA WalkSet ==
  ASSUME WalkInv, NEW t \in Triggers, NEW k \in Walks,
         k.pc \in InWalk \cup {"applied"} => k.prior \in Commits,
         k.pc \in InWalk => k.target \in Commits /\ k.wave \in WaveIndices,
         walk' = [walk EXCEPT ![t] = k]
  PROVE  WalkInv'
  BY DEF WalkInv, WalkTypes

LEMMA WalkOnward ==
  ASSUME WalkInv, NEW t \in Triggers, NEW k \in Walks, NEW f \in Fleets,
         k.prior \in Commits, k.target \in Commits,
         walk' = [walk EXCEPT ![t] = Onward(k, f)]
  PROVE  WalkInv'
<1>1. CASE Onward(k, f) = NoWalk
  BY <1>1, NoWalkType, WalkSet DEF NoWalk, InWalk
<1>2. CASE Onward(k, f) # NoWalk
  BY <1>2, OnwardGoesOn, WalkSet
<1> QED BY <1>1, <1>2

\* The triggers' steps, one by one.
LEMMA RolloutTypes ==
  ASSUME TypeInv, NEW t \in Triggers, Rollout(t)
  PROVE  TypeInv'
<1> USE DEF history, network
<1>0. walk[t] \in Walks /\ t \in Pushers
  BY DEF TypeInv, WalkInv, Pushers
<1>1. CASE Start(t)
  <2>1. walk' = [walk EXCEPT ![t] = [walk[t] EXCEPT !.pc = "admitting"]]
    BY <1>1 DEF Start
  <2>2. WalkInv'
    BY <1>0, <2>1, WalkSet DEF Walks, InWalk, TypeInv
  <2>3. RestInv'
    BY <1>1 DEF Start, TypeInv, RestInv
  <2> QED BY <1>1, <2>2, <2>3 DEF Start, TypeInv, SlotInv, SlotTypes, StoreInv, StreamTypes
<1>2. CASE Admit(t)
  <2>1. PICK pc \in {"resolving", "idle"} : walk' = [walk EXCEPT ![t] = [walk[t] EXCEPT !.pc = pc]]
    BY <1>2 DEF Admit
  <2>2. WalkInv'
    BY <1>0, <2>1, WalkSet DEF Walks, InWalk, TypeInv
  <2> QED
    BY <1>2, <2>2 DEF Admit, TypeInv, SlotInv, SlotTypes, StoreInv, StreamTypes, RestInv
<1>3. CASE Resolve(t)
  <2>1. fleet' \in Fleets
    BY <1>3 DEF Resolve, TypeInv, Fleets, RestInv
  <2>2. WalkInv'
    <3>1. CASE repo \in Renderable \ {fleet.applied}
      <4> DEFINE k == [walk[t] EXCEPT !.pc = "applied", !.prior = fleet.applied]
      <4>1. walk' = [walk EXCEPT ![t] = k]
        BY <1>3, <3>1 DEF Resolve
      <4>2. k \in Walks /\ k.pc = "applied" /\ k.prior \in Commits
        BY <1>0 DEF TypeInv, Fleets, Walks
      <4> HIDE DEF k
      <4> QED BY <4>1, <4>2, WalkSet DEF InWalk, TypeInv
    <3>2. CASE repo \notin Renderable \ {fleet.applied}
      BY <1>3, <3>2, WalkSet, NoWalkType DEF Resolve, NoWalk, InWalk, TypeInv
    <3> QED BY <3>1, <3>2
  <2> QED BY <1>3, <2>1, <2>2 DEF Resolve, TypeInv, SlotInv, SlotTypes, StoreInv,
                                  StreamTypes, RestInv
<1>4. CASE Begin(t)
  <2> DEFINE k == [walk[t] EXCEPT !.target = fleet.applied, !.assigned = Assign(session)]
  <2>1. walk' = [walk EXCEPT ![t] = Onward(k, fleet)]
    BY <1>4 DEF Begin
  <2>2. k \in Walks /\ k.prior \in Commits /\ k.target \in Commits
    BY <1>0, <1>4, AssignType DEF Begin, TypeInv, RestInv, WalkInv, WalkTypes, Walks, Fleets
  <2>3. WalkInv'
    <3> HIDE DEF k
    <3> QED BY <2>1, <2>2, WalkOnward DEF TypeInv
  <2> QED BY <1>4, <2>3 DEF Begin, TypeInv, SlotInv, SlotTypes, StoreInv, StreamTypes, RestInv
<1>5. CASE ChooseInWalk(t)
  <2> DEFINE fresh == {n \in Rolling(t) : slot[t][n].state = "none"}
             n == First(fresh)
  <2>1. walk[t].pc \in InWalk /\ fresh # {}
    BY <1>5 DEF ChooseInWalk, InWalk
  <2>2. Rolling(t) \subseteq Nodes /\ walk[t].prior \in Commits
    BY <1>0, <2>1 DEF Rolling, Walks, TypeInv, WalkInv, WalkTypes
  <2>3. n \in Nodes
    <3>1. fresh \in SUBSET Nat
      BY <2>2, FleetAssumption
    <3>2. n \in fresh
      <4> HIDE DEF fresh
      <4> QED BY <2>1, <3>1, FirstIsLeast
    <3> QED BY <3>2, <2>2
  <2>4. \E r \in Renders : slot' = [slot EXCEPT ![t][n] = Chosen(r)]
    <3>1. DesiredFor(fleet, n) \in Renders /\ Base(walk[t].prior) \in Renders
      BY <2>2, <2>3, RendersType DEF DesiredFor, TypeInv, Fleets
    <3> QED BY <1>5, <3>1 DEF ChooseInWalk
  <2>5. SlotInv'
    <3>1. PICK r \in Renders : slot' = [slot EXCEPT ![t][n] = Chosen(r)]
      BY <2>4
    <3>2. Chosen(r) \in Slots /\ Chosen(r).render \in Renders
      BY DEF Chosen, NoPush, Slots, SlotStates
    <3> HIDE DEF n
    <3> QED BY <1>0, <2>3, <3>1, <3>2, SlotSet DEF TypeInv
  <2> QED BY <1>5, <2>5 DEF ChooseInWalk, TypeInv, WalkInv, WalkTypes, StoreInv,
                            StreamTypes, RestInv
<1>6. CASE Conclude(t)
  <2> DEFINE k == walk[t]
             f == [fleet EXCEPT !.committed = k.version]
  <2>1. k.target \in Commits /\ k.prior \in Commits /\ k.wave \in WaveIndices
    BY <1>6 DEF Conclude, TypeInv, WalkInv, WalkTypes, InWalk
  <2>2. f \in Fleets
    BY <1>0 DEF TypeInv, Fleets, Walks
  <2>3. fleet' \in Fleets
    <3> HIDE DEF f
    <3>1. SetWaveCommit(f, k.wave, k.target) \in Fleets
      BY <2>1, <2>2, SetWaveCommitType
    <3> QED BY <1>6, <2>2, <3>1 DEF Conclude, TypeInv, f
  <2>4. WalkInv'
    <3>1. CASE walk' = [walk EXCEPT ![t] = NoWalk]
      BY <3>1, WalkSet, NoWalkType DEF NoWalk, InWalk, TypeInv
    <3>2. CASE walk' = [walk EXCEPT ![t] =
                 [@ EXCEPT !.pc = "analyzing", !.frozen = fleet.waveCommit[k.wave]]]
      <4> DEFINE j == [k EXCEPT !.pc = "analyzing", !.frozen = fleet.waveCommit[k.wave]]
      <4>1. j \in Walks /\ j.prior = k.prior /\ j.target = k.target /\ j.wave = k.wave
        BY <1>0, <2>1 DEF Walks, InWalk, TypeInv, Fleets
      <4>2. walk' = [walk EXCEPT ![t] = j]
        BY <3>2
      <4> HIDE DEF j
      <4> QED BY <2>1, <4>1, <4>2, WalkSet DEF TypeInv
    <3>3. CASE walk' = [walk EXCEPT ![t] = Onward(@, f)]
      <4>1. walk' = [walk EXCEPT ![t] = Onward(k, f)]
        BY <3>3
      <4> HIDE DEF f
      <4> QED BY <1>0, <2>1, <2>2, <4>1, WalkOnward DEF TypeInv
    <3> QED BY <1>6, <3>1, <3>2, <3>3 DEF Conclude
  <2>5. SlotInv'
    BY <1>6, SlotsCleared DEF Conclude, TypeInv
  <2> QED BY <1>6, <2>3, <2>4, <2>5 DEF Conclude, TypeInv, StoreInv, StreamTypes, RestInv
<1>7. CASE Pass(t)
  <2> DEFINE k == walk[t]
             f == SetWaveCommit(fleet, k.wave, k.target)
  <2>1. k.target \in Commits /\ k.prior \in Commits /\ k.wave \in WaveIndices
    BY <1>7 DEF Pass, TypeInv, WalkInv, WalkTypes, InWalk
  <2>2. f \in Fleets /\ fleet' = f /\ walk' = [walk EXCEPT ![t] = Onward(k, f)]
    BY <1>7, <2>1, SetWaveCommitType DEF Pass, TypeInv
  <2>3. WalkInv'
    <3> HIDE DEF f
    <3> QED BY <1>0, <2>1, <2>2, WalkOnward DEF TypeInv
  <2> QED BY <1>7, <2>2, <2>3 DEF Pass, TypeInv, SlotInv, SlotTypes, StoreInv,
                                  StreamTypes, RestInv
<1>8. CASE Breach(t)
  <2> DEFINE k == [walk[t] EXCEPT !.pc = "rolling_back"]
  <2>1. /\ walk[t].target \in Commits /\ walk[t].prior \in Commits
        /\ walk[t].wave \in WaveIndices /\ walk[t].frozen \in Commits \cup {Nothing}
    BY <1>0, <1>8 DEF Breach, TypeInv, WalkInv, WalkTypes, InWalk, Walks
  <2>2. fleet' \in Fleets
    BY <1>8, <2>1, SetWaveCommitType DEF Breach, TypeInv
  <2>3. /\ walk' = [walk EXCEPT ![t] = k]
        /\ k \in Walks
        /\ k.target = walk[t].target /\ k.prior = walk[t].prior /\ k.wave = walk[t].wave
    BY <1>0, <1>8 DEF Breach, Walks, InWalk
  <2>4. WalkInv'
    <3> HIDE DEF k
    <3> QED BY <2>1, <2>3, WalkSet DEF TypeInv
  <2> QED BY <1>8, <2>2, <2>4 DEF Breach, TypeInv, SlotInv, SlotTypes, StoreInv,
                                  StreamTypes, RestInv
<1>9. CASE RolledBack(t)
  <2>1. WalkInv'
    BY <1>9, WalkSet, NoWalkType DEF RolledBack, NoWalk, InWalk, TypeInv
  <2>2. SlotInv'
    BY <1>9, SlotsCleared DEF RolledBack, TypeInv
  <2> QED BY <1>9, <2>1, <2>2 DEF RolledBack, TypeInv, StoreInv, StreamTypes, RestInv
<1> QED BY <1>1, <1>2, <1>3, <1>4, <1>5, <1>6, <1>7, <1>8, <1>9 DEF Rollout

\* The steps of a push.
LEMMA PushTypes ==
  ASSUME TypeInv, NEW p \in Pushers, NEW n \in Nodes, Push(p, n)
  PROVE  TypeInv'
<1> USE DEF history, network
<1>0. slot[p][n] \in Slots
  BY DEF TypeInv, SlotInv
<1>1. CASE Number(p, n)
  <2> DEFINE f == NextVersionFor(fleet, n, slot[p][n].render)
             v == f.perNode[n].version
  <2>1. slot[p][n].render \in Renders
    BY <1>1 DEF Number, TypeInv, SlotInv, SlotTypes
  <2>2. f \in Fleets
    BY <2>1, NextVersionGrows DEF TypeInv
  <2>3. v \in Nat
    <3> HIDE DEF f
    <3> QED BY <2>2 DEF Fleets
  <2>4. SlotInv'
    <3> DEFINE s == [slot[p][n] EXCEPT !.state = "numbered", !.version = v]
    <3>1. slot' = [slot EXCEPT ![p][n] = s]
      BY <1>1, <1>0 DEF Number, TypeInv, SlotInv
    <3> HIDE DEF v
    <3>2. s \in Slots /\ s.render = slot[p][n].render
      BY <1>0, <2>3 DEF Slots, SlotStates
    <3> HIDE DEF s
    <3> QED BY <2>1, <3>1, <3>2, SlotSet DEF TypeInv
  <2>5. WalkInv'
    <3>1. CASE p \in Triggers
      <4> DEFINE w == IF v > walk[p].version THEN v ELSE walk[p].version
                 k == [walk[p] EXCEPT !.version = w]
      <4>1. walk' = [walk EXCEPT ![p] = k]
        BY <1>1, <3>1 DEF Number, TypeInv, WalkInv
      <4> HIDE DEF v
      <4>2. walk[p] \in Walks /\ w \in Nat
        BY <2>3, <3>1 DEF TypeInv, WalkInv, Walks
      <4> HIDE DEF w
      <4>3. /\ k \in Walks /\ k.pc = walk[p].pc /\ k.prior = walk[p].prior
            /\ k.target = walk[p].target /\ k.wave = walk[p].wave
        BY <4>2 DEF Walks
      <4> HIDE DEF k
      <4> QED BY <3>1, <4>1, <4>3, WalkSet DEF TypeInv, WalkInv, WalkTypes
    <3>2. CASE p \notin Triggers
      BY <1>1, <3>2 DEF Number, TypeInv, WalkInv, WalkTypes
    <3> QED BY <3>1, <3>2
  <2> QED BY <1>1, <2>2, <2>4, <2>5 DEF Number, TypeInv, StoreInv, StreamTypes, RestInv
<1>2. CASE Send(p, n)
  <2> DEFINE s == slot[p][n]
  <2>1. s.render \in Renders /\ s.version \in Nat
    BY <1>0, <1>2 DEF Send, TypeInv, SlotInv, SlotTypes, Slots
  <2>2. SlotInv'
    <3>1. PICK x : slot' = [slot EXCEPT ![p][n] = x]
                   /\ x \in {NoPush, [s EXCEPT !.state = "waiting"],
                             Answered(p, s, "silent", Nothing)}
      BY <1>2 DEF Send
    <3>2. x \in Slots /\ (x.state \in {"chosen", "numbered", "waiting"} => x.render \in Renders)
      <4>1. /\ [s EXCEPT !.state = "waiting"] \in Slots
            /\ [s EXCEPT !.state = "waiting"].render = s.render
        BY <1>0 DEF Slots, SlotStates
      <4>2. /\ Answered(p, s, "silent", Nothing) \in Slots
            /\ Answered(p, s, "silent", Nothing).state \in {"silent", "none"}
        BY <1>0, NoPushType DEF Answered, NoPush, Slots, SlotStates, Answers
      <4>3. NoPush.state = "none"
        BY DEF NoPush
      <4> QED BY <2>1, <3>1, <4>1, <4>2, <4>3, NoPushType
    <3> QED BY <3>1, <3>2, SlotSet DEF TypeInv
  <2>3. down' \in [Nodes -> Seq(Pushed)]
    <3> DEFINE x == [version |-> s.version, render |-> s.render]
               q == Append(down[n], x)
    <3>1. x \in Pushed
      BY <2>1 DEF Pushed
    <3>2. q \in Seq(Pushed)
      <4> HIDE DEF x
      <4> QED BY <3>1, QueueEnds DEF TypeInv, StreamTypes
    <3>3. down' \in {down, [down EXCEPT ![n] = q]}
      BY <1>2 DEF Send, TypeInv, StreamTypes
    <3> HIDE DEF q
    <3> QED BY <3>2, <3>3 DEF TypeInv, StreamTypes
  <2> QED BY <1>2, <2>2, <2>3 DEF Send, TypeInv, WalkInv, WalkTypes, StoreInv,
                                  StreamTypes, RestInv
<1>3. CASE TimeOut(p, n)
  <2>1. /\ Answered(p, slot[p][n], "silent", Nothing) \in Slots
        /\ Answered(p, slot[p][n], "silent", Nothing).state \in {"silent", "none"}
    BY <1>0, NoPushType DEF Answered, NoPush, Slots, SlotStates, Answers
  <2>2. slot' = [slot EXCEPT ![p][n] = Answered(p, slot[p][n], "silent", Nothing)]
    BY <1>3 DEF TimeOut
  <2>3. SlotInv'
    BY <2>1, <2>2, SlotSet DEF TypeInv
  <2> QED BY <1>3, <2>3 DEF TimeOut, TypeInv, WalkInv, WalkTypes, StoreInv, StreamTypes,
                            RestInv
<1> QED BY <1>1, <1>2, <1>3 DEF Push

\* A node's stream, lost or answering.
LEMMA AbandonedTypes ==
  ASSUME SlotInv, NEW n \in Nodes, slot' = Abandoned(n)
  PROVE  SlotInv'
<1> DEFINE hit == {p \in Pushers : slot[p][n].state = "waiting"}
<1>1. slot' = AnswerTo(hit, n, "silent", Nothing)
  BY DEF Abandoned, AnswerTo
<1> HIDE DEF hit
<1>2. hit \in SUBSET Pushers
  BY DEF hit
<1> QED BY <1>1, <1>2, SlotsAnswered DEF Answers

LEMMA DeliverTypes ==
  ASSUME SlotInv, NEW n \in Nodes, NEW v, NEW answer \in Answers,
         NEW ack \in Renders \cup {Nothing}, slot' = Deliver(n, v, answer, ack)
  PROVE  SlotInv'
<1> DEFINE hit == {p \in Pushers : slot[p][n].state = "waiting" /\ slot[p][n].version = v}
<1>1. slot' = AnswerTo(hit, n, answer, ack)
  BY DEF Deliver, AnswerTo
<1> HIDE DEF hit
<1>2. hit \in SUBSET Pushers
  BY DEF hit
<1> QED BY <1>1, <1>2, SlotsAnswered

LEMMA StreamStepTypes ==
  ASSUME TypeInv, NEW n \in Nodes, Stream(n)
  PROVE  TypeInv'
<1> USE DEF history
<1>0. /\ down[n] \in Seq(Pushed) /\ up[n] \in Seq(Messages)
      /\ <<>> \in Seq(Pushed) /\ <<>> \in Seq(Messages)
  BY EmptySeq DEF TypeInv, StreamTypes
<1>1. CASE Drop(n)
  BY <1>0, <1>1 DEF Drop, Lost, Fault, control, TypeInv, SlotInv, SlotTypes, WalkInv,
                    WalkTypes, StoreInv, StreamTypes, RestInv
<1>2. CASE Crash(n)
  BY <1>0, <1>2 DEF Crash, Lost, Fault, control, TypeInv, SlotInv, SlotTypes, WalkInv,
                    WalkTypes, StoreInv, StreamTypes, RestInv
<1>3. CASE Teardown(n)
  <2>1. SlotInv'
    BY <1>3, AbandonedTypes DEF Teardown, TypeInv
  <2>2. StoreInv'
    BY <1>3 DEF Teardown, TypeInv, StoreInv, NodeStates
  <2> QED BY <1>0, <1>3, <2>1, <2>2 DEF Teardown, TypeInv, WalkInv, WalkTypes, StreamTypes,
                                        RestInv
<1>4. CASE Reconnect(n)
  <2> DEFINE r == DesiredFor(fleet, n)
             hit == {p \in Pushers : slot[p][n].state = "waiting"}
             gone == [p \in Pushers |->
                        IF p \in hit
                          THEN [slot[p] EXCEPT ![n] = Answered(p, @, "silent", Nothing)]
                          ELSE slot[p]]
  <2>1. r \in Renders
    BY RendersType DEF DesiredFor, TypeInv, Fleets
  <2>2. gone \in [Pushers -> [Nodes -> Slots]]
    <3>1. ASSUME NEW p \in Pushers PROVE Answered(p, slot[p][n], "silent", Nothing) \in Slots
      <4>1. slot[p][n] \in Slots
        BY DEF TypeInv, SlotInv
      <4>2. [slot[p][n] EXCEPT !.state = "silent", !.ack = Nothing] \in Slots
        BY <4>1 DEF Slots, SlotStates, Answers
      <4> QED BY <4>2, NoPushType DEF Answered
    <3> QED BY <3>1 DEF TypeInv, SlotInv
  <2>3. \A p \in Pushers, m \in Nodes :
          gone[p][m] = slot[p][m] \/ gone[p][m].state \in {"silent", "none"}
    <3>1. \A p \in Pushers : Answered(p, slot[p][n], "silent", Nothing).state \in {"silent", "none"}
      BY DEF Answered, NoPush, Slots, TypeInv, SlotInv
    <3> QED BY <3>1 DEF TypeInv, SlotInv
  <2>4. slot' = [gone EXCEPT !["bootstrap"][n] = Chosen(r)] /\ "bootstrap" \in Pushers
    BY <1>4 DEF Reconnect, Abandoned, Pushers
  <2>5. Chosen(r) \in Slots /\ Chosen(r).render \in Renders
    BY <2>1 DEF Chosen, NoPush, Slots, SlotStates
  <2>6. SlotInv'
    <3> HIDE DEF gone, r
    <3> QED BY <2>2, <2>3, <2>4, <2>5 DEF TypeInv, SlotInv, SlotTypes
  <2>7. StoreInv'
    BY <1>4 DEF Reconnect, TypeInv, StoreInv, NodeStates
  <2> QED BY <1>4, <2>6, <2>7 DEF Reconnect, TypeInv, WalkInv, WalkTypes, StreamTypes,
                                  RestInv
<1>5. CASE Bind(n)
  <2> DEFINE m == Head(down[n])
             a == IF Refuses(n) THEN Answer("nack", m.version, Nothing)
                                ELSE Answer("ack", m.version, m.render)
  <2>1. m \in Pushed /\ Tail(down[n]) \in Seq(Pushed)
    BY <1>0, <1>5, QueueEnds DEF Bind
  <2>2. a \in Messages
    <3> HIDE DEF m
    <3> QED BY <2>1 DEF Answer, Messages, Pushed
  <2>3. Append(up[n], a) \in Seq(Messages)
    <3> HIDE DEF a
    <3> QED BY <1>0, <2>2, QueueEnds
  <2>4. StreamTypes'
    <3>1. down' = [down EXCEPT ![n] = Tail(down[n])] /\ up' = [up EXCEPT ![n] = Append(up[n], a)]
      BY <1>5 DEF Bind
    <3> HIDE DEF a
    <3> QED BY <2>1, <2>3, <3>1 DEF TypeInv, StreamTypes
  <2>5. RestInv'
    <3>1. running' \in {running, [running EXCEPT ![n] = m.render]} /\ m.render \in Renders
      BY <1>5, <2>1 DEF Bind, Pushed
    <3> HIDE DEF m
    <3> QED BY <1>5, <3>1 DEF Bind, control, TypeInv, RestInv
  <2> QED BY <1>5, <2>4, <2>5 DEF Bind, control, TypeInv, SlotInv, SlotTypes, WalkInv,
                                  WalkTypes, StoreInv
<1>6. CASE RefuseFirst(n)
  <2> DEFINE a == Answer("nack", Head(down[n]).version, Nothing)
  <2>1. a \in Messages
    <3>1. Head(down[n]) \in Pushed
      BY <1>0, <1>6, QueueEnds DEF RefuseFirst, Refuses
    <3> QED BY <3>1 DEF Answer, Messages, Pushed
  <2>2. <<a>> \in Seq(Messages)
    <3> HIDE DEF a
    <3> QED BY <2>1, SMT
  <2>3. StreamTypes'
    <3>1. down' = [down EXCEPT ![n] = <<>>] /\ up' = [up EXCEPT ![n] = <<a>>]
      BY <1>6 DEF RefuseFirst, Lost
    <3> HIDE DEF a
    <3> QED BY <1>0, <2>2, <3>1 DEF TypeInv, StreamTypes
  <2> QED BY <1>6, <2>3 DEF RefuseFirst, Lost, control, TypeInv, SlotInv, SlotTypes,
                            WalkInv, WalkTypes, StoreInv, RestInv
<1>7. CASE Heartbeat(n)
  <2> DEFINE a == Answer("status", 0, running[n])
  <2>1. a \in Messages
    BY <1>7 DEF Heartbeat, Answer, Messages, TypeInv, RestInv
  <2>2. <<a>> \in Seq(Messages)
    <3> HIDE DEF a
    <3> QED BY <2>1, SMT
  <2>3. StreamTypes'
    <3>1. down' = down /\ up' = [up EXCEPT ![n] = <<a>>]
      BY <1>7 DEF Heartbeat
    <3> HIDE DEF a
    <3> QED BY <2>2, <3>1 DEF TypeInv, StreamTypes
  <2> QED BY <1>7, <2>3 DEF Heartbeat, control, TypeInv, SlotInv, SlotTypes, WalkInv,
                            WalkTypes, StoreInv, RestInv
<1>8. CASE Receive(n)
  <2> DEFINE m == Head(up[n])
  <2>1. m \in Messages /\ Tail(up[n]) \in Seq(Messages)
    BY <1>0, <1>8, QueueEnds DEF Receive
  <2>2. StreamTypes'
    BY <1>8, <2>1 DEF Receive, TypeInv, StreamTypes
  <2>3. m.render \in Renders \cup {Nothing}
    <3> HIDE DEF m
    <3> QED BY <2>1 DEF Messages
  <2>4. SlotInv'
    BY <1>8, <2>3, DeliverTypes DEF Receive, TypeInv, SlotInv, SlotTypes, Answers
  <2>5. StoreInv'
    <3>1. \A s \in NodeStates : RecordNack(s) \in NodeStates
      BY FleetAssumption DEF RecordNack, NodeStates
    <3>2. /\ store[n] \in NodeStates
          /\ RecordAck(store[n], m.render) \in NodeStates
          /\ [store[n] EXCEPT !.observed = m.render] \in NodeStates
      <4> HIDE DEF m
      <4>1. store[n] \in NodeStates
        BY DEF TypeInv, StoreInv
      <4>2. 0 \in 0 .. NackThreshold
        BY FleetAssumption
      <4>3. [store[n] EXCEPT !.acked = m.render, !.nacks = 0] \in NodeStates
        BY <2>3, <4>1, <4>2 DEF NodeStates
      <4>4. [store[n] EXCEPT !.observed = m.render] \in NodeStates
        BY <2>3, <4>1 DEF NodeStates
      <4> QED BY <4>1, <4>3, <4>4 DEF RecordAck
    <3>3. \E x \in NodeStates : store' = [store EXCEPT ![n] = x]
      BY <1>8, <3>1, <3>2 DEF Receive, TypeInv, StoreInv
    <3> QED BY <3>3 DEF TypeInv, StoreInv
  <2> QED BY <1>8, <2>2, <2>4, <2>5 DEF Receive, TypeInv, WalkInv, WalkTypes, RestInv
<1> QED BY <1>1, <1>2, <1>3, <1>4, <1>5, <1>6, <1>7, <1>8 DEF Stream

LEMMA TypeInvNext ==
  ASSUME TypeInv, [Next]_vars
  PROVE  TypeInv'
<1> USE DEF history, network
<1>1. CASE Edit
  BY <1>1 DEF Edit, control, TypeInv, SlotInv, SlotTypes, WalkInv, WalkTypes, StoreInv,
              StreamTypes, RestInv
<1>2. ASSUME NEW n \in Nodes, Visit(n) \/ ChooseInHeal(n) PROVE TypeInv'
  <2>1. "reconciler" \in Pushers /\ slot["reconciler"][n] \in Slots
    BY DEF Pushers, TypeInv, SlotInv
  <2>2. DesiredFor(fleet, n) \in Renders
    BY RendersType DEF DesiredFor, TypeInv, Fleets
  <2>3. PICK s : slot' = [slot EXCEPT !["reconciler"][n] = s]
                 /\ s \in {[slot["reconciler"][n] EXCEPT !.state = "checked"],
                           Chosen(DesiredFor(fleet, n))}
    BY <1>2, <2>1 DEF Visit, ChooseInHeal, TypeInv, SlotInv
  <2>4. s \in Slots /\ (s.state \in {"chosen", "numbered", "waiting"} => s.render \in Renders)
    <3>1. /\ Chosen(DesiredFor(fleet, n)) \in Slots
          /\ Chosen(DesiredFor(fleet, n)).render = DesiredFor(fleet, n)
      BY <2>2 DEF Chosen, NoPush, Slots, SlotStates
    <3>2. /\ [slot["reconciler"][n] EXCEPT !.state = "checked"] \in Slots
          /\ [slot["reconciler"][n] EXCEPT !.state = "checked"].state = "checked"
      BY <2>1 DEF Slots, SlotStates
    <3> QED BY <2>2, <2>3, <3>1, <3>2
  <2>5. SlotInv'
    BY <2>1, <2>3, <2>4, SlotSet DEF TypeInv
  <2> QED BY <1>2, <2>5 DEF Visit, ChooseInHeal, TypeInv, WalkInv, WalkTypes, StoreInv,
                            StreamTypes, RestInv
<1>3. ASSUME NEW n \in Nodes, BreakGlass(n) PROVE TypeInv'
  <2>1. StoreInv'
    BY <1>3 DEF BreakGlass, TypeInv, StoreInv, NodeStates
  <2> QED BY <1>3, <2>1 DEF BreakGlass, TypeInv, SlotInv, SlotTypes, WalkInv, WalkTypes,
                            StreamTypes, RestInv
<1>4. CASE UNCHANGED vars
  BY <1>4 DEF vars, control, TypeInv, SlotInv, SlotTypes, WalkInv, WalkTypes, StoreInv,
              StreamTypes, RestInv
<1> QED BY <1>1, <1>2, <1>3, <1>4, RolloutTypes, PushTypes, StreamStepTypes DEF Next

\* Types hold throughout (FleetInner, NodeState, Session and the wave walk).
THEOREM RolloutTypesHold == Spec => []TypeOK
<1>1. TypeInv => TypeOK
  BY DEF TypeInv, SlotInv, WalkInv, StoreInv, RestInv, TypeOK
<1> QED BY <1>1, TypeInvInit, TypeInvNext, PTL DEF Spec

(***************************************************************************)
(* Versions. A number and its render travel together: as a node's counter,  *)
(* in a slot, on the stream and back in the acknowledgement. No step makes a *)
(* new pair but next_version_for, whose number is above every one the node   *)
(* was ever handed: that bound is what makes the invariant inductive.        *)
(***************************************************************************)

Claim(x) == [version |-> x.version, render |-> x.render]
Numbered == {"numbered", "waiting"}

VersionInv ==
  \A n \in Nodes :
    /\ \A a \in Claims(n) : a.version <= fleet.perNode[n].version
    /\ \A a, b \in Claims(n) : a.version = b.version => a.render = b.render

LEMMA ClaimsAre ==
  ASSUME NEW n \in Nodes
  PROVE  \A c : c \in Claims(n) <=>
           \/ c = [version |-> fleet.perNode[n].version, render |-> fleet.perNode[n].hash]
           \/ c \in Range(down[n])
           \/ \E m \in Range(up[n]) : m.kind = "ack" /\ c = Claim(m)
           \/ \E p \in Pushers : slot[p][n].state \in Numbered /\ c = Claim(slot[p][n])
  BY Zenon DEF Claims, Claim, Numbered

LEMMA ClaimsNextAre ==
  ASSUME NEW n \in Nodes
  PROVE  \A c : c \in Claims(n)' <=>
           \/ c = [version |-> fleet'.perNode[n].version, render |-> fleet'.perNode[n].hash]
           \/ c \in Range(down'[n])
           \/ \E m \in Range(up'[n]) : m.kind = "ack" /\ c = Claim(m)
           \/ \E p \in Pushers : slot'[p][n].state \in Numbered /\ c = Claim(slot'[p][n])
  BY Zenon DEF Claims, Claim, Numbered

\* Steps that hand out no number: everything they leave was known before.
LEMMA NoNewClaims ==
  ASSUME VersionInv,
         fleet'.perNode = fleet.perNode,
         \A n \in Nodes : \A x \in Range(down'[n]) : x \in Claims(n),
         \A n \in Nodes : \A m \in Range(up'[n]) :
           m.kind = "ack" => Claim(m) \in Claims(n),
         \A p \in Pushers, n \in Nodes :
           slot'[p][n].state \in Numbered => Claim(slot'[p][n]) \in Claims(n)
  PROVE  VersionInv'
<1>1. ASSUME NEW n \in Nodes, NEW c \in Claims(n)' PROVE c \in Claims(n)
  BY ClaimsAre, ClaimsNextAre
<1> QED BY <1>1 DEF VersionInv

\* Most steps only take pushes, answers and waiters away.
LEMMA QuietStep ==
  ASSUME VersionInv,
         fleet'.perNode = fleet.perNode,
         \A n \in Nodes : Range(down'[n]) \subseteq Range(down[n]),
         \A n \in Nodes : \A m \in Range(up'[n]) : m.kind = "ack" => m \in Range(up[n]),
         \A p \in Pushers, n \in Nodes :
           slot'[p][n] = slot[p][n] \/ slot'[p][n].state \notin Numbered
  PROVE  VersionInv'
<1>1. \A n \in Nodes : \A x \in Range(down'[n]) : x \in Claims(n)
  BY ClaimsAre
<1>2. \A n \in Nodes : \A m \in Range(up'[n]) : m.kind = "ack" => Claim(m) \in Claims(n)
  BY ClaimsAre
<1>3. \A p \in Pushers, n \in Nodes :
        slot'[p][n].state \in Numbered => Claim(slot'[p][n]) \in Claims(n)
  BY ClaimsAre
<1> QED BY <1>1, <1>2, <1>3, NoNewClaims

LEMMA VersionInvInit == Init => VersionInv
<1> SUFFICES ASSUME Init, NEW n \in Nodes
             PROVE  Claims(n) = {[version |-> fleet.perNode[n].version,
                                  render |-> fleet.perNode[n].hash]}
                    /\ fleet.perNode[n].version \in Nat
  BY DEF VersionInv
<1>1. Range(down[n]) = {} /\ Range(up[n]) = {}
  BY QueueEnds, EmptySeq DEF Init
<1>2. \A p \in Pushers : slot[p][n].state = "none"
  BY DEF Init, NoPush
<1>3. fleet.perNode[n].version = 1
  BY DEF Init
<1> QED BY <1>1, <1>2, <1>3, ClaimsAre DEF Numbered

LEMMA RolloutVersions ==
  ASSUME TypeInv, VersionInv, NEW t \in Triggers, Rollout(t)
  PROVE  VersionInv'
<1> USE DEF history, network
<1>1. CASE UNCHANGED slot
  <2>1. fleet'.perNode = fleet.perNode /\ UNCHANGED <<down, up>>
    BY <1>1 DEF Rollout, Start, Admit, Resolve, Begin, ChooseInWalk, Conclude, Pass, Breach,
                RolledBack, TypeInv, Fleets, SetWaveCommit
  <2> QED BY <1>1, <2>1, QuietStep
<1>2. CASE ChooseInWalk(t)
  <2>1. \E n, r : slot' = [slot EXCEPT ![t][n] = Chosen(r)]
    BY <1>2, Zenon DEF ChooseInWalk
  <2>2. \A p \in Pushers, n \in Nodes : slot'[p][n] = slot[p][n] \/ slot'[p][n].state = "chosen"
    BY <2>1 DEF Chosen, NoPush, TypeInv, SlotInv
  <2> QED BY <1>2, <2>2, QuietStep DEF ChooseInWalk, Numbered
<1>3. CASE slot' = Cleared(t)
  <2>1. \A p \in Pushers, n \in Nodes : slot'[p][n] = slot[p][n] \/ slot'[p][n].state = "none"
    BY <1>3 DEF Cleared, NoPush, TypeInv, SlotInv
  <2>2. CASE Conclude(t)
    <3>1. fleet'.perNode = fleet.perNode
      BY <2>2 DEF Conclude, TypeInv, Fleets, SetWaveCommit
    <3> QED BY <2>1, <2>2, <3>1, QuietStep DEF Conclude, Numbered
  <2>3. CASE RolledBack(t)
    BY <2>1, <2>3, QuietStep DEF RolledBack, Numbered
  <2> QED BY <1>1, <1>2, <2>2, <2>3 DEF Rollout, Start, Admit, Resolve, Begin, Pass, Breach
<1> QED BY <1>1, <1>2, <1>3 DEF Rollout, Start, Admit, Resolve, Begin, Conclude, Pass,
                                Breach, RolledBack

LEMMA PushVersions ==
  ASSUME TypeInv, VersionInv, NEW p \in Pushers, NEW n \in Nodes, Push(p, n)
  PROVE  VersionInv'
<1> USE DEF history, network
<1>0. slot[p][n] \in Slots
  BY DEF TypeInv, SlotInv
<1>1. CASE Number(p, n)
  <2> DEFINE v == fleet'.perNode[n].version
             r == slot[p][n].render
             own == [version |-> fleet.perNode[n].version, render |-> fleet.perNode[n].hash]
             new == [version |-> v, render |-> r]
  <2>1. r \in Renders
    BY <1>1 DEF Number, TypeInv, SlotInv, SlotTypes
  <2>2. /\ fleet'.perNode[n].hash = r
        /\ \A m \in Nodes \ {n} : fleet'.perNode[m] = fleet.perNode[m]
        /\ \/ fleet'.perNode[n] = fleet.perNode[n]
           \/ v = fleet.perNode[n].version + 1
    BY <1>1, <2>1, NextVersionGrows DEF Number, TypeInv
  <2>3. slot' = [slot EXCEPT ![p][n] = [slot[p][n] EXCEPT !.state = "numbered", !.version = v]]
    BY <1>1, <1>0 DEF Number, TypeInv, SlotInv
  <2>4. \A q \in Pushers, m \in Nodes :
          \/ slot'[q][m] = slot[q][m]
          \/ m = n /\ Claim(slot'[q][m]) = new
    <3> HIDE DEF v
    <3> QED BY <1>0, <2>3 DEF Claim, TypeInv, SlotInv, Slots
  <2>5. \A m \in Nodes : \A c \in Claims(m)' : c \in Claims(m) \/ (m = n /\ c = new)
    <3> SUFFICES ASSUME NEW m \in Nodes, NEW c \in Claims(m)'
                 PROVE  c \in Claims(m) \/ (m = n /\ c = new)
      OBVIOUS
    <3>1. UNCHANGED <<down, up>>
      BY <1>1 DEF Number
    <3>2. CASE c = [version |-> fleet'.perNode[m].version, render |-> fleet'.perNode[m].hash]
      BY <2>2, <3>2, ClaimsAre
    <3>3. CASE c \in Range(down'[m])
      BY <3>1, <3>3, ClaimsAre
    <3>4. CASE \E x \in Range(up'[m]) : x.kind = "ack" /\ c = Claim(x)
      BY <3>1, <3>4, ClaimsAre
    <3>5. CASE \E q \in Pushers : slot'[q][m].state \in Numbered /\ c = Claim(slot'[q][m])
      <4>1. PICK q \in Pushers : slot'[q][m].state \in Numbered /\ c = Claim(slot'[q][m])
        BY <3>5
      <4>2. CASE slot'[q][m] = slot[q][m]
        BY <4>1, <4>2, ClaimsAre
      <4>3. CASE m = n /\ Claim(slot'[q][m]) = new
        BY <4>1, <4>3
      <4> QED BY <2>4, <4>2, <4>3
    <3> QED BY <3>2, <3>3, <3>4, <3>5, ClaimsNextAre
  <2>6. \A m \in Nodes : fleet.perNode[m].version \in Nat
    BY DEF TypeInv, Fleets
  <2>7. \A m \in Nodes : \A c \in Claims(m) :
          c.version \in Nat /\ c.version <= fleet.perNode[m].version
    <3> SUFFICES ASSUME NEW m \in Nodes, NEW c \in Claims(m) PROVE c.version \in Nat
      BY DEF VersionInv
    <3>1. \A x \in Range(down[m]) : x.version \in Nat
      <4>1. \A x \in Range(down[m]) : x \in Pushed
        BY QueueEnds DEF TypeInv, StreamTypes
      <4> QED BY <4>1 DEF Pushed
    <3>2. \A x \in Range(up[m]) : x.version \in Nat
      BY QueueEnds DEF TypeInv, StreamTypes, Messages
    <3>3. \A q \in Pushers : slot[q][m].version \in Nat
      BY DEF TypeInv, SlotInv, Slots
    <3> QED BY <2>6, <3>1, <3>2, <3>3, ClaimsAre DEF Claim
  <2>8. CASE fleet'.perNode[n] = fleet.perNode[n]
    <3>1. new = own /\ own \in Claims(n)
      BY <2>2, <2>8, ClaimsAre
    <3>2. \A m \in Nodes : fleet'.perNode[m] = fleet.perNode[m]
      BY <2>2, <2>8
    <3>3. \A m \in Nodes : \A c \in Claims(m)' : c \in Claims(m)
      BY <2>5, <3>1
    <3> QED BY <3>2, <3>3 DEF VersionInv
  <2>9. CASE v = fleet.perNode[n].version + 1
    <3>1. ASSUME NEW m \in Nodes, NEW c \in Claims(m)'
          PROVE  c.version <= fleet'.perNode[m].version
      <4> HIDE DEF v
      <4>1. CASE m = n /\ c = new
        BY <2>6, <2>9, <4>1 DEF v
      <4>2. CASE c \in Claims(m)
        BY <2>2, <2>6, <2>7, <2>9, <4>2 DEF v
      <4> QED BY <2>5, <4>1, <4>2
    <3>2. ASSUME NEW m \in Nodes, NEW a \in Claims(m)', NEW b \in Claims(m)',
                 a.version = b.version
          PROVE  a.render = b.render
      <4>1. CASE m # n
        BY <2>5, <3>2, <4>1 DEF VersionInv
      <4>2. CASE m = n
        <5> HIDE DEF v
        <5>1. \A c \in Claims(n) : c.version < v
          BY <2>6, <2>7, <2>9
        <5>2. new.version = v /\ v \in Nat
          BY <2>6, <2>9
        <5>3. a \in Claims(n) <=> b \in Claims(n)
          BY <2>5, <2>7, <3>2, <4>2, <5>1, <5>2
        <5> QED BY <2>5, <3>2, <4>2, <5>3 DEF VersionInv
      <4> QED BY <4>1, <4>2
    <3> QED BY <3>1, <3>2 DEF VersionInv
  <2> QED BY <2>2, <2>8, <2>9
<1>2. CASE Send(p, n)
  <2> DEFINE s == slot[p][n]
             x == [version |-> s.version, render |-> s.render]
  <2>1. x \in Claims(n)
    BY <1>2, ClaimsAre DEF Send, Numbered, Claim
  <2>2. \A m \in Nodes : \A y \in Range(down'[m]) : y \in Claims(m)
    <3>1. x \in Pushed
      BY <1>0, <1>2 DEF Send, Pushed, TypeInv, SlotInv, SlotTypes, Slots
    <3>2. Range(Append(down[n], x)) = Range(down[n]) \cup {x}
      <4> HIDE DEF x
      <4> QED BY <3>1, QueueEnds DEF TypeInv, StreamTypes
    <3>3. down' \in {down, [down EXCEPT ![n] = Append(down[n], x)]}
      BY <1>2 DEF Send
    <3> HIDE DEF x
    <3>4. \A m \in Nodes : down'[m] = down[m] \/ (m = n /\ down'[m] = Append(down[n], x))
      BY <3>3 DEF TypeInv, StreamTypes
    <3> QED BY <2>1, <3>2, <3>4, ClaimsAre
  <2>3. \A q \in Pushers, m \in Nodes :
          slot'[q][m].state \in Numbered => Claim(slot'[q][m]) \in Claims(m)
    <3>1. PICK y : slot' = [slot EXCEPT ![p][n] = y]
                   /\ y \in {NoPush, [s EXCEPT !.state = "waiting"],
                             Answered(p, s, "silent", Nothing)}
      BY <1>2 DEF Send
    <3>2. y.state \in Numbered => Claim(y) = x
      <4>1. NoPush.state \notin Numbered /\ [s EXCEPT !.state = "silent", !.ack = Nothing].state \notin Numbered
        BY <1>0 DEF NoPush, Numbered, Slots
      <4>2. Claim([s EXCEPT !.state = "waiting"]) = x
        BY <1>0 DEF Claim, Slots
      <4> QED BY <3>1, <4>1, <4>2 DEF Answered, Answers
    <3>3. \A q \in Pushers, m \in Nodes : slot'[q][m] = slot[q][m] \/ (m = n /\ slot'[q][m] = y)
      BY <3>1 DEF TypeInv, SlotInv
    <3> HIDE DEF x
    <3> QED BY <2>1, <3>2, <3>3, ClaimsAre
  <2>4. \A m \in Nodes : \A y \in Range(up'[m]) : y.kind = "ack" => Claim(y) \in Claims(m)
    BY <1>2, ClaimsAre DEF Send
  <2> QED BY <1>2, <2>2, <2>3, <2>4, NoNewClaims DEF Send
<1>3. CASE TimeOut(p, n)
  <2>1. \A q \in Pushers, m \in Nodes :
          slot'[q][m] = slot[q][m] \/ slot'[q][m].state \in {"silent", "none"}
    BY <1>0, <1>3 DEF TimeOut, Answered, NoPush, Slots, TypeInv, SlotInv
  <2> QED BY <1>3, <2>1, QuietStep DEF TimeOut, Numbered
<1> QED BY <1>1, <1>2, <1>3 DEF Push

LEMMA StreamVersions ==
  ASSUME TypeInv, VersionInv, NEW n \in Nodes, Stream(n)
  PROVE  VersionInv'
<1> USE DEF history
<1>0. /\ down \in [Nodes -> Seq(Pushed)] /\ up \in [Nodes -> Seq(Messages)]
      /\ Range(<<>>) = {}
  BY QueueEnds, EmptySeq DEF TypeInv, StreamTypes
<1>1. CASE Drop(n) \/ Crash(n)
  <2>1. /\ UNCHANGED <<fleet, slot>>
        /\ down' = [down EXCEPT ![n] = <<>>] /\ up' = [up EXCEPT ![n] = <<>>]
    BY <1>1 DEF Drop, Crash, Lost, control
  <2>2. \A m \in Nodes : Range(down'[m]) \subseteq Range(down[m])
    BY <1>0, <2>1
  <2>3. \A m \in Nodes : Range(up'[m]) \subseteq Range(up[m])
    BY <1>0, <2>1
  <2> QED BY <2>1, <2>2, <2>3, QuietStep
<1>2. CASE Teardown(n) \/ Reconnect(n)
  <2>1. ASSUME NEW p \in Pushers, NEW m \in Nodes
        PROVE  slot'[p][m] = slot[p][m] \/ slot'[p][m].state \notin Numbered
    <3>1. \A q \in Pushers : Answered(q, slot[q][n], "silent", Nothing).state \notin Numbered
      BY DEF Answered, NoPush, Slots, TypeInv, SlotInv, Numbered
    <3>2. \A q \in Pushers, j \in Nodes :
            \/ Abandoned(n)[q][j] = slot[q][j]
            \/ Abandoned(n)[q][j].state \notin Numbered
      BY <3>1 DEF Abandoned, TypeInv, SlotInv
    <3>3. \A r : Chosen(r).state \notin Numbered
      BY DEF Chosen, NoPush, Numbered
    <3>4. Abandoned(n) \in [Pushers -> [Nodes -> {Abandoned(n)[q][j] : q \in Pushers, j \in Nodes}]]
      BY DEF Abandoned, TypeInv, SlotInv
    <3>5. \/ slot' = Abandoned(n)
          \/ \E r : slot' = [Abandoned(n) EXCEPT !["bootstrap"][n] = Chosen(r)]
      BY <1>2 DEF Teardown, Reconnect
    <3>6. CASE slot' = Abandoned(n)
      BY <3>2, <3>6
    <3>7. CASE \E r : slot' = [Abandoned(n) EXCEPT !["bootstrap"][n] = Chosen(r)]
      <4>1. PICK r : slot' = [Abandoned(n) EXCEPT !["bootstrap"][n] = Chosen(r)]
        BY <3>7
      <4>2. slot'[p][m] \in {Abandoned(n)[p][m], Chosen(r)}
        BY <3>4, <4>1
      <4> QED BY <3>2, <3>3, <4>2
    <3> QED BY <3>5, <3>6, <3>7
  <2>2. /\ UNCHANGED <<fleet, down>>
        /\ up' = up \/ up' = [up EXCEPT ![n] = <<>>]
    BY <1>0, <1>2 DEF Teardown, Reconnect
  <2>3. \A m \in Nodes : Range(up'[m]) \subseteq Range(up[m])
    BY <1>0, <2>2
  <2> QED BY <2>1, <2>2, <2>3, QuietStep
<1>3. CASE Bind(n)
  <2> DEFINE m == Head(down[n])
             a == IF Refuses(n) THEN Answer("nack", m.version, Nothing)
                                ELSE Answer("ack", m.version, m.render)
  <2>1. m \in Range(down[n]) /\ m \in Pushed /\ Range(Tail(down[n])) \subseteq Range(down[n])
    BY <1>0, <1>3, QueueEnds DEF Bind
  <2>2. a \in Messages /\ (a.kind = "ack" => Claim(a) = m)
    <3> HIDE DEF m
    <3> QED BY <2>1 DEF Answer, Messages, Pushed, Claim
  <2>3. Range(Append(up[n], a)) = Range(up[n]) \cup {a}
    <3> HIDE DEF a
    <3> QED BY <1>0, <2>2, QueueEnds
  <2>4. /\ UNCHANGED <<fleet, slot>>
        /\ down' = [down EXCEPT ![n] = Tail(down[n])]
        /\ up' = [up EXCEPT ![n] = Append(up[n], a)]
    BY <1>3 DEF Bind, control
  <2> HIDE DEF m, a
  <2>5. \A j \in Nodes : \A x \in Range(down'[j]) : x \in Claims(j)
    <3>1. \A j \in Nodes : Range(down'[j]) \subseteq Range(down[j])
      BY <1>0, <2>1, <2>4
    <3> QED BY <3>1, ClaimsAre
  <2>6. \A j \in Nodes : \A x \in Range(up'[j]) : x.kind = "ack" => Claim(x) \in Claims(j)
    <3>1. \A j \in Nodes : \A x \in Range(up'[j]) : x \in Range(up[j]) \/ (j = n /\ x = a)
      BY <1>0, <2>3, <2>4
    <3>2. m \in Claims(n)
      BY <2>1, ClaimsAre
    <3> QED BY <2>2, <3>1, <3>2, ClaimsAre
  <2>7. \A p \in Pushers, j \in Nodes :
          slot'[p][j].state \in Numbered => Claim(slot'[p][j]) \in Claims(j)
    BY <2>4, ClaimsAre
  <2> QED BY <2>4, <2>5, <2>6, <2>7, NoNewClaims
<1>4. CASE RefuseFirst(n) \/ Heartbeat(n)
  <2>1. PICK a : /\ up' = [up EXCEPT ![n] = <<a>>] /\ a.kind # "ack" /\ a \in Messages
                 /\ UNCHANGED <<fleet, slot>>
                 /\ down' = down \/ down' = [down EXCEPT ![n] = <<>>]
    <3>1. CASE RefuseFirst(n)
      <4> DEFINE a == Answer("nack", Head(down[n]).version, Nothing)
      <4>1. Head(down[n]) \in Pushed
        BY <1>0, <3>1, QueueEnds DEF RefuseFirst, Refuses
      <4>2. a \in Messages /\ a.kind = "nack"
        BY <4>1 DEF Answer, Messages, Pushed
      <4> QED BY <3>1, <4>2 DEF RefuseFirst, Lost, control
    <3>2. CASE Heartbeat(n)
      <4> DEFINE a == Answer("status", 0, running[n])
      <4>1. a \in Messages /\ a.kind = "status"
        BY <3>2 DEF Heartbeat, Answer, Messages, TypeInv, RestInv
      <4> QED BY <3>2, <4>1 DEF Heartbeat, control
    <3> QED BY <1>4, <3>1, <3>2
  <2>2. Range(<<a>>) = {a}
    BY Zenon, RangeOfOne
  <2>3. \A m \in Nodes : Range(down'[m]) \subseteq Range(down[m])
    BY <1>0, <2>1
  <2>4. \A m \in Nodes : \A x \in Range(up'[m]) : x.kind = "ack" => x \in Range(up[m])
    BY <1>0, <2>1, <2>2
  <2> QED BY <2>1, <2>3, <2>4, QuietStep
<1>5. CASE Receive(n)
  <2>1. /\ UNCHANGED <<fleet, down>>
        /\ up' = [up EXCEPT ![n] = Tail(up[n])] /\ Range(Tail(up[n])) \subseteq Range(up[n])
    BY <1>0, <1>5, QueueEnds DEF Receive
  <2>2. ASSUME NEW p \in Pushers, NEW m \in Nodes
        PROVE  slot'[p][m] = slot[p][m] \/ slot'[p][m].state \notin Numbered
    <3>1. \/ slot' = slot
          \/ \E v, answer, ack : answer \in Answers /\ slot' = Deliver(n, v, answer, ack)
      BY <1>5 DEF Receive, Answers
    <3>2. \A answer \in Answers : \A ack :
            Answered(p, slot[p][n], answer, ack).state \notin Numbered
      BY DEF Answered, NoPush, Slots, TypeInv, SlotInv, Numbered, Answers
    <3> QED BY <3>1, <3>2 DEF Deliver, TypeInv, SlotInv
  <2>3. \A m \in Nodes : Range(up'[m]) \subseteq Range(up[m])
    BY <1>0, <2>1
  <2> QED BY <2>1, <2>2, <2>3, QuietStep
<1> QED BY <1>1, <1>2, <1>3, <1>4, <1>5 DEF Stream

LEMMA VersionInvNext ==
  ASSUME TypeInv, VersionInv, [Next]_vars
  PROVE  VersionInv'
<1> USE DEF history, network, control
<1>1. CASE Edit \/ UNCHANGED vars
  BY <1>1, QuietStep DEF Edit, vars
<1>2. ASSUME NEW n \in Nodes, Visit(n) \/ ChooseInHeal(n) PROVE VersionInv'
  <2>1. \/ slot' = [slot EXCEPT !["reconciler"][n].state = "checked"]
        \/ \E r : slot' = [slot EXCEPT !["reconciler"][n] = Chosen(r)]
    BY <1>2 DEF Visit, ChooseInHeal
  <2>2. \A p \in Pushers, m \in Nodes :
          slot'[p][m] = slot[p][m] \/ slot'[p][m].state \in {"checked", "chosen"}
    <3>0. slot \in [Pushers -> [Nodes -> Slots]] /\ "reconciler" \in Pushers
      BY DEF TypeInv, SlotInv, Pushers
    <3>1. [slot["reconciler"][n] EXCEPT !.state = "checked"].state = "checked"
      BY <3>0 DEF Slots
    <3>2. \A r : Chosen(r).state = "chosen"
      BY DEF Chosen, NoPush
    <3>3. CASE \E r : slot' = [slot EXCEPT !["reconciler"][n] = Chosen(r)]
      <4>1. PICK r : slot' = [slot EXCEPT !["reconciler"][n] = Chosen(r)]
        BY <3>3
      <4> QED BY <3>0, <3>2, <4>1
    <3>4. CASE slot' = [slot EXCEPT !["reconciler"][n].state = "checked"]
      <4> DEFINE x == [slot["reconciler"][n] EXCEPT !.state = "checked"]
      <4>1. slot' = [slot EXCEPT !["reconciler"][n] = x] /\ x.state = "checked"
        BY <3>0, <3>1, <3>4
      <4> HIDE DEF x
      <4> QED BY <3>0, <4>1
    <3> QED BY <2>1, <3>3, <3>4
  <2> QED BY <1>2, <2>2, QuietStep DEF Visit, ChooseInHeal, Numbered
<1>3. ASSUME NEW n \in Nodes, BreakGlass(n) PROVE VersionInv'
  BY <1>3, QuietStep DEF BreakGlass
<1> QED BY <1>1, <1>2, <1>3, RolloutVersions, PushVersions, StreamVersions DEF Next

\* A version handed to a node names one render for good, whoever pushed it and
\* however late, lost or crossed the pushes and their answers are.
THEOREM VersionsNameRenders == Spec => []VersionNamesRender
<1>1. VersionInv => VersionNamesRender
  BY DEF VersionInv, VersionNamesRender
<1> QED BY <1>1, TypeInvInit, TypeInvNext, VersionInvInit, VersionInvNext, PTL DEF Spec

(***************************************************************************)
(* Answers. An acknowledgement that reaches a waiter of its version is a    *)
(* claim like the waiter itself, so both name one render.                   *)
(***************************************************************************)

LEMMA HonestInit == Init => HonestNodesAgree
  BY DEF Init, NoPush, HonestNodesAgree, Pushers

\* One slot changed to something that awaits or has lost its answer.
LEMMA StillHonest ==
  ASSUME TypeInv, HonestNodesAgree,
         \A t \in Triggers, n \in Nodes :
           slot'[t][n] = slot[t][n] \/ slot'[t][n].state # "acked"
  PROVE  HonestNodesAgree'
  BY DEF HonestNodesAgree

LEMMA HonestNext ==
  ASSUME TypeInv, VersionInv, HonestNodesAgree, [Next]_vars
  PROVE  HonestNodesAgree'
<1> USE DEF control, history, network
<1>0. slot \in [Pushers -> [Nodes -> Slots]] /\ Triggers \subseteq Pushers
  BY DEF TypeInv, SlotInv, Pushers
<1>1. CASE Edit \/ UNCHANGED vars
  BY <1>1, StillHonest DEF Edit, vars
<1>2. ASSUME NEW t \in Triggers, Rollout(t) PROVE HonestNodesAgree'
  <2>1. \/ slot' = slot \/ slot' = Cleared(t) \/ \E n, r : slot' = [slot EXCEPT ![t][n] = Chosen(r)]
    BY <1>2, Zenon DEF Rollout, Start, Admit, Resolve, Begin, ChooseInWalk, Conclude, Pass, Breach,
                RolledBack
  <2>2. NoPush.state = "none" /\ \A r : Chosen(r).state = "chosen"
    BY DEF Chosen, NoPush
  <2>3. CASE slot' = Cleared(t)
    BY <1>0, <2>2, <2>3, StillHonest DEF Cleared
  <2>4. CASE \E n, r : slot' = [slot EXCEPT ![t][n] = Chosen(r)]
    BY <1>0, <2>2, <2>4, StillHonest
  <2> QED BY <2>1, <2>3, <2>4, StillHonest
<1>3. ASSUME NEW p \in Pushers, NEW n \in Nodes, Push(p, n) PROVE HonestNodesAgree'
  <2>1. PICK x : slot' = [slot EXCEPT ![p][n] = x] /\ x.state # "acked"
    <3>1. CASE Number(p, n)
      <4> DEFINE x == [slot[p][n] EXCEPT !.state = "numbered", !.version = fleet'.perNode[n].version]
      <4>1. slot' = [slot EXCEPT ![p][n] = x]
        BY <1>0, <3>1 DEF Number
      <4>2. x.state = "numbered"
        BY <1>0 DEF Slots
      <4> QED BY <4>1, <4>2
    <3>2. CASE Send(p, n) \/ TimeOut(p, n)
      <4> DEFINE s == slot[p][n]
      <4>1. PICK x : slot' = [slot EXCEPT ![p][n] = x]
                     /\ x \in {NoPush, [s EXCEPT !.state = "waiting"],
                               Answered(p, s, "silent", Nothing)}
        BY <3>2 DEF Send, TimeOut
      <4>2. /\ NoPush.state = "none" /\ [s EXCEPT !.state = "waiting"].state = "waiting"
            /\ [s EXCEPT !.state = "silent", !.ack = Nothing].state = "silent"
        BY <1>0 DEF NoPush, Slots
      <4> QED BY <4>1, <4>2 DEF Answered
    <3> QED BY <1>3, <3>1, <3>2 DEF Push
  <2>2. \A t \in Triggers, m \in Nodes :
          slot'[t][m] = slot[t][m] \/ slot'[t][m].state # "acked"
    BY <1>0, <2>1
  <2> QED BY <2>2, StillHonest
<1>4. ASSUME NEW n \in Nodes, Visit(n) \/ ChooseInHeal(n) \/ BreakGlass(n)
      PROVE  HonestNodesAgree'
  <2>1. \A t \in Triggers : slot'[t] = slot[t]
    BY <1>0, <1>4, RolloutAssumption DEF Visit, ChooseInHeal, BreakGlass
  <2> QED BY <2>1, StillHonest
<1>5. ASSUME NEW n \in Nodes, Stream(n), ~Receive(n) PROVE HonestNodesAgree'
  <2>1. ASSUME NEW t \in Triggers, NEW m \in Nodes
        PROVE  slot'[t][m] = slot[t][m] \/ slot'[t][m].state # "acked"
    <3>1. Abandoned(n)[t][m] = slot[t][m] \/ Abandoned(n)[t][m].state = "silent"
      <4>1. [slot[t][n] EXCEPT !.state = "silent", !.ack = Nothing].state = "silent"
        BY <1>0 DEF Slots
      <4> QED BY <1>0, <4>1 DEF Abandoned, Answered
    <3>2. \/ slot' = slot \/ slot' = Abandoned(n)
          \/ \E r : slot' = [Abandoned(n) EXCEPT !["bootstrap"][n] = Chosen(r)]
      BY <1>5 DEF Stream, Drop, Crash, Lost, Teardown, Reconnect, Bind, RefuseFirst, Heartbeat
    <3>3. t # "bootstrap"
      BY RolloutAssumption
    <3>4. slot'[t] \in {slot[t], Abandoned(n)[t]}
      BY <1>0, <3>2, <3>3 DEF Abandoned
    <3> QED BY <3>1, <3>4
  <2> QED BY <2>1, StillHonest
<1>6. ASSUME NEW n \in Nodes, Receive(n) PROVE HonestNodesAgree'
  <2> DEFINE m == Head(up[n])
  <2>1. m \in Range(up[n]) /\ m \in Messages
    BY <1>6, QueueEnds DEF Receive, TypeInv, StreamTypes
  <2>2. CASE m.kind = "ack"
    <3>1. slot' = Deliver(n, m.version, "acked", m.render)
      BY <1>6, <2>2 DEF Receive
    <3>2. Claim(m) \in Claims(n)
      BY <2>1, <2>2, ClaimsAre
    <3> HIDE DEF m
    <3>3. ASSUME NEW t \in Triggers, slot[t][n].state = "waiting",
                 slot[t][n].version = m.version
          PROVE  slot[t][n].render = m.render
      <4>1. Claim(slot[t][n]) \in Claims(n)
        BY <1>0, <3>3, ClaimsAre DEF Numbered
      <4> QED BY <3>2, <3>3, <4>1 DEF VersionInv, Claim
    <3>4. ASSUME NEW t \in Triggers, NEW j \in Nodes, slot'[t][j].state = "acked"
          PROVE  slot'[t][j].ack = slot'[t][j].render
      <4>1. CASE slot'[t][j] = slot[t][j]
        BY <3>4, <4>1 DEF HonestNodesAgree
      <4>2. CASE slot'[t][j] # slot[t][j]
        <5> DEFINE x == [slot[t][n] EXCEPT !.state = "acked", !.ack = m.render]
        <5>1. /\ j = n /\ slot[t][n].state = "waiting" /\ slot[t][n].version = m.version
              /\ slot'[t][j] = x
          BY <1>0, <3>1, <4>2 DEF Deliver, Answered
        <5>2. x.ack = m.render /\ x.render = slot[t][n].render
          BY <1>0 DEF Slots
        <5> QED BY <3>3, <5>1, <5>2
      <4> QED BY <4>1, <4>2
    <3> QED BY <3>4 DEF HonestNodesAgree
  <2>3. CASE m.kind # "ack"
    <3>1. \/ slot' = slot
          \/ \E v : slot' = Deliver(n, v, "nacked", Nothing)
      BY <1>6, <2>3 DEF Receive
    <3>2. ASSUME NEW t \in Triggers, NEW j \in Nodes
          PROVE  slot'[t][j] = slot[t][j] \/ slot'[t][j].state # "acked"
      <4>1. [slot[t][n] EXCEPT !.state = "nacked", !.ack = Nothing].state = "nacked"
        BY <1>0 DEF Slots
      <4>2. ASSUME NEW v, slot' = Deliver(n, v, "nacked", Nothing)
            PROVE  \/ slot'[t][j] = slot[t][j]
                   \/ slot'[t][j] = [slot[t][n] EXCEPT !.state = "nacked", !.ack = Nothing]
        <5>1. t \in Pushers /\ t # "bootstrap"
          BY <1>0, RolloutAssumption
        <5> QED BY <1>0, <4>2, <5>1 DEF Deliver, Answered
      <4> QED BY <3>1, <4>1, <4>2
    <3> QED BY <3>2, StillHonest
  <2> QED BY <2>2, <2>3
<1> QED BY <1>1, <1>2, <1>3, <1>4, <1>5, <1>6 DEF Next

\* A node that answers truthfully is never adjudicated WrongHash: whatever was
\* pushed around it, the answer delivered to a walk names the walk's render.
THEOREM HonestAnswersMatch == Spec => []HonestNodesAgree
  BY TypeInvInit, TypeInvNext, VersionInvInit, VersionInvNext, HonestInit, HonestNext, PTL
  DEF Spec

(***************************************************************************)
(* Waves. A wave is recorded on the strength of its nodes' answers, so the  *)
(* invariant follows the render from the walk's target into its slots, to    *)
(* the node that serves it, and back as the acknowledgement. It needs the    *)
(* walk's target to be the applied commit for as long as the walk lasts,     *)
(* which a second trigger breaks: the theorem is about one trigger.          *)
(***************************************************************************)

OneTrigger == \A t, u \in Triggers : t = u

AcksServed ==
  \A n \in Nodes :
    /\ \A m \in Range(up[n]) : m.kind = "ack" => m.render \in ran[n]
    /\ \A t \in Triggers : slot[t][n].state = "acked" => slot[t][n].ack \in ran[n]

SlotsOfWalk ==
  \A t \in Triggers, n \in Nodes :
    slot[t][n].state # "none" =>
      /\ walk[t].pc \in {"pushing", "rolling_back"}
      /\ walk[t].pc = "pushing" => slot[t][n].render = Rendered(walk[t].target, n)

OnTarget ==
  \A t \in Triggers :
    walk[t].pc \in {"pushing", "analyzing"} => walk[t].target = fleet.applied

VerdictPending ==
  \A t \in Triggers :
    walk[t].pc = "analyzing" =>
      /\ walk[t].frozen = fleet.waveCommit[walk[t].wave]
      /\ \A n \in Rolling(t) : Rendered(walk[t].target, n) \in ran[n]

RanType == ran \in [Nodes -> SUBSET Renders]
ServedInv == RanType /\ AcksServed /\ SlotsOfWalk /\ OnTarget /\ VerdictPending

LEMMA ServedInvInit == Init => ServedInv
<1> SUFFICES ASSUME Init PROVE ServedInv
  OBVIOUS
<1>1. \A n \in Nodes : Range(up[n]) = {}
  BY QueueEnds, EmptySeq DEF Init
<1>2. \A t \in Triggers, n \in Nodes : slot[t][n].state = "none"
  BY DEF Init, NoPush, Pushers
<1>3. \A t \in Triggers : walk[t].pc = "idle"
  BY DEF Init, NoWalk
<1>4. RanType
  BY RendersType, FleetAssumption DEF Init, RanType
<1> QED BY <1>1, <1>2, <1>3, <1>4
        DEF ServedInv, AcksServed, SlotsOfWalk, OnTarget, VerdictPending

\* Slots of a walk that only wait, lose their answer or are given up.
LEMMA AcksStay ==
  ASSUME AcksServed, \A n \in Nodes : ran[n] \subseteq ran'[n],
         \A n \in Nodes : \A m \in Range(up'[n]) : m.kind = "ack" => m \in Range(up[n]),
         \A t \in Triggers, n \in Nodes :
           slot'[t][n] = slot[t][n] \/ slot'[t][n].state # "acked"
  PROVE  AcksServed'
  BY DEF AcksServed

\* What the steps outside the walks leave of the walks and their slots.
Aside ==
  /\ fleet'.applied = fleet.applied
  /\ fleet'.waveCommit = fleet.waveCommit
  /\ ran' \in [Nodes -> SUBSET Renders]
  /\ \A n \in Nodes : ran[n] \subseteq ran'[n]
  /\ \A t \in Triggers :
       /\ walk'[t].pc = walk[t].pc /\ walk'[t].target = walk[t].target
       /\ walk'[t].wave = walk[t].wave /\ walk'[t].assigned = walk[t].assigned
       /\ walk'[t].frozen = walk[t].frozen
  /\ \A t \in Triggers, n \in Nodes :
       slot'[t][n].state # "none" => /\ slot[t][n].state # "none"
                                     /\ slot'[t][n].render = slot[t][n].render

LEMMA AsideServes ==
  ASSUME TypeInv, ServedInv, Aside
  PROVE  RanType' /\ SlotsOfWalk' /\ OnTarget' /\ VerdictPending'
<1>1. SlotsOfWalk'
  <2>1. ASSUME NEW t \in Triggers, NEW n \in Nodes, slot'[t][n].state # "none"
        PROVE  /\ walk'[t].pc \in {"pushing", "rolling_back"}
               /\ walk'[t].pc = "pushing" => slot'[t][n].render = Rendered(walk'[t].target, n)
    <3>1. /\ walk'[t].pc = walk[t].pc /\ walk'[t].target = walk[t].target
          /\ slot[t][n].state # "none" /\ slot'[t][n].render = slot[t][n].render
      BY <2>1 DEF Aside
    <3> QED BY <3>1 DEF ServedInv, SlotsOfWalk
  <2> QED BY <2>1 DEF SlotsOfWalk
<1>2. OnTarget'
  BY DEF ServedInv, OnTarget, Aside
<1>3. VerdictPending'
  <2>1. ASSUME NEW t \in Triggers, walk'[t].pc = "analyzing"
        PROVE  /\ walk'[t].frozen = fleet'.waveCommit[walk'[t].wave]
               /\ \A n \in Rolling(t)' : Rendered(walk'[t].target, n) \in ran'[n]
    <3>1. Rolling(t)' = Rolling(t) /\ Rolling(t) \subseteq Nodes
      BY <2>1 DEF Aside, Rolling, TypeInv, WalkInv, WalkTypes, Walks, InWalk
    <3> QED BY <2>1, <3>1 DEF ServedInv, VerdictPending, Aside
  <2> QED BY <2>1 DEF VerdictPending
<1>4. RanType'
  BY DEF Aside, RanType
<1> QED BY <1>1, <1>2, <1>3, <1>4

LEMMA PushServed ==
  ASSUME TypeInv, ServedInv, NEW p \in Pushers, NEW n \in Nodes, Push(p, n)
  PROVE  ServedInv' /\ fleet'.waveCommit = fleet.waveCommit
<1> USE DEF history, network
<1>0. /\ slot \in [Pushers -> [Nodes -> Slots]] /\ Triggers \subseteq Pushers
      /\ walk \in [Triggers -> Walks]
  BY DEF TypeInv, SlotInv, WalkInv, Pushers
<1>1. PICK x : /\ slot' = [slot EXCEPT ![p][n] = x]
               /\ x.state # "acked"
               /\ x.state # "none" => slot[p][n].state # "none" /\ x.render = slot[p][n].render
  <2> DEFINE s == slot[p][n]
  <2>0. s \in Slots
    BY <1>0
  <2>1. CASE Number(p, n)
    <3> DEFINE x == [s EXCEPT !.state = "numbered", !.version = fleet'.perNode[n].version]
    <3>1. slot' = [slot EXCEPT ![p][n] = x] /\ s.state = "chosen"
      BY <1>0, <2>1 DEF Number
    <3>2. x.state = "numbered" /\ x.render = s.render
      BY <2>0 DEF Slots
    <3> HIDE DEF x
    <3> QED BY <3>1, <3>2
  <2>2. CASE Send(p, n) \/ TimeOut(p, n)
    <3>1. PICK x : slot' = [slot EXCEPT ![p][n] = x]
                   /\ x \in {NoPush, [s EXCEPT !.state = "waiting"],
                             Answered(p, s, "silent", Nothing)}
      BY <2>2 DEF Send, TimeOut
    <3>2. s.state # "none"
      BY <2>2 DEF Send, TimeOut
    <3>3. /\ NoPush.state = "none"
          /\ [s EXCEPT !.state = "waiting"].state = "waiting"
          /\ [s EXCEPT !.state = "waiting"].render = s.render
          /\ [s EXCEPT !.state = "silent", !.ack = Nothing].state = "silent"
          /\ [s EXCEPT !.state = "silent", !.ack = Nothing].render = s.render
      BY <2>0 DEF NoPush, Slots
    <3> QED BY <3>1, <3>2, <3>3 DEF Answered
  <2> QED BY <2>1, <2>2 DEF Push
<1>2. /\ fleet'.applied = fleet.applied /\ fleet'.waveCommit = fleet.waveCommit
      /\ UNCHANGED <<up, ran>>
  <2>1. CASE Number(p, n)
    <3>1. slot[p][n].render \in Renders
      BY <2>1 DEF Number, TypeInv, SlotInv, SlotTypes
    <3> QED BY <2>1, <3>1, NextVersionGrows DEF Number, TypeInv
  <2> QED BY <2>1 DEF Push, Send, TimeOut
<1>3. \A t \in Triggers :
        /\ walk'[t].pc = walk[t].pc /\ walk'[t].target = walk[t].target
        /\ walk'[t].wave = walk[t].wave /\ walk'[t].assigned = walk[t].assigned
        /\ walk'[t].frozen = walk[t].frozen
  <2>1. walk' = walk \/ \E v : walk' = [walk EXCEPT ![p].version = v]
    BY DEF Push, Number, Send, TimeOut
  <2> QED BY <1>0, <2>1 DEF Walks
<1>4. \A t \in Triggers, m \in Nodes :
        slot'[t][m] = slot[t][m] \/ (t = p /\ m = n /\ slot'[t][m] = x)
  BY <1>0, <1>1
<1>5. Aside
  BY <1>1, <1>2, <1>3, <1>4 DEF Aside, ServedInv, RanType
<1>6. AcksServed'
  BY <1>1, <1>2, <1>4, AcksStay DEF ServedInv
<1> QED BY <1>2, <1>5, <1>6, AsideServes DEF ServedInv

LEMMA StreamServed ==
  ASSUME TypeInv, ServedInv, NEW n \in Nodes, Stream(n)
  PROVE  ServedInv' /\ fleet'.waveCommit = fleet.waveCommit
<1> USE DEF history
<1>0. /\ slot \in [Pushers -> [Nodes -> Slots]] /\ Triggers \subseteq Pushers
      /\ up \in [Nodes -> Seq(Messages)] /\ down \in [Nodes -> Seq(Pushed)]
      /\ ran \in [Nodes -> SUBSET Renders]
      /\ UNCHANGED <<fleet, walk>>
  BY DEF TypeInv, SlotInv, StreamTypes, ServedInv, RanType, Pushers, Stream, Drop, Crash,
         Teardown, Reconnect, Bind, RefuseFirst, Heartbeat, Receive, control
<1>1. CASE Bind(n)
  <2> DEFINE m == Head(down[n])
             a == IF Refuses(n) THEN Answer("nack", m.version, Nothing)
                                ELSE Answer("ack", m.version, m.render)
  <2>1. m \in Pushed
    BY <1>0, <1>1, QueueEnds DEF Bind
  <2>2. a \in Messages /\ (a.kind = "ack" => ~Refuses(n) /\ a.render = m.render)
    <3> HIDE DEF m
    <3> QED BY <2>1 DEF Answer, Messages, Pushed
  <2>3. Range(Append(up[n], a)) = Range(up[n]) \cup {a}
    <3> HIDE DEF a
    <3> QED BY <1>0, <2>2, QueueEnds
  <2>4. /\ slot' = slot
        /\ up' = [up EXCEPT ![n] = Append(up[n], a)]
        /\ IF Refuses(n) THEN ran' = ran
           ELSE ran' = [ran EXCEPT ![n] = ran[n] \cup {m.render}]
    BY <1>1 DEF Bind, control
  <2>5. m.render \in Renders
    BY <2>1 DEF Pushed
  <2> HIDE DEF m, a
  <2>6. /\ ran' \in [Nodes -> SUBSET Renders]
        /\ \A j \in Nodes : ran[j] \subseteq ran'[j]
        /\ a.kind = "ack" => a.render \in ran'[n]
    <3>1. CASE Refuses(n)
      BY <1>0, <2>2, <2>4, <3>1
    <3>2. CASE ~Refuses(n)
      <4>1. ran' = [ran EXCEPT ![n] = ran[n] \cup {m.render}]
        BY <2>4, <3>2
      <4> QED BY <1>0, <2>2, <2>5, <4>1
    <3> QED BY <3>1, <3>2
  <2>7. Aside
    BY <1>0, <2>4, <2>6 DEF Aside
  <2>8. AcksServed'
    <3>1. \A j \in Nodes : \A x \in Range(up'[j]) : x \in Range(up[j]) \/ (j = n /\ x = a)
      BY <1>0, <2>3, <2>4
    <3> QED BY <2>4, <2>6, <3>1 DEF ServedInv, AcksServed
  <2> QED BY <1>0, <2>7, <2>8, AsideServes DEF ServedInv
<1>2. CASE Receive(n)
  <2> DEFINE m == Head(up[n])
  <2>1. m \in Range(up[n]) /\ Range(Tail(up[n])) \subseteq Range(up[n])
    BY <1>0, <1>2, QueueEnds DEF Receive
  <2>2. up' = [up EXCEPT ![n] = Tail(up[n])] /\ ran' = ran
    BY <1>2 DEF Receive
  <2>3. ASSUME NEW t \in Triggers, NEW j \in Nodes
        PROVE  /\ slot'[t][j].state # "none" => /\ slot[t][j].state # "none"
                                                /\ slot'[t][j].render = slot[t][j].render
               /\ \/ slot'[t][j] = slot[t][j] \/ slot'[t][j].state # "acked"
                  \/ j = n /\ m.kind = "ack" /\ slot'[t][j].ack = m.render
    <3> DEFINE Kept ==
                 /\ slot'[t][j].state # "none" => /\ slot[t][j].state # "none"
                                                  /\ slot'[t][j].render = slot[t][j].render
                 /\ \/ slot'[t][j] = slot[t][j] \/ slot'[t][j].state # "acked"
                    \/ j = n /\ m.kind = "ack" /\ slot'[t][j].ack = m.render
    <3>1. CASE slot' = slot
      BY <3>1
    <3>2. ASSUME NEW v, NEW answer, NEW ack, slot' = Deliver(n, v, answer, ack),
                 \/ answer = "acked" /\ m.kind = "ack" /\ ack = m.render
                 \/ answer = "nacked"
          PROVE  Kept
      <4> DEFINE x == [slot[t][n] EXCEPT !.state = answer, !.ack = ack]
      <4>1. \/ slot'[t][j] = slot[t][j]
            \/ j = n /\ slot[t][n].state = "waiting" /\ slot'[t][j] = x
        BY <1>0, <3>2 DEF Deliver, Answered
      <4>2. x.state = answer /\ x.ack = ack /\ x.render = slot[t][n].render
        BY <1>0 DEF Slots
      <4> HIDE DEF x, m
      <4> QED BY <3>2, <4>1, <4>2
    <3>3. \/ slot' = slot
          \/ m.kind = "ack" /\ slot' = Deliver(n, m.version, "acked", m.render)
          \/ slot' = Deliver(n, m.version, "nacked", Nothing)
      BY <1>2 DEF Receive
    <3> HIDE DEF m
    <3>4. CASE m.kind = "ack" /\ slot' = Deliver(n, m.version, "acked", m.render)
      BY <3>2, <3>4
    <3>5. CASE slot' = Deliver(n, m.version, "nacked", Nothing)
      BY <3>2, <3>5
    <3> QED BY <3>1, <3>3, <3>4, <3>5
  <2> HIDE DEF m
  <2>4. Aside
    BY <1>0, <2>2, <2>3 DEF Aside
  <2>5. AcksServed'
    <3>1. \A j \in Nodes : Range(up'[j]) \subseteq Range(up[j])
      BY <1>0, <2>1, <2>2
    <3> QED BY <2>1, <2>2, <2>3, <3>1 DEF ServedInv, AcksServed
  <2> QED BY <1>0, <2>4, <2>5, AsideServes DEF ServedInv
<1>3. CASE ~Bind(n) /\ ~Receive(n)
  <2>1. ran' = ran
    BY <1>3 DEF Stream, Drop, Crash, Teardown, Reconnect, RefuseFirst, Heartbeat
  <2>2. ASSUME NEW t \in Triggers, NEW m \in Nodes
        PROVE  \/ slot'[t][m] = slot[t][m]
               \/ /\ slot'[t][m].state = "silent" /\ slot[t][m].state = "waiting"
                  /\ slot'[t][m].render = slot[t][m].render
    <3> DEFINE x == [slot[t][n] EXCEPT !.state = "silent", !.ack = Nothing]
    <3>1. x.state = "silent" /\ x.render = slot[t][n].render
      BY <1>0 DEF Slots
    <3>2. \/ Abandoned(n)[t][m] = slot[t][m]
          \/ m = n /\ slot[t][n].state = "waiting" /\ Abandoned(n)[t][m] = x
      BY <1>0 DEF Abandoned, Answered
    <3> HIDE DEF x
    <3>3. \/ slot' = slot \/ slot' = Abandoned(n)
          \/ \E r : slot' = [Abandoned(n) EXCEPT !["bootstrap"][n] = Chosen(r)]
      BY <1>3 DEF Stream, Drop, Crash, Lost, Teardown, Reconnect, RefuseFirst, Heartbeat, control
    <3>4. slot'[t] \in {slot[t], Abandoned(n)[t]}
      BY <1>0, <3>3, RolloutAssumption DEF Abandoned
    <3> QED BY <3>1, <3>2, <3>4
  <2>3. \A j \in Nodes : \A x \in Range(up'[j]) : x.kind = "ack" => x \in Range(up[j])
    <3>1. \/ up' = up \/ up' = [up EXCEPT ![n] = <<>>]
          \/ \E a : a.kind # "ack" /\ up' = [up EXCEPT ![n] = <<a>>]
      <4>1. CASE RefuseFirst(n)
        <5> DEFINE a == Answer("nack", Head(down[n]).version, Nothing)
        <5>1. a.kind = "nack" /\ up' = [up EXCEPT ![n] = <<a>>]
          BY <4>1 DEF RefuseFirst, Answer
        <5> QED BY <5>1
      <4>2. CASE Heartbeat(n)
        <5> DEFINE a == Answer("status", 0, running[n])
        <5>1. a.kind = "status" /\ up' = [up EXCEPT ![n] = <<a>>]
          BY <4>2 DEF Heartbeat, Answer
        <5> QED BY <5>1
      <4>3. CASE Drop(n) \/ Crash(n) \/ Teardown(n) \/ Reconnect(n)
        BY <1>0, <4>3 DEF Drop, Crash, Teardown, Reconnect
      <4> QED BY <1>3, <4>1, <4>2, <4>3 DEF Stream
    <3>2. Range(<<>>) = {}
      BY QueueEnds, EmptySeq
    <3>3. CASE up' = up \/ up' = [up EXCEPT ![n] = <<>>]
      BY <1>0, <3>2, <3>3
    <3>4. CASE \E a : a.kind # "ack" /\ up' = [up EXCEPT ![n] = <<a>>]
      <4>1. PICK a : a.kind # "ack" /\ up' = [up EXCEPT ![n] = <<a>>]
        BY <3>4
      <4>2. Range(<<a>>) = {a}
        BY RangeOfOne
      <4> QED BY <1>0, <4>1, <4>2
    <3> QED BY <3>1, <3>3, <3>4
  <2>4. Aside
    BY <1>0, <2>1, <2>2 DEF Aside
  <2>5. AcksServed'
    BY <2>1, <2>2, <2>3, AcksStay DEF ServedInv
  <2> QED BY <1>0, <2>4, <2>5, AsideServes DEF ServedInv
<1> QED BY <1>1, <1>2, <1>3

\* A clean sweep: every node of the wave has served what it acknowledged.
LEMMA SweepServed ==
  ASSUME TypeInv, ServedInv, NEW t \in Triggers, walk[t].pc = "pushing",
         CleanSweep([n \in Rolling(t) |-> slot[t][n]])
  PROVE  \A n \in Rolling(t) : Rendered(walk[t].target, n) \in ran[n]
<1> SUFFICES ASSUME NEW n \in Rolling(t) PROVE Rendered(walk[t].target, n) \in ran[n]
  OBVIOUS
<1>1. n \in Nodes
  BY DEF Rolling, TypeInv, WalkInv, WalkTypes, InWalk, Walks
<1>2. slot[t][n].state = "acked" /\ slot[t][n].ack = slot[t][n].render
  BY DEF CleanSweep
<1>3. slot[t][n].render = Rendered(walk[t].target, n)
  BY <1>1, <1>2 DEF ServedInv, SlotsOfWalk
<1> QED BY <1>1, <1>2, <1>3 DEF ServedInv, AcksServed

\* The steps of the walk itself, and what they may record.
Records(t) ==
  \A w \in WaveIndices :
    /\ walk[t].pc \in {"pushing", "analyzing"}
    /\ fleet.waveCommit'[w] # fleet.waveCommit[w]
    => \A n \in walk[t].assigned[w] : Rendered(fleet.waveCommit'[w], n) \in ran[n]

LEMMA RolloutServed ==
  ASSUME OneTrigger, TypeInv, ServedInv, NEW t \in Triggers, Rollout(t)
  PROVE  ServedInv' /\ Records(t)
<1> USE DEF history, network
<1>0. /\ slot \in [Pushers -> [Nodes -> Slots]] /\ t \in Pushers
      /\ walk \in [Triggers -> Walks] /\ Triggers = {t}
      /\ UNCHANGED <<up, ran>>
  BY DEF TypeInv, SlotInv, WalkInv, Pushers, OneTrigger, Rollout, Start, Admit, Resolve, Begin,
         ChooseInWalk, Conclude, Pass, Breach, RolledBack
<1>1. RanType'
  BY <1>0 DEF ServedInv, RanType
\* No answer arrives in these steps.
<1>2. AcksServed'
  <2>1. ASSUME NEW u \in Triggers, NEW n \in Nodes
        PROVE  slot'[u][n] = slot[u][n] \/ slot'[u][n].state # "acked"
    <3>1. NoPush.state = "none" /\ \A r : Chosen(r).state = "chosen"
      BY DEF Chosen, NoPush
    <3>2. \/ slot' = slot \/ slot' = Cleared(t)
          \/ \E m, r : slot' = [slot EXCEPT ![t][m] = Chosen(r)]
      BY Zenon DEF Rollout, Start, Admit, Resolve, Begin, ChooseInWalk, Conclude, Pass, Breach,
                   RolledBack
    <3>3. CASE slot' = Cleared(t)
      BY <1>0, <3>1, <3>3 DEF Cleared
    <3>4. CASE \E m, r : slot' = [slot EXCEPT ![t][m] = Chosen(r)]
      BY <1>0, <3>1, <3>4
    <3> QED BY <3>2, <3>3, <3>4
  <2> QED BY <1>0, <2>1, AcksStay DEF ServedInv
\* What the invariant asks of a walk between its waves, or of one that ended.
<1>3. ASSUME walk'[t].pc \notin InWalk, \A n \in Nodes : slot'[t][n].state = "none"
      PROVE  SlotsOfWalk' /\ OnTarget' /\ VerdictPending'
  BY <1>0, <1>3 DEF SlotsOfWalk, OnTarget, VerdictPending, InWalk
<1>4. ASSUME walk'[t].pc = "pushing", \A n \in Nodes : slot'[t][n].state = "none",
             walk'[t].target = fleet'.applied
      PROVE  SlotsOfWalk' /\ OnTarget' /\ VerdictPending'
  BY <1>0, <1>4 DEF SlotsOfWalk, OnTarget, VerdictPending
<1>5. slot' = Cleared(t) => \A n \in Nodes : slot'[t][n].state = "none"
  BY <1>0 DEF Cleared, NoPush
<1>6. walk[t].pc \notin {"pushing", "rolling_back"} => \A n \in Nodes : slot[t][n].state = "none"
  BY DEF ServedInv, SlotsOfWalk
<1>7. ASSUME NEW k \in Walks, NEW f \in Fleets, k.target = fleet'.applied,
             walk' = [walk EXCEPT ![t] = Onward(k, f)],
             \A n \in Nodes : slot'[t][n].state = "none"
      PROVE  SlotsOfWalk' /\ OnTarget' /\ VerdictPending'
  <2>1. CASE Onward(k, f) = NoWalk
    BY <1>0, <1>3, <1>7, <2>1 DEF NoWalk, InWalk
  <2>2. CASE Onward(k, f) # NoWalk
    BY <1>0, <1>4, <1>7, <2>2, OnwardGoesOn
  <2> QED BY <2>1, <2>2
<1>8. CASE Start(t) \/ Admit(t)
  <2>1. walk'[t].pc \in {"admitting", "resolving", "idle"}
    BY <1>0, <1>8 DEF Start, Admit, Walks
  <2>2. slot' = slot /\ fleet' = fleet /\ walk[t].pc \in {"idle", "admitting"}
    BY <1>8 DEF Start, Admit
  <2> QED BY <1>1, <1>2, <1>3, <1>6, <2>1, <2>2 DEF ServedInv, Records, InWalk
<1>9. CASE Resolve(t)
  <2>1. walk'[t].pc \in {"applied", "idle"}
    BY <1>0, <1>9 DEF Resolve, Walks, NoWalk
  <2>2. slot' = slot /\ walk[t].pc = "resolving"
    BY <1>9 DEF Resolve
  <2> QED BY <1>1, <1>2, <1>3, <1>6, <2>1, <2>2 DEF ServedInv, Records, InWalk
<1>10. CASE Begin(t)
  <2> DEFINE k == [walk[t] EXCEPT !.target = fleet.applied, !.assigned = Assign(session)]
  <2>1. walk' = [walk EXCEPT ![t] = Onward(k, fleet)]
    BY <1>10 DEF Begin
  <2>2. k \in Walks /\ k.target = fleet.applied /\ fleet \in Fleets
    <3>1. fleet \in Fleets /\ session \in SUBSET Nodes
      BY DEF TypeInv, RestInv
    <3>2. fleet.applied \in Commits /\ Assign(session) \in [WaveIndices -> SUBSET Nodes]
      BY <3>1, AssignType DEF Fleets
    <3>3. walk[t] \in Walks
      BY <1>0
    <3>4. k \in Walks /\ k.target = fleet.applied
      BY <3>2, <3>3 DEF Walks
    <3> QED BY <3>1, <3>4
  <2>3. slot' = slot /\ fleet' = fleet /\ walk[t].pc = "applied"
    BY <1>10 DEF Begin
  <2> HIDE DEF k
  <2>4. \A n \in Nodes : slot'[t][n].state = "none"
    BY <1>6, <2>3
  <2> QED BY <1>1, <1>2, <1>7, <2>1, <2>2, <2>3, <2>4 DEF ServedInv, Records
<1>11. CASE ChooseInWalk(t)
  <2>1. PICK n, r : /\ slot' = [slot EXCEPT ![t][n] = Chosen(r)]
                    /\ walk[t].pc = "pushing" => r = DesiredFor(fleet, n)
    BY <1>11, Zenon DEF ChooseInWalk
  <2>2. UNCHANGED <<fleet, walk>> /\ walk[t].pc \in {"pushing", "rolling_back"}
    BY <1>11 DEF ChooseInWalk
  <2>3. Chosen(r).render = r
    BY DEF Chosen, NoPush
  <2>4. SlotsOfWalk'
    <3>1. \A m \in Nodes : slot'[t][m] = slot[t][m] \/ (m = n /\ slot'[t][m] = Chosen(r))
      BY <1>0, <2>1
    <3> QED BY <1>0, <2>1, <2>2, <2>3, <3>1 DEF ServedInv, SlotsOfWalk, OnTarget, DesiredFor
  <2>5. OnTarget' /\ VerdictPending'
    BY <1>0, <2>2 DEF ServedInv, OnTarget, VerdictPending
  <2> QED BY <1>1, <1>2, <2>2, <2>4, <2>5 DEF ServedInv, Records
<1>12. CASE Conclude(t)
  <2> DEFINE k == walk[t]
             f == [fleet EXCEPT !.committed = k.version]
  <2>0. k \in Walks /\ k.target \in Commits /\ k.wave \in WaveIndices /\ k.pc = "pushing"
    BY <1>0, <1>12 DEF Conclude, TypeInv, WalkInv, WalkTypes, InWalk
  <2>1. f \in Fleets /\ f.applied = fleet.applied /\ f.waveCommit = fleet.waveCommit
        /\ fleet.waveCommit \in [WaveIndices -> Commits \cup {Nothing}]
    BY <2>0 DEF TypeInv, Fleets, Walks
  <2>2. \A n \in Nodes : slot'[t][n].state = "none"
    BY <1>5, <1>12 DEF Conclude
  <2>3. k.target = fleet.applied
    BY <2>0 DEF ServedInv, OnTarget
  <2>4. CASE ~CleanSweep([n \in Rolling(t) |-> slot[t][n]])
    <3>1. walk' = [walk EXCEPT ![t] = NoWalk] /\ fleet' = fleet
      BY <1>12, <2>4 DEF Conclude
    <3>2. walk'[t].pc \notin InWalk
      BY <1>0, <3>1 DEF NoWalk, InWalk
    <3> QED BY <1>1, <1>2, <1>3, <2>2, <3>1, <3>2 DEF ServedInv, Records
  <2>5. CASE CleanSweep([n \in Rolling(t) |-> slot[t][n]])
    <3>1. \A n \in Rolling(t) : Rendered(k.target, n) \in ran[n]
      BY <2>0, <2>5, SweepServed
    <3>2. CASE k.target \in Analyzed
      <4> DEFINE j == [k EXCEPT !.pc = "analyzing", !.frozen = fleet.waveCommit[k.wave]]
      <4>1. fleet' = f /\ walk' = [walk EXCEPT ![t] = j]
        BY <1>12, <2>5, <3>2 DEF Conclude
      <4>2. /\ j.pc = "analyzing" /\ j.frozen = fleet.waveCommit[k.wave]
            /\ j.target = k.target /\ j.wave = k.wave /\ j.assigned = k.assigned
        BY <2>0 DEF Walks
      <4> HIDE DEF j, f
      <4>3. walk'[t] = j
        BY <1>0, <4>1
      <4>4. Rolling(t)' = Rolling(t)
        BY <4>2, <4>3 DEF Rolling
      <4>5. SlotsOfWalk'
        BY <1>0, <2>2 DEF SlotsOfWalk
      <4>6. OnTarget'
        BY <1>0, <2>1, <2>3, <4>1, <4>2, <4>3 DEF OnTarget
      <4>7. VerdictPending'
        BY <1>0, <2>1, <3>1, <4>1, <4>2, <4>3, <4>4 DEF VerdictPending
      <4>8. Records(t)
        BY <2>1, <4>1 DEF Records
      <4> QED BY <1>1, <1>2, <4>5, <4>6, <4>7, <4>8 DEF ServedInv
    <3>3. CASE k.target \notin Analyzed
      <4>1. fleet' = SetWaveCommit(f, k.wave, k.target) /\ walk' = [walk EXCEPT ![t] = Onward(k, f)]
        BY <1>12, <2>5, <3>3 DEF Conclude
      <4> HIDE DEF f
      <4>2. /\ fleet'.applied = fleet.applied
            /\ fleet'.waveCommit = [fleet.waveCommit EXCEPT ![k.wave] = k.target]
        BY <2>0, <2>1, <4>1, SetWaveCommitType
      <4>3. SlotsOfWalk' /\ OnTarget' /\ VerdictPending'
        BY <1>7, <2>0, <2>1, <2>2, <2>3, <4>1, <4>2
      <4>4. Records(t)
        BY <2>1, <3>1, <4>2 DEF Records, Rolling
      <4> QED BY <1>1, <1>2, <4>3, <4>4 DEF ServedInv
    <3> QED BY <3>2, <3>3
  <2> QED BY <2>4, <2>5
<1>13. CASE Pass(t)
  <2> DEFINE k == walk[t]
             f == SetWaveCommit(fleet, k.wave, k.target)
  <2>0. /\ k \in Walks /\ k.target \in Commits /\ k.wave \in WaveIndices
        /\ k.pc = "analyzing" /\ k.target = fleet.applied
    BY <1>0, <1>13 DEF Pass, TypeInv, WalkInv, WalkTypes, InWalk, ServedInv, OnTarget
  <2>1. /\ f \in Fleets /\ f.applied = fleet.applied
        /\ f.waveCommit = [fleet.waveCommit EXCEPT ![k.wave] = k.target]
        /\ fleet.waveCommit \in [WaveIndices -> Commits \cup {Nothing}]
    BY <2>0, SetWaveCommitType DEF TypeInv, Fleets
  <2>2. fleet' = f /\ walk' = [walk EXCEPT ![t] = Onward(k, f)] /\ slot' = slot
    BY <1>13 DEF Pass
  <2> HIDE DEF f
  <2>3. SlotsOfWalk' /\ OnTarget' /\ VerdictPending'
    BY <1>6, <1>7, <2>0, <2>1, <2>2
  <2>4. Records(t)
    BY <2>0, <2>1, <2>2 DEF Records, Rolling, ServedInv, VerdictPending
  <2> QED BY <1>1, <1>2, <2>3, <2>4 DEF ServedInv
<1>14. CASE Breach(t)
  <2> DEFINE k == [walk[t] EXCEPT !.pc = "rolling_back"]
  <2>1. /\ walk' = [walk EXCEPT ![t] = k] /\ slot' = slot /\ walk[t].pc = "analyzing"
        /\ fleet' = SetWaveCommit(fleet, walk[t].wave, walk[t].frozen)
    BY <1>14 DEF Breach
  <2>2. k.pc = "rolling_back"
    BY <1>0 DEF Walks
  <2> HIDE DEF k
  <2>3. walk'[t].pc = "rolling_back"
    BY <1>0, <2>1, <2>2
  <2>4. SlotsOfWalk' /\ OnTarget' /\ VerdictPending'
    BY <1>0, <1>6, <2>1, <2>3 DEF SlotsOfWalk, OnTarget, VerdictPending
  \* The record it restores is the one that was there all along.
  <2>5. fleet'.waveCommit = fleet.waveCommit
    <3>1. /\ walk[t].frozen = fleet.waveCommit[walk[t].wave] /\ walk[t].wave \in WaveIndices
          /\ fleet.waveCommit \in [WaveIndices -> Commits \cup {Nothing}]
      BY <2>1 DEF ServedInv, VerdictPending, TypeInv, WalkInv, WalkTypes, InWalk, Fleets
    <3>2. fleet'.waveCommit = [fleet.waveCommit EXCEPT ![walk[t].wave] = walk[t].frozen]
      <4>1. fleet \in Fleets /\ walk[t].frozen \in Commits \cup {Nothing}
        BY <3>1 DEF TypeInv
      <4> QED BY <2>1, <3>1, <4>1, SetWaveCommitType
    <3> QED BY <3>1, <3>2
  <2> QED BY <1>1, <1>2, <2>4, <2>5 DEF ServedInv, Records
<1>15. CASE RolledBack(t)
  <2>1. walk' = [walk EXCEPT ![t] = NoWalk] /\ fleet' = fleet /\ slot' = Cleared(t)
    BY <1>15 DEF RolledBack
  <2>2. walk'[t].pc \notin InWalk
    BY <1>0, <2>1 DEF NoWalk, InWalk
  <2> QED BY <1>1, <1>2, <1>3, <1>5, <2>1, <2>2 DEF ServedInv, Records
<1> QED BY <1>8, <1>9, <1>10, <1>11, <1>12, <1>13, <1>14, <1>15 DEF Rollout

LEMMA ServedNext ==
  ASSUME OneTrigger, TypeInv, ServedInv, [Next]_vars
  PROVE  /\ ServedInv'
         /\ \A t \in Triggers : Records(t)
<1> USE DEF history, network, control
<1>1. ASSUME fleet'.waveCommit = fleet.waveCommit PROVE \A t \in Triggers : Records(t)
  BY <1>1 DEF Records
<1>2. ASSUME NEW t \in Triggers, Rollout(t)
      PROVE  ServedInv' /\ \A u \in Triggers : Records(u)
  BY <1>2, RolloutServed DEF OneTrigger
<1>3. ASSUME NEW p \in Pushers, NEW n \in Nodes, Push(p, n)
      PROVE  ServedInv' /\ \A t \in Triggers : Records(t)
  BY <1>1, <1>3, PushServed
<1>4. ASSUME NEW n \in Nodes, Stream(n)
      PROVE  ServedInv' /\ \A t \in Triggers : Records(t)
  BY <1>1, <1>4, StreamServed
<1>5. ASSUME UNCHANGED <<fleet, walk, up, ran>>, \A t \in Triggers : slot'[t] = slot[t]
      PROVE  ServedInv' /\ \A t \in Triggers : Records(t)
  <2>1. Aside
    BY <1>5 DEF Aside, ServedInv, RanType
  <2>2. AcksServed'
    BY <1>5, AcksStay DEF ServedInv
  <2> QED BY <1>1, <1>5, <2>1, <2>2, AsideServes DEF ServedInv
<1>6. CASE Edit \/ UNCHANGED vars
  BY <1>5, <1>6 DEF Edit, vars
<1>7. ASSUME NEW n \in Nodes, Visit(n) \/ ChooseInHeal(n) \/ BreakGlass(n)
      PROVE  ServedInv' /\ \A t \in Triggers : Records(t)
  <2>1. \A t \in Triggers : slot'[t] = slot[t]
    BY <1>7, RolloutAssumption DEF Visit, ChooseInHeal, BreakGlass, Pushers, TypeInv, SlotInv
  <2> QED BY <1>5, <1>7, <2>1 DEF Visit, ChooseInHeal, BreakGlass
<1> QED BY <1>2, <1>3, <1>4, <1>6, <1>7 DEF Next

\* With one trigger in use, a wave is recorded on a commit only after every node
\* assigned to it has served its own render of that commit, whatever breaks,
\* crashes, times out or heals meanwhile. (With two it is false: see README.)
THEOREM AdvancedWavesServed == OneTrigger => (Spec => AdvancedMeansServed)
<1> DEFINE A == \A t \in Triggers, w \in WaveIndices :
                  /\ walk[t].pc \in {"pushing", "analyzing"}
                  /\ fleet.waveCommit'[w] # fleet.waveCommit[w]
                  => \A n \in walk[t].assigned[w] :
                       Rendered(fleet.waveCommit'[w], n) \in ran[n]
<1> SUFFICES ASSUME OneTrigger PROVE Spec => [][A]_vars
  BY DEF AdvancedMeansServed
<1>1. TypeInv /\ ServedInv /\ [Next]_vars => ServedInv'
  BY ServedNext
<1>2. TypeInv /\ ServedInv /\ [Next]_vars => [A]_vars
  BY ServedNext DEF Records
<1> HIDE DEF A
<1> QED BY <1>1, <1>2, TypeInvInit, TypeInvNext, ServedInvInit, PTL DEF Spec

(***************************************************************************)
(* The refinement of WaveRollout. What a rollout has still to advance is    *)
(* what its walk was assigned, from its wave on; the walk stands at a wave   *)
(* that has nodes until that wave is recorded or the walk ends.             *)
(***************************************************************************)

ToGo(k) ==
  [w \in WaveIndices |->
     IF k.pc \in {"pushing", "analyzing"} /\ k.wave <= w THEN k.assigned[w] ELSE {}]

AtNodes ==
  \A t \in Triggers : walk[t].pc \in {"pushing", "analyzing"} => Rolling(t) # {}

\* What the mapping is when one trigger is in use, now and after a step.
LEMMA ToGoIsPlan ==
  ASSUME OneTrigger, NEW t \in Triggers
  PROVE  /\ [w \in WaveIndices |-> ToAdvance(w)] = ToGo(walk[t])
         /\ [w \in WaveIndices |-> ToAdvance(w)]' = ToGo(walk'[t])
         /\ (\E u \in Triggers : walk[u].pc = "applied") <=> walk[t].pc = "applied"
         /\ (\E u \in Triggers : walk[u].pc = "applied")' <=> walk'[t].pc = "applied"
<1>1. Triggers = {t}
  BY DEF OneTrigger
<1>2. ASSUME NEW w \in WaveIndices
      PROVE  /\ ToAdvance(w) = ToGo(walk[t])[w]
             /\ ToAdvance(w)' = ToGo(walk'[t])[w]
  BY <1>1 DEF ToAdvance, ToGo
<1> QED BY <1>1, <1>2 DEF ToGo

\* Onward leaves of the plan the waves after the one it leaves, all of them.
LEMMA OnwardToGo ==
  ASSUME NEW k \in Walks, NEW f \in Fleets
  PROVE  /\ \A w \in WaveIndices :
              ToGo(Onward(k, f))[w] = IF k.wave < w THEN k.assigned[w] ELSE {}
         /\ Onward(k, f).pc \in {"idle", "pushing"}
         /\ Onward(k, f).pc = "pushing" => Onward(k, f).assigned[Onward(k, f).wave] # {}
<1> DEFINE rest == {w \in WaveIndices : w > k.wave /\ k.assigned[w] # {}}
<1>0. k.wave \in Nat /\ WaveIndices \subseteq Nat
  <2>1. k.wave \in WaveIndices \cup {0}
    BY DEF Walks
  <2>2. WaveIndices \subseteq Nat
    BY WaveIndicesNat
  <2>3. 0 \in Nat
    OBVIOUS
  <2> HIDE DEF rest
  <2> QED BY <2>1, <2>2, <2>3, Zenon
<1>1. CASE rest = {}
  <2>1. Onward(k, f) = NoWalk
    BY <1>1 DEF Onward
  <2>2. \A w \in WaveIndices : k.wave < w => k.assigned[w] = {}
    BY <1>0, <1>1
  <2> QED BY <2>1, <2>2 DEF ToGo, NoWalk
<1>2. CASE rest # {}
  <2> DEFINE v == First(rest)
  <2>1. v \in rest /\ \A w \in rest : v <= w
    <3>1. rest \in SUBSET Nat
      BY <1>0
    <3> HIDE DEF rest
    <3> QED BY <1>2, <3>1, FirstIsLeast
  <2>2. Onward(k, f) = [k EXCEPT !.pc = "pushing", !.wave = v,
                                 !.version = f.committed, !.frozen = Nothing]
    BY <1>2 DEF Onward
  <2> HIDE DEF v
  <2>3. /\ Onward(k, f).pc = "pushing" /\ Onward(k, f).wave = v
        /\ Onward(k, f).assigned = k.assigned
    BY <2>2 DEF Walks
  <2>4. ASSUME NEW w \in WaveIndices
        PROVE  (IF v <= w THEN k.assigned[w] ELSE {}) = IF k.wave < w THEN k.assigned[w] ELSE {}
    BY <1>0, <2>1
  <2> QED BY <2>1, <2>3, <2>4 DEF ToGo
<1> QED BY <1>1, <1>2

\* The end of a wave: it is the first of those to come, and served.
LEMMA AdvanceStep ==
  ASSUME OneTrigger, TypeInv, ServedInv, AtNodes, NEW t \in Triggers,
         walk[t].pc \in {"pushing", "analyzing"},
         \A n \in Rolling(t) : Rendered(walk[t].target, n) \in ran[n],
         NEW f \in Fleets, walk' = [walk EXCEPT ![t] = Onward(walk[t], f)],
         fleet'.applied = fleet.applied,
         fleet'.waveCommit = [fleet.waveCommit EXCEPT ![walk[t].wave] = walk[t].target],
         UNCHANGED ran
  PROVE  AtNodes' /\ Promise!Advance(walk[t].wave)
<1> DEFINE k == walk[t]
           w == k.wave
<1>1. /\ k \in Walks /\ w \in WaveIndices /\ k.target = fleet.applied
      /\ walk \in [Triggers -> Walks] /\ Triggers = {t} /\ WaveIndices \subseteq Nat
      /\ k.target \in Commits
  BY WaveIndicesNat DEF TypeInv, WalkInv, WalkTypes, InWalk, ServedInv, OnTarget, OneTrigger
<1>2. walk'[t] = Onward(k, f)
  BY <1>1
<1>3. AtNodes'
  BY <1>1, <1>2, OnwardToGo DEF AtNodes, Rolling
<1>4. ToGo(k)[w] = Rolling(t) /\ Rolling(t) # {} /\ Rolling(t) \subseteq Nodes
  <2>1. Rolling(t) = k.assigned[w] /\ k.assigned \in [WaveIndices -> SUBSET Nodes]
    BY <1>1 DEF Rolling, Walks
  <2>2. Rolling(t) # {}
    BY DEF AtNodes
  <2>3. w <= w
    <3>1. w \in Nat
      BY <1>1, Zenon
    <3> HIDE DEF k, w
    <3> QED BY <3>1, SMT
  <2>4. ToGo(k)[w] = IF k.pc \in {"pushing", "analyzing"} /\ w <= w THEN k.assigned[w] ELSE {}
    BY <1>1 DEF ToGo
  <2>5. k.pc \in {"pushing", "analyzing"}
    OBVIOUS
  <2> HIDE DEF k, w
  <2> QED BY <1>1, <2>1, <2>2, <2>3, <2>4, <2>5
<1>5. \A v \in WaveIndices : v < w => ToGo(k)[v] = {}
  <2>1. w \in Nat /\ \A v \in WaveIndices : v \in Nat
    BY <1>1, Zenon
  <2>2. \A v \in WaveIndices : v < w => ~(w <= v)
    <3> HIDE DEF k, w
    <3> QED BY <2>1, SMT
  <2> QED BY <2>2 DEF ToGo
<1>6. ToGo(walk'[t]) = [ToGo(k) EXCEPT ![w] = {}]
  <2>1. ASSUME NEW v \in WaveIndices PROVE ToGo(Onward(k, f))[v] = [ToGo(k) EXCEPT ![w] = {}][v]
    <3>1. ToGo(Onward(k, f))[v] = IF w < v THEN k.assigned[v] ELSE {}
      BY <1>1, OnwardToGo
    <3>2. ToGo(k)[v] = IF w <= v THEN k.assigned[v] ELSE {}
      BY <1>1 DEF ToGo
    <3>3. w <= v <=> w < v \/ w = v
      <4>1. w \in Nat /\ v \in Nat
        BY <1>1, Zenon
      <4> HIDE DEF k, w
      <4> QED BY <4>1, SMT
    <3>4. [ToGo(k) EXCEPT ![w] = {}][v] = IF v = w THEN {} ELSE ToGo(k)[v]
      BY DEF ToGo
    <3>5. w = v => ~(w < v)
      <4>1. w \in Nat
        BY <1>1, Zenon
      <4> HIDE DEF k, w
      <4> QED BY <4>1, SMT
    <3> HIDE DEF k, w
    <3> QED BY <3>1, <3>2, <3>3, <3>4, <3>5
  <2> QED BY <1>2, <2>1 DEF ToGo
<1>7. ~(walk[t].pc = "applied") /\ ~(walk'[t].pc = "applied")
  BY <1>1, <1>2, OnwardToGo
<1>8. \A n \in Rolling(t) : fleet.applied \in {c \in Commits : Rendered(c, n) \in ran[n]}
  BY <1>1
<1>9. \A v \in 1 .. w - 1 : v \in WaveIndices /\ v < w
  <2>1. w \in 1 .. Len(Waves) + 1 /\ Len(Waves) \in Nat
    BY <1>1, FleetAssumption, LenProperties DEF WaveIndices
  <2> HIDE DEF k, w
  <2> QED BY <2>1, SMT DEF WaveIndices
<1>10. /\ [v \in WaveIndices |-> ToAdvance(v)] = ToGo(k)
       /\ [v \in WaveIndices |-> ToAdvance(v)]' = [ToGo(k) EXCEPT ![w] = {}]
       /\ ~(\E u \in Triggers : walk[u].pc = "applied")
       /\ ~(\E u \in Triggers : walk[u].pc = "applied")'
  BY <1>6, <1>7, ToGoIsPlan
<1>11. UNCHANGED ran /\ fleet'.waveCommit = [fleet.waveCommit EXCEPT ![w] = fleet.applied]
  BY <1>1
<1>12. ASSUME NEW n \in Rolling(t)
       PROVE  fleet.applied \in
                [m \in Nodes |-> {c \in Commits : Rendered(c, m) \in ran[m]}][n]
  BY <1>4, <1>8
<1> DEFINE P == [v \in WaveIndices |-> ToAdvance(v)]
           D == \E u \in Triggers : walk[u].pc = "applied"
           S == [m \in Nodes |-> {c \in Commits : Rendered(c, m) \in ran[m]}]
<1>13. P[w] = Rolling(t) /\ P[w] # {} /\ \A v \in 1 .. w - 1 : P[v] = {}
  <2> HIDE DEF k, w
  <2> QED BY <1>4, <1>5, <1>9, <1>10, Zenon DEF P
<1>14. \A n \in P[w] : fleet.applied \in S[n]
  BY <1>12, <1>13, Zenon DEF S
<1>15. P' = [P EXCEPT ![w] = {}]
  BY <1>10, Zenon DEF P
<1>16. UNCHANGED <<fleet.applied, D, S>>
  <2>1. D' = D
    BY <1>10, Zenon DEF D
  <2>2. S' = S
    BY <1>11 DEF S
  <2> QED BY <2>1, <2>2
<1>17. Promise!Advance(w)
  <2> HIDE DEF k, w
  <2> QED BY <1>11, <1>13, <1>14, <1>15, <1>16, Zenon DEF Promise!Advance, P, S, D
<1> QED BY <1>3, <1>17

\* A step that changes neither records, nor what was served, nor the walks.
LEMMA PromiseStands ==
  ASSUME fleet'.applied = fleet.applied, fleet'.waveCommit = fleet.waveCommit,
         \A t \in Triggers :
           /\ walk'[t].pc = walk[t].pc /\ walk'[t].wave = walk[t].wave
           /\ walk'[t].assigned = walk[t].assigned
  PROVE  /\ UNCHANGED <<fleet.applied, fleet.waveCommit,
                        \E t \in Triggers : walk[t].pc = "applied",
                        [w \in WaveIndices |-> ToAdvance(w)]>>
         /\ AtNodes => AtNodes'
<1>1. \A w \in WaveIndices : ToAdvance(w)' = ToAdvance(w)
  BY DEF ToAdvance
<1>2. [w \in WaveIndices |-> ToAdvance(w)]' = [w \in WaveIndices |-> ToAdvance(w)]
  BY <1>1
<1>3. (\E t \in Triggers : walk[t].pc = "applied")' = \E t \in Triggers : walk[t].pc = "applied"
  OBVIOUS
<1> QED BY <1>2, <1>3 DEF AtNodes, Rolling

\* The steps of the one walk, seen as steps of the promise.
LEMMA RolloutWaves ==
  ASSUME OneTrigger, TypeInv, ServedInv, AtNodes, NEW t \in Triggers, Rollout(t)
  PROVE  AtNodes' /\ [Promise!Next]_(Promise!vars)
<1> USE DEF history, network
<1> DEFINE P == [w \in WaveIndices |-> ToAdvance(w)]
           D == \E u \in Triggers : walk[u].pc = "applied"
           S == [n \in Nodes |-> {c \in Commits : Rendered(c, n) \in ran[n]}]
           None == [w \in WaveIndices |-> {}]
<1>0. /\ walk \in [Triggers -> Walks] /\ Triggers = {t} /\ walk[t] \in Walks
      /\ UNCHANGED ran /\ fleet \in Fleets /\ None = Promise!Done
  BY DEF TypeInv, WalkInv, OneTrigger, Rollout, Start, Admit, Resolve, Begin, ChooseInWalk,
         Conclude, Pass, Breach, RolledBack, Promise!Done, WaveIndices
<1>1. /\ P = ToGo(walk[t]) /\ P' = ToGo(walk'[t])
      /\ D <=> walk[t].pc = "applied"
      /\ D' <=> walk'[t].pc = "applied"
  BY ToGoIsPlan
<1>2. S' = S
  BY <1>0
<1>3. \A k : k.pc \notin {"pushing", "analyzing"} => ToGo(k) = None
  BY DEF ToGo
<1>4. walk'[t].pc \notin {"pushing", "analyzing"} => AtNodes'
  BY <1>0 DEF AtNodes
<1>5. ASSUME fleet' = fleet, P' = P, D' = D PROVE [Promise!Next]_(Promise!vars)
  <2> HIDE DEF P, D, S
  <2>1. UNCHANGED <<fleet.applied, D, P, fleet.waveCommit, S>>
    BY <1>2, <1>5
  <2> QED BY <2>1 DEF Promise!vars, P, D, S
<1>6. ASSUME P # None, P' = None, D' = D, fleet'.applied = fleet.applied,
             fleet'.waveCommit = fleet.waveCommit
      PROVE  [Promise!Next]_(Promise!vars)
  <2>1. UNCHANGED <<fleet.applied, D, fleet.waveCommit, S>>
    <3> HIDE DEF P, D, S
    <3> QED BY <1>2, <1>6
  <2>2. Promise!Stop
    <3> HIDE DEF None
    <3> QED BY <1>0, <1>6, <2>1, Zenon DEF Promise!Stop
  <2> QED BY <2>2 DEF Promise!Next
<1>7. CASE Start(t) \/ Admit(t) \/ RolledBack(t)
  <2>1. /\ walk[t].pc \in {"idle", "admitting", "rolling_back"}
        /\ walk'[t].pc \in {"idle", "admitting", "resolving"}
        /\ fleet' = fleet
    BY <1>0, <1>7 DEF Start, Admit, RolledBack, NoWalk, Walks
  <2>2. P' = P /\ D' = D
    BY <1>1, <1>3, <2>1
  <2> QED BY <1>4, <1>5, <2>1, <2>2
<1>8. CASE ChooseInWalk(t)
  <2>1. UNCHANGED <<fleet, walk>>
    BY <1>8 DEF ChooseInWalk
  <2>2. P' = P /\ D' = D /\ AtNodes'
    BY <1>1, <2>1 DEF AtNodes, Rolling
  <2> QED BY <1>5, <2>1, <2>2
<1>9. CASE Resolve(t)
  <2>1. CASE repo \in Renderable \ {fleet.applied}
    <3>1. /\ fleet'.applied = repo /\ fleet'.waveCommit = fleet.waveCommit
          /\ walk[t].pc = "resolving" /\ walk'[t].pc = "applied"
          /\ repo \in Commits \ {fleet.applied}
      BY <1>0, <1>9, <2>1, RolloutAssumption DEF Resolve, Fleets, Walks
    <3>2. P = None /\ P' = None /\ D = FALSE /\ D' = TRUE
      BY <1>1, <1>3, <3>1
    <3>3. Promise!Apply
      <4> HIDE DEF None
      <4> QED BY <1>0, <1>2, <3>1, <3>2, Zenon DEF Promise!Apply
    <3> QED BY <1>4, <3>1, <3>3 DEF Promise!Next
  <2>2. CASE repo \notin Renderable \ {fleet.applied}
    <3>1. fleet' = fleet /\ walk[t].pc = "resolving" /\ walk'[t].pc = "idle"
      BY <1>0, <1>9, <2>2 DEF Resolve, NoWalk
    <3>2. P' = P /\ D' = D
      BY <1>1, <1>3, <3>1
    <3> QED BY <1>4, <1>5, <3>1, <3>2
  <2> QED BY <2>1, <2>2
<1>10. CASE Begin(t)
  <2> DEFINE k == [walk[t] EXCEPT !.target = fleet.applied, !.assigned = Assign(session)]
  <2>1. walk'[t] = Onward(k, fleet) /\ fleet' = fleet /\ walk[t].pc = "applied"
    BY <1>0, <1>10 DEF Begin
  <2>2. k \in Walks /\ k.assigned = Assign(session) /\ Assign(session) \in [WaveIndices -> SUBSET Nodes]
    <3>1. Assign(session) \in [WaveIndices -> SUBSET Nodes] /\ fleet.applied \in Commits
      BY AssignType DEF TypeInv, RestInv, Fleets
    <3> QED BY <1>0, <3>1 DEF Walks
  <2> HIDE DEF k
  <2>3. /\ \A w \in WaveIndices : P'[w] = IF k.wave < w THEN Assign(session)[w] ELSE {}
        /\ D = TRUE /\ D' = FALSE
    <3>1. \A w \in WaveIndices :
            ToGo(Onward(k, fleet))[w] = IF k.wave < w THEN k.assigned[w] ELSE {}
      BY <1>0, <2>2, OnwardToGo
    <3>2. walk'[t].pc # "applied"
      BY <1>0, <2>1, <2>2, OnwardToGo
    <3> HIDE DEF P, D
    <3> QED BY <1>1, <2>1, <2>2, <3>1, <3>2
  <2>4. P' \in [WaveIndices -> SUBSET Nodes]
    BY <2>2, <2>3
  <2>5. ASSUME NEW v \in WaveIndices, NEW w \in WaveIndices, v # w PROVE P'[v] \cap P'[w] = {}
    <3>1. Assign(session)[v] \cap Assign(session)[w] = {}
      BY <2>5 DEF Assign
    <3> QED BY <2>3, <3>1
  <2>6. fleet.applied' = fleet.applied /\ fleet.waveCommit' = fleet.waveCommit
    BY <2>1
  <2>7. WaveIndices = 1 .. Len(Waves) + 1
    BY DEF WaveIndices
  <2>8. Promise!Begin
    BY <1>2, <2>3, <2>4, <2>5, <2>6, <2>7, Zenon DEF Promise!Begin
  <2>9. AtNodes'
    BY <1>0, <2>1, <2>2, OnwardToGo DEF AtNodes, Rolling
  <2> QED BY <2>8, <2>9 DEF Promise!Next
<1>11. P # None <=> walk[t].pc \in {"pushing", "analyzing"}
  <2>1. CASE walk[t].pc \in {"pushing", "analyzing"}
    <3>1. Rolling(t) # {} /\ walk[t].wave \in WaveIndices /\ walk[t].wave \in Nat
      BY <2>1, WaveIndicesNat DEF AtNodes, TypeInv, WalkInv, WalkTypes, InWalk
    <3>2. walk[t].wave <= walk[t].wave
      BY <3>1
    <3>3. ToGo(walk[t])[walk[t].wave] # {}
      BY <2>1, <3>1, <3>2 DEF ToGo, Rolling
    <3> QED BY <1>1, <2>1, <3>1, <3>3
  <2>2. CASE walk[t].pc \notin {"pushing", "analyzing"}
    BY <1>1, <1>3, <2>2
  <2> QED BY <2>1, <2>2
<1>12. CASE Conclude(t)
  <2> DEFINE k == walk[t]
             f == [fleet EXCEPT !.committed = k.version]
  <2>1. /\ k.pc = "pushing" /\ k.wave \in WaveIndices /\ k.target \in Commits
        /\ f \in Fleets /\ f.applied = fleet.applied /\ f.waveCommit = fleet.waveCommit
    BY <1>0, <1>12 DEF Conclude, TypeInv, WalkInv, WalkTypes, InWalk, Fleets, Walks
  <2>2. CASE ~CleanSweep([n \in Rolling(t) |-> slot[t][n]])
    <3>1. walk'[t].pc = "idle" /\ fleet' = fleet
      BY <1>0, <1>12, <2>2 DEF Conclude, NoWalk
    <3>2. P # None /\ P' = None /\ D' = D
      BY <1>1, <1>3, <1>11, <2>1, <3>1
    <3> QED BY <1>4, <1>6, <3>1, <3>2
  <2>3. CASE CleanSweep([n \in Rolling(t) |-> slot[t][n]])
    <3>1. CASE k.target \in Analyzed
      <4> DEFINE j == [k EXCEPT !.pc = "analyzing", !.frozen = fleet.waveCommit[k.wave]]
      <4>1. fleet' = f /\ walk' = [walk EXCEPT ![t] = j]
        BY <1>12, <2>3, <3>1 DEF Conclude
      <4>2. j.pc = "analyzing" /\ j.wave = k.wave /\ j.assigned = k.assigned
        BY <1>0 DEF Walks
      <4> HIDE DEF j
      <4>3. walk'[t] = j
        BY <1>0, <4>1
      <4>4. ToGo(j) = ToGo(k)
        BY <2>1, <4>2 DEF ToGo
      <4>5. P' = P /\ D' = D /\ UNCHANGED S
        BY <1>1, <1>2, <2>1, <4>2, <4>3, <4>4
      <4>6. UNCHANGED <<fleet.applied, D, P, fleet.waveCommit, S>>
        <5> HIDE DEF P, D, S, f
        <5> QED BY <2>1, <4>1, <4>5
      <4>7. AtNodes'
        BY <1>0, <2>1, <4>2, <4>3 DEF AtNodes, Rolling
      <4> QED BY <4>6, <4>7 DEF Promise!vars
    <3>2. CASE k.target \notin Analyzed
      <4>1. fleet' = SetWaveCommit(f, k.wave, k.target) /\ walk' = [walk EXCEPT ![t] = Onward(k, f)]
        BY <1>12, <2>3, <3>2 DEF Conclude
      <4> HIDE DEF f
      <4>2. /\ fleet'.applied = fleet.applied
            /\ fleet'.waveCommit = [fleet.waveCommit EXCEPT ![k.wave] = k.target]
        BY <2>1, <4>1, SetWaveCommitType
      <4>3. AtNodes' /\ Promise!Advance(k.wave)
        BY <1>0, <2>1, <2>3, <4>1, <4>2, SweepServed, AdvanceStep
      <4> QED BY <2>1, <4>3 DEF Promise!Next, WaveIndices
    <3> QED BY <3>1, <3>2
  <2> QED BY <2>2, <2>3
<1>13. CASE Pass(t)
  <2> DEFINE k == walk[t]
             f == SetWaveCommit(fleet, k.wave, k.target)
  <2>1. /\ k.pc = "analyzing" /\ k.wave \in WaveIndices /\ k.target \in Commits
        /\ \A n \in Rolling(t) : Rendered(k.target, n) \in ran[n]
    BY <1>13 DEF Pass, TypeInv, WalkInv, WalkTypes, InWalk, ServedInv, VerdictPending
  <2>2. /\ f \in Fleets /\ f.applied = fleet.applied
        /\ f.waveCommit = [fleet.waveCommit EXCEPT ![k.wave] = k.target]
    BY <1>0, <2>1, SetWaveCommitType
  <2>3. fleet' = f /\ walk' = [walk EXCEPT ![t] = Onward(k, f)]
    BY <1>13 DEF Pass
  <2> HIDE DEF f
  <2>4. AtNodes' /\ Promise!Advance(k.wave)
    BY <1>0, <2>1, <2>2, <2>3, AdvanceStep
  <2> QED BY <2>1, <2>4 DEF Promise!Next, WaveIndices
\* A verdict against the wave restores the record that was there all along.
<1>14. CASE Breach(t)
  <2>1. /\ walk[t].pc = "analyzing" /\ walk'[t].pc = "rolling_back"
        /\ fleet' = SetWaveCommit(fleet, walk[t].wave, walk[t].frozen)
    BY <1>0, <1>14 DEF Breach, Walks
  <2>2. /\ walk[t].frozen = fleet.waveCommit[walk[t].wave] /\ walk[t].wave \in WaveIndices
        /\ fleet.waveCommit \in [WaveIndices -> Commits \cup {Nothing}]
    BY <2>1 DEF ServedInv, VerdictPending, TypeInv, WalkInv, WalkTypes, InWalk, Fleets
  <2>3. walk[t].frozen \in Commits \cup {Nothing}
    BY <2>2
  <2>4. /\ fleet'.applied = fleet.applied
        /\ fleet'.waveCommit = [fleet.waveCommit EXCEPT ![walk[t].wave] = walk[t].frozen]
    BY <1>0, <2>1, <2>2, <2>3, SetWaveCommitType
  <2>5. fleet'.waveCommit = fleet.waveCommit
    BY <2>2, <2>4
  <2>6. P # None /\ P' = None /\ D' = D
    BY <1>1, <1>3, <1>11, <2>1
  <2> QED BY <1>4, <1>6, <2>1, <2>4, <2>5, <2>6
<1> QED BY <1>7, <1>8, <1>9, <1>10, <1>12, <1>13, <1>14 DEF Rollout

\* A node that binds a push has served one commit more, or none.
LEMMA StreamWaves ==
  ASSUME TypeInv, ServedInv, NEW n \in Nodes, Stream(n)
  PROVE  [Promise!Next]_(Promise!vars) /\ (AtNodes => AtNodes')
<1> USE DEF history, control
<1> DEFINE S == [m \in Nodes |-> {c \in Commits : Rendered(c, m) \in ran[m]}]
<1>1. /\ UNCHANGED <<fleet, walk>> /\ ran \in [Nodes -> SUBSET Renders]
      /\ down \in [Nodes -> Seq(Pushed)]
  BY DEF TypeInv, StreamTypes, ServedInv, RanType, Stream, Drop, Crash, Teardown, Reconnect,
         Bind, RefuseFirst, Heartbeat, Receive
<1>2. /\ UNCHANGED <<fleet.applied, fleet.waveCommit,
                     \E t \in Triggers : walk[t].pc = "applied",
                     [w \in WaveIndices |-> ToAdvance(w)]>>
      /\ AtNodes => AtNodes'
  BY <1>1, PromiseStands
<1>3. CASE ran' = ran
  BY <1>2, <1>3 DEF Promise!vars
<1>4. CASE ran' # ran
  <2>1. PICK r \in Renders : ran' = [ran EXCEPT ![n] = @ \cup {r}]
    <3>1. /\ Bind(n) /\ down[n] # <<>>
          /\ ran' = [ran EXCEPT ![n] = @ \cup {Head(down[n]).render}]
      BY <1>4 DEF Stream, Drop, Crash, Teardown, Reconnect, Bind, RefuseFirst, Heartbeat, Receive
    <3>2. Head(down[n]) \in Pushed
      BY <1>1, <3>1, QueueEnds
    <3>3. Head(down[n]).render \in Renders
      BY <3>2 DEF Pushed
    <3> QED BY <3>1, <3>3
  <2>2. r.commit \in Commits /\ \A c \in Commits : Rendered(c, n) = r => c = r.commit
    BY DEF Renders, Rendered
  <2>3. CASE r = Rendered(r.commit, n)
    <3>1. S' = [S EXCEPT ![n] = @ \cup {r.commit}]
      <4>1. ASSUME NEW m \in Nodes PROVE S'[m] = [S EXCEPT ![n] = @ \cup {r.commit}][m]
        BY <1>1, <2>1, <2>2, <2>3
      <4> QED BY <4>1
    <3>2. Promise!Serve
      BY <1>2, <2>2, <3>1, Zenon DEF Promise!Serve
    <3> QED BY <1>2, <3>2 DEF Promise!Next
  <2>4. CASE r # Rendered(r.commit, n)
    <3>1. S' = S
      <4>1. ASSUME NEW m \in Nodes PROVE S'[m] = S[m]
        BY <1>1, <2>1, <2>2, <2>4
      <4> QED BY <4>1
    <3> QED BY <1>2, <3>1, Zenon DEF Promise!vars
  <2> QED BY <2>3, <2>4
<1> QED BY <1>3, <1>4

LEMMA WavesNext ==
  ASSUME OneTrigger, TypeInv, ServedInv, AtNodes, [Next]_vars
  PROVE  AtNodes' /\ [Promise!Next]_(Promise!vars)
<1> USE DEF history, network, control
<1>1. ASSUME fleet'.applied = fleet.applied, fleet'.waveCommit = fleet.waveCommit, UNCHANGED ran,
             \A t \in Triggers :
               /\ walk'[t].pc = walk[t].pc /\ walk'[t].wave = walk[t].wave
               /\ walk'[t].assigned = walk[t].assigned
      PROVE  AtNodes' /\ [Promise!Next]_(Promise!vars)
  BY <1>1, PromiseStands DEF Promise!vars
<1>2. ASSUME NEW p \in Pushers, NEW n \in Nodes, Push(p, n)
      PROVE  AtNodes' /\ [Promise!Next]_(Promise!vars)
  <2>1. fleet'.applied = fleet.applied /\ fleet'.waveCommit = fleet.waveCommit /\ UNCHANGED ran
    <3>1. CASE Number(p, n)
      <4>1. slot[p][n].render \in Renders
        BY <3>1 DEF Number, TypeInv, SlotInv, SlotTypes
      <4> QED BY <3>1, <4>1, NextVersionGrows DEF Number, TypeInv
    <3> QED BY <1>2, <3>1 DEF Push, Send, TimeOut
  <2>2. walk' = walk \/ \E v : walk' = [walk EXCEPT ![p].version = v]
    BY <1>2 DEF Push, Number, Send, TimeOut
  <2>3. walk \in [Triggers -> Walks]
    BY DEF TypeInv, WalkInv
  <2>4. \A t \in Triggers :
          /\ walk'[t].pc = walk[t].pc /\ walk'[t].wave = walk[t].wave
          /\ walk'[t].assigned = walk[t].assigned
    BY <2>2, <2>3 DEF Walks
  <2> QED BY <1>1, <2>1, <2>4
<1>3. CASE Edit \/ UNCHANGED vars
  BY <1>1, <1>3 DEF Edit, vars
<1>4. ASSUME NEW n \in Nodes, Visit(n) \/ ChooseInHeal(n) \/ BreakGlass(n)
      PROVE  AtNodes' /\ [Promise!Next]_(Promise!vars)
  BY <1>1, <1>4 DEF Visit, ChooseInHeal, BreakGlass
<1> QED BY <1>2, <1>3, <1>4, RolloutWaves, StreamWaves DEF Next

LEMMA WavesInit == Init => AtNodes /\ Promise!Init
<1> SUFFICES ASSUME Init PROVE AtNodes /\ Promise!Init
  OBVIOUS
<1>1. \A t \in Triggers : walk[t].pc = "idle"
  BY DEF Init, NoWalk
<1>2. AtNodes
  BY <1>1 DEF AtNodes
<1>3. [w \in WaveIndices |-> ToAdvance(w)] = [w \in WaveIndices |-> {}]
  BY <1>1 DEF ToAdvance
<1>4. [n \in Nodes |-> {c \in Commits : Rendered(c, n) \in ran[n]}] = [n \in Nodes |-> {Initial}]
  <2>1. ASSUME NEW n \in Nodes PROVE {c \in Commits : Rendered(c, n) \in ran[n]} = {Initial}
    BY FleetAssumption DEF Init, Rendered
  <2> QED BY <2>1
<1>5. fleet.applied = Initial /\ fleet.waveCommit = [w \in WaveIndices |-> Nothing]
  BY DEF Init
<1> QED BY <1>1, <1>2, <1>3, <1>4, <1>5, Zenon DEF Promise!Init, Promise!Done, WaveIndices

\* With one trigger in use, what the control plane does to its waves is what
\* WaveRollout allows: one rollout per applied commit, waves in order, each on all of
\* its nodes having served the commit, and nothing more after a halt.
THEOREM RolloutIsByWaves == OneTrigger => (Spec => ImplementsWaves)
<1> SUFFICES ASSUME OneTrigger PROVE Spec => ImplementsWaves
  OBVIOUS
<1>1. TypeInv /\ ServedInv /\ [Next]_vars => ServedInv'
  BY ServedNext
<1>2. TypeInv /\ ServedInv /\ AtNodes /\ [Next]_vars => AtNodes' /\ [Promise!Next]_(Promise!vars)
  BY WavesNext
<1> QED
  BY <1>1, <1>2, TypeInvInit, TypeInvNext, ServedInvInit, WavesInit, PTL
  DEF Spec, ImplementsWaves, Promise!Spec

=============================================================================
