--------------------------- MODULE MitigationProofs ---------------------------
(***************************************************************************)
(* Proofs about the whole cycle, for any nodes, plans, losses and crashes: *)
(* the composition is still the detector of module Detector, and what the  *)
(* status line shows as enforced is.                                       *)
(***************************************************************************)
EXTENDS Mitigation, DetectorProofs, WellFoundedInduction

Blocks == {p.block : p \in Plans}
Commands == [to : Known, block : Blocks]

(* What may have become of a CONTROL packet once it is sent. *)
Handled(c) ==
  \/ c.block <= 0
  \/ c.to \notin alive
  \/ c.block \in acl[c.to]
  \/ c \in control \cup lost

(* The same after a step. *)
HandledNext(c) ==
  \/ c.block <= 0
  \/ c.to \notin alive'
  \/ c.block \in acl'[c.to]
  \/ c \in control' \cup lost'

Command(core, plan) == [to |-> core, block |-> plan[1].block]

(* What a worker has listed so far was sent. *)
SentHandled ==
  \A w \in Slots : worker[w].stage = "enforce" =>
    \A i \in DOMAIN worker[w].sent : Handled(Command(worker[w].sent[i], worker[w].plan))

ControlTyped == control \subseteq Commands

MInv ==
  /\ MTypeOK
  /\ ControlTyped
  /\ SentHandled
  /\ ShownMeansEnforced

-----------------------------------------------------------------------------
(* There is a least queue size. *)
LEMMA FloorIsLevel == Floor \in Levels
<1>1. Levels \in SUBSET Nat /\ Levels # {}
  BY DetectorAssumption, MitigationAssumption
<1> DEFINE R == {ss \in Nat \X Nat : ss[1] < ss[2]}
<1>2. IsWellFoundedOn(R, Nat)
  BY NatLessThanWellFounded, Zenon DEF OpToRel
<1>3. PICK x \in Levels : \A y \in Levels : ~ (<<y, x>> \in R)
  <2> HIDE DEF R
  <2> QED
    BY <1>1, <1>2, WFMin
<1>4. ASSUME NEW y \in Levels PROVE x <= y
  <2>1. x \in Nat /\ y \in Nat /\ ~ (y < x)
    BY <1>1, <1>3
  <2> QED
    BY <2>1
<1> QED
  BY <1>4 DEF Floor

(* Every step of the cycle is a step of the detector or leaves it alone. *)
LEMMA StepsMap == MTypeOK /\ [MNext]_mvars => [Next]_vars
<1> SUFFICES ASSUME MTypeOK, [MNext]_mvars PROVE [Next]_vars
  OBVIOUS
<1>1. CASE ControlPlane
  BY <1>1 DEF ControlPlane, Next
<1>2. ASSUME NEW n \in Nodes, SendHeartbeat(n) PROVE Next
  BY <1>2 DEF SendHeartbeat, MTypeOK, Next
<1>3. ASSUME NEW c \in control, DeliverControl(c) \/ LoseControl(c) PROVE Next
  BY <1>3 DEF DeliverControl, LoseControl, Next
<1>4. CASE Flood \/ StopFlood \/ \E n \in Nodes : DrainQueue(n) \/ Crash(n)
  BY <1>4 DEF Flood, StopFlood, DrainQueue, Crash
<1>5. CASE UNCHANGED mvars
  BY <1>5 DEF mvars
<1> QED
  BY <1>1, <1>2, <1>3, <1>4, <1>5 DEF MNext

-----------------------------------------------------------------------------
LEMMA MInitHolds == ASSUME MInit PROVE IInv /\ MInv
<1>1. IInv
  BY InitInv DEF MInit
<1>2. MTypeOK /\ ControlTyped
  BY FloorIsLevel DEF MInit, Init, MTypeOK, ControlTyped
<1>3. SentHandled
  BY DEF MInit, Init, SentHandled, NoWorker
<1>4. ShownMeansEnforced
  BY DEF MInit, Init, ShownMeansEnforced
<1> QED
  BY <1>1, <1>2, <1>3, <1>4 DEF MInv

(* The two properties after a step, without the primes.                     *)
LEMMA SentNext ==
  SentHandled' <=>
    \A w \in Slots : worker'[w].stage = "enforce" =>
      \A i \in DOMAIN worker'[w].sent :
        HandledNext(Command(worker'[w].sent[i], worker'[w].plan))
  BY DEF SentHandled, Handled, HandledNext, Command

LEMMA ShownNext ==
  ShownMeansEnforced' <=>
    (aiState' = "done" =>
       \A i \in DOMAIN enforced' : HandledNext(Command(enforced'[i], strategy')))
  BY DEF ShownMeansEnforced, HandledNext, Command

(* As long as what was handled stays handled and neither the workers nor    *)
(* the status line change, the two properties stay.                         *)
LEMMA Framed ==
  ASSUME SentHandled, ShownMeansEnforced, UNCHANGED <<worker, aiVars>>,
         \A c : Handled(c) => HandledNext(c)
  PROVE  SentHandled' /\ ShownMeansEnforced'
<1>1. SentHandled'
  BY SentNext DEF SentHandled
<1>2. aiState = "done" => \A i \in DOMAIN enforced : Handled(Command(enforced[i], strategy))
  BY DEF ShownMeansEnforced, Handled, Command
<1>3. ShownMeansEnforced'
  BY <1>2, ShownNext DEF aiVars
<1> QED
  BY <1>1, <1>3

(* A step that changes neither nodes nor losses, and only adds commands.    *)
LEMMA StaysHandled ==
  ASSUME UNCHANGED <<alive, acl>>, control \subseteq control', lost' = lost,
         NEW c, Handled(c)
  PROVE  HandledNext(c)
  BY DEF Handled, HandledNext

-----------------------------------------------------------------------------
(* The worker.  It knows what it sent; what it publishes is that.           *)
LEMMA WorkerKeeps ==
  ASSUME IInv, MInv, NEW w \in Slots, Worker(w), UNCHANGED nodeVars, lost' = lost
  PROVE  ControlTyped' /\ SentHandled' /\ ShownMeansEnforced'
<1>1. worker \in [Slots -> WorkerState] /\ Progress(worker[w])
  BY DEF IInv, Typed, WorkersProgress
<1>2. ASSUME control' = control, NEW c, Handled(c) PROVE HandledNext(c)
  BY <1>2, StaysHandled DEF nodeVars
<1>3. CASE \/ StartWorker(w) \/ Analyze(w) \/ CallFails(w)
           \/ At(w, "strategize") /\ Goes(w, "strategize_retry")
  <2>1. PICK next \in Stages \ {"enforce"} : Goes(w, next)
    BY <1>3 DEF StartWorker, Analyze, CallFails, Stages
  <2>2. /\ worker' = [worker EXCEPT ![w].stage = next]
        /\ UNCHANGED <<control, aiVars>>
    BY <2>1 DEF Goes
  <2>3. \A v \in Slots : worker'[v].stage = "enforce" => worker'[v] = worker[v]
    BY <1>1, <2>2 DEF WorkerState
  <2>4. SentHandled'
    BY <1>2, <2>2, <2>3, SentNext DEF MInv, SentHandled, Command
  <2>5. ShownMeansEnforced'
    BY <2>2 DEF MInv, ShownMeansEnforced, aiVars, nodeVars
  <2> QED
    BY <2>2, <2>4, <2>5 DEF MInv, ControlTyped
<1>4. CASE /\ At(w, "strategize") \/ At(w, "strategize_retry")
           /\ \E p \in Plans :
                worker' = [worker EXCEPT ![w].stage = "enforce",
                             ![w].plan = <<p>>, ![w].todo = p.cores]
           /\ UNCHANGED <<heartbeats, mainVars, aiVars, control, calm, wire>>
  <2>1. worker[w].sent = <<>>
    BY <1>1, <1>4 DEF Progress, At
  <2>2. DOMAIN worker'[w].sent = {}
    <3>1. worker'[w].sent = worker[w].sent
      BY <1>1, <1>4 DEF WorkerState
    <3>2. worker[w].sent \in Seq(Int) /\ Len(worker[w].sent) = 0
      BY <1>1, <2>1, EmptySeq DEF WorkerState
    <3> QED
      BY <3>1, <3>2
  <2>3. \A v \in Slots \ {w} : worker'[v] = worker[v]
    BY <1>1, <1>4
  <2>4. SentHandled'
    BY <1>2, <1>4, <2>2, <2>3, SentNext DEF MInv, SentHandled, Command
  <2>5. ShownMeansEnforced'
    BY <1>4 DEF MInv, ShownMeansEnforced, aiVars, nodeVars
  <2> QED
    BY <1>4, <2>4, <2>5 DEF MInv, ControlTyped
<1>5. CASE SendControl(w)
  <2> DEFINE c == Head(worker[w].todo)
             old == worker[w]
  <2>1. /\ old.stage = "enforce" /\ old.todo # <<>> /\ c \in Known
        /\ control' = control \cup {Command(c, old.plan)}
        /\ worker' = [worker EXCEPT ![w].todo = Tail(@), ![w].sent = Append(@, c)]
        /\ UNCHANGED aiVars
    BY <1>5 DEF SendControl, At, Command
  <2>2. old \in WorkerState /\ old.sent \in Seq(Int) /\ c \in Int
    <3>1. old \in WorkerState
      BY <1>1
    <3>2. old.todo \in Seq(Int) /\ old.sent \in Seq(Int)
      BY <3>1 DEF WorkerState
    <3> QED
      BY <2>1, <3>1, <3>2
  <2>3. ASSUME NEW d, Handled(d) PROVE HandledNext(d)
    BY <2>1, <2>3, StaysHandled DEF nodeVars
  <2>4. HandledNext(Command(c, old.plan))
    BY <2>1 DEF HandledNext, Command
  <2>5. /\ worker'[w].sent = Append(old.sent, c) /\ worker'[w].plan = old.plan
        /\ \A v \in Slots \ {w} : worker'[v] = worker[v]
    BY <1>1, <2>1 DEF WorkerState
  <2>6. ASSUME NEW i \in DOMAIN worker'[w].sent
        PROVE  HandledNext(Command(worker'[w].sent[i], worker'[w].plan))
    <3>1. i \in 1 .. Len(old.sent) + 1
      BY <2>2, <2>5
    <3>2. CASE i = Len(old.sent) + 1
      <4>1. worker'[w].sent[i] = c
        BY <2>2, <2>5, <3>2
      <4> HIDE DEF c, old
      <4> QED
        BY <2>4, <2>5, <4>1
    <3>3. CASE i \in 1 .. Len(old.sent)
      <4>1. worker'[w].sent[i] = old.sent[i] /\ i \in DOMAIN old.sent
        BY <2>2, <2>5, <3>3
      <4>2. Handled(Command(old.sent[i], old.plan))
        BY <2>1, <4>1 DEF MInv, SentHandled
      <4> HIDE DEF c, old
      <4>3. HandledNext(Command(old.sent[i], old.plan))
        BY <2>3, <4>2
      <4> QED
        BY <2>5, <4>1, <4>3
    <3> QED
      BY <2>2, <3>1, <3>2, <3>3
  <2>7. SentHandled'
    BY <2>3, <2>5, <2>6, SentNext DEF MInv, SentHandled, Command
  <2>8. ShownMeansEnforced'
    BY <2>1 DEF MInv, ShownMeansEnforced, aiVars, nodeVars
  <2>9. Command(c, old.plan) \in Commands
    <3>1. old.plan \in Seq(Plans) /\ old.plan # <<>>
      BY <1>1, <2>1, <2>2 DEF Progress, WorkerState
    <3>2. old.plan[1] \in Plans
      BY <3>1
    <3> QED
      BY <2>1, <3>2 DEF Command, Commands, Blocks
  <2> QED
    BY <2>1, <2>7, <2>8, <2>9 DEF MInv, ControlTyped
<1>6. CASE SkipCore(w)
  <2>1. /\ worker' = [worker EXCEPT ![w].todo = Tail(@)]
        /\ UNCHANGED <<control, aiVars>>
    BY <1>6 DEF SkipCore
  <2>2. \A v \in Slots : /\ worker'[v].stage = worker[v].stage
                         /\ worker'[v].sent = worker[v].sent
                         /\ worker'[v].plan = worker[v].plan
    BY <1>1, <2>1 DEF WorkerState
  <2>3. SentHandled'
    BY <1>2, <2>1, <2>2, SentNext DEF MInv, SentHandled, Command
  <2>4. ShownMeansEnforced'
    BY <2>1 DEF MInv, ShownMeansEnforced, aiVars, nodeVars
  <2> QED
    BY <2>1, <2>3, <2>4 DEF MInv, ControlTyped
<1>7. CASE PublishDone(w) \/ PublishFailed(w)
  <2>1. worker' = [worker EXCEPT ![w] = NoWorker] /\ control' = control
    BY <1>7 DEF PublishDone, PublishFailed
  <2>2. \A v \in Slots : worker'[v].stage = "enforce" => worker'[v] = worker[v]
    BY <1>1, <2>1 DEF NoWorker
  <2>3. SentHandled'
    BY <1>2, <2>1, <2>2, SentNext DEF MInv, SentHandled, Command
  <2>4. CASE PublishDone(w)
    <3>1. /\ worker[w].stage = "enforce" /\ enforced' = worker[w].sent
          /\ strategy' = worker[w].plan
      BY <2>4 DEF PublishDone, At
    <3>2. \A i \in DOMAIN enforced' : Handled(Command(worker[w].sent[i], worker[w].plan))
      BY <3>1 DEF MInv, SentHandled
    <3>3. ShownMeansEnforced'
      BY <1>2, <2>1, <3>1, <3>2, ShownNext
    <3> QED
      BY <2>1, <2>3, <3>3 DEF MInv, ControlTyped
  <2>5. CASE PublishFailed(w)
    BY <2>1, <2>3, <2>5 DEF MInv, ControlTyped, ShownMeansEnforced, PublishFailed
  <2> QED
    BY <1>7, <2>4, <2>5
<1> QED
  BY <1>3, <1>4, <1>5, <1>6, <1>7 DEF Worker, Strategize

(* The main thread.  A detection forgets the losses, but what it shows then *)
(* is an analysis under way, and nobody has sent anything yet.              *)
LEMMA MainKeeps ==
  ASSUME IInv, MInv, MainLoop \/ Signal \/ ProcessEnds,
         lost' = (IF armed /\ ~armed' THEN {} ELSE lost), UNCHANGED nodeVars
  PROVE  ControlTyped' /\ SentHandled' /\ ShownMeansEnforced' /\ lost' \subseteq Commands
<1>1. control' = control /\ lost' \subseteq Commands
  BY DEF MInv, MTypeOK, Commands, Blocks, MainLoop, Check, TakeSnapshot, ReadBusy, Subsided, SameAttack,
         Detect, SnapshotFileFails, ChoosePause, Signal, ProcessEnds
<1>2. CASE Detect
  <2>1. Active = {}
    BY <1>2 DEF Detect, IInv, ArmedOnlyAfterCalm
  <2>2. \A v \in Slots : worker'[v].stage # "enforce"
    <3>1. PICK w \in Slots : worker' = [worker EXCEPT ![w].stage = "start"]
      BY <1>2 DEF Detect, Spawn
    <3>2. \A v \in Slots : worker[v].stage = "none"
      BY <2>1 DEF Active
    <3> QED
      BY <3>1, <3>2 DEF IInv, Typed, WorkerState
  <2>3. aiState' = "analyzing"
    BY <1>2 DEF Detect, Spawn
  <2> QED
    BY <1>1, <2>2, <2>3 DEF MInv, ControlTyped, SentHandled, ShownMeansEnforced
<1>3. CASE ~Detect
  <2>1. UNCHANGED <<worker, aiVars>>
    BY <1>3 DEF MainLoop, Check, TakeSnapshot, ReadBusy, Subsided, SameAttack,
                SnapshotFileFails, ChoosePause, Signal, ProcessEnds
  <2>2. armed => armed'
    <3>1. CASE Subsided
      BY <3>1, Zenon DEF Subsided
    <3>2. CASE ~Subsided
      BY <1>3, <3>2 DEF MainLoop, Check, TakeSnapshot, ReadBusy, SameAttack,
                        SnapshotFileFails, ChoosePause, Signal, ProcessEnds
    <3> QED
      BY <3>1, <3>2
  <2>3. lost' = lost
    BY <2>2
  <2>4. ASSUME NEW c, Handled(c) PROVE HandledNext(c)
    BY <1>1, <2>3, <2>4, StaysHandled DEF nodeVars
  <2>5. SentHandled' /\ ShownMeansEnforced'
    BY <2>1, <2>4, Framed DEF MInv
  <2> QED
    BY <1>1, <2>5 DEF MInv, ControlTyped
<1> QED
  BY <1>2, <1>3

(* Nodes and network.  A command is delivered to its node, which obeys, or  *)
(* is lost; and the access list of a node goes only with the node.          *)
LEMMA NodesKeep ==
  ASSUME MInv,
         \/ Flood \/ StopFlood
         \/ \E n \in Nodes : DrainQueue(n) \/ SendHeartbeat(n) \/ Crash(n)
         \/ \E c \in control : DeliverControl(c) \/ LoseControl(c)
  PROVE  MInv'
<1>1. UNCHANGED <<worker, aiVars>>
  BY DEF Flood, StopFlood, DrainQueue, SendHeartbeat, Crash, DeliverControl,
         LoseControl, ReceiveHeartbeat, NetworkTakes, vars, aiVars
<1>2. CASE Flood \/ StopFlood \/ \E n \in Nodes : DrainQueue(n) \/ SendHeartbeat(n)
  <2>1. UNCHANGED <<acl, alive, control, lost>>
    BY <1>2 DEF Flood, StopFlood, DrainQueue, SendHeartbeat, ReceiveHeartbeat,
                nodeVars, vars
  <2>2. load' \in [Nodes -> Levels] /\ flooding' \in BOOLEAN
    BY <1>2, MitigationAssumption
       DEF MInv, MTypeOK, Flood, StopFlood, DrainQueue, SendHeartbeat, nodeVars
  <2>3. ASSUME NEW c, Handled(c) PROVE HandledNext(c)
    BY <2>1, <2>3, StaysHandled
  <2>4. SentHandled' /\ ShownMeansEnforced'
    BY <1>1, <2>3, Framed DEF MInv
  <2> QED
    BY <2>1, <2>2, <2>4 DEF MInv, MTypeOK, ControlTyped
<1>3. ASSUME NEW n \in Nodes, Crash(n) PROVE MInv'
  <2>1. /\ alive' = alive \ {n} /\ acl' = [acl EXCEPT ![n] = {}]
        /\ load' = [load EXCEPT ![n] = Floor]
        /\ UNCHANGED <<control, flooding, lost>>
    BY <1>3 DEF Crash, vars
  <2>2. MTypeOK'
    BY <2>1, FloorIsLevel DEF MInv, MTypeOK
  <2>3. ASSUME NEW c, Handled(c) PROVE HandledNext(c)
    <3>1. CASE c.to = n
      BY <2>1, <3>1 DEF HandledNext
    <3>2. CASE c.to # n /\ c.to \in alive
      <4>1. acl'[c.to] = acl[c.to]
        BY <2>1, <3>2 DEF MInv, MTypeOK
      <4> QED
        BY <2>1, <2>3, <3>2, <4>1 DEF Handled, HandledNext
    <3> QED
      BY <2>1, <3>1, <3>2 DEF HandledNext
  <2>4. SentHandled' /\ ShownMeansEnforced'
    BY <1>1, <2>3, Framed DEF MInv
  <2> QED
    BY <2>1, <2>2, <2>4 DEF MInv, ControlTyped
<1>4. ASSUME NEW c \in control, DeliverControl(c) PROVE MInv'
  <2>1. /\ control' = control \ {c} /\ c.to \in alive /\ Block(c.to, c.block)
        /\ UNCHANGED <<alive, flooding, lost>>
    BY <1>4 DEF DeliverControl, NetworkTakes
  <2>2. c.to \in Nodes /\ c.block \in Blocks
    BY <2>1 DEF MInv, MTypeOK, ControlTyped, Commands
  <2>3. MTypeOK'
    BY <2>1, <2>2 DEF MInv, MTypeOK, Block, Blocks
  <2>4. ASSUME NEW d, Handled(d) PROVE HandledNext(d)
    <3>1. CASE d = c
      BY <2>1, <2>2, <3>1, DetectorAssumption DEF Block, HandledNext, MInv, MTypeOK, Blocks
    <3>2. CASE d # c /\ d.to \in alive
      <4>1. acl[d.to] \subseteq acl'[d.to]
        BY <2>1, <2>2, <3>2 DEF Block, MInv, MTypeOK
      <4> QED
        BY <2>1, <2>4, <3>2, <4>1 DEF Handled, HandledNext
    <3> QED
      BY <2>1, <3>1, <3>2 DEF HandledNext
  <2>5. SentHandled' /\ ShownMeansEnforced'
    BY <1>1, <2>4, Framed DEF MInv
  <2> QED
    BY <2>1, <2>3, <2>5 DEF MInv, ControlTyped
<1>5. ASSUME NEW c \in control, LoseControl(c) PROVE MInv'
  <2>1. /\ control' = control \ {c} /\ lost' = lost \cup {c}
        /\ UNCHANGED nodeVars
    BY <1>5 DEF LoseControl, NetworkTakes
  <2>2. MTypeOK' /\ ControlTyped'
    BY <2>1 DEF MInv, MTypeOK, ControlTyped, Commands, Blocks, nodeVars
  <2>3. ASSUME NEW d, Handled(d) PROVE HandledNext(d)
    BY <2>1, <2>3 DEF Handled, HandledNext, nodeVars
  <2>4. SentHandled' /\ ShownMeansEnforced'
    BY <1>1, <2>3, Framed DEF MInv
  <2> QED
    BY <2>2, <2>4 DEF MInv
<1> QED
  BY <1>2, <1>3, <1>4, <1>5

LEMMA MStepHolds == ASSUME IInv, MInv, [MNext]_mvars PROVE IInv' /\ MInv'
<1>1. IInv'
  BY StepsMap, NextInv DEF MInv
<1>2. CASE ControlPlane
  <2>1. /\ UNCHANGED nodeVars
        /\ lost' = IF armed /\ ~armed' THEN {} ELSE lost
    BY <1>2 DEF ControlPlane
  <2>2. ASSUME NEW w \in Slots, Worker(w)
        PROVE  ControlTyped' /\ SentHandled' /\ ShownMeansEnforced' /\ lost' \subseteq Commands
    <3>1. armed' = armed
      BY <2>2 DEF Worker, StartWorker, Analyze, Strategize, CallFails, SendControl,
                  SkipCore, PublishDone, PublishFailed, Goes, mainVars
    <3>2. lost' = lost
      BY <2>1, <3>1
    <3> QED
      BY <2>1, <2>2, <3>2, WorkerKeeps DEF MInv, MTypeOK, Commands, Blocks
  <2>3. ControlTyped' /\ SentHandled' /\ ShownMeansEnforced' /\ lost' \subseteq Commands
    BY <1>2, <2>1, <2>2, MainKeeps DEF ControlPlane
  <2> QED
    BY <1>1, <2>1, <2>3 DEF MInv, MTypeOK, Commands, Blocks, nodeVars
<1>3. CASE UNCHANGED mvars
  BY <1>1, <1>3 DEF mvars, vars, MInv, MTypeOK, ControlTyped, SentHandled, Command,
              Handled, ShownMeansEnforced
<1>4. CASE MNext /\ ~ControlPlane
  BY <1>1, <1>4, NodesKeep DEF MNext
<1> QED
  BY <1>1, <1>2, <1>3, <1>4

-----------------------------------------------------------------------------
LEMMA MInvariant == MSpec => [](IInv /\ MInv)
  BY MInitHolds, MStepHolds, PTL DEF MSpec

(* Composed with the nodes, the attacker and a network that loses packets,  *)
(* the control plane is the detector of module Detector, so that what is    *)
(* proved of that one holds in the cycle (main.py:190-383).                 *)
THEOREM CycleImplementsDetector == MSpec => Spec
<1>1. MInit => Init
  BY DEF MInit
<1>2. MInv /\ [MNext]_mvars => [Next]_vars
  BY StepsMap DEF MInv
<1> QED
  BY <1>1, <1>2, MInvariant, PTL DEF MSpec, Spec

(* The nodes, the access lists and what was lost keep their types           *)
(* (node.cpp:55-66, 316-341).                                               *)
THEOREM MitigationTyped == MSpec => []MTypeOK
<1>1. MInv => MTypeOK
  BY DEF MInv
<1> QED
  BY <1>1, MInvariant, PTL

(* Each core the status line names blocks the source, or died, or its       *)
(* packet is on its way or was lost, for any plan and any order of losses   *)
(* and crashes (main.py:345-383, node.cpp:316-341).                         *)
THEOREM ShownIsEnforced == MSpec => []ShownMeansEnforced
<1>1. MInv => ShownMeansEnforced
  BY DEF MInv
<1> QED
  BY <1>1, MInvariant, PTL
===============================================================================
