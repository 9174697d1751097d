----------------------------- MODULE NodeProofs -----------------------------
(***************************************************************************)
(* What is proved of a node for all values of the constants: the type      *)
(* invariant, an inductive invariant with the accounting and access-list   *)
(* invariants, the action property on blocked sources, and that the node   *)
(* implements the Firewall specification.                                  *)
(***************************************************************************)
EXTENDS Node, FiniteSetTheorems, TLAPS

(* What the receive loop holds past the gate is a data packet. *)
DataInHand == pc \in {"route", "sent"} => cur.kind = "data"

(* And until it is sent its source is not blocked: only the receive loop    *)
(* itself blocks sources.                                                   *)
GateStillValid == pc = "route" => cur.src \notin blocked

(* The telemetry thread that sleeps misses no instant. *)
InstantsSeen == tpc = "sleep" => Metrics \in instants

Typed == TypeOK /\ DataInHand

(* The inductive invariant. *)
IInv ==
  /\ Typed
  /\ GateStillValid
  /\ InstantsSeen
  /\ NoBlockedQueued
  /\ EveryDatagramCountedOnce
  /\ QueueAccounted
  /\ HeartbeatIsACut

-----------------------------------------------------------------------------
(* A subset of a finite set is finite and not larger. *)
LEMMA SubsetSize ==
  ASSUME NEW S, IsFiniteSet(S), NEW T \in SUBSET S
  PROVE  /\ IsFiniteSet(T)
         /\ Cardinality(T) \in Nat /\ Cardinality(S) \in Nat
         /\ Cardinality(T) <= Cardinality(S)
  BY FS_Subset, FS_CardinalityType

(* The kinds tell the datagrams apart. *)
LEMMA DatagramKinds ==
  ASSUME NEW dg \in Datagrams
  PROVE  /\ dg.kind \in {"malformed", "control", "data"}
         /\ dg.kind = "control" => dg.block \in BlockIds
         /\ dg.kind = "data" => dg.src \in Sources /\ dg.dest \in Dests
  BY DEF Datagrams, Malformed, Control, Data

(* Both steps that shrink the queue leave a subset of it. *)
LEMMA QueueShrinks ==
  ASSUME TypeOK, Enforce \/ Drain
  PROVE  queue' \in SUBSET queue /\ IsFiniteSet(queue')
<1>1. queue' \in SUBSET queue
  BY DEF Enforce, Purge, Drain, Front
<1> QED
  BY <1>1, SubsetSize DEF TypeOK

(* The loop that rebuilds the queue splits it in two; the drain cycle takes *)
(* what it pops from it.                                                    *)
LEMMA QueueIsSplit ==
  /\ TypeOK => \A b : /\ Matching(b) \in SUBSET queue
                      /\ Matching(b) \in SUBSET Entry
                      /\ IsFiniteSet(Matching(b))
                      /\ PurgedCount(b) \in Nat
                      /\ Purge(b) = queue \ Matching(b)
  /\ Front(DrainMax) \in SUBSET queue
<1>1. \A b : Matching(b) \in SUBSET queue /\ Purge(b) = queue \ Matching(b)
  BY DEF Matching, Purge
<1>2. Front(DrainMax) \in SUBSET queue
  BY DEF Front
<1>3. ASSUME TypeOK, NEW b
      PROVE  /\ Matching(b) \in SUBSET Entry /\ IsFiniteSet(Matching(b))
             /\ PurgedCount(b) \in Nat
  <2>1. IsFiniteSet(Matching(b))
    BY <1>1, <1>3, FS_Subset DEF TypeOK
  <2> QED
    BY <1>1, <1>3, <2>1, FS_CardinalityType DEF TypeOK, PurgedCount
<1> QED
  BY <1>1, <1>2, <1>3

(* What a heartbeat carries has the type of what it carries. *)
LEMMA MetricsTyped == TypeOK => Metrics \in MetricValues
  BY FS_CardinalityType DEF TypeOK, Metrics, MetricValues

(* Every action keeps every variable in its type, and past the gate the     *)
(* buffer holds a data packet.                                              *)
LEMMA TypedInductive == Typed /\ [Next]_vars => Typed'
<1> SUFFICES ASSUME Typed, [Next]_vars PROVE Typed'
  OBVIOUS
<1> USE DEF Typed, TypeOK, DataInHand, state, history, taken
<1> DEFINE Shared == /\ queue' \in SUBSET Entry /\ IsFiniteSet(queue')
                     /\ delivered' \in Nat /\ forwarded' \in Nat /\ dropped' \in Nat
<1>0. CASE UNCHANGED vars
  BY <1>0 DEF vars
<1>1. CASE Receive
  BY <1>1 DEF Receive
<1>a. ASSUME Shared PROVE Metrics' \in MetricValues
  <2>1. Cardinality(queue') \in Nat
    BY <1>a, FS_CardinalityType
  <2> QED
    BY <1>a, <2>1 DEF Metrics, MetricValues
<1>b. ASSUME Shared, Witnessed PROVE instants' \in SUBSET MetricValues
  BY <1>a, <1>b DEF Witnessed
<1> HIDE DEF Shared
<1>2. ASSUME CountDrop PROVE Typed'
  <2>1. Shared /\ Witnessed
    BY <1>2 DEF CountDrop, Shared
  <2> QED
    BY <1>2, <1>b, <2>1 DEF CountDrop
<1>3. CASE Enforce
  <2>1. cur.block \in Int
    BY <1>3, DatagramKinds, NodeAssumption DEF Enforce
  <2>2. blocked' \in SUBSET Int
    BY <1>3, <2>1 DEF Enforce
  <2>3. dropped' \in Nat
    BY <1>3, QueueIsSplit DEF Enforce
  <2>4. purged' \in SUBSET Entry
    BY <1>3, QueueIsSplit DEF Enforce
  <2>5. IsFiniteSet(purged')
    BY <1>3, QueueIsSplit, FS_Union DEF Enforce
  <2>6. pc' = "recv" /\ UNCHANGED <<delivered, forwarded, cur, tpc, snap,
                                    heartbeat, received, consumed, relayed>>
    BY <1>3 DEF Enforce
  <2>7. Shared /\ Witnessed
    BY <1>3, <2>3, <2>6, QueueShrinks DEF Enforce, Shared
  <2>8. instants' \in SUBSET MetricValues
    BY <1>b, <2>7
  <2> QED
    BY <2>2, <2>4, <2>5, <2>6, <2>7, <2>8 DEF Shared
<1>4. CASE IgnoreControl \/ GatePasses
  BY <1>4 DEF IgnoreControl, GatePasses
<1>5. CASE RejectMalformed \/ GateDrops \/ RejectData \/ SendFails
  BY <1>5, <1>2 DEF RejectMalformed, GateDrops, RejectData, SendFails
<1>6. CASE Push
  <2>1. [n |-> delivered + 1, src |-> cur.src] \in Entry
    BY <1>6, DatagramKinds DEF Push, Entry
  <2>2. IsFiniteSet(queue')
    BY <1>6, FS_AddElement DEF Push
  <2>3. queue' \in SUBSET Entry /\ delivered' \in Nat
    BY <1>6, <2>1 DEF Push
  <2>4. Shared /\ Witnessed
    BY <1>6, <2>2, <2>3 DEF Push, Shared
  <2>5. instants' \in SUBSET MetricValues
    BY <1>b, <2>4
  <2> QED
    BY <1>6, <2>2, <2>3, <2>5 DEF Push
<1>7. CASE SendNextHop
  <2>1. cur.src \in Sources
    BY <1>7, DatagramKinds DEF SendNextHop
  <2>2. relayed' \in [Sources -> Nat]
    BY <1>7, <2>1 DEF SendNextHop
  <2> QED
    BY <1>7, <2>2 DEF SendNextHop
<1>8. CASE CountForward
  <2>1. Shared /\ Witnessed
    BY <1>8 DEF CountForward, Shared
  <2> QED
    BY <1>8, <1>b, <2>1 DEF CountForward
<1>9. CASE Drain
  <2>1. consumed' \in SUBSET Entry
    BY <1>9, QueueIsSplit DEF Drain
  <2>2. Shared /\ Witnessed
    BY <1>9, QueueShrinks DEF Drain, Shared
  <2>3. instants' \in SUBSET MetricValues
    BY <1>b, <2>2
  <2> QED
    BY <1>9, <2>1, <2>3, QueueShrinks DEF Drain
<1>10. CASE OpenTelemetry
  BY <1>10, MetricsTyped DEF OpenTelemetry
<1>11. CASE Snapshot
  BY <1>11, MetricsTyped DEF Snapshot
<1>12. CASE SendHeartbeat \/ HeartbeatFails
  BY <1>12, MetricsTyped DEF SendHeartbeat, HeartbeatFails, Sleep
<1> QED
  BY <1>0, <1>1, <1>3, <1>4, <1>5, <1>6, <1>7, <1>8, <1>9, <1>10, <1>11, <1>12
     DEF Next, HandleDatagram, Telemetry

(* The initial state is typed. *)
LEMMA TypedInitially == Init => Typed
  BY FS_EmptySet
     DEF Init, Typed, TypeOK, DataInHand, NoMetrics, MetricValues, Datagrams,
         Malformed, Entry

(* Every reachable state has the types the declarations of NodeState and of *)
(* the locals of the three threads give it (node.cpp:55-66, 117, 268).      *)
THEOREM TypeCorrect == Spec => []TypeOK
<1>1. Spec => []Typed
  BY TypedInitially, TypedInductive, PTL DEF Spec
<1>2. Typed => TypeOK
  BY DEF Typed
<1> QED
  BY <1>1, <1>2, PTL

-----------------------------------------------------------------------------
(* The initial state satisfies the inductive invariant. *)
LEMMA IInvInitially == Init => IInv
<1> SUFFICES ASSUME Init PROVE IInv
  OBVIOUS
<1>1. Typed
  BY TypedInitially
<1>2. Cardinality(purged) = 0
  BY FS_EmptySet DEF Init
<1>3. QueueAccounted
  BY DEF Init, QueueAccounted
<1> QED
  BY <1>1, <1>2, <1>3
     DEF Init, IInv, GateStillValid, InstantsSeen, NoBlockedQueued, InHand,
         EveryDatagramCountedOnce, HeartbeatIsACut

(* A step that leaves NodeState and its history alone. *)
LEMMA SharedUntouched ==
  ASSUME IInv, UNCHANGED state, UNCHANGED <<tpc, snap, taken, instants>>
  PROVE  InstantsSeen' /\ NoBlockedQueued' /\ QueueAccounted' /\ HeartbeatIsACut'
<1> USE DEF IInv, state, taken
<1>1. InstantsSeen' /\ HeartbeatIsACut'
  BY DEF InstantsSeen, HeartbeatIsACut, Metrics
<1>2. NoBlockedQueued' /\ QueueAccounted'
  BY DEF NoBlockedQueued, QueueAccounted
<1> QED
  BY <1>1, <1>2

(* A step of another thread that counts something is an instant the sleeping *)
(* telemetry thread does not miss, and no copy of its own changes.           *)
LEMMA WitnessedSeen ==
  ASSUME IInv, Witnessed, UNCHANGED <<tpc, snap>>
  PROVE  InstantsSeen' /\ HeartbeatIsACut'
<1>1. InstantsSeen'
  BY DEF Witnessed, InstantsSeen
<1>2. HeartbeatIsACut'
  BY DEF IInv, Witnessed, HeartbeatIsACut
<1> QED
  BY <1>1, <1>2

(* The receive loop reads a datagram, or throws one away. *)
LEMMA ReceiveKeepsIInv == ASSUME IInv, Typed', Receive PROVE IInv'
<1>1. UNCHANGED state /\ UNCHANGED <<tpc, snap, taken, instants>>
  BY DEF Receive
<1>2. EveryDatagramCountedOnce'
  <2>1. Cardinality(purged) \in Nat
    BY FS_CardinalityType DEF IInv, Typed, TypeOK
  <2> QED
    BY <2>1 DEF IInv, Typed, TypeOK, Receive, EveryDatagramCountedOnce, InHand, state,
                taken
<1> QED
  BY <1>1, <1>2, SharedUntouched DEF Receive, IInv, GateStillValid

LEMMA CountDropKeepsIInv ==
  ASSUME IInv, Typed', CountDrop, pc # "recv", cur.kind # "control"
  PROVE  IInv'
<1> USE DEF IInv, Typed, TypeOK, CountDrop, taken
<1>0. Cardinality(purged) \in Nat
  BY FS_CardinalityType
<1>1. EveryDatagramCountedOnce'
  BY <1>0 DEF EveryDatagramCountedOnce, InHand
<1>2. NoBlockedQueued' /\ QueueAccounted'
  BY DEF NoBlockedQueued, QueueAccounted
<1>3. InstantsSeen' /\ HeartbeatIsACut'
  BY WitnessedSeen
<1> QED
  BY <1>1, <1>2, <1>3 DEF GateStillValid

(* A block takes its source's packets out of the queue and counts them.     *)
LEMMA EnforceKeepsIInv == ASSUME IInv, Typed', Enforce PROVE IInv'
<1> USE DEF IInv, Typed
<1> DEFINE M == Matching(cur.block)
<1>1. /\ M \in SUBSET queue /\ IsFiniteSet(M) /\ Purge(cur.block) = queue \ M
      /\ PurgedCount(cur.block) = Cardinality(M)
  BY QueueIsSplit DEF PurgedCount
<1>2. /\ dropped' = dropped + Cardinality(M) /\ purged' = purged \cup M
      /\ queue' = queue \ M
      /\ UNCHANGED <<delivered, forwarded, received, consumed, tpc, snap, cur>>
      /\ pc = "parse" /\ pc' = "recv" /\ cur.kind = "control" /\ Witnessed
  BY <1>1 DEF Enforce
<1>3. purged \cap M = {}
  BY <1>1 DEF QueueAccounted
<1> HIDE DEF M
<1>4. EveryDatagramCountedOnce'
  <2>1. /\ Cardinality(purged') = Cardinality(purged) + Cardinality(M)
        /\ Cardinality(purged) \in Nat /\ Cardinality(M) \in Nat
    <3>1. /\ IsFiniteSet(purged)
          /\ Cardinality(purged \cup M)
             = Cardinality(purged) + Cardinality(M) - Cardinality(purged \cap M)
      BY <1>1, FS_Union DEF TypeOK
    <3>2. Cardinality(purged \cap M) = 0
      BY <1>3, FS_EmptySet
    <3>3. Cardinality(purged) \in Nat /\ Cardinality(M) \in Nat
      BY <1>1, <3>1, FS_CardinalityType
    <3> QED
      BY <1>2, <3>1, <3>2, <3>3
  <2> QED
    BY <1>2, <2>1 DEF EveryDatagramCountedOnce, InHand, TypeOK
<1>5. QueueAccounted'
  <2>1. consumed' \cup purged' \cup queue' = consumed \cup purged \cup queue
    BY <1>1, <1>2
  <2>2. consumed \cap M = {}
    BY <1>1 DEF QueueAccounted, TypeOK, Entry
  <2>3. {p.n : p \in consumed' \cup purged' \cup queue'} = 1..delivered'
    BY <1>2, <2>1 DEF QueueAccounted
  <2>4. consumed' \cap purged' = {} /\ purged' \cap queue' = {}
    BY <1>1, <1>2, <2>2 DEF QueueAccounted
  <2>5. \A p \in consumed', q \in queue' : p.n < q.n
    BY <1>2 DEF QueueAccounted
  <2> QED
    BY <2>3, <2>4, <2>5 DEF QueueAccounted
<1>6. InstantsSeen' /\ HeartbeatIsACut'
  BY <1>2, WitnessedSeen
<1>7. NoBlockedQueued'
  BY DEF Enforce, Purge, NoBlockedQueued
<1> QED
  BY <1>2, <1>4, <1>5, <1>6, <1>7 DEF GateStillValid

(* A local delivery adds one packet, of a source the gate let through. *)
LEMMA PushKeepsIInv == ASSUME IInv, Typed', Push PROVE IInv'
<1> USE DEF IInv, Typed, Push, taken
<1> DEFINE e == [n |-> delivered + 1, src |-> cur.src]
           All == consumed \cup purged \cup queue
<1>0. Cardinality(purged) \in Nat
  BY FS_CardinalityType DEF TypeOK
<1>1. EveryDatagramCountedOnce'
  BY <1>0 DEF EveryDatagramCountedOnce, InHand, DataInHand, TypeOK
<1>2. QueueAccounted'
  <2>1. \A p \in All : p.n \in 1..delivered
    BY DEF QueueAccounted
  <2>2. queue' = queue \cup {e} /\ delivered' = delivered + 1 /\ e.n = delivered + 1
    OBVIOUS
  <2>3. {p.n : p \in consumed' \cup purged' \cup queue'} = 1..delivered'
    <3>1. consumed' \cup purged' \cup queue' = All \cup {e}
      BY <2>2
    <3>2. {p.n : p \in All \cup {e}} = {p.n : p \in All} \cup {delivered + 1}
      BY <2>2
    <3>3. 1..delivered' = (1..delivered) \cup {delivered + 1}
      BY <2>2 DEF TypeOK
    <3> QED
      BY <3>1, <3>2, <3>3 DEF QueueAccounted
  <2>4. e \notin purged
    BY <2>1, <2>2 DEF TypeOK
  <2>5. \A p \in consumed', q \in queue' : p.n < q.n
    BY <2>1, <2>2 DEF QueueAccounted, TypeOK
  <2> QED
    BY <2>2, <2>3, <2>4, <2>5 DEF QueueAccounted
<1>3. NoBlockedQueued'
  BY DEF NoBlockedQueued, GateStillValid
<1>4. InstantsSeen' /\ HeartbeatIsACut'
  BY WitnessedSeen
<1> QED
  BY <1>1, <1>2, <1>3, <1>4 DEF GateStillValid

(* Sending to the next hop, and counting it. *)
LEMMA ForwardKeepsIInv ==
  ASSUME IInv, Typed', SendNextHop \/ CountForward PROVE IInv'
<1> USE DEF IInv, Typed, TypeOK, taken, state
<1>0. Cardinality(purged) \in Nat
  BY FS_CardinalityType
<1>1. EveryDatagramCountedOnce'
  BY <1>0 DEF SendNextHop, CountForward, EveryDatagramCountedOnce, InHand, DataInHand
<1>2. NoBlockedQueued' /\ QueueAccounted'
  BY DEF SendNextHop, CountForward, NoBlockedQueued, QueueAccounted
<1>3. InstantsSeen' /\ HeartbeatIsACut'
  <2>1. CASE SendNextHop
    BY <2>1, SharedUntouched DEF SendNextHop
  <2>2. CASE CountForward
    BY <2>2, WitnessedSeen DEF CountForward
  <2> QED
    BY <2>1, <2>2
<1> QED
  BY <1>1, <1>2, <1>3 DEF SendNextHop, CountForward, GateStillValid

(* A drain cycle takes no packet while an older one stays. *)
LEMMA DrainIsFifo ==
  ASSUME TypeOK, Drain, NEW p \in Front(DrainMax), NEW q \in queue'
  PROVE  p.n < q.n
<1> USE DEF TypeOK
<1> DEFINE Older(x) == {y \in queue : y.n < x.n}
<1>1. Cardinality(Older(p)) < DrainMax /\ ~(Cardinality(Older(q)) < DrainMax)
  BY DEF Drain, Front
<1>2. p \in queue /\ q \in queue /\ p.n \in Nat /\ q.n \in Nat
  BY DEF Drain, Entry, Front
<1> SUFFICES ASSUME ~(p.n < q.n) PROVE FALSE
  OBVIOUS
<1>3. Older(q) \in SUBSET Older(p)
  BY <1>2 DEF Entry
<1>4. IsFiniteSet(Older(p))
  BY FS_Subset
<1>5. /\ Cardinality(Older(q)) \in Nat /\ Cardinality(Older(p)) \in Nat
      /\ Cardinality(Older(q)) <= Cardinality(Older(p))
  BY <1>3, <1>4, SubsetSize
<1> QED
  BY <1>1, <1>5, NodeAssumption

(* A drain cycle moves packets from the queue to the application. *)
LEMMA DrainKeepsIInv == ASSUME IInv, Typed', Drain PROVE IInv'
<1> USE DEF IInv, Typed
<1> DEFINE F == Front(DrainMax)
<1>1. /\ F \in SUBSET queue /\ queue' = queue \ F /\ consumed' = consumed \cup F
      /\ UNCHANGED <<delivered, forwarded, dropped, blocked, pc, cur, tpc, snap,
                     received, purged>>
      /\ Witnessed
  BY QueueIsSplit DEF Drain
<1>2. \A p \in F, q \in queue' : p.n < q.n
  BY DrainIsFifo
<1> HIDE DEF F
<1>3. QueueAccounted'
  <2>1. consumed' \cup purged' \cup queue' = consumed \cup purged \cup queue
    BY <1>1
  <2>2. {p.n : p \in consumed' \cup purged' \cup queue'} = 1..delivered'
    BY <1>1, <2>1 DEF QueueAccounted
  <2>3. consumed' \cap purged' = {} /\ purged' \cap queue' = {}
    BY <1>1 DEF QueueAccounted
  <2>4. \A p \in consumed', q \in queue' : p.n < q.n
    BY <1>1, <1>2 DEF QueueAccounted
  <2> QED
    BY <2>2, <2>3, <2>4 DEF QueueAccounted
<1>4. InstantsSeen' /\ HeartbeatIsACut'
  BY <1>1, WitnessedSeen
<1>5. EveryDatagramCountedOnce'
  BY <1>1 DEF EveryDatagramCountedOnce, InHand
<1>6. NoBlockedQueued' /\ GateStillValid'
  BY <1>1 DEF NoBlockedQueued, GateStillValid
<1> QED
  BY <1>3, <1>4, <1>5, <1>6

(* The telemetry thread only reads the shared state, all of it at once. *)
LEMMA TelemetryKeepsIInv == ASSUME IInv, Typed', Telemetry PROVE IInv'
<1> USE DEF IInv, Typed, state, taken, history
<1>1. UNCHANGED <<state, pc, cur, taken, received>> /\ Metrics' = Metrics
  BY DEF Telemetry, OpenTelemetry, Snapshot, SendHeartbeat, HeartbeatFails, Sleep,
         Metrics
<1>2. InstantsSeen' /\ HeartbeatIsACut'
  <2>1. CASE Snapshot
    BY <2>1 DEF Snapshot, InstantsSeen, HeartbeatIsACut
  <2>2. CASE OpenTelemetry \/ SendHeartbeat \/ HeartbeatFails
    BY <1>1, <2>2 DEF OpenTelemetry, SendHeartbeat, HeartbeatFails, Sleep,
                      InstantsSeen, HeartbeatIsACut
  <2> QED
    BY <2>1, <2>2 DEF Telemetry
<1>3. EveryDatagramCountedOnce' /\ QueueAccounted'
  BY <1>1 DEF EveryDatagramCountedOnce, QueueAccounted, InHand
<1>4. NoBlockedQueued' /\ GateStillValid'
  BY <1>1 DEF NoBlockedQueued, GateStillValid
<1> QED
  BY <1>2, <1>3, <1>4

(* No step of any thread breaks the invariant. *)
LEMMA IInvInductive == IInv /\ [Next]_vars => IInv'
<1> SUFFICES ASSUME IInv, [Next]_vars PROVE IInv'
  OBVIOUS
<1>0. Typed'
  BY TypedInductive DEF IInv
<1>1. CASE UNCHANGED vars
  BY <1>0, <1>1, SharedUntouched
     DEF vars, IInv, GateStillValid, state, taken, EveryDatagramCountedOnce, InHand
<1>2. CASE Receive
  BY <1>0, <1>2, ReceiveKeepsIInv
<1>3. CASE RejectMalformed \/ GateDrops \/ RejectData \/ SendFails
  <2>1. CountDrop /\ pc # "recv" /\ cur.kind # "control"
    BY <1>3 DEF RejectMalformed, GateDrops, RejectData, SendFails, IInv, Typed,
                DataInHand
  <2> QED
    BY <1>0, <2>1, CountDropKeepsIInv
<1>4. CASE Enforce
  BY <1>0, <1>4, EnforceKeepsIInv
<1>5. CASE IgnoreControl \/ GatePasses
  <2>1. EveryDatagramCountedOnce' /\ GateStillValid'
    BY <1>5 DEF IgnoreControl, GatePasses, IInv, EveryDatagramCountedOnce, InHand,
                GateStillValid, state, history, taken
  <2>2. UNCHANGED state /\ UNCHANGED <<tpc, snap, taken, instants>>
    BY <1>5 DEF IgnoreControl, GatePasses, history
  <2> QED
    BY <1>0, <2>1, <2>2, SharedUntouched DEF IInv
<1>6. CASE Push
  BY <1>0, <1>6, PushKeepsIInv
<1>7. CASE SendNextHop \/ CountForward
  BY <1>0, <1>7, ForwardKeepsIInv
<1>8. CASE Drain
  BY <1>0, <1>8, DrainKeepsIInv
<1>9. CASE Telemetry
  BY <1>0, <1>9, TelemetryKeepsIInv
<1> QED
  BY <1>1, <1>2, <1>3, <1>4, <1>5, <1>6, <1>7, <1>8, <1>9 DEF Next, HandleDatagram

(* The inductive invariant holds in every reachable state. *)
LEMMA IInvHolds == Spec => []IInv
  BY IInvInitially, IInvInductive, PTL DEF Spec

(* No packet of a blocked source waits in the queue, although the gate and  *)
(* the push are separate critical sections (node.cpp:360-366, 388-390).     *)
THEOREM BlockedNeverQueued == Spec => []NoBlockedQueued
<1>1. IInv => NoBlockedQueued
  BY DEF IInv
<1> QED
  BY <1>1, IInvHolds, PTL

(* Every datagram but CONTROL ends in exactly one of the three counters     *)
(* (node.cpp:284-428).                                                      *)
THEOREM Accounting == Spec => []EveryDatagramCountedOnce
PROOF
<1>1. IInv => EveryDatagramCountedOnce
  BY DEF IInv
<1> QED
  BY <1>1, IInvHolds, PTL

(* The packets ever queued are those the application popped, those a block  *)
(* discarded and those still there, none of them twice, and the application *)
(* gets them in order (node.cpp:92-97, 329-340, 388-390).                   *)
THEOREM QueueBalance == Spec => []QueueAccounted
PROOF
<1>1. IInv => QueueAccounted
  BY DEF IInv
<1> QED
  BY <1>1, IInvHolds, PTL

(* The four values of a heartbeat are those of one instant of the sleep     *)
(* before it (node.cpp:117-124).                                            *)
THEOREM HeartbeatConsistent == Spec => []HeartbeatIsACut
<1>1. IInv => HeartbeatIsACut
  BY DEF IInv
<1> QED
  BY <1>1, IInvHolds, PTL

-----------------------------------------------------------------------------
(* Which steps add to the queue or send a packet. *)
LEMMA OnlyPushAdds ==
  ASSUME IInv, [Next]_vars, ~Push
  PROVE  queue' \in SUBSET queue
<1>1. CASE Enforce \/ Drain
  BY <1>1, QueueShrinks DEF IInv, Typed
<1>2. CASE ~(Enforce \/ Drain)
  BY <1>2 DEF Next, HandleDatagram, Telemetry, vars, Receive, RejectMalformed,
       IgnoreControl, GateDrops, GatePasses, RejectData, SendFails, SendNextHop,
       CountForward, OpenTelemetry, Snapshot, SendHeartbeat, HeartbeatFails,
       Sleep, CountDrop, state
<1> QED
  BY <1>1, <1>2

LEMMA OnlySendRelays ==
  ASSUME [Next]_vars, ~SendNextHop
  PROVE  relayed' = relayed
  BY DEF Next, HandleDatagram, Telemetry, vars, Receive, RejectMalformed, Enforce,
       IgnoreControl, GateDrops, GatePasses, RejectData, SendFails, Push, Drain,
       CountForward, OpenTelemetry, Snapshot, SendHeartbeat, HeartbeatFails,
       Sleep, CountDrop, history, taken

(* In no step does a blocked source get a packet queued or relayed          *)
(* (node.cpp:356-366).                                                      *)
THEOREM BlockedGoesNowhere == Spec => BlockedSourceGoesNowhere
<1> DEFINE Nowhere == \A s \in Sources \cap blocked :
                        /\ relayed'[s] = relayed[s]
                        /\ \A p \in queue' \ queue : p.src # s
<1>1. ASSUME IInv, [Next]_vars PROVE Nowhere
  <2> SUFFICES ASSUME NEW s \in Sources \cap blocked
               PROVE  relayed'[s] = relayed[s] /\ \A p \in queue' \ queue : p.src # s
    OBVIOUS
  <2>1. CASE Push
    <3>1. cur.src # s
      BY <1>1, <2>1 DEF Push, IInv, GateStillValid
    <3>2. queue' \ queue \subseteq {[n |-> delivered + 1, src |-> cur.src]}
      BY <2>1 DEF Push
    <3> QED
      BY <2>1, <3>1, <3>2 DEF Push, history
  <2>2. CASE SendNextHop
    <3>1. cur.src # s /\ relayed \in [Sources -> Nat]
      BY <1>1, <2>2 DEF SendNextHop, IInv, GateStillValid, Typed, TypeOK
    <3> QED
      BY <2>2, <3>1 DEF SendNextHop, state
  <2>3. CASE ~Push /\ ~SendNextHop
    BY <1>1, <2>3, OnlyPushAdds, OnlySendRelays
  <2> QED
    BY <2>1, <2>2, <2>3
<1> QED
  BY <1>1, IInvHolds, PTL DEF Spec, BlockedSourceGoesNowhere

-----------------------------------------------------------------------------
(* Refinement: a node is a firewall. *)

(* Every step of a node is a step of the firewall or changes nothing of it. *)
LEMMA StepRefines == ASSUME IInv, [Next]_vars PROVE [FW!Next]_(FW!vars)
<1> USE DEF FW!vars, state, history, taken
<1>1. CASE Enforce
  <2>1. FW!Block
    BY <1>1 DEF Enforce, Purge, FW!Block
  <2> QED
    BY <2>1 DEF FW!Next
<1>2. CASE Push
  <2>1. cur.src \in Sources
    BY <1>2, DatagramKinds DEF Push, IInv, Typed, TypeOK, DataInHand
  <2>2. FW!Admit(cur.src)
    BY <1>2 DEF Push, IInv, GateStillValid, FW!Admit
  <2> QED
    BY <2>1, <2>2 DEF FW!Next
<1>3. CASE SendNextHop
  <2>1. cur.src \in Sources
    BY <1>3, DatagramKinds DEF SendNextHop, IInv, Typed, TypeOK, DataInHand
  <2>2. FW!Relay(cur.src)
    BY <1>3 DEF SendNextHop, IInv, GateStillValid, FW!Relay
  <2> QED
    BY <2>1, <2>2 DEF FW!Next
<1>4. CASE Drain
  <2>1. CASE queue' = queue
    BY <1>4, <2>1 DEF Drain
  <2>2. CASE queue' # queue
    <3>1. queue \ queue' \subseteq Front(DrainMax) /\ queue' \subseteq queue
      BY <1>4 DEF Drain
    <3>2. FW!Consume
      BY <1>4, <2>2, <3>1, DrainIsFifo DEF Drain, IInv, Typed, FW!Consume
    <3> QED
      BY <3>2 DEF FW!Next
  <2> QED
    BY <2>1, <2>2
<1>5. CASE ~(Enforce \/ Push \/ SendNextHop \/ Drain)
  BY <1>5 DEF Next, HandleDatagram, Telemetry, vars, Receive, RejectMalformed,
       IgnoreControl, GateDrops, GatePasses, RejectData, SendFails, CountDrop,
       CountForward, OpenTelemetry, Snapshot, SendHeartbeat, HeartbeatFails, Sleep
<1> QED
  BY <1>1, <1>2, <1>3, <1>4, <1>5

(* The node, with its three threads and its check-then-act gate, implements *)
(* the firewall (node.cpp:92-97, 303-428).                                  *)
THEOREM NodeImplementsFirewall == Spec => FirewallSpec
<1>1. Init => FW!Init
  BY DEF Init, FW!Init
<1> QED
  BY <1>1, StepRefines, IInvHolds, PTL DEF Spec, FirewallSpec, FW!Spec
=============================================================================
