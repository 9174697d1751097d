-------------------------------- MODULE Node --------------------------------
(***************************************************************************)
(* One data-plane node (src/src/node.cpp): the process that receives       *)
(* datagrams on its UDP port, routes them, enforces the dynamic access     *)
(* list and reports its load to the control plane.                         *)
(*                                                                         *)
(* Three threads share one NodeState under one mutex:                      *)
(*   - the receive loop of main(), with program counter pc and buffer cur; *)
(*   - application_loop, which pops packets off the queue;                 *)
(*   - telemetry_loop, with program counter tpc and local copy snap.       *)
(* Every lock ... unlock section of the code is one action, and so is the  *)
(* sendto that hands a packet to the next hop: the other threads run       *)
(* between any two of them.                                                *)
(*                                                                         *)
(* packet_queue is a set of entries numbered in push order, so the front   *)
(* is the entry with the smallest number.                                  *)
(***************************************************************************)
EXTENDS Integers, FiniteSets

CONSTANTS
  Self,       \* node_id of this process
  Sources,    \* the source ids data packets carry
  Dests,      \* the destination ids data packets carry
  BlockIds,   \* what "BLOCK:%d" yields; 0 stands for every unusable command
  NextHop,    \* the routing table: [reachable destination -> next hop]
  Endpoints,  \* the ids the topology file declares, those with an address
  DrainMax,   \* packets one drain cycle pops at most (50 in the code)
  MaxRecv     \* bound: how many datagrams other than CONTROL arrive

ASSUME NodeAssumption ==
  /\ Sources \subseteq Nat
  /\ BlockIds \subseteq Int
  /\ DrainMax \in Nat \ {0}
  /\ MaxRecv \in Nat

VARIABLES
  queue,      \* packet_queue: {[n |-> push number, src |-> source id]}
  delivered,  \* packets pushed on the queue
  forwarded,  \* packets handed off to a next hop
  dropped,    \* packets discarded, and queued packets a BLOCK purged
  blocked,    \* blocked_sources
  pc,         \* receive loop: "recv", "parse", "route" or "sent"
  cur,        \* the datagram in the receive loop's buffer
  tpc,        \* telemetry thread: "start", "sleep", "send" or "gone"
  snap,       \* telemetry thread: the metrics copied under the lock
  heartbeat,  \* the last metrics sendto accepted
  received,   \* history: datagrams other than CONTROL taken off the socket
  consumed,   \* history: the entries the application popped
  purged,     \* history: the entries a BLOCK discarded
  relayed,    \* history: [source -> its packets sent to a next hop]
  instants    \* history: the metrics NodeState showed while the telemetry
              \* thread slept last

state == <<queue, delivered, forwarded, dropped, blocked>>
taken == <<consumed, purged>>
history == <<received, taken, relayed, instants>>
vars == <<queue, delivered, forwarded, dropped, blocked, pc, cur, tpc, snap,
          heartbeat, received, consumed, purged, relayed, instants>>

(***************************************************************************)
(* Datagrams.  Any type other than CONTROL takes the data path, so "data"  *)
(* also stands for a HEARTBEAT or an unknown type that reaches a node.     *)
(***************************************************************************)
Malformed == [kind : {"malformed"}]
Control   == [kind : {"control"}, block : BlockIds]
Data      == [kind : {"data"}, src : Sources, dest : Dests, overlong : BOOLEAN]
Datagrams == Malformed \cup Control \cup Data

Entry == [n : Nat \ {0}, src : Sources]

(* What a heartbeat carries. *)
Metrics == [queue     |-> Cardinality(queue),
            delivered |-> delivered,
            forwarded |-> forwarded,
            dropped   |-> dropped]
NoMetrics == [queue |-> 0, delivered |-> 0, forwarded |-> 0, dropped |-> 0]

Init ==
  /\ queue = {}
  /\ delivered = 0 /\ forwarded = 0 /\ dropped = 0
  /\ blocked = {}
  /\ pc = "recv" /\ cur = [kind |-> "malformed"]
  /\ tpc = "start" /\ snap = NoMetrics /\ heartbeat = NoMetrics
  /\ received = 0 /\ consumed = {} /\ purged = {}
  /\ relayed = [s \in Sources |-> 0]
  /\ instants = {}

(* A step that changes a metric makes one more instant to remember. *)
Witnessed ==
  instants' = IF tpc = "sleep" THEN instants \cup {Metrics'} ELSE instants

-----------------------------------------------------------------------------
(* The receive loop. *)

(* recvfrom returns a datagram; a recvfrom error changes nothing. *)
Receive ==
  /\ pc = "recv"
  /\ \E dg \in Datagrams :
       /\ dg.kind # "control" => received < MaxRecv
       /\ cur' = dg
       /\ received' = IF dg.kind = "control" THEN received ELSE received + 1
  /\ pc' = "parse"
  /\ UNCHANGED <<state, tpc, snap, heartbeat, taken, relayed, instants>>

(* ++dropped, then back to recvfrom. *)
CountDrop ==
  /\ dropped' = dropped + 1
  /\ pc' = "recv"
  /\ UNCHANGED <<queue, delivered, forwarded, blocked, cur, tpc, snap,
                 heartbeat, received, taken, relayed>>
  /\ Witnessed

(* The datagram has not the size of a Packet. *)
RejectMalformed == pc = "parse" /\ cur.kind = "malformed" /\ CountDrop

(* Mutants: the loop that rebuilds the queue stops one packet early, and it *)
(* rebuilds it from a copy made before the application popped some.         *)
PurgeStopsEarly(b) == {p \in queue : p.src # b \/ p.n = delivered}
PurgeFromCopy(b) == {p \in queue \cup consumed : p.src # b}

(* What the loop that rebuilds the queue keeps once b is blocked. *)
Purge(b) == {p \in queue : p.src # b}

(* What it discards. *)
Matching(b) == {p \in queue : p.src = b}

(* Mutant: the difference of the sizes the other way round. *)
PurgedCountBackwards(b) == Cardinality(Purge(b)) - Cardinality(queue)

(* ++dropped, ++purged for every packet it discards. *)
PurgedCount(b) == Cardinality(Matching(b))

(* A CONTROL packet with a usable "BLOCK:<id>": insert and purge, atomically. *)
Enforce ==
  /\ pc = "parse" /\ cur.kind = "control" /\ cur.block > 0
  /\ blocked' = blocked \cup {cur.block}
  /\ queue' = Purge(cur.block)
  /\ purged' = purged \cup Matching(cur.block)
  /\ dropped' = dropped + PurgedCount(cur.block)
  /\ pc' = "recv"
  /\ UNCHANGED <<delivered, forwarded, cur, tpc, snap, heartbeat, received,
                 consumed, relayed>>
  /\ Witnessed

(* A CONTROL packet with a bad length, another command or an id <= 0 is not *)
(* even counted.                                                            *)
IgnoreControl ==
  /\ pc = "parse" /\ cur.kind = "control" /\ cur.block <= 0
  /\ pc' = "recv"
  /\ UNCHANGED <<state, cur, tpc, snap, heartbeat, history>>

(* Mutant: silent also towards the counters. *)
GateDropsUncounted ==
  /\ pc = "parse" /\ cur.kind = "data" /\ cur.src \in blocked
  /\ pc' = "recv"
  /\ UNCHANGED <<state, cur, tpc, snap, heartbeat, history>>

(* The ACL gate, a critical section of its own. *)
GateDrops == pc = "parse" /\ cur.kind = "data" /\ cur.src \in blocked /\ CountDrop

(* Mutant: the gate guards local delivery only. *)
GatePassesTransit ==
  /\ pc = "parse" /\ cur.kind = "data"
  /\ cur.src \notin blocked \/ cur.dest # Self
  /\ pc' = "route"
  /\ UNCHANGED <<state, cur, tpc, snap, heartbeat, history>>

GatePasses ==
  /\ pc = "parse" /\ cur.kind = "data" /\ cur.src \notin blocked
  /\ pc' = "route"
  /\ UNCHANGED <<state, cur, tpc, snap, heartbeat, history>>

Routable(d) == d \in DOMAIN NextHop /\ NextHop[d] \in Endpoints

(* The payload is longer than the packet, or there is no route, or the next *)
(* hop has no address.                                                      *)
RejectData ==
  /\ pc = "route"
  /\ IF cur.dest = Self THEN cur.overlong ELSE ~Routable(cur.dest)
  /\ CountDrop

(* Local delivery. *)
Push ==
  /\ pc = "route" /\ cur.dest = Self /\ ~cur.overlong
  /\ queue' = queue \cup {[n |-> delivered + 1, src |-> cur.src]}
  /\ delivered' = delivered + 1
  /\ pc' = "recv"
  /\ UNCHANGED <<forwarded, dropped, blocked, cur, tpc, snap, heartbeat,
                 received, taken, relayed>>
  /\ Witnessed

(* sendto refuses the packet. *)
SendFails == pc = "route" /\ cur.dest # Self /\ Routable(cur.dest) /\ CountDrop

(* sendto takes the packet: it is on its way before forwarded counts it. *)
SendNextHop ==
  /\ pc = "route" /\ cur.dest # Self /\ Routable(cur.dest)
  /\ relayed' = [relayed EXCEPT ![cur.src] = @ + 1]
  /\ pc' = "sent"
  /\ UNCHANGED <<state, cur, tpc, snap, heartbeat, received, taken, instants>>

CountForward ==
  /\ pc = "sent"
  /\ forwarded' = forwarded + 1
  /\ pc' = "recv"
  /\ UNCHANGED <<queue, delivered, dropped, blocked, cur, tpc, snap, heartbeat,
                 received, taken, relayed>>
  /\ Witnessed

HandleDatagram ==
  \/ RejectMalformed \/ Enforce \/ IgnoreControl
  \/ GateDrops \/ GatePasses
  \/ RejectData \/ Push \/ SendFails \/ SendNextHop \/ CountForward

-----------------------------------------------------------------------------
(* The application thread. *)

(* Mutants: from the wrong end, and full batches only. *)
FrontYoungest(k) == {p \in queue : Cardinality({q \in queue : q.n > p.n}) < k}
FrontFull(k) == IF Cardinality(queue) < k THEN {} ELSE FrontYoungest(k)

(* The k entries at the front of the queue. *)
Front(k) == {p \in queue : Cardinality({q \in queue : q.n < p.n}) < k}

(* One drain cycle; a cycle that finds the queue empty changes nothing. *)
Drain ==
  /\ queue # {}
  /\ queue' = queue \ Front(DrainMax)
  /\ consumed' = consumed \cup Front(DrainMax)
  /\ UNCHANGED <<delivered, forwarded, dropped, blocked, pc, cur, tpc, snap,
                 heartbeat, received, purged, relayed>>
  /\ Witnessed

-----------------------------------------------------------------------------
(* The telemetry thread. *)

(* The thread ends at once when it cannot open its socket. *)
OpenTelemetry ==
  /\ tpc = "start"
  /\ \/ tpc' = "sleep" /\ instants' = {Metrics}
     \/ tpc' = "gone" /\ UNCHANGED instants
  /\ UNCHANGED <<state, pc, cur, snap, heartbeat, received, taken, relayed>>

(* Mutant: one of the four is left over from the heartbeat before. *)
SnapshotTorn ==
  /\ tpc = "sleep"
  /\ snap' = [Metrics EXCEPT !.dropped = snap.dropped]
  /\ tpc' = "send"
  /\ UNCHANGED <<state, pc, cur, heartbeat, history>>

(* All four metrics are copied in one critical section. *)
Snapshot ==
  /\ tpc = "sleep"
  /\ snap' = Metrics
  /\ tpc' = "send"
  /\ UNCHANGED <<state, pc, cur, heartbeat, history>>

(* Back to sleep: what the metrics were before is too old from here on. *)
Sleep ==
  /\ tpc = "send"
  /\ tpc' = "sleep"
  /\ instants' = {Metrics}
  /\ UNCHANGED <<state, pc, cur, snap, received, taken, relayed>>

(* sendto, outside the lock. *)
SendHeartbeat == heartbeat' = snap /\ Sleep

HeartbeatFails == Sleep /\ UNCHANGED heartbeat

Telemetry == OpenTelemetry \/ Snapshot \/ SendHeartbeat \/ HeartbeatFails

Next == Receive \/ HandleDatagram \/ Drain \/ Telemetry

Spec == Init /\ [][Next]_vars

(* The threads keep running; Receive waits for the network and is not fair. *)
(* That sendto to the control plane does not fail for ever is an assumption *)
(* about the kernel.                                                        *)
Fairness ==
  /\ WF_vars(HandleDatagram)
  /\ WF_vars(Drain)
  /\ WF_vars(OpenTelemetry)
  /\ WF_vars(Snapshot)
  /\ WF_vars(SendHeartbeat \/ HeartbeatFails)
  /\ SF_vars(SendHeartbeat)

FairSpec == Spec /\ Fairness

-----------------------------------------------------------------------------
MetricValues == [queue : Nat, delivered : Nat, forwarded : Nat, dropped : Nat]

(* Types of every variable. *)
TypeOK ==
  /\ queue \in SUBSET Entry /\ IsFiniteSet(queue)
  /\ delivered \in Nat /\ forwarded \in Nat /\ dropped \in Nat
  /\ blocked \in SUBSET Int
  /\ pc \in {"recv", "parse", "route", "sent"}
  /\ cur \in Datagrams
  /\ tpc \in {"start", "sleep", "send", "gone"}
  /\ snap \in MetricValues /\ heartbeat \in MetricValues
  /\ received \in Nat
  /\ consumed \in SUBSET Entry
  /\ purged \in SUBSET Entry /\ IsFiniteSet(purged)
  /\ relayed \in [Sources -> Nat]
  /\ instants \in SUBSET MetricValues

(* No packet of a blocked source is ever in the queue.  The gate and the    *)
(* push are two critical sections (node.cpp:360-366 and 388-390), so the    *)
(* answer of the gate could be stale by the time of the push.               *)
NoBlockedQueued == \A p \in queue : p.src \notin blocked

(* The datagram the receive loop holds and has not accounted for yet. *)
InHand == IF pc = "recv" \/ cur.kind = "control" THEN 0 ELSE 1

(* Every datagram other than CONTROL is counted in exactly one counter      *)
(* (node.cpp:284-291 and 360-428); what a purge adds to dropped is on top,  *)
(* since those packets were counted as delivered when they were queued.     *)
EveryDatagramCountedOnce ==
  received + Cardinality(purged) = delivered + forwarded + dropped + InHand

(* Every packet ever queued was popped by the application, discarded by a   *)
(* BLOCK or is still there, and never two of these: a purge, which empties  *)
(* the queue and puts a rebuilt one back, between two drains neither loses  *)
(* a packet nor brings one back, and the application gets them in the order *)
(* they came (node.cpp:92-97, 329-340 and 388-390).                         *)
QueueAccounted ==
  /\ {p.n : p \in consumed \cup purged \cup queue} = 1..delivered
  /\ consumed \cap purged = {} /\ purged \cap queue = {}
  /\ \A p \in consumed, q \in queue : p.n < q.n

(* All four values about to be sent were the metrics at one and the same    *)
(* instant, one since the heartbeat before (node.cpp:117-124): whatever the *)
(* other threads count, none of the four is older or newer than the others. *)
HeartbeatIsACut == tpc = "send" => snap \in instants

(* Whatever the threads do meanwhile, a blocked source gets no packet into  *)
(* the queue and none to a next hop (node.cpp:356-366: "a blocked source    *)
(* cannot transit this node by either path").                               *)
BlockedSourceGoesNowhere ==
  [][\A s \in Sources \cap blocked :
       /\ relayed'[s] = relayed[s]
       /\ \A p \in queue' \ queue : p.src # s]_vars

(* The node implements the firewall it promises. *)
FW == INSTANCE Firewall WITH Ids <- Sources, admitted <- delivered
FirewallSpec == FW!Spec

(* The backlog is drained and the control plane gets to know it, unless the *)
(* telemetry thread never started: what the comment at node.cpp:70-73 says  *)
(* the consumer thread is for.  That datagrams stop coming is not in the    *)
(* formula: it is the bound MaxRecv that stops them.                        *)
BacklogReportedCleared ==
  [](tpc # "gone") => []<>(heartbeat.queue = 0)
=============================================================================
