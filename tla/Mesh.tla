-------------------------------- MODULE Mesh --------------------------------
(***************************************************************************)
(* The data plane as a whole: every node of the mesh with its table, its   *)
(* socket buffer and its access list; the packets of the three traffic     *)
(* generators (scripts/ddos.py, benign_traffic.py, send_packet.py) on      *)
(* their way from hop to hop; CONTROL packets that wait in the same        *)
(* buffers as the flood they are to stop; nodes that die.                  *)
(*                                                                         *)
(* A node takes one step per datagram here.  Module Node has the steps     *)
(* apart, and shows that a BLOCK cannot come between the gate and what     *)
(* follows it (NodeProofs, GateStillValid).  Counters, the application's   *)
(* queue and what a BLOCK purges from it are there too.                    *)
(*                                                                         *)
(* A socket buffer is a set: nothing below depends on the order in which   *)
(* datagrams are taken out.                                                *)
(***************************************************************************)
EXTENDS Integers, FiniteSets, Routes

CONSTANTS
  Nodes,        \* the ids the topology declares
  EdgeNodes,    \* those with role "edge"
  NextHop,      \* [node -> its routing_table: [destination -> next hop]]
  Route,        \* [node -> [destination -> the nodes a packet still visits]]
  Attacks,      \* what ddos.py is started with: {<<attacker, target>>}
  Probes,       \* what send_packet.py is started with
  Rules,        \* the BLOCK commands somebody sends: {[to, block]}
  BufferSize,   \* datagrams a socket buffer holds
  PayloadSize,  \* PAYLOAD_SIZE
  MaxSent,      \* bound: packets sent
  Crashable     \* bound: nodes that may die

(* The values of a 16-bit header field, and the length --bad-len declares. *)
U16 == 0 .. 65535
FalseLength == 9999

ASSUME MeshAssumption ==
  /\ Nodes \subseteq U16 \ {0} /\ EdgeNodes \subseteq Nodes
  /\ Attacks \subseteq Nodes \X Nodes
  /\ \A a \in Probes : /\ a.port \in Nodes
                       /\ a.src \in U16 /\ a.dest \in U16 /\ a.len \in U16
                       /\ {a.badLen, a.short, a.native} \subseteq BOOLEAN
  /\ \A r \in Rules : r.to \in Nodes /\ r.block \in Int
  /\ BufferSize \in Nat /\ PayloadSize \in Nat /\ MaxSent \in Nat

(* The tables of all nodes agree: TablesMakeRoutes of module RoutingProofs  *)
(* shows it of those build_routing_table builds.                            *)
ASSUME RouteAssumption == AreRoutes(Nodes, NextHop, Route)

VARIABLES
  sent,       \* how many packets were sent
  inbox,      \* [node -> packets in its socket buffer]
  commands,   \* [node -> block ids of the CONTROL packets in that buffer]
  acl,        \* [node -> its blocked_sources]
  alive,      \* the nodes whose process runs
  rules,      \* the commands still to be sent
  fate,       \* [packet id -> what has become of it]
  condemned   \* history: packets that had a closed node ahead of them

net == <<sent, inbox, commands, acl, alive, rules, fate>>
vars == <<sent, inbox, commands, acl, alive, rules, fate, condemned>>

Ids == 1 .. MaxSent

(* whole: the datagram has the size of a Packet.  at and hops are history:  *)
(* where the packet entered the mesh and how often it was forwarded.        *)
Packet == [id : Ids, src : Nat, dest : Nat, len : Nat, whole : BOOLEAN,
           at : Nodes, hops : Nat]

Init ==
  /\ sent = 0
  /\ inbox = [n \in Nodes |-> {}] /\ commands = [n \in Nodes |-> {}]
  /\ acl = [n \in Nodes |-> {}]
  /\ alive = Nodes /\ rules = Rules
  /\ fate = [i \in Ids |-> "unsent"]
  /\ condemned = {}

(* Mutant: one datagram too many. *)
RoomForOneMore(n) ==
  n \in alive /\ Cardinality(inbox[n]) + Cardinality(commands[n]) <= BufferSize

(* A datagram to n is kept; otherwise it is lost and no sender is told. *)
Room(n) ==
  n \in alive /\ Cardinality(inbox[n]) + Cardinality(commands[n]) < BufferSize

-----------------------------------------------------------------------------
(* The traffic generators. *)

(* One datagram to the port of n, with the next packet id. *)
Send(n, src, dest, len, whole) ==
  LET p == [id |-> sent + 1, src |-> src, dest |-> dest, len |-> len,
            whole |-> whole, at |-> n, hops |-> 0]
  IN  /\ sent < MaxSent
      /\ sent' = sent + 1
      /\ inbox' = IF Room(n) THEN [inbox EXCEPT ![n] = @ \cup {p}] ELSE inbox
      /\ fate' = [fate EXCEPT ![sent + 1] = IF Room(n) THEN "flying" ELSE "lost"]
      /\ UNCHANGED <<commands, acl, alive, rules>>

(* ddos.py: the attacker's own port gets the packets, with its id as source. *)
Flood == \E a \in Attacks : Send(a[1], a[1], a[2], 64, TRUE)

(* benign_traffic.py: from one edge node to another. *)
Benign == \E s, d \in EdgeNodes : s # d /\ Send(s, s, d, 32, TRUE)

(* What a node reads in a 16-bit field that was packed little-endian. *)
Swap(x) == (x % 256) * 256 + x \div 256

Field(a, x) == IF a.native THEN Swap(x) ELSE x

(* send_packet.py: any header to any port, a length that lies, a datagram   *)
(* cut short.  A payload that does not fit is refused before the packing.   *)
Probe ==
  \E a \in Probes :
    /\ a.len <= PayloadSize
    /\ Send(a.port, Field(a, a.src), Field(a, a.dest),
            Field(a, IF a.badLen THEN FalseLength ELSE a.len), ~a.short)

-----------------------------------------------------------------------------
(* CONTROL. *)

SendControl(r) ==
  /\ r \in rules
  /\ rules' = rules \ {r}
  /\ commands' = IF Room(r.to) THEN [commands EXCEPT ![r.to] = @ \cup {r.block}]
                               ELSE commands
  /\ UNCHANGED <<sent, inbox, acl, alive, fate>>

(* An id <= 0 is ignored. *)
HandleControl(n) ==
  /\ n \in alive
  /\ \E b \in commands[n] :
       /\ commands' = [commands EXCEPT ![n] = @ \ {b}]
       /\ acl' = IF b > 0 THEN [acl EXCEPT ![n] = @ \cup {b}] ELSE acl
  /\ UNCHANGED <<sent, inbox, alive, rules, fate>>

-----------------------------------------------------------------------------
(* The receive loop of node n, for a packet in its buffer. *)

(* The packet ends here. *)
Settle(n, p, end) ==
  /\ inbox' = [inbox EXCEPT ![n] = @ \ {p}]
  /\ fate' = [fate EXCEPT ![p.id] = end]
  /\ UNCHANGED <<sent, commands, acl, alive, rules>>

(* Mutants: the ACL of the destination alone counts; it holds both ways. *)
BlocksAtDestination(n, p) == p.src \in acl[n] /\ p.dest = n
BlocksBothWays(n, p) == {p.src, p.dest} \cap acl[n] # {}

Blocks(n, p) == p.src \in acl[n]

GateDrops(n, p) == p.whole /\ Blocks(n, p) /\ Settle(n, p, "gated")

(* The datagram has the wrong size, or it passes the gate and its payload   *)
(* length lies or its destination has no route.                             *)
Reject(n, p) ==
  /\ p.whole => /\ ~Blocks(n, p)
                /\ IF p.dest = n THEN p.len > PayloadSize
                                 ELSE p.dest \notin DOMAIN NextHop[n]
  /\ Settle(n, p, "rejected")

Deliver(n, p) ==
  /\ p.whole /\ ~Blocks(n, p) /\ p.dest = n /\ p.len <= PayloadSize
  /\ Settle(n, p, "delivered")

ToForward(n, p) ==
  p.whole /\ ~Blocks(n, p) /\ p.dest # n /\ p.dest \in DOMAIN NextHop[n]

(* Mutant: after the error the packet is tried once more. *)
SendFailsAndRetries(n, p) ==
  /\ ToForward(n, p)
  /\ fate' = [fate EXCEPT ![p.id] = "refused"]
  /\ UNCHANGED <<sent, inbox, commands, acl, alive, rules>>

(* sendto to the next hop fails. *)
SendFails(n, p) == ToForward(n, p) /\ Settle(n, p, "refused")

(* Mutant: the table is asked for the source. *)
HopToSource(n, p) ==
  IF p.src \in DOMAIN NextHop[n] THEN NextHop[n][p.src] ELSE NextHop[n][p.dest]

Hop(n, p) == NextHop[n][p.dest]

(* Mutant: the packet is sent again although the next hop took it. *)
ForwardKeeps(n, p) ==
  LET m == Hop(n, p)
      q == [p EXCEPT !.hops = @ + 1]
  IN  /\ ToForward(n, p) /\ Room(m)
      /\ inbox' = [inbox EXCEPT ![m] = @ \cup {q}]
      /\ UNCHANGED <<sent, commands, acl, alive, rules, fate>>

(* The datagram goes on unchanged. *)
Forward(n, p) ==
  LET m == Hop(n, p)
      q == [p EXCEPT !.hops = @ + 1]
  IN  /\ ToForward(n, p)
      /\ inbox' = [inbox EXCEPT ![n] = @ \ {p},
                                ![m] = IF Room(m) THEN @ \cup {q} ELSE @]
      /\ fate' = [fate EXCEPT ![p.id] = IF Room(m) THEN @ ELSE "lost"]
      /\ UNCHANGED <<sent, commands, acl, alive, rules>>

Handle(n) ==
  /\ n \in alive
  /\ \E p \in inbox[n] :
       GateDrops(n, p) \/ Reject(n, p) \/ Deliver(n, p) \/ SendFails(n, p)
                       \/ Forward(n, p)

(* A node process ends, with everything in its socket and its access list.  *)
(* Nobody starts it again and no table learns of it.                        *)
Crash(n) ==
  /\ n \in alive \cap Crashable
  /\ alive' = alive \ {n}
  /\ fate' = [i \in Ids |-> IF \E p \in inbox[n] : p.id = i THEN "lost" ELSE fate[i]]
  /\ inbox' = [inbox EXCEPT ![n] = {}]
  /\ commands' = [commands EXCEPT ![n] = {}]
  /\ acl' = [acl EXCEPT ![n] = {}]
  /\ UNCHANGED <<sent, rules>>

-----------------------------------------------------------------------------
(* The nodes a packet at n still has to pass, n included. *)
Ahead(n, p) == IF p.dest \in DOMAIN Route[n] THEN Route[n][p.dest] ELSE {}

Closed(m, s) == m \notin alive \/ s \in acl[m]

(* The packets under way that have a closed node ahead of them. *)
Hopeless ==
  {i \in Ids : \E n \in Nodes : \E p \in inbox[n] :
                 p.id = i /\ \E m \in Ahead(n, p) : Closed(m, p.src)}

Record == condemned' = condemned \cup Hopeless'

Step ==
  \/ Flood \/ Benign \/ Probe
  \/ \E r \in Rules : SendControl(r)
  \/ \E n \in Nodes : HandleControl(n) \/ Handle(n) \/ Crash(n)

Next == Step /\ Record

Spec == Init /\ [][Next]_vars

(* Every node that lives keeps receiving; nobody has to send, or to die. *)
FairSpec ==
  /\ Spec
  /\ \A n \in Nodes : WF_vars(Handle(n) /\ Record) /\ WF_vars(HandleControl(n) /\ Record)

-----------------------------------------------------------------------------
(* Types of every variable; no buffer holds more than its size. *)
TypeOK ==
  /\ sent \in 0 .. MaxSent
  /\ inbox \in [Nodes -> SUBSET Packet]
  /\ commands \in [Nodes -> SUBSET Int]
  /\ acl \in [Nodes -> SUBSET Nat]
  /\ alive \subseteq Nodes /\ rules \subseteq Rules
  /\ fate \in [Ids -> {"unsent", "flying", "delivered", "gated", "rejected",
                       "refused", "lost"}]
  /\ condemned \subseteq Ids
  /\ \A n \in Nodes :
       /\ IsFiniteSet(inbox[n]) /\ IsFiniteSet(commands[n])
       /\ Cardinality(inbox[n]) + Cardinality(commands[n]) <= BufferSize

(* A packet under way is in the buffer of exactly one node, and any other   *)
(* packet in none: no path through the receive loop (node.cpp:270-429) both *)
(* ends a packet and passes it on, passes it on twice, or forgets it.       *)
OnePlace ==
  /\ \A n, m \in Nodes : \A p \in inbox[n], q \in inbox[m] :
       p.id = q.id => n = m /\ p = q
  /\ \A i \in Ids : fate[i] = "flying" <=> \E n \in Nodes : \E p \in inbox[n] : p.id = i

(* Packets carry no hop limit (packet.h:31-38).  Wherever a packet is, the  *)
(* hops it made and those it still has to make add up to the distance it    *)
(* had when it entered, so it cannot circle, through any number of nodes.   *)
NoDetour ==
  \A n \in Nodes : \A p \in inbox[n] :
    p.dest \in DOMAIN Route[p.at] =>
      /\ p.dest \in DOMAIN Route[n]
      /\ p.hops + Cardinality(Route[n][p.dest]) = Cardinality(Route[p.at][p.dest])

(* Once a node that blocks the source, or that has died, is ahead of a      *)
(* packet, the packet is never delivered, whatever crashes and commands     *)
(* come later: one core on the way is enough (node.cpp:356-366), a node     *)
(* that dies takes its rules but not the traffic back, and no other route   *)
(* is ever taken (node.cpp:213-215).                                        *)
IsolatedForGood == \A i \in condemned : fate[i] # "delivered"

(* The mesh is to its users what Delivery promises. *)
DL == INSTANCE Delivery WITH Packets <- Ids
DeliverySpec == DL!Spec

(* What no command is about and no header spoils. *)
Legitimate(p) ==
  /\ p.whole /\ p.len <= PayloadSize /\ p.dest \in DOMAIN Route[p.at]
  /\ \A r \in Rules : r.block # p.src

(* Traffic nobody asked to block is not caught by the rules against others: *)
(* it arrives, unless a buffer is full, a node dies or the kernel refuses   *)
(* it (node.cpp:360-428).                                                   *)
LegitimateFlowsArrive ==
  \A i \in Ids :
    (\E n \in Nodes : \E p \in inbox[n] : p.id = i /\ Legitimate(p))
      ~> fate[i] \in {"delivered", "lost", "refused"}
=============================================================================
