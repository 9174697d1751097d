----------------------------- MODULE Mitigation -----------------------------
(***************************************************************************)
(* The whole mitigation cycle: the detector of the control plane, the      *)
(* nodes it watches and an attacker.  A flood raises the queue of the      *)
(* victim, heartbeats carry the queue sizes to the detector, the AI        *)
(* worker's plan becomes CONTROL packets, and a node that receives one     *)
(* blocks the attacker.  CONTROL packets may be lost (UDP, and the socket  *)
(* buffer of a flooded node is full), nodes may crash, and nobody starts   *)
(* them again.                                                             *)
(*                                                                         *)
(* A node is reduced to what its heartbeats and its access list show:      *)
(* module Node has it in full.                                             *)
(***************************************************************************)
EXTENDS Detector

CONSTANTS
  Attacker,   \* the source id of the flood
  Victim,     \* the node the flood is addressed to
  Path,       \* the nodes the flood passes, the victim included
  Cores,      \* the nodes with role "core"
  Crashable   \* bound: the nodes that may crash

ASSUME MitigationAssumption ==
  /\ Victim \in Path /\ Path \subseteq Nodes
  /\ Crashable \subseteq Nodes
  /\ \E floor \in Levels : floor <= Threshold

VARIABLES
  load,       \* [node -> size of its packet_queue]
  acl,        \* [node -> its blocked_sources]
  alive,      \* the nodes whose process runs
  flooding,   \* the attacker is sending
  lost        \* history: CONTROL packets lost since the last detection

nodeVars == <<load, acl, alive, flooding>>
mvars == <<vars, load, acl, alive, flooding, lost>>

Floor == CHOOSE l \in Levels : \A k \in Levels : l <= k

MInit ==
  /\ Init
  /\ load = [n \in Nodes |-> Floor]
  /\ acl = [n \in Nodes |-> {}]
  /\ alive = Nodes
  /\ flooding = TRUE
  /\ lost = {}

-----------------------------------------------------------------------------
(* Mutant: only the victim itself applies its ACL. *)
PassesTransit(n) == n \in alive /\ (n = Victim => Attacker \notin acl[n])

(* The gate of every node on the way: the ACL is applied to traffic in      *)
(* transit as well as to traffic for the node itself.                       *)
Passes(n) == n \in alive /\ Attacker \notin acl[n]

(* Packets of the flood reach the victim faster than it drains them. *)
Flood ==
  /\ flooding /\ \A n \in Path : Passes(n)
  /\ load[Victim] + 1 \in Levels
  /\ load' = [load EXCEPT ![Victim] = @ + 1]
  /\ UNCHANGED <<vars, acl, alive, flooding, lost>>

StopFlood ==
  /\ flooding
  /\ flooding' = FALSE
  /\ UNCHANGED <<vars, load, acl, alive, lost>>

(* Mutant: pops from an empty queue. *)
DrainQueueUnguarded(n) ==
  /\ n \in alive
  /\ load' = [load EXCEPT ![n] = @ - 1]
  /\ UNCHANGED <<vars, acl, alive, flooding, lost>>

(* The application thread of n. *)
DrainQueue(n) ==
  /\ n \in alive /\ load[n] - 1 \in Levels
  /\ load' = [load EXCEPT ![n] = @ - 1]
  /\ UNCHANGED <<vars, acl, alive, flooding, lost>>

(* The telemetry thread of n. *)
SendHeartbeat(n) ==
  /\ n \in alive
  /\ ReceiveHeartbeat(n, load[n])
  /\ UNCHANGED <<nodeVars, lost>>

(* Mutant: a node with nothing to purge forgets the rule. *)
BlockIfQueued(n, b) ==
  IF b > 0 /\ load[n] # Floor
    THEN /\ acl' = [acl EXCEPT ![n] = @ \cup {b}]
         /\ \E l \in {k \in Levels : k <= load[n]} : load' = [load EXCEPT ![n] = l]
    ELSE UNCHANGED <<acl, load>>

(* A usable BLOCK adds to the ACL and purges the source's packets, however  *)
(* many of the queue those are; an id <= 0 is ignored.                      *)
Block(n, b) ==
  IF b > 0
    THEN /\ acl' = [acl EXCEPT ![n] = @ \cup {b}]
         /\ \E l \in {k \in Levels : k <= load[n]} : load' = [load EXCEPT ![n] = l]
    ELSE UNCHANGED <<acl, load>>

DeliverControl(c) ==
  /\ NetworkTakes(c) /\ c.to \in alive
  /\ Block(c.to, c.block)
  /\ UNCHANGED <<alive, flooding, lost>>

(* A full socket buffer, or a port nobody listens on any more. *)
LoseControl(c) ==
  /\ NetworkTakes(c)
  /\ lost' = lost \cup {c}
  /\ UNCHANGED nodeVars

(* A node process ends; its queue and its ACL go with it.  Its last         *)
(* heartbeat stays in the control plane's map.                              *)
Crash(n) ==
  /\ n \in alive \cap Crashable
  /\ alive' = alive \ {n}
  /\ acl' = [acl EXCEPT ![n] = {}]
  /\ load' = [load EXCEPT ![n] = Floor]
  /\ UNCHANGED <<vars, flooding, lost>>

(* The detector's own steps; a detection opens a new cycle. *)
ControlPlane ==
  /\ MainLoop \/ Signal \/ ProcessEnds \/ \E w \in Slots : Worker(w)
  /\ lost' = IF armed /\ ~armed' THEN {} ELSE lost
  /\ UNCHANGED nodeVars

MNext ==
  \/ ControlPlane
  \/ Flood \/ StopFlood
  \/ \E n \in Nodes : DrainQueue(n) \/ SendHeartbeat(n) \/ Crash(n)
  \/ \E c \in control : DeliverControl(c) \/ LoseControl(c)

MSpec == MInit /\ [][MNext]_mvars

(* The threads of the control plane and of the nodes that live keep         *)
(* running, heartbeats are sent every second, and a CONTROL packet does not *)
(* stay in the network.  The attacker owes nobody anything.                 *)
MFairness ==
  /\ WF_mvars(MainLoop /\ ControlPlane) /\ WF_mvars(ProcessEnds /\ ControlPlane)
  /\ \A w \in Slots : WF_mvars(Worker(w) /\ ControlPlane)
  /\ \A n \in Nodes : WF_mvars(SendHeartbeat(n))
  /\ \A n \in Nodes : WF_mvars(DrainQueue(n))
  /\ WF_mvars(\E c \in control : DeliverControl(c) \/ LoseControl(c))

MFairSpec == MSpec /\ MFairness

-----------------------------------------------------------------------------
(* What the mitigation run adds to the types. *)
MTypeOK ==
  /\ load \in [Nodes -> Levels]
  /\ acl \in [Nodes -> SUBSET {p.block : p \in Plans}]
  /\ alive \subseteq Nodes
  /\ flooding \in BOOLEAN
  /\ lost \subseteq [to : Known, block : {p.block : p \in Plans}]

(* When the status line says "CONTROL packets sent to cores [...]", each of *)
(* those that still runs blocks the source, unless its packet is still on   *)
(* its way or was lost (main.py:345-383, node.cpp:316-341).  A source id    *)
(* <= 0 is no source: the nodes ignore the command and the status line does *)
(* not say so.                                                              *)
ShownMeansEnforced ==
  aiState = "done" =>
    \A i \in DOMAIN enforced :
      LET c == [to |-> enforced[i], block |-> strategy[1].block]
      IN  \/ c.block <= 0
          \/ c.to \notin alive
          \/ c.block \in acl[c.to]
          \/ c \in control \cup lost

Contained == \E n \in Path : Attacker \in acl[n]

(* One node of the path that enforces the block ends the attack for the     *)
(* detector: the victim's backlog clears, its heartbeats say so, and the    *)
(* detector is armed again, as long as the nodes live (node.cpp:356-366 and *)
(* 68-73, main.py:227-232).                                                 *)
BlockEndsAttack ==
  [](alive = Nodes) /\ <>Contained => <>[](armed \/ Ended)

(* "if a CONTROL packet is lost, the next anomaly cycle will simply re-fire *)
(* it" (main.py:362-364): a loss is followed by another cycle, unless the   *)
(* heartbeats once show that there is nothing left to mitigate.             *)
LostControlIsRefired ==
  lost # {} ~> lost = {} \/ Offenders(heartbeats) = {} \/ Ended

(* "Edge nodes are NEVER included here -- only core nodes enforce"          *)
(* (scripts/ai_orchestrator.py:107), and "Send a BLOCK CONTROL packet to    *)
(* each core node the AI chose" (main.py:359).                              *)
OnlyCoresEnforce == [][\A c \in control' \ control : c.to \in Cores]_mvars
=============================================================================
