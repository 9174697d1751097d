------------------------------ MODULE Firewall ------------------------------
(***************************************************************************)
(* What one data-plane node promises about its dynamic access list, seen   *)
(* from outside and with every datagram handled in one step: once a source *)
(* is blocked, nothing it sends is queued for the application or relayed   *)
(* to a next hop, and what it had already queued is gone.  Packets of the  *)
(* other sources reach the application in the order they were admitted.    *)
(*                                                                         *)
(* The node itself (module Node) takes several steps per datagram, with    *)
(* two other threads running between them; it is shown to implement this   *)
(* specification.                                                          *)
(***************************************************************************)
EXTENDS Integers, FiniteSets

CONSTANTS
  Ids   \* the source ids a packet may carry

VARIABLES
  blocked,    \* the sources the node has been told to block
  queue,      \* the admitted packets the application has not consumed
  admitted,   \* how many packets were ever admitted
  relayed     \* [source -> how many of its packets were sent to a next hop]

vars == <<blocked, queue, admitted, relayed>>

Init ==
  /\ blocked = {}
  /\ queue = {}
  /\ admitted = 0
  /\ relayed = [s \in Ids |-> 0]

(* A source is blocked and its backlog disappears in the same step. *)
Block ==
  \E b \in blocked' :
     /\ blocked' = blocked \cup {b}
     /\ queue' = {p \in queue : p.src # b}
     /\ UNCHANGED <<admitted, relayed>>

(* A packet addressed to this node joins the end of the queue. *)
Admit(s) ==
  /\ s \notin blocked
  /\ admitted' = admitted + 1
  /\ queue' = queue \cup {[n |-> admitted + 1, src |-> s]}
  /\ UNCHANGED <<blocked, relayed>>

(* A packet addressed elsewhere is handed to the next hop. *)
Relay(s) ==
  /\ s \notin blocked
  /\ relayed' = [relayed EXCEPT ![s] = @ + 1]
  /\ UNCHANGED <<blocked, queue, admitted>>

(* The application takes some packets, never a younger one before an older. *)
Consume ==
  /\ queue' \subseteq queue
  /\ queue' # queue
  /\ \A p \in queue \ queue', q \in queue' : p.n < q.n
  /\ UNCHANGED <<blocked, admitted, relayed>>

Next ==
  \/ Block
  \/ \E s \in Ids : Admit(s) \/ Relay(s)
  \/ Consume

Spec == Init /\ [][Next]_vars
=============================================================================
