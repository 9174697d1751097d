------------------------------ MODULE Delivery ------------------------------
(***************************************************************************)
(* What the data plane as a whole promises about the packets handed to it, *)
(* seen from outside: a packet is under way or not, and if it is, it comes *)
(* to one end, once.  From the moment some node closed to its source lies  *)
(* ahead of it, that end is not delivery.                                  *)
(*                                                                         *)
(* One step may change the fate of several packets: a node that dies takes *)
(* all it had in its socket with it.  Module Mesh implements this.         *)
(***************************************************************************)
CONSTANT Packets

VARIABLES
  fate,       \* [packet -> what has become of it]
  condemned   \* the packets a closed node lay ahead of at some instant

vars == <<fate, condemned>>

Ends == {"delivered", "gated", "rejected", "refused", "lost"}
Fates == {"unsent", "flying"} \cup Ends

Init ==
  /\ fate = [p \in Packets |-> "unsent"]
  /\ condemned = {}

(* How one packet may fare in a step. *)
Stays(p) == fate'[p] = fate[p]
Sent(p) == fate[p] = "unsent" /\ fate'[p] \in {"flying", "lost"}
Comes(p) ==
  /\ fate[p] = "flying" /\ fate'[p] \in Ends
  /\ p \in condemned => fate'[p] # "delivered"

Next ==
  /\ fate' \in [Packets -> Fates]
  /\ \A p \in Packets : Stays(p) \/ Sent(p) \/ Comes(p)
  /\ condemned \subseteq condemned'
  /\ \A p \in condemned' \ condemned : p \in Packets /\ fate'[p] = "flying"

Spec == Init /\ [][Next]_vars
=============================================================================
