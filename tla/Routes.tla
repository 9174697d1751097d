------------------------------- MODULE Routes -------------------------------
(***************************************************************************)
(* What the tables of all nodes are to each other: module Mesh assumes it, *)
(* module RoutingProofs shows it of the tables build_routing_table builds. *)
(***************************************************************************)
EXTENDS FiniteSets

(* next is [node -> [destination -> next hop]], route is [node ->           *)
(* [destination -> the nodes a packet still visits]]: itself, and then      *)
(* those of the route of its next hop, which does not come back.            *)
AreRoutes(nodes, next, route) ==
  \A n \in nodes :
    /\ DOMAIN route[n] = DOMAIN next[n] \cup {n}
    /\ route[n][n] = {n} /\ n \notin DOMAIN next[n]
    /\ \A d \in DOMAIN next[n] :
         LET m == next[n][d]
         IN  /\ m \in nodes \ {n} /\ d \in DOMAIN route[m]
             /\ IsFiniteSet(route[m][d]) /\ n \notin route[m][d]
             /\ route[n][d] = {n} \cup route[m][d]
=============================================================================
