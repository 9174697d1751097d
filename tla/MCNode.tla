------------------------------- MODULE MCNode -------------------------------
(* Node 3 with neighbour 4: destination 5 is reached through 4, 6 through a *)
(* hop that the topology file never declares, 9 not at all.                 *)
EXTENDS Node, TLC

MCNextHop == (4 :> 4) @@ (5 :> 4) @@ (6 :> 7)
=============================================================================
