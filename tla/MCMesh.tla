------------------------------- MODULE MCMesh -------------------------------
(* Edges 1 and 2, cores 3, 4 and 5:                                         *)
(*        3                                                                 *)
(*      /   \                                                               *)
(*    1       5 - 2                                                         *)
(*      \   /                                                               *)
(*        4                                                                 *)
(* Equal paths go through 3; 4 is the uplink nobody uses.                   *)
EXTENDS Mesh

MCNodes == 1 .. 5
MCLinks == {{1, 3}, {1, 4}, {3, 5}, {4, 5}, {5, 2}}

(* The nodes at most k links from u. *)
MCBall(u) ==
  LET B[k \in 0 .. 5] ==
        IF k = 0 THEN {u}
        ELSE B[k - 1] \cup {v \in MCNodes : \E w \in B[k - 1] : {v, w} \in MCLinks}
  IN  B
MCDist(u, v) ==
  CHOOSE k \in 0 .. 5 : v \in MCBall(u)[k] /\ (k > 0 => v \notin MCBall(u)[k - 1])

(* What build_routing_table yields here, row by row; 0 where there is no    *)
(* entry.  From 3 to 4 and back, the way through 1 is found first.          *)
MCTable == << <<0, 3, 3, 4, 3>>, <<5, 0, 5, 5, 5>>, <<1, 5, 0, 1, 5>>,
              <<1, 5, 1, 0, 5>>, <<3, 2, 3, 4, 0>> >>
MCNextHop == [n \in MCNodes |-> [d \in MCNodes \ {n} |-> MCTable[n][d]]]

MCPaths == << <<{1}, {1, 3, 5, 2}, {1, 3}, {1, 4}, {1, 3, 5}>>,
              <<{2, 5, 3, 1}, {2}, {2, 5, 3}, {2, 5, 4}, {2, 5}>>,
              <<{3, 1}, {3, 5, 2}, {3}, {3, 1, 4}, {3, 5}>>,
              <<{4, 1}, {4, 5, 2}, {4, 1, 3}, {4}, {4, 5}>>,
              <<{5, 3, 1}, {5, 2}, {5, 3}, {5, 4}, {5}>> >>
MCRoute == [n \in MCNodes |-> [d \in MCNodes |-> MCPaths[n][d]]]

ASSUME RoutesAreShortest ==
  \A n, d \in MCNodes :
    /\ Cardinality(MCRoute[n][d]) = MCDist(n, d) + 1
    /\ n # d => {n, MCNextHop[n][d]} \in MCLinks

(* A length that lies, a datagram cut short, and bytes in the wrong order   *)
(* with a destination that is one of the nodes when it is read.             *)
MCProbe == [port |-> 1, src |-> 7, dest |-> 3, len |-> 17,
            badLen |-> FALSE, short |-> FALSE, native |-> FALSE]
MCProbes == {[MCProbe EXCEPT !.badLen = TRUE], [MCProbe EXCEPT !.short = TRUE],
             [MCProbe EXCEPT !.native = TRUE],
             [MCProbe EXCEPT !.native = TRUE, !.src = 256, !.dest = 512, !.len = 0]}

MCRules == {[to |-> 3, block |-> 1], [to |-> 5, block |-> 1], [to |-> 3, block |-> 0]}
MCAttacks == {<<1, 2>>}
=============================================================================
