----------------------------- MODULE MCRouting -----------------------------
(* Every undirected graph on five vertices, each edge in one direction; and *)
(* those with edges among the first three only, with a loop at vertex 2.    *)
EXTENDS Routing

MCVertices == 1 .. 5
MCSimple == SUBSET {e \in MCVertices \X MCVertices : e[1] < e[2]}
MCLooped == {g \cup {<<2, 2>>} : g \in SUBSET {<<1, 2>>, <<1, 3>>, <<2, 3>>}}
MCGraphs == MCSimple \cup MCLooped
=============================================================================
