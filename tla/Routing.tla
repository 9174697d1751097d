------------------------------ MODULE Routing ------------------------------
(***************************************************************************)
(* How a node builds its next-hop table at start-up: the adjacency list    *)
(* main() makes of the topology (src/src/node.cpp) and the Dijkstra search *)
(* of build_routing_table (src/src/routing.h), one heap entry per step,    *)
(* then one step of the walk back along the predecessors at a time.        *)
(*                                                                         *)
(* The topology is a variable that never changes: each behaviour is one    *)
(* call of build_routing_table, for a graph among Graphs.                  *)
(***************************************************************************)
EXTENDS Integers, FiniteSets

CONSTANTS
  Vertices,   \* ids the topology declares or an edge mentions
  Graphs,     \* the edge sets considered: sets of <<from, to>>
  Infinity    \* INT_MAX

ASSUME RoutingAssumption ==
  /\ Vertices \subseteq Nat \ {0} /\ IsFiniteSet(Vertices)
  /\ \A g \in Graphs : g \subseteq Vertices \X Vertices
  /\ Infinity \in Nat /\ Cardinality(Vertices) < Infinity

VARIABLES
  edges,    \* the topology's edges
  source,   \* node_id of the node that builds its table
  dist,     \* [vertex -> distance found so far]
  prev,     \* [vertex -> predecessor, -1 for none]
  heap,     \* the priority queue: {<<distance, vertex>>}
  pc,       \* "search", "derive", "walk" or "done"
  todo,     \* destinations whose next hop is still to be derived
  dest,     \* the destination being derived
  cur,      \* how far the walk back from dest has come
  table     \* routing_table: [destination -> next hop], partial

vars == <<edges, source, dist, prev, heap, pc, todo, dest, cur, table>>

(* The edges are undirected; one to itself gives a vertex itself for a      *)
(* neighbour.                                                               *)
Neighbours(u) == {v \in Vertices : <<u, v>> \in edges \/ <<v, u>> \in edges}

Init ==
  /\ edges \in Graphs
  /\ source \in Vertices
  /\ dist = [v \in Vertices |-> IF v = source THEN 0 ELSE Infinity]
  /\ prev = [v \in Vertices |-> -1]
  /\ heap = {<<0, source>>}
  /\ pc = "search"
  /\ todo = {} /\ dest = source /\ cur = source
  /\ table = <<>>

(* Mutant: the largest first, as std::priority_queue does by default. *)
BeforeGreatest(e, f) == e[1] > f[1] \/ (e[1] = f[1] /\ e[2] > f[2])

(* The heap's order: by distance, then by id. *)
Before(e, f) == e[1] < f[1] \/ (e[1] = f[1] /\ e[2] < f[2])

Top == CHOOSE e \in heap : \A f \in heap \ {e} : Before(e, f)

(* Mutant: a weight the search cannot take. *)
WeightNegative == -1

(* Every edge weighs the same. *)
Weight == 1

(* Mutant: without the comparison. *)
RelaxedAlways(d, u) == Neighbours(u)

(* The neighbours of u that a path through u brings closer. *)
Relaxed(d, u) == {v \in Neighbours(u) : d + Weight < dist[v]}

(* One turn of the search loop; an entry whose vertex was since reached on  *)
(* a shorter path is discarded.                                             *)
PopHeap ==
  /\ pc = "search" /\ heap # {}
  /\ LET d == Top[1]
         u == Top[2]
         closer == IF d > dist[u] THEN {} ELSE Relaxed(d, u)
     IN  /\ dist' = [v \in Vertices |-> IF v \in closer THEN d + Weight ELSE dist[v]]
         /\ prev' = [v \in Vertices |-> IF v \in closer THEN u ELSE prev[v]]
         /\ heap' = (heap \ {Top}) \cup {<<d + Weight, v>> : v \in closer}
  /\ UNCHANGED <<edges, source, pc, todo, dest, cur, table>>

SearchEnds ==
  /\ pc = "search" /\ heap = {}
  /\ todo' = {v \in Vertices \ {source} : dist[v] # Infinity}
  /\ pc' = "derive"
  /\ UNCHANGED <<edges, source, dist, prev, heap, dest, cur, table>>

(* The destinations come in the order of a hash map. *)
StartWalk ==
  /\ pc = "derive"
  /\ \E d \in todo : todo' = todo \ {d} /\ dest' = d /\ cur' = d
  /\ pc' = "walk"
  /\ UNCHANGED <<edges, source, dist, prev, heap, table>>

(* Mutant: no walk at all. *)
WalkStopsAtOnce(v) == TRUE

WalkStops(v) == prev[v] \in {source, -1}

(* Mutant: always one step from the destination. *)
WalkBackFromDest ==
  /\ pc = "walk" /\ ~WalkStops(cur)
  /\ cur' = prev[dest]
  /\ UNCHANGED <<edges, source, dist, prev, heap, pc, todo, dest, table>>

WalkBack ==
  /\ pc = "walk" /\ ~WalkStops(cur)
  /\ cur' = prev[cur]
  /\ UNCHANGED <<edges, source, dist, prev, heap, pc, todo, dest, table>>

EndWalk ==
  /\ pc = "walk" /\ WalkStops(cur)
  /\ table' = IF prev[cur] = source
                THEN [d \in DOMAIN table \cup {dest} |->
                        IF d = dest THEN cur ELSE table[d]]
                ELSE table
  /\ pc' = "derive"
  /\ UNCHANGED <<edges, source, dist, prev, heap, todo, dest, cur>>

Return ==
  /\ pc = "derive" /\ todo = {}
  /\ pc' = "done"
  /\ UNCHANGED <<edges, source, dist, prev, heap, todo, dest, cur, table>>

Next == PopHeap \/ SearchEnds \/ StartWalk \/ WalkBack \/ EndWalk \/ Return

Spec == Init /\ [][Next]_vars

(* The function runs until it returns. *)
FairSpec == Spec /\ WF_vars(Next)

-----------------------------------------------------------------------------
(* Types of every variable. *)
TypeOK ==
  /\ edges \in Graphs /\ source \in Vertices
  /\ dist \in [Vertices -> Nat]
  /\ prev \in [Vertices -> Vertices \cup {-1}]
  /\ heap \subseteq Nat \X Vertices
  /\ pc \in {"search", "derive", "walk", "done"}
  /\ todo \subseteq Vertices /\ dest \in Vertices /\ cur \in Vertices
  /\ DOMAIN table \subseteq Vertices
  /\ \A d \in DOMAIN table : table[d] \in Vertices

(* The predecessors form a tree rooted at the source: each reached vertex   *)
(* hangs one step further away than its predecessor, so the walk back       *)
(* (routing.h:70-72) cannot run in a circle.                                *)
PredecessorTree ==
  \A v \in Vertices \ {source} :
     IF dist[v] = Infinity
       THEN prev[v] = -1
       ELSE prev[v] \in Neighbours(v) /\ dist[v] = dist[prev[v]] + 1

(* No entry of the heap is out of date and no two are more than one apart:  *)
(* with unit weights the discard at routing.h:46 never has anything to do,  *)
(* and every vertex is expanded once.                                       *)
FrontierTight ==
  \A e, f \in heap : e[1] = dist[e[2]] /\ e[1] <= f[1] + 1

(* The vertices at most k edges away from u: the reference the search is    *)
(* compared with.                                                           *)
Ball(u) ==
  LET B[k \in 0 .. Cardinality(Vertices)] ==
        IF k = 0 THEN {u}
        ELSE B[k - 1] \cup UNION {Neighbours(v) : v \in B[k - 1]}
  IN  B

Hops(u, v) ==
  LET B == Ball(u)
  IN  CHOOSE k \in DOMAIN B : v \in B[k] /\ \A j \in 0 .. k - 1 : v \notin B[j]

Reachable(u) == Ball(u)[Cardinality(Vertices)]

(* A table of s has exactly the reachable destinations (an absent one is    *)
(* "no route", routing.h:18-20), and each next hop is a neighbour one step  *)
(* nearer to the destination.                                               *)
IsTable(s, t) ==
  /\ DOMAIN t = Reachable(s) \ {s}
  /\ \A d \in DOMAIN t :
       t[d] \in Neighbours(s) /\ Hops(t[d], d) + 1 = Hops(s, d)

(* What build_routing_table returns is such a table.  All nodes build       *)
(* theirs from the same file, so a packet gets nearer with every hop and    *)
(* cannot loop, although it has no hop limit.                               *)
EveryHopIsCloser == pc = "done" => IsTable(source, table)

(* Both loops of build_routing_table end. *)
TableIsBuilt == <>(pc = "done")
=============================================================================
