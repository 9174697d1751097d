---------------------------- MODULE RoutingProofs ----------------------------
(***************************************************************************)
(* That the search of build_routing_table leaves a tree of predecessors    *)
(* behind, on every graph of any size: what makes the walk back along them *)
(* (routing.h:70-72) safe; and that the table the walks fill in has the    *)
(* reachable destinations, each under a neighbour that is one step nearer. *)
(*                                                                         *)
(* The argument is the one for a breadth-first search.  Whatever was       *)
(* reached is at most one step beyond anything in the heap, so only        *)
(* vertices not reached yet are relaxed, and a distance, once set, stays.  *)
(* What left the heap has had its neighbours reached, so at the end no     *)
(* walk is shorter than a distance; a walk back counts the distance down.  *)
(*                                                                         *)
(* Then: that the tables of all nodes together give routes that do not     *)
(* come back, as module Mesh assumes; and that every step leaves fewer to  *)
(* come.                                                                   *)
(***************************************************************************)
EXTENDS Routing, Routes, FiniteSetTheorems, FunctionTheorems, WellFoundedInduction, TLAPS

Reached(v) == dist[v] # Infinity

(* Nothing that was reached is further than one step beyond the heap. *)
NothingAhead ==
  \A e \in heap : \A v \in Vertices : Reached(v) => dist[v] <= e[1] + 1

Rooted == dist[source] = 0 /\ prev[source] = -1

Bounded == \A v \in Vertices : dist[v] <= Infinity

IInv ==
  /\ TypeOK
  /\ Bounded
  /\ Rooted
  /\ PredecessorTree
  /\ FrontierTight
  /\ NothingAhead

-----------------------------------------------------------------------------
(* A set of naturals that is not empty has a least element. *)
LEMMA Least ==
  ASSUME NEW S \in SUBSET Nat, S # {}
  PROVE  \E x \in S : \A y \in S : x <= y
<1> DEFINE R == {ss \in Nat \X Nat : ss[1] < ss[2]}
<1>1. IsWellFoundedOn(R, Nat)
  BY NatLessThanWellFounded, Zenon DEF OpToRel
<1>2. PICK x \in S : \A y \in S : ~ (<<y, x>> \in R)
  <2> HIDE DEF R
  <2> QED
    BY <1>1, WFMin
<1>3. ASSUME NEW y \in S PROVE x <= y
  <2>1. x \in Nat /\ y \in Nat /\ ~ (y < x)
    BY <1>2
  <2> QED
    BY <2>1
<1> QED
  BY <1>3

(* What a pair is made of. *)
LEMMA PairParts ==
  ASSUME NEW S, NEW T, NEW f \in S \X T
  PROVE  f = <<f[1], f[2]>> /\ f[1] \in S /\ f[2] \in T
  OBVIOUS

(* The heap has a top, and nothing in it is nearer. *)
LEMMA TopIsLeast ==
  ASSUME TypeOK, heap # {}
  PROVE  Top \in heap /\ \A f \in heap : Top[1] <= f[1]
<1>1. heap \subseteq Nat \X Vertices /\ Vertices \subseteq Nat
  BY RoutingAssumption DEF TypeOK
<1> DEFINE D == {e[1] : e \in heap}
<1>2. PICK d \in D : \A x \in D : d <= x
  <2>1. D \in SUBSET Nat /\ D # {}
    BY <1>1
  <2> HIDE DEF D
  <2> QED
    BY <2>1, Least
<1> DEFINE I == {e[2] : e \in {f \in heap : f[1] = d}}
<1>3. I \in SUBSET Nat /\ I # {}
  BY <1>1, <1>2
<1>4. PICK i \in I : \A x \in I : i <= x
  BY <1>3, Least
<1>5. <<d, i>> \in heap
  BY <1>1, <1>4
<1>6. \A f \in heap \ {<<d, i>>} : Before(<<d, i>>, f)
  <2> SUFFICES ASSUME NEW f \in heap, f # <<d, i>> PROVE Before(<<d, i>>, f)
    OBVIOUS
  <2>1. f = <<f[1], f[2]>> /\ f[1] \in Nat /\ f[2] \in Nat
    <3>1. f \in Nat \X Vertices /\ Vertices \subseteq Nat
      BY <1>1
    <3> QED
      BY <3>1, PairParts
  <2>2. d \in Nat /\ i \in Nat
    BY <1>1, <1>5
  <2>3. d <= f[1]
    BY <1>2
  <2>4. f[1] = d => i <= f[2]
    BY <1>4
  <2> QED
    BY <2>1, <2>2, <2>3, <2>4 DEF Before
<1>7. Top \in heap /\ \A f \in heap \ {Top} : Before(Top, f)
  BY <1>5, <1>6 DEF Top
<1>8. \A f \in heap \ {Top} : Top[1] <= f[1]
  BY <1>1, <1>7 DEF Before
<1> QED
  BY <1>1, <1>7, <1>8

LEMMA InitHolds == Init => IInv
<1> SUFFICES ASSUME Init PROVE IInv
  OBVIOUS
<1>1. Infinity \in Nat /\ Infinity # 0
  BY RoutingAssumption, FS_CardinalityType
<1> QED
  BY <1>1, RoutingAssumption
  DEF Init, IInv, TypeOK, Bounded, Rooted, PredecessorTree, FrontierTight,
      NothingAhead, Reached

(* One turn of the search: what it sets was not reached before. *)
LEMMA PopHeapHolds == IInv /\ PopHeap => IInv'
<1> SUFFICES ASSUME IInv, PopHeap PROVE IInv'
  OBVIOUS
<1> DEFINE d == Top[1]
           u == Top[2]
           closer == IF d > dist[u] THEN {} ELSE Relaxed(d, u)
<1>1. /\ Top \in heap /\ \A f \in heap : d <= f[1]
      /\ d \in Nat /\ u \in Vertices /\ d = dist[u] /\ Infinity \in Nat
  BY TopIsLeast, RoutingAssumption DEF IInv, TypeOK, PopHeap, FrontierTight
<1>2. closer \subseteq Vertices /\ closer \subseteq Neighbours(u)
  BY DEF Relaxed, Neighbours
<1>3. \A v \in closer : dist[v] = Infinity /\ d + 1 < Infinity
  BY <1>1, <1>2 DEF IInv, TypeOK, Bounded, NothingAhead, Reached, Relaxed, Weight
<1>4. /\ dist' = [v \in Vertices |-> IF v \in closer THEN d + 1 ELSE dist[v]]
      /\ prev' = [v \in Vertices |-> IF v \in closer THEN u ELSE prev[v]]
      /\ heap' = (heap \ {Top}) \cup {<<d + 1, v>> : v \in closer}
      /\ UNCHANGED <<edges, source, pc, todo, dest, cur, table>>
  BY DEF PopHeap, Weight
<1> HIDE DEF closer, d, u
<1>5. TypeOK'
  BY <1>1, <1>2, <1>4 DEF IInv, TypeOK
<1>6. Bounded'
  BY <1>1, <1>3, <1>4 DEF IInv, TypeOK, Bounded
<1>7. Rooted'
  BY <1>1, <1>3, <1>4 DEF IInv, TypeOK, Rooted
<1>8. PredecessorTree'
  <2> SUFFICES ASSUME NEW v \in Vertices, v # source
               PROVE  IF dist'[v] = Infinity
                        THEN prev'[v] = -1
                        ELSE prev'[v] \in Neighbours(v) /\ dist'[v] = dist'[prev'[v]] + 1
    BY <1>4 DEF PredecessorTree, Neighbours
  <2>1. CASE v \in closer
    <3>1. u \notin closer /\ u \in Neighbours(v)
      BY <1>1, <1>2, <1>3, <2>1 DEF Neighbours
    <3> QED
      BY <1>1, <1>3, <1>4, <2>1, <3>1
  <2>2. CASE v \notin closer
    <3>1. CASE dist[v] = Infinity
      BY <1>4, <2>2, <3>1 DEF IInv, PredecessorTree
    <3>2. CASE dist[v] # Infinity
      <4>1. prev[v] \in Neighbours(v) /\ dist[v] = dist[prev[v]] + 1
        BY <3>2 DEF IInv, PredecessorTree
      <4>2. prev[v] \in Vertices /\ dist[prev[v]] # Infinity
        BY <1>1, <4>1 DEF Neighbours, IInv, TypeOK, Bounded
      <4> QED
        BY <1>3, <1>4, <2>2, <3>2, <4>1, <4>2
    <3> QED
      BY <3>1, <3>2
  <2> QED
    BY <2>1, <2>2
<1>9. \A e \in heap' : /\ e[2] \in Vertices /\ e[1] \in {d, d + 1}
                       /\ e[1] = dist'[e[2]]
  <2> SUFFICES ASSUME NEW e \in heap'
               PROVE  e[2] \in Vertices /\ e[1] \in {d, d + 1} /\ e[1] = dist'[e[2]]
    OBVIOUS
  <2>1. CASE e \in heap
    <3>1. /\ e[1] \in Nat /\ e[2] \in Vertices /\ e[1] = dist[e[2]]
          /\ d <= e[1] /\ e[1] <= d + 1
      <4>1. e[1] \in Nat /\ e[2] \in Vertices
        BY <2>1 DEF IInv, TypeOK
      <4>2. e[1] = dist[e[2]] /\ e[1] <= d + 1
        BY <1>1, <2>1 DEF IInv, FrontierTight, d
      <4> QED
        BY <1>1, <2>1, <4>1, <4>2
    <3>2. e[2] \notin closer
      BY <1>1, <1>3, <3>1
    <3> QED
      BY <1>1, <1>4, <3>1, <3>2
  <2>2. CASE e \notin heap
    <3>1. PICK v \in closer : e = <<d + 1, v>>
      BY <1>4, <2>2
    <3> QED
      BY <1>2, <1>4, <3>1
  <2> QED
    BY <2>1, <2>2
<1>10. FrontierTight'
  BY <1>1, <1>9 DEF FrontierTight
<1>11. NothingAhead'
  <2> SUFFICES ASSUME NEW e \in heap', NEW v \in Vertices, dist'[v] # Infinity
               PROVE  dist'[v] <= e[1] + 1
    BY DEF NothingAhead, Reached
  <2>1. dist'[v] <= d + 1 /\ dist'[v] \in Nat
    <3>1. dist[v] \in Nat /\ (dist[v] # Infinity => dist[v] <= d + 1)
      BY <1>1 DEF IInv, TypeOK, NothingAhead, Reached, d
    <3> QED
      BY <1>1, <1>4, <3>1
  <2> QED
    BY <1>1, <1>9, <2>1
<1> QED
  BY <1>5, <1>6, <1>7, <1>8, <1>10, <1>11 DEF IInv

(* The derivation of the table reads what the search left. *)
LEMMA DerivationHolds ==
  IInv /\ (SearchEnds \/ StartWalk \/ WalkBack \/ EndWalk \/ Return) => IInv'
<1> SUFFICES ASSUME IInv, SearchEnds \/ StartWalk \/ WalkBack \/ EndWalk \/ Return
             PROVE  IInv'
  OBVIOUS
<1>1. UNCHANGED <<edges, source, dist, prev, heap>>
  BY DEF SearchEnds, StartWalk, WalkBack, EndWalk, Return
<1>2. TypeOK'
  BY <1>1 DEF IInv, TypeOK, SearchEnds, StartWalk, WalkBack, EndWalk, Return,
              WalkStops
<1>3. Bounded' /\ Rooted' /\ FrontierTight' /\ NothingAhead'
  BY <1>1 DEF IInv, Bounded, Rooted, FrontierTight, NothingAhead, Reached
<1>4. PredecessorTree'
  BY <1>1 DEF IInv, PredecessorTree, Neighbours
<1> QED
  BY <1>2, <1>3, <1>4 DEF IInv

LEMMA Inductive == Spec => []IInv
<1>1. IInv /\ [Next]_vars => IInv'
  <2>1. IInv /\ UNCHANGED vars => IInv'
    BY DEF vars, IInv, TypeOK, Bounded, Rooted, PredecessorTree, FrontierTight,
           NothingAhead, Reached, Neighbours
  <2> QED
    BY <2>1, PopHeapHolds, DerivationHolds DEF Next
<1> QED
  BY <1>1, InitHolds, PTL DEF Spec

-----------------------------------------------------------------------------
(* Every variable keeps its type; in particular the walk back never leaves  *)
(* the vertices (routing.h:69-72).                                          *)
THEOREM RoutingTyped == Spec => []TypeOK
<1>1. IInv => TypeOK
  BY DEF IInv
<1> QED
  BY <1>1, Inductive, PTL

(* The predecessors form a tree rooted at the source, so the walk back      *)
(* cannot run in a circle (routing.h:50-59, 70-72).                         *)
THEOREM TreeOfPredecessors == Spec => []PredecessorTree
<1>1. IInv => PredecessorTree
  BY DEF IInv
<1> QED
  BY <1>1, Inductive, PTL

(* No entry of the heap is ever out of date: the discard at routing.h:46    *)
(* has nothing to do.                                                       *)
THEOREM NoStaleEntry == Spec => []FrontierTight
<1>1. IInv => FrontierTight
  BY DEF IInv
<1> QED
  BY <1>1, Inductive, PTL

-----------------------------------------------------------------------------
(* The reference the table is compared with: Ball is a recursive function,  *)
(* and the vertices of its k-th value are the ends of the walks of k steps. *)

N == Cardinality(Vertices)

NextTo(E, u) == {v \in Vertices : <<u, v>> \in E \/ <<v, u>> \in E}

(* A walk of k steps from u, each along an edge of E or on the spot. *)
IsWalk(E, u, k, p) ==
  /\ p \in [0 .. k -> Vertices] /\ p[0] = u
  /\ \A i \in 1 .. k : p[i] = p[i - 1] \/ p[i] \in NextTo(E, p[i - 1])

Within(E, u, k) == {v \in Vertices : \E p : IsWalk(E, u, k, p) /\ p[k] = v}

(* The vertices next to those of a set. *)
Around(S) == UNION {Neighbours(v) : v \in S}

LEMMA SizeIsNat == N \in Nat /\ N < Infinity /\ Infinity \in Nat
  BY RoutingAssumption, FS_CardinalityType DEF N

LEMMA WithinNone ==
  ASSUME NEW E, NEW u \in Vertices
  PROVE  Within(E, u, 0) = {u}
<1>1. ASSUME NEW v \in Within(E, u, 0) PROVE v = u
  BY DEF Within, IsWalk
<1>2. u \in Within(E, u, 0)
  <2> DEFINE p == [i \in 0 .. 0 |-> u]
  <2>1. IsWalk(E, u, 0, p) /\ p[0] = u
    BY DEF IsWalk
  <2> HIDE DEF p
  <2> QED
    BY <2>1 DEF Within
<1> QED
  BY <1>1, <1>2

(* A walk goes on, along an edge or on the spot. *)
LEMMA WithinOnwards ==
  ASSUME NEW E, NEW u \in Vertices, NEW k \in Nat,
         NEW w \in Within(E, u, k), NEW v, v = w \/ v \in NextTo(E, w)
  PROVE  v \in Within(E, u, k + 1)
<1>1. PICK p : IsWalk(E, u, k, p) /\ p[k] = w
  BY DEF Within
<1> DEFINE q == [i \in 0 .. k + 1 |-> IF i = k + 1 THEN v ELSE p[i]]
<1>2. v \in Vertices
  BY DEF NextTo, Within
<1>3. q \in [0 .. k + 1 -> Vertices] /\ q[0] = u /\ q[k + 1] = v
  BY <1>1, <1>2 DEF IsWalk
<1>4. \A i \in 1 .. k + 1 : q[i] = q[i - 1] \/ q[i] \in NextTo(E, q[i - 1])
  BY <1>1 DEF IsWalk
<1> HIDE DEF q
<1> QED
  BY <1>2, <1>3, <1>4 DEF Within, IsWalk

(* The last step of a walk. *)
LEMMA WithinLast ==
  ASSUME NEW E, NEW u \in Vertices, NEW k \in Nat, NEW v \in Within(E, u, k + 1)
  PROVE  \E w \in Within(E, u, k) : v = w \/ v \in NextTo(E, w)
<1>1. PICK p : IsWalk(E, u, k + 1, p) /\ p[k + 1] = v
  BY DEF Within
<1> DEFINE q == [i \in 0 .. k |-> p[i]]
<1>2. IsWalk(E, u, k, q) /\ q[k] = p[k] /\ p[k] \in Vertices
  BY <1>1 DEF IsWalk
<1> HIDE DEF q
<1>3. p[k] \in Within(E, u, k)
  BY <1>2 DEF Within
<1>4. v = p[k] \/ v \in NextTo(E, p[k])
  BY <1>1 DEF IsWalk
<1> QED
  BY <1>3, <1>4

(* What one walks to from a neighbour is one step further from here. *)
LEMMA WithinFromNext ==
  ASSUME NEW E, NEW u \in Vertices, NEW w \in NextTo(E, u), NEW k \in Nat,
         NEW v \in Within(E, w, k)
  PROVE  v \in Within(E, u, k + 1)
<1>1. PICK p : IsWalk(E, w, k, p) /\ p[k] = v
  BY DEF Within
<1> DEFINE q == [i \in 0 .. k + 1 |-> IF i = 0 THEN u ELSE p[i - 1]]
<1>2. q \in [0 .. k + 1 -> Vertices] /\ q[0] = u /\ q[k + 1] = v
  BY <1>1 DEF IsWalk
<1>3. \A i \in 1 .. k + 1 : q[i] = q[i - 1] \/ q[i] \in NextTo(E, q[i - 1])
  <2> SUFFICES ASSUME NEW i \in 1 .. k + 1
               PROVE  q[i] = q[i - 1] \/ q[i] \in NextTo(E, q[i - 1])
    OBVIOUS
  <2>1. CASE i = 1
    BY <1>1, <2>1 DEF IsWalk
  <2>2. CASE i # 1
    <3>1. i - 1 \in 1 .. k /\ q[i] = p[i - 1] /\ q[i - 1] = p[(i - 1) - 1]
      BY <2>2
    <3> QED
      BY <1>1, <3>1 DEF IsWalk
  <2> QED
    BY <2>1, <2>2
<1> HIDE DEF q
<1>4. v \in Vertices
  BY DEF Within
<1> QED
  BY <1>2, <1>3, <1>4 DEF Within, IsWalk

(* A longer walk may stand still at its end. *)
LEMMA WithinMore ==
  ASSUME NEW E, NEW u \in Vertices, NEW k \in Nat, NEW v \in Within(E, u, k),
         NEW j \in Nat, k <= j
  PROVE  v \in Within(E, u, j)
<1>1. PICK p : IsWalk(E, u, k, p) /\ p[k] = v
  BY DEF Within
<1> DEFINE q == [i \in 0 .. j |-> IF i <= k THEN p[i] ELSE v]
<1>2. v \in Vertices
  BY DEF Within
<1>3. q \in [0 .. j -> Vertices] /\ q[0] = u /\ q[j] = v
  BY <1>1, <1>2 DEF IsWalk
<1>4. \A i \in 1 .. j : q[i] = q[i - 1] \/ q[i] \in NextTo(E, q[i - 1])
  BY <1>1 DEF IsWalk
<1> HIDE DEF q
<1> QED
  BY <1>2, <1>3, <1>4 DEF Within, IsWalk

(* What the definition of Ball asks of a ball; the sets of walk ends do it. *)
Grown(u, B) == [k \in 0 .. N |-> IF k = 0 THEN {u} ELSE B[k - 1] \cup Around(B[k - 1])]

LEMMA WithinGrows ==
  ASSUME NEW u \in Vertices, NEW k \in Nat \ {0}
  PROVE  Within(edges, u, k)
           = Within(edges, u, k - 1) \cup Around(Within(edges, u, k - 1))
<1>1. k - 1 \in Nat /\ (k - 1) + 1 = k
  OBVIOUS
<1>2. \A w : NextTo(edges, w) = Neighbours(w)
  BY DEF NextTo, Neighbours
<1>3. ASSUME NEW v \in Within(edges, u, k)
      PROVE  v \in Within(edges, u, k - 1) \cup Around(Within(edges, u, k - 1))
  BY <1>1, <1>2, WithinLast DEF Around
<1>4. ASSUME NEW w \in Within(edges, u, k - 1), NEW v, v = w \/ v \in Neighbours(w)
      PROVE  v \in Within(edges, u, k)
  <2>1. v = w \/ v \in NextTo(edges, w)
    BY <1>2, <1>4
  <2>2. v \in Within(edges, u, (k - 1) + 1)
    BY <1>1, <2>1, WithinOnwards
  <2> QED
    BY <1>1, <2>2
<1> QED
  BY <1>3, <1>4 DEF Around

LEMMA BallGrows ==
  ASSUME NEW u \in Vertices
  PROVE  Ball(u) = Grown(u, Ball(u))
<1> DEFINE W == [k \in 0 .. N |-> Within(edges, u, k)]
<1>1. W = Grown(u, W)
  <2>1. ASSUME NEW k \in 0 .. N
        PROVE  Within(edges, u, k) = IF k = 0 THEN {u} ELSE W[k - 1] \cup Around(W[k - 1])
    <3>1. CASE k = 0
      BY <3>1, WithinNone
    <3>2. CASE k # 0
      BY <3>2, WithinGrows, SizeIsNat
    <3> QED
      BY <3>1, <3>2
  <2> QED
    BY <2>1 DEF Grown
<1>2. Ball(u) = CHOOSE B : B = Grown(u, B)
  BY DEF Ball, Grown, N, Around
<1> HIDE DEF W
<1> QED
  BY <1>1, <1>2

LEMMA BallParts ==
  ASSUME NEW u \in Vertices
  PROVE  /\ DOMAIN Ball(u) = 0 .. N
         /\ Ball(u)[0] = {u}
         /\ \A k \in 1 .. N : Ball(u)[k] = Ball(u)[k - 1] \cup Around(Ball(u)[k - 1])
<1> DEFINE B == Ball(u)
           G == Grown(u, B)
<1>1. B = G
  BY BallGrows
<1> HIDE DEF B
<1>2. /\ DOMAIN G = 0 .. N /\ G[0] = {u}
      /\ \A k \in 1 .. N : G[k] = B[k - 1] \cup Around(B[k - 1])
  BY SizeIsNat DEF Grown
<1> HIDE DEF G
<1> QED
  BY <1>1, <1>2 DEF B

(* The recursion determines its solution: the least k at which the two      *)
(* differed would have them equal one earlier.                              *)
LEMMA BallIsWithin ==
  ASSUME NEW u \in Vertices
  PROVE  \A k \in 0 .. N : Ball(u)[k] = Within(edges, u, k)
<1> DEFINE S == {k \in 0 .. N : Ball(u)[k] # Within(edges, u, k)}
<1> SUFFICES ASSUME S # {} PROVE FALSE
  OBVIOUS
<1>1. PICK k \in S : \A i \in S : k <= i
  <2>1. S \in SUBSET Nat
    BY SizeIsNat
  <2> HIDE DEF S
  <2> QED
    BY <2>1, Least
<1>2. k # 0
  <2>1. Ball(u)[k] # Within(edges, u, k)
    BY <1>1
  <2>2. Ball(u)[0] = Within(edges, u, 0)
    BY BallParts, WithinNone
  <2> QED
    BY <2>1, <2>2
<1>3. k \in 1 .. N /\ k - 1 \in 0 .. N /\ k - 1 \notin S
  BY <1>1, <1>2, SizeIsNat
<1>4. Ball(u)[k - 1] = Within(edges, u, k - 1)
  BY <1>3
<1>5. Ball(u)[k] = Within(edges, u, k)
  <2>1. Ball(u)[k] = Ball(u)[k - 1] \cup Around(Ball(u)[k - 1])
    BY <1>3, BallParts
  <2>2. Within(edges, u, k)
          = Within(edges, u, k - 1) \cup Around(Within(edges, u, k - 1))
    BY <1>3, WithinGrows
  <2> QED
    BY <1>4, <2>1, <2>2
<1> QED
  BY <1>1, <1>5

(* Hops is the length of the shortest walk. *)
LEMMA HopsIsShortest ==
  ASSUME NEW u \in Vertices, NEW k \in 0 .. N, NEW v \in Within(edges, u, k),
         \A j \in 0 .. k - 1 : v \notin Within(edges, u, j)
  PROVE  Hops(u, v) = k
<1> DEFINE First(m) == v \in Ball(u)[m] /\ \A j \in 0 .. m - 1 : v \notin Ball(u)[j]
<1>1. First(k)
  <2>1. \A j \in 0 .. k : j \in 0 .. N
    BY SizeIsNat
  <2> QED
    BY <2>1, BallIsWithin
<1>2. \A m \in 0 .. N : First(m) => m = k
  BY <1>1, SizeIsNat
<1>3. Hops(u, v) = CHOOSE m \in 0 .. N : First(m)
  BY BallParts DEF Hops
<1> HIDE DEF First
<1> QED
  BY <1>1, <1>2, <1>3

-----------------------------------------------------------------------------
(* What was reached and is not waiting in the heap has been expanded. *)
Expanded ==
  \A v \in Vertices :
    Reached(v) /\ <<dist[v], v>> \notin heap =>
      \A w \in Neighbours(v) : Reached(w) /\ dist[w] <= dist[v] + 1

Exhausted == pc # "search" => heap = {}

(* After the search every reached vertex is in the table, still to do, or   *)
(* being done.                                                              *)
Walking == IF pc = "walk" THEN {dest} ELSE {}

Accounted ==
  IF pc = "search"
    THEN DOMAIN table = {}
    ELSE /\ DOMAIN table \cup todo \cup Walking = {v \in Vertices \ {source} : Reached(v)}
         /\ pc = "done" => todo = {}

(* The walk back has come as many edges from dest as the distances say. *)
OnTheWay ==
  pc = "walk" =>
    /\ cur # source /\ Reached(cur) /\ dist[cur] <= dist[dest]
    /\ dest \in Within(edges, cur, dist[dest] - dist[cur])

NextHops ==
  \A d \in DOMAIN table :
    table[d] \in Neighbours(source) /\ d \in Within(edges, table[d], dist[d] - 1)

TableInv ==
  /\ IInv
  /\ Expanded
  /\ Exhausted
  /\ Accounted
  /\ OnTheWay
  /\ NextHops

(* No distance is as large as the number of vertices: there is a vertex at  *)
(* every distance up to it.                                                 *)
LEMMA DistanceIsSmall ==
  ASSUME IInv, NEW v \in Vertices, Reached(v)
  PROVE  dist[v] \in 0 .. N - 1
<1> DEFINE S == {i \in 0 .. dist[v] : \A w \in Vertices : dist[w] # dist[v] - i}
<1>1. dist \in [Vertices -> Nat] /\ Infinity \in Nat /\ dist[v] \in Nat /\ dist[v] < Infinity
  BY SizeIsNat DEF IInv, TypeOK, Bounded, Reached
<1>2. S = {}
  <2> SUFFICES ASSUME S # {} PROVE FALSE
    OBVIOUS
  <2>1. PICK i \in S : \A j \in S : i <= j
    <3>1. S \in SUBSET Nat
      BY <1>1
    <3> HIDE DEF S
    <3> QED
      BY <3>1, Least
  <2>2. i # 0
    BY <2>1, <1>1
  <2>3. i - 1 \in 0 .. dist[v] /\ i - 1 \notin S /\ i \in 1 .. dist[v]
    BY <2>1, <2>2, <1>1
  <2>4. PICK w \in Vertices : dist[w] = dist[v] - (i - 1)
    BY <2>3
  <2>5. w # source /\ dist[w] # Infinity
    BY <2>3, <2>4, <1>1 DEF IInv, Rooted
  <2>6. prev[w] \in Vertices /\ dist[w] = dist[prev[w]] + 1
    BY <2>5 DEF IInv, PredecessorTree, Neighbours
  <2>7. dist[prev[w]] = dist[v] - i
    BY <2>3, <2>4, <2>6, <1>1
  <2> QED
    BY <2>1, <2>6, <2>7
<1>3. \A k \in 0 .. dist[v] : \E w \in Vertices : dist[w] = k
  <2> SUFFICES ASSUME NEW k \in 0 .. dist[v] PROVE \E w \in Vertices : dist[w] = k
    OBVIOUS
  <2>1. dist[v] - k \in 0 .. dist[v] /\ dist[v] - k \notin S
    BY <1>1, <1>2
  <2>2. dist[v] - (dist[v] - k) = k
    BY <1>1
  <2> QED
    BY <2>1, <2>2
<1> DEFINE f == [k \in 0 .. dist[v] |-> CHOOSE w \in Vertices : dist[w] = k]
<1>4. f \in [0 .. dist[v] -> Vertices] /\ \A k \in 0 .. dist[v] : dist[f[k]] = k
  BY <1>3
<1>5. f \in Injection(0 .. dist[v], Vertices)
  <2> HIDE DEF f
  <2>1. \A a, b \in 0 .. dist[v] : f[a] = f[b] => a = b
    BY <1>4
  <2> QED
    BY <1>4, <2>1, Fun_IsInj
<1> HIDE DEF f
<1>6. Cardinality(0 .. dist[v]) <= N
  BY <1>5, FS_Injection, RoutingAssumption DEF N
<1>7. Cardinality(0 .. dist[v]) = dist[v] + 1
  BY <1>1, FS_Interval
<1> QED
  BY <1>1, <1>6, <1>7, SizeIsNat

LEMMA TableInit == Init => TableInv
<1> SUFFICES ASSUME Init PROVE TableInv
  OBVIOUS
<1>1. IInv
  BY InitHolds
<1>2. Expanded /\ Exhausted
  BY DEF Init, Expanded, Exhausted, Reached
<1>3. DOMAIN table = {} /\ pc = "search"
  BY DEF Init
<1> QED
  BY <1>1, <1>2, <1>3 DEF TableInv, Accounted, OnTheWay, NextHops

(* The vertex taken from the heap is expanded: its neighbours are all        *)
(* reached, one step further at most.                                       *)
LEMMA TablePop == TableInv /\ PopHeap => TableInv'
<1> SUFFICES ASSUME TableInv, PopHeap PROVE TableInv'
  OBVIOUS
<1> DEFINE d == Top[1]
           u == Top[2]
           closer == Relaxed(d, u)
<1>1. IInv /\ IInv'
  BY PopHeapHolds DEF TableInv
<1>2. /\ heap # {} /\ pc = "search" /\ Top \in heap
      /\ Top \in Nat \X Vertices
      /\ d \in Nat /\ u \in Vertices /\ d = dist[u]
      /\ dist \in [Vertices -> Nat]
  <2>1. heap # {} /\ pc = "search" /\ Top \in heap
    BY <1>1, TopIsLeast DEF IInv, PopHeap
  <2>2. Top \in Nat \X Vertices /\ d = dist[u] /\ dist \in [Vertices -> Nat]
    BY <1>1, <2>1 DEF IInv, TypeOK, FrontierTight
  <2> QED
    BY <2>1, <2>2
<1>3. /\ dist' = [v \in Vertices |-> IF v \in closer THEN d + 1 ELSE dist[v]]
      /\ heap' = (heap \ {Top}) \cup {<<d + 1, v>> : v \in closer}
      /\ UNCHANGED <<edges, source, pc, todo, dest, cur, table>>
  BY <1>2 DEF PopHeap, Weight
<1>4. \A v \in Vertices : v \in closer <=> v \in Neighbours(u) /\ d + 1 < dist[v]
  BY DEF Relaxed, Weight
<1>5. \A v \in closer : v \in Vertices /\ dist[v] = Infinity
  BY <1>1, <1>2, <1>4 DEF Relaxed, Neighbours, IInv, Bounded, NothingAhead, Reached
<1>6. Infinity \in Nat /\ \A v \in Vertices : dist[v] <= Infinity
  BY <1>1, SizeIsNat DEF IInv, Bounded
<1> HIDE DEF closer
<1>7. ASSUME Reached(u) PROVE d + 1 < Infinity
  <2>1. dist[u] \in 0 .. N - 1
    BY <1>1, <1>2, <1>7, DistanceIsSmall
  <2> QED
    BY <1>2, <2>1, SizeIsNat
<1>8. Expanded'
  <2> SUFFICES ASSUME NEW v \in Vertices, dist'[v] # Infinity, <<dist'[v], v>> \notin heap',
                      NEW w \in Neighbours(v)
               PROVE  dist'[w] # Infinity /\ dist'[w] <= dist'[v] + 1
    BY <1>3 DEF Expanded, Reached, Neighbours
  <2>1. v \notin closer
    <3>1. v \in closer => dist'[v] = d + 1 /\ <<d + 1, v>> \in heap'
      BY <1>3
    <3> QED
      BY <3>1
  <2>2. dist'[v] = dist[v] /\ Reached(v) /\ w \in Vertices
    BY <1>3, <2>1 DEF Reached, Neighbours
  <2>3. CASE v = u
    <3>1. d + 1 < Infinity
      BY <1>7, <2>2, <2>3
    <3>2. CASE w \in closer
      <4>1. dist'[w] = d + 1
        BY <1>3, <2>2, <3>2
      <4> QED
        BY <1>2, <1>6, <2>2, <2>3, <3>1, <4>1
    <3>3. CASE w \notin closer
      <4>1. dist'[w] = dist[w] /\ dist[w] \in Nat /\ ~ (d + 1 < dist[w])
        BY <1>2, <1>3, <1>4, <2>2, <2>3, <3>3
      <4> QED
        BY <1>2, <1>6, <2>2, <2>3, <3>1, <4>1
    <3> QED
      BY <3>2, <3>3
  <2>4. CASE v # u
    <3>1. <<dist[v], v>> \notin heap
      <4>1. <<dist[v], v>> # Top
        BY <1>2, <2>4
      <4> QED
        BY <1>3, <2>2, <4>1
    <3>2. Reached(w) /\ dist[w] <= dist[v] + 1
      BY <2>2, <3>1 DEF TableInv, Expanded
    <3>3. w \notin closer
      BY <1>5, <3>2 DEF Reached
    <3>4. dist'[w] = dist[w]
      BY <1>3, <2>2, <3>3
    <3> QED
      BY <2>2, <3>2, <3>4 DEF Reached
  <2> QED
    BY <2>3, <2>4
<1>9. Exhausted' /\ Accounted' /\ OnTheWay' /\ NextHops'
  <2>1. DOMAIN table = {}
    BY <1>2 DEF TableInv, Accounted
  <2> QED
    BY <1>2, <1>3, <2>1 DEF Exhausted, Accounted, OnTheWay, NextHops
<1> QED
  BY <1>1, <1>8, <1>9 DEF TableInv

(* The end of the search lists what was reached. *)
LEMMA TableSearchEnds == TableInv /\ SearchEnds => TableInv'
<1> SUFFICES ASSUME TableInv, SearchEnds PROVE TableInv'
  OBVIOUS
<1>1. UNCHANGED <<edges, source, dist, prev, heap, dest, cur, table>>
  BY DEF SearchEnds
<1>2. IInv'
  BY DerivationHolds DEF TableInv
<1>3. Expanded'
  BY <1>1 DEF TableInv, Expanded, Reached, Neighbours
<1>4. DOMAIN table = {} /\ pc' = "derive" /\ heap = {}
  BY DEF SearchEnds, TableInv, Accounted
<1>5. Accounted'
  BY <1>1, <1>4 DEF Accounted, Walking, Reached, SearchEnds
<1>6. Exhausted' /\ OnTheWay' /\ NextHops'
  BY <1>1, <1>4 DEF Exhausted, OnTheWay, NextHops
<1> QED
  BY <1>2, <1>3, <1>5, <1>6 DEF TableInv

(* What the steps of the derivation share. *)
LEMMA TableFrame ==
  ASSUME TableInv, StartWalk \/ WalkBack \/ EndWalk \/ Return
  PROVE  /\ UNCHANGED <<edges, source, dist, prev, heap>>
         /\ IInv' /\ Expanded' /\ Exhausted'
<1>1. UNCHANGED <<edges, source, dist, prev, heap>> /\ pc # "search"
  BY DEF StartWalk, WalkBack, EndWalk, Return
<1>2. IInv'
  BY DerivationHolds DEF TableInv
<1>3. Expanded' /\ Exhausted'
  BY <1>1 DEF TableInv, Expanded, Exhausted, Reached, Neighbours
<1> QED
  BY <1>1, <1>2, <1>3

LEMMA TableStartWalk == TableInv /\ StartWalk => TableInv'
<1> SUFFICES ASSUME TableInv, StartWalk PROVE TableInv'
  OBVIOUS
<1>1. /\ UNCHANGED <<edges, source, dist, prev, heap, table>>
      /\ IInv' /\ Expanded' /\ Exhausted'
  BY TableFrame DEF StartWalk
<1>2. /\ pc = "derive" /\ pc' = "walk" /\ dest' \in todo /\ cur' = dest'
      /\ todo' = todo \ {dest'}
  BY DEF StartWalk
<1>3. DOMAIN table \cup todo = {v \in Vertices \ {source} : Reached(v)}
  BY <1>2 DEF TableInv, Accounted, Walking
<1>4. Accounted'
  BY <1>1, <1>2, <1>3 DEF Accounted, Walking, Reached
<1>5. OnTheWay'
  <2>1. cur' \in Vertices /\ cur' # source /\ dist[cur'] # Infinity
    BY <1>2, <1>3 DEF Reached
  <2>2. dist[cur'] \in Nat
    BY <2>1 DEF TableInv, IInv, TypeOK
  <2>3. cur' \in Within(edges, cur', 0) /\ dist[cur'] - dist[cur'] = 0
    BY <2>1, <2>2, WithinNone
  <2> QED
    BY <1>1, <1>2, <2>1, <2>2, <2>3 DEF OnTheWay, Reached
<1>6. NextHops'
  BY <1>1 DEF TableInv, NextHops, Neighbours
<1> QED
  BY <1>1, <1>4, <1>5, <1>6 DEF TableInv

LEMMA TableWalkBack == TableInv /\ WalkBack => TableInv'
<1> SUFFICES ASSUME TableInv, WalkBack PROVE TableInv'
  OBVIOUS
<1>1. /\ UNCHANGED <<edges, source, dist, prev, heap, table>>
      /\ IInv' /\ Expanded' /\ Exhausted'
  BY TableFrame DEF WalkBack
<1>2. /\ pc = "walk" /\ pc' = "walk" /\ dest' = dest /\ todo' = todo
      /\ cur' = prev[cur] /\ prev[cur] # source /\ prev[cur] # -1
  BY DEF WalkBack, WalkStops
<1>3. Accounted'
  BY <1>1, <1>2 DEF TableInv, Accounted, Walking, Reached
<1>4. OnTheWay'
  <2>1. /\ cur \in Vertices /\ cur # source /\ dist[cur] # Infinity
        /\ dist[cur] <= dist[dest]
        /\ dest \in Within(edges, cur, dist[dest] - dist[cur])
    BY <1>2 DEF TableInv, OnTheWay, Reached, IInv, TypeOK
  <2> DEFINE c == prev[cur]
  <2>2. c \in Neighbours(cur) /\ dist[cur] = dist[c] + 1
    BY <2>1 DEF TableInv, IInv, PredecessorTree
  <2>3. c \in Vertices /\ cur \in NextTo(edges, c)
    BY <2>1, <2>2 DEF Neighbours, NextTo
  <2>4. /\ dist[c] \in Nat /\ dist[cur] \in Nat /\ dist[dest] \in Nat
        /\ Infinity \in Nat /\ dist[cur] <= Infinity
    BY <2>1, <2>3, SizeIsNat DEF TableInv, IInv, TypeOK, Bounded
  <2>5. /\ dist[dest] - dist[cur] \in Nat
        /\ (dist[dest] - dist[cur]) + 1 = dist[dest] - dist[c]
        /\ dist[c] # Infinity /\ dist[c] <= dist[dest]
    BY <2>1, <2>2, <2>4
  <2>6. dest \in Within(edges, c, dist[dest] - dist[c])
    <3>1. dest \in Within(edges, c, (dist[dest] - dist[cur]) + 1)
      BY <2>1, <2>3, <2>5, WithinFromNext
    <3> QED
      BY <3>1, <2>5
  <2> QED
    BY <1>1, <1>2, <2>5, <2>6 DEF OnTheWay, Reached
<1>5. NextHops'
  BY <1>1 DEF TableInv, NextHops, Neighbours
<1> QED
  BY <1>1, <1>3, <1>4, <1>5 DEF TableInv

LEMMA TableEndWalk == TableInv /\ EndWalk => TableInv'
<1> SUFFICES ASSUME TableInv, EndWalk PROVE TableInv'
  OBVIOUS
<1>1. /\ UNCHANGED <<edges, source, dist, prev, heap>>
      /\ IInv' /\ Expanded' /\ Exhausted'
  BY TableFrame
<1>2. pc = "walk" /\ pc' = "derive" /\ dest' = dest /\ todo' = todo
  BY DEF EndWalk
<1>3. /\ cur \in Vertices /\ cur # source /\ dist[cur] # Infinity
      /\ dest \in Within(edges, cur, dist[dest] - dist[cur])
  BY <1>2 DEF TableInv, OnTheWay, Reached, IInv, TypeOK
<1>4. prev[cur] = source /\ prev[cur] \in Neighbours(cur) /\ dist[cur] = dist[prev[cur]] + 1
  <2>1. prev[cur] \in Neighbours(cur) /\ dist[cur] = dist[prev[cur]] + 1
    BY <1>3 DEF TableInv, IInv, PredecessorTree
  <2>2. prev[cur] # -1
    BY <2>1, RoutingAssumption DEF Neighbours
  <2> QED
    BY <2>1, <2>2 DEF EndWalk, WalkStops
<1>5. table' = [d \in DOMAIN table \cup {dest} |-> IF d = dest THEN cur ELSE table[d]]
  BY <1>4 DEF EndWalk
<1>6. cur \in Neighbours(source) /\ dist[cur] = 1
  BY <1>3, <1>4 DEF Neighbours, TableInv, IInv, Rooted
<1>7. Accounted'
  BY <1>1, <1>2, <1>5 DEF TableInv, Accounted, Walking, Reached
<1>8. NextHops'
  <2> SUFFICES ASSUME NEW d \in DOMAIN table'
               PROVE  table'[d] \in Neighbours(source)
                      /\ d \in Within(edges, table'[d], dist[d] - 1)
    BY <1>1 DEF NextHops, Neighbours
  <2>1. CASE d = dest
    BY <1>3, <1>5, <1>6, <2>1
  <2>2. CASE d # dest
    <3>1. d \in DOMAIN table /\ table'[d] = table[d]
      BY <1>5, <2>2
    <3> QED
      BY <3>1 DEF TableInv, NextHops
  <2> QED
    BY <2>1, <2>2
<1>9. OnTheWay'
  BY <1>2 DEF OnTheWay
<1> QED
  BY <1>1, <1>7, <1>8, <1>9 DEF TableInv

LEMMA TableReturn == TableInv /\ Return => TableInv'
<1> SUFFICES ASSUME TableInv, Return PROVE TableInv'
  OBVIOUS
<1>1. /\ UNCHANGED <<edges, source, dist, prev, heap, todo, dest, cur, table>>
      /\ IInv' /\ Expanded' /\ Exhausted'
  BY TableFrame DEF Return
<1>2. pc = "derive" /\ pc' = "done" /\ todo = {}
  BY DEF Return
<1>3. Accounted'
  BY <1>1, <1>2 DEF TableInv, Accounted, Walking, Reached
<1>4. NextHops' /\ OnTheWay'
  BY <1>1, <1>2 DEF TableInv, NextHops, OnTheWay, Neighbours
<1> QED
  BY <1>1, <1>3, <1>4 DEF TableInv

LEMMA TableInductive == Spec => []TableInv
<1>1. TableInv /\ UNCHANGED vars => TableInv'
  <2> SUFFICES ASSUME TableInv, UNCHANGED vars PROVE TableInv'
    OBVIOUS
  <2>1. IInv'
    BY DEF vars, TableInv, IInv, TypeOK, Bounded, Rooted, PredecessorTree,
           FrontierTight, NothingAhead, Reached, Neighbours
  <2>2. Expanded' /\ Exhausted' /\ Accounted' /\ OnTheWay' /\ NextHops'
    BY DEF vars, TableInv, Expanded, Exhausted, Accounted, Walking, OnTheWay,
           NextHops, Reached, Neighbours
  <2> QED
    BY <2>1, <2>2 DEF TableInv
<1>2. TableInv /\ [Next]_vars => TableInv'
  BY <1>1, TablePop, TableSearchEnds, TableStartWalk, TableWalkBack,
     TableEndWalk, TableReturn DEF Next
<1> QED
  BY <1>2, TableInit, PTL DEF Spec

(* Once the heap is empty a distance is the length of a shortest walk.      *)
LEMMA NothingIsNearer ==
  ASSUME TableInv, heap = {}, NEW k \in Nat, NEW v \in Within(edges, source, k)
  PROVE  Reached(v) /\ dist[v] <= k
<1> DEFINE S == {j \in Nat : \E w \in Within(edges, source, j) :
                               ~ (Reached(w) /\ dist[w] <= j)}
<1>1. /\ Infinity \in Nat /\ N \in Nat /\ dist \in [Vertices -> Nat]
      /\ source \in Vertices /\ dist[source] = 0 /\ 0 < Infinity
  BY SizeIsNat DEF TableInv, IInv, TypeOK, Rooted
<1>2. S = {}
  <2> SUFFICES ASSUME S # {} PROVE FALSE
    OBVIOUS
  <2>1. PICK j \in S : \A i \in S : j <= i
    <3>1. S \in SUBSET Nat
      OBVIOUS
    <3> HIDE DEF S
    <3> QED
      BY <3>1, Least
  <2>2. PICK w \in Within(edges, source, j) : ~ (Reached(w) /\ dist[w] <= j)
    BY <2>1
  <2>3. j # 0
    BY <1>1, <2>2, WithinNone DEF Reached
  <2>4. j - 1 \in Nat /\ (j - 1) + 1 = j /\ j - 1 \notin S
    BY <2>1, <2>3
  <2>5. PICK x \in Within(edges, source, j - 1) : w = x \/ w \in NextTo(edges, x)
    BY <1>1, <2>4, WithinLast
  <2>6. Reached(x) /\ dist[x] <= j - 1 /\ x \in Vertices
    BY <2>4 DEF Within
  <2>7. CASE w = x
    BY <1>1, <2>2, <2>4, <2>6, <2>7
  <2>8. CASE w \in NextTo(edges, x)
    <3>1. Reached(w) /\ dist[w] <= dist[x] + 1 /\ w \in Vertices
      BY <2>6, <2>8 DEF NextTo, Neighbours, TableInv, Expanded
    <3> QED
      BY <1>1, <2>2, <2>4, <2>6, <3>1
  <2> QED
    BY <2>5, <2>7, <2>8
<1> QED
  BY <1>2

-----------------------------------------------------------------------------
(* On every graph, of any size, the table has exactly the reachable         *)
(* destinations, and each next hop is a neighbour of the node one step      *)
(* nearer to the destination (routing.h:36-79).  A packet forwarded by such *)
(* tables gets nearer with every hop, so it cannot circle, although it      *)
(* carries no hop limit.                                                    *)
THEOREM NextHopsAreCloser == Spec => []EveryHopIsCloser
<1>1. TableInv => EveryHopIsCloser
  <2> SUFFICES ASSUME TableInv, pc = "done" PROVE
        /\ DOMAIN table = Reachable(source) \ {source}
        /\ \A d \in DOMAIN table :
             /\ table[d] \in Neighbours(source)
             /\ Hops(table[d], d) + 1 = Hops(source, d)
    BY DEF EveryHopIsCloser, IsTable
  <2>1. heap = {} /\ DOMAIN table = {v \in Vertices \ {source} : Reached(v)}
    BY DEF TableInv, Exhausted, Accounted, Walking
  <2>2. /\ source \in Vertices /\ N \in Nat /\ N < Infinity /\ Infinity \in Nat
        /\ dist[source] = 0
    BY SizeIsNat DEF TableInv, IInv, TypeOK, Rooted
  <2>3. ASSUME NEW d \in DOMAIN table
        PROVE  /\ dist[d] \in 1 .. N - 1
               /\ d \in Within(edges, source, dist[d])
               /\ table[d] \in Neighbours(source)
               /\ Hops(table[d], d) + 1 = Hops(source, d)
    <3>1. d \in Vertices /\ d # source /\ Reached(d)
      BY <2>1, <2>3
    <3>2. dist[d] \in 0 .. N - 1
      BY <3>1, DistanceIsSmall DEF TableInv
    <3>3. /\ table[d] \in Neighbours(source) /\ table[d] \in Vertices
          /\ table[d] \in NextTo(edges, source)
          /\ d \in Within(edges, table[d], dist[d] - 1)
      BY <2>3 DEF TableInv, NextHops, Neighbours, NextTo
    <3>4. dist[d] # 0
      <4>1. prev[d] \in Vertices /\ dist[d] = dist[prev[d]] + 1
        BY <3>1 DEF TableInv, IInv, PredecessorTree, Reached, Neighbours
      <4>2. dist[prev[d]] \in Nat
        BY <4>1 DEF TableInv, IInv, TypeOK
      <4> QED
        BY <4>1, <4>2
    <3>5. /\ dist[d] \in 1 .. N - 1 /\ dist[d] - 1 \in Nat /\ dist[d] \in 0 .. N
          /\ dist[d] - 1 \in 0 .. N /\ (dist[d] - 1) + 1 = dist[d] /\ dist[d] \in Nat
      BY <2>2, <3>2, <3>4
    <3>6. d \in Within(edges, source, dist[d])
      <4>1. d \in Within(edges, source, (dist[d] - 1) + 1)
        BY <2>2, <3>3, <3>5, WithinFromNext
      <4> QED
        BY <3>5, <4>1
    <3>7. \A j \in 0 .. dist[d] - 1 : d \notin Within(edges, source, j)
      <4>1. \A j \in Nat : d \in Within(edges, source, j) => dist[d] <= j
        BY <2>1, NothingIsNearer
      <4> QED
        BY <3>5, <4>1
    <3>8. Hops(source, d) = dist[d]
      BY <2>2, <3>5, <3>6, <3>7, HopsIsShortest
    <3>9. \A j \in 0 .. (dist[d] - 1) - 1 : d \notin Within(edges, table[d], j)
      <4> SUFFICES ASSUME NEW j \in 0 .. (dist[d] - 1) - 1,
                          d \in Within(edges, table[d], j)
                   PROVE  FALSE
        OBVIOUS
      <4>1. j \in Nat /\ j + 1 \in 0 .. dist[d] - 1
        BY <3>5
      <4>2. d \in Within(edges, source, j + 1)
        BY <2>2, <3>3, <4>1, WithinFromNext
      <4> QED
        BY <3>7, <4>1, <4>2
    <3>10. Hops(table[d], d) = dist[d] - 1
      BY <3>3, <3>5, <3>9, HopsIsShortest
    <3> QED
      BY <3>3, <3>5, <3>6, <3>8, <3>10
  <2>4. Reachable(source) = Within(edges, source, N)
    BY <2>2, BallIsWithin DEF Reachable, N
  <2>5. ASSUME NEW d \in DOMAIN table PROVE d \in Within(edges, source, N)
    <3>1. dist[d] \in 1 .. N - 1 /\ d \in Within(edges, source, dist[d])
      BY <2>3
    <3>2. dist[d] \in Nat /\ dist[d] <= N
      BY <2>2, <3>1
    <3> QED
      BY <2>2, <3>1, <3>2, WithinMore
  <2>6. ASSUME NEW v \in Within(edges, source, N), v # source PROVE v \in DOMAIN table
    <3>1. Reached(v)
      BY <2>1, <2>2, NothingIsNearer
    <3> QED
      BY <2>1, <2>6, <3>1 DEF Within
  <2>7. source \notin DOMAIN table
    BY <2>1
  <2> QED
    BY <2>3, <2>4, <2>5, <2>6, <2>7
<1> QED
  BY <1>1, TableInductive, PTL

-----------------------------------------------------------------------------
(* The tables of all nodes together: a packet for d goes from node to node, *)
(* each time to what the table of the one it is at has for d.               *)

(* A walk that visits a vertex twice has a shorter one to its end. *)
LEMMA Shortcut ==
  ASSUME NEW E, NEW u \in Vertices, NEW k \in Nat, NEW p, IsWalk(E, u, k, p),
         NEW a \in 0 .. k, NEW b \in 0 .. k, a < b, p[a] = p[b]
  PROVE  p[k] \in Within(E, u, k - (b - a))
<1> DEFINE j == k - (b - a)
           q == [i \in 0 .. j |-> IF i <= a THEN p[i] ELSE p[i + (b - a)]]
<1>1. j \in Nat /\ a <= j /\ \A i \in 0 .. j : i > a => i + (b - a) \in 0 .. k
  OBVIOUS
<1>2. p \in [0 .. k -> Vertices] /\ p[0] = u
  BY DEF IsWalk
<1>3. q \in [0 .. j -> Vertices]
  BY <1>1, <1>2
<1>4. q[0] = u
  BY <1>1, <1>2
<1>5. q[j] = p[k]
  <2>1. CASE j = a
    BY <1>1, <2>1
  <2>2. CASE j # a
    BY <1>1, <2>2
  <2> QED
    BY <2>1, <2>2
<1>6. ASSUME NEW i \in 1 .. j PROVE q[i] = q[i - 1] \/ q[i] \in NextTo(E, q[i - 1])
  <2>1. CASE i <= a
    <3>1. i \in 1 .. k /\ q[i] = p[i] /\ q[i - 1] = p[i - 1]
      BY <1>1, <2>1
    <3> QED
      BY <3>1 DEF IsWalk
  <2>2. CASE i = a + 1
    <3>1. /\ i + (b - a) \in 1 .. k /\ (i + (b - a)) - 1 = b
          /\ q[i] = p[i + (b - a)] /\ q[i - 1] = p[a]
      BY <1>1, <2>2
    <3>2. \/ p[i + (b - a)] = p[(i + (b - a)) - 1]
          \/ p[i + (b - a)] \in NextTo(E, p[(i + (b - a)) - 1])
      BY <3>1 DEF IsWalk
    <3> QED
      BY <3>1, <3>2
  <2>3. CASE i > a + 1
    <3>1. /\ i + (b - a) \in 1 .. k
          /\ q[i] = p[i + (b - a)] /\ q[i - 1] = p[(i + (b - a)) - 1]
      BY <1>1, <2>3
    <3>2. \/ p[i + (b - a)] = p[(i + (b - a)) - 1]
          \/ p[i + (b - a)] \in NextTo(E, p[(i + (b - a)) - 1])
      BY <3>1 DEF IsWalk
    <3> QED
      BY <3>1, <3>2
  <2> QED
    BY <1>1, <2>1, <2>2, <2>3
<1>7. IsWalk(E, u, j, q) /\ p[k] \in Vertices
  <2> HIDE DEF q, j
  <2>1. p[k] \in Vertices
    BY <1>2
  <2> QED
    BY <1>3, <1>4, <1>6, <2>1 DEF IsWalk
<1> HIDE DEF q
<1> QED
  BY <1>5, <1>7 DEF Within

(* What can be reached at all is reached in fewer steps than there are      *)
(* vertices; Hops counts them.                                              *)
LEMMA HopsAre ==
  ASSUME NEW u \in Vertices, NEW m \in Nat, NEW v \in Within(edges, u, m)
  PROVE  /\ Hops(u, v) \in 0 .. N - 1
         /\ v \in Within(edges, u, Hops(u, v))
         /\ v \in Reachable(u)
<1> DEFINE S == {j \in Nat : v \in Within(edges, u, j)}
<1>1. PICK k \in S : \A j \in S : k <= j
  <2>1. S \in SUBSET Nat /\ S # {}
    OBVIOUS
  <2> HIDE DEF S
  <2> QED
    BY <2>1, Least
<1>2. k \in Nat /\ v \in Within(edges, u, k)
  OBVIOUS
<1>3. \A j \in 0 .. k - 1 : v \notin Within(edges, u, j)
  BY <1>1
<1> HIDE DEF S
<1>4. PICK p : IsWalk(edges, u, k, p) /\ p[k] = v
  BY <1>2 DEF Within
<1>5. ASSUME NEW a \in 0 .. k, NEW b \in 0 .. k, a < b PROVE p[a] # p[b]
  <2>1. k - (b - a) \in 0 .. k - 1
    BY <1>2, <1>5
  <2> QED
    BY <1>2, <1>3, <1>4, <1>5, <2>1, Shortcut
<1>6. p \in Injection(0 .. k, Vertices)
  <2>1. \A a, b \in 0 .. k : p[a] = p[b] => a = b
    BY <1>2, <1>5
  <2>2. p \in [0 .. k -> Vertices]
    BY <1>4 DEF IsWalk
  <2> QED
    BY <2>1, <2>2, Fun_IsInj
<1>7. Cardinality(0 .. k) <= N
  BY <1>6, FS_Injection, RoutingAssumption DEF N
<1>8. Cardinality(0 .. k) = k + 1
  BY <1>2, FS_Interval
<1>9. k \in 0 .. N - 1 /\ k \in 0 .. N /\ k <= N
  BY <1>2, <1>7, <1>8, SizeIsNat
<1>10. Hops(u, v) = k
  BY <1>2, <1>3, <1>9, HopsIsShortest
<1>11. v \in Within(edges, u, N)
  BY <1>2, <1>9, SizeIsNat, WithinMore
<1>12. Reachable(u) = Within(edges, u, N)
  BY SizeIsNat, BallIsWithin DEF Reachable, N
<1> QED
  BY <1>2, <1>9, <1>10, <1>11, <1>12

(* What is reachable is reachable from the neighbours too, and is not as    *)
(* far as the number of vertices.                                           *)
LEMMA ReachableFromNext ==
  ASSUME NEW u \in Vertices, NEW w \in Neighbours(u), NEW v \in Reachable(u)
  PROVE  /\ Hops(u, v) \in Nat
         /\ v \in Vertices /\ w \in Vertices
         /\ v \in Reachable(w)
<1>1. w \in Vertices /\ u \in NextTo(edges, w)
  BY DEF Neighbours, NextTo
<1>2. v \in Within(edges, u, N) /\ v \in Vertices
  <2>1. Reachable(u) = Within(edges, u, N)
    BY SizeIsNat, BallIsWithin DEF Reachable, N
  <2> QED
    BY <2>1 DEF Within
<1>3. Hops(u, v) \in Nat /\ v \in Within(edges, u, Hops(u, v))
  BY <1>2, SizeIsNat, HopsAre
<1>4. v \in Within(edges, w, Hops(u, v) + 1) /\ Hops(u, v) + 1 \in Nat
  BY <1>1, <1>3, WithinFromNext
<1>5. v \in Reachable(w)
  BY <1>1, <1>4, HopsAre
<1> QED
  BY <1>1, <1>2, <1>3, <1>5

(* Where a packet for d comes from x in k hops, by the tables T. *)
IsTrip(T, d, x, k, p) ==
  /\ p \in [0 .. k -> Vertices] /\ p[0] = x
  /\ \A i \in 1 .. k : p[i - 1] # d /\ p[i] = T[p[i - 1]][d]

Visits(T, x, d) == {v \in Vertices : \E k \in Nat : \E p : IsTrip(T, d, x, k, p) /\ p[k] = v}

(* It stays where it was sent to. *)
LEMMA VisitsEnd ==
  ASSUME NEW T, NEW d \in Vertices
  PROVE  Visits(T, d, d) = {d}
<1>1. ASSUME NEW k \in Nat, NEW p, IsTrip(T, d, d, k, p) PROVE p[k] = d
  <2>1. CASE k = 0
    BY <1>1, <2>1 DEF IsTrip
  <2>2. CASE k # 0
    <3>1. 1 \in 1 .. k /\ 1 - 1 = 0
      BY <2>2
    <3> QED
      BY <1>1, <3>1 DEF IsTrip
  <2> QED
    BY <2>1, <2>2
<1>2. d \in Visits(T, d, d)
  <2> DEFINE p == [i \in 0 .. 0 |-> d]
  <2>1. IsTrip(T, d, d, 0, p) /\ p[0] = d
    BY DEF IsTrip
  <2> HIDE DEF p
  <2> QED
    BY <2>1 DEF Visits
<1>3. \A v \in Visits(T, d, d) : v = d
  BY <1>1 DEF Visits
<1> QED
  BY <1>2, <1>3

(* Otherwise it is here, and then where it comes from the next hop. *)
LEMMA VisitsNext ==
  ASSUME NEW T, NEW d \in Vertices, NEW x \in Vertices, x # d, T[x][d] \in Vertices
  PROVE  Visits(T, x, d) = {x} \cup Visits(T, T[x][d], d)
<1> DEFINE y == T[x][d]
<1>1. ASSUME NEW k \in Nat, NEW p, IsTrip(T, d, x, k, p), p[k] # x
      PROVE  p[k] \in Visits(T, y, d)
  <2> DEFINE q == [i \in 0 .. k - 1 |-> p[i + 1]]
  <2>1. k # 0 /\ k - 1 \in Nat /\ 1 \in 1 .. k /\ 1 - 1 = 0
    BY <1>1 DEF IsTrip
  <2>2. p \in [0 .. k -> Vertices] /\ p[0] = x /\ p[1] = y
    BY <1>1, <2>1 DEF IsTrip
  <2>3. q \in [0 .. k - 1 -> Vertices] /\ q[0] = y /\ q[k - 1] = p[k]
    BY <2>1, <2>2
  <2>4. ASSUME NEW i \in 1 .. k - 1 PROVE q[i - 1] # d /\ q[i] = T[q[i - 1]][d]
    <3>1. i + 1 \in 1 .. k /\ (i + 1) - 1 = i /\ (i - 1) + 1 = i /\ i - 1 \in 0 .. k - 1
      BY <2>1
    <3>2. q[i] = p[i + 1] /\ q[i - 1] = p[i]
      BY <3>1
    <3> QED
      BY <1>1, <3>1, <3>2 DEF IsTrip
  <2>5. p[k] \in Vertices
    BY <2>2
  <2> HIDE DEF q, y
  <2>6. IsTrip(T, d, y, k - 1, q)
    BY <2>3, <2>4 DEF IsTrip
  <2> QED
    BY <2>1, <2>3, <2>5, <2>6 DEF Visits
<1>2. ASSUME NEW k \in Nat, NEW p, IsTrip(T, d, y, k, p)
      PROVE  p[k] \in Visits(T, x, d)
  <2> DEFINE q == [i \in 0 .. k + 1 |-> IF i = 0 THEN x ELSE p[i - 1]]
  <2>1. p \in [0 .. k -> Vertices] /\ p[0] = y
    BY <1>2 DEF IsTrip
  <2>2. q \in [0 .. k + 1 -> Vertices] /\ q[0] = x /\ q[k + 1] = p[k]
    BY <2>1
  <2>3. ASSUME NEW i \in 1 .. k + 1 PROVE q[i - 1] # d /\ q[i] = T[q[i - 1]][d]
    <3>1. CASE i = 1
      BY <2>1, <3>1
    <3>2. CASE i # 1
      <4>1. i - 1 \in 1 .. k /\ q[i] = p[i - 1] /\ q[i - 1] = p[(i - 1) - 1]
        BY <3>2
      <4> QED
        BY <1>2, <4>1 DEF IsTrip
    <3> QED
      BY <3>1, <3>2
  <2>4. p[k] \in Vertices /\ k + 1 \in Nat
    BY <2>1
  <2> HIDE DEF q
  <2>5. IsTrip(T, d, x, k + 1, q)
    BY <2>2, <2>3 DEF IsTrip
  <2> QED
    BY <2>2, <2>4, <2>5 DEF Visits
<1>3. x \in Visits(T, x, d)
  <2> DEFINE p == [i \in 0 .. 0 |-> x]
  <2>1. IsTrip(T, d, x, 0, p) /\ p[0] = x
    BY DEF IsTrip
  <2> HIDE DEF p
  <2> QED
    BY <2>1 DEF Visits
<1> HIDE DEF y
<1>4. \A v \in Visits(T, x, d) : v = x \/ v \in Visits(T, y, d)
  BY <1>1 DEF Visits
<1>5. \A v \in Visits(T, y, d) : v \in Visits(T, x, d)
  BY <1>2 DEF Visits
<1> QED
  BY <1>3, <1>4, <1>5 DEF y

(* With tables of all vertices the distance never grows on a trip. *)
LEMMA TripsApproach ==
  ASSUME NEW T, \A u \in Vertices : IsTable(u, T[u]),
         NEW x \in Vertices, NEW d \in Reachable(x),
         NEW k \in Nat, NEW p, IsTrip(T, d, x, k, p), NEW n \in 0 .. k
  PROVE  d \in Reachable(p[n]) /\ Hops(p[n], d) <= Hops(x, d)
<1> DEFINE Nearer(i) == d \in Reachable(p[i]) /\ Hops(p[i], d) <= Hops(x, d)
           S == {i \in 0 .. k : ~ Nearer(i)}
<1>1. p \in [0 .. k -> Vertices] /\ p[0] = x
  BY DEF IsTrip
<1>2. \A u \in Vertices : \A v \in Reachable(u) : Hops(u, v) \in Nat
  <2> SUFFICES ASSUME NEW u \in Vertices, NEW v \in Reachable(u) PROVE Hops(u, v) \in Nat
    OBVIOUS
  <2>1. Reachable(u) = Within(edges, u, N)
    BY SizeIsNat, BallIsWithin DEF Reachable, N
  <2> QED
    BY <2>1, SizeIsNat, HopsAre
<1>3. S = {}
  <2> SUFFICES ASSUME S # {} PROVE FALSE
    OBVIOUS
  <2>1. PICK i \in S : \A j \in S : i <= j
    <3>1. S \in SUBSET Nat
      OBVIOUS
    <3> HIDE DEF S
    <3> QED
      BY <3>1, Least
  <2>2. i # 0
    BY <1>1, <1>2, <2>1
  <2>3. i \in 1 .. k /\ i - 1 \in 0 .. k /\ i - 1 \notin S
    BY <2>1, <2>2
  <2>4. Nearer(i - 1) /\ ~ Nearer(i)
    BY <2>1, <2>3
  <2>5. p[i - 1] \in Vertices /\ p[i - 1] # d /\ p[i] = T[p[i - 1]][d]
    BY <1>1, <2>3 DEF IsTrip
  <2>6. d \in DOMAIN T[p[i - 1]]
    BY <2>4, <2>5 DEF IsTable
  <2>7. p[i] \in Neighbours(p[i - 1]) /\ Hops(p[i], d) + 1 = Hops(p[i - 1], d)
    BY <2>5, <2>6 DEF IsTable
  <2>8. d \in Reachable(p[i]) /\ p[i] \in Vertices
    BY <2>4, <2>5, <2>7, ReachableFromNext
  <2>9. Hops(p[i], d) \in Nat /\ Hops(p[i - 1], d) \in Nat /\ Hops(x, d) \in Nat
    BY <1>2, <2>4, <2>5, <2>8
  <2> QED
    BY <2>4, <2>7, <2>8, <2>9
<1> QED
  BY <1>3

(* One hop of a trip. *)
LEMMA TripGoesOn ==
  ASSUME NEW T, \A u \in Vertices : IsTable(u, T[u]),
         NEW x \in Vertices, NEW d \in DOMAIN T[x]
  PROVE  /\ T[x][d] \in Vertices \ {x}
         /\ d \in Reachable(T[x][d]) /\ d \in Reachable(x) /\ d # x
         /\ Hops(x, d) \in Nat /\ Hops(T[x][d], d) \in Nat
         /\ Hops(T[x][d], d) + 1 = Hops(x, d)
         /\ IsFiniteSet(Visits(T, T[x][d], d)) /\ x \notin Visits(T, T[x][d], d)
         /\ Visits(T, x, d) = {x} \cup Visits(T, T[x][d], d)
<1> DEFINE y == T[x][d]
<1>1. d \in Reachable(x) /\ d # x
  BY DEF IsTable
<1>2. y \in Neighbours(x) /\ Hops(y, d) + 1 = Hops(x, d)
  BY DEF IsTable
<1> HIDE DEF y
<1>3. /\ y \in Vertices /\ d \in Vertices /\ d \in Reachable(y)
      /\ Hops(x, d) \in Nat
  BY <1>1, <1>2, ReachableFromNext
<1>4. Hops(y, d) \in Nat
  <2>1. Reachable(y) = Within(edges, y, N)
    BY <1>3, SizeIsNat, BallIsWithin DEF Reachable, N
  <2> QED
    BY <1>3, <2>1, SizeIsNat, HopsAre
<1>5. y # x
  BY <1>2, <1>3, <1>4
<1>6. x \notin Visits(T, y, d)
  <2> SUFFICES ASSUME NEW k \in Nat, NEW p, IsTrip(T, d, y, k, p), p[k] = x
               PROVE  FALSE
    BY DEF Visits
  <2>1. Hops(p[k], d) <= Hops(y, d)
    BY <1>3, TripsApproach
  <2> QED
    BY <1>2, <1>3, <1>4, <2>1
<1>7. Visits(T, x, d) = {x} \cup Visits(T, y, d)
  BY <1>1, <1>3, VisitsNext DEF y
<1>8. IsFiniteSet(Visits(T, y, d))
  <2>1. Visits(T, y, d) \in SUBSET Vertices
    BY DEF Visits
  <2> QED
    BY <2>1, FS_Subset, RoutingAssumption
<1> QED
  BY <1>1, <1>2, <1>3, <1>4, <1>5, <1>6, <1>7, <1>8 DEF y

LEMMA NoHopsHere ==
  ASSUME NEW x \in Vertices
  PROVE  x \in Reachable(x) /\ Hops(x, x) = 0
<1>1. x \in Within(edges, x, 0) /\ \A j \in 0 .. 0 - 1 : x \notin Within(edges, x, j)
  BY WithinNone
<1>2. 0 \in 0 .. N
  BY SizeIsNat
<1> QED
  BY <1>1, <1>2, HopsAre, HopsIsShortest

(* A trip visits one vertex more than it has hops. *)
LEMMA TripsAreShort ==
  ASSUME NEW T, \A u \in Vertices : IsTable(u, T[u]),
         NEW x \in Vertices, NEW d \in Reachable(x)
  PROVE  Cardinality(Visits(T, x, d)) = Hops(x, d) + 1
<1> DEFINE Counted(u) == Cardinality(Visits(T, u, d)) = Hops(u, d) + 1
           S == {j \in Nat : \E u \in Vertices :
                   d \in Reachable(u) /\ Hops(u, d) = j /\ ~ Counted(u)}
<1>1. ASSUME NEW u \in Vertices, d \in Reachable(u)
      PROVE  Hops(u, d) \in Nat /\ d \in Vertices
  <2>1. Reachable(u) = Within(edges, u, N)
    BY SizeIsNat, BallIsWithin DEF Reachable, N
  <2> QED
    BY <1>1, <2>1, SizeIsNat, HopsAre DEF Within
<1>2. S = {}
  <2> SUFFICES ASSUME S # {} PROVE FALSE
    OBVIOUS
  <2>1. PICK j \in S : \A i \in S : j <= i
    <3>1. S \in SUBSET Nat
      OBVIOUS
    <3> HIDE DEF S
    <3> QED
      BY <3>1, Least
  <2>2. PICK u \in Vertices : d \in Reachable(u) /\ Hops(u, d) = j /\ ~ Counted(u)
    BY <2>1
  <2>3. u # d
    <3> SUFFICES ASSUME u = d PROVE FALSE
      OBVIOUS
    <3>1. Visits(T, u, d) = {u} /\ Hops(u, d) = 0
      BY VisitsEnd, NoHopsHere
    <3>2. Cardinality({u}) = 1
      BY FS_Singleton, Zenon
    <3> QED
      BY <2>2, <3>1, <3>2
  <2>4. d \in DOMAIN T[u]
    BY <2>2, <2>3 DEF IsTable
  <2> DEFINE y == T[u][d]
             W == Visits(T, y, d)
  <2>5. /\ y \in Vertices /\ d \in Reachable(y)
        /\ Hops(u, d) \in Nat /\ Hops(y, d) \in Nat /\ Hops(y, d) + 1 = Hops(u, d)
        /\ IsFiniteSet(W) /\ u \notin W /\ Visits(T, u, d) = {u} \cup W
    BY <2>4, TripGoesOn
  <2> HIDE DEF y
  <2>6. Counted(y)
    <3>1. Hops(y, d) \notin S
      <4>1. Hops(y, d) < j /\ ~ (j <= Hops(y, d))
        BY <2>2, <2>5
      <4> HIDE DEF S
      <4> QED
        BY <2>1, <2>5, <4>1
    <3> QED
      BY <2>5, <3>1
  <2>7. Cardinality({u} \cup W) = Cardinality(W) + 1
    <3>1. {u} \cup W = W \cup {u}
      OBVIOUS
    <3> HIDE DEF W
    <3> QED
      BY <2>5, <3>1, FS_AddElement
  <2> QED
    BY <2>2, <2>5, <2>6, <2>7
<1> QED
  BY <1>1, <1>2

(* If every node has a table that EveryHopIsCloser speaks of, then each     *)
(* destination of each node has a route: the nodes a packet still visits,   *)
(* which are the node itself and the route of its next hop, and do not      *)
(* come back.  It is what module Mesh assumes of the tables of the nodes,   *)
(* and these routes are the shortest there are (routing.h:36-79;            *)
(* node.cpp:214, 394-404).                                                  *)
THEOREM TablesMakeRoutes ==
  ASSUME NEW NextHop, \A n \in Vertices : IsTable(n, NextHop[n])
  PROVE  \E Route :
           /\ AreRoutes(Vertices, NextHop, Route)
           /\ \A n \in Vertices : \A d \in DOMAIN Route[n] :
                Cardinality(Route[n][d]) = Hops(n, d) + 1
<1> DEFINE Route == [n \in Vertices |-> [d \in Reachable(n) |-> Visits(NextHop, n, d)]]
           Leads(n, d) ==
             LET m == NextHop[n][d]
             IN  /\ m \in Vertices \ {n} /\ d \in DOMAIN Route[m]
                 /\ IsFiniteSet(Route[m][d]) /\ n \notin Route[m][d]
                 /\ Route[n][d] = {n} \cup Route[m][d]
           Agrees(n) ==
             /\ DOMAIN Route[n] = DOMAIN NextHop[n] \cup {n}
             /\ Route[n][n] = {n} /\ n \notin DOMAIN NextHop[n]
             /\ \A d \in DOMAIN NextHop[n] : Leads(n, d)
<1>1. ASSUME NEW n \in Vertices PROVE Agrees(n)
  <2>1. DOMAIN NextHop[n] = Reachable(n) \ {n} /\ n \in Reachable(n)
    BY NoHopsHere DEF IsTable
  <2>2. Route[n][n] = {n}
    BY <2>1, VisitsEnd
  <2>3. ASSUME NEW d \in DOMAIN NextHop[n] PROVE Leads(n, d)
    <3> DEFINE m == NextHop[n][d]
               Rest == Visits(NextHop, m, d)
    <3>1. /\ m \in Vertices \ {n} /\ d \in Reachable(m) /\ d \in Reachable(n)
          /\ IsFiniteSet(Rest) /\ n \notin Rest /\ Visits(NextHop, n, d) = {n} \cup Rest
      BY <2>3, TripGoesOn
    <3> HIDE DEF m
    <3>2. Route[n][d] = Visits(NextHop, n, d)
      BY <3>1
    <3>3. Route[m] = [e \in Reachable(m) |-> Visits(NextHop, m, e)]
      BY <3>1
    <3>4. d \in DOMAIN Route[m] /\ Route[m][d] = Rest
      BY <3>1, <3>3
    <3> HIDE DEF Route
    <3> QED
      BY <3>1, <3>2, <3>4 DEF m
  <2>4. DOMAIN Route[n] = DOMAIN NextHop[n] \cup {n}
    BY <2>1
  <2> QED
    BY <2>1, <2>2, <2>3, <2>4
<1>2. ASSUME NEW n \in Vertices, NEW d \in DOMAIN Route[n]
      PROVE  Cardinality(Route[n][d]) = Hops(n, d) + 1
  <2>1. d \in Reachable(n) /\ Route[n][d] = Visits(NextHop, n, d)
    OBVIOUS
  <2> HIDE DEF Route
  <2> QED
    BY <2>1, TripsAreShort
<1> HIDE DEF Route
<1> QED
  BY <1>1, <1>2 DEF AreRoutes

-----------------------------------------------------------------------------
(* How much there is left to do.  Each turn of the search finishes a vertex, *)
(* each walk back a destination; and a walk is no longer than a distance.   *)

Unfinished == {v \in Vertices : ~ Reached(v) \/ <<dist[v], v>> \in heap}

Walks == Cardinality(todo) * (N + 2)

Left ==
  CASE pc = "search" -> N * (N + 2) + 2 + Cardinality(Unfinished)
    [] pc = "derive" -> Walks + 1
    [] pc = "walk"   -> Walks + 2 + dist[cur]
    [] pc = "done"   -> 0

(* Only reached vertices enter the heap. *)
Entered == \A e \in heap : e[1] # Infinity

LEMMA EnteredHolds == Spec => []Entered
<1>1. Init => Entered
  BY SizeIsNat DEF Init, Entered
<1>2. ASSUME IInv, Entered, [Next]_vars PROVE Entered'
  <2>1. CASE PopHeap
    <3> DEFINE d == Top[1]
    <3>1. /\ dist \in [Vertices -> Nat] /\ \A v \in Vertices : dist[v] <= Infinity
          /\ d \in Nat
      BY <1>2, <2>1, TopIsLeast DEF IInv, TypeOK, Bounded, PopHeap
    <3>2. ASSUME NEW e \in heap', e \notin heap PROVE e[1] # Infinity
      <4>1. PICK v \in Relaxed(d, Top[2]) : e = <<d + 1, v>>
        BY <2>1, <3>2 DEF PopHeap, Weight
      <4>2. v \in Vertices /\ d + 1 < dist[v]
        BY DEF Relaxed, Neighbours, Weight
      <4> QED
        BY <3>1, <4>1, <4>2, SizeIsNat
    <3> QED
      BY <1>2, <3>2 DEF Entered
  <2>2. CASE heap' = heap
    BY <1>2, <2>2 DEF Entered
  <2>3. heap' = heap \/ PopHeap
    BY <1>2 DEF Next, vars, SearchEnds, StartWalk, WalkBack, EndWalk, Return
  <2> QED
    BY <2>1, <2>2, <2>3
<1> QED
  BY <1>1, <1>2, Inductive, PTL DEF Spec

LEMMA SubsetsCounted ==
  ASSUME NEW S \in SUBSET Vertices
  PROVE  Cardinality(S) \in 0 .. N
<1>1. IsFiniteSet(S) /\ Cardinality(S) <= N
  BY FS_Subset, RoutingAssumption DEF N
<1> QED
  BY <1>1, FS_CardinalityType, SizeIsNat

LEMMA OneLess ==
  ASSUME NEW S \in SUBSET Vertices, NEW T \in SUBSET S, NEW x \in S, x \notin T
  PROVE  Cardinality(T) + 1 <= Cardinality(S)
<1>1. IsFiniteSet(S) /\ T \in SUBSET (S \ {x})
  BY FS_Subset, RoutingAssumption
<1>2. IsFiniteSet(S \ {x}) /\ Cardinality(S \ {x}) = Cardinality(S) - 1
  BY <1>1, FS_RemoveElement
<1>3. Cardinality(T) <= Cardinality(S \ {x})
  BY <1>1, <1>2, FS_Subset
<1>4. Cardinality(T) \in Int /\ Cardinality(S) \in Int
  BY SubsetsCounted, SizeIsNat
<1> QED
  BY <1>2, <1>3, <1>4

(* More walks to do are more steps. *)
LEMMA MoreWalks ==
  ASSUME NEW a \in Nat, NEW b \in Nat, NEW k \in Nat, a <= b
  PROVE  a * k \in Nat /\ b * k \in Nat /\ a * k <= b * k
<1>1. b - a \in Nat /\ (b - a) * k \in Nat /\ a * k \in Nat /\ b * k \in Nat
  OBVIOUS
<1>2. b * k = a * k + (b - a) * k
  OBVIOUS
<1> QED
  BY <1>1, <1>2

LEMMA WalksCounted ==
  ASSUME TypeOK
  PROVE  Walks \in Nat /\ Cardinality(todo) \in 0 .. N /\ N + 2 \in Nat
<1>1. Cardinality(todo) \in 0 .. N /\ N + 2 \in Nat /\ Cardinality(todo) \in Nat
  BY SubsetsCounted, SizeIsNat DEF TypeOK
<1> QED
  BY <1>1, MoreWalks DEF Walks

LEMMA UnfinishedCounted == Cardinality(Unfinished) \in Nat
<1>1. Unfinished \in SUBSET Vertices
  BY DEF Unfinished
<1>2. Cardinality(Unfinished) \in 0 .. N
  BY <1>1, SubsetsCounted
<1> QED
  BY <1>2, SizeIsNat

LEMMA LeftIsNat ==
  ASSUME TypeOK
  PROVE  Left \in Nat
<1>1. /\ pc \in {"search", "derive", "walk", "done"} /\ dist[cur] \in Nat
      /\ Cardinality(Unfinished) \in Nat
  BY UnfinishedCounted DEF TypeOK
<1>2. Walks \in Nat /\ N * (N + 2) \in Nat
  BY WalksCounted, SizeIsNat, MoreWalks
<1>3. CASE pc = "search"
  <2>1. Left = N * (N + 2) + 2 + Cardinality(Unfinished)
    BY <1>3 DEF Left
  <2> QED
    BY <1>1, <1>2, <2>1
<1>4. CASE pc = "derive"
  <2>1. Left = Walks + 1
    BY <1>4 DEF Left
  <2> QED
    BY <1>2, <2>1
<1>5. CASE pc = "walk"
  <2>1. Left = Walks + 2 + dist[cur]
    BY <1>5 DEF Left
  <2> QED
    BY <1>1, <1>2, <2>1
<1>6. CASE pc = "done"
  BY <1>6 DEF Left
<1> QED
  BY <1>1, <1>3, <1>4, <1>5, <1>6

LEMMA PopCounts == TableInv /\ Entered /\ PopHeap => Left' < Left
<1> SUFFICES ASSUME TableInv, Entered, PopHeap PROVE Left' < Left
  OBVIOUS
<1> DEFINE d == Top[1]
           u == Top[2]
           closer == Relaxed(d, u)
<1>1. IInv /\ pc = "search" /\ pc' = "search"
  BY DEF TableInv, PopHeap
<1>2. /\ Top \in heap /\ Top = <<d, u>> /\ d \in Nat /\ u \in Vertices
      /\ d = dist[u] /\ d # Infinity /\ dist \in [Vertices -> Nat]
  <2>1. Top \in heap /\ Top \in Nat \X Vertices /\ dist \in [Vertices -> Nat]
    BY <1>1, TopIsLeast DEF IInv, TypeOK, PopHeap
  <2>2. Top[1] = dist[Top[2]] /\ Top[1] # Infinity
    BY <1>1, <2>1 DEF IInv, FrontierTight, Entered
  <2> QED
    BY <2>1, <2>2, PairParts
<1>3. /\ dist' = [v \in Vertices |-> IF v \in closer THEN d + 1 ELSE dist[v]]
      /\ heap' = (heap \ {Top}) \cup {<<d + 1, v>> : v \in closer}
  BY <1>2 DEF PopHeap, Weight
<1>4. \A v \in closer : v \in Vertices /\ ~ Reached(v) /\ d + 1 < dist[v]
  BY <1>1, <1>2, SizeIsNat
  DEF Relaxed, Weight, Neighbours, IInv, Bounded, NothingAhead, Reached
<1> HIDE DEF d, u, closer
<1>5. u \in Unfinished
  BY <1>2 DEF Unfinished
<1>6. u \notin Unfinished'
  <2>1. u \notin closer
    BY <1>2, <1>4
  <2>2. dist'[u] = d /\ dist'[u] # Infinity
    BY <1>2, <1>3, <2>1
  <2>3. <<d, u>> \notin heap'
    BY <1>2, <1>3, <2>1
  <2> QED
    BY <2>2, <2>3 DEF Unfinished, Reached
<1>7. ASSUME NEW v \in Unfinished' PROVE v \in Unfinished
  <2>1. v \in Vertices
    BY <1>7 DEF Unfinished
  <2>2. CASE v \in closer
    BY <1>4, <2>1, <2>2 DEF Unfinished
  <2>3. CASE v \notin closer
    <3>1. dist'[v] = dist[v]
      BY <1>3, <2>1, <2>3
    <3>2. <<dist[v], v>> \in heap' => <<dist[v], v>> \in heap
      BY <1>3, <2>3
    <3> QED
      BY <1>7, <2>1, <3>1, <3>2 DEF Unfinished, Reached
  <2> QED
    BY <2>2, <2>3
<1>8. Unfinished \in SUBSET Vertices /\ Unfinished' \in SUBSET Unfinished
  BY <1>7 DEF Unfinished
<1>9. Cardinality(Unfinished') + 1 <= Cardinality(Unfinished)
  BY <1>5, <1>6, <1>8, OneLess
<1>10. Cardinality(Unfinished') \in Nat /\ Cardinality(Unfinished) \in Nat
  BY <1>8, SubsetsCounted, SizeIsNat
<1>11. N * (N + 2) \in Nat
  BY SizeIsNat, MoreWalks
<1>12. /\ Left = N * (N + 2) + 2 + Cardinality(Unfinished)
       /\ Left' = N * (N + 2) + 2 + Cardinality(Unfinished')
  BY <1>1 DEF Left, N
<1> QED
  BY <1>9, <1>10, <1>11, <1>12

LEMMA SearchEndsCounts == TableInv /\ SearchEnds => Left' < Left
<1> SUFFICES ASSUME TableInv, SearchEnds PROVE Left' < Left
  OBVIOUS
<1>1. TypeOK /\ TypeOK' /\ pc = "search" /\ pc' = "derive"
  BY TableSearchEnds DEF TableInv, IInv, SearchEnds
<1>2. Cardinality(todo') \in 0 .. N /\ Cardinality(Unfinished) \in Nat
  <2>1. todo' \in SUBSET Vertices
    BY <1>1 DEF TypeOK
  <2> QED
    BY <2>1, SubsetsCounted, UnfinishedCounted
<1>3. /\ Cardinality(todo') * (N + 2) \in Nat /\ N * (N + 2) \in Nat
      /\ Cardinality(todo') * (N + 2) <= N * (N + 2)
  <2>1. Cardinality(todo') \in Nat /\ Cardinality(todo') <= N /\ N \in Nat /\ N + 2 \in Nat
    BY <1>2, SizeIsNat
  <2> QED
    BY <2>1, MoreWalks
<1>4. /\ Left = N * (N + 2) + 2 + Cardinality(Unfinished)
      /\ Left' = Cardinality(todo') * (N + 2) + 1
  BY <1>1 DEF Left, Walks, N
<1> QED
  BY <1>2, <1>3, <1>4

LEMMA StartWalkCounts == TableInv /\ StartWalk => Left' < Left
<1> SUFFICES ASSUME TableInv, StartWalk PROVE Left' < Left
  OBVIOUS
<1>1. /\ IInv /\ TypeOK /\ TypeOK' /\ pc = "derive" /\ pc' = "walk" /\ dist' = dist
  BY TableStartWalk DEF TableInv, IInv, StartWalk
<1>2. PICK d \in todo : todo' = todo \ {d} /\ cur' = d
  BY DEF StartWalk
<1>3. d \in Vertices /\ Reached(d)
  BY <1>1, <1>2 DEF TableInv, Accounted
<1>4. dist[d] \in 0 .. N - 1
  BY <1>1, <1>3, DistanceIsSmall
<1> DEFINE a == Cardinality(todo')
           b == Cardinality(todo)
<1>5. a \in Nat /\ b \in Nat /\ a + 1 <= b
  <2>1. todo \in SUBSET Vertices /\ todo' \in SUBSET todo /\ d \notin todo'
    BY <1>1, <1>2 DEF TypeOK
  <2> QED
    BY <2>1, SubsetsCounted, OneLess, SizeIsNat
<1>6. /\ Left = b * (N + 2) + 1
      /\ Left' = a * (N + 2) + 2 + dist[d]
  BY <1>1, <1>2 DEF Left, Walks, N
<1> HIDE DEF a, b
<1>7. N \in Nat /\ N + 2 \in Nat /\ a + 1 \in Nat
  BY SizeIsNat, <1>5
<1>8. (a + 1) * (N + 2) <= b * (N + 2) /\ b * (N + 2) \in Nat /\ a * (N + 2) \in Nat
  BY <1>5, <1>7, MoreWalks
<1>9. (a + 1) * (N + 2) = a * (N + 2) + (N + 2)
  BY <1>5, <1>7
<1> QED
  BY <1>4, <1>6, <1>7, <1>8, <1>9

LEMMA WalkCounts == TableInv /\ (WalkBack \/ EndWalk) => Left' < Left
<1> SUFFICES ASSUME TableInv, WalkBack \/ EndWalk PROVE Left' < Left
  OBVIOUS
<1>1. /\ IInv /\ TypeOK /\ pc = "walk" /\ Walks' = Walks /\ Walks \in Nat
      /\ dist' = dist /\ dist[cur] \in Nat /\ Left = Walks + 2 + dist[cur]
  <2>1. IInv /\ TypeOK /\ pc = "walk" /\ todo' = todo /\ dist' = dist
    BY DEF TableInv, IInv, WalkBack, EndWalk
  <2>2. Walks \in Nat /\ dist[cur] \in Nat
    BY <2>1, WalksCounted DEF TypeOK
  <2> QED
    BY <2>1, <2>2 DEF Walks, N, Left
<1>2. CASE WalkBack
  <2>1. cur # source /\ Reached(cur) /\ cur \in Vertices
    BY <1>1 DEF TableInv, OnTheWay, TypeOK
  <2>2. prev[cur] \in Vertices /\ dist[cur] = dist[prev[cur]] + 1
    BY <1>1, <2>1 DEF IInv, PredecessorTree, Reached, Neighbours
  <2>3. dist[prev[cur]] \in Nat
    BY <1>1, <2>2 DEF TypeOK
  <2>4. pc' = "walk" /\ cur' = prev[cur]
    BY <1>1, <1>2 DEF WalkBack
  <2>5. Left' = Walks + 2 + dist[prev[cur]]
    BY <1>1, <2>4 DEF Left
  <2> QED
    BY <1>1, <2>2, <2>3, <2>5
<1>3. CASE EndWalk
  <2>1. Left' = Walks + 1
    BY <1>1, <1>3 DEF EndWalk, Left
  <2> QED
    BY <1>1, <2>1
<1> QED
  BY <1>2, <1>3

LEMMA ReturnCounts == TableInv /\ Return => Left' < Left
<1> SUFFICES ASSUME TableInv, Return PROVE Left' < Left
  OBVIOUS
<1>1. Walks \in Nat
  BY WalksCounted DEF TableInv, IInv
<1>2. Left = Walks + 1 /\ Left' = 0
  BY DEF Return, Left
<1> QED
  BY <1>1, <1>2

(* On every graph, of any size, each turn of a loop of build_routing_table  *)
(* leaves fewer to come, so that it cannot go on for ever: a turn of the    *)
(* search finishes a vertex, and a walk back counts its distance down       *)
(* (routing.h:43-60, 66-77).                                                *)
THEOREM EveryStepCounts == Spec => [](Left \in Nat) /\ [][Left' < Left]_vars
<1>1. TableInv => Left \in Nat
  BY LeftIsNat DEF TableInv, IInv
<1>2. TableInv /\ Entered /\ [Next]_vars => [Left' < Left]_vars
  BY PopCounts, SearchEndsCounts, StartWalkCounts, WalkCounts, ReturnCounts DEF Next
<1> QED
  BY <1>1, <1>2, TableInductive, EnteredHolds, PTL DEF Spec
=============================================================================
