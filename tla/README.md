# NetShield Agent Simulator: specifications

NetShield runs a small mesh of UDP nodes (C++), floods one of them, notices the
overload in the heartbeats, asks a language model for a mitigation plan and
carries it out by sending BLOCK commands to core nodes (Python).  This
directory holds TLA+ specifications of that system, the TLC configurations that
check them, and TLAPS proofs of what matters most about a node, the mesh, the
detector, the mitigation cycle, the supervisor, the routing search, the start-up and the snapshot file.

Line numbers are those of the files under `src/`: `node.cpp`, `routing.h`,
`packet.h`, `topology.h` are in `src/src`, `main.py` in `src/control_plane`,
`ai_orchestrator.py` and the traffic generators in `src/scripts`.

## 1. Inventory

| Component | State | Operations | What makes it correct |
|---|---|---|---|
| Node process (`node.cpp`) | `NodeState`: packet queue, three counters, blocked sources, one mutex; three threads | receive loop: size check, CONTROL, ACL gate, push or forward; application thread: drain; telemetry thread: copy, send | a blocked source goes nowhere; every datagram is counted once; heartbeats are consistent; the queue empties |
| Routing table (`routing.h`, `node.cpp` 204-236) | adjacency list, heap, `dist`, `prev`, table | Dijkstra search, walk back to the first hop | shortest next hops, agreeing between nodes, none missing; it ends |
| Telemetry receiver (`main.py` 418-492) | latest heartbeat of each node, one lock | receive, copy | a newer heartbeat replaces an older one, of that node only |
| Anomaly detector and AI worker (`main.py` 148-383, `ai_orchestrator.py`) | armed, fresh, last alert, AI state, strategy, error, enforced cores, one lock | check, snapshot, spawn, two API calls with one retry each, fan-out, publish | one attack gives one analysis; a status line that tells the truth; always ready again |
| Mitigation cycle (all of the above) | queue sizes, ACLs, CONTROL packets on the wire | flood, heartbeat, detection, plan, BLOCK | what is shown as enforced is enforced; a block ends the attack |
| Supervisor (`main.py` 397-415, 597-752) | child processes, log files, shutdown event | spawn, poll, signal, SIGTERM, grace period, SIGKILL, close | nothing outlives it; a signal ends it |
| Mesh (`node.cpp`, `routing.h`, `topology.json`) | socket buffers, tables, access lists of all nodes | forward hop by hop, deliver, drop, die | a packet is in one place, takes no detour, and does not get past a closed node; other traffic arrives |
| Topology readers (`topology.h`, `main.py` 386-394) | none | scan the text for names and brackets; read JSON | both read the same from every file the control plane accepts |
| Start-up (`main.py` 397-415, 656-702, `node.cpp` 161-263) | spawned processes, bound ports, whose heartbeat is filed under which id | read, look up the own port, bind, report | messages find their node; a row of the dashboard shows its own node |
| Snapshot file and stand-alone orchestrator (`main.py` 244-297, `ai_orchestrator.py`) | the file, its staging file, who has which open | stage, rename, clean, open, read, two agents with a retry each | a reader sees one complete document, no older than the one it saw; it ends |
| Wire format (`packet.h`, `struct` in Python) | none | pack, unpack | partly: widths, lengths that lie, byte order |
| Dashboard (`main.py` 494-594) | none of its own | print | partly: whose heartbeat a row shows, the calls that change state |
| Traffic generators (`ddos.py`, `benign_traffic.py`, `send_packet.py`) | none | send | they find the port of the node they mean |
| Test scripts, Makefile | none | start, grep | not modelled, but for `clean-logs` |

How they interact.  Nodes talk to nodes and to the control plane over UDP on
the loopback interface only.  A data packet enters at any node and is forwarded
hop by hop through the tables.  Once a second each node sends a heartbeat.  The
control plane's receiver thread stores it under a lock; the main thread, in every
turn of its dashboard loop, copies the map and calls `check`; a detection starts a
daemon thread that calls the API twice and sends CONTROL packets straight to the
ports of the chosen nodes.  Nothing is acknowledged.  The only thing persisted is the
snapshot of the last anomaly, which the orchestrator reads when it is started by
hand; and the node processes themselves, which outlive a control plane that is
killed.

What is hard: three threads share a node's counters; the gate's answer is used
after the lock is released; the detector reads the AI state in one lock section
and acts in another, on a map that may have changed; UDP may lose the one packet
that matters, at the moment when buffers are full; nodes may die, children may
ignore SIGTERM, a signal may come while children are still being started; the
topology file may say something twice, and three programs read it in three ways;
the snapshot may be replaced or removed under its reader.  The list of hazards with their lines is in `PROJECT.json`.

## 2. Modules

| Module | Models |
|---|---|
| `Firewall` | abstract specification: what a node promises about its access list |
| `Node` | one node process: three threads, every lock section a step |
| `NodeProofs` | TLAPS proofs about `Node`, and that it implements `Firewall` |
| `Detector` | telemetry receiver, main loop, detector, AI worker |
| `DetectorProofs` | TLAPS proofs about `Detector` |
| `Mitigation` | extends `Detector` by nodes, flood, CONTROL delivery, loss, crashes |
| `MitigationProofs` | TLAPS proofs about `Mitigation`, and that it implements `Detector` |
| `Delivery` | abstract specification: what the mesh promises about a packet |
| `Mesh` | all nodes with tables, socket buffers, access lists; generators; crashes |
| `MeshProofs` | TLAPS proofs about `Mesh`, and that it implements `Delivery` |
| `Routing` | adjacency list, `build_routing_table` |
| `Routes` | what the tables of all nodes are to each other, shared by `Mesh` and `RoutingProofs` |
| `RoutingProofs` | TLAPS proofs about the search, the table, and the tables of all nodes together |
| `Topology` | the file as tokens, and its two readers |
| `Startup` | extends `Topology` by control planes, node processes, ports, heartbeats |
| `StartupProofs` | TLAPS proofs about the two readers, about who gets a message, and about whose figures a row shows |
| `Orchestrator` | snapshot file, its writer, its reader, `clean-logs` |
| `OrchestratorProofs` | TLAPS proofs that no reader sees half a snapshot |
| `Lifecycle` | the supervisor |
| `LifecycleProofs` | TLAPS proofs about the shutdown |
| `MCNode`, `MCDetector`, `MCMitigation`, `MCMesh`, `MCRouting`, `MCStartup`, `MCOrchestrator`, `MCLifecycle` | constants for TLC |

### Correspondence with the code

*Steps.*  Everything between lock and unlock is one step; so is every `sendto`,
every API call, every `poll`/`terminate`/`kill`.  Between two steps any other
thread may run.

*Node.*  `pc` follows the receive loop: `recv` (at `recvfrom`), `parse` (a
datagram in the buffer, before the gate), `route` (the gate passed, its lock
released), `sent` (`sendto` done, `forwarded` not yet counted).  `packet_queue` is
a set of entries numbered in push order; the front is the smallest number.  The
numbers are the value of `delivered` at the push.  A datagram is malformed (wrong
size), a CONTROL with the integer its command yields (0 for any bad length,
command or number), or data.  HEARTBEAT and unknown types that reach a node take
the data path, as in the code.  The routing table is a constant function:
`NextHop` may name a node without an endpoint, which the code counts as a drop.
The history variables are `received`; `consumed` and `purged`, the very entries the
application popped and a BLOCK discarded; `relayed`; and `instants`, the
counters and the backlog as they stood after each step since the telemetry thread
went to sleep.  No guard reads them, except that the bound `MaxRecv` on `received`
stops the datagrams.

*Detector.*  `pc` follows the main thread through the copy of the map, the
read of the AI state, the decision and the choice of the pause.  A worker is a
record in a slot.  The code has nothing that keeps two workers from running at
once, so there are two slots in the safety run, and that never more than one is
used is a property.  A failed import, a missing key, an API error, an unparsable
answer all lead to `failing`.  The plan is any member of `Plans`: the schema
(`ai_orchestrator.py`) promises the types, not the values, so made-up ids,
repeated ids and ids <= 0 are among them.  `calm`, `paused` and `wire` are
history variables.

*Mitigation.*  A node is its queue size (a member of `Levels`) and its ACL; the
gate applies at every node of `Path`.  A heartbeat's copy and its arrival are one
step here; `Node` has them apart.  The attacker's own node is not in the
instance: the block is enforced on a core between it and the victim.

*Routing.*  One heap entry or one step of the walk back per step.  The graph is a
variable that never changes, so one run covers all graphs.

*Mesh.*  A node handles a datagram in one step; that this is sound is what
`GateStillValid` of `NodeProofs` says.  A socket buffer is a set of packets and a set
of CONTROL block ids with a common bound; what does not fit is lost without an
error.  `fate` says of each packet what has become of it, and corresponds to the
counters and to the losses nobody counts.  `NextHop` is the table of every node
and `Route` what following the tables means; that they fit together
(`RouteAssumption`) is what `EveryHopIsCloser` checks of `Routing`.  The generators
are actions: `Flood` and `Benign` write correct headers, `Probe` those `send_packet.py`
can be told to write: a length of 9999, a short datagram, fields in native byte
order, which the node reads swapped.  A node that dies takes buffer and access list
with it; nobody restarts it and no table learns of it.  `condemned`, `at` and `hops`
are history variables.

*Topology, Startup.*  The file is a sequence of tokens, of what a search of the nodes'
reader can stop at: quoted names, colons, brackets, numbers.  It does not know a
bracket between quotes from any other, so a role and the description are
sequences of such tokens too: `"a]b"` is the token `]`, and the role `"id"` is the
name it searches for.  `Plain` says that a file has no such words.  `Find`,
`ExtractInt`, `ObjectsIn`, `Pairs` are the functions of `topology.h` with `npos` as one
past the end.  `CInt` is `static_cast<int>(strtol())`: saturation at the width of
a long, then the low bits as an int.

A process is a pair of the control plane's number and the row it was spawned for.
`MyPort` takes the last row of an id and is -1 if there is none, `Endpoint` the first
(`emplace`), `PortById` of the control plane the last (a dict), `LoadNodePort` of the
generators the first.  `Listen` refuses a negative port, as the code does, and binds
the low 16 bits of any other (`Bound`); zero there leaves the choice to the kernel
(`Ephemeral`).  A heartbeat carries the id modulo `U16` (`Cut`).  `Killed` leaves the
processes of that control plane behind, and `killed` remembers which one it was; a
control plane that is started later may hear them.

*Orchestrator.*  A name and a file are two things, as in the file system: `tmp` and
`snap` are names, `files` the files there ever were, and who has a file open keeps
it when the name moves.  A document is `Blocks` blocks and a block is the number of
its snapshot.  The reader runs once, from `exists` to its exit status; what is
decoded need not be whole for the JSON library to accept it, which makes
`WholeAndFresh` stronger.  Several control planes may write, one after the other.

*Lifecycle.*  A child is absent, running, a zombie or reaped.  It may exit at any
moment or never.  `poll`, and the `poll` inside `terminate`, reap.  A log whose
process could not be started is left open: no list refers to it.  What comes before
the `try` (the handlers, the topology, the receiver) is `Setup`, and may fail.  The
receiver's thread is stopped before the children and need not be waited for.
`Killed` is SIGKILL of the control plane: then nothing is undone, and init reaps what
exits.

## 3. Runs

| Run | Shows | Bounds |
|---|---|---|
| `node` | types, no blocked source in the queue, accounting of datagrams and of each queued packet, heartbeats whose four figures belong to one instant, a blocked source goes nowhere, `Node` implements `Firewall`; after the last datagram (`MaxRecv` is the end of them) the queue empties and a heartbeat says so | 3 datagrams and any number of CONTROL packets, 2 sources, 4 destinations (self, reachable, hop without address, unknown), block ids 0 and 1, batch of 2 |
| `detector` | one worker, armed only after calm, truthful report, the long pause once | 2 nodes, 3 levels around the threshold, 2 worker slots, plans with unknown and repeated ids |
| `detector_live` | every analysis ends, the detector is armed again, an attack that finds it armed and lasts is detected | 2 nodes, 2 levels |
| `mitigation` | shown as enforced means enforced, on its way, lost, or the node died; while no node dies, one block on the path ends the attack for the detector | victim and one core, the core may crash, a plan that blocks nobody |
| `mesh` | one place, no detour, isolation for good, `Mesh` implements `Delivery`, legitimate flows arrive | 5 nodes, two equal paths, 2 packets, buffers of 2, 3 rules of which one is for id 0, one core may die, 4 malformed probes |
| `routing` | shortest, loop-free, complete tables; it ends | all 1024 graphs on 5 vertices, a few with a loop, all sources |
| `startup` | both readers agree on plain files, messages find their node, a row shows its own node | 32 files of two rows: members and parts in any order, a member or a part missing, brackets and names in words, ids and ports shared, equal in their low bits, zero, negative, wider than an int or a long; an int of 5 bits, a field of 3, a long of 7; 2 ephemeral ports; 2 control planes |
| `orchestrator` | never half a snapshot, one whole and fresh document is read, it ends | documents of 2 blocks, 3 snapshots |
| `lifecycle` | nothing left behind, SIGKILL only after SIGTERM, a signal always ends it | 3 nodes |
| `banner_freeze`, `lost_control`, `edge_enforces` | violations: see section 6 | as above |

Why the bounds are enough.  In `Node` the interesting events are a BLOCK between
gate and push, a purge between two drains, and a heartbeat between any two of
them; three packets give a queue with both sources in it and one packet left
behind by a batch of two.  Batches of 50 differ only in number.  In `Detector`
only the comparison with the threshold and between offenders is made, so three
levels (below, and two above so that there is a worst) stand for all sizes; the
threshold of 10,000 is scaled to 1.  In `Mitigation` two levels suffice, since
the level is only compared with the threshold.  Five vertices allow a diamond,
where two shortest paths compete, a triangle, a chain of length four, disconnected
parts, and two branches of which one runs ahead of the other if the heap's order
is wrong (four do not: with them `FrontierTight` holds for any order).  The
routes `test_routing.py` expects on the shipped mesh are the only shortest ones, so
`EveryHopIsCloser` covers them.  `Infinity` (100 for `INT_MAX`) only has to exceed every
distance; the sum at `routing.h:53` cannot overflow because only reached vertices
enter the heap.  Three children let one be dead, one obedient and one stuck.

In `Mesh` two packets and one command fill a buffer of two in every combination, and
a packet of the attack can be ahead of, behind, or in the same buffer as the BLOCK
against it; five nodes give a path with two cores, an uplink that could replace the
dead one and is not used, and tables that choose between equal paths.  In `Startup`
a disagreement needs two rows and a mistaken owner two control planes; the widths
are as small as they can be and still differ, so that there are numbers that fit a
long and no int, and an int and no field.  In
`Orchestrator` two blocks let a document be half there, and three snapshots are one
to find, one to replace it and one staged over what a killed control plane left.

Deadlock is checked in `node`.  The other configurations switch it off: the control
plane and the orchestrator may exit, packets and commands run out, and
`build_routing_table` returns.

## 4. Fairness

* Threads that are never blocked for ever get weak fairness: receive loop (once it
  has a datagram), application thread, telemetry thread, main loop, AI worker.
  Locks are held only for bounded work, so a lock section is always enabled.
* `Receive`, heartbeat contents, signals, crashes and the attacker have none.
* `SendHeartbeat` in `Node` has strong fairness: that `sendto` to the control
  plane does not fail for ever is an assumption about the kernel.
* That every API call returns or raises is an assumption about the service: the
  client at `main.py:340` has no timeout.  Without it `AnalysisEnds` fails.
* In `Mitigation` every living node's heartbeat arrives again and again and a CONTROL
  packet does not stay in the network for ever; it may be lost.
* In `Mesh` every living node keeps taking datagrams out of its buffer, packets and
  commands alike: its receive loop has no other work.  Nobody has to send, nobody
  has to die, and the kernel may refuse any `sendto`.
* In `Orchestrator` the process runs and every call of the API returns or raises;
  writer, cleaner and deaths have no fairness.
* In `Lifecycle` main() runs and the grace period ends: strong fairness of the last
  poll.  Nothing is assumed of the children, and nothing prevents SIGKILL.
* `Startup` has none: its properties are invariants.

## 5. Proofs

`NodeProofs` proves for every value of the constants that satisfies
`NodeAssumption` (the source ids are naturals, the block ids integers, a batch is
at least one packet, the bound is a natural):

* `TypeCorrect`, `BlockedNeverQueued`, `Accounting`, `QueueBalance`, `HeartbeatConsistent`: the
  invariants of the `node` run;
* `BlockedGoesNowhere`: its action property;
* `NodeImplementsFirewall`: `Spec => FW!Spec`.

None of the invariants is inductive alone.  The inductive invariant `IInv` adds
to them what the control points know:

* `DataInHand`: at `route` and `sent` the buffer holds a data packet.  Only the
  guard at `parse` says so, and nothing overwrites the buffer until `recv`.
* `GateStillValid`: at `route` the source of the packet in hand is not blocked.
  This is what makes the two lock sections safe: CONTROL packets are handled by the
  same thread that gates and pushes, so no BLOCK can come between.  A second
  receive thread would break exactly this conjunct.
* `InstantsSeen`: while the telemetry thread sleeps, the figures as they are now are
  among the `instants`.  Every step of another thread must record what it leaves
  behind; it is what makes the copy a heartbeat is built from one of them.

`QueueAccounted` is itself the strengthening of the balance of numbers.  It says that
the numbers of the entries popped, purged and still queued are 1 to `delivered`, that
none was both popped and purged or is purged and still queued, and that all that was
popped came before all that is queued.  A purge that rebuilt the queue from a
copy an earlier drain has since shortened would put popped entries back and break
the last part.

The refinement maps `admitted` to `delivered`.  `Enforce` maps to `Block`, `Push`
to `Admit`, `SendNextHop` to `Relay`, `Drain` to `Consume`, everything else to
stuttering; that a batch is a non-empty prefix of the queue needs a least
element of a non-empty finite set of numbers, proved from the library's facts
on finite sets.

`DetectorProofs` proves, from `DetectorAssumption` (queue sizes and the threshold are
naturals, plans hold integers), `OneWorker`, `ArmedAfterCalm` and `TruthfulReport`: three
invariants of the `detector` run, for any number of nodes, any plans and any room
for workers.  Its inductive invariant adds:

* `BusyKnown`: at the decision, a busy flag that was read as false still means that
  no worker runs.  It holds because the main thread alone spawns workers.
* `CalmKnown`: if the copy of the map has no offenders, the map itself had none at
  some instant since the last detection.
* `Progress` and `WireIsSent`: the worker's list of what it sent is what went over the
  wire, it and the rest of the list are parts of the plan, and together no longer
  than the plan.  The last is what shows that a failure to open the socket, which
  the model allows only before the first core, comes before anything was sent.

A second invariant, `Rest` and `FreshKnown`, gives the remaining types (`DetectorTyped`)
and `PauseOnce`: an alert that is fresh has had no long pause, because taking one
consumes the flag.

`MitigationProofs` proves `CycleImplementsDetector`: `MSpec => Spec`, the composition is
still the detector, so all of the above holds in the cycle.  Steps of nodes and
attacker map to stuttering, a heartbeat to `ReceiveHeartbeat` and a delivered or lost
packet to `NetworkTakes`.  `ShownMeansEnforced` then needs the detector's invariant and
`SentHandled`: already while a worker sends, every core it has listed blocks the source,
or is dead, or its packet is in the network or lost.  A detection forgets the losses
of the cycle before; that is safe because no worker is under way then
(`ArmedOnlyAfterCalm`) and the status says so.  The assumption `MitigationAssumption` is
that victim and path are nodes and some queue size is not above the threshold.

`MeshProofs` proves, for any number of nodes, packets, commands and crashes and any
buffer size, all invariants of the `mesh` run and `MeshImplementsDelivery`.  It
assumes `MeshAssumption` (ids of 16 bits, attacks and rules about nodes) and
`RouteAssumption`: every next hop has a route of its own that does not come back.
The latter is not taken on trust: `TablesMakeRoutes` of `RoutingProofs` (below) shows it
of the tables the code builds, if every vertex of the graph is a declared node.
`OnePlace` needs `Fresh` (an id not yet used is in no buffer).  `IsolatedForGood` says
nothing about where a packet is, so it needs `CondemnedAhead`: a condemned packet that
is under way still has a closed node ahead of it.  A node closes but never opens,
and the node that passed the packet on was not closed to it; so what was ahead of it
at one hop is ahead of it at the next, since a route is this node and the route of
the next hop.  `Delivery` then follows with the identity as refinement mapping: a
step of a node changes the fate of one packet, a crash that of all it held.

`LifecycleProofs` proves all safety properties of the `lifecycle` run for any set of
nodes, without any assumption.  `NothingLeftBehind` speaks of the state at the end
only; the invariant follows the children through the shutdown: `Tracked` (the list
holds exactly what was spawned, also after a spawn that failed), `Waited` (who is not
waited for is reaped), `Asked` (who is no longer to be terminated, and runs, was asked),
`Finished` and `ReceiverStopped`.

`RoutingProofs` proves all safety properties of the `routing` run for every graph of any
size, from `RoutingAssumption` (vertices are naturals, finitely many, and `Infinity`
exceeds their number).  `FrontierTight` and `PredecessorTree` need each other and
`NothingAhead`: nothing that was reached is further than one step beyond any entry of
the heap.  Then an edge to a reached vertex is never an improvement, only vertices
not reached yet are relaxed, and a distance stays once it is set.  That is why the
discard of outdated entries at `routing.h:46` has nothing to do.

`EveryHopIsCloser` (`NextHopsAreCloser`) compares the table with the recursive function
`Ball`.  Its invariant `TableInv` adds to the one of the search:

* `Expanded`: a reached vertex that is not in the heap has had its neighbours reached,
  none more than one step further.  With an empty heap (`Exhausted`) it follows that
  no walk to a vertex is shorter than its distance.
* `Accounted`: after the search the reached vertices are those in the table, those
  still to do and the one being done, so that none is forgotten when it returns.
* `OnTheWay`: the walk back has come from the destination by as many edges as the
  two distances differ.
* `NextHops`: what is in the table is a neighbour of the source, and from it a walk one
  edge shorter than the distance leads to the destination.

`TablesMakeRoutes` takes one such table for every node (`IsTable`) and gives each
destination a route: the nodes visited when each passes a packet on to the next hop
of its table.  No route comes back, and each has one node more than there are hops on
a shortest path.  So `NoDetour` of `Mesh`, which counts along the routes, says that packets
take shortest paths.

`EveryStepCounts` is the safety half of `TableIsBuilt`: every step decreases a natural
number (`Left`).  A turn of the search finishes one vertex (`Unfinished`), a walk back
counts a distance down, and a distance is less than the number of vertices.  With
the fairness that the function runs, it returns.

`StartupProofs` proves all properties of the `startup` run for any number of control
planes and for every file of any length, from `TopologyAssumption` (the width of an int
is not that of zero bits, and a long is no narrower) and `StartupAssumption` (16 bits
are no wider than an int, ephemeral ports fit into them, and the files are
well formed).  `WellFormed` gives the types only: the order of the members and parts
is free, members and parts may be missing or repeated, ids, ports and the ends of
edges are any integers, also shared ones, and the words may hold anything.

That no word is or holds what the nodes' reader searches for is not assumed but is
the premise `Plain` where a property needs it: with `"role": "id"` ahead of the key
`"id"` it would take the next number for the id, with a `]` in a role it would miss the
rows after it.  The comment at `topology.h:34-36` makes it the file's duty that this
does not happen, and nothing checks it.  `RowShowsItsOwnNode` needs no such premise: a
heartbeat carries the id from the command line, whatever was read from the file.

* `ParsedIs` is about the text alone: for a plain file `Parsed(Text(f))` is the nodes
  and edges of `f`, each number as the int the code makes of it. `At(s, i, a)` says that
  `a` stands in `s` after the first `i` tokens. `FlattenPlaces` says where the parts of
  a flattened sequence stand, `ObjectFound` where the searches for the braces of one
  object stop, `ScanGives` that the scan of an array then yields its objects one by one
  and stops at the bracket, `ObjectValue` what the search for a key finds in one of
  them, and `ArrayFound` where the array of a name begins.
* `ReadersDoAgree` follows with `Readable`: a node process exists only where the control
  plane could read the file.
* `MessagesFind` needs `Read` (a listening process has a port its reader's row gives it,
  after the cut to 16 bits) and `NoOrphans` (what lives belongs to the control plane that
  runs, or to one that was killed).  `IntIs` and `CutIs` say that a number that fits
  an int, or a field, is not changed by the conversions.
* `RowsAreTrue` adds `Filed`: a heartbeat is under the low 16 bits of its sender's id, and
  the sender was spawned by the control plane that shows it or by one that was killed.

Both modules argue about recursive functions (`Ball`, the fold behind `FlattenSeq`, the
scan).  The library's induction theorems take an operator and cannot be used with
these provers, so each such proof takes the set of the numbers at which the claim
fails and its least element (lemma `Least`, from the well-foundedness of the order on
`Nat`), and shows that the claim cannot fail there first.  `Spelled` in `StartupProofs` lists
the names that occur in a file, because the provers do not know that a literal is a
string.

`OrchestratorProofs` proves `NeverHalfWritten` and `WholeAndFresh` for documents of any
length and any number of snapshots, from `OrchestratorAssumption` (both are naturals, a
document is not empty).  The argument is that a file that once had the final name is
never written again: `Named` and `Staged` say that the file being written, and the one
the staging name stands for, is not the one with the final name, `Reading` that it is
not the one the orchestrator has open either.  That the staging name may stand for
what a killed control plane left is part of it: `open` empties that file.

Every invariant, action property and refinement the passing runs check is a theorem.
Model-checked only is what is left, all of it liveness, which is out of the prover's
reach: `BacklogReportedCleared`, `AnalysisEnds`, `RearmsAfterAttack`, `LastingAttackDetected`,
`BlockEndsAttack`, `TableIsBuilt`, `SignalEndsEverything`, `LegitimateFlowsArrive` and
`OrchestratorEnds`.

## 6. Where the code and its documentation differ

1. `banner_freeze`.  The comment at `main.py:50-52` says the banner freezes for
   `ANOMALY_PAUSE_SECONDS` on a fresh anomaly.  The pause taken is the short one,
   because the worker is already under way; the flag is cleared all the same.
   The comment at 736-738 knows.
2. `lost_control`.  The docstring at `main.py:362-364` relies on the next anomaly
   cycle to repeat a lost CONTROL packet.  There is none while the flood lasts:
   the detector is armed again only when no queue exceeds the threshold.
3. `edge_enforces`.  The prompt (`ai_orchestrator.py:107`) and the docstring
   (`main.py:359`) speak of core nodes; `_enforce_strategy` sends to any declared id.

Seen while modelling, without a property of their own:

* `APPLICATION_DRAIN_BATCH`, named in the comment at `node.cpp:76`, is not what
  the loop uses: 50 packets and 10 ms are literals (87-95).
* A purged packet is counted as delivered and as dropped; a CONTROL packet is
  counted nowhere.
* Source id 0 cannot be blocked, and a plan with an id <= 0 or above 65535 is shown
  as enforced without any effect.  `ShownMeansEnforced` speaks of positive ids only.
* An attack that begins while the worker of the one before is still busy, after a
  calm the detector did not get to re-arm in (`main.py:230`), is never analysed,
  however long it lasts.  `LastingAttackDetected` has the premise `armed` for that reason.
* A word in the topology file with a bracket, or that is a name the nodes' reader
  searches for, is no matter to the control plane and makes the nodes throw, or read
  fewer rows than there are, without an error.
* `FALLBACK_MODEL` is the same model as the default.
* `topology.json:2` speaks of redundant uplinks "for path diversity".  The tables are
  built once, so the second uplink of an edge does not take over when the core
  behind the first one dies; `Mesh` has that case, and such packets are lost.
* A control plane that is killed leaves its nodes running.  As every socket sets
  `SO_REUSEADDR`, the next control plane and its nodes bind the same ports without
  an error, and heartbeats of both generations reach the dashboard.
  `MessagesFindTheirNode` and `RowShowsItsOwnNode` say of a stranger only that its
  control plane was killed.
* A port of 65536 or more is cut to 16 bits by the node that binds it and by nodes that
  send to it, so that 8001 and 73537 are one port; 0 binds one nobody knows.
* A duplicate id is nowhere refused: the nodes and the generators send to the first
  row, both processes and the control plane use the port of the last.
* A node that dies while overloaded stays an offender for ever: its last heartbeat
  is never removed, and staleness is only displayed.

## 7. What is not modelled

* Byte offsets, padding, formatting, colours, timing in seconds.  Time-outs are choices.
* The heartbeat's and the packet's other fields: two packets that differ only in
  payload are the same.
* Command-line arguments, but for those `send_packet.py` turns into a header.
* Memory: the packet queue has no limit, in the code and here.
* Which integer `sscanf` yields for a number too large for an `int`; `BlockIds` and `Rules`
  may hold any integer.
* `sendto` of the control plane and the generators to a port below 0 or above 65535
  raises an error `_enforce_strategy` does not catch.  `Startup` has such ports, but does
  not send; `Detector` has only ports that can be sent to.
* `print` in `shutdown()` (`main.py:602`) may raise, if the terminal is gone, before any child
  was sent SIGTERM; and `t.start()` (`main.py:317`) may raise when no thread can be
  started.  `Lifecycle` and `Detector` have neither.
* Numbers in the topology file that are not integers, and numbers written as text.
* A topology edited between the control plane's and the nodes' reading of it.
* To which of two sockets bound to one port the kernel gives a datagram;
  `MessagesFindTheirNode` says when there is only one.
* Two control planes at once; both would stage snapshots under the same name.
* The generators' own end: `benign_traffic.py` goes on after an error of `sendto`, `ddos.py`
  does not.
* The test scripts.  They start the system and search its output; the routes they
  expect are covered by `EveryHopIsCloser`.

## 8. Plan

Done: `Firewall`, `Node`, `NodeProofs`; `Detector`, `DetectorProofs`; `Mitigation`; `Routing`;
`Lifecycle`; then `Delivery`, `Mesh`, `MeshProofs`; `Topology`, `Startup`, `StartupProofs`;
`Orchestrator`, `OrchestratorProofs`; `LifecycleProofs`, `RoutingProofs`, `Routes`,
`MitigationProofs`.

Next:

1. The safety half of more of the liveness properties, as `EveryStepCounts` is for
   `TableIsBuilt`: what every step of the shutdown of `Lifecycle`, of the orchestrator and
   of the batches of `Node` decreases.
2. What the nodes make of a file that is not `Plain`: which words are harmless because of
   where they stand, and which rows are still read right.
3. A control plane whose own calls fail: `print` in `shutdown()`, `t.start()`, a `sendto` that
   raises what is not an `OSError`.
