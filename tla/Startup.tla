------------------------------- MODULE Startup -------------------------------
(***************************************************************************)
(* Who is who: control planes that start one after the other, the node     *)
(* processes each of them spawns from the rows of topology.json, the ports *)
(* those bind, and the row of the dashboard their heartbeats end in.       *)
(*                                                                         *)
(* Nothing checks the file.  Two rows may have the same id or port, and    *)
(* either may be zero, negative, or wider than an int or the 16 bits that  *)
(* a socket address and a heartbeat hold.  A control plane that is killed  *)
(* leaves its children running, bound and reporting, and as every socket   *)
(* has SO_REUSEADDR the next control plane and its children bind the same  *)
(* ports.  How the processes of one control plane end is in Lifecycle;     *)
(* here they are gone when it returns.                                     *)
(***************************************************************************)
EXTENDS Topology

CONSTANTS
  Files,     \* the contents topology.json may have
  U16,       \* 2^16 in the code: the values of source_node_id and of a port
  Ephemeral, \* the ports the kernel gives a socket bound to port 0
  MaxRuns    \* bound: control planes started

ASSUME StartupAssumption ==
  /\ U16 \in Nat \ {0} /\ U16 <= IntHalf /\ MaxRuns \in Nat
  /\ Ephemeral \subseteq 1 .. U16 - 1
  /\ \A f \in Files : WellFormed(f)

VARIABLES
  file,      \* what topology.json holds
  run,       \* how many control planes were started
  up,        \* the last one is running
  row,       \* the rows it spawned a process for
  proc,      \* [<<run, row>> -> "absent", "starting", "listening", "gone"]
  topo,      \* [<<run, row>> -> what the process read from the file, or Unread]
  port,      \* [<<run, row>> -> the port it is bound to, 0 before]
  shown,     \* _heartbeats: [id -> who sent the last one, or Nobody]
  killed     \* history: the control planes that were killed

vars == <<file, run, up, row, proc, topo, port, shown, killed>>

Rows == DOMAIN file.nodes
Id(r) == file.nodes[r].id
Processes == DOMAIN proc
Nobody == <<0, 0>>
Unread == <<>>
Nothing == [i \in 0 .. U16 - 1 |-> Nobody]

Init ==
  /\ file \in Files
  /\ run = 0 /\ up = FALSE /\ row = 0
  /\ proc = [p \in (1 .. MaxRuns) \X Rows |-> "absent"]
  /\ topo = [p \in (1 .. MaxRuns) \X Rows |-> Unread]
  /\ port = [p \in (1 .. MaxRuns) \X Rows |-> 0]
  /\ shown = Nothing
  /\ killed = {}

-----------------------------------------------------------------------------
(* What each reader of the file makes of an id that has several rows. *)

RowsOf(t, id) == {i \in DOMAIN t.nodes : t.nodes[i][1] = <<id>>}
PortAt(t, i)  == t.nodes[i][2][1]

(* Mutant: the search ends at the first row. *)
MyPortFirst(t, id) == IF RowsOf(t, id) = {} THEN -1 ELSE PortAt(t, Min(RowsOf(t, id)))

(* A node takes the last row of its id for its own port, -1 if there is     *)
(* none, and the first one for the endpoint of another node.                *)
MyPort(t, id)   == IF RowsOf(t, id) = {} THEN -1 ELSE PortAt(t, Max(RowsOf(t, id)))
Endpoint(t, id) == PortAt(t, Min(RowsOf(t, id))) % U16

(* The control plane's table of ports: a later row replaces an earlier one. *)
PortById(id) == file.nodes[Max({r \in Rows : Id(r) = id})].port

(* ddos.py and its like take the first row. *)
LoadNodePort(id) == file.nodes[Min({r \in Rows : Id(r) = id})].port

-----------------------------------------------------------------------------
(* main() of a control plane.  A file it cannot read ends it at once. *)
Start ==
  /\ ~up /\ run < MaxRuns
  /\ run' = run + 1
  /\ up' = JsonReads(file)
  /\ row' = 0 /\ shown' = Nothing
  /\ UNCHANGED <<file, proc, topo, port, killed>>

Spawn ==
  /\ up /\ row < Len(file.nodes)
  /\ row' = row + 1
  /\ proc' = [proc EXCEPT ![<<run, row'>>] = "starting"]
  /\ UNCHANGED <<file, run, up, topo, port, shown, killed>>

(* Mutant: the children are not waited for. *)
ReturnAlone ==
  /\ up
  /\ up' = FALSE
  /\ UNCHANGED <<file, run, row, proc, topo, port, shown, killed>>

(* A signal, or an exception: shutdown() ends every process it spawned. *)
Return ==
  /\ up
  /\ up' = FALSE
  /\ proc' = [p \in Processes |-> IF p[1] = run /\ proc[p] # "absent"
                                  THEN "gone" ELSE proc[p]]
  /\ UNCHANGED <<file, run, row, topo, port, shown, killed>>

Killed ==
  /\ up
  /\ up' = FALSE /\ killed' = killed \cup {run}
  /\ UNCHANGED <<file, run, row, proc, topo, port, shown>>

-----------------------------------------------------------------------------
(* bind() of a port that was converted to 16 bits: zero leaves the choice   *)
(* to the kernel.                                                           *)
Bound(prt) == IF prt % U16 = 0 THEN Ephemeral ELSE {prt % U16}

(* main() of a node, up to its heartbeat thread: its id must be positive,   *)
(* its reader must make sense of the file, and find a port for it that is   *)
(* not negative.  Binding a port another node has succeeds, for all of them *)
(* set SO_REUSEADDR.                                                        *)
Listen(p) ==
  LET t   == Parsed(Text(file))
      id  == CInt(Id(p[2]))
      fit == id > 0 /\ ~ Throws(t) /\ MyPort(t, id) >= 0
  IN  /\ proc[p] = "starting"
      /\ topo' = [topo EXCEPT ![p] = IF id > 0 THEN t ELSE Unread]
      /\ \/ /\ ~ fit
            /\ proc' = [proc EXCEPT ![p] = "gone"]
            /\ UNCHANGED port
         \/ /\ fit
            /\ proc' = [proc EXCEPT ![p] = "listening"]
            /\ \E b \in Bound(MyPort(t, id)) : port' = [port EXCEPT ![p] = b]
      /\ UNCHANGED <<file, run, up, row, shown, killed>>

(* A process ends: a system call fails, or it crashes.                   *)
End(p) ==
  /\ proc[p] \in {"starting", "listening"}
  /\ proc' = [proc EXCEPT ![p] = "gone"]
  /\ UNCHANGED <<file, run, up, row, topo, port, shown, killed>>

(* What an int of the file leaves in a 16-bit field. *)
Cut(v) == CInt(v) % U16

(* A heartbeat: 16 bits of the id go out, and the receiver of whichever     *)
(* control plane is running files it under them.                            *)
Beat(p) ==
  /\ proc[p] = "listening" /\ up
  /\ shown' = [shown EXCEPT ![Cut(Id(p[2]))] = p]
  /\ UNCHANGED <<file, run, up, row, proc, topo, port, killed>>

(* The dashboard looks a row's figures up by the id in the file. *)
InRow(r) == IF Id(r) \in DOMAIN shown THEN shown[Id(r)] ELSE Nobody

Next ==
  \/ Start \/ Spawn \/ Return \/ Killed
  \/ \E p \in Processes : Listen(p) \/ End(p) \/ Beat(p)

Spec == Init /\ [][Next]_vars

-----------------------------------------------------------------------------
(* Ids that differ in the file differ in the nodes' ints as well. *)
IdsApart == \A r, q \in Rows : CInt(Id(r)) = CInt(Id(q)) => Id(r) = Id(q)

(* Of the low 16 bits of its id, no other row has the same. *)
LowAlone(r) == \A q \in Rows : Cut(Id(q)) = Cut(Id(r)) => q = r

(* The port a process of the row asks the kernel for; 0 is any. *)
Asked(r) == Cut(PortById(Id(r)))

(* Whatever order the members and the parts of the file are written in, a   *)
(* file the control plane can read is one the nodes can read, and both read *)
(* the same nodes and edges from it, but for numbers no int holds: unless a *)
(* word in the file is one of the names or brackets the nodes search for    *)
(* (topology.h:30-107, main.py:386-394).                                    *)
ReadersAgree ==
  Plain(file) =>
    \A p \in Processes :
      topo[p] # Unread =>
        topo[p] =
          [nodes |-> [r \in Rows |-> << <<CInt(Id(r))>>, <<CInt(file.nodes[r].port)>> >>],
           edges |-> [e \in DOMAIN file.edges |->
                        << <<CInt(file.edges[e].from)>>, <<CInt(file.edges[e].to)>> >>]]

(* What is sent to a node arrives there.  A CONTROL for a row's id, if it   *)
(* can be sent at all, goes to a port its process listens at, even when     *)
(* rows share the id: then both take the last row.  The nodes on the way    *)
(* and the generators both take the first, so that they agree with each     *)
(* other, and with the process when there is one row.  Another process      *)
(* listens at the same port only if it asked for the same one or either of  *)
(* them for any; of two that belong to different control planes, the older  *)
(* one's was killed (main.py:369-380; node.cpp:192-202, 244; ddos.py:40-46). *)
MessagesFindTheirNode ==
  \A p \in Processes :
    proc[p] = "listening" =>
      /\ Plain(file) /\ IdsApart =>
           /\ PortById(Id(p[2])) \in 1 .. U16 - 1 => port[p] = PortById(Id(p[2]))
           /\ \A r \in Rows :
                LoadNodePort(Id(r)) \in 1 .. U16 - 1 =>
                  Endpoint(topo[p], CInt(Id(r))) = LoadNodePort(Id(r))
      /\ \A q \in Processes :
           proc[q] = "listening" /\ port[q] = port[p] =>
             /\ Plain(file) /\ IdsApart =>
                  Asked(p[2]) = Asked(q[2]) \/ 0 \in {Asked(p[2]), Asked(q[2])}
             /\ q[1] < p[1] => q[1] \in killed

(* The figures in a row of the dashboard come from a process with the low   *)
(* 16 bits of that row's id: from the row's own, if no other row has the    *)
(* same; and from one this control plane spawned, or one that was killed    *)
(* left behind (main.py:413, 485-487, 562-582; node.cpp:129).               *)
RowShowsItsOwnNode ==
  \A r \in Rows :
    up /\ InRow(r) # Nobody =>
      LET p == InRow(r)
      IN  /\ Cut(Id(p[2])) = Id(r)
          /\ LowAlone(r) => p[2] = r
          /\ p[1] = run \/ p[1] \in killed
=============================================================================
