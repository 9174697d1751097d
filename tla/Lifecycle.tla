----------------------------- MODULE Lifecycle -----------------------------
(***************************************************************************)
(* The control plane as a supervisor (src/control_plane/main.py): it       *)
(* starts the telemetry receiver, spawns one process per node, runs its    *)
(* loop until a signal or an exception, then stops the receiver and takes  *)
(* every process down: SIGTERM to those that live, five seconds of         *)
(* polling, SIGKILL and wait for the rest.                                 *)
(*                                                                         *)
(* Children run in sessions of their own, so nothing else ends them.  A    *)
(* node may exit at any time, before or after SIGTERM, or never of its own *)
(* accord.  An exited child stays a zombie until poll or wait reaps it.    *)
(* The supervisor itself may be killed: then nobody takes anything down.   *)
(***************************************************************************)
EXTENDS Integers

CONSTANT Nodes   \* the nodes the topology declares

VARIABLES
  proc,      \* [node -> "absent", "running", "zombie" or "reaped"]
  nodes,     \* the list main() keeps: the nodes it spawned
  logs,      \* the nodes whose log file is open
  event,     \* _shutdown_event
  rx,        \* the telemetry receiver: "off", "on", or "stopping" once its
             \*   event is set and its socket closed
  pc,        \* "setup", "spawn", "settle", "loop", "finally", "find",
             \*   "terminate", "poll", "kill", "close", "returned" or "killed"
  live,      \* shutdown(): the nodes still to get SIGTERM
  pending,   \* shutdown(): the nodes waited for
  termed     \* history: the nodes SIGTERM was sent to

vars == <<proc, nodes, logs, event, rx, pc, live, pending, termed>>

Ended == {"returned", "killed"}

Init ==
  /\ proc = [n \in Nodes |-> "absent"]
  /\ nodes = {} /\ logs = {}
  /\ event = FALSE /\ rx = "off"
  /\ pc = "setup"
  /\ live = {} /\ pending = {} /\ termed = {}

(* poll() on every node of S: those that exited are reaped. *)
Polled(S) ==
  [n \in Nodes |-> IF n \in S /\ proc[n] = "zombie" THEN "reaped" ELSE proc[n]]

Running(S) == {n \in S : proc[n] = "running"}

-----------------------------------------------------------------------------
(* The environment. *)

(* SIGINT or SIGTERM: the handler only sets the event. *)
Signal ==
  /\ pc \notin Ended /\ ~event
  /\ event' = TRUE
  /\ UNCHANGED <<proc, nodes, logs, rx, pc, live, pending, termed>>

(* A node process ends, by itself or of SIGTERM; init reaps the orphans.    *)
Exit(n) ==
  /\ proc[n] = "running"
  /\ proc' = [proc EXCEPT ![n] = IF pc = "killed" THEN "reaped" ELSE "zombie"]
  /\ UNCHANGED <<nodes, logs, event, rx, pc, live, pending, termed>>

(* SIGKILL: no handler, no finally.  The kernel closes what was open; the   *)
(* children, in sessions of their own, go on.                               *)
Killed ==
  /\ pc \notin Ended
  /\ pc' = "killed"
  /\ rx' = "off" /\ logs' = {}
  /\ proc' = [n \in Nodes |-> IF proc[n] = "zombie" THEN "reaped" ELSE proc[n]]
  /\ UNCHANGED <<nodes, event, live, pending, termed>>

-----------------------------------------------------------------------------
(* main() *)

(* The handlers are installed, the topology is read, the receiver starts.   *)
Setup ==
  /\ pc = "setup"
  /\ rx' = "on" /\ pc' = "spawn"
  /\ UNCHANGED <<proc, nodes, logs, event, live, pending, termed>>

(* No binary, no readable topology or no port for the receiver: all of this *)
(* comes before the try, and nothing is to be undone.                       *)
SetupFails ==
  /\ pc = "setup"
  /\ pc' = "returned"
  /\ UNCHANGED <<proc, nodes, logs, event, rx, live, pending, termed>>

Spawn(n) ==
  /\ pc = "spawn" /\ n \notin nodes
  /\ proc' = [proc EXCEPT ![n] = "running"]
  /\ nodes' = nodes \cup {n} /\ logs' = logs \cup {n}
  /\ UNCHANGED <<event, rx, pc, live, pending, termed>>

(* The log cannot be opened, or it can and the binary not be started: the   *)
(* exception takes the finally clause with the nodes spawned so far, and    *)
(* nothing refers to that last log file any more.                           *)
SpawnFails(n) ==
  /\ pc = "spawn" /\ n \notin nodes
  /\ pc' = "finally"
  /\ logs' \in {logs, logs \cup {n}}
  /\ UNCHANGED <<proc, nodes, event, rx, live, pending, termed>>

AllSpawned ==
  /\ pc = "spawn" /\ nodes = Nodes
  /\ pc' = "settle"
  /\ UNCHANGED <<proc, nodes, logs, event, rx, live, pending, termed>>

(* The first wait is cut short by the event, or times out. *)
Settle ==
  /\ pc = "settle"
  /\ pc' = IF event THEN "finally" ELSE "loop"
  /\ UNCHANGED <<proc, nodes, logs, event, rx, live, pending, termed>>

(* One turn: the dashboard polls every child. *)
Turn ==
  /\ pc = "loop" /\ ~event
  /\ proc' = Polled(nodes)
  /\ UNCHANGED <<nodes, logs, event, rx, pc, live, pending, termed>>

(* An exception of the detector, which runs before the table is printed.    *)
TurnFails ==
  /\ pc = "loop" /\ ~event
  /\ pc' = "finally"
  /\ UNCHANGED <<proc, nodes, logs, event, rx, live, pending, termed>>

LeaveLoop ==
  /\ pc = "loop" /\ event
  /\ pc' = "finally"
  /\ UNCHANGED <<proc, nodes, logs, event, rx, live, pending, termed>>

(* finally: the event of the receiver is set and its socket closed before   *)
(* anything else.                                                           *)
StopTelemetry ==
  /\ pc = "finally"
  /\ rx' = "stopping" /\ pc' = "find"
  /\ UNCHANGED <<proc, nodes, logs, event, live, pending, termed>>

(* The receiver's thread comes back from recvfrom, by its timeout or by the *)
(* closed socket, and leaves its loop.  It is a daemon, so main() need not  *)
(* wait for it.                                                             *)
ReceiverEnds ==
  /\ rx = "stopping"
  /\ rx' = "off"
  /\ UNCHANGED <<proc, nodes, logs, event, pc, live, pending, termed>>

-----------------------------------------------------------------------------
(* shutdown() *)

(* Mutants: all nodes the topology declares, spawned or not; and no SIGTERM *)
(* before the deadline starts.                                              *)
FindLiveConfigured ==
  /\ pc = "find"
  /\ proc' = Polled(nodes)
  /\ live' = Nodes /\ pending' = live'
  /\ pc' = IF live' = {} THEN "close" ELSE "terminate"
  /\ UNCHANGED <<nodes, logs, event, rx, termed>>
FindLiveOnly ==
  /\ pc = "find"
  /\ proc' = Polled(nodes)
  /\ live' = {} /\ pending' = Running(nodes)
  /\ pc' = IF pending' = {} THEN "close" ELSE "poll"
  /\ UNCHANGED <<nodes, logs, event, rx, termed>>

FindLive ==
  /\ pc = "find"
  /\ proc' = Polled(nodes)
  /\ live' = Running(nodes) /\ pending' = live'
  /\ pc' = IF live' = {} THEN "close" ELSE "terminate"
  /\ UNCHANGED <<nodes, logs, event, rx, termed>>

(* terminate() polls first: a child that just exited is reaped instead.     *)
Terminate(n) ==
  /\ pc = "terminate" /\ n \in live
  /\ live' = live \ {n}
  /\ proc' = Polled({n}) /\ termed' = termed \cup Running({n})
  /\ pc' = IF live' = {} THEN "poll" ELSE pc
  /\ UNCHANGED <<nodes, logs, event, rx, pending>>

(* Mutants: waits without a deadline, and gives up at the deadline. *)
AfterPollPatient(rest) == IF rest = {} THEN {"kill"} ELSE {"poll"}
AfterPollGivesUp(rest) == IF rest = {} THEN {"kill"} ELSE {"poll", "close"}

(* One turn of the polling loop; within the grace period there is another   *)
(* one as long as a child is pending.                                       *)
AfterPoll(rest) == IF rest = {} THEN {"kill"} ELSE {"poll", "kill"}

PollPending ==
  /\ pc = "poll"
  /\ proc' = Polled(pending)
  /\ pending' = Running(pending)
  /\ pc' \in AfterPoll(pending')
  /\ UNCHANGED <<nodes, logs, event, rx, live, termed>>

(* SIGKILL and wait: the child is gone and reaped. *)
Kill(n) ==
  /\ pc = "kill" /\ n \in pending
  /\ proc' = [proc EXCEPT ![n] = "reaped"]
  /\ pending' = pending \ {n}
  /\ UNCHANGED <<nodes, logs, event, rx, pc, live, termed>>

AllGone ==
  /\ pc = "kill" /\ pending = {}
  /\ pc' = "close"
  /\ UNCHANGED <<proc, nodes, logs, event, rx, live, pending, termed>>

CloseLogs ==
  /\ pc = "close"
  /\ logs' = logs \ nodes
  /\ pc' = "returned"
  /\ UNCHANGED <<proc, nodes, event, rx, live, pending, termed>>

Shutdown ==
  \/ FindLive \/ PollPending \/ AllGone \/ CloseLogs
  \/ \E n \in Nodes : Terminate(n) \/ Kill(n)

Main ==
  \/ Setup \/ SetupFails
  \/ AllSpawned \/ Settle \/ Turn \/ TurnFails \/ LeaveLoop \/ StopTelemetry
  \/ \E n \in Nodes : Spawn(n) \/ SpawnFails(n)

Next ==
  \/ Signal \/ Killed
  \/ \E n \in Nodes : Exit(n)
  \/ ReceiverEnds
  \/ Main
  \/ Shutdown

Spec == Init /\ [][Next]_vars

(* main() keeps running.  Nothing is assumed of the children; the grace     *)
(* period does end.                                                         *)
FairSpec ==
  /\ Spec
  /\ WF_vars(Main) /\ WF_vars(Shutdown)
  /\ SF_vars(PollPending /\ pc' = "kill")

-----------------------------------------------------------------------------
(* Types of every variable. *)
TypeOK ==
  /\ proc \in [Nodes -> {"absent", "running", "zombie", "reaped"}]
  /\ nodes \subseteq Nodes /\ logs \subseteq Nodes
  /\ event \in BOOLEAN /\ rx \in {"off", "on", "stopping"}
  /\ pc \in {"setup", "spawn", "settle", "loop", "finally", "find", "terminate",
             "poll", "kill", "close", "returned", "killed"}
  /\ live \subseteq pending /\ pending \subseteq nodes
  /\ termed \subseteq nodes

(* Whatever ended main() and whatever the children did meanwhile, no child  *)
(* outlives it, none is left a zombie, the log of none stays open and the   *)
(* receiver's socket is closed (main.py:597-636, 748-750).                  *)
NothingLeftBehind ==
  pc = "returned" =>
    /\ \A n \in Nodes : proc[n] \in {"absent", "reaped"}
    /\ logs \cap nodes = {}
    /\ rx # "on"

(* No running child is killed that was not first asked to terminate         *)
(* (main.py:600-630).                                                       *)
SigkillIsLastResort ==
  [][\A n \in Nodes :
       proc[n] = "running" /\ proc'[n] = "reaped" /\ pc # "killed"
         => n \in termed]_vars

(* A signal at any time, even while the nodes are being spawned, leads to   *)
(* the end of main(), unless it is killed first.                            *)
SignalEndsEverything == event ~> pc \in Ended
=============================================================================
