--------------------------- MODULE LifecycleProofs ---------------------------
(***************************************************************************)
(* That the control plane leaves nothing behind, and kills nobody it did   *)
(* not ask to go, however many nodes it spawned.                           *)
(***************************************************************************)
EXTENDS Lifecycle, TLAPS

(* main() keeps the nodes it spawned, all of them and no other. *)
Tracked == \A n \in Nodes : proc[n] # "absent" <=> n \in nodes

(* Nothing is there before the setup. *)
Untouched == pc = "setup" => nodes = {} /\ logs = {} /\ rx = "off"

(* From the first poll of shutdown() on, what it does not wait for is gone. *)
Waited ==
  pc \in {"terminate", "poll", "kill", "close", "returned"} =>
    \A n \in nodes \ pending : proc[n] = "reaped"

(* It goes on when nobody is left, and then closes the logs. *)
Finished ==
  /\ pc \in {"setup", "close", "returned"} => pending = {}
  /\ pc = "returned" => logs \cap nodes = {}

(* Who is no longer on the list of live nodes was sent SIGTERM, or went     *)
(* before.                                                                  *)
Asked ==
  /\ pc \notin {"terminate", "killed"} => live = {}
  /\ pc \in {"terminate", "poll", "kill"} =>
       \A n \in pending \ live : proc[n] = "running" => n \in termed

ReceiverStopped ==
  pc \in {"find", "terminate", "poll", "kill", "close", "returned"} => rx # "on"

IInv ==
  /\ TypeOK
  /\ Tracked
  /\ Untouched
  /\ Waited
  /\ Finished
  /\ Asked
  /\ ReceiverStopped

-----------------------------------------------------------------------------
(* poll() changes zombies it is asked about, into reaped ones, and nothing else. *)
LEMMA PolledEffect ==
  ASSUME TypeOK, NEW S
  PROVE  /\ Polled(S) \in [Nodes -> {"absent", "running", "zombie", "reaped"}]
         /\ \A n \in Nodes :
              /\ n \notin S => Polled(S)[n] = proc[n]
              /\ proc[n] # "zombie" => Polled(S)[n] = proc[n]
              /\ n \in S /\ proc[n] = "zombie" => Polled(S)[n] = "reaped"
  BY DEF Polled, TypeOK

LEMMA InitHolds == Init => IInv
  BY DEF Init, IInv, TypeOK, Tracked, Untouched, Waited, Finished, Asked,
         ReceiverStopped

LEMMA StepHolds == IInv /\ [Next]_vars => IInv'
<1> SUFFICES ASSUME IInv, [Next]_vars PROVE IInv'
  OBVIOUS
<1> USE DEF IInv, TypeOK, Tracked, Untouched, Waited, Finished, Asked,
            ReceiverStopped, Ended
<1>1. CASE Signal
  BY <1>1 DEF Signal
<1>2. CASE Killed
  BY <1>2 DEF Killed
<1>3. ASSUME NEW n \in Nodes, Exit(n) PROVE IInv'
  BY <1>3 DEF Exit
<1>4. CASE ReceiverEnds
  BY <1>4 DEF ReceiverEnds
<1>5. CASE Main
  <2>1. CASE Setup
    BY <2>1 DEF Setup
  <2>2. CASE SetupFails
    BY <2>2 DEF SetupFails
  <2>3. CASE AllSpawned
    BY <2>3 DEF AllSpawned
  <2>4. CASE Settle
    BY <2>4 DEF Settle
  <2>5. CASE Turn
    BY <2>5, PolledEffect DEF Turn
  <2>6. CASE TurnFails
    BY <2>6 DEF TurnFails
  <2>7. CASE LeaveLoop
    BY <2>7 DEF LeaveLoop
  <2>8. CASE StopTelemetry
    BY <2>8 DEF StopTelemetry
  <2>9. ASSUME NEW n \in Nodes, Spawn(n) PROVE IInv'
    BY <2>9 DEF Spawn
  <2>10. ASSUME NEW n \in Nodes, SpawnFails(n) PROVE IInv'
    BY <2>10 DEF SpawnFails
  <2> QED
    BY <1>5, <2>1, <2>2, <2>3, <2>4, <2>5, <2>6, <2>7, <2>8, <2>9, <2>10 DEF Main
<1>6. CASE Shutdown
  <2>1. CASE FindLive
    <3>1. \A m \in nodes \ pending' : proc'[m] = "reaped"
      BY <2>1, PolledEffect DEF FindLive, Running
    <3> QED
      BY <2>1, <3>1, PolledEffect DEF FindLive, Running
  <2>2. CASE PollPending
    <3>1. \A m \in nodes \ pending' : proc'[m] = "reaped"
      BY <2>2, PolledEffect DEF PollPending, Running
    <3>2. pc' \in {"poll", "kill"}
      BY <2>2 DEF PollPending, AfterPoll
    <3> QED
      BY <2>2, <3>1, <3>2, PolledEffect DEF PollPending, Running
  <2>3. CASE AllGone
    BY <2>3 DEF AllGone
  <2>4. CASE CloseLogs
    BY <2>4 DEF CloseLogs
  <2>5. ASSUME NEW n \in Nodes, Terminate(n) PROVE IInv'
    <3>1. \A m \in pending \ live' : proc'[m] = "running" => m \in termed'
      BY <2>5, PolledEffect DEF Terminate, Running
    <3> QED
      BY <2>5, <3>1, PolledEffect DEF Terminate, Running
  <2>6. ASSUME NEW n \in Nodes, Kill(n) PROVE IInv'
    BY <2>6 DEF Kill
  <2> QED
    BY <1>6, <2>1, <2>2, <2>3, <2>4, <2>5, <2>6 DEF Shutdown
<1>7. CASE UNCHANGED vars
  BY <1>7 DEF vars
<1> QED
  BY <1>1, <1>2, <1>3, <1>4, <1>5, <1>6, <1>7 DEF Next

LEMMA Inductive == Spec => []IInv
  BY InitHolds, StepHolds, PTL DEF Spec

-----------------------------------------------------------------------------
(* Every variable keeps its type; in particular shutdown() only waits for   *)
(* nodes it spawned.                                                        *)
THEOREM LifecycleTyped == Spec => []TypeOK
<1>1. IInv => TypeOK
  BY DEF IInv
<1> QED
  BY <1>1, Inductive, PTL

(* Whatever main() returned from, every child is gone and reaped, the logs  *)
(* are closed and so is the receiver's socket (main.py:597-636, 748-750).   *)
THEOREM CleanReturn == Spec => []NothingLeftBehind
<1>1. IInv => NothingLeftBehind
  BY DEF IInv, TypeOK, Tracked, Waited, Finished, ReceiverStopped,
         NothingLeftBehind
<1> QED
  BY <1>1, Inductive, PTL

(* SIGKILL only goes to a child that was sent SIGTERM before                *)
(* (main.py:600-630).                                                       *)
THEOREM SigtermFirst == Spec => SigkillIsLastResort
<1> DEFINE Fair(n) == proc[n] = "running" /\ proc'[n] = "reaped" /\ pc # "killed"
                        => n \in termed
<1>1. IInv /\ [Next]_vars => [\A n \in Nodes : Fair(n)]_vars
  <2> SUFFICES ASSUME IInv, Next, NEW n \in Nodes PROVE Fair(n)
    OBVIOUS
  <2> USE DEF IInv, TypeOK, Asked
  <2>1. CASE Shutdown
    <3>1. CASE FindLive
      BY <3>1, PolledEffect DEF FindLive
    <3>2. CASE PollPending
      BY <3>2, PolledEffect DEF PollPending
    <3>3. CASE AllGone \/ CloseLogs
      BY <3>3 DEF AllGone, CloseLogs
    <3>4. ASSUME NEW m \in Nodes, Terminate(m) PROVE Fair(n)
      BY <3>4, PolledEffect DEF Terminate
    <3>5. ASSUME NEW m \in Nodes, Kill(m) PROVE Fair(n)
      BY <3>5 DEF Kill
    <3> QED
      BY <2>1, <3>1, <3>2, <3>3, <3>4, <3>5 DEF Shutdown
  <2>2. CASE Main
    BY <2>2, PolledEffect DEF Main, Setup, SetupFails, AllSpawned, Settle, Turn,
       TurnFails, LeaveLoop, StopTelemetry, Spawn, SpawnFails
  <2>3. CASE Signal \/ Killed \/ ReceiverEnds
    BY <2>3 DEF Signal, Killed, ReceiverEnds
  <2>4. ASSUME NEW m \in Nodes, Exit(m) PROVE Fair(n)
    BY <2>4 DEF Exit
  <2> QED
    BY <2>1, <2>2, <2>3, <2>4 DEF Next
<1>2. Spec => [][\A n \in Nodes : Fair(n)]_vars
  BY <1>1, Inductive, PTL DEF Spec
<1> QED
  BY <1>2 DEF SigkillIsLastResort
=============================================================================
