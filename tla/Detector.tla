------------------------------ MODULE Detector ------------------------------
(***************************************************************************)
(* The control plane's anomaly detector (src/control_plane/main.py): the   *)
(* heartbeat map, the main loop that checks it and repaints the dashboard, *)
(* and the background AI worker that asks for a mitigation plan and sends  *)
(* it to the core nodes as CONTROL packets.                                *)
(*                                                                         *)
(* Three threads: the telemetry receiver (ReceiveHeartbeat), the main      *)
(* thread, with program counter pc and locals snap and busy, and the AI    *)
(* worker.  Nothing in Python keeps a second worker from being spawned     *)
(* while one runs, so there are as many as Slots allows; that there is     *)
(* never more than one is for the detector to ensure.  Every lock section  *)
(* is one action, and each call to the API and each sendto another.        *)
(***************************************************************************)
EXTENDS Integers, Sequences

CONSTANTS
  Nodes,      \* the node ids that send heartbeats
  Known,      \* the ids with a port in the topology (_port_by_id)
  Levels,     \* the queue sizes heartbeats report
  Threshold,  \* QUEUE_ANOMALY_THRESHOLD
  Plans,      \* the strategies the API may return: [block, cores]
  Slots       \* bound: room for worker threads

ASSUME DetectorAssumption ==
  /\ Levels \subseteq Nat
  /\ Threshold \in Nat
  /\ Plans \subseteq [block : Int, cores : Seq(Int)]

VARIABLES
  heartbeats, \* TelemetryReceiver._heartbeats: [node -> queue size], partial
  pc,         \* main thread: "snapshot", "busy", "decide", "pause",
              \*   "stopping" (the finally block) or "exited"
  snap,       \* main thread: the copy of heartbeats this iteration checks
  busy,       \* main thread: ai_busy
  armed,      \* _armed
  fresh,      \* _fresh
  alert,      \* _last_alert: <<>> or <<[node, queue]>>
  pause,      \* the pause chosen last: "analyzing", "anomaly" or "refresh"
  aiState,    \* _ai_state: "idle", "analyzing", "done" or "failed"
  strategy,   \* _ai_strategy: <<>> or <<plan>>
  enforced,   \* _ai_enforced_cores
  worker,     \* [slot -> the AI worker there: what it does next, the plan it
              \*   got, the cores still to contact, the cores contacted]
  control,    \* CONTROL packets on their way: {[to, block]}
  calm,       \* history: since the last detection, the heartbeat map was
              \*   once within tolerance
  paused,     \* history: the anomaly pause was taken since the last detection
  wire        \* history: the cores CONTROL was sent to since the last detection

mainVars == <<pc, snap, busy, armed, fresh, alert, pause, paused>>
aiVars == <<aiState, strategy, enforced>>
vars == <<heartbeats, pc, snap, busy, armed, fresh, alert, pause, aiState,
          strategy, enforced, worker, control, calm, paused, wire>>

NoWorker == [stage |-> "none", plan |-> <<>>, todo |-> <<>>, sent |-> <<>>]

(* The nodes whose queue strictly exceeds the threshold. *)
Offenders(hbs) == {n \in DOMAIN hbs : hbs[n] > Threshold}

Init ==
  /\ heartbeats = <<>>
  /\ pc = "snapshot" /\ snap = <<>> /\ busy = FALSE
  /\ armed = TRUE /\ fresh = FALSE /\ alert = <<>>
  /\ pause = "refresh"
  /\ aiState = "idle" /\ strategy = <<>> /\ enforced = <<>>
  /\ worker = [w \in Slots |-> NoWorker]
  /\ control = {}
  /\ calm = TRUE /\ paused = FALSE /\ wire = <<>>

-----------------------------------------------------------------------------
(* The telemetry receiver: the latest heartbeat of a node replaces the one  *)
(* before; a datagram that does not parse changes nothing.                  *)
ReceiveHeartbeat(n, q) ==
  /\ pc \notin {"stopping", "exited"}
  /\ heartbeats' = [m \in DOMAIN heartbeats \cup {n} |->
                      IF m = n THEN q ELSE heartbeats[m]]
  /\ calm' = (calm \/ Offenders(heartbeats') = {})
  /\ UNCHANGED <<mainVars, aiVars, worker, control, wire>>

-----------------------------------------------------------------------------
(* The main loop: render_dashboard, check, and the pause. *)

(* Mutant: the first copy is kept for good. *)
TakeSnapshotOnce ==
  /\ pc = "snapshot"
  /\ snap' = IF snap = <<>> THEN heartbeats ELSE snap
  /\ pc' = IF snap' = <<>> THEN "pause" ELSE "busy"
  /\ UNCHANGED <<heartbeats, busy, armed, fresh, alert, pause, aiVars,
                 worker, control, calm, paused, wire>>

TakeSnapshot ==
  /\ pc = "snapshot"
  /\ snap' = heartbeats
  /\ pc' = IF heartbeats = <<>> THEN "pause" ELSE "busy"
  /\ UNCHANGED <<heartbeats, busy, armed, fresh, alert, pause, aiVars,
                 worker, control, calm, paused, wire>>

(* check reads _ai_state under the lock and decides later. *)
ReadBusy ==
  /\ pc = "busy"
  /\ busy' = (aiState = "analyzing")
  /\ pc' = "decide"
  /\ UNCHANGED <<heartbeats, snap, armed, fresh, alert, pause, aiVars,
                 worker, control, calm, paused, wire>>

(* Mutants: whatever the worker does, and never again after a failure. *)
MayRearmAnyTime == TRUE
MayRearmUnlessFailed == ~busy /\ aiState # "failed"

MayRearm == ~busy

(* No offender: re-arm unless a worker is busy. *)
Subsided ==
  /\ pc = "decide" /\ Offenders(snap) = {}
  /\ armed' = (armed \/ MayRearm)
  /\ pc' = "pause"
  /\ UNCHANGED <<heartbeats, snap, busy, fresh, alert, pause, aiVars,
                 worker, control, calm, paused, wire>>

(* Mutant: re-arms as soon as the worker is done, offenders or not. *)
SameAttackRearms ==
  /\ pc = "decide" /\ Offenders(snap) # {} /\ ~armed
  /\ armed' = ~busy
  /\ pc' = "pause"
  /\ UNCHANGED <<heartbeats, snap, busy, fresh, alert, pause, aiVars,
                 worker, control, calm, paused, wire>>

(* Still the attack that was already captured. *)
SameAttack ==
  /\ pc = "decide" /\ Offenders(snap) # {} /\ ~armed
  /\ pc' = "pause"
  /\ UNCHANGED <<heartbeats, snap, busy, armed, fresh, alert, pause, aiVars,
                 worker, control, calm, paused, wire>>

(* Mutant: the shortest queue of all. *)
WorstIsLeast(hbs) == {n \in DOMAIN hbs : \A m \in DOMAIN hbs : hbs[n] <= hbs[m]}

(* The offenders with the longest queue; the first in the map wins a tie. *)
Worst(hbs) == {n \in Offenders(hbs) : \A m \in Offenders(hbs) : hbs[m] <= hbs[n]}

(* _spawn_ai_worker: the status is reset under the lock, the thread starts. *)
Spawn(w) ==
  /\ worker[w] = NoWorker
  /\ worker' = [worker EXCEPT ![w].stage = "start"]
  /\ aiState' = "analyzing" /\ strategy' = <<>> /\ enforced' = <<>>

(* A detection, once the snapshot file is written. *)
Detect ==
  /\ pc = "decide" /\ armed
  /\ \E n \in Worst(snap) : alert' = <<[node |-> n, queue |-> snap[n]]>>
  /\ armed' = FALSE /\ fresh' = TRUE
  /\ \E w \in Slots : Spawn(w)
  /\ calm' = (Offenders(heartbeats) = {}) /\ paused' = FALSE /\ wire' = <<>>
  /\ pc' = "pause"
  /\ UNCHANGED <<heartbeats, snap, busy, pause, control>>

(* The snapshot file cannot be written: the OSError leaves check before any *)
(* change and ends the main loop.                                           *)
SnapshotFileFails ==
  /\ pc = "decide" /\ armed /\ Offenders(snap) # {}
  /\ pc' = "stopping"
  /\ UNCHANGED <<heartbeats, snap, busy, armed, fresh, alert, pause, aiVars,
                 worker, control, calm, paused, wire>>

(* analyzing > fresh anomaly > steady state *)
PauseFor(isFresh) ==
  IF aiState = "analyzing" THEN "analyzing"
  ELSE IF isFresh THEN "anomaly" ELSE "refresh"

(* Mutant: consume_fresh is skipped and the flag stays set. *)
ChoosePauseFresh ==
  /\ pc = "pause"
  /\ pause' = PauseFor(fresh)
  /\ paused' = (paused \/ pause' = "anomaly")
  /\ pc' = "snapshot"
  /\ UNCHANGED <<heartbeats, snap, busy, armed, fresh, alert, aiVars, worker,
                 control, calm, wire>>

(* consume_fresh clears the flag whatever pause is chosen. *)
ChoosePause ==
  /\ pc = "pause"
  /\ pause' = PauseFor(fresh)
  /\ fresh' = FALSE
  /\ paused' = (paused \/ pause' = "anomaly")
  /\ pc' = "snapshot"
  /\ UNCHANGED <<heartbeats, snap, busy, armed, alert, aiVars, worker,
                 control, calm, wire>>

(* SIGINT or SIGTERM ends the pause and the loop; the finally block runs,   *)
(* and the process goes away with its daemon threads.                       *)
Signal ==
  /\ pc = "snapshot"
  /\ pc' = "stopping"
  /\ UNCHANGED <<heartbeats, snap, busy, armed, fresh, alert, pause, aiVars,
                 worker, control, calm, paused, wire>>

ProcessEnds ==
  /\ pc = "stopping"
  /\ pc' = "exited"
  /\ UNCHANGED <<heartbeats, snap, busy, armed, fresh, alert, pause, aiVars,
                 worker, control, calm, paused, wire>>

Check == Subsided \/ SameAttack \/ Detect \/ SnapshotFileFails
MainLoop == TakeSnapshot \/ ReadBusy \/ Check \/ ChoosePause

-----------------------------------------------------------------------------
(* The AI worker in slot w. *)

At(w, st) == pc # "exited" /\ worker[w].stage = st

(* The worker goes on to the next thing and has no effect outside. *)
Goes(w, next) ==
  /\ worker' = [worker EXCEPT ![w].stage = next]
  /\ UNCHANGED <<heartbeats, mainVars, aiVars, control, calm, wire>>

(* Imports and API key are there, or an exception ends the worker. *)
StartWorker(w) ==
  At(w, "start") /\ (Goes(w, "analyze") \/ Goes(w, "failing"))

(* run_analyzer: an APIError of the first call is retried once with the     *)
(* fallback model; another exception, or one in the retry, is not caught.   *)
Analyze(w) ==
  \/ At(w, "analyze") /\ (Goes(w, "strategize") \/ Goes(w, "analyze_retry"))
  \/ At(w, "analyze_retry") /\ Goes(w, "strategize")

(* run_strategist does the same; what it returns has the right types and    *)
(* arbitrary values.                                                        *)
Strategize(w) ==
  \/ At(w, "strategize") /\ Goes(w, "strategize_retry")
  \/ /\ At(w, "strategize") \/ At(w, "strategize_retry")
     /\ \E p \in Plans :
          worker' = [worker EXCEPT ![w].stage = "enforce", ![w].plan = <<p>>,
                                   ![w].todo = p.cores]
     /\ UNCHANGED <<heartbeats, mainVars, aiVars, control, calm, wire>>

(* An exception in one of the calls, an answer that does not parse, or      *)
(* _enforce_strategy cannot open its socket.                                *)
CallFails(w) ==
  /\ \/ At(w, "analyze") \/ At(w, "analyze_retry")
     \/ At(w, "strategize") \/ At(w, "strategize_retry")
     \/ At(w, "enforce") /\ worker[w].todo = worker[w].plan[1].cores
  /\ Goes(w, "failing")

(* One core of the plan: its CONTROL packet is sent and it is listed. *)
SendControl(w) ==
  /\ At(w, "enforce") /\ worker[w].todo # <<>>
  /\ LET c == Head(worker[w].todo)
     IN  /\ c \in Known
         /\ control' = control \cup {[to |-> c, block |-> worker[w].plan[1].block]}
         /\ worker' = [worker EXCEPT ![w].todo = Tail(@), ![w].sent = Append(@, c)]
         /\ wire' = Append(wire, c)
  /\ UNCHANGED <<heartbeats, mainVars, aiVars, calm>>

(* Mutant: a core that was skipped is listed all the same. *)
SkipCoreListed(w) ==
  /\ At(w, "enforce") /\ worker[w].todo # <<>>
  /\ worker' = [worker EXCEPT ![w].todo = Tail(@),
                              ![w].sent = Append(@, Head(worker[w].todo))]
  /\ UNCHANGED <<heartbeats, mainVars, aiVars, control, calm, wire>>

(* An id the topology does not have is skipped, and so is a core sendto     *)
(* refuses to send to; neither is listed.                                   *)
SkipCore(w) ==
  /\ At(w, "enforce") /\ worker[w].todo # <<>>
  /\ worker' = [worker EXCEPT ![w].todo = Tail(@)]
  /\ UNCHANGED <<heartbeats, mainVars, aiVars, control, calm, wire>>

(* The result is published under the lock, and the thread ends. *)
PublishDone(w) ==
  /\ At(w, "enforce") /\ worker[w].todo = <<>>
  /\ aiState' = "done" /\ strategy' = worker[w].plan /\ enforced' = worker[w].sent
  /\ worker' = [worker EXCEPT ![w] = NoWorker]
  /\ UNCHANGED <<heartbeats, mainVars, control, calm, wire>>

(* Mutant: the thread dies of the exception without a word. *)
PublishFailedSilently(w) ==
  /\ At(w, "failing")
  /\ worker' = [worker EXCEPT ![w] = NoWorker]
  /\ UNCHANGED <<heartbeats, mainVars, aiVars, control, calm, wire>>

PublishFailed(w) ==
  /\ At(w, "failing")
  /\ aiState' = "failed"
  /\ worker' = [worker EXCEPT ![w] = NoWorker]
  /\ UNCHANGED <<heartbeats, mainVars, strategy, enforced, control, calm, wire>>

Worker(w) ==
  \/ StartWorker(w) \/ Analyze(w) \/ Strategize(w) \/ CallFails(w)
  \/ SendControl(w) \/ SkipCore(w)
  \/ PublishDone(w) \/ PublishFailed(w)

(* The network delivers or loses a CONTROL packet. *)
NetworkTakes(c) ==
  /\ c \in control
  /\ control' = control \ {c}
  /\ UNCHANGED <<heartbeats, mainVars, aiVars, worker, calm, wire>>

-----------------------------------------------------------------------------
Next ==
  \/ MainLoop \/ Signal \/ ProcessEnds
  \/ \E w \in Slots : Worker(w)
  \/ \E n \in Nodes, q \in Levels : ReceiveHeartbeat(n, q)
  \/ \E c \in control : NetworkTakes(c)

Spec == Init /\ [][Next]_vars

(* The main loop and the worker keep running.  The client is created with   *)
(* no timeout, so that every API call returns or raises at last is an       *)
(* assumption about the service.                                            *)
Fairness ==
  /\ WF_vars(MainLoop) /\ WF_vars(ProcessEnds)
  /\ \A w \in Slots : WF_vars(Worker(w))

FairSpec == Spec /\ Fairness

-----------------------------------------------------------------------------
(* Types of every variable. *)
Reports(hbs) == DOMAIN hbs \subseteq Nodes /\ \A n \in DOMAIN hbs : hbs[n] \in Levels
CoreList(l) == l \in Seq(Int)

TypeOK ==
  /\ Reports(heartbeats) /\ Reports(snap)
  /\ pc \in {"snapshot", "busy", "decide", "pause", "stopping", "exited"}
  /\ busy \in BOOLEAN /\ armed \in BOOLEAN /\ fresh \in BOOLEAN
  /\ alert # <<>> => alert[1].node \in Nodes /\ alert[1].queue > Threshold
  /\ pause \in {"analyzing", "anomaly", "refresh"}
  /\ aiState \in {"idle", "analyzing", "done", "failed"}
  /\ strategy # <<>> => strategy[1] \in Plans
  /\ CoreList(enforced) /\ CoreList(wire)
  /\ DOMAIN worker = Slots
  /\ \A w \in Slots : CoreList(worker[w].todo) /\ CoreList(worker[w].sent)
  /\ control \subseteq [to : Known, block : Int]
  /\ calm \in BOOLEAN /\ paused \in BOOLEAN

Active == {w \in Slots : worker[w].stage # "none"}

(* The status the dashboard and check read says exactly whether a worker is *)
(* under way, and there is never a second one: check reads the status in    *)
(* one lock section and acts on it in another (main.py:224-242), while the  *)
(* worker publishes in between.                                             *)
OneWorkerWhileAnalyzing ==
  /\ aiState = "analyzing" <=> Active # {}
  /\ \A v, w \in Active : v = w

(* "one attack produces exactly one analysis + one enforcement cycle"       *)
(* (main.py:154-156): the detector is armed only if since the last          *)
(* detection the heartbeat map was within tolerance at some instant, and no *)
(* worker is under way.  The check looks at a copy of the map that may be   *)
(* out of date by then.                                                     *)
ArmedOnlyAfterCalm == armed => calm /\ Active = {}

(* What the status line says of the last attack is what went over the wire: *)
(* done lists the cores a CONTROL packet was sent to, each of them in the   *)
(* strategy shown, and failed means that none was (main.py:345-383).        *)
ReportIsTruthful ==
  /\ aiState = "done" =>
       /\ enforced = wire /\ strategy # <<>>
       /\ \A i \in DOMAIN enforced :
            \E j \in DOMAIN strategy[1].cores : enforced[i] = strategy[1].cores[j]
  /\ aiState = "failed" => wire = <<>>

(* The long pause for a new alert is taken at most once per detection       *)
(* (main.py:721-725: skipping consume_fresh "would leave the flag set       *)
(* forever and re-trigger the banner pause on every iteration").            *)
AnomalyPauseOnce == [][pc = "pause" /\ pause' = "anomaly" /\ pc' # pc => ~paused]_vars

(* Every analysis comes to an end. *)
AnalysisEnds == aiState = "analyzing" ~> aiState # "analyzing" \/ pc = "exited"

Ended == pc \in {"stopping", "exited"}

(* Once the queues stay within tolerance the detector is ready for the next *)
(* attack (main.py:227-232).                                                *)
RearmsAfterAttack ==
  <>[](heartbeats # <<>> /\ Offenders(heartbeats) = {}) => <>[](armed \/ Ended)

(* An attack that lasts and finds the detector armed, be it there from the  *)
(* beginning or still going on when the detector re-arms, makes a detection *)
(* of its own (main.py:221-242): only a detection disarms.  An attack that  *)
(* begins before the detector has re-armed after the one before is another  *)
(* matter: it is taken for the same one and never analysed.                 *)
LastingAttackDetected ==
  (armed /\ [](Offenders(heartbeats) # {})) ~> (~armed \/ Ended)

(* "When a fresh anomaly is detected, the dashboard freezes the warning     *)
(* banner for this many seconds" (main.py:50-52).                           *)
FreshAlertFreezesBanner ==
  [][pc = "pause" /\ fresh /\ pc' # pc => pause' = "anomaly"]_vars
=============================================================================
