--------------------------- MODULE DetectorProofs ---------------------------
(***************************************************************************)
(* Proofs about the detector, for any nodes, levels, threshold, plans and  *)
(* room for workers.  One inductive invariant carries three safety         *)
(* properties: besides the properties themselves it says what the main     *)
(* thread's stale copies still guarantee (BusyKnown, CalmKnown) and how    *)
(* far the worker has come with its plan (Progress, WireIsSent).  A second *)
(* one, at the end, has the remaining types and the pauses.                *)
(***************************************************************************)
EXTENDS Detector, SequenceTheorems, TLAPS

Stages == {"none", "start", "analyze", "analyze_retry", "strategize",
           "strategize_retry", "enforce", "failing"}

WorkerState == [stage : Stages, plan : Seq(Plans), todo : Seq(Int), sent : Seq(Int)]

(* The types the argument needs. *)
Typed ==
  /\ worker \in [Slots -> WorkerState]
  /\ pc \in {"snapshot", "busy", "decide", "pause", "stopping", "exited"}
  /\ armed \in BOOLEAN /\ busy \in BOOLEAN /\ calm \in BOOLEAN
  /\ aiState \in {"idle", "analyzing", "done", "failed"}
  /\ strategy \in Seq(Plans)
  /\ enforced \in Seq(Int) /\ wire \in Seq(Int)

(* The main thread alone spawns workers, so "not busy" stays true however   *)
(* old it is.                                                               *)
BusyKnown == pc = "decide" /\ ~busy => Active = {}

(* A copy of the heartbeats without offenders was a calm map once.          *)
CalmKnown ==
  /\ Offenders(heartbeats) = {} => calm
  /\ pc \in {"busy", "decide"} /\ Offenders(snap) = {} => calm

(* Every element of l is one of cores. *)
Among(l, cores) == \A i \in DOMAIN l : \E j \in DOMAIN cores : l[i] = cores[j]

(* A worker that enforces has its plan, and what it sent and what it still  *)
(* has to do are parts of it; before, and when it failed, it sent nothing.  *)
Progress(r) ==
  IF r.stage = "enforce"
    THEN /\ r.plan # <<>>
         /\ Among(r.todo, r.plan[1].cores) /\ Among(r.sent, r.plan[1].cores)
         /\ Len(r.todo) + Len(r.sent) <= Len(r.plan[1].cores)
    ELSE r.sent = <<>>

WorkersProgress == \A w \in Slots : Progress(worker[w])

WireIsSent == \A w \in Active : wire = worker[w].sent

IInv ==
  /\ Typed
  /\ OneWorkerWhileAnalyzing
  /\ ArmedOnlyAfterCalm
  /\ BusyKnown
  /\ CalmKnown
  /\ WorkersProgress
  /\ WireIsSent
  /\ ReportIsTruthful

-----------------------------------------------------------------------------
(* Arithmetic on the lengths of todo, sent and the plan's list. *)
LEMMA NothingLeft ==
  ASSUME NEW a \in Nat, NEW b \in Nat, a + b <= a PROVE b = 0
  OBVIOUS

LEMMA OneFromTheList ==
  ASSUME NEW a \in Nat, NEW b \in Nat, NEW c \in Nat, a + b <= c
  PROVE  (a - 1) + b <= c /\ (a - 1) + (b + 1) <= c
  OBVIOUS

(* The initial state satisfies the invariant. *)
LEMMA InitInv == ASSUME Init PROVE IInv
<1>1. NoWorker \in WorkerState
  BY DEF NoWorker, WorkerState, Stages
<1>2. Typed
  <2>1. worker \in [Slots -> WorkerState]
    BY <1>1 DEF Init
  <2>2. strategy \in Seq(Plans) /\ enforced \in Seq(Int) /\ wire \in Seq(Int)
    BY EmptySeq DEF Init
  <2>3. QED
    BY <2>1, <2>2 DEF Init, Typed
<1>3. Active = {}
  BY DEF Init, Active, NoWorker
<1>4. WorkersProgress
  BY DEF Init, WorkersProgress, Progress, NoWorker
<1>5. QED
  BY <1>2, <1>3, <1>4
  DEF Init, IInv, OneWorkerWhileAnalyzing, ArmedOnlyAfterCalm, BusyKnown,
      CalmKnown, WireIsSent, ReportIsTruthful

(* A step that leaves the workers, the published status and the wire alone  *)
(* keeps what the invariant says of them.                                   *)
LEMMA WorkersUntouched ==
  ASSUME IInv, UNCHANGED <<worker, aiVars, wire>>
  PROVE  /\ Active' = Active
         /\ OneWorkerWhileAnalyzing' /\ WorkersProgress' /\ WireIsSent'
         /\ ReportIsTruthful'
<1>1. Active' = Active
  BY DEF Active
<1>2. OneWorkerWhileAnalyzing'
  BY <1>1 DEF IInv, OneWorkerWhileAnalyzing, aiVars
<1>3. WorkersProgress'
  BY DEF IInv, WorkersProgress
<1>4. WireIsSent'
  BY <1>1 DEF IInv, WireIsSent
<1>5. ReportIsTruthful'
  BY DEF IInv, ReportIsTruthful, aiVars
<1>6. QED
  BY <1>1, <1>2, <1>3, <1>4, <1>5

(* The main loop except for a detection, the receiver and the network.      *)
LEMMA QuietStep ==
  ASSUME IInv,
         \/ TakeSnapshot \/ ReadBusy \/ Subsided \/ SameAttack
         \/ SnapshotFileFails \/ ChoosePause \/ Signal \/ ProcessEnds
         \/ \E n \in Nodes, q \in Levels : ReceiveHeartbeat(n, q)
         \/ \E c \in control : NetworkTakes(c)
  PROVE  IInv'
<1>1. UNCHANGED <<worker, aiVars, wire>>
  BY DEF TakeSnapshot, ReadBusy, Subsided, SameAttack, SnapshotFileFails,
         ChoosePause, Signal, ProcessEnds, ReceiveHeartbeat, NetworkTakes
<1>2. Active' = Active
  BY <1>1, WorkersUntouched
<1>3. Typed'
  <2>1. armed' \in BOOLEAN /\ busy' \in BOOLEAN /\ calm' \in BOOLEAN
    BY DEF IInv, Typed, TakeSnapshot, ReadBusy, Subsided, SameAttack, MayRearm,
           SnapshotFileFails, ChoosePause, Signal, ProcessEnds,
           ReceiveHeartbeat, NetworkTakes, mainVars
  <2>2. pc' \in {"snapshot", "busy", "decide", "pause", "stopping", "exited"}
    BY DEF IInv, Typed, TakeSnapshot, ReadBusy, Subsided, SameAttack,
           SnapshotFileFails, ChoosePause, Signal, ProcessEnds,
           ReceiveHeartbeat, NetworkTakes, mainVars
  <2>3. QED
    BY <1>1, <2>1, <2>2 DEF IInv, Typed, aiVars
<1>4. ArmedOnlyAfterCalm'
  <2>1. CASE Subsided
    BY <2>1, <1>2 DEF IInv, ArmedOnlyAfterCalm, Subsided, BusyKnown, CalmKnown,
                      MayRearm, Typed
  <2>2. CASE ~Subsided
    <3>1. armed' = armed /\ (calm => calm')
      BY <2>2 DEF IInv, Typed, TakeSnapshot, ReadBusy, SameAttack,
           SnapshotFileFails, ChoosePause, Signal, ProcessEnds,
           ReceiveHeartbeat, NetworkTakes, mainVars
    <3>2. QED
      BY <3>1, <1>2 DEF IInv, ArmedOnlyAfterCalm
  <2>3. QED
    BY <2>1, <2>2
<1>5. BusyKnown'
  <2>1. CASE ReadBusy
    BY <2>1, <1>2 DEF ReadBusy, BusyKnown, IInv, OneWorkerWhileAnalyzing
  <2>2. CASE ~ReadBusy
    <3>1. (pc' = "decide" => pc = "decide") /\ busy' = busy
      BY <2>2 DEF IInv, Typed, TakeSnapshot, Subsided, SameAttack,
           SnapshotFileFails, ChoosePause, Signal, ProcessEnds,
           ReceiveHeartbeat, NetworkTakes, mainVars
    <3>2. QED
      BY <3>1, <1>2 DEF IInv, BusyKnown
  <2>3. QED
    BY <2>1, <2>2
<1>6. CalmKnown'
  <2>1. CASE TakeSnapshot
    BY <2>1 DEF TakeSnapshot, IInv, CalmKnown, Offenders
  <2>2. CASE \E n \in Nodes, q \in Levels : ReceiveHeartbeat(n, q)
    <3>1. PICK n \in Nodes, q \in Levels : ReceiveHeartbeat(n, q)
      BY <2>2
    <3>2. pc' = pc /\ snap' = snap /\ calm' = (calm \/ Offenders(heartbeats') = {})
      BY <3>1 DEF ReceiveHeartbeat, mainVars
    <3>3. Offenders(heartbeats)' = Offenders(heartbeats')
      BY DEF Offenders
    <3>4. Offenders(snap)' = Offenders(snap)
      BY <3>2 DEF Offenders
    <3>5. QED
      BY <3>2, <3>3, <3>4 DEF IInv, CalmKnown
  <2>3. CASE /\ ~TakeSnapshot
             /\ ~ \E n \in Nodes, q \in Levels : ReceiveHeartbeat(n, q)
    <3>1. /\ heartbeats' = heartbeats /\ snap' = snap /\ calm' = calm
          /\ pc' \in {"busy", "decide"} => pc \in {"busy", "decide"}
      BY <2>3 DEF ReadBusy, Subsided, SameAttack, SnapshotFileFails,
           ChoosePause, Signal, ProcessEnds, NetworkTakes, mainVars
    <3>2. QED
      BY <3>1 DEF IInv, CalmKnown, Offenders
  <2>4. QED
    BY <2>1, <2>2, <2>3
<1>7. QED
  BY <1>1, <1>3, <1>4, <1>5, <1>6, WorkersUntouched DEF IInv

(* A detection: the detector was armed, so there was no worker.             *)
LEMMA DetectStep == ASSUME IInv, Detect PROVE IInv'
<1>1. Active = {} /\ armed
  BY DEF Detect, IInv, ArmedOnlyAfterCalm
<1>2. PICK w \in Slots : Spawn(w)
  BY DEF Detect
<1>3. /\ worker' = [worker EXCEPT ![w].stage = "start"]
      /\ aiState' = "analyzing" /\ strategy' = <<>> /\ enforced' = <<>>
      /\ worker[w] = NoWorker
  BY <1>2 DEF Spawn
<1>4. /\ armed' = FALSE /\ wire' = <<>> /\ pc' = "pause"
      /\ calm' = (Offenders(heartbeats) = {})
      /\ UNCHANGED <<heartbeats, snap, busy>>
  BY DEF Detect
<1>5. worker'[w] = [NoWorker EXCEPT !.stage = "start"]
  BY <1>3 DEF IInv, Typed
<1>6. \A v \in Slots \ {w} : worker'[v] = worker[v]
  BY <1>3 DEF IInv, Typed
<1>7. worker'[w].stage = "start" /\ worker'[w].sent = <<>>
  BY <1>5 DEF NoWorker
<1>8. Typed'
  <2>1. worker' \in [Slots -> WorkerState]
    BY <1>3 DEF IInv, Typed, WorkerState, Stages
  <2>2. calm' \in BOOLEAN
    BY <1>4
  <2>3. strategy' \in Seq(Plans) /\ enforced' \in Seq(Int) /\ wire' \in Seq(Int)
    BY <1>3, <1>4, EmptySeq
  <2>4. QED
    BY <2>1, <2>2, <2>3, <1>3, <1>4 DEF IInv, Typed
<1>9. Active' = {w}
  BY <1>1, <1>6, <1>7 DEF Active
<1>10. OneWorkerWhileAnalyzing'
  BY <1>3, <1>9 DEF OneWorkerWhileAnalyzing
<1>11. CalmKnown'
  BY <1>4 DEF CalmKnown, Offenders
<1>12. WorkersProgress'
  BY <1>6, <1>7 DEF IInv, WorkersProgress, Progress
<1>13. WireIsSent'
  BY <1>4, <1>7, <1>9 DEF WireIsSent
<1>14. QED
  BY <1>3, <1>4, <1>8, <1>10, <1>11, <1>12, <1>13
  DEF IInv, ArmedOnlyAfterCalm, BusyKnown, ReportIsTruthful

-----------------------------------------------------------------------------
(* A worker that moves is the only one, and nobody else's record changes.   *)
LEMMA OnlyWorker ==
  ASSUME IInv, NEW w \in Slots, worker[w].stage # "none"
  PROVE  Active = {w} /\ aiState = "analyzing" /\ ~armed
  BY DEF IInv, OneWorkerWhileAnalyzing, ArmedOnlyAfterCalm, Active, Typed

(* What a step of one worker has to show: its own record stays in order and *)
(* agrees with the wire while it runs, and the status with what it did.     *)
LEMMA WorkerFrame ==
  ASSUME IInv, NEW w \in Slots, worker[w].stage # "none",
         NEW r \in WorkerState, worker' = [worker EXCEPT ![w] = r],
         UNCHANGED <<heartbeats, mainVars, calm>>,
         Typed', Progress(r),
         r.stage # "none" => wire' = r.sent /\ aiState' = "analyzing",
         r.stage = "none" => aiState' # "analyzing" /\ ReportIsTruthful'
  PROVE  IInv'
<1>1. Active = {w} /\ aiState = "analyzing" /\ ~armed
  BY OnlyWorker
<1>2. worker'[w] = r /\ \A v \in Slots \ {w} : worker'[v] = worker[v]
  BY DEF IInv, Typed
<1>3. Active' = IF r.stage = "none" THEN {} ELSE {w}
  BY <1>1, <1>2 DEF Active
<1>4. OneWorkerWhileAnalyzing'
  BY <1>3 DEF OneWorkerWhileAnalyzing
<1>5. ArmedOnlyAfterCalm' /\ BusyKnown'
  BY <1>1, <1>3 DEF IInv, ArmedOnlyAfterCalm, BusyKnown, mainVars
<1>6. CalmKnown'
  BY DEF IInv, CalmKnown, Offenders, mainVars
<1>7. WorkersProgress'
  BY <1>2 DEF IInv, WorkersProgress
<1>8. WireIsSent'
  BY <1>2, <1>3 DEF WireIsSent
<1>9. ReportIsTruthful'
  BY <1>1 DEF ReportIsTruthful
<1>10. QED
  BY <1>4, <1>5, <1>6, <1>7, <1>8, <1>9 DEF IInv

(* A worker that goes on without having sent anything.                      *)
LEMMA GoesOn ==
  ASSUME IInv, NEW w \in Slots, worker[w].stage # "none",
         worker[w].sent = <<>>,
         NEW next \in Stages \ {"none", "enforce"}, Goes(w, next)
  PROVE  IInv'
<1> DEFINE r == [worker[w] EXCEPT !.stage = next]
<1>1. worker[w] \in WorkerState
  BY DEF IInv, Typed
<1>2. r \in WorkerState /\ r.stage = next /\ r.sent = <<>>
  BY <1>1 DEF WorkerState
<1>3. worker' = [worker EXCEPT ![w] = r]
  BY DEF Goes, IInv, Typed
<1>4. UNCHANGED <<heartbeats, mainVars, aiVars, calm, wire>>
  BY DEF Goes
<1>5. Typed'
  BY <1>2, <1>3, <1>4 DEF IInv, Typed, mainVars, aiVars
<1>6. Progress(r)
  BY <1>2 DEF Progress
<1>7. wire = worker[w].sent /\ aiState = "analyzing"
  BY OnlyWorker DEF IInv, WireIsSent
<1>8. QED
  BY <1>2, <1>3, <1>4, <1>5, <1>6, <1>7, WorkerFrame DEF aiVars

(* The API calls, their retries and their failures. *)
LEMMA CallStep ==
  ASSUME IInv, NEW w \in Slots,
         StartWorker(w) \/ Analyze(w) \/ CallFails(w)
                        \/ (At(w, "strategize") /\ Goes(w, "strategize_retry"))
  PROVE  IInv'
<1>1. worker[w].stage # "none"
  BY DEF StartWorker, Analyze, CallFails, At
<1>2. worker[w] \in WorkerState /\ Progress(worker[w])
  BY DEF IInv, Typed, WorkersProgress
<1>3. worker[w].sent = <<>>
  <2>1. CASE worker[w].stage # "enforce"
    BY <2>1, <1>2 DEF Progress
  <2>2. CASE worker[w].stage = "enforce"
    <3>1. worker[w].todo = worker[w].plan[1].cores
      BY <2>2 DEF StartWorker, Analyze, CallFails, At
    <3>2. Len(worker[w].todo) + Len(worker[w].sent) <= Len(worker[w].todo)
      BY <3>1, <2>2, <1>2 DEF Progress
    <3>3. worker[w].todo \in Seq(Int) /\ worker[w].sent \in Seq(Int)
      BY <1>2 DEF WorkerState
    <3>4. Len(worker[w].todo) \in Nat /\ Len(worker[w].sent) \in Nat
      BY <3>3, LenProperties
    <3>5. Len(worker[w].sent) = 0
      BY <3>2, <3>4, NothingLeft
    <3>6. QED
      BY <3>3, <3>5, EmptySeq
  <2>3. QED
    BY <2>1, <2>2
<1>4. PICK next \in Stages \ {"none", "enforce"} : Goes(w, next)
  BY DEF StartWorker, Analyze, CallFails, Stages
<1>5. QED
  BY <1>1, <1>3, <1>4, GoesOn

(* The strategist answers with one of the plans.                            *)
LEMMA PlanStep ==
  ASSUME IInv, NEW w \in Slots,
         At(w, "strategize") \/ At(w, "strategize_retry"),
         NEW p \in Plans,
         worker' = [worker EXCEPT ![w].stage = "enforce", ![w].plan = <<p>>,
                                  ![w].todo = p.cores],
         UNCHANGED <<heartbeats, mainVars, aiVars, control, calm, wire>>
  PROVE  IInv'
<1> DEFINE r == [worker[w] EXCEPT !.stage = "enforce", !.plan = <<p>>,
                                  !.todo = p.cores]
<1>1. worker[w].stage \notin {"none", "enforce"}
  BY DEF At
<1>2. worker[w] \in WorkerState /\ worker[w].sent = <<>>
  BY <1>1 DEF IInv, Typed, WorkersProgress, Progress
<1>3. p.cores \in Seq(Int)
  BY DetectorAssumption DEF DetectorAssumption
<1>4. /\ r \in WorkerState /\ r.stage = "enforce" /\ r.plan = <<p>>
      /\ r.todo = p.cores /\ r.sent = <<>>
  <2>1. <<p>> \in Seq(Plans)
    OBVIOUS
  <2>2. "enforce" \in Stages
    BY DEF Stages
  <2>3. QED
    BY <1>2, <1>3, <2>1, <2>2 DEF WorkerState
<1>5. worker' = [worker EXCEPT ![w] = r]
  BY DEF IInv, Typed
<1>6. Typed'
  BY <1>4, <1>5 DEF IInv, Typed, mainVars, aiVars
<1>7. Progress(r)
  <2>1. r.plan # <<>> /\ r.plan[1].cores = p.cores
    BY <1>4
  <2>2. Among(p.cores, p.cores) /\ Among(<<>>, p.cores)
    BY DEF Among
  <2>3. Len(p.cores) + Len(<<>>) <= Len(p.cores)
    BY <1>3, LenProperties, EmptySeq
  <2>4. QED
    BY <1>4, <2>1, <2>2, <2>3 DEF Progress
<1>8. wire = worker[w].sent /\ aiState = "analyzing"
  BY <1>1, OnlyWorker DEF IInv, WireIsSent
<1>9. QED
  BY <1>1, <1>2, <1>4, <1>5, <1>6, <1>7, <1>8, WorkerFrame DEF aiVars

(* One core is contacted, or skipped.                                       *)
LEMMA EnforceStep ==
  ASSUME IInv, NEW w \in Slots, SendControl(w) \/ SkipCore(w)
  PROVE  IInv'
<1> DEFINE old == worker[w]
           keeps == [old EXCEPT !.todo = Tail(@)]
           sends == [old EXCEPT !.todo = Tail(@), !.sent = Append(@, Head(old.todo))]
<1>1. old.stage = "enforce" /\ old.todo # <<>>
  BY DEF SendControl, SkipCore, At
<1>2. old \in WorkerState /\ Progress(old)
  BY DEF IInv, Typed, WorkersProgress
<1>3. old.todo \in Seq(Int) /\ old.sent \in Seq(Int) /\ Head(old.todo) \in Int
  BY <1>1, <1>2 DEF WorkerState
<1>4. wire = old.sent /\ aiState = "analyzing"
  BY <1>1, OnlyWorker DEF IInv, WireIsSent
<1>5. PICK cores \in Seq(Int) : cores = old.plan[1].cores
  <2>1. old.plan \in Seq(Plans) /\ old.plan # <<>>
    BY <1>1, <1>2 DEF Progress, WorkerState
  <2>2. Len(old.plan) \in Nat \ {0}
    BY <2>1, EmptySeq
  <2>3. old.plan[1] \in Plans
    BY <2>1, <2>2, ElementOfSeq
  <2>4. QED
    BY <2>3, DetectorAssumption DEF DetectorAssumption
<1>6. /\ Among(old.todo, cores) /\ Among(old.sent, cores)
      /\ Len(old.todo) + Len(old.sent) <= Len(cores) /\ old.plan # <<>>
  BY <1>1, <1>2, <1>5 DEF Progress
<1>7. /\ Among(Tail(old.todo), cores)
      /\ \E j \in DOMAIN cores : Head(old.todo) = cores[j]
      /\ Tail(old.todo) \in Seq(Int) /\ Len(Tail(old.todo)) = Len(old.todo) - 1
  <2>1. /\ Tail(old.todo) \in Seq(Int)
        /\ Len(Tail(old.todo)) = Len(old.todo) - 1
        /\ \A i \in 1 .. Len(Tail(old.todo)) : Tail(old.todo)[i] = old.todo[i + 1]
    BY <1>1, <1>3, HeadTailProperties
  <2>2. /\ DOMAIN old.todo = 1 .. Len(old.todo)
        /\ DOMAIN Tail(old.todo) = 1 .. Len(Tail(old.todo))
        /\ Len(old.todo) \in Nat \ {0}
    BY <1>1, <1>3, <2>1, LenProperties, EmptySeq
  <2>3. \A i \in DOMAIN Tail(old.todo) :
          i + 1 \in DOMAIN old.todo /\ Tail(old.todo)[i] = old.todo[i + 1]
    BY <2>1, <2>2
  <2>4. Among(Tail(old.todo), cores)
    BY <1>6, <2>3 DEF Among
  <2>5. Head(old.todo) = old.todo[1] /\ 1 \in DOMAIN old.todo
    BY <1>3, <2>2
  <2>6. QED
    BY <1>6, <2>1, <2>4, <2>5 DEF Among
<1>8. /\ Append(old.sent, Head(old.todo)) \in Seq(Int)
      /\ Len(Append(old.sent, Head(old.todo))) = Len(old.sent) + 1
      /\ Among(Append(old.sent, Head(old.todo)), cores)
  <2> DEFINE longer == Append(old.sent, Head(old.todo))
  <2>1. /\ longer \in Seq(Int) /\ Len(longer) = Len(old.sent) + 1
        /\ \A i \in 1 .. Len(old.sent) : longer[i] = old.sent[i]
        /\ longer[Len(old.sent) + 1] = Head(old.todo)
    BY <1>3, AppendProperties
  <2>2. /\ DOMAIN old.sent = 1 .. Len(old.sent) /\ Len(old.sent) \in Nat
        /\ DOMAIN longer = 1 .. Len(longer)
    BY <1>3, <2>1, LenProperties
  <2> HIDE DEF longer
  <2>3. \A i \in DOMAIN longer :
          \/ i \in DOMAIN old.sent /\ longer[i] = old.sent[i]
          \/ longer[i] = Head(old.todo)
    BY <2>1, <2>2
  <2>4. ASSUME NEW i \in DOMAIN longer
        PROVE  \E j \in DOMAIN cores : longer[i] = cores[j]
    <3>1. CASE i \in DOMAIN old.sent /\ longer[i] = old.sent[i]
      <4>1. \E j \in DOMAIN cores : old.sent[i] = cores[j]
        BY <1>6, <3>1 DEF Among
      <4>2. QED
        BY <3>1, <4>1
    <3>2. CASE longer[i] = Head(old.todo)
      BY <1>7, <3>2
    <3>3. QED
      BY <2>3, <3>1, <3>2
  <2>5. Among(longer, cores)
    BY <2>4 DEF Among
  <2>6. QED
    BY <2>1, <2>5 DEF longer
<1>9. /\ Len(Tail(old.todo)) + Len(old.sent) <= Len(cores)
      /\ Len(Tail(old.todo)) + (Len(old.sent) + 1) <= Len(cores)
  <2>1. Len(old.todo) \in Nat /\ Len(old.sent) \in Nat /\ Len(cores) \in Nat
    BY <1>3, LenProperties
  <2>2. QED
    BY <1>6, <1>7, <2>1, OneFromTheList
<1>10. UNCHANGED <<heartbeats, mainVars, aiVars, calm>>
  BY DEF SendControl, SkipCore
<1>11. CASE SkipCore(w)
  <2>1. keeps \in WorkerState /\ keeps.stage = "enforce" /\ keeps.plan = old.plan
        /\ keeps.todo = Tail(old.todo) /\ keeps.sent = old.sent
    BY <1>1, <1>2, <1>7 DEF WorkerState
  <2>2. worker' = [worker EXCEPT ![w] = keeps] /\ wire' = wire
    BY <1>11 DEF SkipCore, IInv, Typed
  <2>3. Typed'
    BY <2>1, <2>2, <1>10 DEF IInv, Typed, mainVars, aiVars
  <2>4. Progress(keeps)
    <3>1. /\ Among(keeps.todo, keeps.plan[1].cores)
          /\ Among(keeps.sent, keeps.plan[1].cores)
      BY <2>1, <1>5, <1>6, <1>7
    <3>2. Len(keeps.todo) + Len(keeps.sent) <= Len(keeps.plan[1].cores)
      BY <2>1, <1>5, <1>9
    <3> HIDE DEF keeps
    <3>3. QED
      BY <2>1, <1>6, <3>1, <3>2 DEF Progress
  <2>5. QED
    BY <1>1, <1>4, <1>10, <2>1, <2>2, <2>3, <2>4, WorkerFrame DEF aiVars
<1>12. CASE SendControl(w)
  <2>1. sends \in WorkerState /\ sends.stage = "enforce" /\ sends.plan = old.plan
        /\ sends.todo = Tail(old.todo)
        /\ sends.sent = Append(old.sent, Head(old.todo))
    BY <1>1, <1>2, <1>7, <1>8 DEF WorkerState
  <2>2. /\ worker' = [worker EXCEPT ![w] = sends]
        /\ wire' = Append(wire, Head(old.todo))
    BY <1>12 DEF SendControl, IInv, Typed
  <2>3. Typed'
    <3>1. wire' \in Seq(Int)
      BY <2>2, <1>4, <1>8
    <3>2. QED
      BY <2>1, <2>2, <3>1, <1>10 DEF IInv, Typed, mainVars, aiVars
  <2>4. Progress(sends)
    <3>1. /\ Among(sends.todo, sends.plan[1].cores)
          /\ Among(sends.sent, sends.plan[1].cores)
      BY <2>1, <1>5, <1>7, <1>8
    <3>2. Len(sends.todo) + Len(sends.sent) <= Len(sends.plan[1].cores)
      BY <2>1, <1>5, <1>8, <1>9
    <3> HIDE DEF sends
    <3>3. QED
      BY <2>1, <1>6, <3>1, <3>2 DEF Progress
  <2>5. QED
    BY <1>1, <1>4, <1>10, <2>1, <2>2, <2>3, <2>4, WorkerFrame DEF aiVars
<1>13. QED
  BY <1>11, <1>12

(* The worker publishes what it did and ends.                               *)
LEMMA PublishStep ==
  ASSUME IInv, NEW w \in Slots, PublishDone(w) \/ PublishFailed(w)
  PROVE  IInv'
<1>1. worker[w].stage # "none"
  BY DEF PublishDone, PublishFailed, At
<1>2. worker[w] \in WorkerState /\ Progress(worker[w])
  BY DEF IInv, Typed, WorkersProgress
<1>3. wire = worker[w].sent
  BY <1>1, OnlyWorker DEF IInv, WireIsSent
<1>4. /\ NoWorker \in WorkerState /\ NoWorker.stage = "none"
      /\ Progress(NoWorker)
  BY DEF NoWorker, WorkerState, Stages, Progress
<1>5. /\ worker' = [worker EXCEPT ![w] = NoWorker]
      /\ UNCHANGED <<heartbeats, mainVars, calm, wire>>
  BY DEF PublishDone, PublishFailed
<1>6. CASE PublishDone(w)
  <2>1. /\ aiState' = "done" /\ strategy' = worker[w].plan
        /\ enforced' = worker[w].sent /\ worker[w].stage = "enforce"
    BY <1>6 DEF PublishDone, At
  <2>2. Typed'
    BY <1>2, <1>4, <1>5, <2>1 DEF IInv, Typed, mainVars, WorkerState
  <2>3. ReportIsTruthful'
    BY <1>2, <1>3, <1>5, <2>1 DEF ReportIsTruthful, Progress, Among
  <2>4. QED
    BY <1>1, <1>4, <1>5, <2>1, <2>2, <2>3, WorkerFrame
<1>7. CASE PublishFailed(w)
  <2>1. /\ aiState' = "failed" /\ strategy' = strategy /\ enforced' = enforced
        /\ worker[w].stage = "failing"
    BY <1>7 DEF PublishFailed, At
  <2>2. Typed'
    BY <1>4, <1>5, <2>1 DEF IInv, Typed, mainVars
  <2>3. ReportIsTruthful'
    BY <1>2, <1>3, <1>5, <2>1 DEF ReportIsTruthful, Progress
  <2>4. QED
    BY <1>1, <1>4, <1>5, <2>1, <2>2, <2>3, WorkerFrame
<1>8. QED
  BY <1>6, <1>7

LEMMA WorkerStep == ASSUME IInv, NEW w \in Slots, Worker(w) PROVE IInv'
<1>1. CASE Strategize(w)
  <2>1. CASE At(w, "strategize") /\ Goes(w, "strategize_retry")
    BY <2>1, CallStep
  <2>2. CASE /\ At(w, "strategize") \/ At(w, "strategize_retry")
             /\ \E p \in Plans :
                  worker' = [worker EXCEPT ![w].stage = "enforce",
                               ![w].plan = <<p>>, ![w].todo = p.cores]
             /\ UNCHANGED <<heartbeats, mainVars, aiVars, control, calm, wire>>
    BY <2>2, PlanStep
  <2>3. QED
    BY <1>1, <2>1, <2>2 DEF Strategize
<1>2. CASE ~Strategize(w)
  BY <1>2, CallStep, EnforceStep, PublishStep DEF Worker
<1>3. QED
  BY <1>1, <1>2

(* Every step keeps the invariant.                                          *)
LEMMA NextInv == ASSUME IInv, [Next]_vars PROVE IInv'
<1>1. CASE UNCHANGED vars
  BY <1>1 DEF IInv, Typed, OneWorkerWhileAnalyzing, Active, ArmedOnlyAfterCalm,
              BusyKnown, CalmKnown, Offenders, WorkersProgress, WireIsSent,
              ReportIsTruthful, vars
<1>2. CASE Detect
  BY <1>2, DetectStep
<1>3. CASE \E w \in Slots : Worker(w)
  BY <1>3, WorkerStep
<1>4. CASE Next /\ ~Detect /\ ~ \E w \in Slots : Worker(w)
  BY <1>4, QuietStep DEF Next, MainLoop, Check
<1>5. QED
  BY <1>1, <1>2, <1>3, <1>4

(* The invariant holds in every reachable state of the detector.            *)
THEOREM Invariant == Spec => []IInv
  BY InitInv, NextInv, PTL DEF Spec

(* Whatever the number of nodes and however long the plans: the status says *)
(* "analyzing" exactly while a worker runs, and there is never a second one *)
(* (main.py:224-242).                                                       *)
THEOREM OneWorker == Spec => []OneWorkerWhileAnalyzing
<1>1. IInv => OneWorkerWhileAnalyzing
  BY DEF IInv
<1>2. QED
  BY <1>1, Invariant, PTL

(* The detector is armed only after a calm heartbeat map and with no worker *)
(* under way (main.py:154-156, 227-231).                                    *)
THEOREM ArmedAfterCalm == Spec => []ArmedOnlyAfterCalm
<1>1. IInv => ArmedOnlyAfterCalm
  BY DEF IInv
<1>2. QED
  BY <1>1, Invariant, PTL

(* The status line lists exactly the cores that were contacted, each of     *)
(* them in the strategy, and a failure means that none was                  *)
(* (main.py:345-383).                                                       *)
THEOREM TruthfulReport == Spec => []ReportIsTruthful
<1>1. IInv => ReportIsTruthful
  BY DEF IInv
<1>2. QED
  BY <1>1, Invariant, PTL

-----------------------------------------------------------------------------
(* The rest of the types, and why the long pause comes once: an alert that  *)
(* is still fresh has had no long pause, and the pause that is taken makes  *)
(* it stale.                                                                *)
Rest ==
  /\ Reports(heartbeats) /\ Reports(snap)
  /\ fresh \in BOOLEAN /\ paused \in BOOLEAN
  /\ alert # <<>> => alert[1].node \in Nodes /\ alert[1].queue > Threshold
  /\ pause \in {"analyzing", "anomaly", "refresh"}
  /\ control \subseteq [to : Known, block : Int]

FreshKnown == fresh => ~paused

(* What the worker sends is a block of its plan, to an id that is known.    *)
LEMMA SentTyped ==
  ASSUME IInv, Rest, NEW w \in Slots, SendControl(w)
  PROVE  control' \subseteq [to : Known, block : Int]
<1> DEFINE c == Head(worker[w].todo)
           p == worker[w].plan[1]
<1>1. worker[w] \in WorkerState /\ worker[w].plan # <<>>
  BY DEF IInv, Typed, WorkersProgress, Progress, SendControl, At
<1>2. worker[w].plan \in Seq(Plans)
  BY <1>1 DEF WorkerState
<1>3. p \in Plans
  BY <1>1, <1>2
<1>4. p.block \in Int
  BY <1>3, DetectorAssumption
<1>5. c \in Known /\ control' = control \cup {[to |-> c, block |-> p.block]}
  BY DEF SendControl
<1> QED
  BY <1>4, <1>5 DEF Rest

LEMMA RestInit == ASSUME Init PROVE Rest /\ FreshKnown
<1>1. DOMAIN heartbeats = {} /\ DOMAIN snap = {}
  <2>1. <<>> \in Seq(Int) /\ Len(<<>>) = 0
    BY EmptySeq
  <2>2. \A l \in Seq(Int) : Len(l) = 0 => DOMAIN l = {}
    OBVIOUS
  <2> QED
    BY <2>1, <2>2 DEF Init
<1>2. Reports(heartbeats) /\ Reports(snap)
  BY <1>1, Zenon DEF Reports
<1> QED
  BY <1>2 DEF Init, Rest, FreshKnown

LEMMA RestStep == ASSUME IInv, Rest, FreshKnown, [Next]_vars PROVE Rest' /\ FreshKnown'
<1> USE DEF Rest, FreshKnown, mainVars
<1>1. CASE UNCHANGED vars
  BY <1>1 DEF vars, Reports
<1>2. CASE TakeSnapshot
  BY <1>2 DEF TakeSnapshot, Reports
<1>3. CASE ReadBusy \/ Subsided \/ SameAttack \/ SnapshotFileFails \/ Signal \/ ProcessEnds
  BY <1>3 DEF ReadBusy, Subsided, SameAttack, SnapshotFileFails, Signal,
              ProcessEnds, Reports
<1>4. CASE Detect
  <2>1. PICK n \in Worst(snap) : alert' = <<[node |-> n, queue |-> snap[n]]>>
    BY <1>4 DEF Detect
  <2>2. n \in Nodes /\ snap[n] > Threshold
    BY DEF Worst, Offenders, Reports
  <2>3. alert'[1].node \in Nodes /\ alert'[1].queue > Threshold
    BY <2>1, <2>2
  <2> QED
    BY <1>4, <2>3 DEF Detect, Reports
<1>5. CASE ChoosePause
  BY <1>5 DEF ChoosePause, PauseFor, Reports
<1>6. ASSUME NEW n \in Nodes, NEW q \in Levels, ReceiveHeartbeat(n, q)
      PROVE  Rest' /\ FreshKnown'
  <2>1. Reports(heartbeats)'
    BY <1>6 DEF ReceiveHeartbeat, Reports
  <2> QED
    BY <1>6, <2>1 DEF ReceiveHeartbeat, Reports
<1>7. ASSUME NEW w \in Slots, Worker(w) PROVE Rest' /\ FreshKnown'
  <2>1. UNCHANGED <<heartbeats, mainVars>>
    BY <1>7 DEF Worker, StartWorker, Analyze, Strategize, CallFails, SendControl,
                SkipCore, PublishDone, PublishFailed, Goes
  <2>2. SendControl(w) \/ UNCHANGED control
    BY <1>7 DEF Worker, StartWorker, Analyze, Strategize, CallFails, SkipCore,
                PublishDone, PublishFailed, Goes
  <2>3. control' \subseteq [to : Known, block : Int]
    BY <2>2, SentTyped
  <2> QED
    BY <2>1, <2>3 DEF Reports
<1>8. ASSUME NEW c \in control, NetworkTakes(c) PROVE Rest' /\ FreshKnown'
  BY <1>8 DEF NetworkTakes, Reports
<1> QED
  BY <1>1, <1>2, <1>3, <1>4, <1>5, <1>6, <1>7, <1>8 DEF Next, MainLoop, Check

THEOREM RestInvariant == Spec => [](IInv /\ Rest /\ FreshKnown)
  BY InitInv, NextInv, RestInit, RestStep, PTL DEF Spec

(* Every reachable state of the detector is well typed, whatever the plans  *)
(* the API returns; in particular a status line never names a strategy that *)
(* is none, and no CONTROL goes to an id without a port (main.py:369-380).  *)
THEOREM DetectorTyped == Spec => []TypeOK
<1>1. IInv /\ Rest => TypeOK
  <2> SUFFICES ASSUME IInv, Rest PROVE TypeOK
    OBVIOUS
  <2>1. DOMAIN worker = Slots
    BY DEF IInv, Typed
  <2>2. \A w \in Slots : CoreList(worker[w].todo) /\ CoreList(worker[w].sent)
    BY DEF IInv, Typed, WorkerState, CoreList
  <2>3. strategy # <<>> => strategy[1] \in Plans
    BY DEF IInv, Typed
  <2> QED
    BY <2>1, <2>2, <2>3 DEF IInv, Typed, Rest, TypeOK, CoreList
<1>2. QED
  BY <1>1, RestInvariant, PTL

(* The long pause for a new alert is taken at most once per detection       *)
(* (main.py:721-725, 738-744).                                              *)
THEOREM PauseOnce == Spec => AnomalyPauseOnce
<1>1. IInv /\ Rest /\ FreshKnown /\ [Next]_vars
        => [pc = "pause" /\ pause' = "anomaly" /\ pc' # pc => ~paused]_vars
  <2> SUFFICES ASSUME IInv, FreshKnown, Next, pc = "pause", pause' = "anomaly", pc' # pc
               PROVE  ~paused
    OBVIOUS
  <2>1. ASSUME NEW w \in Slots, Worker(w) PROVE pc' = pc
    BY <2>1 DEF Worker, StartWorker, Analyze, Strategize, CallFails, SendControl,
                SkipCore, PublishDone, PublishFailed, Goes, mainVars
  <2>2. ChoosePause
    BY <2>1 DEF Next, MainLoop, Check, TakeSnapshot, ReadBusy, Subsided, SameAttack,
                Detect, SnapshotFileFails, Signal, ProcessEnds, ReceiveHeartbeat,
                NetworkTakes, mainVars
  <2>3. fresh
    BY <2>2 DEF ChoosePause, PauseFor
  <2> QED
    BY <2>3 DEF FreshKnown
<1>2. QED
  BY <1>1, RestInvariant, PTL DEF Spec, AnomalyPauseOnce
=============================================================================
