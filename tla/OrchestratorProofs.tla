------------------------- MODULE OrchestratorProofs -------------------------
(***************************************************************************)
(* That nobody ever finds half a snapshot, for documents of any length and *)
(* any number of control planes killed while they wrote one.               *)
(*                                                                         *)
(* The argument: a file that once had the final name is never written      *)
(* again, for the file that is being written is neither the one with the   *)
(* final name nor one the orchestrator has open.                           *)
(***************************************************************************)
EXTENDS Orchestrator, SequenceTheorems, TLAPS

Typed ==
  /\ taken \in 0 .. MaxSnapshots
  /\ files \in Seq(Seq(Nat))
  /\ tmp \in 0 .. Len(files) /\ snap \in 0 .. Len(files)
  /\ out \in 0 .. Len(files) /\ in \in 0 .. Len(files)
  /\ wpc \in {"watch", "write", "rename", "dead"}
  /\ cpc \in {"start", "open", "read", "ended"} \cup AfterRead
  /\ doc \in Seq(Nat) /\ asked \in 0 .. taken

(* All blocks of the text belong to snapshot v. *)
AllOf(text, v) == \A i \in 1 .. Len(text) : text[i] = v

(* A file under the final name is complete and is not the one being staged. *)
Named ==
  snap # None =>
    /\ snap # tmp /\ Len(files[snap]) = Blocks
    /\ \E v \in 1 .. taken : AllOf(files[snap], v)

(* The file being written has blocks of the snapshot being taken only, and  *)
(* neither it nor what the staging name stands for is being read.           *)
Staged ==
  wpc \in {"write", "rename"} =>
    /\ out # None /\ out # snap /\ tmp \in {None, out}
    /\ taken > 0 /\ AllOf(files[out], taken)
    /\ wpc = "write" => Len(files[out]) < Blocks
    /\ wpc = "rename" => Len(files[out]) = Blocks

(* What is being read is complete, and what was read is the start of it.    *)
Reading ==
  /\ cpc \in {"start", "open"} => doc = <<>>
  /\ cpc = "read" =>
       /\ in # None /\ in # tmp
       /\ wpc \in {"write", "rename"} => in # out
       /\ Len(files[in]) = Blocks /\ Len(doc) <= Blocks
       /\ \E v \in 1 .. MaxSnapshots :
            v >= asked /\ AllOf(files[in], v) /\ AllOf(doc, v)

(* What is under the final name does not get older. *)
Newer == cpc = "open" /\ snap # None => files[snap][1] >= asked

(* The orchestrator has no exit status before it ends. *)
Outcome ==
  /\ cpc # "ended" => code = Running
  /\ cpc \in AfterRead \/ code \in {0, 2} =>
       /\ Len(doc) = Blocks
       /\ \E v \in 1 .. MaxSnapshots : v >= asked /\ AllOf(doc, v)

IInv ==
  /\ Typed
  /\ Named
  /\ Staged
  /\ Reading
  /\ Newer
  /\ Outcome

-----------------------------------------------------------------------------
(* A complete document is one of the right length and of one snapshot. *)
LEMMA WholeText ==
  ASSUME NEW text \in Seq(Nat), Len(text) = Blocks,
         NEW v \in 1 .. MaxSnapshots, AllOf(text, v)
  PROVE  Whole(text) /\ text[1] = v
<1>1. text = [i \in 1 .. Blocks |-> v]
  BY DEF AllOf
<1> QED
  BY <1>1, OrchestratorAssumption DEF Whole, AllOf

LEMMA InitHolds == Init => IInv
  BY OrchestratorAssumption DEF Init, IInv, Typed, Named, Staged, Reading, Newer,
     Outcome, None, Running, AfterRead, AllOf

(* The first block goes with the others. *)
LEMMA FirstBlock ==
  ASSUME NEW text \in Seq(Nat), Len(text) = Blocks, NEW v, AllOf(text, v)
  PROVE  text[1] = v
  BY OrchestratorAssumption DEF AllOf

(* A text of one snapshot with one more block of it. *)
LEMMA AppendedAll ==
  ASSUME NEW text \in Seq(Nat), NEW v \in Nat, AllOf(text, v)
  PROVE  Len(Append(text, v)) = Len(text) + 1 /\ AllOf(Append(text, v), v)
<1>1. /\ Len(Append(text, v)) = Len(text) + 1 /\ Len(text) \in Nat
      /\ Append(text, v)[Len(text) + 1] = v
      /\ \A i \in 1 .. Len(text) : Append(text, v)[i] = text[i]
  BY AppendProperties
<1>2. SUFFICES ASSUME NEW i \in 1 .. Len(text) + 1 PROVE Append(text, v)[i] = v
  BY <1>1 DEF AllOf
<1>3. CASE i \in 1 .. Len(text)
  BY <1>1, <1>3 DEF AllOf
<1>4. CASE i = Len(text) + 1
  BY <1>1, <1>4
<1> QED
  BY <1>1, <1>3, <1>4

(* A new, empty file for the staging name, or the old one emptied. *)
LEMMA OpenTmpHolds == IInv /\ OpenTmp => IInv'
<1> SUFFICES ASSUME IInv, OpenTmp PROVE IInv'
  OBVIOUS
<1> USE DEF None
<1>1. /\ files' \in Seq(Seq(Nat)) /\ Len(files') >= Len(files)
      /\ tmp' \in 1 .. Len(files') /\ files'[tmp'] = <<>>
      /\ \A f \in 1 .. Len(files) : f # tmp' => files'[f] = files[f]
      /\ tmp' = tmp \/ tmp' > Len(files)
  <2> USE DEF IInv, Typed
  <2>1. CASE tmp = None
    <3>1. files' = Append(files, <<>>) /\ tmp' = Len(files')
      BY <2>1 DEF OpenTmp
    <3> QED
      BY <2>1, <3>1, AppendProperties, <<>> \in Seq(Nat)
  <2>2. CASE tmp # None
    <3>1. files' = [files EXCEPT ![tmp] = <<>>] /\ tmp' = tmp
      BY <2>2 DEF OpenTmp
    <3> QED
      BY <2>2, <3>1, ExceptSeq, <<>> \in Seq(Nat)
  <2> QED
    BY <2>1, <2>2
<1>2. /\ out' = tmp' /\ snap' = snap /\ wpc' = "write"
      /\ taken' = taken + 1 /\ taken' \in 1 .. MaxSnapshots
      /\ cpc' = cpc /\ in' = in /\ doc' = doc /\ asked' = asked /\ code' = code
  BY OrchestratorAssumption DEF OpenTmp, reader, IInv, Typed
<1>3. /\ snap # None => snap # tmp' /\ files'[snap] = files[snap]
      /\ cpc = "read" => in # None /\ in # tmp' /\ files'[in] = files[in]
  <2>1. snap \in 0 .. Len(files) /\ in \in 0 .. Len(files) /\ Len(files) \in Nat
    BY DEF IInv, Typed
  <2>2. (snap # None => snap # tmp) /\ (cpc = "read" => in # None /\ in # tmp)
    BY DEF IInv, Named, Reading
  <2> QED
    BY <1>1, <2>1, <2>2
<1>4. Typed'
  <2>1. Len(files) \in Nat /\ Len(files') \in Nat
    BY <1>1, LenProperties DEF IInv, Typed
  <2>2. snap' \in 0 .. Len(files') /\ in' \in 0 .. Len(files')
    <3>1. snap \in 0 .. Len(files) /\ in \in 0 .. Len(files)
      BY DEF IInv, Typed
    <3> QED
      BY <1>1, <1>2, <2>1, <3>1
  <2>3. taken' \in 0 .. MaxSnapshots /\ asked' \in 0 .. taken'
    BY <1>2, OrchestratorAssumption DEF IInv, Typed
  <2> QED
    BY <1>1, <1>2, <2>1, <2>2, <2>3 DEF IInv, Typed
<1>5. Staged'
  BY <1>1, <1>2, <1>3, OrchestratorAssumption DEF Staged, AllOf
<1>6. Named'
  <2>1. 1 .. taken \subseteq 1 .. taken'
    BY <1>2, OrchestratorAssumption DEF IInv, Typed
  <2> QED
    BY <1>2, <1>3, <2>1 DEF IInv, Named
<1>7. Newer'
  BY <1>2, <1>3 DEF IInv, Newer
<1>8. Reading'
  BY <1>2, <1>3 DEF IInv, Reading
<1>9. Outcome'
  BY <1>2 DEF IInv, Outcome
<1> QED
  BY <1>4, <1>5, <1>6, <1>7, <1>8, <1>9 DEF IInv

LEMMA WriteBlockHolds == IInv /\ WriteBlock => IInv'
<1> SUFFICES ASSUME IInv, WriteBlock PROVE IInv'
  OBVIOUS
<1> USE DEF None
<1>1. /\ out \in 1 .. Len(files) /\ files[out] \in Seq(Nat) /\ taken \in Nat
      /\ files' = [files EXCEPT ![out] = Append(files[out], taken)]
  BY DEF WriteBlock, IInv, Typed, Staged
<1>2. /\ files'[out] = Append(files[out], taken)
      /\ files' \in Seq(Seq(Nat)) /\ Len(files') = Len(files)
      /\ \A f \in 1 .. Len(files) : f # out => files'[f] = files[f]
  <2>1. Append(files[out], taken) \in Seq(Nat)
    BY <1>1, AppendProperties
  <2> QED
    BY <1>1, <2>1, ExceptSeq DEF IInv, Typed
<1>3. Len(files'[out]) = Len(files[out]) + 1 /\ AllOf(files'[out], taken)
  <2>1. AllOf(files[out], taken)
    BY DEF WriteBlock, IInv, Staged
  <2> QED
    BY <1>1, <1>2, <2>1, AppendedAll
<1>4. /\ wpc = "write" /\ Len(files[out]) < Blocks
      /\ wpc' = IF Len(files'[out]) >= Blocks THEN "rename" ELSE wpc
      /\ out' = out /\ snap' = snap /\ tmp' = tmp /\ taken' = taken
      /\ cpc' = cpc /\ in' = in /\ doc' = doc /\ asked' = asked /\ code' = code
  BY DEF WriteBlock, reader, IInv, Staged
<1>5. /\ snap # None => out # snap /\ files'[snap] = files[snap]
      /\ cpc = "read" => in # out /\ files'[in] = files[in]
  <2>1. snap \in 0 .. Len(files) /\ in \in 0 .. Len(files) /\ Len(files) \in Nat
    BY DEF IInv, Typed
  <2>2. (snap # None => snap # out) /\ (cpc = "read" => in # None /\ in # out)
    BY <1>4 DEF IInv, Staged, Reading
  <2> QED
    BY <1>2, <2>1, <2>2
<1>6. Typed'
  BY <1>2, <1>4 DEF IInv, Typed
<1>7. Staged'
  BY <1>1, <1>2, <1>3, <1>4, OrchestratorAssumption DEF IInv, Staged, AllOf
<1>8. Named'
  BY <1>4, <1>5 DEF IInv, Named
<1>9. Newer'
  BY <1>4, <1>5 DEF IInv, Newer
<1>10. Reading'
  BY <1>4, <1>5 DEF IInv, Reading
<1>11. Outcome'
  BY <1>4 DEF IInv, Outcome
<1> QED
  BY <1>6, <1>7, <1>8, <1>9, <1>10, <1>11 DEF IInv

LEMMA RenameHolds == IInv /\ Rename => IInv'
<1> SUFFICES ASSUME IInv, Rename PROVE IInv'
  OBVIOUS
<1> USE DEF None
<1>1. /\ wpc = "rename" /\ out' = out /\ files' = files /\ taken' = taken /\ tmp' = None
      /\ cpc' = cpc /\ in' = in /\ doc' = doc /\ asked' = asked /\ code' = code
      /\ tmp = None => wpc' = "dead" /\ snap' = snap
      /\ tmp # None => wpc' = "watch" /\ snap' = out
  BY DEF Rename, reader, IInv, Staged
<1>2. /\ out # None /\ taken \in 1 .. taken /\ AllOf(files[out], taken)
      /\ Len(files[out]) = Blocks /\ files[out] \in Seq(Nat)
      /\ asked <= taken /\ files[out][1] = taken
  <2>1. /\ out # None /\ taken > 0 /\ AllOf(files[out], taken)
        /\ Len(files[out]) = Blocks
    BY <1>1 DEF IInv, Staged
  <2>2. taken \in Nat /\ asked \in 0 .. taken /\ files[out] \in Seq(Nat)
    BY <2>1, OrchestratorAssumption DEF IInv, Typed
  <2>3. files[out][1] = taken
    BY <2>1, <2>2, FirstBlock
  <2> QED
    BY <2>1, <2>2, <2>3
<1>3. Typed' /\ Staged'
  BY <1>1 DEF IInv, Typed, Staged
<1>4. Named'
  BY <1>1, <1>2 DEF IInv, Named
<1>5. Newer'
  <2>1. taken \in Nat /\ asked \in 0 .. taken
    BY OrchestratorAssumption DEF IInv, Typed
  <2> QED
    BY <1>1, <1>2, <2>1 DEF IInv, Newer
<1>6. Reading' /\ Outcome'
  BY <1>1 DEF IInv, Reading, Outcome
<1> QED
  BY <1>3, <1>4, <1>5, <1>6 DEF IInv

(* A death, a restart or a cleaning only takes names and duties away. *)
LEMMA OthersHold == IInv /\ (Dies \/ Restart \/ Clean) => IInv'
<1> SUFFICES ASSUME IInv, Dies \/ Restart \/ Clean PROVE IInv'
  OBVIOUS
<1> USE DEF None
<1>1. /\ out' = out /\ files' = files /\ taken' = taken
      /\ cpc' = cpc /\ in' = in /\ doc' = doc /\ asked' = asked /\ code' = code
      /\ wpc' \in {"dead", "watch"} \/ wpc' = wpc
      /\ tmp' \in {None, tmp} /\ snap' \in {None, snap}
  BY DEF Dies, Restart, Clean, reader, writer
<1>2. Typed'
  BY <1>1 DEF IInv, Typed, Dies, Restart, Clean
<1>3. Named' /\ Newer'
  BY <1>1 DEF IInv, Named, Newer
<1>4. Staged'
  BY <1>1 DEF IInv, Staged
<1>5. Reading' /\ Outcome'
  BY <1>1 DEF IInv, Reading, Outcome
<1> QED
  BY <1>2, <1>3, <1>4, <1>5 DEF IInv

LEMMA CliHolds == IInv /\ Cli => IInv'
<1> SUFFICES ASSUME IInv, Cli PROVE IInv'
  OBVIOUS
<1> USE DEF IInv, Typed, None, Running, EndsWith, AfterRead
<1>1. UNCHANGED <<files, tmp, snap, taken, wpc, out>>
  BY DEF Cli, Ask, Open, ReadBlock, Decode, GetClient, Call, Validate, writer
<1>2. Named' /\ Staged'
  BY <1>1 DEF Named, Staged, AllOf
<1>3. CASE Ask
  <2>1. asked' \in 0 .. taken /\ (snap # None => asked' = files[snap][1])
    BY <1>3, FirstBlock, OrchestratorAssumption DEF Ask, Version, Named
  <2> QED
    BY <1>1, <1>2, <1>3, <2>1 DEF Ask, Reading, Newer, Outcome
<1>4. CASE Open
  <2>1. CASE snap = None
    BY <1>1, <1>2, <1>4, <2>1 DEF Open, Reading, Newer, Outcome
  <2>2. CASE snap # None
    <3>1. PICK v \in 1 .. taken : AllOf(files[snap], v)
      BY <2>2 DEF Named
    <3>2. v >= asked
      BY <1>4, <2>2, <3>1, FirstBlock DEF Open, Named, Newer
    <3>3. /\ cpc' = "read" /\ in' = snap /\ doc' = <<>> /\ asked' = asked
          /\ in' # tmp /\ Len(files[snap]) = Blocks
          /\ wpc \in {"write", "rename"} => in' # out
          /\ v \in 1 .. MaxSnapshots
      BY <1>4, <2>2, OrchestratorAssumption DEF Open, Named, Staged, Reading
    <3>4. AllOf(<<>>, v) /\ Len(<<>>) <= Blocks
      BY OrchestratorAssumption DEF AllOf
    <3>5. Reading'
      BY <1>1, <2>2, <3>1, <3>2, <3>3, <3>4 DEF Reading
    <3> QED
      BY <1>1, <1>2, <1>4, <2>2, <3>3, <3>5 DEF Open, Newer, Outcome
  <2> QED
    BY <2>1, <2>2
<1>5. CASE ReadBlock
  <2>1. /\ files[in] \in Seq(Nat) /\ Len(doc) + 1 \in 1 .. Len(files[in])
        /\ doc' = Append(doc, files[in][Len(doc) + 1])
    BY <1>5 DEF ReadBlock, Reading
  <2>2. doc' \in Seq(Nat) /\ Len(doc') = Len(doc) + 1
    <3>1. files[in][Len(doc) + 1] \in Nat
      BY <2>1, ElementOfSeq
    <3> QED
      BY <2>1, <3>1, AppendProperties
  <2>3. Reading'
    <3>1. PICK v \in 1 .. MaxSnapshots :
            v >= asked /\ AllOf(files[in], v) /\ AllOf(doc, v)
      BY <1>5 DEF ReadBlock, Reading
    <3>2. AllOf(doc', v)
      <4>1. files[in][Len(doc) + 1] = v
        BY <2>1, <3>1 DEF AllOf
      <4> QED
        BY <2>1, <3>1, <4>1, AppendedAll
    <3> QED
      BY <1>1, <1>5, <2>1, <2>2, <3>1, <3>2 DEF ReadBlock, Reading
  <2> QED
    BY <1>1, <1>2, <1>5, <2>2, <2>3 DEF ReadBlock, Newer, Outcome
<1>6. CASE Decode
  <2>1. Len(doc) = Blocks
    BY <1>6 DEF Decode, Reading
  <2>2. PICK v \in 1 .. MaxSnapshots : v >= asked /\ AllOf(doc, v)
    BY <1>6 DEF Decode, Reading
  <2>3. cpc' = "key" /\ UNCHANGED <<code, in, doc, asked>>
    BY <1>6, <2>1, <2>2, WholeText DEF Decode
  <2> QED
    BY <1>1, <1>2, <1>6, <2>1, <2>2, <2>3 DEF Decode, Reading, Newer, Outcome
<1>7. CASE GetClient
  BY <1>1, <1>2, <1>7 DEF GetClient, Reading, Newer, Outcome
<1>8. CASE Call
  BY <1>1, <1>2, <1>8 DEF Call, AfterAnswer, AfterFailure, Reading, Newer, Outcome
<1>9. CASE Validate
  BY <1>1, <1>2, <1>9 DEF Validate, Reading, Newer, Outcome
<1> QED
  BY <1>3, <1>4, <1>5, <1>6, <1>7, <1>8, <1>9 DEF Cli

LEMMA Inductive == Spec => []IInv
<1>1. IInv /\ [Next]_vars => IInv'
  <2>1. IInv /\ UNCHANGED vars => IInv'
    BY DEF vars, IInv, Typed, Named, Staged, Reading, Newer, Outcome, AllOf
  <2> QED
    BY <2>1, OpenTmpHolds, WriteBlockHolds, RenameHolds, OthersHold, CliHolds
    DEF Next
<1> QED
  BY <1>1, InitHolds, PTL DEF Spec

-----------------------------------------------------------------------------
(* The name anomaly_snapshot.json stands for a complete document or for     *)
(* nothing, whenever a control plane is killed or the directory cleaned     *)
(* (main.py:281-288).                                                       *)
THEOREM NeverHalf == Spec => []NeverHalfWritten
<1>1. IInv => NeverHalfWritten
  <2> SUFFICES ASSUME IInv, snap # None PROVE Whole(files[snap])
    BY DEF NeverHalfWritten
  <2>1. PICK v \in 1 .. taken : AllOf(files[snap], v)
    BY DEF IInv, Named
  <2>2. v \in 1 .. MaxSnapshots /\ files[snap] \in Seq(Nat)
    BY OrchestratorAssumption DEF IInv, Typed, None
  <2>3. Len(files[snap]) = Blocks
    BY DEF IInv, Named
  <2> QED
    BY <2>1, <2>2, <2>3, WholeText
<1> QED
  BY <1>1, Inductive, PTL

(* The agents are shown one complete document, no older than the one the    *)
(* orchestrator asked about (ai_orchestrator.py:130-140, 243-266).          *)
THEOREM ReadsOneSnapshot == Spec => []WholeAndFresh
<1>1. IInv => WholeAndFresh
  BY WholeText DEF IInv, Typed, Outcome, WholeAndFresh, AfterRead
<1> QED
  BY <1>1, Inductive, PTL
=============================================================================
