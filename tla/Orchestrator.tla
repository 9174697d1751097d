---------------------------- MODULE Orchestrator ----------------------------
(***************************************************************************)
(* logs/anomaly_snapshot.json between the control plane that writes it     *)
(* (AnomalyDetector._snapshot) and scripts/ai_orchestrator.py that reads   *)
(* it, with whoever runs `make clean-logs' in between.                     *)
(*                                                                         *)
(* A name is one thing and a file another: a rename or an unlink moves or  *)
(* takes a name, and who has the file open keeps it.  A document is some   *)
(* blocks, written and read one at a time; a block is the number of the    *)
(* snapshot it belongs to.                                                 *)
(***************************************************************************)
EXTENDS Integers, Sequences

CONSTANTS
  Blocks,         \* blocks in a document
  MaxSnapshots    \* bound: snapshots taken

ASSUME OrchestratorAssumption == Blocks \in Nat \ {0} /\ MaxSnapshots \in Nat

VARIABLES
  taken,    \* how many snapshots were begun
  files,    \* the files there ever were, each a sequence of blocks
  tmp,      \* what the name anomaly_snapshot.json.tmp stands for, or None
  snap,     \* what the name anomaly_snapshot.json stands for, or None
  wpc,      \* the control plane: "watch", "write", "rename" or "dead"
  out,      \* the file it writes
  cpc,      \* the orchestrator: "start", "open", "read", "key", "analyzer",
            \*   "fallback1", "strategist", "fallback2", "validate" or "ended"
  in,       \* the file it reads
  doc,      \* the blocks it has read
  asked,    \* history: the number of the snapshot that was there when it asked
  code      \* its exit status

vars == <<taken, files, tmp, snap, wpc, out, cpc, in, doc, asked, code>>
writer == <<taken, wpc, out>>
reader == <<cpc, in, doc, asked, code>>

None == 0
Running == -1   \* no exit status yet

Init ==
  /\ taken = 0 /\ files = <<>> /\ tmp = None /\ snap = None
  /\ wpc = "watch" /\ out = None
  /\ cpc = "start" /\ in = None /\ doc = <<>> /\ asked = None
  /\ code = Running

Whole(blocks) == \E v \in 1 .. MaxSnapshots : blocks = [i \in 1 .. Blocks |-> v]

(* The snapshot a name stands for. *)
Version(f) == IF f = None \/ files[f] = <<>> THEN 0 ELSE files[f][1]

-----------------------------------------------------------------------------
(* The control plane *)

(* Mutants: opened to append; and the final name opened. *)
OpenTmpAppends ==
  /\ wpc = "watch" /\ taken < MaxSnapshots
  /\ taken' = taken + 1 /\ wpc' = "write"
  /\ IF tmp = None
     THEN files' = Append(files, <<>>) /\ tmp' = Len(files')
     ELSE files' = files /\ tmp' = tmp
  /\ out' = tmp'
  /\ UNCHANGED <<snap, reader>>
OpenInPlace ==
  /\ wpc = "watch" /\ taken < MaxSnapshots
  /\ taken' = taken + 1 /\ wpc' = "write"
  /\ IF snap = None
     THEN files' = Append(files, <<>>) /\ snap' = Len(files')
     ELSE files' = [files EXCEPT ![snap] = <<>>] /\ snap' = snap
  /\ out' = snap'
  /\ UNCHANGED <<tmp, reader>>

(* A new anomaly: open(tmp, "w") empties the file if there is one. *)
OpenTmp ==
  /\ wpc = "watch" /\ taken < MaxSnapshots
  /\ taken' = taken + 1 /\ wpc' = "write"
  /\ IF tmp = None
     THEN files' = Append(files, <<>>) /\ tmp' = Len(files')
     ELSE files' = [files EXCEPT ![tmp] = <<>>] /\ tmp' = tmp
  /\ out' = tmp'
  /\ UNCHANGED <<snap, reader>>

WriteBlock ==
  /\ wpc = "write"
  /\ files' = [files EXCEPT ![out] = Append(@, taken)]
  /\ wpc' = IF Len(files'[out]) >= Blocks THEN "rename" ELSE wpc
  /\ UNCHANGED <<taken, out, tmp, snap, reader>>

(* replace().  If the name is gone it raises, which ends the control plane. *)
Rename ==
  /\ wpc = "rename"
  /\ IF tmp = None
     THEN wpc' = "dead" /\ UNCHANGED snap
     ELSE wpc' = "watch" /\ snap' = tmp
  /\ tmp' = None
  /\ UNCHANGED <<taken, files, out, reader>>

(* The disk is full, or the control plane is killed. *)
Dies ==
  /\ wpc # "dead" /\ wpc' = "dead"
  /\ UNCHANGED <<taken, out, files, tmp, snap, reader>>

Restart ==
  /\ wpc = "dead" /\ wpc' = "watch"
  /\ UNCHANGED <<taken, out, files, tmp, snap, reader>>

-----------------------------------------------------------------------------
(* make clean-logs removes one name after the other. *)
Clean ==
  /\ \/ tmp # None /\ tmp' = None /\ UNCHANGED snap
     \/ snap # None /\ snap' = None /\ UNCHANGED tmp
  /\ UNCHANGED <<files, writer, reader>>

-----------------------------------------------------------------------------
(* The orchestrator.  An exception nobody catches is exit status 1. *)

EndsWith(status) == cpc' = "ended" /\ code' = status

Ask ==
  /\ cpc = "start"
  /\ asked' = Version(snap)
  /\ IF snap = None THEN EndsWith(1) ELSE cpc' = "open" /\ UNCHANGED code
  /\ UNCHANGED <<in, doc, files, tmp, snap, writer>>

Open ==
  /\ cpc = "open"
  /\ in' = snap
  /\ IF snap = None THEN EndsWith(1) ELSE cpc' = "read" /\ UNCHANGED code
  /\ UNCHANGED <<doc, asked, files, tmp, snap, writer>>

ReadBlock ==
  /\ cpc = "read" /\ Len(doc) < Len(files[in])
  /\ doc' = Append(doc, files[in][Len(doc) + 1])
  /\ UNCHANGED <<cpc, in, asked, code, files, tmp, snap, writer>>

(* The end of the file.  What is no document is not JSON, unless by chance  *)
(* the blocks of two fit together.                                          *)
Decode ==
  /\ cpc = "read" /\ Len(doc) >= Len(files[in])
  /\ \/ Len(doc) = Blocks /\ cpc' = "key" /\ UNCHANGED code
     \/ ~ Whole(doc) /\ EndsWith(1)
  /\ UNCHANGED <<in, doc, asked, files, tmp, snap, writer>>

GetClient ==
  /\ cpc = "key"
  /\ \/ cpc' = "analyzer" /\ UNCHANGED code
     \/ EndsWith(2)
  /\ UNCHANGED <<in, doc, asked, files, tmp, snap, writer>>

(* Mutant: the two models are asked in turn until one of them answers. *)
AfterFailureInsists(pc) ==
  CASE pc = "analyzer" -> "fallback1"
    [] pc = "fallback1" -> "analyzer"
    [] pc = "strategist" -> "fallback2"
    [] pc = "fallback2" -> "strategist"

(* One call of the service.  An APIError of the first is answered by one of *)
(* the fallback model; an error of that one, or any other, ends the run.    *)
AfterAnswer(pc) ==
  IF pc \in {"analyzer", "fallback1"} THEN "strategist" ELSE "validate"
AfterFailure(pc) ==
  CASE pc = "analyzer" -> "fallback1"
    [] pc = "strategist" -> "fallback2"
    [] OTHER -> "ended"

Call ==
  /\ cpc \in {"analyzer", "fallback1", "strategist", "fallback2"}
  /\ \/ cpc' = AfterAnswer(cpc) /\ UNCHANGED code
     \/ /\ cpc' = AfterFailure(cpc)
        /\ code' = IF cpc' = "ended" THEN 1 ELSE code
     \/ EndsWith(1)
  /\ UNCHANGED <<in, doc, asked, files, tmp, snap, writer>>

(* The answer is the plan the schema asks for, or pydantic raises. *)
Validate ==
  /\ cpc = "validate"
  /\ EndsWith(0) \/ EndsWith(1)
  /\ UNCHANGED <<in, doc, asked, files, tmp, snap, writer>>

Cli == Ask \/ Open \/ ReadBlock \/ Decode \/ GetClient \/ Call \/ Validate

Next ==
  \/ OpenTmp \/ WriteBlock \/ Rename \/ Dies \/ Restart
  \/ Clean
  \/ Cli

Spec == Init /\ [][Next]_vars

(* The orchestrator runs, and every call of the service ends, in whatever way. *)
FairSpec == Spec /\ WF_vars(Cli)

-----------------------------------------------------------------------------
(* Whenever control planes are killed and the directory is cleaned, the     *)
(* name anomaly_snapshot.json stands for a complete document or for nothing *)
(* (main.py:281-288).                                                       *)
NeverHalfWritten == snap # None => Whole(files[snap])

AfterRead == {"key", "analyzer", "fallback1", "strategist", "fallback2", "validate"}

(* What the agents are shown is one complete document, not parts of two,    *)
(* and it is no older than the one that was there when the orchestrator     *)
(* asked; and no run succeeds on anything else (ai_orchestrator.py:130-140, *)
(* 243-266; main.py:286-288).                                               *)
WholeAndFresh ==
  cpc \in AfterRead \/ code \in {0, 2}
    => Whole(doc) /\ doc[1] >= asked

(* The orchestrator ends, whatever is written, renamed or removed under it  *)
(* and however often the service fails (ai_orchestrator.py:166-182,         *)
(* 212-226).                                                                *)
OrchestratorEnds == <>(cpc = "ended")
=============================================================================
