--------------------------- MODULE MCOrchestrator ---------------------------
(* Two blocks, so that a document can be half there, and three snapshots:   *)
(* one to find, one to replace it, and one begun over the remains of a      *)
(* control plane that was killed.                                           *)
EXTENDS Orchestrator

=============================================================================
