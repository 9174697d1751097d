---------------------------- MODULE MCLifecycle ----------------------------
(* Three nodes: some may be spawned, some crashed and some stuck at once.   *)
EXTENDS Lifecycle

=============================================================================
