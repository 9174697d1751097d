---------------------------- MODULE MCMitigation ----------------------------
(* Attacker 1, victim 2 and the core 3 on the way; 9 does not exist.        *)
EXTENDS Mitigation

(* A good plan, one with a made-up core, one that blocks nobody. *)
MCPlans == {[block |-> 1, cores |-> <<9, 3>>], [block |-> 0, cores |-> <<3>>]}
MCGoodPlan == {[block |-> 1, cores |-> <<3>>]}

(* The schema admits any list of integers: here the victim, an edge node. *)
MCEdgePlan == {[block |-> 1, cores |-> <<2>>]}
=============================================================================
