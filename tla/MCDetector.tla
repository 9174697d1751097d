----------------------------- MODULE MCDetector -----------------------------
(* Two reporting nodes and one core, id 3; 9 is an id the model made up.    *)
EXTENDS Detector

MCPlans == {[block |-> 1, cores |-> <<3, 9>>], [block |-> 1, cores |-> <<9, 3, 3>>]}
MCShortPlan == {[block |-> 1, cores |-> <<3>>]}
=============================================================================
