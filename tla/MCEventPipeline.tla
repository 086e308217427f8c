--------------------------- MODULE MCEventPipeline ---------------------------
(* EventPipeline for TLC: what callers report, at the severities the tests use. *)
EXTENDS EventPipeline, TLC

Reported ==
  {[type |-> "AUTHENTICATION_FAILURE", severity |-> 30],
   [type |-> "REPLAY_DETECTED", severity |-> 30],
   [type |-> "SOURCE_ANOMALY", severity |-> 40],
   [type |-> "NOISE", severity |-> 20],
   [type |-> "NOISE", severity |-> 50]}

Symmetry == Permutations(Sources)
=============================================================================
