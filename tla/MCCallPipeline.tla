--------------------------- MODULE MCCallPipeline ---------------------------
(* Two sessions of one identity.  The agent's calls differ in their        *)
(* arguments; of the two policies one grants the call.                     *)
EXTENDS CallPipeline, TLC

SessionSymmetry == Permutations(Sessions)
=============================================================================
