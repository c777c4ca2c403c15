-------------------------- MODULE MCDriftDetector --------------------------
(* A small server: two tool names; three definitions of which one is only  *)
(* a mild change of the first and another one is flagged by the scan.      *)
EXTENDS DriftDetector, TLC

CONSTANTS d0, d1, d2

MildChanges == {<<d0, d1>>, <<d1, d0>>}
CallSymmetry == Permutations(Calls) 
=============================================================================
