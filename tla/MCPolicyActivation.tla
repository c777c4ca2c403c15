------------------------ MODULE MCPolicyActivation ------------------------
EXTENDS PolicyActivation, TLC

TaskSymmetry == Permutations(Tasks)
=============================================================================
