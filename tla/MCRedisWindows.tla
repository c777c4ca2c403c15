--------------------------- MODULE MCRedisWindows ---------------------------
(* A message stamped at 2 and the code of the second step, time steps of 2. *)
EXTENDS RedisWindows

MCStamp == [n \in Nonces |-> 2]
MCStepOf == [k \in Codes |-> 1]
=============================================================================
