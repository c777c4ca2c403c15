---------------------------- MODULE MCListRelay ----------------------------
(* Two sessions of one server, whose list names two tools: each is granted *)
(* by one of the two policies.                                             *)
EXTENDS ListRelay

CONSTANTS t1, t2, s1, s2, i1, i2

MCIds == [s \in Sessions |-> IF s = s1 THEN {i1} ELSE {}]
MCGrants == [e \in 0..MaxSwaps |-> IF e = 0 THEN {t1} ELSE {t2}]
MCOffers == {{t1, t2}}
=============================================================================
