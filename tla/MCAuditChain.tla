---------------------------- MODULE MCAuditChain ----------------------------
(* Small instances of AuditChain with one gateway process; the theorems of  *)
(* AuditProofs say what holds of any number of them.                       *)
EXTENDS AuditChain

CONSTANTS g1, e1, e2, e3

OneHome == [e \in {e1, e2, e3} |-> g1]
=============================================================================
