-------------------------- MODULE MCAuditVerifier --------------------------
(* One gateway process that writes, and the verifiers beside it.           *)
EXTENDS AuditVerifier

CONSTANT g1

OneHome == [e \in Events |-> g1]
=============================================================================
