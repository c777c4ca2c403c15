-------------------------- MODULE MCSessionManager --------------------------
(* Two sessions: one can be idle, torn down or stuck while the other is     *)
(* created, swept or shut down.                                             *)
EXTENDS SessionManager

CONSTANTS s1, s2
=============================================================================
