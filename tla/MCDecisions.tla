---------------------------- MODULE MCDecisions ----------------------------
(* One tool under three revisions: the first grants it without conditions, *)
(* the second asks for office hours, then for a low score and a team that  *)
(* nothing binds, the third denies it before it would allow it.            *)
EXTENDS Decisions, TLC

Wide == [matches |-> TRUE, allowed_tools |-> Tools, denied_tools |-> {}, conditions |-> <<>>]

Elsewhere == [Wide EXCEPT !.matches = FALSE]

Denying == [Wide EXCEPT !.allowed_tools = {}, !.denied_tools = Tools]

Narrow ==
  [Wide EXCEPT !.conditions =
    <<[paths |-> {"context.hour"}, below |-> 0],
      [paths |-> {"risk.score"}, below |-> 60],
      [paths |-> {"risk.score", "identity.team"}, below |-> 101]>>]

MCPolicy ==
  1 :> [known |-> TRUE, attributes |-> {}, grants |-> <<Wide>>,
        tool_sensitivity |-> [t \in Tools |-> "high"], protected |-> {"repo"}]
  @@
  2 :> [known |-> TRUE, attributes |-> {}, grants |-> <<Elsewhere, Narrow, Wide>>,
        tool_sensitivity |-> [t \in Tools |-> "low"], protected |-> {"repo"}]
  @@
  3 :> [known |-> TRUE, attributes |-> {}, grants |-> <<Denying, Wide>>,
        tool_sensitivity |-> [t \in Tools |-> "none"], protected |-> {}]

MCStress == <<3, 1, 0, 0>>
=============================================================================
