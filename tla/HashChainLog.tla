---------------------------- MODULE HashChainLog ----------------------------
(***************************************************************************)
(* What the gateway's audit log promises its readers, with no mention of   *)
(* Redis, Postgres, locks or retries: one history of events that is only   *)
(* ever extended at its end, and callers that are told "recorded" only for *)
(* events of that history.                                                 *)
(***************************************************************************)
EXTENDS SequencesExt

CONSTANT Events

VARIABLES
  chain,   \* the history the newest chained row's hash commits to
  acked    \* the events whose writer was told "recorded"

Init == chain = <<>> /\ acked = {}

(* The history grows at its end.  It may grow by more than the event being *)
(* written: a row whose write failed half way can still be adopted.        *)
Extend ==
  /\ IsStrictPrefix(chain, chain')
  /\ acked' = acked

(* A writer is told "recorded" for an event of the history.                *)
Acknowledge ==
  \E e \in Events \ acked :
    /\ e \in ToSet(chain')
    /\ IsPrefix(chain, chain')
    /\ acked' = acked \union {e}

Next == Extend \/ Acknowledge

Spec == Init /\ [][Next]_<<chain, acked>>

(* No acknowledged event ever leaves the history.                          *)
AckedOnChain == acked \subseteq ToSet(chain)
=============================================================================
