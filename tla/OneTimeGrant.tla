---------------------------- MODULE OneTimeGrant ----------------------------
(***************************************************************************)
(* What a human approval promises (services/gateway/approvals.py), with no *)
(* mention of rows, locks, audit writes or retries: a held call can be     *)
(* granted once, a grant can be spent once, a spent grant lets at most one *)
(* call through, and a grant that lapsed or was spent stays useless.       *)
(***************************************************************************)
EXTENDS Naturals

CONSTANT Ids

VARIABLES
  grant,  \* grant[i]: where the approval is in its life
  uses    \* uses[i]: the calls forwarded on its account

(* Held calls outlive the gateway that held them.                          *)
Init ==
  /\ grant \in [Ids -> {"none", "held"}]
  /\ uses = [i \in Ids |-> 0]

Step(i, from, to) ==
  /\ grant[i] = from
  /\ grant' = [grant EXCEPT ![i] = to]
  /\ UNCHANGED uses

Hold(i)  == Step(i, "none", "held")
Grant(i) == Step(i, "held", "granted")
Spend(i) == Step(i, "granted", "spent")

(* The time of a grant runs out unseen while a transaction holds it: what  *)
(* ends the transactions ends several grants at once.                      *)
Lapse(I) ==
  /\ \A i \in I : grant[i] \in {"held", "granted"}
  /\ grant' = [i \in Ids |-> IF i \in I THEN "void" ELSE grant[i]]
  /\ UNCHANGED uses

Use(i) ==
  /\ grant[i] = "spent"
  /\ uses[i] = 0
  /\ uses' = [uses EXCEPT ![i] = 1]
  /\ UNCHANGED grant

Next ==
  \/ \E i \in Ids : Hold(i) \/ Grant(i) \/ Spend(i) \/ Use(i)
  \/ \E I \in SUBSET Ids : Lapse(I)

Spec == Init /\ [][Next]_<<grant, uses>>

(* A grant lets one call through at most, and none before it is spent.     *)
UsedOnceSpent == \A i \in Ids : uses[i] = 0 \/ (uses[i] = 1 /\ grant[i] = "spent")
=============================================================================
