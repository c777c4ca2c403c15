------------------------------ MODULE RiskScore ------------------------------
(***************************************************************************)
(* The arithmetic of the risk engine (services/gateway/risk_engine.py):    *)
(* nine factors, their weighted sum with the decay of the behavioral part, *)
(* and the bands of the score.  No state, no store.                        *)
(***************************************************************************)
EXTENDS Integers

CONSTANTS
  FreqThreshold,     \* settings.risk_freq_threshold
  DenialThreshold,   \* settings.risk_denial_threshold
  FailureThreshold,  \* settings.risk_auth_failure_threshold
  HistoryThreshold,  \* settings.risk_drift_history_threshold
  DecayMax           \* settings.risk_decay_max

ASSUME ScoreAssumption ==
  /\ FreqThreshold \in Nat /\ DenialThreshold \in Nat
  /\ FailureThreshold \in Nat /\ HistoryThreshold \in Nat
  /\ DecayMax \in Nat

Tiers == {"none", "low", "medium", "high", "critical"}

TIER_CONTRIBUTION ==
  [none |-> 0, low |-> 10, medium |-> 20, high |-> 30, critical |-> 45]

(* What the factors of one call depend on.                                 *)
RiskContext ==
  [tier : Tiers, protected : BOOLEAN, off_hours : BOOLEAN,
   call_count : Nat, drift_in_review : BOOLEAN, denial_count : Nat,
   auth_failure_count : Nat, drift_event_count : Nat,
   suspicious_baseline : BOOLEAN]

If(condition, contribution) == IF condition THEN contribution ELSE 0

(* FACTORS: every factor with its contribution, 0 for one that does not    *)
(* apply.                                                                  *)
Factors(ctx) ==
  [tool_sensitivity     |-> TIER_CONTRIBUTION[ctx.tier],
   protected_repository |-> If(ctx.protected, 30),
   business_hours       |-> If(ctx.off_hours, 25),
   call_frequency       |-> If(ctx.call_count > FreqThreshold, 20),
   drift_in_review      |-> If(ctx.drift_in_review, 15),
   prior_denial_rate    |-> If(ctx.denial_count > DenialThreshold, 25),
   auth_failures        |-> If(ctx.auth_failure_count > FailureThreshold, 20),
   drift_history        |-> If(ctx.drift_event_count >= HistoryThreshold, 15),
   suspicious_baseline  |-> If(ctx.suspicious_baseline, 20)]

(* BEHAVIORAL_FACTORS, and the others.                                     *)
Behavioral(f) == f.call_frequency + f.prior_denial_rate + f.drift_in_review

Static(f) ==
  f.tool_sensitivity + f.protected_repository + f.business_hours
    + f.auth_failures + f.drift_history + f.suspicious_baseline

Lesser(a, b)  == IF a <= b THEN a ELSE b
Greater(a, b) == IF a <= b THEN b ELSE a

(* Mutant: the offset discounts the whole sum.                             *)
combine_Total(f, offset) ==
  Lesser(Greater(0, Static(f) + Behavioral(f) - offset), 100)

(* The decay offset discounts the behavioral part only, down to 0.         *)
combine(f, offset) ==
  Lesser(Static(f) + Greater(0, Behavioral(f) - offset), 100)

(* score: the offset read from Redis is clamped to risk_decay_max.         *)
score(ctx, decay) == combine(Factors(ctx), Lesser(decay, DecayMax))

(* The bands: below 40, 40 to 69, 70 to 90, above.                         *)
threshold_outcome(s) ==
  CASE s > 90 -> "deny"
    [] s \in 70..90 -> "human_approval_required"
    [] s \in 40..69 -> "challenge"
    [] s < 40 -> "allow"

(* How much a band asks of a call.                                         *)
Severity ==
  [allow |-> 0, challenge |-> 1, human_approval_required |-> 2, deny |-> 3]
=============================================================================
