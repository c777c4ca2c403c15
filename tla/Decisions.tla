------------------------------ MODULE Decisions ------------------------------
(***************************************************************************)
(* What the gateway decides about one identity's calls to one server, and  *)
(* what its admin API says about those decisions:                          *)
(*                                                                         *)
(*   _authorize_call (jsonrpc_interceptor.py)   the live decision          *)
(*   explain_call, from_audit_row               a dry run of it, and its   *)
(*     (decision_explainer.py)                  reconstruction from a row  *)
(*   simulate (policy_simulator.py)             dry runs over past rows    *)
(*                                                                         *)
(* The three are separate code paths over shared parts (matching_grant,    *)
(* abac.evaluate, RiskEngine.score).  Here every handler is one step, but  *)
(* for the policy, which a swap may change before the handler has read the *)
(* version it reports.  What else overtakes a call between its awaits is   *)
(* the subject of CallPipeline.                                            *)
(***************************************************************************)
EXTENDS RiskScore, Sequences, FiniteSets

CONSTANTS
  Versions,   \* policy revisions; one is in force
  Policy,     \* Policy[v]: what revision v says
  Tools, Args,
  Listed,     \* tools in the upstream's tools/list
  Fitting,    \* arguments its input schemas and the validator accept
  DecayStep,  \* settings.risk_decay_step
  None,
  MaxCalls,   \* bound on the frequency counters (model checking only)
  MaxStress   \* MaxStress[n]: bound on what is unusual at once beside n - 1
              \* rows, and on their number (model checking only)

(* Attribute paths: one that is always bound, one the identity may lack,   *)
(* one that is bound once there is a score.                                *)
Paths == {"context.hour", "identity.team", "risk.score"}

(* A compiled condition is a test of the paths it names: office hours, a   *)
(* team, a score below some limit.                                         *)
Condition == [paths : SUBSET Paths, below : 0..101]

(* A ServerGrant; matches: its server_id is this server or "*".            *)
Grant == [matches : BOOLEAN, allowed_tools : SUBSET Tools,
          denied_tools : SUBSET Tools, conditions : Seq(Condition)]

ASSUME DecisionAssumption ==
  /\ \A v \in Versions :
       /\ Policy[v].known \in BOOLEAN
       /\ Policy[v].attributes \subseteq {"identity.team"}
       /\ Policy[v].grants \in Seq(Grant)
       /\ Policy[v].tool_sensitivity \in [Tools -> Tiers]
       /\ Policy[v].protected \subseteq Args
  /\ Listed \subseteq Tools /\ Fitting \subseteq Args
  /\ DecayStep \in Nat
  /\ None \notin Grant \union Args \union Nat
  /\ MaxCalls \in Nat /\ MaxStress \in Seq(Nat)

VARIABLES
  engine,      \* the revision in force
  hour,        \* "office" or "off": the hour, as far as anything looks at it
  drift,       \* drift[t]: "none", "review" or "blocked" in tool_baselines
  drifts,      \* drifts[t]: recent DRIFT_* rows of t
  suspicious,  \* tools whose approved description was flagged
  freq,        \* freq[t]: the counter risk:freq
  denials,     \* the counter risk:denials
  failures,    \* the counter risk:auth_failures
  decay,       \* decay[t]: the counter risk:decay
  cached,      \* the schema cache holds the upstream's list
  log,         \* the audit rows, in order
  held,        \* seqs of HUMAN_APPROVAL_REQUIRED rows with a pending approval
  granted      \* ... and of those with a granted, unused one

vars == <<engine, hour, drift, drifts, suspicious, freq, denials, failures,
          decay, cached, log, held, granted>>

counters == <<freq, denials, failures, decay>>
status   == <<drift, drifts, suspicious>>

-----------------------------------------------------------------------------
(* decision.py: the decision each event type stands for (_OUTCOMES).       *)
Outcome ==
  [ALLOW |-> "allow", APPROVED |-> "allow", DENY_RBAC |-> "deny",
   DENY_ABAC |-> "deny", DENY_REPLAY |-> "deny", DENY_DRIFT |-> "deny",
   DENY_RISK |-> "deny", DENY_VALIDATION |-> "deny",
   DENY_APPROVAL_MISMATCH |-> "deny", DENY_STEP_UP |-> "deny",
   EXPIRED |-> "deny", CHALLENGE |-> "challenge",
   HUMAN_APPROVAL_REQUIRED |-> "human_approval_required"]

(* What _deny answers; EXPIRED is also the end of an approval nobody       *)
(* redeemed.                                                               *)
DenialEvents ==
  {"DENY_RBAC", "DENY_ABAC", "DENY_REPLAY", "DENY_DRIFT", "DENY_RISK",
   "DENY_VALIDATION", "DENY_APPROVAL_MISMATCH", "DENY_STEP_UP"}

(* matched_rules: a stage, or a layer of a policy revision.                *)
Stage(name) == [rule |-> name, version |-> None, condition |-> 0]
Layer(v, name, i) == [rule |-> name, version |-> v, condition |-> i]

Decide(event, rule, s) == [event |-> event, rule |-> rule, score |-> s]

Stages == {"replay_guard", "drift_detector", "step_up", "approval_lifecycle",
           "risk_engine", "param_validator", "admin_approval", "rbac", "abac"}

Rule == [rule : Stages, version : Versions \union {None}, condition : Nat]

Scores == 0..100 \union {None}

Decision == [event : DOMAIN Outcome, rule : Rule, score : Scores]

(* The Decision of decision.py, as a handler answers it.                   *)
Answers == [decision : DOMAIN Severity, event : DOMAIN Outcome, rules : Rule,
            score : Scores, version : Versions]

ASSUME NoneAssumption == None \notin Rule \union Decision \union Answers

First(S) == CHOOSE i \in S : \A j \in S : i <= j

(* The first grant of the server that mentions the tool decides; a denial  *)
(* in it overrides.                                                        *)
matching_grant(v, t) ==
  LET grants == Policy[v].grants
      hits == {i \in DOMAIN grants :
                 /\ grants[i].matches
                 /\ t \in grants[i].allowed_tools \union grants[i].denied_tools}
  IN IF ~Policy[v].known \/ hits = {} \/ t \in grants[First(hits)].denied_tools
     THEN None ELSE grants[First(hits)]

(* abac.evaluate: a path that is not bound fails the whole condition.      *)
Satisfied(cond, bound, hr, s) ==
  /\ cond.paths \subseteq bound
  /\ "context.hour" \in cond.paths => hr = "office"
  /\ "risk.score" \in cond.paths => s < cond.below

Bound(v) == {"context.hour"} \union Policy[v].attributes

(* The conditions of a grant that fail before there is a score, and after. *)
FailEarly(v, g, hr) ==
  {i \in DOMAIN g.conditions :
     /\ "risk.score" \notin g.conditions[i].paths
     /\ ~Satisfied(g.conditions[i], Bound(v), hr, 0)}

FailLate(v, g, hr, s) ==
  {i \in DOMAIN g.conditions :
     /\ "risk.score" \in g.conditions[i].paths
     /\ ~Satisfied(g.conditions[i], Bound(v) \union {"risk.score"}, hr, s)}

(* The drift detector's answers to the pipeline.                           *)
is_blocked(t)         == drift[t] = "blocked"
has_pending_drift(t)  == drift[t] # "none"
recent_drift_count(t) == drifts[t]
is_suspicious(t)      == t \in suspicious

(* RiskEngine.score after it has counted the call.                         *)
Context(v, t, a, count) ==
  [tier |-> Policy[v].tool_sensitivity[t], protected |-> a \in Policy[v].protected,
   off_hours |-> hour = "off", call_count |-> count,
   drift_in_review |-> has_pending_drift(t), denial_count |-> denials,
   auth_failure_count |-> failures,
   drift_event_count |-> recent_drift_count(t),
   suspicious_baseline |-> is_suspicious(t)]

Scored(v, t, a, count) == score(Context(v, t, a, count), decay[t])

-----------------------------------------------------------------------------
(* The live decision.  token is what the call carries to a store, as that  *)
(* store will find it; fails names a read that raises while it is handled  *)
(* (model checking only: of tokens, with an approval or none).             *)
Tokens == {"none", "approval", "proof", "badproof", "replayed"} \union
          {"mismatch", "lapsed", "reused"}

Calls ==
  {c \in [tool : Tools, args : Args, token : Tokens,
          fails : {"none", "drift", "score", "cache", "refetch"}] :
     c.fails = "none" \/ c.token \in {"none", "approval"}}

Plain(t, a, fails) == [tool |-> t, args |-> a, token |-> "none", fails |-> fails]

(* ApprovalStore.redeem's reasons to refuse.                               *)
RedeemDenial ==
  [mismatch |-> "DENY_APPROVAL_MISMATCH", lapsed |-> "EXPIRED",
   reused |-> "DENY_REPLAY"]

(* Stages 1 to 5, the step-up proof and the approval: the denial, if any.  *)
Entry(v, c) ==
  LET g == matching_grant(v, c.tool)
      early == FailEarly(v, g, hour)
  IN
  IF c.token = "replayed" THEN Decide("DENY_REPLAY", Stage("replay_guard"), None)
  ELSE IF g = None THEN Decide("DENY_RBAC", Layer(v, "rbac", 0), None)
  ELSE IF early # {} THEN Decide("DENY_ABAC", Layer(v, "abac", First(early)), None)
  ELSE IF is_blocked(c.tool) \/ c.fails = "drift"
    THEN Decide("DENY_DRIFT", Stage("drift_detector"), None)
  ELSE IF c.token = "badproof" THEN Decide("DENY_STEP_UP", Stage("step_up"), None)
  ELSE IF c.token \in DOMAIN RedeemDenial
    THEN Decide(RedeemDenial[c.token], Stage("approval_lifecycle"), None)
  ELSE None

(* Stage 6 at score s, the risk conditions before the bands: the denial or *)
(* the hold, if any.                                                       *)
RiskTerminal(v, c, s) ==
  LET late == FailLate(v, matching_grant(v, c.tool), hour, s)
      band == threshold_outcome(s)
  IN
  IF late # {} THEN Decide("DENY_ABAC", Layer(v, "abac", First(late)), s)
  ELSE IF band = "deny" THEN Decide("DENY_RISK", Stage("risk_engine"), s)
  ELSE IF band = "human_approval_required"
    THEN Decide("HUMAN_APPROVAL_REQUIRED", Stage("risk_engine"), s)
  ELSE IF band = "challenge" /\ c.token # "proof"
    THEN Decide("CHALLENGE", Stage("risk_engine"), s)
  ELSE None

(* Stage 7: the list has the tool and its schema accepts the arguments.    *)
Valid(t, a) == t \in Listed /\ a \in Fitting

(* Stages 7 and 8.  A cold cache is filled from the upstream; a cache that *)
(* cannot be read raises out of the handler.                               *)
Served(v, c, s) ==
  IF c.fails = "cache" THEN None
  ELSE IF (~cached /\ c.fails = "refetch") \/ ~Valid(c.tool, c.args)
    THEN Decide("DENY_VALIDATION", Stage("param_validator"), None)
  ELSE Decide("ALLOW", Layer(v, "rbac", 0), s)

(* _authorize_call; None when the handler raised.  An approval replaces    *)
(* the score.                                                              *)
Live(v, c) ==
  LET denial == Entry(v, c)
      s == IF c.fails = "score" THEN 100
           ELSE Scored(v, c.tool, c.args, freq[c.tool] + 1)
      terminal == RiskTerminal(v, c, s)
  IN
  IF denial # None THEN denial
  ELSE IF c.token = "approval" THEN Served(v, c, None)
  ELSE IF terminal # None THEN terminal
  ELSE Served(v, c, s)

(* The decision d was not taken before stage 7.                            *)
Validated(d) ==
  IF d = None THEN TRUE ELSE d.event \in {"DENY_VALIDATION", "ALLOW"}

-----------------------------------------------------------------------------
(* explain_call, a dry run: it counts the call it is asked about without   *)
(* writing, and does not ask the upstream for a list.                      *)

(* Mutant: the counter as it stands.                                       *)
DryCount_Stored(t) == freq[t]

DryCount(t) == freq[t] + 1

(* hr is the hour the conditions see; validate = FALSE leaves stage 7 out. *)
Explain(v, t, a, hr, fails, validate) ==
  LET g     == matching_grant(v, t)
      early == FailEarly(v, g, hr)
      s     == IF fails = "score" THEN 100 ELSE Scored(v, t, a, DryCount(t))
      late  == FailLate(v, g, hr, s)
      band  == threshold_outcome(s)
  IN
  IF g = None THEN Decide("DENY_RBAC", Layer(v, "rbac", 0), None)
  ELSE IF early # {}
    THEN Decide("DENY_ABAC", Layer(v, "abac", First(early)), None)
  ELSE IF fails = "drift" \/ is_blocked(t)
    THEN Decide("DENY_DRIFT", Stage("drift_detector"), None)
  ELSE IF late # {} THEN Decide("DENY_ABAC", Layer(v, "abac", First(late)), s)
  ELSE IF band # "allow"
    THEN Decide(CASE band = "deny" -> "DENY_RISK"
                  [] band = "challenge" -> "CHALLENGE"
                  [] band = "human_approval_required" -> "HUMAN_APPROVAL_REQUIRED",
                Stage("risk_engine"), s)
  ELSE IF validate /\ (fails = "cache" \/ ~cached \/ ~Valid(t, a))
    THEN Decide("DENY_VALIDATION", Stage("param_validator"), s)
  ELSE Decide("ALLOW", Layer(v, "rbac", 0), s)

-----------------------------------------------------------------------------
(* The audit rows, and what the admin API reads from them.                 *)

(* An audit row that names version v; args and rules are None where its    *)
(* payload lacks them.  History: answer, the Decision its handler answers  *)
(* or forwards the call with, None if the handler answers an error.        *)
Row(event, t, a, rules, s, v, answer) ==
  [event |-> event, tool |-> t, args |-> a, rules |-> rules, score |-> s,
   version |-> v, hour |-> hour, answer |-> answer]

Answer(event, rules, s, v) ==
  [decision |-> Outcome[event], event |-> event, rules |-> rules,
   score |-> s, version |-> v]

(* The handler waits before it builds its Decision, and again before the   *)
(* writer reads the version for the row: engine' is the policy then.       *)
Answered(d) ==
  {Answer(d.event, d.rule, d.score, v) : v \in {engine, engine'}}

CallRow(c, d, answer) ==
  Row(d.event, c.tool, c.args, d.rule, d.score, engine', answer)

(* _FALLBACK_RULES, for a payload without matched_rules.                   *)
Fallback(row) ==
  CASE row.event \in {"DENY_RBAC", "ALLOW"} -> Layer(row.version, "rbac", 0)
    [] row.event = "DENY_ABAC" -> Layer(row.version, "abac", 0)
    [] row.event = "DENY_REPLAY" -> Stage("replay_guard")
    [] row.event = "DENY_DRIFT" -> Stage("drift_detector")
    [] row.event \in {"DENY_RISK", "CHALLENGE", "HUMAN_APPROVAL_REQUIRED"} ->
         Stage("risk_engine")
    [] row.event = "DENY_VALIDATION" -> Stage("param_validator")
    [] row.event \in {"DENY_APPROVAL_MISMATCH", "EXPIRED"} -> Stage("approval_lifecycle")
    [] row.event = "APPROVED" -> Stage("admin_approval")

(* Mutant: the rules of the event type, whatever the payload says.         *)
FromAuditRow_ByEvent(row) ==
  IF row.event \notin DOMAIN Outcome THEN None
  ELSE [decision |-> Outcome[row.event], event |-> row.event,
        rules |-> Fallback(row), score |-> row.score, version |-> row.version]

(* None when the row is not a decision.                                    *)
FromAuditRow(row) ==
  IF row.event \notin DOMAIN Outcome THEN None
  ELSE [decision |-> Outcome[row.event], event |-> row.event,
        rules |-> IF row.rules = None THEN Fallback(row) ELSE row.rules,
        score |-> row.score, version |-> row.version]

(* replay_rows: every decision row with arguments but the admin's.         *)
Replayed ==
  {i \in DOMAIN log : /\ log[i].event \in DOMAIN Outcome \ {"APPROVED"}
                      /\ log[i].args # None}

(* Mutant: the row is replayed against the policy in force.                *)
Simulated_Live(v, i) ==
  Explain(engine, log[i].tool, log[i].args, log[i].hour, "none", FALSE)

(* _simulate_row: the conditions see the hour of the row; drift and the    *)
(* counters are those of now.                                              *)
Simulated(v, i) ==
  Explain(v, log[i].tool, log[i].args, log[i].hour, "none", FALSE)

(* The counters of a simulation that one row adds to: in a replay against  *)
(* history, by the outcome it had and the one it would have ...            *)
summarize_historical(before, after) ==
  IF before = after THEN {"unchanged"}
  ELSE {k \in {"would_now_deny", "would_now_require_approval", "newly_allowed"} :
          \/ k = "would_now_deny" /\ before = "allow" /\ after = "deny"
          \/ /\ k = "would_now_require_approval"
             /\ after = "human_approval_required"
          \/ /\ k = "newly_allowed"
             /\ before \in {"deny", "challenge"} /\ after = "allow"}

(* ... and between two versions, by its decisions under them; a reason     *)
(* names the event, the rule and, from stage 6, the score.                 *)
summarize_compare(old, new) ==
  LET before == Outcome[old.event]
      after  == Outcome[new.event]
  IN {k \in {"new_denials", "new_approvals", "changed_risk_scores"} :
        \/ k = "new_denials" /\ before \in {"allow", "challenge"} /\ after = "deny"
        \/ /\ k = "new_approvals" /\ before # after
           /\ after = "human_approval_required"
        \/ k = "changed_risk_scores" /\ old.score # new.score}

-----------------------------------------------------------------------------
(* The steps.  The bounds on rows and counters are guards.                 *)

AuditRow ==
  [event : DOMAIN Outcome \union {"POLICY_ERROR"}, tool : Tools,
   args : Args \union {None}, rules : Rule \union {None}, score : Scores,
   version : Versions, hour : {"office", "off"}, answer : Answers \union {None}]

TypeOK ==
  /\ engine \in Versions /\ hour \in {"office", "off"}
  /\ drift \in [Tools -> {"none", "review", "blocked"}]
  /\ drifts \in [Tools -> Nat] /\ suspicious \subseteq Tools
  /\ freq \in [Tools -> Nat] /\ denials \in Nat /\ failures \in Nat
  /\ decay \in [Tools -> Nat] /\ cached \in BOOLEAN
  /\ log \in Seq(AuditRow)
  /\ held \subseteq DOMAIN log /\ granted \subseteq DOMAIN log
  /\ \A i \in held \union granted : log[i].event = "HUMAN_APPROVAL_REQUIRED"

Init ==
  /\ engine \in Versions /\ hour = "office"
  /\ drift = [t \in Tools |-> "none"] /\ drifts = [t \in Tools |-> 0]
  /\ suspicious = {}
  /\ freq = [t \in Tools |-> 0] /\ denials = 0 /\ failures = 0
  /\ decay = [t \in Tools |-> 0]
  /\ cached = FALSE /\ log = <<>> /\ held = {} /\ granted = {}

(* Bounds of model checking.  The longer the log, the less is unusual at   *)
(* once; a row counts twice if a failure came between it and its answer,   *)
(* three times if a swap did.  A row is followed by another if later steps *)
(* refer to it, by two if the first is held, the second grants it and the  *)
(* third forwards it; a call is counted to MaxCalls before a second row.   *)
(* An empty MaxStress bounds nothing.                                      *)
Stress ==
  Cardinality({t \in Tools : drift[t] # "none"}) + Cardinality(suspicious)
    + Cardinality({t \in Tools : drifts[t] > 0}) + denials + failures
    + If(hour = "off", 1)

Failed(row) == row.event # "POLICY_ERROR" /\ row.answer = None

Swapped(row) ==
  /\ row.answer # None
  /\ \/ row.answer.version # row.version
     \/ row.answer.rules.version \notin {None, row.version}

Weight ==
  Len(log) + Cardinality({i \in DOMAIN log : Failed(log[i])})
    + 2 * Cardinality({i \in DOMAIN log : Swapped(log[i])})

Bounded == MaxStress # <<>> =>
  /\ Weight < Len(MaxStress) /\ Stress <= MaxStress[Weight + 1]
  /\ \A t \in Tools : freq[t] <= MaxCalls /\ drifts[t] <= 1
  /\ denials <= 1 /\ failures <= 1
  /\ Len(log) > 1 => \A t \in Tools : freq[t] < MaxCalls
  /\ Len(log) > 1 =>
       log[1].event \in {"HUMAN_APPROVAL_REQUIRED", "CHALLENGE", "POLICY_ERROR"}
  /\ Len(log) > 2 => log[2].event = "APPROVED" /\ log[3].event = "ALLOW"

(* A reload or a rollback may swap the policy while a handler waits; in    *)
(* model checking, when nothing else is unusual.                           *)
Overtaken ==
  engine' \in IF MaxStress = <<>> \/ Stress = 0 THEN Versions ELSE {engine}

Logged(event) == \E i \in DOMAIN log : log[i].event = event

(* Row i is of the call c.                                                 *)
Of(i, c) == log[i].tool = c.tool /\ log[i].args = c.args

(* The tokens a client can hold.                                           *)
Presentable(c) ==
  /\ c.token = "proof" =>
       \E i \in DOMAIN log : log[i].event = "CHALLENGE" /\ Of(i, c)
  /\ c.token = "badproof" => Logged("CHALLENGE")
  /\ c.token = "approval" => \E i \in granted : Of(i, c)
  /\ c.token = "lapsed" => held \union granted # {}
  /\ c.token = "reused" => Logged("APPROVED")

(* The frequency counter counts every scored call, also one whose scoring  *)
(* fails after the INCR.                                                   *)
CountCall(c) ==
  IF Entry(engine, c) # None \/ c.token = "approval" THEN UNCHANGED freq
  ELSE \/ freq' = [freq EXCEPT ![c.tool] = @ + 1]
       \/ c.fails = "score" /\ UNCHANGED freq

(* A redemption that is reached consumes its approval, or finds it past    *)
(* its expiry.                                                             *)
Redeem(c, d) ==
  IF c.token = "approval" /\ Validated(d)
    THEN /\ \E i \in granted : Of(i, c) /\ granted' = granted \ {i}
         /\ UNCHANGED held
  ELSE IF c.token = "lapsed" /\ d.event = "EXPIRED"
    THEN \E i \in held \union granted :
           held' = held \ {i} /\ granted' = granted \ {i}
  ELSE UNCHANGED <<held, granted>>

(* DriftDetector.check finds t changed, or nothing to report.              *)
Seen(t) ==
  /\ drifts' = [drifts EXCEPT ![t] = @ + 1]
  /\ \E s \in {"review", "blocked"} : drift' = [drift EXCEPT ![t] = s]
  /\ UNCHANGED suspicious

Checked == UNCHANGED status \/ \E t \in Tools : Seen(t)

(* A cold cache is filled by the call that meets it.                       *)
Refetch(c, d) ==
  IF Validated(d) /\ ~cached /\ c.fails \notin {"cache", "refetch"}
  THEN cached' = TRUE /\ Checked
  ELSE UNCHANGED <<cached, status>>

(* _enforce_conditions: a condition that failed for an unbound path.       *)
PolicyError(c, d) ==
  IF /\ d.event = "DENY_ABAC"
     /\ ~(matching_grant(engine, c.tool).conditions[d.rule.condition].paths
            \subseteq Bound(engine) \union {"risk.score"})
  THEN {<<>>, <<Row("POLICY_ERROR", c.tool, None, None, None, engine', None)>>}
  ELSE {<<>>}

(* _deny: counted and recorded best effort, the denial stands.             *)
Deny(c, d) ==
  /\ d # None /\ Outcome[d.event] = "deny"
  /\ Overtaken
  /\ Redeem(c, d) /\ Refetch(c, d)
  /\ denials' \in {denials, denials + 1}
  /\ \E e \in PolicyError(c, d),
        r \in {<<>>} \union {<<CallRow(c, d, a)>> : a \in Answered(d)} :
       log' = log \o e \o r

(* _risk_terminal: the row, then the approval that refers to it; a failure *)
(* of either, after its effect or without one, answers "unavailable".      *)
Hold(c, d) ==
  LET Pending == IF d.event = "CHALLENGE" THEN {} ELSE {Len(log) + 1} IN
  /\ d # None /\ d.event \in {"HUMAN_APPROVAL_REQUIRED", "CHALLENGE"}
  /\ Overtaken
  /\ \/ UNCHANGED <<log, held>>
     \/ /\ log' = Append(log, CallRow(c, d, None))
        /\ held' \in {held, held \union Pending}
     \/ /\ \E a \in Answered(d) : log' = Append(log, CallRow(c, d, a))
        /\ held' = held \union Pending
  /\ UNCHANGED <<denials, cached, status, granted>>

(* The ALLOW row, without which the call is not forwarded.                 *)
Allow(c, d) ==
  /\ d # None /\ d.event = "ALLOW"
  /\ Overtaken
  /\ Redeem(c, d) /\ Refetch(c, d)
  /\ log' \in {log} \union {Append(log, CallRow(c, d, a)) :
                              a \in Answered(d) \union {None}}
  /\ UNCHANGED denials

(* The schema cache cannot be read: the handler raises, what it has        *)
(* counted and redeemed stays.                                             *)
Raise(c, d) ==
  /\ d = None /\ Redeem(c, d)
  /\ UNCHANGED <<engine, denials, cached, status, log>>

Call(c) ==
  /\ Presentable(c)
  /\ LET d == Live(engine, c) IN
       Deny(c, d) \/ Hold(c, d) \/ Allow(c, d) \/ Raise(c, d)
  /\ CountCall(c)
  /\ UNCHANGED <<hour, failures, decay>>
  /\ Bounded'

(* Here the row comes first, and the Decision after two more awaits.       *)
ApprovedAnswer == Answer("APPROVED", Stage("admin_approval"), None, engine')

ApprovedRow(t, answer) ==
  Row("APPROVED", t, None, None, None, engine, answer)

(* Mutant: the calibration step comes first.                               *)
Approve_DecayFirst(i) ==
  /\ i \in held
  /\ decay' = [decay EXCEPT ![log[i].tool] = @ + DecayStep]
  /\ Overtaken
  /\ \/ /\ log' = Append(log, ApprovedRow(log[i].tool, None))
        /\ UNCHANGED <<held, granted>>
     \/ /\ log' = Append(log, ApprovedRow(log[i].tool, ApprovedAnswer))
        /\ held' = held \ {i} /\ granted' = granted \union {i}
  /\ UNCHANGED <<hour, status, freq, denials, failures, cached>>
  /\ Bounded'

(* approve_call: the row, the commit of the grant, one step of decay; each *)
(* may fail, after its effect or without one, and ends the handler.        *)
Approve(i) ==
  LET Decayed == [decay EXCEPT ![log[i].tool] = @ + DecayStep] IN
  /\ i \in held
  /\ Overtaken
  /\ \/ /\ log' = Append(log, ApprovedRow(log[i].tool, None))
        /\ UNCHANGED <<held, granted, decay>>
     \/ /\ log' = Append(log, ApprovedRow(log[i].tool, None))
        /\ held' = held \ {i} /\ granted' = granted \union {i}
        /\ decay' \in {decay, Decayed}
     \/ /\ log' = Append(log, ApprovedRow(log[i].tool, ApprovedAnswer))
        /\ held' = held \ {i} /\ granted' = granted \union {i}
        /\ decay' = Decayed
  /\ UNCHANGED <<hour, status, freq, denials, failures, cached>>
  /\ Bounded'

(* approve or expire_stale finds a pending approval past its expiry.       *)
Expire(i) ==
  /\ i \in held
  /\ log' = Append(log, Row("EXPIRED", log[i].tool, None, None, None, engine, None))
  /\ held' \in {held, held \ {i}}
  /\ UNCHANGED <<engine, hour, status, counters, cached, granted>>
  /\ Bounded'

(* _count_failure: a key that resolves to nobody, anywhere in the gateway. *)
AuthFails ==
  /\ failures' = failures + 1
  /\ UNCHANGED <<engine, hour, status, freq, denials, decay, cached, log, held, granted>>
  /\ Bounded'

(* A counter's key expires.                                                *)
CounterExpires ==
  /\ \/ \E t \in Tools : /\ freq[t] > 0 /\ freq' = [freq EXCEPT ![t] = 0]
                          /\ UNCHANGED <<denials, failures, decay>>
     \/ denials > 0 /\ denials' = 0 /\ UNCHANGED <<freq, failures, decay>>
     \/ failures > 0 /\ failures' = 0 /\ UNCHANGED <<freq, denials, decay>>
     \/ \E t \in Tools : /\ decay[t] > 0 /\ decay' = [decay EXCEPT ![t] = 0]
                          /\ UNCHANGED <<freq, denials, failures>>
  /\ UNCHANGED <<engine, hour, status, cached, log, held, granted>>

(* A client's tools/list: checked, then cached.                            *)
List ==
  /\ Checked /\ cached' = TRUE
  /\ UNCHANGED <<engine, hour, counters, log, held, granted>>
  /\ Bounded'

(* The cached list's TTL, or a client's initialize.                        *)
DropList ==
  /\ cached /\ cached' = FALSE
  /\ UNCHANGED <<engine, hour, counters, status, log, held, granted>>

(* approve_tool: what is observed becomes the baseline, suspicious or not. *)
ApproveTool(t) ==
  /\ drift[t] # "none" /\ drift' = [drift EXCEPT ![t] = "none"]
  /\ suspicious' \in {suspicious \ {t}, suspicious \union {t}}
  /\ UNCHANGED <<engine, hour, counters, cached, drifts, log, held, granted>>
  /\ Bounded'

(* Time passes: the hour changes, drift rows leave their window.           *)
TimePasses ==
  /\ \/ /\ hour' = IF hour = "off" THEN "office" ELSE "off"
        /\ UNCHANGED drifts
     \/ /\ \E t \in Tools : drifts[t] > 0 /\ drifts' = [drifts EXCEPT ![t] = 0]
        /\ UNCHANGED hour
  /\ UNCHANGED <<engine, counters, cached, drift, suspicious, log, held, granted>>
  /\ Bounded'

(* A reload or a rollback (PolicyActivation).                              *)
Activate ==
  /\ \E v \in Versions \ {engine} : engine' = v
  /\ UNCHANGED <<hour, counters, status, cached, log, held, granted>>

Next ==
  \/ \E c \in Calls : Call(c)
  \/ \E i \in held : Approve(i) \/ Expire(i)
  \/ AuthFails \/ CounterExpires \/ List \/ DropList \/ TimePasses \/ Activate
  \/ \E t \in Tools : ApproveTool(t)

Spec == Init /\ [][Next]_vars

-----------------------------------------------------------------------------
(* A dry run under the policy in force answers what the same call, made in *)
(* the same state, would be answered: event, rule and score, whichever     *)
(* read fails.  Where the live handler would raise or would first ask the  *)
(* upstream, explain denies; and only explain scores a validation denial.  *)
(* (explain_call, decision_explainer.py:128-351: "Same stage order and     *)
(* fail-closed logic as the live interceptor", lines 11-16.)               *)
ExplainPredicts ==
  \A t \in Tools, a \in Args, fails \in {"none", "drift", "score", "cache"} :
    LET c == Plain(t, a, fails)
        live == Live(engine, c)
        said == Explain(engine, t, a, hour, fails, TRUE)
    IN
    IF Validated(live) /\ (~cached \/ fails = "cache")
      THEN said.event = "DENY_VALIDATION"
    ELSE /\ said.event = live.event /\ said.rule = live.rule
         /\ live.event # "DENY_VALIDATION" => said.score = live.score

(* A decision read back from its audit row is the one that was answered in *)
(* all but the policy version, also from the rows that carry no            *)
(* matched_rules; and no denial of a call is on record that the client was *)
(* not answered with.  The version is left out: a swap may come between    *)
(* the row's read of it and the answer's (jsonrpc_interceptor.py:537, 630  *)
(* and main.py:222 against audit_log.py:154).                              *)
(* (from_audit_row, decision_explainer.py:76-112.)                         *)
RowsExplained ==
  \A i \in DOMAIN log :
    LET row == log[i] IN
    IF row.answer = None THEN row.event \notin DenialEvents
    ELSE [FromAuditRow(row) EXCEPT !.version = row.answer.version] = row.answer

(* Approvals cannot buy off the static part of a score: whatever the       *)
(* calibration, every version, tool and argument keeps at least the band   *)
(* its static factors put it in, and no score leaves 0..100.               *)
(* (combine, risk_engine.py:249-254, and lines 8-13.)                      *)
StaticFloor ==
  \A v \in Versions, t \in Tools, a \in Args :
    LET s == Scored(v, t, a, DryCount(t))
        static == Lesser(Static(Factors(Context(v, t, a, 0))), 100)
    IN /\ s \in 0..100
       /\ Severity[threshold_outcome(s)] >= Severity[threshold_outcome(static)]

(* Calibration is earned: a tool's offset never exceeds one step for each  *)
(* held call that is no longer pending, nor one for each APPROVED row,     *)
(* whatever commits and counter writes fail.                               *)
(* (approve_call, main.py:208-216; apply_decay, risk_engine.py:320-326.)   *)
CalibrationEarned ==
  \A t \in Tools :
    LET Rows(event) ==
          {i \in DOMAIN log : log[i].tool = t /\ log[i].event = event}
    IN /\ decay[t] <= DecayStep *
                        Cardinality(Rows("HUMAN_APPROVAL_REQUIRED") \ held)
       /\ decay[t] <= DecayStep * Cardinality(Rows("APPROVED"))

(* A simulation counts what would happen: for a row of the current hour,   *)
(* under any version, the simulated decision is the one a live call        *)
(* without token would get under it, or ALLOW if that call comes as far as *)
(* validation.  So the row adds to the counters of a replay what the live  *)
(* outcome would, and comparing the simulated with the live decision shows *)
(* neither a new denial or approval nor another score.                     *)
(* (_simulate_row, policy_simulator.py:241-264; summarize_historical,      *)
(* lines 154-193, and summarize_compare, lines 196-238.)                   *)
SimulationPredicts ==
  \A i \in Replayed, v \in Versions :
    log[i].hour = hour =>
      LET c     == Plain(log[i].tool, log[i].args, "none")
          live  == Live(v, c)
          would == IF ~Validated(live) THEN live
                   ELSE Decide("ALLOW", Layer(v, "rbac", 0),
                               Scored(v, c.tool, c.args, freq[c.tool] + 1))
          said  == Simulated(v, i)
          was   == Outcome[log[i].event]
      IN /\ summarize_compare(said, would) = {}
         /\ summarize_historical(was, Outcome[said.event]) =
              summarize_historical(was, Outcome[would.event])
=============================================================================
