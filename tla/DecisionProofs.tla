--------------------------- MODULE DecisionProofs ---------------------------
(* What holds of the decisions of the gateway under every policy, and of    *)
(* the risk scores behind them at every value of the settings.              *)
EXTENDS Decisions, FiniteSetTheorems, WellFoundedInduction, TLAPS

(* The first position of a set is its least element.                        *)
LEMMA FirstIsLeast ==
  ASSUME NEW S, S \subseteq Nat, S # {}
  PROVE  First(S) \in S /\ \A j \in S : First(S) <= j
<1> DEFINE R == OpToRel(<, Nat)
<1>1. IsWellFoundedOn(R, Nat)
  BY NatLessThanWellFounded
<1>2. \A i, j \in Nat : <<i, j>> \in R <=> i < j
  BY DEF OpToRel
<1> HIDE DEF R
<1>3. PICK i \in S : \A j \in S : <<j, i>> \notin R
  BY <1>1, WFMin
<1>4. ASSUME NEW j \in S PROVE i <= j
  <2>1. i \in Nat /\ j \in Nat
    OBVIOUS
  <2>2. ~(j < i)
    BY <1>2, <1>3, <2>1, Zenon
  <2> QED
    BY <2>1, <2>2
<1> QED
  BY <1>4 DEF First

(* Every factor adds something or nothing, and so do their two sums.        *)
LEMMA FactorsType ==
  ASSUME NEW ctx \in RiskContext
  PROVE  /\ \A k \in DOMAIN Factors(ctx) : Factors(ctx)[k] \in Nat
         /\ Static(Factors(ctx)) \in Nat /\ Behavioral(Factors(ctx)) \in Nat
<1>1. TIER_CONTRIBUTION[ctx.tier] \in Nat
  BY DEF RiskContext, Tiers, TIER_CONTRIBUTION
<1> QED
  BY <1>1 DEF RiskContext, Factors, If, Static, Behavioral

(* A score is between the capped static part and 100.                       *)
LEMMA ScoreRange ==
  ASSUME NEW ctx \in RiskContext, NEW d \in Nat
  PROVE  /\ score(ctx, d) \in 0..100
         /\ score(ctx, d) >= Lesser(Static(Factors(ctx)), 100)
<1> DEFINE a == Static(Factors(ctx))
           b == Behavioral(Factors(ctx))
           o == Lesser(d, DecayMax)
<1>1. a \in Nat /\ b \in Nat
  BY FactorsType
<1>2. o \in Nat
  BY ScoreAssumption DEF Lesser
<1>3. score(ctx, d) = Lesser(a + Greater(0, b - o), 100)
  BY DEF score, combine
<1> HIDE DEF a, b, o
<1>4. LET c == Lesser(a + Greater(0, b - o), 100)
      IN c \in 0..100 /\ c >= Lesser(a, 100)
  BY <1>1, <1>2 DEF Lesser, Greater
<1> QED
  BY <1>3, <1>4 DEF a

(* A higher score asks no less of a call.                                   *)
LEMMA BandsMonotone ==
  ASSUME NEW a \in 0..100, NEW b \in 0..100, a <= b
  PROVE  /\ threshold_outcome(a) \in DOMAIN Severity
         /\ Severity[threshold_outcome(b)] >= Severity[threshold_outcome(a)]
BY DEF threshold_outcome, Severity

-----------------------------------------------------------------------------
(* The grant that decides is one of the policy, or there is none.           *)
LEMMA GrantType ==
  ASSUME NEW v \in Versions, NEW t \in Tools
  PROVE  matching_grant(v, t) \in Grant \union {None}
<1> DEFINE grants == Policy[v].grants
           hits == {i \in DOMAIN grants :
                      /\ grants[i].matches
                      /\ t \in grants[i].allowed_tools \union grants[i].denied_tools}
<1>1. grants \in Seq(Grant)
  BY DecisionAssumption
<1>2. hits \subseteq Nat /\ \A i \in hits : grants[i] \in Grant
  BY <1>1
<1>3. hits # {} => First(hits) \in hits
  BY <1>2, FirstIsLeast
<1>4. matching_grant(v, t) \in {None, grants[First(hits)]}
  BY DEF matching_grant
<1>5. hits = {} => matching_grant(v, t) = None
  BY DEF matching_grant
<1> QED
  BY <1>2, <1>3, <1>4, <1>5

(* The condition that a decision names is one of the grant.                 *)
LEMMA FailType ==
  ASSUME NEW v \in Versions, NEW g \in Grant, NEW hr, NEW s
  PROVE  /\ FailEarly(v, g, hr) # {} => First(FailEarly(v, g, hr)) \in Nat
         /\ FailLate(v, g, hr, s) # {} => First(FailLate(v, g, hr, s)) \in Nat
<1>1. DOMAIN g.conditions \subseteq Nat
  BY DEF Grant
<1>2. FailEarly(v, g, hr) \subseteq Nat /\ FailLate(v, g, hr, s) \subseteq Nat
  BY <1>1 DEF FailEarly, FailLate
<1> QED
  BY <1>2, FirstIsLeast

Denials == {d \in Decision : Outcome[d.event] = "deny"}

Holds == {d \in Decision : d.event \in {"HUMAN_APPROVAL_REQUIRED", "CHALLENGE"}}

(* The types of decisions, and which of them deny or hold.                  *)
LEMMA DecideType ==
  ASSUME NEW e \in DOMAIN Outcome, NEW r \in Rule, NEW s \in Scores
  PROVE  /\ Decide(e, r, s) \in Decision /\ Decide(e, r, s).event = e
         /\ Outcome[e] = "deny" => Decide(e, r, s) \in Denials
         /\ e \in {"HUMAN_APPROVAL_REQUIRED", "CHALLENGE"} => Decide(e, r, s) \in Holds
BY DEF Decide, Decision, Denials, Holds

(* The rules that decisions name.                                           *)
LEMMA StageType ==
  /\ Stage("replay_guard") \in Rule /\ Stage("drift_detector") \in Rule
  /\ Stage("step_up") \in Rule /\ Stage("approval_lifecycle") \in Rule
  /\ Stage("risk_engine") \in Rule /\ Stage("param_validator") \in Rule
  /\ Stage("admin_approval") \in Rule
BY DEF Stage, Rule, Stages

LEMMA LayerType ==
  ASSUME NEW v \in Versions, NEW i \in Nat
  PROVE  Layer(v, "rbac", 0) \in Rule /\ Layer(v, "abac", i) \in Rule
BY DEF Layer, Rule, Stages

(* The events of denials deny.                                              *)
LEMMA EventType ==
  /\ \A e \in {"DENY_REPLAY", "DENY_RBAC", "DENY_ABAC", "DENY_DRIFT", "DENY_RISK",
               "DENY_STEP_UP", "DENY_VALIDATION", "DENY_APPROVAL_MISMATCH", "EXPIRED"} :
       e \in DOMAIN Outcome /\ Outcome[e] = "deny"
  /\ {"ALLOW", "HUMAN_APPROVAL_REQUIRED", "CHALLENGE"} \subseteq DOMAIN Outcome
BY DEF Outcome

(* What is scored is a context of the risk engine.                          *)
LEMMA ScoredType ==
  ASSUME TypeOK, NEW v \in Versions, NEW t \in Tools, NEW a \in Args, NEW n \in Nat
  PROVE  Context(v, t, a, n) \in RiskContext /\ Scored(v, t, a, n) \in 0..100
<1>1. Policy[v].tool_sensitivity[t] \in Tiers
  BY DecisionAssumption
<1>2. Context(v, t, a, n) \in RiskContext
  BY <1>1 DEF TypeOK, Context, RiskContext, has_pending_drift, recent_drift_count, is_suspicious
<1>3. decay[t] \in Nat
  BY DEF TypeOK
<1> QED
  BY <1>2, <1>3, ScoreRange DEF Scored

(* Before the score a call is denied or goes on; without grant it is denied. *)
LEMMA EntryType ==
  ASSUME NEW v \in Versions, NEW c \in Calls
  PROVE  /\ Entry(v, c) \in Denials \union {None}
         /\ matching_grant(v, c.tool) = None => Entry(v, c) # None
<1> DEFINE g == matching_grant(v, c.tool)
           early == FailEarly(v, g, hour)
<1>1. c.tool \in Tools /\ c.token \in Tokens
  BY DEF Calls
<1>2. g \in Grant \union {None}
  BY <1>1, GrantType
<1>3. g # None /\ early # {} => First(early) \in Nat
  BY <1>2, FailType
<1> DEFINE abac == Decide("DENY_ABAC", Layer(v, "abac", First(early)), None)
           refused == Decide(RedeemDenial[c.token], Stage("approval_lifecycle"), None)
           rbac == Decide("DENY_RBAC", Layer(v, "rbac", 0), None)
           replay == Decide("DENY_REPLAY", Stage("replay_guard"), None)
           drifted == Decide("DENY_DRIFT", Stage("drift_detector"), None)
           proof == Decide("DENY_STEP_UP", Stage("step_up"), None)
<1>4. None \in Scores
  BY DEF Scores
<1>5. g # None /\ early # {} => abac \in Denials
  BY <1>3, <1>4, DecideType, LayerType, EventType
<1>6. c.token \in DOMAIN RedeemDenial => refused \in Denials
  <2>1. c.token \in DOMAIN RedeemDenial =>
          RedeemDenial[c.token] \in {"DENY_APPROVAL_MISMATCH", "EXPIRED", "DENY_REPLAY"}
    BY DEF RedeemDenial
  <2> QED
    BY <1>4, <2>1, DecideType, StageType, EventType
<1>7. rbac \in Denials
  BY <1>4, DecideType, LayerType, EventType
<1>8. replay \in Denials /\ drifted \in Denials /\ proof \in Denials
  BY <1>4, DecideType, StageType, EventType
<1>9. None \notin Denials
  BY NoneAssumption DEF Denials
<1> HIDE DEF abac, refused, rbac, replay, drifted, proof
<1>10. Entry(v, c) = IF c.token = "replayed" THEN replay
                     ELSE IF g = None THEN rbac
                     ELSE IF early # {} THEN abac
                     ELSE IF is_blocked(c.tool) \/ c.fails = "drift" THEN drifted
                     ELSE IF c.token = "badproof" THEN proof
                     ELSE IF c.token \in DOMAIN RedeemDenial THEN refused
                     ELSE None
  BY DEF Entry, abac, refused, rbac, replay, drifted, proof
<1> HIDE DEF g, early
<1> QED
  BY <1>5, <1>6, <1>7, <1>8, <1>9, <1>10 DEF g

(* At the score a call is denied, held or goes on.                          *)
LEMMA TerminalType ==
  ASSUME NEW v \in Versions, NEW c \in Calls, matching_grant(v, c.tool) \in Grant,
         NEW s \in Scores
  PROVE  RiskTerminal(v, c, s) \in Denials \union Holds \union {None}
<1> DEFINE late == FailLate(v, matching_grant(v, c.tool), hour, s)
           band == threshold_outcome(s)
           abac == Decide("DENY_ABAC", Layer(v, "abac", First(late)), s)
           risk == Decide("DENY_RISK", Stage("risk_engine"), s)
           review == Decide("HUMAN_APPROVAL_REQUIRED", Stage("risk_engine"), s)
           challenge == Decide("CHALLENGE", Stage("risk_engine"), s)
<1>1. late # {} => abac \in Denials
  BY FailType, DecideType, LayerType, EventType
<1>2. risk \in Denials /\ review \in Holds /\ challenge \in Holds
  BY DecideType, StageType, EventType
<1>3. RiskTerminal(v, c, s) =
        IF late # {} THEN abac
        ELSE IF band = "deny" THEN risk
        ELSE IF band = "human_approval_required" THEN review
        ELSE IF band = "challenge" /\ c.token # "proof" THEN challenge
        ELSE None
  BY DEF RiskTerminal
<1> HIDE DEF late, band, abac, risk, review, challenge
<1> QED
  BY <1>1, <1>2, <1>3

(* After the score a call is denied, allowed or raises.                     *)
LEMMA ServedType ==
  ASSUME NEW v \in Versions, NEW c \in Calls, NEW s \in Scores
  PROVE  Served(v, c, s) \in Decision \union {None}
<1> DEFINE invalid == Decide("DENY_VALIDATION", Stage("param_validator"), None)
           allow == Decide("ALLOW", Layer(v, "rbac", 0), s)
<1>1. None \in Scores /\ 0 \in Nat
  BY DEF Scores
<1>2. invalid \in Decision
  BY <1>1, DecideType, StageType, EventType
<1>3. allow \in Decision
  BY <1>1, DecideType, LayerType, EventType
<1>4. Served(v, c, s) \in {None, invalid, allow}
  BY DEF Served
<1> HIDE DEF invalid, allow
<1> QED
  BY <1>2, <1>3, <1>4

(* The pipeline decides or raises.                                          *)
LEMMA LiveType ==
  ASSUME TypeOK, NEW v \in Versions, NEW c \in Calls
  PROVE  Live(v, c) \in Decision \union {None}
<1> DEFINE s == IF c.fails = "score" THEN 100
                ELSE Scored(v, c.tool, c.args, freq[c.tool] + 1)
<1>1. c.tool \in Tools /\ c.args \in Args
  BY DEF Calls
<1>2. s \in Scores /\ None \in Scores
  <2>1. freq[c.tool] + 1 \in Nat
    BY <1>1 DEF TypeOK
  <2>2. Scored(v, c.tool, c.args, freq[c.tool] + 1) \in 0..100
    BY <1>1, <2>1, ScoredType
  <2> QED
    BY <2>2 DEF Scores
<1>3. Entry(v, c) = None => RiskTerminal(v, c, s) \in Decision \union {None}
  <2>1. Entry(v, c) = None => matching_grant(v, c.tool) \in Grant
    BY <1>1, EntryType, GrantType
  <2> QED
    BY <1>2, <2>1, TerminalType DEF Denials, Holds
<1>4. /\ Served(v, c, None) \in Decision \union {None}
      /\ Served(v, c, s) \in Decision \union {None}
  BY <1>2, ServedType
<1>5. Entry(v, c) \in Decision \union {None}
  BY EntryType DEF Denials
<1>6. Live(v, c) \in {Entry(v, c), Served(v, c, None), RiskTerminal(v, c, s), Served(v, c, s)}
  BY DEF Live
<1>7. Live(v, c) = RiskTerminal(v, c, s) => Live(v, c) \in Decision \union {None} \/ Entry(v, c) # None
  BY <1>3
<1>8. Entry(v, c) # None => Live(v, c) = Entry(v, c)
  BY DEF Live
<1> QED
  BY <1>3, <1>4, <1>5, <1>6, <1>8
-----------------------------------------------------------------------------
(* What RowsExplained says of one row.                                      *)
Explained(row) ==
  IF row.answer = None THEN row.event \notin DenialEvents
  ELSE [FromAuditRow(row) EXCEPT !.version = row.answer.version] = row.answer

LEMMA OutcomeType == \A e \in DOMAIN Outcome : Outcome[e] \in DOMAIN Severity
BY DEF Outcome, Severity

(* The row of a call is explained by the decision it records, whatever the  *)
(* policy is by then; a call that ended in an error is explained as well.    *)
LEMMA CallRowType ==
  ASSUME TypeOK, engine' \in Versions, NEW c \in Calls, NEW d \in Decision
  PROVE  /\ \A a \in Answered(d) :
              /\ CallRow(c, d, a) \in AuditRow /\ Explained(CallRow(c, d, a))
              /\ CallRow(c, d, a).event = d.event
         /\ CallRow(c, d, None) \in AuditRow
         /\ d.event \notin DenialEvents => Explained(CallRow(c, d, None))
         /\ CallRow(c, d, None).event = d.event
<1>1. c.tool \in Tools /\ c.args \in Args
  BY DEF Calls
<1>2. d.event \in DOMAIN Outcome /\ d.rule \in Rule /\ d.score \in Scores
  BY DEF Decision
<1>3. ASSUME NEW a \in Answers \union {None}
      PROVE  /\ CallRow(c, d, a) =
                  [event |-> d.event, tool |-> c.tool, args |-> c.args, rules |-> d.rule,
                   score |-> d.score, version |-> engine', hour |-> hour, answer |-> a]
             /\ CallRow(c, d, a) \in AuditRow
  <2>1. CallRow(c, d, a) =
          [event |-> d.event, tool |-> c.tool, args |-> c.args, rules |-> d.rule,
           score |-> d.score, version |-> engine', hour |-> hour, answer |-> a]
    BY DEF CallRow, Row
  <2> QED
    BY <1>1, <1>2, <2>1 DEF AuditRow, TypeOK
<1>4. ASSUME NEW a \in Answered(d)
      PROVE  /\ CallRow(c, d, a) \in AuditRow /\ Explained(CallRow(c, d, a))
             /\ CallRow(c, d, a).event = d.event
  <2> DEFINE row == CallRow(c, d, a)
  <2>1. PICK v \in Versions : a = Answer(d.event, d.rule, d.score, v)
    BY DEF Answered, TypeOK
  <2>2. a \in Answers
    BY <1>2, <2>1, OutcomeType DEF Answer, Answers
  <2>3. row.answer = a /\ row.event = d.event /\ row.rules = d.rule
        /\ row.score = d.score /\ row \in AuditRow
    BY <1>3, <2>2
  <2>4. a # None /\ d.rule # None
    BY <1>2, <2>2, NoneAssumption
  <2>5. FromAuditRow(row) =
          [decision |-> Outcome[d.event], event |-> d.event, rules |-> d.rule,
           score |-> d.score, version |-> row.version]
    BY <1>2, <2>3, <2>4 DEF FromAuditRow
  <2>6. a.version = v /\ a = [decision |-> Outcome[d.event], event |-> d.event,
                              rules |-> d.rule, score |-> d.score, version |-> v]
    BY <2>1 DEF Answer
  <2> HIDE DEF row
  <2>7. [FromAuditRow(row) EXCEPT !.version = a.version] = a
    BY <2>5, <2>6
  <2> QED
    BY <2>3, <2>4, <2>7 DEF Explained, row
<1>5. CallRow(c, d, None).answer = None /\ CallRow(c, d, None).event = d.event
  BY <1>3
<1> QED
  BY <1>3, <1>4, <1>5 DEF Explained

(* The rows that are nobody's call.                                         *)
LEMMA AdminRowType ==
  ASSUME TypeOK, engine' \in Versions, NEW t \in Tools
  PROVE  /\ \A a \in {None, ApprovedAnswer} :
              /\ ApprovedRow(t, a) \in AuditRow /\ Explained(ApprovedRow(t, a))
         /\ \A e \in {"POLICY_ERROR", "EXPIRED"}, v \in Versions :
              LET row == Row(e, t, None, None, None, v, None)
              IN row \in AuditRow /\ Explained(row)
<1>1. \A e \in {"POLICY_ERROR", "EXPIRED"}, v \in Versions :
        LET row == Row(e, t, None, None, None, v, None)
        IN row \in AuditRow /\ Explained(row)
  <2>1. \A e \in {"POLICY_ERROR", "EXPIRED"} : e \notin DenialEvents
    BY DEF DenialEvents
  <2> QED
    BY <2>1, EventType DEF Row, AuditRow, TypeOK, Explained, Scores
<1> DEFINE answer == ApprovedAnswer
<1>2. "APPROVED" \in DOMAIN Outcome /\ "APPROVED" \notin DenialEvents
  BY DEF Outcome, DenialEvents
<1>3. answer \in Answers
  BY <1>2, OutcomeType, StageType DEF ApprovedAnswer, Answer, Answers, Scores
<1>4. \A a : ApprovedRow(t, a) =
        [event |-> "APPROVED", tool |-> t, args |-> None, rules |-> None,
         score |-> None, version |-> engine, hour |-> hour, answer |-> a]
  BY DEF ApprovedRow, Row
<1>5. \A a \in {None, answer} : ApprovedRow(t, a) \in AuditRow
  BY <1>2, <1>3, <1>4 DEF AuditRow, TypeOK, Scores
<1>6. Explained(ApprovedRow(t, None))
  <2>1. ApprovedRow(t, None).answer = None /\ ApprovedRow(t, None).event = "APPROVED"
    BY <1>4
  <2> QED
    BY <1>2, <2>1 DEF Explained
<1>7. Explained(ApprovedRow(t, answer))
  <2> DEFINE row == ApprovedRow(t, answer)
  <2>1. row.answer = answer /\ row.event = "APPROVED" /\ row.rules = None /\ row.score = None
    BY <1>4
  <2>2. Fallback(row) = Stage("admin_approval")
    BY <2>1 DEF Fallback
  <2>3. FromAuditRow(row) =
          [decision |-> Outcome["APPROVED"], event |-> "APPROVED",
           rules |-> Stage("admin_approval"), score |-> None, version |-> row.version]
    BY <1>2, <2>1, <2>2 DEF FromAuditRow
  <2>4. answer = [decision |-> Outcome["APPROVED"], event |-> "APPROVED",
                  rules |-> Stage("admin_approval"), score |-> None, version |-> engine']
    BY DEF ApprovedAnswer, Answer
  <2>5. answer # None
    BY <1>3, NoneAssumption
  <2> HIDE DEF row
  <2>6. [FromAuditRow(row) EXCEPT !.version = answer.version] = answer
    BY <2>3, <2>4
  <2> QED
    BY <2>1, <2>5, <2>6 DEF Explained, row
<1> QED
  BY <1>1, <1>5, <1>6, <1>7

(* A log that grows by explained rows.                                      *)
Grown(new) ==
  /\ new \in Seq(AuditRow) /\ log' = log \o new
  /\ \A j \in DOMAIN new : Explained(new[j])

(* What growing leaves of a log.                                            *)
LEMMA GrownType ==
  ASSUME TypeOK, NEW new, Grown(new)
  PROVE  /\ log' \in Seq(AuditRow) /\ DOMAIN log \subseteq DOMAIN log'
         /\ Len(log') = Len(log) + Len(new)
         /\ \A i \in DOMAIN log : log'[i] = log[i]
         /\ \A i \in DOMAIN log' \ DOMAIN log :
              i - Len(log) \in DOMAIN new /\ log'[i] = new[i - Len(log)]
BY DEF TypeOK, Grown

(* A step may add no row or one.                                            *)
LEMMA GrownByNone ==
  ASSUME TypeOK, log' = log
  PROVE  Grown(<<>>)
BY DEF TypeOK, Grown

LEMMA NoRow ==
  <<>> \in Seq(AuditRow) /\ \A j \in DOMAIN <<>> : Explained(<<>>[j])
OBVIOUS

LEMMA OneRow ==
  ASSUME NEW row \in AuditRow, Explained(row)
  PROVE  /\ <<row>> \in Seq(AuditRow)
         /\ \A j \in DOMAIN <<row>> : Explained(<<row>>[j])
<1>1. DOMAIN <<row>> = {1} /\ <<row>>[1] = row
  OBVIOUS
<1> QED
  BY <1>1

LEMMA GrownByOne ==
  ASSUME TypeOK, NEW row \in AuditRow, Explained(row), log' = Append(log, row)
  PROVE  Grown(<<row>>)
<1>1. log' = log \o <<row>>
  BY DEF TypeOK
<1> QED
  BY <1>1, OneRow DEF Grown

(* Held and granted calls refer to their rows, which stay.                  *)
LEMMA ReviewsType ==
  ASSUME TypeOK, NEW new, Grown(new),
         \A i \in held' \union granted' :
           \/ i \in held \union granted
           \/ /\ i = Len(log) + 1 /\ Len(new) > 0
              /\ new[1].event = "HUMAN_APPROVAL_REQUIRED"
  PROVE  /\ held' \subseteq DOMAIN log' /\ granted' \subseteq DOMAIN log'
         /\ \A i \in held' \union granted' : log'[i].event = "HUMAN_APPROVAL_REQUIRED"
<1>1. ASSUME NEW i \in held' \union granted'
      PROVE  i \in DOMAIN log' /\ log'[i].event = "HUMAN_APPROVAL_REQUIRED"
  <2>1. CASE i \in held \union granted
    <3>1. i \in DOMAIN log /\ log[i].event = "HUMAN_APPROVAL_REQUIRED"
      BY <2>1 DEF TypeOK
    <3> QED
      BY <3>1, GrownType
  <2>2. CASE i = Len(log) + 1 /\ Len(new) > 0 /\ new[1].event = "HUMAN_APPROVAL_REQUIRED"
    <3>1. log \in Seq(AuditRow) /\ new \in Seq(AuditRow) /\ log' = log \o new
      BY DEF TypeOK, Grown
    <3>2. i \in DOMAIN log' /\ log'[i] = new[1]
      BY <2>2, <3>1
    <3> QED
      BY <2>2, <3>2
  <2> QED
    BY <1>1, <2>1, <2>2
<1> QED
  BY <1>1

(* The counter of calls stays a number.                                     *)
LEMMA CountType ==
  ASSUME TypeOK, NEW c \in Calls, CountCall(c)
  PROVE  freq' \in [Tools -> Nat]
BY DEF CountCall, Calls, TypeOK

(* A redemption holds and grants nothing new.                               *)
LEMMA RedeemType ==
  ASSUME NEW c \in Calls, NEW d, Redeem(c, d)
  PROVE  held' \subseteq held /\ granted' \subseteq granted
BY DEF Redeem

(* A check of the list leaves a verdict for each tool.                      *)
LEMMA CheckedType ==
  ASSUME TypeOK, Checked
  PROVE  /\ drift' \in [Tools -> {"none", "review", "blocked"}]
         /\ drifts' \in [Tools -> Nat] /\ suspicious' \subseteq Tools
<1>1. CASE UNCHANGED status
  BY <1>1 DEF status, TypeOK
<1>2. ASSUME NEW t \in Tools, Seen(t)
      PROVE  /\ drift' \in [Tools -> {"none", "review", "blocked"}]
             /\ drifts' \in [Tools -> Nat] /\ suspicious' \subseteq Tools
  <2>1. drifts' \in [Tools -> Nat] /\ suspicious' \subseteq Tools
    BY <1>2 DEF Seen, TypeOK
  <2>2. PICK x \in {"review", "blocked"} : drift' = [drift EXCEPT ![t] = x]
    BY <1>2 DEF Seen
  <2> QED
    BY <2>1, <2>2 DEF TypeOK
<1> QED
  BY <1>1, <1>2 DEF Checked

LEMMA RefetchType ==
  ASSUME TypeOK, NEW c \in Calls, NEW d, Refetch(c, d)
  PROVE  /\ cached' \in BOOLEAN
         /\ drift' \in [Tools -> {"none", "review", "blocked"}]
         /\ drifts' \in [Tools -> Nat] /\ suspicious' \subseteq Tools
<1>1. CASE cached' = TRUE /\ Checked
  BY <1>1, CheckedType
<1>2. CASE UNCHANGED <<cached, status>>
  BY <1>2 DEF status, TypeOK
<1> QED
  BY <1>1, <1>2 DEF Refetch

(* Every outcome of a call keeps the types and appends explained rows.      *)
LEMMA CallStep ==
  ASSUME TypeOK, NEW c \in Calls, Call(c)
  PROVE  TypeOK' /\ \E new : Grown(new)
<1> DEFINE d == Live(engine, c)
<1>1. d \in Decision \union {None}
  BY LiveType DEF TypeOK
<1>2. /\ freq' \in [Tools -> Nat]
      /\ UNCHANGED <<hour, failures, decay>>
  BY CountType DEF Call
<1>8. engine' \in Versions
  BY DEF Call, Deny, Hold, Allow, Raise, Overtaken, TypeOK
<1>3. ASSUME d # None
      PROVE  /\ \A a \in Answered(d) :
                  /\ CallRow(c, d, a) \in AuditRow /\ Explained(CallRow(c, d, a))
                  /\ CallRow(c, d, a).event = d.event
             /\ CallRow(c, d, None) \in AuditRow
             /\ d.event \notin DenialEvents => Explained(CallRow(c, d, None))
             /\ CallRow(c, d, None).event = d.event
  BY <1>1, <1>3, <1>8, CallRowType
<1> HIDE DEF d
<1>4. CASE Deny(c, d)
  <2>1. PICK e \in PolicyError(c, d),
             r \in {<<>>} \union {<<CallRow(c, d, a)>> : a \in Answered(d)} :
          log' = log \o e \o r
    BY <1>4 DEF Deny
  <2> DEFINE error == Row("POLICY_ERROR", c.tool, None, None, None, engine', None)
  <2>2. e \in {<<>>, <<error>>}
    BY DEF PolicyError
  <2>3. error \in AuditRow /\ Explained(error)
    BY <1>8, AdminRowType DEF Calls
  <2>4. \A a \in Answered(d) :
          CallRow(c, d, a) \in AuditRow /\ Explained(CallRow(c, d, a))
    BY <1>3, <1>4 DEF Deny
  <2> HIDE DEF error
  <2>5. Grown(e \o r)
    <3>1. e \in Seq(AuditRow) /\ \A j \in DOMAIN e : Explained(e[j])
      <4>1. CASE e = <<>>
        BY <4>1, NoRow
      <4>2. CASE e = <<error>>
        BY <2>3, <4>2, OneRow
      <4> QED
        BY <2>2, <4>1, <4>2
    <3>2. r \in Seq(AuditRow) /\ \A j \in DOMAIN r : Explained(r[j])
      <4>1. CASE r = <<>>
        BY <4>1, NoRow
      <4>2. ASSUME NEW a \in Answered(d), r = <<CallRow(c, d, a)>>
            PROVE  r \in Seq(AuditRow) /\ \A j \in DOMAIN r : Explained(r[j])
        BY <2>4, <4>2, OneRow
      <4> QED
        BY <2>1, <4>1, <4>2
    <3>3. log' = log \o (e \o r)
      BY <2>1, <3>1, <3>2 DEF TypeOK
    <3>4. e \o r \in Seq(AuditRow) /\ \A j \in DOMAIN (e \o r) : Explained((e \o r)[j])
      BY <3>1, <3>2
    <3> QED
      BY <3>3, <3>4 DEF Grown
  <2>6. held' \subseteq held /\ granted' \subseteq granted
    BY <1>4, RedeemType DEF Deny
  <2>7. /\ held' \subseteq DOMAIN log' /\ granted' \subseteq DOMAIN log'
        /\ \A i \in held' \union granted' : log'[i].event = "HUMAN_APPROVAL_REQUIRED"
    BY <2>5, <2>6, ReviewsType
  <2>8. /\ cached' \in BOOLEAN
        /\ drift' \in [Tools -> {"none", "review", "blocked"}]
        /\ drifts' \in [Tools -> Nat] /\ suspicious' \subseteq Tools
    BY <1>4, RefetchType DEF Deny
  <2>9. denials' \in Nat /\ log' \in Seq(AuditRow)
    BY <1>4, <2>5, GrownType DEF Deny, TypeOK
  <2> QED
    BY <1>2, <1>8, <2>5, <2>7, <2>8, <2>9 DEF TypeOK
<1>5. CASE Hold(c, d)
  <2>1. UNCHANGED <<denials, cached, status, granted>>
    BY <1>5 DEF Hold
  <2>2. \E new : Grown(new) /\ (\A i \in held' \union granted' :
                                   \/ i \in held \union granted
                                   \/ /\ i = Len(log) + 1 /\ Len(new) > 0
                                      /\ new[1].event = "HUMAN_APPROVAL_REQUIRED")
    <3>1. CASE UNCHANGED <<log, held>>
      BY <2>1, <3>1, GrownByNone
    <3>2. ASSUME NEW a \in Answered(d) \union {None},
                 log' = Append(log, CallRow(c, d, a)),
                 held' \in {held, held \union (IF d.event = "CHALLENGE" THEN {}
                                               ELSE {Len(log) + 1})}
          PROVE  \E new : Grown(new) /\ (\A i \in held' \union granted' :
                                   \/ i \in held \union granted
                                   \/ /\ i = Len(log) + 1 /\ Len(new) > 0
                                      /\ new[1].event = "HUMAN_APPROVAL_REQUIRED")
      <4>1. /\ d # None /\ d.event \in {"HUMAN_APPROVAL_REQUIRED", "CHALLENGE"}
            /\ d.event \notin DenialEvents
        BY <1>5 DEF Hold, DenialEvents
      <4> DEFINE row == CallRow(c, d, a)
      <4>2. row \in AuditRow /\ Explained(row) /\ row.event = d.event
        BY <1>3, <3>2, <4>1
      <4> HIDE DEF row
      <4>3. Grown(<<row>>)
        BY <3>2, <4>2, GrownByOne DEF row
      <4>4. Len(<<row>>) > 0 /\ <<row>>[1] = row
        OBVIOUS
      <4>5. \A i \in held' \union granted' :
              i \in held \union granted \/ (i = Len(log) + 1 /\ d.event # "CHALLENGE")
        BY <2>1, <3>2
      <4> QED
        BY <4>1, <4>2, <4>3, <4>4, <4>5
    <3>3. \/ UNCHANGED <<log, held>>
          \/ \E a \in Answered(d) \union {None} :
               /\ log' = Append(log, CallRow(c, d, a))
               /\ held' \in {held, held \union (IF d.event = "CHALLENGE" THEN {}
                                                ELSE {Len(log) + 1})}
      BY <1>5 DEF Hold
    <3> QED
      BY <3>1, <3>2, <3>3
  <2>3. PICK new : /\ Grown(new)
                   /\ held' \subseteq DOMAIN log' /\ granted' \subseteq DOMAIN log'
                   /\ \A i \in held' \union granted' :
                        log'[i].event = "HUMAN_APPROVAL_REQUIRED"
    BY <2>2, ReviewsType
  <2> QED
    BY <1>2, <1>8, <2>1, <2>3, GrownType DEF TypeOK, status
<1>6. CASE Allow(c, d)
  <2>1. d # None /\ d.event \notin DenialEvents
    BY <1>6 DEF Allow, DenialEvents
  <2>2. PICK new : Grown(new)
    <3>1. \A a \in Answered(d) \union {None} :
            CallRow(c, d, a) \in AuditRow /\ Explained(CallRow(c, d, a))
      BY <1>3, <2>1
    <3>2. \/ log' = log
          \/ \E a \in Answered(d) \union {None} : log' = Append(log, CallRow(c, d, a))
      BY <1>6 DEF Allow
    <3> QED
      BY <3>1, <3>2, GrownByNone, GrownByOne
  <2>3. held' \subseteq held /\ granted' \subseteq granted /\ denials' = denials
    BY <1>6, RedeemType DEF Allow
  <2>4. /\ held' \subseteq DOMAIN log' /\ granted' \subseteq DOMAIN log'
        /\ \A i \in held' \union granted' : log'[i].event = "HUMAN_APPROVAL_REQUIRED"
    BY <2>2, <2>3, ReviewsType
  <2>5. /\ cached' \in BOOLEAN
        /\ drift' \in [Tools -> {"none", "review", "blocked"}]
        /\ drifts' \in [Tools -> Nat] /\ suspicious' \subseteq Tools
    BY <1>6, RefetchType DEF Allow
  <2> QED
    BY <1>2, <1>8, <2>2, <2>3, <2>4, <2>5, GrownType DEF TypeOK
<1>7. CASE Raise(c, d)
  <2>1. UNCHANGED <<denials, cached, status, log>>
    BY <1>7 DEF Raise
  <2>2. held' \subseteq held /\ granted' \subseteq granted
    BY <1>7, RedeemType DEF Raise
  <2>3. Grown(<<>>)
    BY <2>1, GrownByNone
  <2> QED
    BY <1>2, <1>8, <2>1, <2>2, <2>3 DEF TypeOK, status
<1> QED
  BY <1>4, <1>5, <1>6, <1>7 DEF Call, d

(* Every step keeps the types and adds explained rows only.                 *)
LEMMA NextStep ==
  ASSUME TypeOK, [Next]_vars
  PROVE  TypeOK' /\ \E new : Grown(new)
<1>1. ASSUME NEW c \in Calls, Call(c) PROVE TypeOK' /\ \E new : Grown(new)
  BY <1>1, CallStep
<1>2. ASSUME NEW i \in held, Approve(i) PROVE TypeOK' /\ \E new : Grown(new)
  <2>1. log[i] \in AuditRow
    BY DEF TypeOK
  <2>2. log[i].tool \in Tools
    BY <2>1 DEF AuditRow
  <2>9. engine' \in Versions
    BY <1>2 DEF Approve, Overtaken, TypeOK
  <2>3. PICK new : Grown(new)
    <3>1. \E a \in {None, ApprovedAnswer} :
            log' = Append(log, ApprovedRow(log[i].tool, a))
      BY <1>2 DEF Approve
    <3>2. \A a \in {None, ApprovedAnswer} :
            /\ ApprovedRow(log[i].tool, a) \in AuditRow
            /\ Explained(ApprovedRow(log[i].tool, a))
      BY <2>2, <2>9, AdminRowType
    <3> QED
      BY <3>1, <3>2, GrownByOne
  <2>4. held' \union granted' \subseteq held \union granted
    BY <1>2 DEF Approve
  <2>5. /\ held' \subseteq DOMAIN log' /\ granted' \subseteq DOMAIN log'
        /\ \A j \in held' \union granted' : log'[j].event = "HUMAN_APPROVAL_REQUIRED"
    BY <2>3, <2>4, ReviewsType
  <2>6. decay' \in [Tools -> Nat]
    <3>1. \/ decay' = decay
          \/ decay' = [decay EXCEPT ![log[i].tool] = decay[log[i].tool] + DecayStep]
      BY <1>2 DEF Approve
    <3>2. decay \in [Tools -> Nat] /\ DecayStep \in Nat
      BY DecisionAssumption DEF TypeOK
    <3>3. PICK t : t = log[i].tool
      OBVIOUS
    <3>4. t \in Tools /\ (decay' = decay \/ decay' = [decay EXCEPT ![t] = decay[t] + DecayStep])
      BY <2>2, <3>1, <3>3
    <3> QED
      BY <3>2, <3>4
  <2>7. UNCHANGED <<hour, status, freq, denials, failures, cached>>
    BY <1>2 DEF Approve
  <2>8. log' \in Seq(AuditRow)
    BY <2>3, GrownType
  <2> QED
    BY <2>3, <2>5, <2>6, <2>7, <2>8, <2>9 DEF TypeOK, status
<1>3. ASSUME NEW i \in held, Expire(i) PROVE TypeOK' /\ \E new : Grown(new)
  <2>1. log[i] \in AuditRow
    BY DEF TypeOK
  <2>2. log[i].tool \in Tools
    BY <2>1 DEF AuditRow
  <2>3. Grown(<<Row("EXPIRED", log[i].tool, None, None, None, engine, None)>>)
    BY <1>3, <2>2, AdminRowType, GrownByOne DEF Expire, TypeOK
  <2>4. held' \union granted' \subseteq held \union granted
    BY <1>3 DEF Expire
  <2>5. /\ held' \subseteq DOMAIN log' /\ granted' \subseteq DOMAIN log'
        /\ \A j \in held' \union granted' : log'[j].event = "HUMAN_APPROVAL_REQUIRED"
    BY <2>3, <2>4, ReviewsType
  <2>6. UNCHANGED <<engine, hour, status, counters, cached>>
    BY <1>3 DEF Expire
  <2>7. log' \in Seq(AuditRow)
    BY <2>3, GrownType
  <2> QED
    BY <2>3, <2>5, <2>6, <2>7 DEF TypeOK, status, counters
<1>4. CASE AuthFails
  BY <1>4, GrownByNone DEF AuthFails, TypeOK, status
<1>5. CASE CounterExpires
  <2>1. /\ freq' \in [Tools -> Nat] /\ decay' \in [Tools -> Nat]
        /\ denials' \in Nat /\ failures' \in Nat
    <3>1. CASE \E t \in Tools : freq' = [freq EXCEPT ![t] = 0]
                               /\ UNCHANGED <<denials, failures, decay>>
      BY <3>1 DEF TypeOK
    <3>2. CASE \E t \in Tools : decay' = [decay EXCEPT ![t] = 0]
                               /\ UNCHANGED <<freq, denials, failures>>
      BY <3>2 DEF TypeOK
    <3>3. CASE denials' = 0 /\ UNCHANGED <<freq, failures, decay>>
      BY <3>3 DEF TypeOK
    <3>4. CASE failures' = 0 /\ UNCHANGED <<freq, denials, decay>>
      BY <3>4 DEF TypeOK
    <3> QED
      BY <1>5, <3>1, <3>2, <3>3, <3>4 DEF CounterExpires
  <2>2. UNCHANGED <<engine, hour, status, cached, log, held, granted>>
    BY <1>5 DEF CounterExpires
  <2> QED
    BY <2>1, <2>2, GrownByNone DEF TypeOK, status
<1>6. CASE List
  BY <1>6, GrownByNone, CheckedType DEF List, TypeOK, counters
<1>7. CASE DropList
  BY <1>7, GrownByNone DEF DropList, TypeOK, counters, status
<1>8. CASE TimePasses
  BY <1>8, GrownByNone DEF TimePasses, TypeOK, counters
<1>9. CASE Activate
  BY <1>9, GrownByNone DEF Activate, TypeOK, counters, status
<1>10. ASSUME NEW t \in Tools, ApproveTool(t) PROVE TypeOK' /\ \E new : Grown(new)
  BY <1>10, GrownByNone DEF ApproveTool, TypeOK, counters
<1>11. CASE UNCHANGED vars
  BY <1>11, GrownByNone DEF vars, TypeOK
<1> QED
  BY <1>1, <1>2, <1>3, <1>4, <1>5, <1>6, <1>7, <1>8, <1>9, <1>10, <1>11 DEF Next

(* The first state has the types.                                           *)
LEMMA InitType == Init => TypeOK
<1> SUFFICES ASSUME Init PROVE TypeOK
  OBVIOUS
<1>1. log \in Seq(AuditRow) /\ held = {} /\ granted = {}
  BY DEF Init
<1>2. /\ engine \in Versions /\ hour \in {"office", "off"}
      /\ drift \in [Tools -> {"none", "review", "blocked"}]
      /\ drifts \in [Tools -> Nat] /\ suspicious \subseteq Tools
  BY DEF Init
<1>3. /\ freq \in [Tools -> Nat] /\ denials \in Nat /\ failures \in Nat
      /\ decay \in [Tools -> Nat] /\ cached \in BOOLEAN
  BY DEF Init
<1> QED
  BY <1>1, <1>2, <1>3 DEF TypeOK

(* The state of the decisions, their rows and the counters keep their types. *)
THEOREM DecisionsTypeCorrect == Spec => []TypeOK
<1>1. TypeOK /\ [Next]_vars => TypeOK'
  BY NextStep
<1> QED
  BY <1>1, InitType, PTL DEF Spec

(* Every row ever written is read back as the decision that was answered,   *)
(* but for the policy version, and no recorded denial went unanswered.      *)
THEOREM DecisionsAreExplained == Spec => []RowsExplained
<1> DEFINE Inv == TypeOK /\ \A i \in DOMAIN log : Explained(log[i])
<1>1. Init => Inv
  <2>1. Init => DOMAIN log = {}
    BY DEF Init
  <2> QED
    BY <2>1, InitType
<1>2. ASSUME Inv, [Next]_vars PROVE Inv'
  <2>1. TypeOK'
    BY <1>2, NextStep
  <2>2. PICK new : Grown(new)
    BY <1>2, NextStep
  <2>3. ASSUME NEW i \in DOMAIN log' PROVE Explained(log'[i])
    <3>1. CASE i \in DOMAIN log
      BY <1>2, <2>2, <3>1, GrownType
    <3>2. CASE i \notin DOMAIN log
      <4>1. i - Len(log) \in DOMAIN new /\ log'[i] = new[i - Len(log)]
        BY <1>2, <2>2, <2>3, <3>2, GrownType
      <4> QED
        BY <2>2, <4>1 DEF Grown
    <3> QED
      BY <3>1, <3>2
  <2> QED
    BY <2>1, <2>3
<1>3. Inv => RowsExplained
  BY DEF RowsExplained, Explained
<1> QED
  BY <1>1, <1>2, <1>3, PTL DEF Spec
-----------------------------------------------------------------------------
(* No calibration lifts a call out of the band of its static factors.       *)
THEOREM StaticFloorHolds == Spec => []StaticFloor
<1>1. TypeOK => StaticFloor
  <2> SUFFICES ASSUME TypeOK, NEW v \in Versions, NEW t \in Tools, NEW a \in Args
               PROVE  LET s == Scored(v, t, a, DryCount(t))
                          static == Lesser(Static(Factors(Context(v, t, a, 0))), 100)
                      IN /\ s \in 0..100
                         /\ Severity[threshold_outcome(s)] >= Severity[threshold_outcome(static)]
    BY DEF StaticFloor
  <2> DEFINE ctx == Context(v, t, a, DryCount(t))
             s == Scored(v, t, a, DryCount(t))
             static == Lesser(Static(Factors(Context(v, t, a, 0))), 100)
  <2>1. DryCount(t) \in Nat /\ decay[t] \in Nat
    BY DEF DryCount, TypeOK
  <2>2. ctx \in RiskContext /\ s \in 0..100
    BY <2>1, ScoredType
  <2>3. Static(Factors(Context(v, t, a, 0))) = Static(Factors(ctx))
    BY DEF Context, Factors, Static
  <2>4. s >= static
    BY <2>1, <2>2, <2>3, ScoreRange DEF Scored
  <2>5. static \in 0..100
    BY <2>2, <2>3, FactorsType DEF Lesser
  <2> HIDE DEF s, static
  <2>6. Severity[threshold_outcome(s)] >= Severity[threshold_outcome(static)]
    BY <2>2, <2>4, <2>5, BandsMonotone
  <2> QED
    BY <2>2, <2>6 DEF s, static
<1> QED
  BY <1>1, DecisionsTypeCorrect, PTL

-----------------------------------------------------------------------------
(* Every score has a band.                                                  *)
LEMMA BandType ==
  ASSUME NEW s \in 0..100
  PROVE  threshold_outcome(s) \in {"allow", "challenge", "human_approval_required", "deny"}
BY DEF threshold_outcome

(* The dry run takes the decision of a call without token up to stage 6,    *)
(* and goes on from there with the same score.                              *)
LEMMA DryRunAgrees ==
  ASSUME TypeOK, NEW v \in Versions, NEW t \in Tools, NEW a \in Args,
         NEW fails \in {"none", "drift", "score", "cache"}, NEW validate \in BOOLEAN
  PROVE  LET c    == Plain(t, a, fails)
             live == Live(v, c)
             said == Explain(v, t, a, hour, fails, validate)
             s    == IF fails = "score" THEN 100 ELSE Scored(v, t, a, freq[t] + 1)
         IN /\ ~Validated(live) => live # None /\ said = live
            /\ Validated(live) =>
                 /\ live = Served(v, c, s)
                 /\ said = IF validate /\ (fails = "cache" \/ ~cached \/ ~Valid(t, a))
                           THEN Decide("DENY_VALIDATION", Stage("param_validator"), s)
                           ELSE Decide("ALLOW", Layer(v, "rbac", 0), s)
<1> DEFINE c == Plain(t, a, fails)
           live == Live(v, c)
           said == Explain(v, t, a, hour, fails, validate)
           s == IF fails = "score" THEN 100 ELSE Scored(v, t, a, freq[t] + 1)
           g == matching_grant(v, t)
           early == FailEarly(v, g, hour)
           late == FailLate(v, g, hour, s)
           band == threshold_outcome(s)
           rbac == Decide("DENY_RBAC", Layer(v, "rbac", 0), None)
           abac == Decide("DENY_ABAC", Layer(v, "abac", First(early)), None)
           drifted == Decide("DENY_DRIFT", Stage("drift_detector"), None)
           abaclate == Decide("DENY_ABAC", Layer(v, "abac", First(late)), s)
           risk == Decide("DENY_RISK", Stage("risk_engine"), s)
           review == Decide("HUMAN_APPROVAL_REQUIRED", Stage("risk_engine"), s)
           challenge == Decide("CHALLENGE", Stage("risk_engine"), s)
           invalid == Decide("DENY_VALIDATION", Stage("param_validator"), s)
           allow == Decide("ALLOW", Layer(v, "rbac", 0), s)
           denied == g = None \/ early # {} \/ is_blocked(t) \/ fails = "drift"
           entry == IF g = None THEN rbac ELSE IF early # {} THEN abac ELSE drifted
           held6 == late # {} \/ band # "allow"
           terminal == IF late # {} THEN abaclate ELSE IF band = "deny" THEN risk
                       ELSE IF band = "human_approval_required" THEN review ELSE challenge
<1>1. freq[t] + 1 \in Nat /\ DryCount(t) = freq[t] + 1
  BY DEF TypeOK, DryCount
<1>2. s \in 0..100
  <2>1. Scored(v, t, a, freq[t] + 1) \in 0..100
    BY <1>1, ScoredType
  <2> QED
    BY <2>1
<1>3. band \in {"allow", "challenge", "human_approval_required", "deny"}
  BY <1>2, BandType
<1>4. c.tool = t /\ c.args = a /\ c.token = "none" /\ c.fails = fails
  BY DEF Plain
<1>5. \A r, x : \A e \in {"DENY_RBAC", "DENY_ABAC", "DENY_DRIFT", "DENY_RISK",
                             "HUMAN_APPROVAL_REQUIRED", "CHALLENGE"} :
        Decide(e, r, x) # None => ~Validated(Decide(e, r, x))
  BY DEF Validated, Decide
<1>6. c \in Calls
  BY DEF Plain, Calls, Tokens
<1>7. Entry(v, c) = IF denied THEN entry ELSE None
  BY <1>4 DEF Entry, RedeemDenial
<1>8. denied => entry # None
  <2>1. Entry(v, c) \in Denials \union {None} /\ (g = None => Entry(v, c) # None)
    BY <1>4, <1>6, EntryType
  <2>2. None \in Scores
    BY DEF Scores
  <2>3. rbac \in Decision /\ drifted \in Decision
    BY <2>2, DecideType, StageType, LayerType, EventType
  <2>4. ASSUME g # None, early # {} PROVE abac \in Decision
    <3>1. First(early) \in Nat
      BY <2>4, GrantType, FailType
    <3> HIDE DEF early
    <3> QED
      BY <2>2, <3>1, DecideType, LayerType, EventType
  <2> HIDE DEF rbac, abac, drifted, g, early
  <2> QED
    BY <2>3, <2>4, NoneAssumption
<1>9. RiskTerminal(v, c, s) = IF held6 THEN terminal ELSE None
  BY <1>3, <1>4 DEF RiskTerminal
<1>10. ~denied => (held6 => terminal # None)
  <2>1. s \in Scores
    BY <1>2 DEF Scores
  <2>2. risk \in Decision /\ review \in Decision /\ challenge \in Decision
    BY <2>1, DecideType, StageType, EventType
  <2>3. g # None /\ late # {} => abaclate \in Decision
    BY <2>1, GrantType, FailType, DecideType, LayerType, EventType
  <2> HIDE DEF risk, review, challenge, abaclate, late, g, band
  <2> QED
    BY <2>2, <2>3, NoneAssumption
<1>11. Live(v, c) = IF Entry(v, c) # None THEN Entry(v, c)
                    ELSE IF RiskTerminal(v, c, s) # None THEN RiskTerminal(v, c, s)
                    ELSE Served(v, c, s)
  BY <1>4 DEF Live
<1>12. said = IF denied THEN entry ELSE IF held6 THEN terminal
              ELSE IF validate /\ (fails = "cache" \/ ~cached \/ ~Valid(t, a)) THEN invalid
              ELSE allow
  BY <1>1, <1>3 DEF Explain
<1>13. denied => ~Validated(entry)
  BY <1>5, <1>8
<1>14. ~denied /\ held6 => ~Validated(terminal)
  BY <1>5, <1>10
<1>15. Validated(Served(v, c, s))
  BY DEF Served, Validated, Decide
<1> HIDE DEF c, live, said, s, g, early, late, band, denied, entry, held6, terminal, invalid, allow
<1> QED
  BY <1>7, <1>8, <1>9, <1>10, <1>11, <1>12, <1>13, <1>14, <1>15
     DEF c, live, said, s, invalid, allow

(* A dry run predicts the live call, under every policy.                    *)
THEOREM ExplanationsPredict == Spec => []ExplainPredicts
<1>1. TypeOK => ExplainPredicts
  <2> SUFFICES ASSUME TypeOK, NEW t \in Tools, NEW a \in Args,
                      NEW fails \in {"none", "drift", "score", "cache"}
               PROVE  LET live == Live(engine, Plain(t, a, fails))
                          said == Explain(engine, t, a, hour, fails, TRUE)
                      IN IF Validated(live) /\ (~cached \/ fails = "cache")
                           THEN said.event = "DENY_VALIDATION"
                         ELSE /\ said.event = live.event /\ said.rule = live.rule
                              /\ live.event # "DENY_VALIDATION" => said.score = live.score
    BY DEF ExplainPredicts
  <2> DEFINE c == Plain(t, a, fails)
             live == Live(engine, c)
             said == Explain(engine, t, a, hour, fails, TRUE)
             s == IF fails = "score" THEN 100 ELSE Scored(engine, t, a, freq[t] + 1)
             invalid(x) == Decide("DENY_VALIDATION", Stage("param_validator"), x)
             allow == Decide("ALLOW", Layer(engine, "rbac", 0), s)
  <2>1. /\ ~Validated(live) => live # None /\ said = live
        /\ Validated(live) =>
             /\ live = Served(engine, c, s)
             /\ said = IF fails = "cache" \/ ~cached \/ ~Valid(t, a) THEN invalid(s) ELSE allow
    BY DryRunAgrees DEF TypeOK
  <2>2. cached /\ fails # "cache" =>
          Served(engine, c, s) = IF ~Valid(t, a) THEN invalid(None) ELSE allow
    BY DEF Served, Plain
  <2>3. \A x : /\ invalid(x).event = "DENY_VALIDATION"
               /\ invalid(x).rule = Stage("param_validator")
    BY DEF Decide
  <2> HIDE DEF c, live, said, s, invalid, allow
  <2> QED
    BY <2>1, <2>2, <2>3 DEF live, said, c
<1> QED
  BY <1>1, DecisionsTypeCorrect, PTL

(* A simulated decision is the one a live call would get at that hour.      *)
THEOREM SimulationsPredict == Spec => []SimulationPredicts
<1>1. TypeOK => SimulationPredicts
  <2> SUFFICES ASSUME TypeOK, NEW i \in Replayed, NEW v \in Versions, log[i].hour = hour
               PROVE  LET c     == Plain(log[i].tool, log[i].args, "none")
                          live  == Live(v, c)
                          would == IF ~Validated(live) THEN live
                                   ELSE Decide("ALLOW", Layer(v, "rbac", 0),
                                               Scored(v, c.tool, c.args, freq[c.tool] + 1))
                          said  == Simulated(v, i)
                          was   == Outcome[log[i].event]
                      IN /\ summarize_compare(said, would) = {}
                         /\ summarize_historical(was, Outcome[said.event]) =
                              summarize_historical(was, Outcome[would.event])
    BY DEF SimulationPredicts
  <2> DEFINE t == log[i].tool
             a == log[i].args
             c == Plain(t, a, "none")
             would == IF ~Validated(Live(v, c)) THEN Live(v, c)
                      ELSE Decide("ALLOW", Layer(v, "rbac", 0),
                                  Scored(v, c.tool, c.args, freq[c.tool] + 1))
  <2>1. log[i] \in AuditRow /\ log[i].args # None
    BY DEF Replayed, TypeOK
  <2>2. t \in Tools /\ a \in Args
    BY <2>1 DEF AuditRow
  <2>3. c.tool = t /\ c.args = a
    BY DEF Plain
  <2>4. Explain(v, t, a, hour, "none", FALSE) =
          IF ~Validated(Live(v, c)) THEN Live(v, c)
          ELSE Decide("ALLOW", Layer(v, "rbac", 0), Scored(v, t, a, freq[t] + 1))
    BY <2>2, DryRunAgrees
  <2>5. Simulated(v, i) = Explain(v, t, a, hour, "none", FALSE)
    BY DEF Simulated
  <2>6. Simulated(v, i) = would
    BY <2>3, <2>4, <2>5
  <2>7. \A x : summarize_compare(x, x) = {}
    BY DEF summarize_compare, Outcome
  <2> HIDE DEF would
  <2>8. /\ summarize_compare(Simulated(v, i), would) = {}
        /\ summarize_historical(Outcome[log[i].event], Outcome[Simulated(v, i).event]) =
             summarize_historical(Outcome[log[i].event], Outcome[would.event])
    BY <2>6, <2>7
  <2> QED
    BY <2>8 DEF would
<1> QED
  BY <1>1, DecisionsTypeCorrect, PTL

-----------------------------------------------------------------------------
Rows(t, event) == {i \in DOMAIN log : log[i].tool = t /\ log[i].event = event}

Decided(t)  == Rows(t, "HUMAN_APPROVAL_REQUIRED") \ held
Approved(t) == Rows(t, "APPROVED")

Earned ==
  \A t \in Tools : /\ decay[t] <= DecayStep * Cardinality(Decided(t))
                   /\ decay[t] <= DecayStep * Cardinality(Approved(t))

(* Arithmetic of steps and counts.                                          *)
LEMMA StepsMonotone ==
  ASSUME NEW x \in Nat, NEW m \in Nat, NEW n \in Nat, m <= n
  PROVE  x * m <= x * n
<1>1. PICK k \in Nat : n = m + k
  BY n - m \in Nat /\ n = m + (n - m)
<1>2. x * n = x * m + x * k
  BY <1>1
<1> QED
  BY <1>2

LEMMA KeptIn ==
  ASSUME NEW x \in Nat, NEW m \in Nat, NEW n \in Nat, NEW d \in Nat, NEW e \in Nat,
         d <= x * m, m <= n, e <= d
  PROVE  e <= x * n
BY StepsMonotone

LEMMA RaisedIn ==
  ASSUME NEW x \in Nat, NEW m \in Nat, NEW n \in Nat, NEW d \in Nat,
         d <= x * m, m + 1 <= n
  PROVE  d + x <= x * n
<1>1. x * (m + 1) <= x * n
  BY StepsMonotone
<1>2. x * (m + 1) = x * m + x
  OBVIOUS
<1> QED
  BY <1>1, <1>2

(* Rows can be counted.                                                     *)
LEMMA FiniteIndices ==
  ASSUME NEW n \in Nat, NEW S, S \subseteq 1..n
  PROVE  IsFiniteSet(S) /\ Cardinality(S) \in Nat
<1>1. IsFiniteSet(1..n)
  BY FS_Interval
<1>2. IsFiniteSet(S)
  BY <1>1, FS_Subset
<1> QED
  BY <1>2, FS_CardinalityType

(* Rows stay, and so does the fact that a held call was decided.            *)
LEMMA CountsGrow ==
  ASSUME TypeOK, TypeOK', NEW new, Grown(new), held' \subseteq held \union {Len(log) + 1},
         NEW t \in Tools
  PROVE  /\ Cardinality(Decided(t)) \in Nat /\ Cardinality(Decided(t)') \in Nat
         /\ Cardinality(Approved(t)) \in Nat /\ Cardinality(Approved(t)') \in Nat
         /\ Decided(t) \subseteq Decided(t)' /\ Approved(t) \subseteq Approved(t)'
         /\ IsFiniteSet(Decided(t)') /\ IsFiniteSet(Approved(t)')
         /\ Cardinality(Decided(t)) <= Cardinality(Decided(t)')
         /\ Cardinality(Approved(t)) <= Cardinality(Approved(t)')
<1>1. Len(log) + 1 \notin DOMAIN log
  BY DEF TypeOK
<1>2. Decided(t) \subseteq Decided(t)' /\ Approved(t) \subseteq Approved(t)'
  BY <1>1, GrownType DEF Decided, Approved, Rows
<1>3. Decided(t) \subseteq DOMAIN log /\ Approved(t) \subseteq DOMAIN log
  BY DEF Decided, Approved, Rows
<1>4. Decided(t)' \subseteq DOMAIN log' /\ Approved(t)' \subseteq DOMAIN log'
  BY DEF Decided, Approved, Rows
<1>5. /\ IsFiniteSet(Decided(t)') /\ Cardinality(Decided(t)') \in Nat
      /\ IsFiniteSet(Approved(t)') /\ Cardinality(Approved(t)') \in Nat
  <2>1. DOMAIN log' = 1..Len(log') /\ Len(log') \in Nat
    BY DEF TypeOK
  <2> QED
    BY <1>4, <2>1, FiniteIndices
<1>6. Cardinality(Decided(t)) \in Nat /\ Cardinality(Approved(t)) \in Nat
  <2>1. DOMAIN log = 1..Len(log) /\ Len(log) \in Nat
    BY DEF TypeOK
  <2> QED
    BY <1>3, <2>1, FiniteIndices
<1>7. /\ Cardinality(Decided(t)) <= Cardinality(Decided(t)')
      /\ Cardinality(Approved(t)) <= Cardinality(Approved(t)')
  BY <1>2, <1>5, FS_Subset
<1> QED
  BY <1>2, <1>5, <1>6, <1>7

(* No step but approve_call raises a calibration, or puts an old row among  *)
(* the held ones.                                                           *)
LEMMA OthersStep ==
  ASSUME TypeOK, [Next]_vars
  PROVE  \/ \E i \in held : Approve(i)
         \/ /\ held' \subseteq held \union {Len(log) + 1}
            /\ \A t \in Tools : decay'[t] <= decay[t]
<1>0. \A t \in Tools : decay[t] \in Nat
  BY DEF TypeOK
<1>1. ASSUME NEW c \in Calls, Call(c)
      PROVE  held' \subseteq held \union {Len(log) + 1} /\ decay' = decay
  BY <1>1, RedeemType DEF Call, Deny, Hold, Allow, Raise
<1>2. ASSUME NEW i \in held, Expire(i) PROVE held' \subseteq held /\ decay' = decay
  BY <1>2 DEF Expire, counters
<1>3. ASSUME CounterExpires
      PROVE  held' = held /\ \A t \in Tools : decay'[t] <= decay[t]
  <2>1. \/ decay' = decay
        \/ \E t \in Tools : decay' = [decay EXCEPT ![t] = 0]
    BY <1>3 DEF CounterExpires
  <2>2. CASE decay' = decay
    BY <1>0, <1>3, <2>2 DEF CounterExpires
  <2>3. ASSUME NEW t \in Tools, decay' = [decay EXCEPT ![t] = 0]
        PROVE  \A u \in Tools : decay'[u] <= decay[u]
    <3>1. \A u \in Tools : decay'[u] = IF u = t THEN 0 ELSE decay[u]
      BY <2>3 DEF TypeOK
    <3> QED
      BY <1>0, <3>1
  <2> QED
    BY <1>3, <2>1, <2>2, <2>3 DEF CounterExpires
<1>4. ASSUME \/ AuthFails \/ List \/ DropList \/ TimePasses \/ Activate
             \/ \E t \in Tools : ApproveTool(t)
      PROVE  held' = held /\ decay' = decay
  BY <1>4 DEF AuthFails, List, DropList, TimePasses, Activate, ApproveTool, counters
<1>5. UNCHANGED vars => held' = held /\ decay' = decay
  BY DEF vars
<1> QED
  BY <1>0, <1>1, <1>2, <1>3, <1>4, <1>5 DEF Next

(* No step takes a calibration past what was earned.                        *)
LEMMA EarnedStep ==
  ASSUME TypeOK, Earned, [Next]_vars
  PROVE  Earned'
<1>1. TypeOK'
  BY NextStep
<1>2. PICK new : Grown(new)
  BY NextStep
<1>3. \A t \in Tools : decay[t] \in Nat /\ decay'[t] \in Nat
  BY <1>1 DEF TypeOK
<1>4. DecayStep \in Nat
  BY DecisionAssumption
<1>5. CASE /\ held' \subseteq held \union {Len(log) + 1}
           /\ \A t \in Tools : decay'[t] <= decay[t]
  BY <1>1, <1>2, <1>3, <1>4, <1>5, CountsGrow, KeptIn DEF Earned
<1>6. ASSUME NEW i \in held, Approve(i) PROVE Earned'
  <2> SUFFICES ASSUME NEW t \in Tools
               PROVE  /\ decay'[t] <= DecayStep * Cardinality(Decided(t)')
                      /\ decay'[t] <= DecayStep * Cardinality(Approved(t)')
    BY DEF Earned
  <2>1. held' \subseteq held \union {Len(log) + 1}
    BY <1>6 DEF Approve
  <2>2. CASE decay'[t] = decay[t]
    BY <1>1, <1>2, <1>3, <1>4, <2>1, <2>2, CountsGrow, KeptIn DEF Earned
  <2>3. CASE decay'[t] # decay[t]
    <3>1. /\ t = log[i].tool /\ decay'[t] = decay[t] + DecayStep
          /\ held' = held \ {i}
          /\ \E a \in {None, ApprovedAnswer} : log' = Append(log, ApprovedRow(t, a))
      BY <1>6, <2>3 DEF Approve, TypeOK
    <3>2. i \in DOMAIN log /\ log[i].event = "HUMAN_APPROVAL_REQUIRED"
      BY DEF TypeOK
    <3>3. i \notin Decided(t) /\ i \in Decided(t)'
      BY <1>2, <3>1, <3>2, GrownType DEF Decided, Rows
    <3>4. Len(log) + 1 \notin Approved(t) /\ Len(log) + 1 \in Approved(t)'
      <4>1. Len(log) + 1 \notin DOMAIN log /\ Len(log) + 1 \in DOMAIN log'
        BY <3>1 DEF TypeOK
      <4>2. PICK a : log'[Len(log) + 1] = ApprovedRow(t, a)
        BY <3>1 DEF TypeOK
      <4>3. ApprovedRow(t, a).tool = t /\ ApprovedRow(t, a).event = "APPROVED"
        BY DEF ApprovedRow, Row
      <4> QED
        BY <4>1, <4>2, <4>3 DEF Approved, Rows
    <3>5. /\ Cardinality(Decided(t)) \in Nat /\ Cardinality(Decided(t)') \in Nat
          /\ Cardinality(Approved(t)) \in Nat /\ Cardinality(Approved(t)') \in Nat
          /\ Decided(t) \subseteq Decided(t)' /\ Approved(t) \subseteq Approved(t)'
          /\ IsFiniteSet(Decided(t)') /\ IsFiniteSet(Approved(t)')
      BY <1>1, <1>2, <2>1, CountsGrow
    <3>6. \A S, T, x : IsFiniteSet(T) /\ S \subseteq T /\ x \in T /\ x \notin S =>
            Cardinality(S) + 1 <= Cardinality(T)
      <4> SUFFICES ASSUME NEW S, NEW T, NEW x, IsFiniteSet(T), S \subseteq T, x \in T, x \notin S
                   PROVE  Cardinality(S) + 1 <= Cardinality(T)
        OBVIOUS
      <4>1. IsFiniteSet(S) /\ S \union {x} \subseteq T
        BY FS_Subset
      <4>2. Cardinality(S \union {x}) = Cardinality(S) + 1
        BY <4>1, FS_AddElement
      <4> QED
        BY <4>1, <4>2, FS_Subset
    <3>7. /\ Cardinality(Decided(t)) + 1 <= Cardinality(Decided(t)')
          /\ Cardinality(Approved(t)) + 1 <= Cardinality(Approved(t)')
      BY <3>3, <3>4, <3>5, <3>6
    <3>8. /\ decay[t] <= DecayStep * Cardinality(Decided(t))
          /\ decay[t] <= DecayStep * Cardinality(Approved(t))
      BY DEF Earned
    <3> QED
      BY <1>3, <1>4, <3>1, <3>5, <3>7, <3>8, RaisedIn
  <2> QED
    BY <2>2, <2>3
<1> QED
  BY <1>5, <1>6, OthersStep

(* Calibration is earned by decided and approved calls, whatever fails.     *)
THEOREM CalibrationIsEarned == Spec => []CalibrationEarned
<1>1. Init => Earned
  <2> SUFFICES ASSUME Init, NEW t \in Tools
               PROVE  /\ decay[t] <= DecayStep * Cardinality(Decided(t))
                      /\ decay[t] <= DecayStep * Cardinality(Approved(t))
    BY DEF Earned
  <2>1. Decided(t) = {} /\ Approved(t) = {} /\ decay[t] = 0
    BY DEF Init, Decided, Approved, Rows
  <2>2. Cardinality(Decided(t)) = 0 /\ Cardinality(Approved(t)) = 0
    BY <2>1, FS_EmptySet
  <2> QED
    BY <2>1, <2>2, DecisionAssumption
<1>2. TypeOK /\ Earned /\ [Next]_vars => TypeOK' /\ Earned'
  BY NextStep, EarnedStep
<1>3. Earned => CalibrationEarned
  BY DEF Earned, CalibrationEarned, Decided, Approved, Rows
<1> QED
  BY <1>1, <1>2, <1>3, InitType, PTL DEF Spec
=============================================================================
