------------------------- MODULE CallPipelineProofs -------------------------
(* What a call that reached the upstream went through, for any number of    *)
(* sessions, approvals, challenges and codes, under every failure,          *)
(* cancellation, policy swap, drift and restart of CallPipeline.            *)
EXTENDS CallPipeline, FiniteSetTheorems, TLAPS

CallsOK ==
  /\ pc \in [Sessions -> {"idle"} \union Stages]
  /\ call \in [Sessions -> Call \union {None}]
  /\ \A s \in Sessions : call[s] = None <=> pc[s] = "idle"

StoresOK ==
  /\ seen \in SUBSET Nonces
  /\ approvals \in [ApprovalIds -> Approval \union {None}]
  /\ holder \in [ApprovalIds -> Sessions \union {Admin, None}]
  /\ \A i \in ApprovalIds : holder[i] # None => approvals[i] # None
  /\ challenges \in [ChallengeIds -> Challenge \union {None}]
  /\ used \in SUBSET Codes

WorldOK ==
  /\ engine \in Policies
  /\ drifted \in BOOLEAN /\ blocked \in BOOLEAN
  /\ forwarded \in SUBSET Call
  /\ arrived \in 0..MaxCalls
  /\ changes \in 0..MaxChanges

LEMMA TypeParts == TypeOK <=> CallsOK /\ StoresOK /\ WorldOK
BY DEF TypeOK, CallsOK, StoresOK, WorldOK

(* The columns and stages a step sets.                                      *)
LEMMA Learned ==
  ASSUME NEW c \in Call
  PROVE  /\ \A p \in Policies : [c EXCEPT !["policy"] = p] \in Call
         /\ \A b \in Bands : [c EXCEPT !["band"] = b] \in Call
         /\ [c EXCEPT !["verified"] = TRUE] \in Call
         /\ \A b \in BOOLEAN : [c EXCEPT !.ownDrift = b] \in Call
         /\ \A P \in SUBSET {"grant", "unblocked"} :
              [c EXCEPT !.inForce = @ \union P] \in Call
<1>1. \A p \in Policies : [c EXCEPT !["policy"] = p] \in Call
  BY DEF Call
<1>2. \A b \in Bands : [c EXCEPT !["band"] = b] \in Call
  BY DEF Call
<1>3. [c EXCEPT !["verified"] = TRUE] \in Call
  BY DEF Call
<1>4. \A b \in BOOLEAN : [c EXCEPT !.ownDrift = b] \in Call
  BY DEF Call
<1>5. \A P \in SUBSET {"grant", "unblocked"} :
              [c EXCEPT !.inForce = @ \union P] \in Call
  BY DEF Call
<1> QED
  BY <1>1, <1>2, <1>3, <1>4, <1>5

(* One session's call moves on, ends, or is gone.                           *)
LEMMA Moved ==
  ASSUME CallsOK, NEW s \in Sessions, NEW b \in Stages, Go(s, b),
         \/ pc[s] # "idle" /\ UNCHANGED call
         \/ \E c \in Call : call' = [call EXCEPT ![s] = c]
  PROVE  CallsOK'
<1>1. b # "idle" /\ None \notin Call
  BY NoRecordAssumption DEF Stages
<1>2. CASE pc[s] # "idle" /\ UNCHANGED call
  BY <1>1, <1>2 DEF CallsOK, Go
<1>3. CASE \E c \in Call : call' = [call EXCEPT ![s] = c]
  BY <1>1, <1>3 DEF CallsOK, Go
<1> QED
  BY <1>2, <1>3

LEMMA Ended ==
  ASSUME CallsOK, NEW s \in Sessions, Finish(s)
  PROVE  CallsOK'
BY DEF CallsOK, Finish, Go, Stages

LEMMA PermitsType == Permits \in SUBSET {"grant", "unblocked"}
BY DEF Permits

(* The calls of all sessions, after the world has changed under them.       *)
LEMMA Witnessed ==
  ASSUME NEW calls \in [Sessions -> Call \union {None}], call' = Witness(calls)
  PROVE  /\ call' \in [Sessions -> Call \union {None}]
         /\ \A u \in Sessions :
              /\ calls[u] = None => call'[u] = None
              /\ calls[u] # None =>
                   /\ call'[u] \in Call
                   /\ call'[u] = [calls[u] EXCEPT !.inForce = @ \union Permits']
<1>1. Permits' \in SUBSET {"grant", "unblocked"}
  BY DEF Permits
<1>2. call' = [u \in Sessions |-> IF calls[u] = None THEN None
                 ELSE [calls[u] EXCEPT !.inForce = @ \union Permits']]
  BY DEF Witness
<1>3. ASSUME NEW u \in Sessions, calls[u] # None
      PROVE  [calls[u] EXCEPT !.inForce = @ \union Permits'] \in Call
  <2>1. calls[u] \in Call
    BY <1>3
  <2> QED
    BY <1>1, <2>1, Learned
<1> QED
  BY <1>2, <1>3

LEMMA CallOf ==
  ASSUME CallsOK, NEW s \in Sessions, pc[s] # "idle"
  PROVE  call[s] \in Call
BY DEF CallsOK

LEMMA CallsStep ==
  ASSUME CallsOK, WorldOK, Next
  PROVE  CallsOK'
<1>1. ASSUME NEW s \in Sessions, Receive(s) PROVE CallsOK'
  <2>1. PICK args \in Args, nonce \in Nonces \union {None},
             approval \in {i \in ApprovalIds : approvals[i] # None} \union {None},
             challenge \in {c \in ChallengeIds : challenges[c] # None} \union {None},
             code \in Codes \union {None} :
               /\ challenge = None => code = None
               /\ call' = [call EXCEPT ![s] = Fresh(args, nonce, approval, challenge, code)]
               /\ CheckNonce(s, nonce)
    BY <1>1, Zenon DEF Receive
  <2>2. arrived + 1 \in 1..MaxCalls
    BY <1>1, PipelineAssumption DEF Receive, WorldOK
  <2>3. Fresh(args, nonce, approval, challenge, code) \in Call
    BY <2>2, PermitsType DEF Call, Fresh
  <2>4. Go(s, "authorize") \/ Go(s, "refuse")
    BY <2>1 DEF CheckNonce, Refuse
  <2> QED
    BY <2>1, <2>3, <2>4, Moved DEF Stages
<1>2. ASSUME NEW s \in Sessions, Authorize(s) \/ DedupCode(s) \/ Score(s)
      PROVE  CallsOK'
  <2>1. pc[s] # "idle" /\ call[s] \in Call
    BY <1>2, CallOf DEF Authorize, DedupCode, Score
  <2>2. CASE UNCHANGED call /\ Refuse(s)
    BY <2>1, <2>2, Moved DEF Refuse, Stages
  <2>3. CASE /\ \/ Learn(s, "policy", engine) \/ Learn(s, "verified", TRUE)
                \/ \E band \in Bands : Learn(s, "band", band)
             /\ \E b \in Stages : Go(s, b)
    <3>1. \E c \in Call : call' = [call EXCEPT ![s] = c]
      <4>1. CASE Learn(s, "policy", engine)
        BY <2>1, <4>1, Learned DEF Learn, CallsOK, WorldOK
      <4>2. CASE Learn(s, "verified", TRUE)
        BY <2>1, <4>2, Learned DEF Learn, CallsOK
      <4>3. CASE \E band \in Bands : Learn(s, "band", band)
        BY <2>1, <4>3, Learned DEF Learn, CallsOK
      <4> QED
        BY <2>3, <4>1, <4>2, <4>3
    <3> QED
      BY <2>3, <3>1, Moved
  <2> QED
    BY <1>2, <2>2, <2>3 DEF Authorize, DedupCode, Score, Refuse, AfterScore, Stages
<1>3. ASSUME NEW s \in Sessions,
             \/ DriftStatus(s) \/ TakeChallenge(s) \/ Hold(s) \/ IssueApproval(s)
             \/ IssueChallenge(s) \/ IssueNothing(s) \/ LockApproval(s)
             \/ ConsumeApproval(s) \/ RefuseApproval(s) \/ RedeemFails(s)
             \/ Validate(s) \/ AskUpstream(s) \/ RecordAllow(s)
      PROVE  CallsOK'
  <2>1. pc[s] # "idle" /\ UNCHANGED call
    BY <1>3 DEF DriftStatus, TakeChallenge, Hold, IssueApproval, IssueChallenge,
         IssueNothing, LockApproval, ConsumeApproval, RefuseApproval, RedeemFails,
         Validate, AskUpstream, RecordAllow, stores
  <2>2. \E b \in Stages : Go(s, b)
    BY <1>3 DEF DriftStatus, TakeChallenge, Hold, IssueApproval, IssueChallenge,
         IssueNothing, LockApproval, ConsumeApproval, RefuseApproval, RedeemFails,
         Validate, AskUpstream, RecordAllow, Refuse, Stages
  <2> QED
    BY <2>1, <2>2, Moved
<1>4. ASSUME NEW s \in Sessions, Refetch(s) PROVE CallsOK'
  <2>1. pc[s] # "idle" /\ call[s] \in Call
    BY <1>4, CallOf DEF Refetch
  <2>2. CASE Refuse(s) /\ UNCHANGED call
    BY <2>1, <2>2, Moved DEF Refuse, Stages
  <2>3. CASE /\ call' = Witness([call EXCEPT ![s].ownDrift = drifted])
             /\ Go(s, "allow") \/ Refuse(s) 
    <3> DEFINE calls == [call EXCEPT ![s].ownDrift = drifted]
    <3>1. /\ calls \in [Sessions -> Call \union {None}]
          /\ \A u \in Sessions : calls[u] = None <=> call[u] = None
      <4>1. [call[s] EXCEPT !.ownDrift = drifted] \in Call
        BY <2>1, Learned DEF WorldOK
      <4>2. calls = [call EXCEPT ![s] = [call[s] EXCEPT !.ownDrift = drifted]]
        BY DEF CallsOK
      <4> QED
        BY <2>1, <4>1, <4>2, NoRecordAssumption DEF CallsOK
    <3>2. /\ call' \in [Sessions -> Call \union {None}]
          /\ \A u \in Sessions : call[u] = None <=> call'[u] = None
      <4> HIDE DEF calls
      <4>1. call' = Witness(calls)
        BY <2>3 DEF calls
      <4>2. /\ call' \in [Sessions -> Call \union {None}]
            /\ \A u \in Sessions : /\ calls[u] = None => call'[u] = None
                                   /\ calls[u] # None => call'[u] \in Call
        BY <3>1, <4>1, Witnessed
      <4> QED
        BY <3>1, <4>2, NoRecordAssumption
    <3> QED
      BY <2>1, <2>3, <3>2 DEF CallsOK, Refuse, Go, Stages
  <2> QED
    BY <1>4, <2>2, <2>3 DEF Refetch
<1>5. ASSUME NEW s \in Sessions, Dispatch(s) \/ Answer(s) \/ Cancel(s) PROVE CallsOK'
  BY <1>5, Ended DEF Dispatch, Answer, Cancel
<1>6. ASSUME Swap \/ Relist \/ Reapprove PROVE CallsOK'
  <2>1. call' = Witness(call) /\ UNCHANGED pc
    BY <1>6 DEF Swap, Relist, Reapprove
  <2> QED
    BY <2>1, Witnessed, NoRecordAssumption DEF CallsOK
<1>7. ASSUME Restart PROVE CallsOK'
  BY <1>7 DEF Restart, CallsOK
<1>8. ASSUME UNCHANGED <<pc, call>> PROVE CallsOK'
  BY <1>8 DEF CallsOK
<1> QED
  BY <1>1, <1>2, <1>3, <1>4, <1>5, <1>6, <1>7, <1>8
     DEF Next, Stage, Locked, EndApproval, Review, AuditApproval, CommitApproval,
         RollBackApproval, ExpireApproval, Lapse, DropChallenge, Drift

LEMMA ApprovalOf ==
  ASSUME StoresOK, NEW i \in ApprovalIds, approvals[i] # None
  PROVE  approvals[i] \in Approval
BY DEF StoresOK

(* The ids a call carries are ids of the tables.                            *)
Named ==
  \A s \in Sessions : pc[s] # "idle" =>
    /\ call[s].approval # None => approvals[call[s].approval] # None
    /\ call[s].challenge # None => challenges[call[s].challenge] # None
    /\ pc[s] = "redeem" => call[s].approval # None
    /\ pc[s] = "challenge" => call[s].challenge # None
    /\ pc[s] = "code" => call[s].code # None

(* What is in the stores and the log, and will not be taken back.           *)
KeptApprovals ==
  \A i \in ApprovalIds : approvals[i] # None =>
    /\ approvals'[i] # None
    /\ approvals'[i].args = approvals[i].args /\ approvals'[i].audit = approvals[i].audit
    /\ approvals[i].status = "approved" => approvals'[i].status = "approved"
    /\ approvals[i].consumed => approvals'[i].consumed

KeptChallenges ==
  \A i \in ChallengeIds : challenges[i] # None =>
    /\ challenges'[i] # None /\ challenges'[i].args = challenges[i].args
    /\ ~challenges[i].live => ~challenges'[i].live

ApprovalsOK == approvals \in [ApprovalIds -> Approval \union {None}]
ChallengesOK == challenges \in [ChallengeIds -> Challenge \union {None}]
HoldersOK ==
  /\ holder \in [ApprovalIds -> Sessions \union {Admin, None}]
  /\ \A i \in ApprovalIds : holder[i] # None => approvals[i] # None

LEMMA ApprovalWrites ==
  ASSUME StoresOK, NEW i \in ApprovalIds
  PROVE  /\ \/ UNCHANGED approvals
            \/ /\ approvals[i] # None
               /\ \/ approvals' = [approvals EXCEPT ![i].consumed = TRUE]
                  \/ approvals' = [approvals EXCEPT ![i].lapsed = TRUE]
                  \/ approvals' = [approvals EXCEPT ![i].status = "approved"]
                  \/ /\ approvals[i].status = "pending"
                     /\ approvals' = [approvals EXCEPT ![i].status = "expired"]
            => ApprovalsOK' /\ KeptApprovals
         /\ \A n \in 0..MaxCalls, args \in Args :
              approvals[i] = None /\ approvals' = [approvals EXCEPT ![i] = Requested(n, args)]
              => ApprovalsOK' /\ KeptApprovals
<1>1. ASSUME UNCHANGED approvals PROVE ApprovalsOK' /\ KeptApprovals
  BY <1>1 DEF StoresOK, ApprovalsOK, KeptApprovals
<1>2. ASSUME approvals[i] # None,
             \/ approvals' = [approvals EXCEPT ![i].consumed = TRUE]
             \/ approvals' = [approvals EXCEPT ![i].lapsed = TRUE]
             \/ approvals' = [approvals EXCEPT ![i].status = "approved"]
             \/ /\ approvals[i].status = "pending"
                /\ approvals' = [approvals EXCEPT ![i].status = "expired"]
      PROVE  ApprovalsOK' /\ KeptApprovals
  <2> DEFINE Kin(r) ==
        /\ r.args = approvals[i].args /\ r.audit = approvals[i].audit
        /\ approvals[i].status = "approved" => r.status = "approved"
        /\ approvals[i].consumed => r.consumed
  <2>1. approvals[i] \in Approval /\ approvals \in [ApprovalIds -> Approval \union {None}]
    BY <1>2, ApprovalOf DEF StoresOK
  <2>2. \E r \in Approval : Kin(r) /\ approvals' = [approvals EXCEPT ![i] = r]
    <3>1. CASE approvals' = [approvals EXCEPT ![i].consumed = TRUE]
      <4>1. [approvals[i] EXCEPT !.consumed = TRUE] \in Approval
        BY <2>1 DEF Approval
      <4>2. Kin([approvals[i] EXCEPT !.consumed = TRUE])
        BY <2>1 DEF Approval
      <4> QED
        BY <2>1, <3>1, <4>1, <4>2
    <3>2. CASE approvals' = [approvals EXCEPT ![i].lapsed = TRUE]
      <4>1. [approvals[i] EXCEPT !.lapsed = TRUE] \in Approval
        BY <2>1 DEF Approval
      <4>2. Kin([approvals[i] EXCEPT !.lapsed = TRUE])
        BY <2>1 DEF Approval
      <4> QED
        BY <2>1, <3>2, <4>1, <4>2
    <3>3. CASE approvals' = [approvals EXCEPT ![i].status = "approved"]
      <4>1. [approvals[i] EXCEPT !.status = "approved"] \in Approval
        BY <2>1 DEF Approval
      <4>2. Kin([approvals[i] EXCEPT !.status = "approved"])
        BY <2>1 DEF Approval
      <4> QED
        BY <2>1, <3>3, <4>1, <4>2
    <3>4. CASE /\ approvals[i].status = "pending"
               /\ approvals' = [approvals EXCEPT ![i].status = "expired"]
      <4>1. [approvals[i] EXCEPT !.status = "expired"] \in Approval
        BY <2>1 DEF Approval
      <4>2. Kin([approvals[i] EXCEPT !.status = "expired"])
        BY <2>1, <3>4 DEF Approval
      <4> QED
        BY <2>1, <3>4, <4>1, <4>2
    <3> QED
      BY <1>2, <3>1, <3>2, <3>3, <3>4
  <2>3. PICK r \in Approval : Kin(r) /\ approvals' = [approvals EXCEPT ![i] = r]
    BY <2>2
  <2>4. ApprovalsOK' /\ r # None
    BY <2>1, <2>3, NoRecordAssumption DEF ApprovalsOK
  <2> QED
    BY <2>1, <2>3, <2>4 DEF KeptApprovals
<1>3. ASSUME NEW n \in 0..MaxCalls, NEW args \in Args, approvals[i] = None,
             approvals' = [approvals EXCEPT ![i] = Requested(n, args)]
      PROVE  ApprovalsOK' /\ KeptApprovals
  BY <1>3 DEF ApprovalsOK, KeptApprovals, StoresOK, Requested, Approval
<1> QED
  BY <1>1, <1>2, <1>3

LEMMA ChallengeWrites ==
  ASSUME StoresOK, NEW i \in ChallengeIds
  PROVE  /\ \/ UNCHANGED challenges
            \/ challenges[i] # None /\ challenges' = [challenges EXCEPT ![i].live = FALSE]
            => ChallengesOK' /\ KeptChallenges
         /\ \A args \in Args :
              /\ challenges[i] = None
              /\ challenges' = [challenges EXCEPT ![i] = [args |-> args, live |-> TRUE]]
              => ChallengesOK' /\ KeptChallenges
<1>1. ASSUME UNCHANGED challenges PROVE ChallengesOK' /\ KeptChallenges
  BY <1>1 DEF StoresOK, ChallengesOK, KeptChallenges
<1>2. ASSUME challenges[i] # None, challenges' = [challenges EXCEPT ![i].live = FALSE]
      PROVE  ChallengesOK' /\ KeptChallenges
  <2>1. challenges[i] \in Challenge /\ ChallengesOK
    BY <1>2 DEF StoresOK, ChallengesOK
  <2>2. ChallengesOK'
    BY <1>2, <2>1 DEF ChallengesOK, Challenge
  <2>3. /\ \A j \in ChallengeIds : j # i => challenges'[j] = challenges[j]
        /\ challenges'[i] # None
        /\ challenges'[i].args = challenges[i].args /\ ~challenges'[i].live
    BY <1>2, <2>1, NoRecordAssumption DEF ChallengesOK, Challenge
  <2> QED
    BY <2>2, <2>3 DEF KeptChallenges
<1>3. ASSUME NEW args \in Args, challenges[i] = None,
             challenges' = [challenges EXCEPT ![i] = [args |-> args, live |-> TRUE]]
      PROVE  ChallengesOK' /\ KeptChallenges
  BY <1>3 DEF ChallengesOK, KeptChallenges, StoresOK, Challenge
<1> QED
  BY <1>1, <1>2, <1>3

LEMMA ApprovalsStep ==
  ASSUME CallsOK, StoresOK, Named, Next
  PROVE  ApprovalsOK' /\ KeptApprovals
<1>0. ASSUME NEW s \in Sessions, pc[s] # "idle", call[s].approval # None
      PROVE  call[s].approval \in ApprovalIds /\ approvals[call[s].approval] # None
  <2>1. call[s] \in Call
    BY <1>0, CallOf
  <2> QED
    BY <1>0, <2>1 DEF Named, Call
<1>1. ASSUME NEW s \in Sessions, IssueApproval(s) PROVE ApprovalsOK' /\ KeptApprovals
  <2>1. call[s] \in Call
    BY <1>1, CallOf DEF IssueApproval
  <2>2. call[s].n \in 0..MaxCalls /\ call[s].args \in Args
    BY <2>1, PipelineAssumption DEF Call
  <2>3. PICK id \in {i \in ApprovalIds : approvals[i] = None} :
          approvals' = [approvals EXCEPT ![id] = Requested(call[s].n, call[s].args)]
    BY <1>1 DEF IssueApproval
  <2> QED
    BY <2>2, <2>3, ApprovalWrites
<1>2. ASSUME NEW s \in Sessions, ConsumeApproval(s) PROVE ApprovalsOK' /\ KeptApprovals
  <2>1. call[s].approval \in ApprovalIds /\ approvals[call[s].approval] # None
    BY <1>0, <1>2 DEF ConsumeApproval, Named
  <2>2. approvals' = [approvals EXCEPT ![call[s].approval].consumed = TRUE]
    BY <1>2 DEF ConsumeApproval
  <2> QED
    BY <2>1, <2>2, ApprovalWrites
<1>3. ASSUME NEW s \in Sessions, RefuseApproval(s) PROVE ApprovalsOK' /\ KeptApprovals
  <2>1. call[s].approval \in ApprovalIds /\ approvals[call[s].approval] # None
    BY <1>0, <1>3 DEF RefuseApproval
  <2>2. \/ UNCHANGED approvals
        \/ /\ approvals[call[s].approval].status = "pending"
           /\ approvals' = [approvals EXCEPT ![call[s].approval].status = "expired"]
    BY <1>3 DEF RefuseApproval
  <2> QED
    BY <2>1, <2>2, ApprovalWrites
<1>4. ASSUME NEW i \in ApprovalIds, CommitApproval(i) PROVE ApprovalsOK' /\ KeptApprovals
  <2>1. approvals[i] # None
    BY <1>4, PipelineAssumption DEF CommitApproval, StoresOK
  <2> QED
    BY <1>4, <2>1, ApprovalWrites DEF CommitApproval
<1>5. ASSUME NEW i \in ApprovalIds, ExpireApproval(i) \/ Lapse(i)
      PROVE  ApprovalsOK' /\ KeptApprovals
  BY <1>5, ApprovalWrites DEF ExpireApproval, Lapse
<1>6. ASSUME UNCHANGED approvals PROVE ApprovalsOK' /\ KeptApprovals
  BY <1>6 DEF StoresOK, ApprovalsOK, KeptApprovals
<1> QED
  BY <1>1, <1>2, <1>3, <1>4, <1>5, <1>6
     DEF Next, Stage, Locked, EndApproval, Receive, Authorize, DriftStatus, TakeChallenge,
         DedupCode, Score, Hold, IssueChallenge, IssueNothing, Validate, AskUpstream, Refetch,
         RecordAllow, Dispatch, Answer, LockApproval, RedeemFails, Cancel, Review, AuditApproval,
         RollBackApproval, DropChallenge, Swap, Drift, Relist, Reapprove, Restart, stores

LEMMA ChallengesStep ==
  ASSUME CallsOK, StoresOK, Named, Next
  PROVE  ChallengesOK' /\ KeptChallenges
<1>1. ASSUME NEW s \in Sessions, TakeChallenge(s) PROVE ChallengesOK' /\ KeptChallenges
  <2>1. call[s] \in Call /\ call[s].challenge # None
    BY <1>1, CallOf DEF TakeChallenge, Named
  <2>2. call[s].challenge \in ChallengeIds /\ challenges[call[s].challenge] # None
    BY <1>1, <2>1 DEF TakeChallenge, Named, Call
  <2>3. \/ UNCHANGED challenges
        \/ challenges' = [challenges EXCEPT ![call[s].challenge].live = FALSE]
    BY <1>1 DEF TakeChallenge
  <2> QED
    BY <2>2, <2>3, ChallengeWrites
<1>2. ASSUME NEW s \in Sessions, IssueChallenge(s) PROVE ChallengesOK' /\ KeptChallenges
  <2>1. call[s] \in Call
    BY <1>2, CallOf DEF IssueChallenge
  <2>2. call[s].args \in Args
    BY <2>1 DEF Call
  <2>3. PICK id \in {c \in ChallengeIds : challenges[c] = None} :
          challenges' = [challenges EXCEPT ![id] = [args |-> call[s].args, live |-> TRUE]]
    BY <1>2 DEF IssueChallenge
  <2> QED
    BY <2>2, <2>3, ChallengeWrites
<1>3. ASSUME NEW i \in ChallengeIds, DropChallenge(i) PROVE ChallengesOK' /\ KeptChallenges
  BY <1>3, ChallengeWrites DEF DropChallenge
<1>4. ASSUME UNCHANGED challenges PROVE ChallengesOK' /\ KeptChallenges
  BY <1>4 DEF StoresOK, ChallengesOK, KeptChallenges
<1> QED
  BY <1>1, <1>2, <1>3, <1>4
     DEF Next, Stage, Locked, EndApproval, Receive, Authorize, DriftStatus, DedupCode,
         Score, Hold, IssueApproval, IssueNothing, ConsumeApproval, Validate, AskUpstream,
         Refetch,
         RecordAllow, Dispatch, Answer, LockApproval, RefuseApproval, RedeemFails, Cancel,
         Review, AuditApproval, CommitApproval, RollBackApproval, ExpireApproval, Lapse, Swap,
         Drift, Relist, Reapprove, Restart, stores

LEMMA HoldersStep ==
  ASSUME CallsOK, StoresOK, Named, Next
  PROVE  HoldersOK'
<1>0. /\ \A i \in ApprovalIds : approvals[i] # None => approvals'[i] # None
      /\ holder \in [ApprovalIds -> Sessions \union {Admin, None}]
      /\ \A i \in ApprovalIds : holder[i] # None => approvals[i] # None
  BY ApprovalsStep DEF KeptApprovals, StoresOK
<1>1. ASSUME NEW s \in Sessions, LockApproval(s) PROVE HoldersOK'
  <2>1. call[s] \in Call
    BY <1>1, CallOf DEF LockApproval
  <2>2. call[s].approval \in ApprovalIds /\ approvals[call[s].approval] # None
    BY <1>1, <2>1 DEF LockApproval, Named, Call
  <2> QED
    BY <1>0, <1>1, <2>2 DEF LockApproval, HoldersOK
<1>2. ASSUME NEW i \in ApprovalIds, Review(i) PROVE HoldersOK'
  BY <1>0, <1>2 DEF Review, HoldersOK
<1>3. ASSUME \/ UNCHANGED holder \/ \E i : holder' = [holder EXCEPT ![i] = None]
             \/ holder' = [i \in ApprovalIds |-> None]
             \/ \E s \in Sessions : holder' =
                  [i \in ApprovalIds |-> IF holder[i] = s THEN None ELSE holder[i]]
      PROVE  HoldersOK'
  BY <1>0, <1>3 DEF HoldersOK
<1> QED
  BY <1>1, <1>2, <1>3
     DEF Next, Stage, Locked, EndApproval, Receive, Authorize, DriftStatus, TakeChallenge,
         DedupCode, Score, Hold, IssueApproval, IssueChallenge, IssueNothing,
         ConsumeApproval, Validate, AskUpstream,
         Refetch, RecordAllow, Dispatch, Answer, RefuseApproval,
         RedeemFails, Cancel, AuditApproval, CommitApproval, RollBackApproval, ExpireApproval,
         Lapse, DropChallenge, Swap, Drift, Relist, Reapprove, Restart, stores

(* The call of a session that does not move: only what made it permissible  *)
(* grows.                                                                   *)
SameRequest(c, d) ==
  /\ d.n = c.n /\ d.args = c.args /\ d.nonce = c.nonce
  /\ d.approval = c.approval /\ d.challenge = c.challenge /\ d.code = c.code

SameCall(c, d) ==
  /\ SameRequest(c, d)
  /\ d.policy = c.policy /\ d.band = c.band /\ d.verified = c.verified
  /\ c.inForce \subseteq d.inForce

Quiet(u) == pc'[u] = pc[u] /\ (pc[u] # "idle" => SameCall(call[u], call'[u]))

SessionStep(s) ==
  Receive(s) \/ Stage(s) \/ Locked(s) \/ RedeemFails(s) \/ Cancel(s)

LEMMA SameItself ==
  ASSUME NEW c
  PROVE  SameCall(c, c)
BY DEF SameCall, SameRequest

(* Witness changes no call but for inForce.                                 *)
LEMMA WitnessIsQuiet ==
  ASSUME NEW calls \in [Sessions -> Call \union {None}], call' = Witness(calls),
         NEW u \in Sessions, calls[u] # None
  PROVE  SameCall(calls[u], call'[u]) /\ Permits' \subseteq call'[u].inForce
<1>1. calls[u] \in Call /\ call'[u] = [calls[u] EXCEPT !.inForce = @ \union Permits']
  BY Witnessed
<1> QED
  BY <1>1 DEF SameCall, SameRequest, Call

Marked(s) == [call EXCEPT ![s].ownDrift = drifted]

LEMMA OwnDrift ==
  ASSUME CallsOK, WorldOK, NEW s \in Sessions, pc[s] # "idle"
  PROVE  /\ Marked(s) \in [Sessions -> Call \union {None}]
         /\ \A u \in Sessions : u # s => Marked(s)[u] = call[u]
         /\ Marked(s)[s] # None /\ SameCall(call[s], Marked(s)[s])
<1>1. call[s] \in Call
  BY CallOf
<1>2. [call[s] EXCEPT !.ownDrift = drifted] \in Call
  BY <1>1, Learned DEF WorldOK
<1>3. Marked(s) = [call EXCEPT ![s] = [call[s] EXCEPT !.ownDrift = drifted]]
  BY DEF CallsOK, Marked
<1>4. Marked(s)[s] = [call[s] EXCEPT !.ownDrift = drifted]
  BY <1>3 DEF CallsOK
<1>5. SameCall(call[s], Marked(s)[s])
  BY <1>1, <1>4 DEF SameCall, SameRequest, Call
<1> QED
  BY <1>2, <1>3, <1>4, <1>5, NoRecordAssumption DEF CallsOK

LEMMA QuietOthers ==
  ASSUME CallsOK, WorldOK, NEW s \in Sessions, SessionStep(s),
         NEW u \in Sessions, u # s
  PROVE  Quiet(u)
<1>1. ASSUME pc'[u] = pc[u], call'[u] = call[u] PROVE Quiet(u)
  BY <1>1, SameItself DEF Quiet
<1>2. CASE Receive(s)
  <2>1. (\E b : Go(s, b)) /\ \E c : call' = [call EXCEPT ![s] = c]
    BY <1>2 DEF Receive, CheckNonce, Refuse
  <2> QED
    BY <1>1, <2>1 DEF Go, CallsOK
<1>3. CASE Authorize(s) \/ DedupCode(s) \/ Score(s)
  BY <1>1, <1>3 DEF Authorize, DedupCode, Score, Refuse, Go, Learn, CallsOK
<1>4. CASE \/ DriftStatus(s) \/ TakeChallenge(s) \/ Hold(s) \/ IssueApproval(s)
           \/ IssueChallenge(s) \/ IssueNothing(s) \/ LockApproval(s)
           \/ ConsumeApproval(s) \/ RefuseApproval(s) \/ RedeemFails(s)
           \/ Validate(s) \/ AskUpstream(s) \/ RecordAllow(s)
  <2>1. (\E b : Go(s, b)) /\ UNCHANGED call
    BY <1>4 DEF DriftStatus, TakeChallenge, Hold, IssueApproval, IssueChallenge,
         IssueNothing, LockApproval, ConsumeApproval, RefuseApproval, RedeemFails,
         Validate, AskUpstream, RecordAllow, Refuse
  <2> QED
    BY <1>1, <2>1 DEF Go, CallsOK
<1>5. CASE Refetch(s)
  <2>0. pc'[u] = pc[u] /\ pc[s] # "idle"
    BY <1>5 DEF Refetch, Refuse, Go, CallsOK
  <2>1. CASE UNCHANGED call
    BY <1>1, <2>0, <2>1
  <2>2. CASE call' = Witness([call EXCEPT ![s].ownDrift = drifted])
    <3>1. Marked(s) \in [Sessions -> Call \union {None}] /\ Marked(s)[u] = call[u]
      BY <2>0, OwnDrift
    <3>2. call' = Witness(Marked(s))
      BY <2>2 DEF Marked
    <3>3. Marked(s)[u] # None => SameCall(Marked(s)[u], call'[u])
      BY <3>1, <3>2, WitnessIsQuiet
    <3> QED
      BY <2>0, <3>1, <3>3 DEF Quiet, CallsOK
  <2> QED
    BY <1>5, <2>1, <2>2 DEF Refetch
<1>6. CASE Dispatch(s) \/ Answer(s) \/ Cancel(s)
  BY <1>1, <1>6 DEF Dispatch, Answer, Cancel, Finish, Go, CallsOK
<1> QED
  BY <1>2, <1>3, <1>4, <1>5, <1>6 DEF SessionStep, Stage, Locked

(* The administrator, the clock, the upstream and the operator.             *)
Around ==
  \/ \E id \in ApprovalIds :
       \/ Review(id) \/ AuditApproval(id) \/ EndApproval(id)
       \/ ExpireApproval(id) \/ Lapse(id)
  \/ \E id \in ChallengeIds : DropChallenge(id)
  \/ Swap \/ Drift \/ Relist \/ Reapprove

LEMMA NextParts == Next <=> (\E s \in Sessions : SessionStep(s)) \/ Around \/ Restart
BY DEF Next, SessionStep, Around

LEMMA QuietAround ==
  ASSUME CallsOK, Around, NEW u \in Sessions
  PROVE  Quiet(u)
<1>1. CASE UNCHANGED <<pc, call>>
  BY <1>1, SameItself DEF Quiet
<1>2. CASE call' = Witness(call) /\ UNCHANGED pc
  BY <1>2, WitnessIsQuiet DEF Quiet, CallsOK
<1> QED
  BY <1>1, <1>2 DEF Around, EndApproval, Review, AuditApproval, CommitApproval, RollBackApproval,
       ExpireApproval, Lapse, DropChallenge, Swap, Drift, Relist, Reapprove

(* Learn sets one field of one call.                                        *)
LEMMA LearnedFields ==
  ASSUME CallsOK, NEW s \in Sessions, pc[s] # "idle", NEW value
  PROVE  /\ Learn(s, "policy", value) =>
              /\ SameRequest(call[s], call'[s]) /\ call'[s].inForce = call[s].inForce
              /\ call'[s].policy = value /\ call'[s].band = call[s].band
              /\ call'[s].verified = call[s].verified
         /\ Learn(s, "band", value) =>
              /\ SameRequest(call[s], call'[s]) /\ call'[s].inForce = call[s].inForce
              /\ call'[s].policy = call[s].policy /\ call'[s].band = value
              /\ call'[s].verified = call[s].verified
         /\ Learn(s, "verified", value) =>
              /\ SameRequest(call[s], call'[s]) /\ call'[s].inForce = call[s].inForce
              /\ call'[s].policy = call[s].policy /\ call'[s].band = call[s].band
              /\ call'[s].verified = value
<1>0. call[s] \in Call
  BY CallOf
<1>1. /\ Learn(s, "policy", value) => call'[s] = [call[s] EXCEPT !["policy"] = value]
      /\ Learn(s, "band", value) => call'[s] = [call[s] EXCEPT !["band"] = value]
      /\ Learn(s, "verified", value) => call'[s] = [call[s] EXCEPT !["verified"] = value]
  BY DEF Learn, CallsOK
<1>2. ASSUME Learn(s, "policy", value)
      PROVE  /\ SameRequest(call[s], call'[s]) /\ call'[s].inForce = call[s].inForce
             /\ call'[s].policy = value /\ call'[s].band = call[s].band
             /\ call'[s].verified = call[s].verified
  BY <1>0, <1>1, <1>2 DEF SameRequest, Call
<1>3. ASSUME Learn(s, "band", value)
      PROVE  /\ SameRequest(call[s], call'[s]) /\ call'[s].inForce = call[s].inForce
             /\ call'[s].policy = call[s].policy /\ call'[s].band = value
             /\ call'[s].verified = call[s].verified
  BY <1>0, <1>1, <1>3 DEF SameRequest, Call
<1>4. ASSUME Learn(s, "verified", value)
      PROVE  /\ SameRequest(call[s], call'[s]) /\ call'[s].inForce = call[s].inForce
             /\ call'[s].policy = call[s].policy /\ call'[s].band = call[s].band
             /\ call'[s].verified = value
  BY <1>0, <1>1, <1>4 DEF SameRequest, Call
<1> QED
  BY <1>2, <1>3, <1>4

(* The call that moves keeps what it asked for.                             *)
LEMMA SameAsked ==
  ASSUME CallsOK, WorldOK, NEW s \in Sessions, SessionStep(s), ~Receive(s),
         pc'[s] # "idle"
  PROVE  /\ pc[s] # "idle" /\ SameRequest(call[s], call'[s])
         /\ call[s].inForce \subseteq call'[s].inForce
         /\ ~(Authorize(s) \/ DedupCode(s) \/ Score(s)) => SameCall(call[s], call'[s])
<1>0. ASSUME SameCall(call[s], call'[s])
      PROVE  /\ SameRequest(call[s], call'[s])
             /\ call[s].inForce \subseteq call'[s].inForce
  BY <1>0 DEF SameCall
<1>1. CASE Authorize(s) \/ DedupCode(s) \/ Score(s)
  <2>1. pc[s] # "idle" /\ call[s] \in Call
    BY <1>1, CallOf DEF Authorize, DedupCode, Score
  <2>2. \/ UNCHANGED call \/ Learn(s, "policy", engine) \/ Learn(s, "verified", TRUE)
        \/ \E band \in Bands : Learn(s, "band", band)
    BY <1>1 DEF Authorize, DedupCode, Score
  <2>3. CASE UNCHANGED call
    BY <1>0, <2>1, <2>3, SameItself
  <2>4. CASE \/ Learn(s, "policy", engine) \/ Learn(s, "verified", TRUE)
             \/ \E band \in Bands : Learn(s, "band", band)
    BY <1>1, <2>1, <2>4, LearnedFields
  <2> QED
    BY <1>1, <2>1, <2>2, <2>3, <2>4
<1>2. CASE \/ DriftStatus(s) \/ TakeChallenge(s) \/ Hold(s) \/ IssueApproval(s)
           \/ IssueChallenge(s) \/ IssueNothing(s) \/ LockApproval(s)
           \/ ConsumeApproval(s) \/ RefuseApproval(s) \/ RedeemFails(s)
           \/ Validate(s) \/ AskUpstream(s) \/ RecordAllow(s)
  <2>1. pc[s] # "idle" /\ UNCHANGED call
    BY <1>2 DEF DriftStatus, TakeChallenge, Hold, IssueApproval, IssueChallenge,
         IssueNothing, LockApproval, ConsumeApproval, RefuseApproval, RedeemFails,
         Validate, AskUpstream, RecordAllow, stores
  <2> QED
    BY <1>0, <2>1, SameItself
<1>3. CASE Refetch(s)
  <2>0. pc[s] # "idle"
    BY <1>3 DEF Refetch
  <2>1. CASE UNCHANGED call
    BY <1>0, <2>0, <2>1, SameItself
  <2>2. CASE call' = Witness([call EXCEPT ![s].ownDrift = drifted])
    <3>1. /\ Marked(s) \in [Sessions -> Call \union {None}]
          /\ Marked(s)[s] # None /\ SameCall(call[s], Marked(s)[s])
      BY <2>0, OwnDrift
    <3>2. call' = Witness(Marked(s))
      BY <2>2 DEF Marked
    <3>3. SameCall(Marked(s)[s], call'[s])
      BY <3>1, <3>2, WitnessIsQuiet
    <3> QED
      BY <1>0, <2>0, <3>1, <3>3 DEF SameCall, SameRequest
  <2> QED
    BY <1>3, <2>1, <2>2 DEF Refetch
<1>4. CASE Dispatch(s) \/ Answer(s) \/ Cancel(s)
  BY <1>4 DEF Dispatch, Answer, Cancel, Finish, Go, CallsOK
<1> QED
  BY <1>1, <1>2, <1>3, <1>4 DEF SessionStep, Stage, Locked

LEMMA NamedStep ==
  ASSUME CallsOK, StoresOK, WorldOK, Named, Next
  PROVE  Named'
<1>0. KeptApprovals /\ KeptChallenges /\ CallsOK'
  BY ApprovalsStep, ChallengesStep, CallsStep
<1>1. ASSUME NEW u \in Sessions, pc[u] # "idle", pc'[u] # "idle",
             SameRequest(call[u], call'[u])
      PROVE  /\ call'[u].approval # None => approvals'[call'[u].approval] # None
             /\ call'[u].challenge # None => challenges'[call'[u].challenge] # None
  <2>1. call[u] \in Call
    BY <1>1, CallOf
  <2> QED
    BY <1>0, <1>1, <2>1 DEF Named, SameRequest, KeptApprovals, KeptChallenges, Call
<1>2. ASSUME NEW u \in Sessions, Quiet(u), pc'[u] # "idle"
      PROVE  /\ call'[u].approval # None => approvals'[call'[u].approval] # None
             /\ call'[u].challenge # None => challenges'[call'[u].challenge] # None
             /\ pc'[u] = "redeem" => call'[u].approval # None
             /\ pc'[u] = "challenge" => call'[u].challenge # None
             /\ pc'[u] = "code" => call'[u].code # None
  <2>1. pc[u] # "idle" /\ pc'[u] = pc[u] /\ SameRequest(call[u], call'[u])
    BY <1>2 DEF Quiet, SameCall
  <2> QED
    BY <1>1, <1>2, <2>1 DEF Named, SameRequest
<1>3. ASSUME NEW s \in Sessions, SessionStep(s), pc'[s] # "idle"
      PROVE  /\ call'[s].approval # None => approvals'[call'[s].approval] # None
             /\ call'[s].challenge # None => challenges'[call'[s].challenge] # None
             /\ pc'[s] = "redeem" => call'[s].approval # None
             /\ pc'[s] = "challenge" => call'[s].challenge # None
             /\ pc'[s] = "code" => call'[s].code # None
  <2>1. CASE Receive(s)
    <3>1. PICK args \in Args, nonce \in Nonces \union {None},
               approval \in {i \in ApprovalIds : approvals[i] # None} \union {None},
               challenge \in {c \in ChallengeIds : challenges[c] # None} \union {None},
               code \in Codes \union {None} :
                 /\ challenge = None => code = None
                 /\ call' = [call EXCEPT ![s] = Fresh(args, nonce, approval, challenge, code)]
                 /\ CheckNonce(s, nonce)
      BY <2>1, Zenon DEF Receive
    <3>2. call'[s].approval = approval /\ call'[s].challenge = challenge
      BY <3>1 DEF Fresh, CallsOK
    <3>3. pc'[s] \in {"authorize", "refuse"}
      BY <3>1 DEF CheckNonce, Refuse, Go, CallsOK
    <3> QED
      BY <2>1, <3>2, <3>3 DEF Receive
  <2>2. CASE ~Receive(s)
    <3>1. pc[s] # "idle" /\ SameRequest(call[s], call'[s])
      BY <1>3, <2>2, SameAsked
    <3>2. pc'[s] = "redeem" => call[s].approval # None
      <4>1. pc'[s] = "redeem" => LockApproval(s)
        BY <1>3, <2>2 DEF SessionStep, Stage, Locked, Authorize, DriftStatus, TakeChallenge,
             DedupCode, Score, AfterScore, Hold, IssueApproval, IssueChallenge, IssueNothing,
             ConsumeApproval, RefuseApproval, RedeemFails, Validate, AskUpstream,
             Refetch, RecordAllow,
             Dispatch, Answer, Cancel, Finish, Refuse, Go, CallsOK
      <4> QED
        BY <4>1 DEF LockApproval
    <3>3. pc'[s] = "challenge" => call[s].challenge # None
      <4>1. pc'[s] = "challenge" => DriftStatus(s) /\ pc' # [pc EXCEPT ![s] = "risk"]
        BY <1>3, <2>2 DEF SessionStep, Stage, Locked, Authorize, LockApproval, TakeChallenge,
             DedupCode, Score, AfterScore, Hold, IssueApproval, IssueChallenge, IssueNothing,
             ConsumeApproval, RefuseApproval, RedeemFails, Validate, AskUpstream,
             Refetch, RecordAllow,
             Dispatch, Answer, Cancel, Finish, Refuse, Go, CallsOK
      <4> QED
        BY <4>1 DEF DriftStatus, Refuse, Go, CallsOK
    <3>4. pc'[s] = "code" => call[s].code # None
      <4>1. pc'[s] = "code" => TakeChallenge(s) /\ ~Refuse(s)
        BY <1>3, <2>2 DEF SessionStep, Stage, Locked, Authorize, DriftStatus, LockApproval,
             DedupCode, Score, AfterScore, Hold, IssueApproval, IssueChallenge, IssueNothing,
             ConsumeApproval, RefuseApproval, RedeemFails, Validate, AskUpstream,
             Refetch, RecordAllow,
             Dispatch, Answer, Cancel, Finish, Refuse, Go, CallsOK
      <4> QED
        BY <4>1 DEF TakeChallenge
    <3> QED
      BY <1>1, <1>3, <3>1, <3>2, <3>3, <3>4 DEF SameRequest
  <2> QED
    BY <2>1, <2>2
<1>4. CASE \E s \in Sessions : SessionStep(s)
  BY <1>2, <1>3, <1>4, QuietOthers DEF Named
<1>5. CASE Around
  BY <1>2, <1>5, QuietAround DEF Named
<1>6. CASE Restart
  BY <1>6 DEF Restart, Named
<1> QED
  BY <1>4, <1>5, <1>6, NextParts

LEMMA WorldStep ==
  ASSUME CallsOK, WorldOK, Next
  PROVE  WorldOK'
<1>1. ASSUME NEW s \in Sessions, Dispatch(s) PROVE WorldOK'
  BY <1>1, CallOf DEF WorldOK, Dispatch, world
<1>2. ASSUME NEW s \in Sessions, Receive(s) PROVE WorldOK'
  BY <1>2, PipelineAssumption DEF WorldOK, Receive, world
<1>3. ASSUME NEW s \in Sessions, Refetch(s) PROVE WorldOK'
  BY <1>3 DEF WorldOK, Refetch
<1>4. ASSUME Swap \/ Drift \/ Relist \/ Reapprove \/ Restart PROVE WorldOK'
  <2>1. engine' \in Policies
    BY <1>4 DEF WorldOK, Swap, Drift, Relist, Reapprove, Restart
  <2>2. drifted' \in BOOLEAN
    BY <1>4 DEF WorldOK, Swap, Drift, Relist, Reapprove, Restart
  <2>3. blocked' \in BOOLEAN
    BY <1>4 DEF WorldOK, Swap, Drift, Relist, Reapprove, Restart
  <2>4. changes' \in 0..MaxChanges
    BY <1>4, PipelineAssumption DEF WorldOK, Swap, Drift, Relist, Reapprove, Restart, Change
  <2>5. UNCHANGED <<forwarded, arrived>>
    BY <1>4 DEF Swap, Drift, Relist, Reapprove, Restart
  <2> QED
    BY <2>1, <2>2, <2>3, <2>4, <2>5 DEF WorldOK
<1>5. ASSUME UNCHANGED <<world, forwarded, arrived>> PROVE WorldOK'
  BY <1>5 DEF WorldOK, world
<1> QED
  BY <1>1, <1>2, <1>3, <1>4, <1>5
     DEF Next, Stage, Locked, EndApproval, Authorize, DriftStatus, TakeChallenge,
         DedupCode, Score, Hold, IssueApproval, IssueChallenge, IssueNothing,
         ConsumeApproval, Validate, AskUpstream,
         RecordAllow, Answer, LockApproval, RefuseApproval,
         RedeemFails, Cancel, Review, AuditApproval, CommitApproval, RollBackApproval,
         ExpireApproval, Lapse, DropChallenge, stores

LEMMA StoresStep ==
  ASSUME CallsOK, StoresOK, Named, Next
  PROVE  StoresOK'
<1>1. seen' \in SUBSET Nonces
  <2>1. ASSUME NEW s \in Sessions, Receive(s) PROVE seen' \in SUBSET Nonces
    <3>1. PICK nonce : CheckNonce(s, nonce)
      BY <2>1 DEF Receive
    <3> QED
      BY <3>1 DEF CheckNonce, StoresOK
  <2>2. ASSUME UNCHANGED seen PROVE seen' \in SUBSET Nonces
    BY <2>2 DEF StoresOK
  <2> QED
    BY <2>1, <2>2 DEF Next, Stage, Locked, EndApproval, Authorize, DriftStatus,
         TakeChallenge, DedupCode, Score, Hold, IssueApproval, IssueChallenge,
         IssueNothing, ConsumeApproval, Validate, AskUpstream,
         Refetch, RecordAllow, Dispatch, Answer,
         LockApproval, RefuseApproval, RedeemFails, Cancel, Review, AuditApproval, CommitApproval,
         RollBackApproval, ExpireApproval, Lapse, DropChallenge, Swap, Drift, Relist,
         Reapprove, Restart, stores
<1>2. used' \in SUBSET Codes
  <2>1. ASSUME NEW s \in Sessions, DedupCode(s) PROVE used' \in SUBSET Codes
    <3>1. call[s] \in Call /\ call[s].code # None
      BY <2>1, CallOf DEF DedupCode, Named
    <3> QED
      BY <2>1, <3>1 DEF DedupCode, StoresOK, Call
  <2>2. ASSUME UNCHANGED used PROVE used' \in SUBSET Codes
    BY <2>2 DEF StoresOK
  <2> QED
    BY <2>1, <2>2 DEF Next, Stage, Locked, EndApproval, Receive, Authorize, DriftStatus,
         TakeChallenge, Score, Hold, IssueApproval, IssueChallenge, IssueNothing,
         ConsumeApproval, Validate, AskUpstream,
         Refetch, RecordAllow, Dispatch, Answer, LockApproval,
         RefuseApproval, RedeemFails, Cancel, Review, AuditApproval, CommitApproval,
         RollBackApproval, ExpireApproval, Lapse, DropChallenge, Swap, Drift, Relist,
         Reapprove, Restart, stores
<1> QED
  BY <1>1, <1>2, ApprovalsStep, ChallengesStep, HoldersStep
     DEF StoresOK, ApprovalsOK, ChallengesOK, HoldersOK

LEMMA InitTypes == Init => TypeOK /\ Named
<1> SUFFICES ASSUME Init PROVE TypeOK /\ Named
  OBVIOUS
<1>1. CallsOK
  BY NoRecordAssumption DEF Init, CallsOK
<1>2. WorldOK
  <2>1. 0 \in 0..MaxCalls /\ 0 \in 0..MaxChanges
    BY PipelineAssumption
  <2> QED
    BY <2>1 DEF Init, WorldOK
<1>3. \A a \in Args : Requested(0, a) \in Approval
  BY PipelineAssumption DEF Requested, Approval
<1>4. StoresOK
  <2>1. approvals \in [ApprovalIds -> Approval \union {None}]
    BY <1>3 DEF Init
  <2>2. [args : Args, live : {TRUE}] \subseteq Challenge
    BY DEF Challenge
  <2>3. challenges \in [ChallengeIds -> Challenge \union {None}]
    BY <2>2 DEF Init
  <2> QED
    BY <2>1, <2>3 DEF Init, StoresOK
<1>5. Named
  BY DEF Init, Named
<1> QED
  BY <1>1, <1>2, <1>4, <1>5, TypeParts

LEMMA TypesHold == Spec => [](TypeOK /\ Named)
<1>1. TypeOK /\ Named /\ Next => TypeOK' /\ Named'
  <2> SUFFICES ASSUME TypeOK, Named, Next PROVE TypeOK' /\ Named'
    OBVIOUS
  <2>1. CallsOK /\ StoresOK /\ WorldOK
    BY TypeParts
  <2>2. CallsOK' /\ StoresOK' /\ WorldOK' /\ Named'
    BY <2>1, CallsStep, StoresStep, WorldStep, NamedStep
  <2> QED
    BY <2>2 DEF TypeOK, CallsOK, StoresOK, WorldOK
<1>2. TypeOK /\ Named /\ UNCHANGED vars => TypeOK' /\ Named'
  BY DEF TypeOK, Named, vars, stores, world
<1> QED
  BY <1>1, <1>2, InitTypes, PTL DEF Spec

(* The pipeline's state keeps its types.                                    *)
THEOREM PipelineTypeCorrect == Spec => []TypeOK
BY TypesHold, PTL

-----------------------------------------------------------------------------
(* What a call has to show at each stage, against the two stores and the    *)
(* log: the challenge it took, the approval it redeems, the row written.    *)
Cleared   == {"schema", "ask", "refetch", "allow", "dispatch"}
PastDrift == {"challenge", "code", "risk", "redeem", "hold", "issue"} \union Cleared
PastGrant == {"drift"} \union PastDrift

Taken(c, chs) ==
  /\ c.challenge # None /\ chs[c.challenge] # None
  /\ chs[c.challenge].args = c.args /\ ~chs[c.challenge].live

Agreed(c, aps) ==
  /\ c.approval # None /\ aps[c.approval] # None
  /\ aps[c.approval].status = "approved" /\ aps[c.approval].args = c.args

HeldRow(n, args) == Entry("HUMAN_APPROVAL_REQUIRED", n, args, None, None)

Allowed(c, lg) ==
  \E e \in lg : e.event = "ALLOW" /\ e.call = c.n /\ e.args = c.args /\ e.id = c.approval

InBand(c, chs) ==
  c.band = "allow" \/ (c.band = "challenge" /\ Taken(c, chs))

At(c, stage, aps, chs, lg) ==
  /\ stage \in PastGrant => c.policy \in Granting /\ "grant" \in c.inForce
  /\ stage \in PastDrift => "unblocked" \in c.inForce
  /\ stage = "code" \/ c.verified => Taken(c, chs)
  /\ stage = "redeem" => Agreed(c, aps)
  /\ stage = "issue" /\ c.band = "approval" => HeldRow(c.n, c.args) \in lg
  /\ stage \in Cleared => \/ c.approval = None /\ InBand(c, chs)
                          \/ Agreed(c, aps) /\ aps[c.approval].consumed
  /\ stage = "dispatch" => Allowed(c, lg)

(* An approval is of a held call that the log has, and a granted one has    *)
(* its grant there.                                                         *)
Reviewed(i) ==
  approvals[i] # None =>
    /\ HeldRow(approvals[i].audit, approvals[i].args) \in log
    /\ approvals[i].status = "approved" => Entered(i, "APPROVED") \in log

Kept == KeptApprovals /\ KeptChallenges /\ log \subseteq log'

PipelineInv ==
  /\ \A u \in Sessions : pc[u] # "idle" =>
       /\ At(call[u], pc[u], approvals, challenges, log)
       /\ Permits \subseteq call[u].inForce
  /\ \A f \in forwarded : At(f, "dispatch", approvals, challenges, log)
  /\ \A i \in ApprovalIds : Reviewed(i)

LEMMA KeptStep ==
  ASSUME CallsOK, StoresOK, Named, Next
  PROVE  Kept
<1>1. log \subseteq log'
  BY DEF Next, Stage, Locked, EndApproval, Receive, Authorize, DriftStatus, TakeChallenge,
         DedupCode, Score, Hold, IssueApproval, IssueChallenge, IssueNothing,
         ConsumeApproval, Validate, AskUpstream,
         Refetch, RecordAllow, Dispatch, Answer, LockApproval,
         RefuseApproval, RedeemFails, Cancel, Review, AuditApproval, CommitApproval,
         RollBackApproval, ExpireApproval, Lapse, DropChallenge, Swap, Drift, Relist,
         Reapprove, Restart, stores, Record
<1> QED
  BY <1>1, ApprovalsStep, ChallengesStep DEF Kept

(* What a call has shown, it can still show after a step.                   *)
LEMMA KeptAt ==
  ASSUME Kept, NEW c \in Call, NEW d, SameCall(c, d), NEW stage,
         At(c, stage, approvals, challenges, log)
  PROVE  At(d, stage, approvals', challenges', log')
<1>1. /\ c.challenge # None => c.challenge \in ChallengeIds
      /\ c.approval # None => c.approval \in ApprovalIds
  BY DEF Call
<1>2. Taken(c, challenges) => Taken(d, challenges')
  BY <1>1 DEF Kept, KeptChallenges, Taken, SameCall, SameRequest
<1>3. /\ Agreed(c, approvals) => Agreed(d, approvals')
      /\ Agreed(c, approvals) /\ approvals[c.approval].consumed =>
           approvals'[d.approval].consumed
  BY <1>1 DEF Kept, KeptApprovals, Agreed, SameCall, SameRequest
<1>4. Allowed(c, log) => Allowed(d, log')
  BY DEF Kept, Allowed, SameCall, SameRequest
<1>5. HeldRow(c.n, c.args) \in log => HeldRow(d.n, d.args) \in log'
  BY DEF Kept, SameCall, SameRequest
<1>6. InBand(c, challenges) => InBand(d, challenges')
  BY <1>2 DEF InBand, SameCall
<1> QED
  BY <1>2, <1>3, <1>4, <1>5, <1>6 DEF At, SameCall, SameRequest

(* A refused call has nothing to show but the proof it redeemed.            *)
LEMMA RefusedAt ==
  ASSUME NEW c, NEW stage, NEW aps, NEW chs, NEW lg, At(c, stage, aps, chs, lg)
  PROVE  At(c, "refuse", aps, chs, lg)
BY DEF At, PastGrant, PastDrift, Cleared

(* One lemma for each way a call moves on.                                  *)
LEMMA MovedAt ==
  ASSUME CallsOK, StoresOK, WorldOK, Named, Next, PipelineInv,
         NEW s \in Sessions, SessionStep(s), pc'[s] # "idle"
  PROVE  At(call'[s], pc'[s], approvals', challenges', log')
<1> DEFINE Shown == At(call'[s], pc'[s], approvals', challenges', log')
           c == call[s]
<1>0. Kept /\ CallsOK'
  BY KeptStep, CallsStep
<1>1. ASSUME Receive(s) PROVE Shown
  <2>1. PICK args \in Args, nonce \in Nonces \union {None},
             approval \in {i \in ApprovalIds : approvals[i] # None} \union {None},
             challenge \in {i \in ChallengeIds : challenges[i] # None} \union {None},
             code \in Codes \union {None} :
               /\ challenge = None => code = None
               /\ call' = [call EXCEPT ![s] = Fresh(args, nonce, approval, challenge, code)]
               /\ CheckNonce(s, nonce)
    BY <1>1, Zenon DEF Receive
  <2>2. ~call'[s].verified
    BY <2>1 DEF Fresh, CallsOK
  <2>3. pc'[s] \in {"authorize", "refuse"}
    BY <2>1 DEF CheckNonce, Refuse, Go, CallsOK
  <2> QED
    BY <2>2, <2>3 DEF At, PastGrant, PastDrift, Cleared
<1>2. ASSUME pc[s] # "idle"
      PROVE  /\ c \in Call /\ At(c, pc[s], approvals, challenges, log)
             /\ Permits \subseteq c.inForce
  BY <1>2, CallOf DEF PipelineInv
(* It moves to a stage whose facts it has already.                          *)
<1>3. ASSUME pc[s] # "idle", SameCall(c, call'[s]),
             At(c, pc'[s], approvals, challenges, log)
      PROVE  Shown
  BY <1>0, <1>2, <1>3, KeptAt
<1>4. ASSUME pc[s] # "idle", SameCall(c, call'[s]), pc'[s] = "refuse" PROVE Shown
  BY <1>2, <1>3, <1>4, RefusedAt
<1>5. ASSUME UNCHANGED call PROVE SameCall(c, call'[s])
  BY <1>5, SameItself
<1>6. ASSUME Authorize(s) PROVE Shown
  <2>0. pc[s] = "authorize" /\ UNCHANGED <<approvals, challenges, log>>
    BY <1>6 DEF Authorize, stores
  <2>1. CASE Refuse(s) /\ UNCHANGED call
    BY <1>4, <1>5, <2>0, <2>1 DEF Refuse, Go, CallsOK
  <2>2. CASE engine \in Granting /\ Go(s, "drift") /\ Learn(s, "policy", engine)
    <3>1. pc'[s] = "drift" /\ "grant" \in Permits
      BY <2>2 DEF Go, CallsOK, Permits
    <3>2. /\ SameRequest(c, call'[s]) /\ call'[s].inForce = c.inForce
          /\ call'[s].policy = engine /\ call'[s].verified = c.verified
      BY <2>0, <2>2, LearnedFields
    <3> QED
      BY <1>2, <2>0, <2>2, <3>1, <3>2
         DEF At, PastGrant, PastDrift, Cleared, Taken, SameRequest
  <2> QED
    BY <1>6, <2>1, <2>2 DEF Authorize
<1>7. ASSUME DriftStatus(s) PROVE Shown
  <2>0. pc[s] = "drift" /\ UNCHANGED call
    BY <1>7 DEF DriftStatus
  <2>1. CASE Refuse(s)
    BY <1>4, <1>5, <2>0, <2>1 DEF Refuse, Go, CallsOK
  <2>2. CASE ~blocked /\ \E b \in {"challenge", "risk"} : Go(s, b)
    <3>1. pc'[s] \in {"challenge", "risk"} /\ "unblocked" \in Permits
      BY <2>2 DEF Go, CallsOK, Permits
    <3>2. At(c, pc'[s], approvals, challenges, log)
      BY <1>2, <2>0, <3>1 DEF At, PastGrant, PastDrift, Cleared
    <3> QED
      BY <1>3, <1>5, <2>0, <3>2
  <2> QED
    BY <1>7, <2>1, <2>2 DEF DriftStatus
<1>8. ASSUME TakeChallenge(s) PROVE Shown
  <2>0. pc[s] = "challenge" /\ UNCHANGED call
    BY <1>8 DEF TakeChallenge
  <2>1. CASE Refuse(s)
    BY <1>4, <1>5, <2>0, <2>1 DEF Refuse, Go, CallsOK
  <2>2. CASE /\ challenges' = [challenges EXCEPT ![c.challenge].live = FALSE]
             /\ challenges[c.challenge].args = c.args /\ Go(s, "code")
    <3>1. c \in Call /\ c.challenge # None /\ challenges[c.challenge] # None
      BY <1>2, <2>0 DEF Named
    <3>2. c.challenge \in ChallengeIds
      BY <3>1 DEF Call
    <3>3. challenges[c.challenge] \in Challenge
      BY <3>1, <3>2 DEF StoresOK
    <3>4. challenges'[c.challenge] = [challenges[c.challenge] EXCEPT !.live = FALSE]
      BY <2>2, <3>2 DEF StoresOK
    <3>5. challenges'[c.challenge].args = c.args /\ ~challenges'[c.challenge].live
      BY <2>2, <3>3, <3>4 DEF Challenge
    <3>6. challenges'[c.challenge] # None
      BY <1>0, <3>1, <3>2 DEF Kept, KeptChallenges
    <3>7. Taken(c, challenges')
      BY <3>1, <3>5, <3>6 DEF Taken
    <3>8. pc'[s] = "code" /\ call'[s] = c
      BY <2>0, <2>2 DEF Go, CallsOK
    <3> QED
      BY <1>2, <2>0, <3>7, <3>8 DEF At, PastGrant, PastDrift, Cleared
  <2> QED
    BY <1>8, <2>1, <2>2 DEF TakeChallenge
<1>9. ASSUME DedupCode(s) PROVE Shown
  <2>0. pc[s] = "code" /\ UNCHANGED <<approvals, challenges, log>>
    BY <1>9 DEF DedupCode
  <2>1. CASE Refuse(s) /\ UNCHANGED call
    BY <1>4, <1>5, <2>0, <2>1 DEF Refuse, Go, CallsOK
  <2>2. CASE Learn(s, "verified", TRUE) /\ Go(s, "risk")
    <3>1. pc'[s] = "risk"
      BY <2>2 DEF Go, CallsOK
    <3>2. /\ SameRequest(c, call'[s]) /\ call'[s].inForce = c.inForce
          /\ call'[s].policy = c.policy
      BY <2>0, <2>2, LearnedFields
    <3> QED
      BY <1>2, <2>0, <3>1, <3>2 DEF At, PastGrant, PastDrift, Cleared, Taken, SameRequest
  <2> QED
    BY <1>9, <2>1, <2>2 DEF DedupCode
<1>10. ASSUME Score(s) PROVE Shown
  <2>0. /\ pc[s] = "risk" /\ UNCHANGED <<approvals, challenges, log>>
        /\ c.approval = None
    BY <1>10 DEF Score, stores
  <2>1. PICK band \in Bands : /\ Learn(s, "band", band)
                              /\ Go(s, AfterScore(band, c.verified)) \/ Refuse(s)
    BY <1>10 DEF Score
  <2>2. /\ SameRequest(c, call'[s]) /\ call'[s].inForce = c.inForce
        /\ call'[s].policy = c.policy /\ call'[s].band = band
        /\ call'[s].verified = c.verified
    BY <2>0, <2>1, LearnedFields
  <2>3. /\ pc'[s] \in {"schema", "refuse", "hold"}
        /\ pc'[s] = "schema" => band = "allow" \/ (band = "challenge" /\ c.verified)
    BY <2>1 DEF Go, Refuse, AfterScore, CallsOK
  <2>4. c.verified => Taken(call'[s], challenges)
    BY <1>2, <2>0, <2>2 DEF At, Taken, SameRequest
  <2>5. pc'[s] = "schema" => call'[s].approval = None /\ InBand(call'[s], challenges)
    BY <2>0, <2>2, <2>3, <2>4 DEF InBand, SameRequest
  <2> QED
    BY <1>2, <2>0, <2>2, <2>3, <2>4, <2>5 DEF At, PastGrant, PastDrift, Cleared
<1>11. ASSUME Hold(s) PROVE Shown
  <2>0. pc[s] = "hold" /\ UNCHANGED <<call, approvals, challenges>>
    BY <1>11 DEF Hold, stores
  <2>1. CASE Refuse(s)
    BY <1>4, <1>5, <2>0, <2>1 DEF Refuse, Go, CallsOK
  <2>2. CASE log' = log \union HoldEntries(s) /\ Go(s, "issue")
    <3>1. pc'[s] = "issue" /\ call'[s] = c
      BY <2>0, <2>2 DEF Go, CallsOK
    <3>2. c.band = "approval" => HeldRow(c.n, c.args) \in log'
      BY <2>2 DEF HoldEntries, HeldRow
    <3> QED
      BY <1>2, <2>0, <3>1, <3>2 DEF At, PastGrant, PastDrift, Cleared
  <2> QED
    BY <1>11, <2>1, <2>2 DEF Hold
<1>12. ASSUME \/ IssueApproval(s) \/ IssueChallenge(s) \/ IssueNothing(s)
              \/ RefuseApproval(s) \/ RedeemFails(s)
       PROVE  Shown
  <2>1. pc[s] # "idle" /\ UNCHANGED call /\ Refuse(s)
    BY <1>12 DEF IssueApproval, IssueChallenge, IssueNothing, RefuseApproval, RedeemFails
  <2> QED
    BY <1>4, <1>5, <2>1 DEF Refuse, Go, CallsOK
<1>13. ASSUME LockApproval(s) PROVE Shown
  <2>1. /\ pc[s] = "risk" /\ UNCHANGED call /\ Go(s, "redeem")
        /\ c.approval # None /\ Redeemable(s)
    BY <1>13 DEF LockApproval
  <2>2. Agreed(c, approvals)
    BY <2>1 DEF Agreed, Redeemable, Named
  <2>3. pc'[s] = "redeem"
    BY <2>1 DEF Go, CallsOK
  <2>4. At(c, pc'[s], approvals, challenges, log)
    BY <1>2, <2>1, <2>2, <2>3 DEF At, PastGrant, PastDrift, Cleared
  <2> QED
    BY <1>3, <1>5, <2>1, <2>4
<1>14. ASSUME ConsumeApproval(s) PROVE Shown
  <2>1. /\ pc[s] = "redeem" /\ UNCHANGED <<call, challenges, log>>
        /\ approvals' = [approvals EXCEPT ![c.approval].consumed = TRUE]
        /\ Go(s, "schema") \/ Refuse(s)
    BY <1>14 DEF ConsumeApproval
  <2>2. CASE Refuse(s)
    BY <1>4, <1>5, <2>1, <2>2 DEF Refuse, Go, CallsOK
  <2>3. CASE Go(s, "schema")
    <3>1. c \in Call /\ Agreed(c, approvals)
      BY <1>2, <2>1 DEF At
    <3>2. c.approval \in ApprovalIds /\ approvals[c.approval] \in Approval
      BY <3>1 DEF Call, Agreed, StoresOK
    <3>3. approvals'[c.approval] = [approvals[c.approval] EXCEPT !.consumed = TRUE]
      BY <2>1, <3>2 DEF StoresOK
    <3>4. approvals'[c.approval].consumed /\ Agreed(c, approvals')
      BY <1>0, <3>1, <3>2, <3>3 DEF Approval, Agreed, Kept, KeptApprovals
    <3>5. pc'[s] = "schema" /\ call'[s] = c
      BY <2>1, <2>3 DEF Go, CallsOK
    <3> QED
      BY <1>2, <2>1, <3>4, <3>5 DEF At, PastGrant, PastDrift, Cleared
  <2> QED
    BY <2>1, <2>2, <2>3
<1>15. ASSUME Validate(s) \/ AskUpstream(s) \/ Refetch(s) PROVE Shown
  <2>1. /\ pc[s] \in {"schema", "ask", "refetch"}
        /\ \E b \in {"allow", "ask", "refetch", "refuse"} : Go(s, b)
    BY <1>15 DEF Validate, AskUpstream, Refetch, Refuse
  <2>2. SameCall(c, call'[s])
    <3>1. ~(Receive(s) \/ Authorize(s) \/ DedupCode(s) \/ Score(s))
      BY <2>1 DEF Receive, Authorize, DedupCode, Score
    <3> QED
      BY <3>1, SameAsked
  <2>3. pc'[s] \in {"allow", "ask", "refetch", "refuse"}
    BY <2>1 DEF Go, CallsOK
  <2>4. At(c, pc'[s], approvals, challenges, log)
    BY <1>2, <2>1, <2>3 DEF At, PastGrant, PastDrift, Cleared
  <2> QED
    BY <1>3, <2>1, <2>2, <2>4
<1>16. ASSUME RecordAllow(s) PROVE Shown
  <2>0. pc[s] = "allow" /\ UNCHANGED <<call, approvals, challenges>>
    BY <1>16 DEF RecordAllow, stores
  <2>1. CASE Refuse(s)
    BY <1>4, <1>5, <2>0, <2>1 DEF Refuse, Go, CallsOK
  <2>2. CASE Record(AllowEntry(s)) /\ Go(s, "dispatch")
    <3>1. pc'[s] = "dispatch" /\ call'[s] = c
      BY <2>0, <2>2 DEF Go, CallsOK
    <3>2. Allowed(c, log')
      <4>1. AllowEntry(s) \in log'
        BY <2>2 DEF Record
      <4>2. /\ AllowEntry(s).event = "ALLOW" /\ AllowEntry(s).call = c.n
            /\ AllowEntry(s).args = c.args /\ AllowEntry(s).id = c.approval
        BY DEF AllowEntry, Entry
      <4> QED
        BY <4>1, <4>2 DEF Allowed
    <3> QED
      BY <1>2, <2>0, <3>1, <3>2 DEF At, PastGrant, PastDrift, Cleared
  <2> QED
    BY <1>16, <2>1, <2>2 DEF RecordAllow
<1>17. ~(Dispatch(s) \/ Answer(s) \/ Cancel(s))
  BY DEF Dispatch, Answer, Cancel, Finish, Go, CallsOK
<1> QED
  BY <1>1, <1>6, <1>7, <1>8, <1>9, <1>10, <1>11, <1>12, <1>13, <1>14, <1>15, <1>16, <1>17
     DEF SessionStep, Stage, Locked

(* A policy swap or a drift check is seen by every call under way.          *)
LEMMA PermitsStep ==
  ASSUME CallsOK, StoresOK, WorldOK, Named, Next, PipelineInv,
         NEW u \in Sessions, pc'[u] # "idle"
  PROVE  Permits' \subseteq call'[u].inForce
<1>0. CallsOK'
  BY CallsStep
<1>1. ASSUME NEW calls \in [Sessions -> Call \union {None}], call' = Witness(calls)
      PROVE  Permits' \subseteq call'[u].inForce
  <2>1. calls[u] # None
    BY <1>0, <1>1, Witnessed DEF CallsOK
  <2> QED
    BY <1>1, <2>1, WitnessIsQuiet
<1>2. CASE Swap \/ Relist \/ Reapprove
  <2>1. call' = Witness(call)
    BY <1>2 DEF Swap, Relist, Reapprove
  <2> QED
    BY <1>1, <2>1 DEF CallsOK
<1>3. ASSUME NEW s \in Sessions, Refetch(s), call' = Witness(Marked(s))
      PROVE  Permits' \subseteq call'[u].inForce
  <2>1. Marked(s) \in [Sessions -> Call \union {None}]
    BY <1>3, OwnDrift DEF Refetch
  <2> QED
    BY <1>1, <1>3, <2>1
<1>4. CASE Receive(u)
  <2>1. PICK args \in Args, nonce \in Nonces \union {None},
             approval \in {i \in ApprovalIds : approvals[i] # None} \union {None},
             challenge \in {i \in ChallengeIds : challenges[i] # None} \union {None},
             code \in Codes \union {None} :
               /\ challenge = None => code = None
               /\ call' = [call EXCEPT ![u] = Fresh(args, nonce, approval, challenge, code)]
               /\ CheckNonce(u, nonce)
    BY <1>4, Zenon DEF Receive
  <2>2. Permits' = Permits
    BY <1>4 DEF Receive, world, Permits
  <2> QED
    BY <2>1, <2>2 DEF Fresh, CallsOK
<1>5. CASE UNCHANGED <<engine, blocked>> /\ ~Receive(u) /\ ~Restart
  <2>1. pc[u] # "idle" /\ call[u].inForce \subseteq call'[u].inForce
    BY <1>5, SameAsked, QuietOthers, QuietAround, NextParts DEF Quiet, SameCall
  <2>2. Permits' = Permits
    BY <1>5 DEF Permits
  <2> QED
    BY <2>1, <2>2 DEF PipelineInv
<1>6. ~Restart
  BY <1>0 DEF Restart
<1>7. \/ UNCHANGED <<engine, blocked>> \/ Swap \/ Relist \/ Reapprove
      \/ \E s \in Sessions : Refetch(s) /\ call' = Witness(Marked(s))
  BY <1>6 DEF Next, Stage, Locked, EndApproval, Receive, Authorize, DriftStatus,
       TakeChallenge, DedupCode, Score, Hold, IssueApproval, IssueChallenge, IssueNothing,
       ConsumeApproval, Validate, AskUpstream,
       Refetch, RecordAllow, Dispatch, Answer, LockApproval,
       RefuseApproval, RedeemFails, Cancel, Review, AuditApproval, CommitApproval,
       RollBackApproval, ExpireApproval, Lapse, DropChallenge, Drift, world, Marked
<1> QED
  BY <1>2, <1>3, <1>4, <1>5, <1>6, <1>7

(* Approvals: what the log has of them.                                     *)
LEMMA ReviewedStep ==
  ASSUME CallsOK, StoresOK, WorldOK, Named, Next, PipelineInv,
         NEW i \in ApprovalIds
  PROVE  Reviewed(i)'
<1> DEFINE Row == approvals[i]
<1>0. Kept /\ Reviewed(i)
  BY KeptStep DEF PipelineInv
(* The table says nothing new of the approval.                              *)
<1>1. ASSUME Row # None /\ approvals'[i].status = "approved" => Row.status = "approved",
             Row = None => approvals'[i] = None
      PROVE  Reviewed(i)'
  <2>1. CASE Row = None
    BY <1>1, <2>1 DEF Reviewed
  <2>2. CASE Row # None
    <3>1. approvals'[i].args = Row.args /\ approvals'[i].audit = Row.audit
      BY <1>0, <2>2 DEF Kept, KeptApprovals
    <3> QED
      BY <1>0, <1>1, <2>2, <3>1 DEF Reviewed, Entered, Kept
  <2> QED
    BY <2>1, <2>2
<1>2. ASSUME UNCHANGED approvals PROVE Reviewed(i)'
  BY <1>1, <1>2
<1>3. ASSUME NEW s \in Sessions, IssueApproval(s) PROVE Reviewed(i)'
  <2>1. PICK id \in {j \in ApprovalIds : approvals[j] = None} :
          approvals' = [approvals EXCEPT ![id] = Requested(call[s].n, call[s].args)]
    BY <1>3 DEF IssueApproval
  <2>2. CASE id # i
    BY <1>1, <1>3, <2>1, <2>2 DEF IssueApproval, StoresOK
  <2>3. CASE id = i
    <3>1. approvals'[i] = Requested(call[s].n, call[s].args)
      BY <2>1, <2>3 DEF StoresOK
    <3>2. HeldRow(call[s].n, call[s].args) \in log
      BY <1>3 DEF IssueApproval, PipelineInv, At
    <3>3. holder'[i] # Admin
      BY <1>3, <2>1, <2>3, PipelineAssumption DEF IssueApproval, StoresOK
    <3> QED
      BY <1>0, <3>1, <3>2, <3>3 DEF Reviewed, Requested, Kept
  <2> QED
    BY <2>2, <2>3
<1>4. ASSUME NEW s \in Sessions, ConsumeApproval(s) PROVE Reviewed(i)'
  <2>0. call[s].approval \in ApprovalIds /\ approvals[call[s].approval] \in Approval
    <3>1. call[s] \in Call /\ call[s].approval # None
      BY <1>4, CallOf DEF ConsumeApproval, Named
    <3> QED
      BY <1>4, <3>1 DEF ConsumeApproval, Named, Call, StoresOK
  <2>1. /\ approvals' = [approvals EXCEPT ![call[s].approval].consumed = TRUE]
        /\ holder' = [holder EXCEPT ![call[s].approval] = None]
    BY <1>4 DEF ConsumeApproval
  <2>2. CASE call[s].approval # i
    BY <1>1, <2>0, <2>1, <2>2 DEF StoresOK
  <2>3. CASE call[s].approval = i
    <3>1. approvals'[i] = [Row EXCEPT !.consumed = TRUE]
      BY <2>0, <2>1, <2>3 DEF StoresOK
    <3>2. approvals'[i].status = Row.status
      BY <2>0, <2>3, <3>1 DEF Approval
    <3> QED
      BY <1>1, <2>0, <2>3, <3>2, NoRecordAssumption
  <2> QED
    BY <2>2, <2>3
<1>5. ASSUME NEW id \in ApprovalIds, approvals[id] # None,
             approvals' = [approvals EXCEPT ![id].status = "expired"] \/
             approvals' = [approvals EXCEPT ![id].lapsed = TRUE]
      PROVE  Reviewed(i)'
  <2>0. approvals[id] \in Approval
    BY <1>5, ApprovalOf
  <2>1. CASE id # i
    BY <1>1, <1>5, <2>1 DEF StoresOK
  <2>2. CASE id = i
    <3>1. approvals'[i] \in {[Row EXCEPT !.status = "expired"], [Row EXCEPT !.lapsed = TRUE]}
      BY <1>5, <2>2 DEF StoresOK
    <3>2. approvals'[i].status = "approved" => Row.status = "approved"
      BY <2>0, <2>2, <3>1 DEF Approval
    <3> QED
      BY <1>1, <1>5, <2>2, <3>2
  <2> QED
    BY <2>1, <2>2
<1>6. ASSUME NEW s \in Sessions, RefuseApproval(s) PROVE Reviewed(i)'
  <2>0. call[s].approval \in ApprovalIds /\ approvals[call[s].approval] # None
    <3>1. call[s] \in Call /\ call[s].approval # None
      BY <1>6, CallOf DEF RefuseApproval
    <3> QED
      BY <1>6, <3>1 DEF RefuseApproval, Named, Call
  <2> QED
    BY <1>2, <1>5, <1>6, <2>0 DEF RefuseApproval
<1>7. ASSUME NEW id \in ApprovalIds, ExpireApproval(id) \/ Lapse(id) PROVE Reviewed(i)'
  BY <1>5, <1>7 DEF ExpireApproval, Lapse
<1>8. ASSUME NEW id \in ApprovalIds, CommitApproval(id) PROVE Reviewed(i)'
  <2>1. /\ Entered(id, "APPROVED") \in log /\ holder[id] = Admin
        /\ approvals' = [approvals EXCEPT ![id].status = "approved"]
    BY <1>8 DEF CommitApproval
  <2>2. CASE id # i
    BY <1>1, <2>1, <2>2 DEF StoresOK
  <2>3. CASE id = i
    <3>1. Row # None
      BY <2>1, <2>3, PipelineAssumption DEF StoresOK
    <3>2. approvals'[i].args = Row.args /\ approvals'[i].audit = Row.audit
      BY <1>0, <3>1 DEF Kept, KeptApprovals
    <3> QED
      BY <1>0, <2>1, <2>3, <3>1, <3>2 DEF Reviewed, Entered, Kept
  <2> QED
    BY <2>2, <2>3
<1> QED
  BY <1>2, <1>3, <1>4, <1>6, <1>7, <1>8
     DEF Next, Stage, Locked, EndApproval, Receive, Authorize, DriftStatus, TakeChallenge,
         DedupCode, Score, Hold, IssueChallenge, IssueNothing, Validate, AskUpstream, Refetch,
         RecordAllow, Dispatch, Answer, LockApproval, RedeemFails, Cancel, Review,
         AuditApproval, RollBackApproval, DropChallenge, Swap, Drift, Relist, Reapprove,
         Restart, stores

LEMMA ForwardedStep ==
  ASSUME CallsOK, StoresOK, WorldOK, Named, Next, PipelineInv,
         NEW f \in forwarded'
  PROVE  At(f, "dispatch", approvals', challenges', log')
<1>0. Kept
  BY KeptStep
<1>1. CASE f \in forwarded
  <2>1. f \in Call /\ At(f, "dispatch", approvals, challenges, log)
    BY <1>1 DEF WorldOK, PipelineInv
  <2> QED
    BY <1>0, <2>1, KeptAt, SameItself
<1>2. CASE f \notin forwarded
  <2>1. PICK s \in Sessions : Dispatch(s)
    BY <1>2 DEF Next, Stage, Locked, EndApproval, Receive, Authorize, DriftStatus,
       TakeChallenge, DedupCode, Score, Hold, IssueApproval, IssueChallenge, IssueNothing,
       ConsumeApproval, Validate, AskUpstream, Refetch, RecordAllow, Answer, LockApproval,
       RefuseApproval, RedeemFails, Cancel, Review, AuditApproval, CommitApproval,
       RollBackApproval, ExpireApproval, Lapse, DropChallenge, Swap, Drift, Relist,
       Reapprove, Restart
  <2>2. f = call[s] /\ pc[s] = "dispatch"
    BY <1>2, <2>1 DEF Dispatch
  <2>3. f \in Call /\ At(f, "dispatch", approvals, challenges, log)
    BY <2>2, CallOf DEF PipelineInv
  <2> QED
    BY <1>0, <2>3, KeptAt, SameItself
<1> QED
  BY <1>1, <1>2

LEMMA InvStep ==
  ASSUME CallsOK, StoresOK, WorldOK, Named, Next, PipelineInv
  PROVE  PipelineInv'
<1>0. Kept /\ CallsOK'
  BY KeptStep, CallsStep
<1>1. ASSUME NEW u \in Sessions, Quiet(u), pc'[u] # "idle"
      PROVE  At(call'[u], pc'[u], approvals', challenges', log')
  <2>1. call[u] \in Call /\ At(call[u], pc[u], approvals, challenges, log)
    BY <1>1, CallOf DEF Quiet, PipelineInv
  <2>2. SameCall(call[u], call'[u]) /\ pc'[u] = pc[u]
    BY <1>1 DEF Quiet
  <2> QED
    BY <1>0, <2>1, <2>2, KeptAt
<1>2. ASSUME NEW u \in Sessions, pc'[u] # "idle"
      PROVE  At(call'[u], pc'[u], approvals', challenges', log')
  <2>1. ASSUME NEW s \in Sessions, SessionStep(s)
        PROVE  At(call'[u], pc'[u], approvals', challenges', log')
    BY <1>1, <1>2, <2>1, MovedAt, QuietOthers
  <2>2. CASE Around
    BY <1>1, <1>2, <2>2, QuietAround
  <2>3. ~Restart
    BY <1>2 DEF Restart
  <2> QED
    BY <2>1, <2>2, <2>3, NextParts
<1> QED
  BY <1>2, PermitsStep, ForwardedStep, ReviewedStep DEF PipelineInv

LEMMA PipelineHolds == Spec => [](TypeOK /\ PipelineInv)
<1>1. Init => PipelineInv
  <2> SUFFICES ASSUME Init PROVE PipelineInv
    OBVIOUS
  <2>1. /\ \A u \in Sessions : pc[u] = "idle"
        /\ forwarded = {}
    BY DEF Init
  <2>2. ASSUME NEW i \in ApprovalIds, approvals[i] # None PROVE Reviewed(i)
    <3>1. PICK a \in Args : approvals[i] = Requested(0, a)
      BY <2>2 DEF Init
    <3>2. approvals[i].audit = 0 /\ approvals[i].status = "pending"
      BY <3>1 DEF Requested
    <3>3. HeldRow(0, approvals[i].args) \in log
      BY <2>2 DEF Init, HeldRow
    <3>4. holder[i] # Admin
      BY PipelineAssumption DEF Init
    <3> QED
      BY <3>2, <3>3, <3>4 DEF Reviewed
  <2> QED
    BY <2>1, <2>2 DEF PipelineInv, Reviewed
<1>2. TypeOK /\ Named /\ PipelineInv /\ Next => PipelineInv'
  BY TypeParts, InvStep
<1>3. TypeOK /\ Named /\ PipelineInv /\ UNCHANGED vars => PipelineInv'
  BY DEF PipelineInv, Reviewed, Entered, Permits, vars, stores, world
<1> QED
  BY <1>1, <1>2, <1>3, TypesHold, PTL DEF Spec

(* No record, no action: a call that reached the upstream has its ALLOW row.*)
THEOREM ForwardedAreRecorded == Spec => []RecordedBeforeForwarded
<1>1. PipelineInv => RecordedBeforeForwarded
  BY DEF PipelineInv, At, Allowed, RecordedBeforeForwarded
<1> QED
  BY <1>1, PipelineHolds, PTL

(* A call goes through on an approval only if the same arguments were held, *)
(* and the grant was recorded.                                              *)
THEOREM RedeemedWereReviewed == Spec => []ReviewedAsHeld
<1>1. TypeOK /\ PipelineInv => ReviewedAsHeld
  <2> SUFFICES ASSUME TypeOK, PipelineInv, NEW f \in forwarded, f.approval # None
               PROVE  /\ approvals[f.approval].consumed
                      /\ Entered(f.approval, "APPROVED") \in log
                      /\ HeldRow(approvals[f.approval].audit, f.args) \in log
    BY DEF ReviewedAsHeld, HeldRow
  <2>1. Agreed(f, approvals) /\ approvals[f.approval].consumed
    BY DEF PipelineInv, At, Cleared
  <2>2. f.approval \in ApprovalIds
    BY DEF TypeOK, Call
  <2>3. Reviewed(f.approval)
    BY <2>2 DEF PipelineInv
  <2> QED
    BY <2>1, <2>3 DEF Agreed, Reviewed
<1> QED
  BY <1>1, PipelineHolds, PTL

(* A call that was scored is in the allow band, or in the challenge band    *)
(* with a challenge of its own arguments that it has taken.                 *)
THEOREM BandsAreRespected == Spec => []BandsRespected
<1>1. PipelineInv => BandsRespected
  BY DEF PipelineInv, At, Cleared, Agreed, InBand, Taken, BandsRespected
<1> QED
  BY <1>1, PipelineHolds, PTL

(* What goes through was granted, and its tool unblocked, at some moment    *)
(* since it arrived, whatever policies were swapped and lists checked.      *)
THEOREM ForwardedWerePermitted == Spec => []PermittedWhileRunning
<1>1. TypeOK /\ PipelineInv => PermittedWhileRunning
  <2> SUFFICES ASSUME TypeOK, PipelineInv, NEW f \in forwarded
               PROVE  f.policy \in Granting /\ f.inForce = {"grant", "unblocked"}
    BY DEF PermittedWhileRunning
  <2>1. f.policy \in Granting /\ "grant" \in f.inForce /\ "unblocked" \in f.inForce
    BY DEF PipelineInv, At, PastGrant, PastDrift, Cleared
  <2>2. f.inForce \subseteq {"grant", "unblocked"}
    BY DEF TypeOK, Call
  <2> QED
    BY <2>1, <2>2
<1> QED
  BY <1>1, PipelineHolds, PTL

-----------------------------------------------------------------------------
(* From which stage on a call owns its nonce, its challenge and its code.   *)
CodeStages  == {"risk", "redeem", "hold", "issue"} \union Cleared
TakenStages == {"code"} \union CodeStages
NonceStages == {"authorize", "drift", "challenge"} \union TakenStages

Owns(c, stage, nonces, chs, codes) ==
  /\ c.challenge = None => c.code = None
  /\ stage \in NonceStages /\ c.nonce # None => c.nonce \in nonces
  /\ stage \in TakenStages /\ c.challenge # None =>
       chs[c.challenge] # None /\ ~chs[c.challenge].live
  /\ stage \in CodeStages /\ c.code # None => c.code \in codes

Apart(c, cstage, d, dstage) ==
  /\ cstage \in NonceStages /\ dstage \in NonceStages /\ c.nonce = d.nonce =>
       c.nonce = None
  /\ cstage \in TakenStages /\ dstage \in TakenStages /\ c.challenge = d.challenge =>
       c.challenge = None
  /\ cstage \in CodeStages /\ dstage \in CodeStages /\ c.code = d.code => c.code = None

TokenInv ==
  /\ \A u \in Sessions : pc[u] # "idle" =>
       /\ Owns(call[u], pc[u], seen, challenges, used)
       /\ \A f \in forwarded : Apart(call[u], pc[u], f, "dispatch")
       /\ \A s \in Sessions : s # u /\ pc[s] # "idle" => Apart(call[u], pc[u], call[s], pc[s])
  /\ \A f \in forwarded :
       /\ Owns(f, "dispatch", seen, challenges, used)
       /\ \A g \in forwarded : g # f => Apart(f, "dispatch", g, "dispatch")

LEMMA ApartIsMutual ==
  ASSUME NEW c, NEW cs, NEW d, NEW ds, Apart(c, cs, d, ds)
  PROVE  Apart(d, ds, c, cs)
BY DEF Apart

LEMMA TokensKept ==
  ASSUME CallsOK, StoresOK, Named, Next
  PROVE  seen \subseteq seen' /\ used \subseteq used' /\ KeptChallenges
<1>1. seen \subseteq seen'
  <2>1. ASSUME NEW s \in Sessions, Receive(s) PROVE seen \subseteq seen'
    <3>1. PICK nonce : CheckNonce(s, nonce)
      BY <2>1 DEF Receive
    <3> QED
      BY <3>1 DEF CheckNonce
  <2> QED
    BY <2>1 DEF Next, Stage, Locked, EndApproval, Authorize, DriftStatus, TakeChallenge,
         DedupCode, Score, Hold, IssueApproval, IssueChallenge, IssueNothing,
         ConsumeApproval, Validate, AskUpstream,
         Refetch, RecordAllow, Dispatch, Answer, LockApproval,
         RefuseApproval, RedeemFails, Cancel, Review, AuditApproval, CommitApproval,
         RollBackApproval, ExpireApproval, Lapse, DropChallenge, Swap, Drift, Relist,
         Reapprove, Restart, stores
<1>2. used \subseteq used'
  BY DEF Next, Stage, Locked, EndApproval, Receive, Authorize, DriftStatus,
         TakeChallenge, DedupCode, Score, Hold, IssueApproval, IssueChallenge, IssueNothing,
         ConsumeApproval, Validate, AskUpstream,
         Refetch, RecordAllow, Dispatch, Answer, LockApproval,
         RefuseApproval, RedeemFails, Cancel, Review, AuditApproval, CommitApproval,
         RollBackApproval, ExpireApproval, Lapse, DropChallenge, Swap, Drift, Relist,
         Reapprove, Restart, stores
<1> QED
  BY <1>1, <1>2, ChallengesStep

LEMMA OwnsKept ==
  ASSUME CallsOK, StoresOK, Named, Next, NEW c \in Call, NEW d, SameRequest(c, d),
         NEW stage, Owns(c, stage, seen, challenges, used)
  PROVE  Owns(d, stage, seen', challenges', used')
<1>1. c.challenge # None => c.challenge \in ChallengeIds
  BY DEF Call
<1> QED
  BY <1>1, TokensKept DEF Owns, SameRequest, KeptChallenges

(* What a call that moves gets hold of.                                     *)
LEMMA Acquired ==
  ASSUME CallsOK, StoresOK, WorldOK, Named, Next, NEW s \in Sessions, SessionStep(s),
         ~Receive(s), pc'[s] # "idle"
  PROVE  /\ pc'[s] \in NonceStages => pc[s] \in NonceStages
         /\ pc'[s] \in TakenStages =>
              \/ pc[s] \in TakenStages \/ call[s].challenge = None
              \/ challenges[call[s].challenge].live /\ ~challenges'[call[s].challenge].live
         /\ pc'[s] \in CodeStages =>
              \/ pc[s] \in CodeStages \/ call[s].challenge = None
              \/ call[s].code \notin used /\ call[s].code \in used'
<1> DEFINE Gain ==
         /\ pc'[s] \in NonceStages => pc[s] \in NonceStages
         /\ pc'[s] \in TakenStages =>
              \/ pc[s] \in TakenStages \/ call[s].challenge = None
              \/ challenges[call[s].challenge].live /\ ~challenges'[call[s].challenge].live
         /\ pc'[s] \in CodeStages =>
              \/ pc[s] \in CodeStages \/ call[s].challenge = None
              \/ call[s].code \notin used /\ call[s].code \in used'
<1>1. ASSUME Refuse(s) PROVE Gain
  BY <1>1 DEF Refuse, Go, CallsOK, NonceStages, TakenStages, CodeStages, Cleared
<1>2. ASSUME DriftStatus(s) PROVE Gain
  <2>1. pc[s] = "drift"
    BY <1>2 DEF DriftStatus
  <2>2. CASE Go(s, IF call[s].challenge # None THEN "challenge" ELSE "risk")
    BY <2>1, <2>2 DEF Go, CallsOK, NonceStages, TakenStages, CodeStages, Cleared
  <2> QED
    BY <1>1, <1>2, <2>2 DEF DriftStatus
<1>3. ASSUME TakeChallenge(s) PROVE Gain
  <2>1. CASE /\ challenges[call[s].challenge].live /\ Go(s, "code")
             /\ challenges' = [challenges EXCEPT ![call[s].challenge].live = FALSE]
    <3>1. call[s] \in Call /\ call[s].challenge # None /\ pc[s] = "challenge"
      BY <1>3, CallOf DEF TakeChallenge, Named
    <3>2. /\ call[s].challenge \in ChallengeIds
          /\ challenges[call[s].challenge] \in Challenge
      BY <3>1 DEF Call, Named, StoresOK
    <3>3. challenges'[call[s].challenge] = [challenges[call[s].challenge] EXCEPT !.live = FALSE]
      BY <2>1, <3>2 DEF StoresOK
    <3>4. ~challenges'[call[s].challenge].live
      BY <3>2, <3>3 DEF Challenge
    <3>5. pc'[s] = "code"
      BY <2>1 DEF Go, CallsOK
    <3> QED
      BY <2>1, <3>1, <3>4, <3>5 DEF NonceStages, TakenStages, CodeStages, Cleared
  <2> QED
    BY <1>1, <1>3, <2>1 DEF TakeChallenge
<1>4. ASSUME DedupCode(s) PROVE Gain
  <2>1. CASE call[s].code \notin used /\ used' = used \union {call[s].code} /\ Go(s, "risk")
    <3>1. pc[s] = "code" /\ pc'[s] = "risk"
      BY <1>4, <2>1 DEF DedupCode, Go, CallsOK
    <3> QED
      BY <2>1, <3>1 DEF NonceStages, TakenStages, CodeStages, Cleared
  <2> QED
    BY <1>1, <1>4, <2>1 DEF DedupCode
<1>5. ASSUME Authorize(s) PROVE Gain
  <2>1. pc[s] = "authorize" /\ pc'[s] \in {"drift", "refuse"}
    BY <1>5 DEF Authorize, Refuse, Go, CallsOK
  <2> QED
    BY <2>1 DEF NonceStages, TakenStages, CodeStages, Cleared
<1>6. ASSUME \/ Score(s) \/ Hold(s) \/ IssueApproval(s) \/ IssueChallenge(s)
             \/ IssueNothing(s) \/ ConsumeApproval(s) \/ Validate(s) \/ AskUpstream(s) \/ Refetch(s)
             \/ RecordAllow(s) \/ LockApproval(s) \/ RefuseApproval(s) \/ RedeemFails(s)
      PROVE  Gain
  <2>1. pc[s] \in CodeStages
    BY <1>6 DEF Score, Hold, IssueApproval, IssueChallenge, IssueNothing, ConsumeApproval,
         Validate, AskUpstream, Refetch, RecordAllow, LockApproval, RefuseApproval, RedeemFails,
         CodeStages, Cleared
  <2> QED
    BY <2>1 DEF NonceStages, TakenStages
<1>7. ~(Dispatch(s) \/ Answer(s) \/ Cancel(s))
  BY DEF Dispatch, Answer, Cancel, Finish, Go, CallsOK
<1> QED
  BY <1>2, <1>3, <1>4, <1>5, <1>6, <1>7 DEF SessionStep, Stage, Locked

(* The one that moves stays apart from every other owner.                   *)
LEMMA MovedApart ==
  ASSUME CallsOK, StoresOK, WorldOK, Named, Next, NEW s \in Sessions, SessionStep(s),
         pc'[s] # "idle", NEW d, NEW stage,
         Owns(d, stage, seen, challenges, used),
         pc[s] # "idle" => /\ Owns(call[s], pc[s], seen, challenges, used)
                           /\ Apart(call[s], pc[s], d, stage)
  PROVE  Apart(call'[s], pc'[s], d, stage)
<1>1. CASE Receive(s)
  <2>1. PICK args \in Args, nonce \in Nonces \union {None},
             approval \in {i \in ApprovalIds : approvals[i] # None} \union {None},
             challenge \in {i \in ChallengeIds : challenges[i] # None} \union {None},
             code \in Codes \union {None} :
               /\ challenge = None => code = None
               /\ call' = [call EXCEPT ![s] = Fresh(args, nonce, approval, challenge, code)]
               /\ CheckNonce(s, nonce)
    BY <1>1, Zenon DEF Receive
  <2>2. call'[s].nonce = nonce
    BY <2>1 DEF Fresh, CallsOK
  <2>3. /\ pc'[s] \in {"authorize", "refuse"}
        /\ pc'[s] = "authorize" /\ nonce # None => nonce \notin seen
    BY <2>1 DEF CheckNonce, Refuse, Go, CallsOK
  <2> QED
    BY <2>2, <2>3 DEF Apart, Owns, NonceStages, TakenStages, CodeStages, Cleared
<1>2. CASE ~Receive(s)
  <2>1. /\ SameRequest(call[s], call'[s]) /\ Apart(call[s], pc[s], d, stage)
        /\ call[s].challenge = None => call[s].code = None
    BY <1>2, SameAsked DEF Owns
  <2>2. /\ call'[s].nonce = call[s].nonce /\ call'[s].challenge = call[s].challenge
        /\ call'[s].code = call[s].code
    BY <2>1 DEF SameRequest
  <2>3. ASSUME pc'[s] \in NonceStages, stage \in NonceStages, call'[s].nonce = d.nonce
        PROVE  call'[s].nonce = None
    BY <1>2, <2>1, <2>2, <2>3, Acquired DEF Apart
  <2>4. ASSUME pc'[s] \in TakenStages, stage \in TakenStages,
               call'[s].challenge = d.challenge
        PROVE  call'[s].challenge = None
    BY <1>2, <2>1, <2>2, <2>4, Acquired DEF Apart, Owns
  <2>5. ASSUME pc'[s] \in CodeStages, stage \in CodeStages, call'[s].code = d.code
        PROVE  call'[s].code = None
    BY <1>2, <2>1, <2>2, <2>5, Acquired DEF Apart, Owns
  <2> QED
    BY <2>3, <2>4, <2>5 DEF Apart
<1> QED
  BY <1>1, <1>2

LEMMA MovedOwns ==
  ASSUME CallsOK, StoresOK, WorldOK, Named, Next, TokenInv, NEW s \in Sessions,
         SessionStep(s), pc'[s] # "idle"
  PROVE  Owns(call'[s], pc'[s], seen', challenges', used')
<1>1. CASE Receive(s)
  <2>1. PICK args \in Args, nonce \in Nonces \union {None},
             approval \in {i \in ApprovalIds : approvals[i] # None} \union {None},
             challenge \in {i \in ChallengeIds : challenges[i] # None} \union {None},
             code \in Codes \union {None} :
               /\ challenge = None => code = None
               /\ call' = [call EXCEPT ![s] = Fresh(args, nonce, approval, challenge, code)]
               /\ CheckNonce(s, nonce)
    BY <1>1, Zenon DEF Receive
  <2>2. /\ call'[s].nonce = nonce /\ call'[s].challenge = challenge
        /\ call'[s].code = code
    BY <2>1 DEF Fresh, CallsOK
  <2>3. /\ pc'[s] \in {"authorize", "refuse"}
        /\ pc'[s] = "authorize" /\ nonce # None => nonce \in seen'
    BY <2>1 DEF CheckNonce, Refuse, Go, CallsOK
  <2> QED
    BY <2>1, <2>2, <2>3 DEF Owns, NonceStages, TakenStages, CodeStages, Cleared
<1>2. CASE ~Receive(s)
  <2>1. pc[s] # "idle" /\ SameRequest(call[s], call'[s]) /\ call[s] \in Call
    BY <1>2, SameAsked, CallOf
  <2>2. Owns(call'[s], pc[s], seen', challenges', used')
    BY <2>1, OwnsKept DEF TokenInv
  <2>3. call[s].challenge # None => challenges'[call[s].challenge] # None
    BY <2>1, ChallengesStep DEF Named, KeptChallenges, Call
  <2>4. call[s].challenge = None => call[s].code = None
    BY <2>1 DEF TokenInv, Owns
  <2> QED
    BY <1>2, <2>1, <2>2, <2>3, <2>4, Acquired DEF Owns, SameRequest
<1> QED
  BY <1>1, <1>2

LEMMA StillApart ==
  ASSUME NEW c, NEW c2, SameRequest(c, c2), NEW stage, NEW d, NEW dstage,
         Apart(c, stage, d, dstage)
  PROVE  Apart(c2, stage, d, dstage)
BY DEF Apart, SameRequest

(* Only a call at its last stage reaches the upstream, and it ends there.   *)
LEMMA ForwardedGrows ==
  ASSUME CallsOK, WorldOK, Next
  PROVE  forwarded' = forwarded \/ \E s \in Sessions :
           /\ pc[s] = "dispatch" /\ call[s] \in Call /\ pc'[s] = "idle"
           /\ forwarded' = forwarded \union {call[s]}
           /\ Dispatch(s) /\ \A u \in Sessions : u # s => Quiet(u)
<1>1. CASE \E s \in Sessions : Dispatch(s)
  <2>1. PICK s \in Sessions : Dispatch(s)
    BY <1>1
  <2>2. /\ pc[s] = "dispatch" /\ pc'[s] = "idle" /\ SessionStep(s)
        /\ forwarded' = forwarded \union {call[s]}
    BY <2>1 DEF Dispatch, Finish, Go, CallsOK, SessionStep, Stage
  <2> QED
    BY <2>1, <2>2, CallOf, QuietOthers
<1>2. CASE \A s \in Sessions : ~Dispatch(s)
  BY <1>2 DEF Next, Stage, Locked, EndApproval, Receive, Authorize, DriftStatus,
     TakeChallenge, DedupCode, Score, Hold, IssueApproval, IssueChallenge, IssueNothing,
     ConsumeApproval, Validate, AskUpstream, Refetch, RecordAllow, Answer, LockApproval,
     RefuseApproval, RedeemFails, Cancel, Review, AuditApproval, CommitApproval,
     RollBackApproval, ExpireApproval, Lapse, DropChallenge, Swap, Drift, Relist,
     Reapprove, Restart
<1> QED
  BY <1>1, <1>2

LEMMA TokenStep ==
  ASSUME CallsOK, StoresOK, WorldOK, Named, Next, TokenInv
  PROVE  TokenInv'
<1> DEFINE OwnsAll == /\ \A u \in Sessions : pc'[u] # "idle" =>
                           Owns(call'[u], pc'[u], seen', challenges', used')
                      /\ \A f \in forwarded' : Owns(f, "dispatch", seen', challenges', used')
           FromCalls == \A u \in Sessions : pc'[u] # "idle" =>
             /\ \A f \in forwarded : Apart(call'[u], pc'[u], f, "dispatch")
             /\ \A s \in Sessions : s # u /\ pc'[s] # "idle" =>
                  Apart(call'[u], pc'[u], call'[s], pc'[s])
           FromForwarded ==
             /\ \A u \in Sessions : pc'[u] # "idle" =>
                  \A f \in forwarded' : Apart(call'[u], pc'[u], f, "dispatch")
             /\ \A f, g \in forwarded' : g # f => Apart(f, "dispatch", g, "dispatch")
<1>1. ASSUME NEW u \in Sessions, Quiet(u), pc'[u] # "idle"
      PROVE  /\ pc[u] # "idle" /\ pc'[u] = pc[u] /\ call[u] \in Call
             /\ SameRequest(call[u], call'[u])
             /\ Owns(call'[u], pc'[u], seen', challenges', used')
  <2>1. /\ pc[u] # "idle" /\ pc'[u] = pc[u] /\ call[u] \in Call
        /\ SameRequest(call[u], call'[u])
    BY <1>1, CallOf DEF Quiet, SameCall
  <2> QED
    BY <2>1, OwnsKept DEF TokenInv
<1>2. ASSUME NEW u \in Sessions, Quiet(u), pc'[u] # "idle",
             NEW d, NEW stage, Apart(call[u], pc[u], d, stage)
      PROVE  Apart(call'[u], pc'[u], d, stage)
  BY <1>1, <1>2, StillApart
<1>3. ASSUME NEW u \in Sessions, Quiet(u), pc'[u] # "idle",
             NEW s \in Sessions, s # u, Quiet(s), pc'[s] # "idle"
      PROVE  Apart(call'[u], pc'[u], call'[s], pc'[s])
  <2>1. pc[u] # "idle" /\ pc[s] # "idle"
    BY <1>1, <1>3
  <2>2. Apart(call'[u], pc'[u], call[s], pc[s])
    BY <1>2, <1>3, <2>1 DEF TokenInv
  <2>3. Apart(call[s], pc[s], call'[u], pc'[u])
    BY <2>2, ApartIsMutual
  <2>4. Apart(call'[s], pc'[s], call'[u], pc'[u])
    BY <1>2, <1>3, <2>3
  <2> QED
    BY <2>4, ApartIsMutual
<1>4. ASSUME NEW s \in Sessions, SessionStep(s), pc'[s] # "idle"
      PROVE  /\ \A f \in forwarded : Apart(call'[s], pc'[s], f, "dispatch")
             /\ \A u \in Sessions : u # s /\ pc'[u] # "idle" =>
                  /\ Apart(call'[s], pc'[s], call'[u], pc'[u])
                  /\ Apart(call'[u], pc'[u], call'[s], pc'[s])
  <2>1. ASSUME NEW f \in forwarded PROVE Apart(call'[s], pc'[s], f, "dispatch")
    BY <1>4, MovedApart DEF TokenInv
  <2>2. ASSUME NEW u \in Sessions, u # s, pc'[u] # "idle"
        PROVE  /\ Apart(call'[s], pc'[s], call'[u], pc'[u])
               /\ Apart(call'[u], pc'[u], call'[s], pc'[s])
    <3>1. Quiet(u)
      BY <1>4, <2>2, QuietOthers
    <3>2. pc[u] # "idle"
      BY <1>1, <2>2, <3>1
    <3>3. Apart(call'[s], pc'[s], call[u], pc[u])
      BY <1>4, <2>2, <3>2, MovedApart DEF TokenInv
    <3>4. Apart(call[u], pc[u], call'[s], pc'[s])
      BY <3>3, ApartIsMutual
    <3>5. Apart(call'[u], pc'[u], call'[s], pc'[s])
      BY <1>2, <2>2, <3>1, <3>4
    <3> QED
      BY <3>5, ApartIsMutual
  <2> QED
    BY <2>1, <2>2
<1>5. FromCalls
  <2>1. CASE Restart
    BY <2>1 DEF Restart
  <2>2. CASE Around
    <3>1. \A u \in Sessions : Quiet(u)
      BY <2>2, QuietAround
    <3>2. ASSUME NEW u \in Sessions, pc'[u] # "idle", NEW f \in forwarded
          PROVE  Apart(call'[u], pc'[u], f, "dispatch")
      <4>1. Apart(call[u], pc[u], f, "dispatch")
        BY <1>1, <3>1, <3>2 DEF TokenInv
      <4> QED
        BY <1>2, <3>1, <3>2, <4>1
    <3> QED
      BY <1>3, <3>1, <3>2
  <2>3. ASSUME NEW s \in Sessions, SessionStep(s) PROVE FromCalls
    <3>1. \A u \in Sessions : u # s => Quiet(u)
      BY <2>3, QuietOthers
    <3>2. ASSUME NEW u \in Sessions, u # s, pc'[u] # "idle", NEW f \in forwarded
          PROVE  Apart(call'[u], pc'[u], f, "dispatch")
      <4>1. Apart(call[u], pc[u], f, "dispatch")
        BY <1>1, <3>1, <3>2 DEF TokenInv
      <4> QED
        BY <1>2, <3>1, <3>2, <4>1
    <3> QED
      BY <1>3, <1>4, <2>3, <3>1, <3>2
  <2> QED
    BY <2>1, <2>2, <2>3, NextParts
<1>7. forwarded' = forwarded \/ \E s \in Sessions :
        /\ pc[s] = "dispatch" /\ call[s] \in Call /\ pc'[s] = "idle"
        /\ forwarded' = forwarded \union {call[s]} /\ \A u \in Sessions : u # s => Quiet(u)
  BY ForwardedGrows
<1>8. OwnsAll
  <2>1. ASSUME NEW u \in Sessions, pc'[u] # "idle"
        PROVE  Owns(call'[u], pc'[u], seen', challenges', used')
    <3>1. ~Restart
      BY <2>1 DEF Restart
    <3>2. SessionStep(u) \/ Quiet(u)
      BY <3>1, NextParts, QuietOthers, QuietAround
    <3> QED
      BY <1>1, <2>1, <3>2, MovedOwns
  <2>2. ASSUME NEW f \in forwarded' PROVE Owns(f, "dispatch", seen', challenges', used')
    <3>1. f \in Call /\ Owns(f, "dispatch", seen, challenges, used)
      BY <1>7 DEF TokenInv, WorldOK
    <3>2. SameRequest(f, f)
      BY DEF SameRequest
    <3> QED
      BY <3>1, <3>2, OwnsKept
  <2> QED
    BY <2>1, <2>2
<1>9. FromForwarded
  <2>1. CASE forwarded' = forwarded
    BY <1>5, <2>1 DEF TokenInv
  <2>2. ASSUME NEW s \in Sessions, pc[s] = "dispatch", pc'[s] = "idle",
               forwarded' = forwarded \union {call[s]}, \A u \in Sessions : u # s => Quiet(u)
        PROVE  FromForwarded
    <3>1. ASSUME NEW u \in Sessions, pc'[u] # "idle"
          PROVE  Apart(call'[u], pc'[u], call[s], "dispatch")
      <4>1. u # s /\ Quiet(u) /\ pc[u] # "idle"
        BY <1>1, <2>2, <3>1
      <4>2. Apart(call[u], pc[u], call[s], "dispatch")
        BY <2>2, <4>1 DEF TokenInv
      <4> QED
        BY <1>2, <3>1, <4>1, <4>2
    <3>2. ASSUME NEW f \in forwarded
          PROVE  /\ Apart(f, "dispatch", call[s], "dispatch")
                 /\ Apart(call[s], "dispatch", f, "dispatch")
      <4>1. Apart(call[s], "dispatch", f, "dispatch")
        BY <2>2 DEF TokenInv
      <4> QED
        BY <4>1, ApartIsMutual
    <3>3. \A f, g \in forwarded : g # f => Apart(f, "dispatch", g, "dispatch")
      BY DEF TokenInv
    <3> QED
      BY <1>5, <2>2, <3>1, <3>2, <3>3
  <2> QED
    BY <1>7, <2>1, <2>2
<1> QED
  BY <1>5, <1>8, <1>9 DEF TokenInv

(* Two calls never go through on one nonce, one challenge or one code.      *)
THEOREM TokensAreSpentOnce == Spec => []TokensAnswerOnce
<1>1. Init => TokenInv
  BY DEF Init, TokenInv
<1>2. TypeOK /\ Named /\ TokenInv /\ Next => TokenInv'
  BY TypeParts, TokenStep
<1>3. TypeOK /\ Named /\ TokenInv /\ UNCHANGED vars => TokenInv'
  BY DEF TokenInv, vars, stores, world
<1>4. TokenInv => TokensAnswerOnce
  BY DEF TokenInv, Apart, NonceStages, TakenStages, CodeStages, Cleared, TokensAnswerOnce
<1> QED
  BY <1>1, <1>2, <1>3, <1>4, TypesHold, PTL DEF Spec

-----------------------------------------------------------------------------
(* What a step does to one row of the approvals table and to its lock.      *)
Same(i) == approvals'[i] = approvals[i] /\ holder'[i] = holder[i]

Issued(i) ==
  /\ approvals[i] = None /\ holder[i] = None /\ holder'[i] = None
  /\ \E n \in 0..MaxCalls, args \in Args : approvals'[i] = Requested(n, args)

Lapsed(i) ==
  /\ approvals[i] # None
  /\ approvals'[i] = [approvals[i] EXCEPT !.lapsed = TRUE]
  /\ holder'[i] = holder[i]

Expired(i) ==
  /\ approvals[i] # None /\ approvals[i].status = "pending" /\ approvals[i].lapsed
  /\ approvals'[i] = [approvals[i] EXCEPT !.status = "expired"]
  /\ holder[i] = None /\ holder'[i] = None

LockedToRedeem(i) ==
  /\ approvals[i] # None /\ approvals[i].status = "approved"
  /\ ~approvals[i].consumed /\ ~approvals[i].lapsed
  /\ approvals'[i] = approvals[i]
  /\ holder[i] = None /\ holder'[i] \in Sessions

LockedToApprove(i) ==
  /\ approvals[i] # None /\ approvals[i].status = "pending" /\ ~approvals[i].lapsed
  /\ approvals'[i] = approvals[i]
  /\ holder[i] = None /\ holder'[i] = Admin

Consumed(i) ==
  /\ approvals[i] # None /\ holder[i] \in Sessions /\ holder'[i] = None
  /\ approvals'[i] = [approvals[i] EXCEPT !.consumed = TRUE]

Committed(i) ==
  /\ approvals[i] # None /\ holder[i] = Admin /\ holder'[i] = None
  /\ approvals'[i] = [approvals[i] EXCEPT !.status = "approved"]

Released(i) ==
  /\ holder[i] # None /\ holder'[i] = None
  /\ approvals'[i] = approvals[i]

RowStep(i) ==
  \/ Issued(i) \/ Lapsed(i) \/ Expired(i) \/ LockedToRedeem(i) \/ LockedToApprove(i)
  \/ Consumed(i) \/ Committed(i) \/ Same(i)

(* What the holder of a row's lock may rely on.                             *)
RowOK(i) ==
  /\ holder[i] = Admin => approvals[i].status = "pending"
  /\ holder[i] \in Sessions => approvals[i].status = "approved"
  /\ holder[i] # None => ~approvals[i].consumed
  /\ approvals[i] # None /\ approvals[i].consumed => approvals[i].status = "approved"

(* A session holds the lock of the approval it is redeeming, and no other.  *)
SessionLocks ==
  \A u \in Sessions, i \in ApprovalIds :
    holder[i] = u <=> pc[u] = "redeem" /\ call[u].approval = i

(* One approval clears one call.                                            *)
ClearedApart ==
  /\ \A u, s \in Sessions :
       /\ u # s /\ pc[u] \in Cleared /\ pc[s] \in Cleared
       /\ call[u].approval = call[s].approval
       => call[u].approval = None
  /\ \A u \in Sessions, f \in forwarded :
       pc[u] \in Cleared /\ call[u].approval = f.approval => f.approval = None
  /\ \A f, g \in forwarded : f # g /\ f.approval = g.approval => f.approval = None

GrantInv == (\A i \in ApprovalIds : RowOK(i)) /\ SessionLocks /\ ClearedApart

(* A call that redeems names a row of the table, and holds its lock.        *)
LEMMA Redeeming ==
  ASSUME CallsOK, StoresOK, Named, SessionLocks, NEW s \in Sessions, pc[s] = "redeem"
  PROVE  /\ call[s].approval \in ApprovalIds /\ approvals[call[s].approval] \in Approval
         /\ approvals[call[s].approval] # None /\ holder[call[s].approval] = s
<1>1. call[s] \in Call /\ call[s].approval # None
  BY CallOf DEF Named
<1>2. call[s].approval \in ApprovalIds /\ approvals[call[s].approval] # None
  BY <1>1 DEF Named, Call
<1> QED
  BY <1>2, ApprovalOf DEF SessionLocks

(* A step moves one row, or lets go of some locks.                          *)
OneRow == \E i \in ApprovalIds : RowStep(i) /\ \A j \in ApprovalIds : j # i => Same(j)

LettingGo == \A j \in ApprovalIds : Same(j) \/ Released(j)

LEMMA SessionRows ==
  ASSUME CallsOK, StoresOK, Named, SessionLocks, NEW s \in Sessions, SessionStep(s)
  PROVE  OneRow \/ LettingGo
<1>0. /\ approvals \in [ApprovalIds -> Approval \union {None}]
      /\ holder \in [ApprovalIds -> Sessions \union {Admin, None}]
      /\ \A i \in ApprovalIds : holder[i] # None => approvals[i] # None
  BY DEF StoresOK
<1>1. ASSUME IssueApproval(s) PROVE OneRow
  <2>1. call[s] \in Call
    BY <1>1, CallOf DEF IssueApproval
  <2>2. call[s].n \in 0..MaxCalls /\ call[s].args \in Args
    BY <2>1, PipelineAssumption DEF Call
  <2>3. PICK id \in ApprovalIds :
          /\ approvals[id] = None
          /\ approvals' = [approvals EXCEPT ![id] = Requested(call[s].n, call[s].args)]
    BY <1>1 DEF IssueApproval
  <2>4. UNCHANGED holder
    BY <1>1 DEF IssueApproval
  <2>5. Issued(id)
    BY <1>0, <2>2, <2>3, <2>4 DEF Issued
  <2>6. \A j \in ApprovalIds : j # id => Same(j)
    BY <1>0, <2>3, <2>4 DEF Same
  <2> QED
    BY <2>5, <2>6 DEF OneRow, RowStep
<1>2. ASSUME LockApproval(s) PROVE OneRow
  <2>1. call[s] \in Call /\ call[s].approval # None
    BY <1>2, CallOf DEF LockApproval
  <2> DEFINE id == call[s].approval
  <2>2. id \in ApprovalIds /\ approvals[id] # None
    BY <1>2, <2>1 DEF LockApproval, Named, Call
  <2>3. /\ holder[id] = None /\ Redeemable(s) /\ UNCHANGED approvals
        /\ holder' = [holder EXCEPT ![id] = s]
    BY <1>2 DEF LockApproval, Unlocked
  <2>4. LockedToRedeem(id)
    BY <1>0, <2>2, <2>3 DEF LockedToRedeem, Redeemable
  <2>5. \A j \in ApprovalIds : j # id => Same(j)
    BY <1>0, <2>2, <2>3 DEF Same
  <2> QED
    BY <2>2, <2>4, <2>5 DEF OneRow, RowStep
<1>3. ASSUME ConsumeApproval(s) PROVE OneRow
  <2> DEFINE id == call[s].approval
  <2>1. id \in ApprovalIds /\ approvals[id] # None /\ holder[id] = s
    BY <1>3, Redeeming DEF ConsumeApproval
  <2>2. /\ approvals' = [approvals EXCEPT ![id].consumed = TRUE]
        /\ holder' = [holder EXCEPT ![id] = None]
    BY <1>3 DEF ConsumeApproval
  <2>3. Consumed(id)
    BY <1>0, <2>1, <2>2 DEF Consumed
  <2>4. \A j \in ApprovalIds : j # id => Same(j)
    BY <1>0, <2>1, <2>2 DEF Same
  <2> QED
    BY <2>1, <2>3, <2>4 DEF OneRow, RowStep
<1>4. ASSUME RefuseApproval(s) PROVE OneRow
  <2>1. call[s] \in Call /\ call[s].approval # None
    BY <1>4, CallOf DEF RefuseApproval
  <2> DEFINE id == call[s].approval
  <2>2. id \in ApprovalIds /\ approvals[id] # None
    BY <1>4, <2>1 DEF RefuseApproval, Named, Call
  <2>3. holder[id] = None /\ UNCHANGED holder
    BY <1>4 DEF RefuseApproval, Unlocked
  <2>4. \/ UNCHANGED approvals
        \/ /\ approvals[id].lapsed /\ approvals[id].status = "pending"
           /\ approvals' = [approvals EXCEPT ![id].status = "expired"]
    BY <1>4 DEF RefuseApproval
  <2>5. Same(id) \/ Expired(id)
    BY <1>0, <2>2, <2>3, <2>4 DEF Same, Expired
  <2>6. \A j \in ApprovalIds : j # id => Same(j)
    BY <1>0, <2>2, <2>3, <2>4 DEF Same
  <2> QED
    BY <2>2, <2>5, <2>6 DEF OneRow, RowStep
<1>5. ASSUME RedeemFails(s) PROVE LettingGo
  <2>1. CASE pc[s] = "redeem" /\ holder' = [holder EXCEPT ![call[s].approval] = None]
    <3>1. call[s].approval \in ApprovalIds /\ holder[call[s].approval] = s
      BY <2>1, Redeeming
    <3>2. UNCHANGED approvals /\ s # None
      BY <1>5, PipelineAssumption DEF RedeemFails
    <3> QED
      BY <1>0, <2>1, <3>1, <3>2 DEF LettingGo, Same, Released
  <2>2. CASE UNCHANGED holder
    BY <1>5, <2>2 DEF RedeemFails, LettingGo, Same
  <2> QED
    BY <1>5, <2>1, <2>2 DEF RedeemFails
<1>6. ASSUME Cancel(s) PROVE LettingGo
  <2>1. /\ UNCHANGED approvals /\ s # None
        /\ holder' = [i \in ApprovalIds |-> IF holder[i] = s THEN None ELSE holder[i]]
    BY <1>6, PipelineAssumption DEF Cancel
  <2> QED
    BY <2>1 DEF LettingGo, Same, Released
<1>7. ASSUME UNCHANGED <<approvals, holder>> PROVE LettingGo
  BY <1>7 DEF LettingGo, Same
<1> QED
  BY <1>1, <1>2, <1>3, <1>4, <1>5, <1>6, <1>7
     DEF SessionStep, Stage, Locked, Receive, Authorize, DriftStatus, TakeChallenge,
         DedupCode, Score, Hold, IssueChallenge, IssueNothing, Validate, AskUpstream, Refetch,
         RecordAllow, Dispatch, Answer, stores

LEMMA AroundRows ==
  ASSUME StoresOK, Around \/ Restart
  PROVE  OneRow \/ LettingGo
<1>0. /\ approvals \in [ApprovalIds -> Approval \union {None}]
      /\ holder \in [ApprovalIds -> Sessions \union {Admin, None}]
      /\ \A i \in ApprovalIds : holder[i] # None => approvals[i] # None
      /\ Admin # None
  BY PipelineAssumption DEF StoresOK
<1>1. ASSUME NEW i \in ApprovalIds, Review(i) PROVE OneRow
  <2>1. LockedToApprove(i)
    BY <1>0, <1>1 DEF Review, LockedToApprove, Unlocked, Approvable
  <2>2. \A j \in ApprovalIds : j # i => Same(j)
    BY <1>0, <1>1 DEF Review, Same
  <2> QED
    BY <2>1, <2>2 DEF OneRow, RowStep
<1>2. ASSUME NEW i \in ApprovalIds, CommitApproval(i) PROVE OneRow
  <2>1. Committed(i)
    BY <1>0, <1>2 DEF CommitApproval, Committed
  <2>2. \A j \in ApprovalIds : j # i => Same(j)
    BY <1>0, <1>2 DEF CommitApproval, Same
  <2> QED
    BY <2>1, <2>2 DEF OneRow, RowStep
<1>3. ASSUME NEW i \in ApprovalIds, RollBackApproval(i) PROVE LettingGo
  BY <1>0, <1>3 DEF RollBackApproval, LettingGo, Same, Released
<1>4. ASSUME NEW i \in ApprovalIds, ExpireApproval(i) PROVE OneRow
  <2>1. Expired(i)
    BY <1>0, <1>4 DEF ExpireApproval, Expired, Unlocked
  <2>2. \A j \in ApprovalIds : j # i => Same(j)
    BY <1>0, <1>4 DEF ExpireApproval, Same
  <2> QED
    BY <2>1, <2>2 DEF OneRow, RowStep
<1>5. ASSUME NEW i \in ApprovalIds, Lapse(i) PROVE OneRow
  <2>1. Lapsed(i)
    BY <1>0, <1>5 DEF Lapse, Lapsed
  <2>2. \A j \in ApprovalIds : j # i => Same(j)
    BY <1>0, <1>5 DEF Lapse, Same
  <2> QED
    BY <2>1, <2>2 DEF OneRow, RowStep
<1>6. ASSUME Restart PROVE LettingGo
  <2>1. UNCHANGED approvals /\ holder' = [i \in ApprovalIds |-> None]
    BY <1>6 DEF Restart
  <2> QED
    BY <2>1 DEF LettingGo, Same, Released
<1>7. ASSUME UNCHANGED <<approvals, holder>> PROVE LettingGo
  BY <1>7 DEF LettingGo, Same
<1> QED
  BY <1>1, <1>2, <1>3, <1>4, <1>5, <1>6, <1>7
     DEF Around, EndApproval, AuditApproval, DropChallenge, Swap, Drift, Relist, Reapprove,
         stores

LEMMA RowsMove ==
  ASSUME CallsOK, StoresOK, Named, SessionLocks, Next
  PROVE  OneRow \/ LettingGo
BY SessionRows, AroundRows, NextParts

(* Whatever happens to a row, its lock and its columns still agree.         *)
LEMMA RowKept ==
  ASSUME StoresOK, NEW i \in ApprovalIds, RowOK(i), RowStep(i) \/ Released(i)
  PROVE  RowOK(i)'
<1>0. /\ approvals[i] # None => approvals[i] \in Approval
      /\ holder[i] # None => approvals[i] # None
      /\ Admin \notin Sessions /\ None \notin Sessions /\ Admin # None
  BY ApprovalOf, PipelineAssumption DEF StoresOK
<1>1. CASE Same(i)
  BY <1>1 DEF Same, RowOK
<1>2. CASE Issued(i)
  BY <1>0, <1>2 DEF Issued, Requested, RowOK
<1>3. CASE Lapsed(i)
  <2>1. /\ approvals'[i].status = approvals[i].status
        /\ approvals'[i].consumed = approvals[i].consumed
        /\ holder'[i] = holder[i] /\ approvals[i] # None
    BY <1>0, <1>3 DEF Lapsed, Approval
  <2> QED
    BY <2>1 DEF RowOK
<1>4. CASE Expired(i)
  <2>1. approvals[i].consumed = FALSE
    BY <1>0, <1>4 DEF Expired, RowOK, Approval
  <2>2. approvals'[i].consumed = FALSE /\ holder'[i] = None
    BY <1>0, <1>4, <2>1 DEF Expired, Approval
  <2> QED
    BY <1>0, <2>2 DEF RowOK
<1>5. CASE LockedToRedeem(i)
  BY <1>0, <1>5 DEF LockedToRedeem, RowOK
<1>6. CASE LockedToApprove(i)
  <2>1. approvals[i].consumed = FALSE
    BY <1>0, <1>6 DEF LockedToApprove, RowOK, Approval
  <2> QED
    BY <1>0, <1>6, <2>1 DEF LockedToApprove, RowOK
<1>7. CASE Consumed(i)
  <2>1. approvals'[i].status = "approved" /\ holder'[i] = None
    BY <1>0, <1>7 DEF Consumed, RowOK, Approval
  <2> QED
    BY <1>0, <2>1 DEF RowOK
<1>8. CASE Committed(i)
  <2>1. approvals'[i].status = "approved" /\ holder'[i] = None
    BY <1>0, <1>8 DEF Committed, Approval
  <2> QED
    BY <1>0, <2>1 DEF RowOK
<1>9. CASE Released(i)
  BY <1>0, <1>9 DEF Released, RowOK
<1> QED
  BY <1>1, <1>2, <1>3, <1>4, <1>5, <1>6, <1>7, <1>8, <1>9 DEF RowStep

(* Who reaches and who leaves the stage of a redeem.                        *)
LEMMA RedeemStage ==
  ASSUME CallsOK, NEW s \in Sessions, SessionStep(s),
         ~LockApproval(s), ~ConsumeApproval(s), ~RedeemFails(s), ~Cancel(s)
  PROVE  pc[s] # "redeem" /\ pc'[s] # "redeem" /\ UNCHANGED holder
<1>1. CASE Receive(s)
  <2>1. pc[s] = "idle" /\ UNCHANGED holder /\ \E nonce : CheckNonce(s, nonce)
    BY <1>1 DEF Receive
  <2> QED
    BY <2>1 DEF CheckNonce, Refuse, Go, CallsOK
<1>2. CASE RefuseApproval(s)
  BY <1>2 DEF RefuseApproval, Refuse, Go, CallsOK
<1>3. CASE Stage(s)
  <2>1. pc[s] # "redeem" /\ UNCHANGED holder
    BY <1>3 DEF Stage, Authorize, DriftStatus, TakeChallenge, DedupCode, Score, Hold,
         IssueApproval, IssueChallenge, IssueNothing, Validate, AskUpstream, Refetch, RecordAllow,
         Dispatch, Answer, stores
  <2>2. pc'[s] # "redeem"
    BY <1>3 DEF Stage, Authorize, DriftStatus, TakeChallenge, DedupCode, Score, AfterScore,
         Hold, IssueApproval, IssueChallenge, IssueNothing, Validate, AskUpstream,
         Refetch, RecordAllow,
         Dispatch, Answer, Finish, Refuse, Go, CallsOK
  <2> QED
    BY <2>1, <2>2
<1> QED
  BY <1>1, <1>2, <1>3 DEF SessionStep, Locked

(* What the acting session does to the locks, its own and those of others.  *)
LEMMA ActorLocks ==
  ASSUME CallsOK, StoresOK, Named, SessionLocks, NEW s \in Sessions, SessionStep(s),
         NEW i \in ApprovalIds
  PROVE  /\ \A u \in Sessions : u # s => (holder'[i] = u <=> holder[i] = u)
         /\ holder'[i] = s <=> pc'[s] = "redeem" /\ call'[s].approval = i
<1>0. /\ holder \in [ApprovalIds -> Sessions \union {Admin, None}]
      /\ \A u \in Sessions : u # None /\ u # Admin
      /\ holder[i] = s <=> pc[s] = "redeem" /\ call[s].approval = i
  BY PipelineAssumption DEF StoresOK, SessionLocks
<1>1. CASE LockApproval(s)
  <2>1. /\ pc[s] = "risk" /\ pc'[s] = "redeem" /\ UNCHANGED call
        /\ holder[call[s].approval] = None /\ call[s].approval # None
        /\ holder' = [holder EXCEPT ![call[s].approval] = s]
    BY <1>1 DEF LockApproval, Unlocked, Go, CallsOK
  <2> QED
    BY <1>0, <2>1
<1>2. CASE ConsumeApproval(s) \/ (RedeemFails(s) /\ pc[s] = "redeem")
  <2>1. /\ pc[s] = "redeem" /\ pc'[s] # "redeem"
        /\ holder' = [holder EXCEPT ![call[s].approval] = None]
    BY <1>2 DEF ConsumeApproval, RedeemFails, Refuse, Go, CallsOK
  <2>2. holder[call[s].approval] = s
    BY <2>1, Redeeming
  <2> QED
    BY <1>0, <2>1, <2>2
<1>3. CASE RedeemFails(s) /\ pc[s] # "redeem"
  <2>1. pc'[s] = "refuse" /\ UNCHANGED holder
    BY <1>3 DEF RedeemFails, Refuse, Go, CallsOK
  <2> QED
    BY <1>0, <1>3, <2>1
<1>4. CASE Cancel(s)
  <2>1. /\ pc'[s] = "idle"
        /\ holder' = [j \in ApprovalIds |-> IF holder[j] = s THEN None ELSE holder[j]]
    BY <1>4 DEF Cancel, Finish, Go, CallsOK
  <2> QED
    BY <1>0, <2>1
<1>5. CASE ~(LockApproval(s) \/ ConsumeApproval(s) \/ RedeemFails(s) \/ Cancel(s))
  BY <1>0, <1>5, RedeemStage
<1> QED
  BY <1>1, <1>2, <1>3, <1>4, <1>5

LEMMA LocksStep ==
  ASSUME CallsOK, StoresOK, WorldOK, Named, Next, SessionLocks
  PROVE  SessionLocks'
<1>1. ASSUME NEW u \in Sessions, Quiet(u), NEW i \in ApprovalIds,
             holder'[i] = u <=> holder[i] = u
      PROVE  holder'[i] = u <=> pc'[u] = "redeem" /\ call'[u].approval = i
  BY <1>1 DEF Quiet, SameCall, SameRequest, SessionLocks
<1>2. ASSUME NEW s \in Sessions, SessionStep(s) PROVE SessionLocks'
  BY <1>1, <1>2, ActorLocks, QuietOthers DEF SessionLocks
<1>3. CASE Around
  <2>1. \A i \in ApprovalIds, u \in Sessions : holder'[i] = u <=> holder[i] = u
    <3>1. /\ holder \in [ApprovalIds -> Sessions \union {Admin, None}]
          /\ \A u \in Sessions : u # None /\ u # Admin
      BY PipelineAssumption DEF StoresOK
    <3>2. \/ UNCHANGED holder
          \/ \E j \in ApprovalIds : /\ holder[j] \in {Admin, None}
                                    /\ \E h \in {Admin, None} : holder' = [holder EXCEPT ![j] = h]
      BY <1>3 DEF Around, EndApproval, Review, AuditApproval, Unlocked, CommitApproval,
           RollBackApproval, ExpireApproval, Lapse, DropChallenge, Swap, Drift, Relist,
           Reapprove, stores
    <3> QED
      BY <3>1, <3>2
  <2> QED
    BY <1>1, <1>3, <2>1, QuietAround DEF SessionLocks
<1>4. CASE Restart
  BY <1>4, PipelineAssumption DEF Restart, SessionLocks
<1> QED
  BY <1>2, <1>3, <1>4, NextParts

(* A call that has passed with an approval passed already, or it consumed   *)
(* its row just now.                                                        *)
LEMMA ClearedBy ==
  ASSUME CallsOK, WorldOK, NEW s \in Sessions, SessionStep(s),
         pc'[s] \in Cleared, call'[s].approval # None
  PROVE  /\ call[s].approval = call'[s].approval
         /\ pc[s] \in Cleared \/ ConsumeApproval(s)
<1>1. ~Receive(s)
  <2> SUFFICES ASSUME Receive(s) PROVE FALSE
    OBVIOUS
  <2>1. \E nonce : CheckNonce(s, nonce)
    BY DEF Receive
  <2> QED
    BY <2>1 DEF CheckNonce, Refuse, Go, CallsOK, Cleared
<1>2. call[s].approval = call'[s].approval
  BY <1>1, SameAsked DEF SameRequest, Cleared
<1>3. ASSUME pc[s] \notin Cleared PROVE ConsumeApproval(s)
  <2>1. ~Score(s)
    BY <1>2 DEF Score
  <2> QED
    BY <1>1, <1>3, <2>1 DEF SessionStep, Stage, Locked, Authorize, DriftStatus,
         TakeChallenge, DedupCode, Hold, IssueApproval, IssueChallenge, IssueNothing,
         LockApproval, RefuseApproval, RedeemFails, Validate, AskUpstream, Refetch, RecordAllow,
         Dispatch, Answer, Cancel, Finish, Refuse, Go, CallsOK, Cleared
<1> QED
  BY <1>2, <1>3

(* A call that passed with an approval has consumed its row.                *)
LEMMA PassedHaveConsumed ==
  ASSUME PipelineInv
  PROVE  /\ \A u \in Sessions : pc[u] \in Cleared /\ call[u].approval # None =>
              approvals[call[u].approval].consumed
         /\ \A f \in forwarded : f.approval # None => approvals[f.approval].consumed
<1>1. \A u \in Sessions : pc[u] \in Cleared => pc[u] # "idle"
  BY DEF Cleared
<1> QED
  BY <1>1 DEF PipelineInv, At, Cleared

LEMMA ApartStep ==
  ASSUME CallsOK, StoresOK, WorldOK, Named, Next, PipelineInv, GrantInv
  PROVE  ClearedApart'
<1> DEFINE Was(u) == pc[u] \in Cleared /\ call[u].approval = call'[u].approval
<1>1. ASSUME NEW u \in Sessions, Quiet(u), pc'[u] \in Cleared PROVE Was(u)
  BY <1>1 DEF Quiet, SameCall, SameRequest, Cleared
<1>2. ASSUME NEW s \in Sessions, ConsumeApproval(s) PROVE ClearedApart'
  <2>1. /\ call[s].approval \in ApprovalIds /\ holder[call[s].approval] = s
        /\ s # None
    BY <1>2, Redeeming, PipelineAssumption DEF GrantInv, ConsumeApproval
  <2>2. ~approvals[call[s].approval].consumed
    BY <2>1 DEF GrantInv, RowOK
  <2>3. /\ UNCHANGED <<forwarded, call>> /\ SessionStep(s) /\ pc'[s] # "idle"
    BY <1>2 DEF ConsumeApproval, SessionStep, Stage, Refuse, Go, CallsOK
  <2>4. \A u \in Sessions : u # s /\ pc'[u] \in Cleared => Was(u)
    BY <1>1, <2>3, QuietOthers
  <2>5. ASSUME NEW u \in Sessions, u # s, pc'[u] \in Cleared,
               call'[u].approval = call'[s].approval
        PROVE  call'[s].approval = None
    <3>1. pc[u] \in Cleared /\ call[u].approval = call[s].approval
      BY <2>3, <2>4, <2>5
    <3> QED
      BY <2>2, <2>3, <3>1, PassedHaveConsumed
  <2>6. ASSUME NEW f \in forwarded, f.approval = call'[s].approval PROVE f.approval = None
    BY <2>2, <2>3, <2>6, PassedHaveConsumed
  <2> QED
    BY <2>3, <2>4, <2>5, <2>6 DEF GrantInv, ClearedApart
<1>3. ASSUME NEW u \in Sessions, pc'[u] \in Cleared, call'[u].approval # None,
             \A s \in Sessions : ~ConsumeApproval(s)
      PROVE  Was(u)
  <2>1. ~Restart
    BY <1>3 DEF Restart, Cleared
  <2>2. SessionStep(u) \/ Quiet(u)
    BY <2>1, NextParts, QuietOthers, QuietAround
  <2> QED
    BY <1>1, <1>3, <2>2, ClearedBy
<1>4. ASSUME \A s \in Sessions : ~ConsumeApproval(s) PROVE ClearedApart'
  <2>1. CASE forwarded' = forwarded
    BY <1>3, <1>4, <2>1 DEF GrantInv, ClearedApart
  <2>2. ASSUME NEW s \in Sessions, pc[s] = "dispatch", pc'[s] = "idle",
               forwarded' = forwarded \union {call[s]}
        PROVE  ClearedApart'
    <3>1. pc[s] \in Cleared /\ pc'[s] \notin Cleared
      BY <2>2 DEF Cleared
    <3> QED
      BY <1>3, <1>4, <2>2, <3>1 DEF GrantInv, ClearedApart
  <2> QED
    BY <2>1, <2>2, ForwardedGrows
<1> QED
  BY <1>2, <1>4

LEMMA GrantStep ==
  ASSUME CallsOK, StoresOK, WorldOK, Named, Next, PipelineInv, GrantInv
  PROVE  GrantInv'
<1>1. OneRow \/ LettingGo
  BY RowsMove DEF GrantInv
<1>2. \A i \in ApprovalIds : RowStep(i) \/ Released(i)
  BY <1>1 DEF OneRow, LettingGo, RowStep
<1>3. \A i \in ApprovalIds : RowOK(i)'
  BY <1>2, RowKept DEF GrantInv
<1> QED
  BY <1>3, LocksStep, ApartStep DEF GrantInv

LEMMA GrantHolds == Spec => [](TypeOK /\ Named /\ PipelineInv /\ GrantInv)
<1>1. Init => GrantInv
  <2> SUFFICES ASSUME Init PROVE GrantInv
    OBVIOUS
  <2>1. /\ \A u \in Sessions : pc[u] = "idle" /\ u # None
        /\ \A i \in ApprovalIds : holder[i] = None
        /\ forwarded = {} /\ Admin # None /\ None \notin Sessions
    BY PipelineAssumption DEF Init
  <2>2. \A i \in ApprovalIds : approvals[i] # None => ~approvals[i].consumed
    BY DEF Init, Requested
  <2> QED
    BY <2>1, <2>2 DEF GrantInv, RowOK, SessionLocks, ClearedApart, Cleared
<1>2. TypeOK /\ Named /\ PipelineInv /\ GrantInv /\ Next => GrantInv'
  BY TypeParts, GrantStep
<1>3. TypeOK /\ Named /\ PipelineInv /\ GrantInv /\ UNCHANGED vars => GrantInv'
  BY DEF GrantInv, RowOK, SessionLocks, ClearedApart, vars, stores, world
<1> QED
  BY <1>1, <1>2, <1>3, TypesHold, PipelineHolds, PTL DEF Spec

-----------------------------------------------------------------------------
(* The refinement: how the life of a grant moves with its row and its lock. *)
Grants == [i \in ApprovalIds |-> GrantOf(i)]
Users(i) == {f \in forwarded : f.approval = i}
Uses == [i \in ApprovalIds |-> Cardinality(Users(i))]

Lives(i, from, to) == GrantOf(i) = from /\ GrantOf(i)' = to

LEMMA SameLife ==
  ASSUME NEW i, Same(i)
  PROVE  GrantOf(i)' = GrantOf(i)
BY DEF Same, GrantOf, RunOut

(* A lock that is let go takes a grant that has run out with it.            *)
LEMMA ReleasedLife ==
  ASSUME StoresOK, NEW i \in ApprovalIds, RowOK(i), Released(i)
  PROVE  GrantOf(i)' = GrantOf(i) \/ Lives(i, "held", "void") \/ Lives(i, "granted", "void")
<1>1. approvals[i] # None /\ ~approvals[i].consumed
  BY DEF Released, RowOK, StoresOK
<1>2. GrantOf(i) = IF approvals[i].status = "pending" THEN "held" ELSE "granted"
  BY <1>1 DEF Released, GrantOf, RunOut
<1>3. CASE approvals[i].lapsed
  <2>1. GrantOf(i)' = "void"
    BY <1>1, <1>3 DEF Released, GrantOf, RunOut
  <2> QED
    BY <1>2, <2>1 DEF Lives
<1>4. CASE ~approvals[i].lapsed
  <2>1. GrantOf(i)' = IF approvals[i].status = "pending" THEN "held" ELSE "granted"
    BY <1>1, <1>4 DEF Released, GrantOf, RunOut
  <2> QED
    BY <1>2, <2>1
<1> QED
  BY <1>3, <1>4

LEMMA RowLife ==
  ASSUME StoresOK, NEW i \in ApprovalIds, RowOK(i), RowStep(i)
  PROVE  \/ GrantOf(i)' = GrantOf(i)
         \/ Lives(i, "none", "held") \/ Lives(i, "held", "granted")
         \/ Lives(i, "granted", "spent")
         \/ Lives(i, "held", "void") \/ Lives(i, "granted", "void")
<1>0. /\ approvals[i] # None => approvals[i] \in Approval
      /\ holder[i] # None => approvals[i] # None
      /\ Admin \notin Sessions /\ None \notin Sessions /\ Admin # None
      /\ None \notin Approval
  BY ApprovalOf, PipelineAssumption, NoRecordAssumption DEF StoresOK
<1>1. CASE Same(i)
  BY <1>1, SameLife
<1>2. CASE Issued(i)
  <2>1. /\ approvals'[i] # None /\ approvals'[i].status = "pending"
        /\ approvals'[i].consumed = FALSE /\ approvals'[i].lapsed = FALSE
    <3>1. PICK n \in 0..MaxCalls, args \in Args : approvals'[i] = Requested(n, args)
      BY <1>2 DEF Issued
    <3>2. Requested(n, args) \in Approval
      BY DEF Requested, Approval
    <3>3. /\ Requested(n, args).status = "pending"
          /\ Requested(n, args).consumed = FALSE /\ Requested(n, args).lapsed = FALSE
      BY DEF Requested
    <3> QED
      BY <1>0, <3>1, <3>2, <3>3
  <2>2. GrantOf(i) = "none"
    BY <1>2 DEF Issued, GrantOf, RunOut
  <2>3. GrantOf(i)' = "held"
    BY <2>1 DEF GrantOf, RunOut
  <2> QED
    BY <2>2, <2>3 DEF Lives
<1>3. CASE Lapsed(i)
  <2>1. /\ approvals[i] # None /\ approvals'[i] # None /\ holder'[i] = holder[i]
        /\ approvals'[i].status = approvals[i].status
        /\ approvals'[i].consumed = approvals[i].consumed
        /\ approvals'[i].lapsed = TRUE /\ approvals[i].lapsed \in BOOLEAN
    <3>1. approvals[i] \in Approval /\ approvals'[i] = [approvals[i] EXCEPT !.lapsed = TRUE]
      BY <1>0, <1>3 DEF Lapsed
    <3>2. approvals'[i] \in Approval
      BY <3>1 DEF Approval
    <3> QED
      BY <1>0, <1>3, <3>1, <3>2 DEF Lapsed, Approval
  <2>2. CASE approvals[i].consumed
    BY <2>1, <2>2 DEF GrantOf, RunOut
  <2>3. CASE ~approvals[i].consumed /\ holder[i] # None
    BY <2>1, <2>3 DEF GrantOf, RunOut
  <2>4. CASE ~approvals[i].consumed /\ holder[i] = None
    <3>1. GrantOf(i)' = "void"
      BY <2>1, <2>4 DEF GrantOf, RunOut
    <3>2. GrantOf(i) \in {"void", "held", "granted"}
      BY <2>1, <2>4 DEF GrantOf, RunOut
    <3> QED
      BY <3>1, <3>2 DEF Lives
  <2> QED
    BY <2>2, <2>3, <2>4
<1>4. CASE Expired(i)
  <2>1. /\ approvals[i] # None /\ approvals'[i] # None
        /\ approvals[i].lapsed /\ approvals'[i].lapsed
        /\ ~approvals[i].consumed /\ ~approvals'[i].consumed
        /\ holder[i] = None /\ holder'[i] = None
    <3>1. /\ approvals[i] \in Approval
          /\ approvals'[i] = [approvals[i] EXCEPT !.status = "expired"]
      BY <1>0, <1>4 DEF Expired
    <3>2. approvals'[i] \in Approval
      BY <3>1 DEF Approval
    <3>3. approvals[i].consumed = FALSE
      BY <1>4, <3>1 DEF Expired, RowOK, Approval
    <3> QED
      BY <1>0, <1>4, <3>1, <3>2, <3>3 DEF Expired, Approval
  <2>2. GrantOf(i) = "void" /\ GrantOf(i)' = "void"
    BY <2>1 DEF GrantOf, RunOut
  <2> QED
    BY <2>2
<1>5. CASE LockedToRedeem(i)
  <2>1. holder[i] = None /\ holder'[i] # None
    BY <1>0, <1>5 DEF LockedToRedeem
  <2>2. GrantOf(i) = "granted" /\ GrantOf(i)' = "granted"
    BY <1>5, <2>1 DEF LockedToRedeem, GrantOf, RunOut
  <2> QED
    BY <2>2
<1>6. CASE LockedToApprove(i)
  <2>1. approvals[i].consumed = FALSE
    BY <1>0, <1>6 DEF LockedToApprove, RowOK, Approval
  <2>2. GrantOf(i) = "held" /\ GrantOf(i)' = "held"
    BY <1>0, <1>6, <2>1 DEF LockedToApprove, GrantOf, RunOut
  <2> QED
    BY <2>2
<1>7. CASE Consumed(i)
  <2>1. /\ approvals[i] # None /\ holder[i] # None
        /\ approvals[i].status = "approved" /\ ~approvals[i].consumed
    BY <1>0, <1>7 DEF Consumed, RowOK
  <2>2. GrantOf(i) = "granted"
    BY <2>1 DEF GrantOf, RunOut
  <2>3. approvals'[i] # None /\ approvals'[i].consumed
    <3>1. /\ approvals[i] \in Approval
          /\ approvals'[i] = [approvals[i] EXCEPT !.consumed = TRUE]
      BY <1>0, <1>7 DEF Consumed
    <3>2. approvals'[i] \in Approval
      BY <3>1 DEF Approval
    <3> QED
      BY <1>0, <3>1, <3>2 DEF Approval
  <2>4. GrantOf(i)' = "spent"
    BY <2>3 DEF GrantOf, RunOut
  <2> QED
    BY <2>2, <2>4 DEF Lives
<1>8. CASE Committed(i)
  <2>1. /\ approvals[i] # None /\ holder[i] # None
        /\ approvals[i].status = "pending" /\ ~approvals[i].consumed
    BY <1>0, <1>8 DEF Committed, RowOK
  <2>2. GrantOf(i) = "held"
    BY <2>1 DEF GrantOf, RunOut
  <2>3. /\ approvals'[i] # None /\ approvals'[i].status = "approved"
        /\ ~approvals'[i].consumed
    <3>1. /\ approvals[i] \in Approval
          /\ approvals'[i] = [approvals[i] EXCEPT !.status = "approved"]
      BY <1>0, <1>8 DEF Committed
    <3>2. approvals'[i] \in Approval
      BY <3>1 DEF Approval
    <3> QED
      BY <1>0, <2>1, <3>1, <3>2 DEF Approval
  <2>4. GrantOf(i)' \in {"granted", "void"}
    BY <2>3 DEF GrantOf, RunOut
  <2> QED
    BY <2>2, <2>4 DEF Lives
<1> QED
  BY <1>1, <1>2, <1>3, <1>4, <1>5, <1>6, <1>7, <1>8 DEF RowStep

(* Only a dispatch changes what a grant was used for, and no row with it.   *)
LEMMA DispatchTouchesNoRow ==
  ASSUME NEW s, Dispatch(s)
  PROVE  \A i \in ApprovalIds : Same(i)
BY DEF Dispatch, stores, Same

LEMMA UsesStay ==
  ASSUME forwarded' = forwarded
  PROVE  Uses' = Uses
BY DEF Uses, Users

LEMMA AllSame ==
  ASSUME \A i \in ApprovalIds : Same(i)
  PROVE  Grants' = Grants
<1>1. \A i \in ApprovalIds : GrantOf(i)' = GrantOf(i)
  BY SameLife
<1> QED
  BY <1>1 DEF Grants

(* The steps of OneTimeGrant, for the states of the pipeline.               *)
GrantNext ==
  \/ \E i \in ApprovalIds :
       Promise!Hold(i) \/ Promise!Grant(i) \/ Promise!Spend(i) \/ Promise!Use(i)
  \/ \E I \in SUBSET ApprovalIds : Promise!Lapse(I)

LEMMA LapseTogether ==
  ASSUME NEW I \in SUBSET ApprovalIds, Uses' = Uses,
         \A i \in I : Lives(i, "held", "void") \/ Lives(i, "granted", "void"),
         \A i \in ApprovalIds \ I : GrantOf(i)' = GrantOf(i)
  PROVE  GrantNext
<1>1. \A i \in I : Grants[i] \in {"held", "granted"}
  BY DEF Grants, Lives
<1>2. Grants' = [i \in ApprovalIds |-> IF i \in I THEN "void" ELSE Grants[i]]
  BY DEF Grants, Lives
<1>3. Promise!Lapse(I)
  BY <1>1, <1>2 DEF Promise!Lapse, Grants, Uses, Users
<1> QED
  BY <1>3 DEF GrantNext

LEMMA MoveOne ==
  ASSUME NEW i \in ApprovalIds, Uses' = Uses,
         \A j \in ApprovalIds : j # i => GrantOf(j)' = GrantOf(j),
         \/ Lives(i, "none", "held") \/ Lives(i, "held", "granted")
         \/ Lives(i, "granted", "spent")
  PROVE  GrantNext
<1>1. \A to : GrantOf(i)' = to => Grants' = [Grants EXCEPT ![i] = to]
  BY DEF Grants
<1>2. \A from, to : Lives(i, from, to) => Promise!Step(i, from, to)
  <2> SUFFICES ASSUME NEW from, NEW to, Lives(i, from, to)
               PROVE  Promise!Step(i, from, to)
    OBVIOUS
  <2>1. Grants[i] = from /\ Grants' = [Grants EXCEPT ![i] = to]
    BY <1>1 DEF Lives, Grants
  <2> QED
    BY <2>1 DEF Promise!Step, Grants, Uses, Users
<1>3. Promise!Hold(i) \/ Promise!Grant(i) \/ Promise!Spend(i)
  BY <1>2 DEF Promise!Hold, Promise!Grant, Promise!Spend
<1> QED
  BY <1>3 DEF GrantNext

LEMMA DispatchUses ==
  ASSUME CallsOK, WorldOK, Named, PipelineInv, GrantInv, NEW s \in Sessions,
         pc[s] = "dispatch", Dispatch(s)
  PROVE  GrantNext \/ (Grants' = Grants /\ Uses' = Uses)
<1>1. Grants' = Grants /\ forwarded' = forwarded \union {call[s]} /\ call[s] \in Call
  BY CallOf, DispatchTouchesNoRow, AllSame DEF Dispatch
<1>2. ASSUME NEW j \in ApprovalIds, j # call[s].approval PROVE Users(j)' = Users(j)
  BY <1>1, <1>2 DEF Users
<1>3. CASE call[s].approval = None
  <2>1. \A j \in ApprovalIds : Users(j)' = Users(j)
    BY <1>2, <1>3, PipelineAssumption
  <2> QED
    BY <1>1, <2>1 DEF Uses
<1>4. CASE call[s].approval # None
  <2>0. PICK i \in ApprovalIds : i = call[s].approval
    BY <1>1, <1>4 DEF Call
  <2>1. i # None /\ approvals[i] # None /\ approvals[i].consumed
    BY <1>4, <2>0, PassedHaveConsumed DEF Named, Cleared
  <2>2. Grants[i] = "spent"
    BY <2>1 DEF Grants, GrantOf, RunOut
  <2>3. Users(i) = {} /\ Users(i)' = {call[s]}
    <3>1. \A f \in forwarded : f.approval # i
      BY <1>4, <2>0 DEF GrantInv, ClearedApart, Cleared
    <3>2. Users(i) = {}
      BY <3>1 DEF Users
    <3>3. Users(i)' = {f \in forwarded \union {call[s]} : f.approval = i}
      BY <1>1 DEF Users
    <3>4. \A f : f \in Users(i)' <=> f = call[s]
      BY <2>0, <3>1, <3>3
    <3> QED
      BY <3>2, <3>4
  <2>4. Uses[i] = 0 /\ Cardinality(Users(i)') = 1
    BY <2>1, <2>3, FS_EmptySet, FS_Singleton DEF Uses
  <2>5. Uses' = [Uses EXCEPT ![i] = 1]
    <3>1. \A j \in ApprovalIds : j # i => Cardinality(Users(j)') = Cardinality(Users(j))
      BY <1>2, <2>0
    <3>2. Uses' = [j \in ApprovalIds |-> Cardinality(Users(j)')]
      BY DEF Uses
    <3> QED
      BY <2>1, <2>4, <3>1, <3>2 DEF Uses
  <2>6. Promise!Use(i)
    BY <1>1, <2>2, <2>4, <2>5 DEF Promise!Use, Grants, Uses, Users
  <2> QED
    BY <2>1, <2>6 DEF GrantNext
<1> QED
  BY <1>3, <1>4

LEMMA StepIsGrantStep ==
  ASSUME CallsOK, StoresOK, WorldOK, Named, Next, PipelineInv, GrantInv
  PROVE  GrantNext \/ (Grants' = Grants /\ Uses' = Uses)
<1>1. CASE \E s \in Sessions : pc[s] = "dispatch" /\ Dispatch(s)
  BY <1>1, DispatchUses
<1>2. CASE forwarded' = forwarded
  <2>1. Uses' = Uses
    BY <1>2, UsesStay
  <2>2. CASE LettingGo
    <3> DEFINE I == {i \in ApprovalIds : GrantOf(i)' # GrantOf(i)}
    <3>1. \A i \in ApprovalIds : RowOK(i)
      BY DEF GrantInv
    <3>2. \A i \in I : Lives(i, "held", "void") \/ Lives(i, "granted", "void")
      BY <2>2, <3>1, SameLife, ReleasedLife DEF LettingGo
    <3> QED
      BY <2>1, <3>2, LapseTogether
  <2>3. CASE OneRow
    <3>1. PICK i \in ApprovalIds : RowStep(i) /\ \A j \in ApprovalIds : j # i => Same(j)
      BY <2>3 DEF OneRow
    <3>2. \A j \in ApprovalIds : j # i => GrantOf(j)' = GrantOf(j)
      BY <3>1, SameLife
    <3>3. CASE GrantOf(i)' = GrantOf(i)
      BY <2>1, <3>2, <3>3 DEF Grants
    <3>4. CASE \/ Lives(i, "none", "held") \/ Lives(i, "held", "granted")
               \/ Lives(i, "granted", "spent")
      BY <2>1, <3>2, <3>4, MoveOne
    <3>5. CASE Lives(i, "held", "void") \/ Lives(i, "granted", "void")
      <4>1. {i} \in SUBSET ApprovalIds
        OBVIOUS
      <4> QED
        BY <2>1, <3>2, <3>5, <4>1, LapseTogether
    <3> QED
      BY <3>1, <3>3, <3>4, <3>5, RowLife DEF GrantInv
  <2> QED
    BY <2>2, <2>3, RowsMove DEF GrantInv
<1> QED
  BY <1>1, <1>2, ForwardedGrows

(* However redeems, grants, expiry, failed commits, cancellations and       *)
(* restarts interleave, an approval and the calls it lets through are a     *)
(* grant that is given once, spent once and used once.                      *)
THEOREM GrantsAreOneTime == Spec => GrantSpec
<1>1. Init => Promise!Init
  <2> SUFFICES ASSUME Init PROVE Promise!Init
    OBVIOUS
  <2>1. Grants \in [ApprovalIds -> {"none", "held"}]
    <3> SUFFICES ASSUME NEW i \in ApprovalIds PROVE GrantOf(i) \in {"none", "held"}
      BY DEF Grants
    <3>1. CASE approvals[i] = None
      BY <3>1 DEF GrantOf, RunOut
    <3>2. CASE approvals[i] # None
      <4>1. \E a \in Args : approvals[i] = Requested(0, a)
        BY <3>2 DEF Init
      <4>2. /\ approvals[i].status = "pending"
            /\ approvals[i].consumed = FALSE /\ approvals[i].lapsed = FALSE
        BY <4>1 DEF Requested
      <4> QED
        BY <3>2, <4>2 DEF GrantOf, RunOut
    <3> QED
      BY <3>1, <3>2
  <2>2. Uses = [i \in ApprovalIds |-> 0]
    <3>1. \A i \in ApprovalIds : Users(i) = {}
      BY DEF Init, Users
    <3> QED
      BY <3>1, FS_EmptySet DEF Uses
  <2> QED
    BY <2>1, <2>2 DEF Promise!Init, Grants, Uses, Users
<1>2. TypeOK /\ Named /\ PipelineInv /\ GrantInv /\ [Next]_vars =>
        Promise!Next \/ (Grants' = Grants /\ Uses' = Uses)
  <2> SUFFICES ASSUME TypeOK, Named, PipelineInv, GrantInv, [Next]_vars
               PROVE  Promise!Next \/ (Grants' = Grants /\ Uses' = Uses)
    OBVIOUS
  <2>1. CASE Next
    <3>1. GrantNext \/ (Grants' = Grants /\ Uses' = Uses)
      BY <2>1, TypeParts, StepIsGrantStep
    <3> QED
      BY <3>1 DEF GrantNext, Promise!Next
  <2>2. CASE UNCHANGED vars
    <3>1. (\A i \in ApprovalIds : Same(i)) /\ forwarded' = forwarded
      BY <2>2 DEF vars, stores, Same
    <3> QED
      BY <3>1, AllSame, UsesStay
  <2> QED
    BY <2>1, <2>2
<1>3. TypeOK /\ Named /\ PipelineInv /\ GrantInv /\ [Next]_vars =>
        [Promise!Next]_<<[i \in ApprovalIds |-> GrantOf(i)],
                [i \in ApprovalIds |-> Cardinality({f \in forwarded : f.approval = i})]>>
  BY <1>2 DEF Grants, Uses, Users
<1> QED
  BY <1>1, <1>3, GrantHolds, PTL DEF Spec, GrantSpec, Promise!Spec

(* So an approval lets one call through at most, and none before its row is *)
(* consumed.                                                                *)
THEOREM ApprovalsCarryOneCall == Spec => []Promise!UsedOnceSpent
<1>1. TypeOK /\ PipelineInv /\ GrantInv => Promise!UsedOnceSpent
  <2> SUFFICES ASSUME TypeOK, PipelineInv, GrantInv, NEW i \in ApprovalIds
               PROVE  Uses[i] = 0 \/ (Uses[i] = 1 /\ Grants[i] = "spent")
    BY DEF Promise!UsedOnceSpent, Uses, Users, Grants
  <2>1. CASE Users(i) = {}
    BY <2>1, FS_EmptySet DEF Uses
  <2>2. CASE Users(i) # {}
    <3>1. PICK f \in forwarded : f.approval = i
      BY <2>2 DEF Users
    <3>2. i # None /\ approvals[i] # None /\ approvals[i].consumed
      BY <3>1, PipelineAssumption DEF PipelineInv, At, Agreed, Cleared
    <3>3. \A g : g \in Users(i) <=> g = f
      BY <3>1, <3>2 DEF GrantInv, ClearedApart, Users
    <3>4. Users(i) = {f}
      BY <3>3
    <3>5. Uses[i] = 1
      BY <3>4, FS_Singleton DEF Uses
    <3>6. Grants[i] = "spent"
      BY <3>2 DEF Grants, GrantOf
    <3> QED
      BY <3>5, <3>6
  <2> QED
    BY <2>1, <2>2
<1> QED
  BY <1>1, GrantHolds, PTL
=============================================================================
