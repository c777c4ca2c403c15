---------------------------- MODULE CallPipeline ----------------------------
(***************************************************************************)
(* Interceptor._authorize_call (services/gateway/jsonrpc_interceptor.py):  *)
(* the pipeline every tools/call of one identity to one tool goes through, *)
(* and the approval and challenge stores it redeems from.                  *)
(*                                                                         *)
(* A session handles one call at a time, so the concurrent calls are one   *)
(* per element of Sessions.  The stages are the awaits of the call; what   *)
(* runs between two awaits is one step:                                    *)
(*                                                                         *)
(*   Receive -> Authorize -> DriftStatus -> [TakeChallenge -> DedupCode]   *)
(*     -> Score | Redeem -> [AskUpstream -> Refetch] -> RecordAllow        *)
(*     -> Dispatch                                                         *)
(*                                                                         *)
(* with Hold and Issue for a call that must wait for a human.  The policy, *)
(* the drift status, the schema cache and the approvals change under a     *)
(* call that is between two stages.  Any Redis or database operation may   *)
(* fail, after its effect or without one.                                  *)
(***************************************************************************)
EXTENDS Naturals, FiniteSets

CONSTANTS
  Sessions,      \* sessions of the identity
  Args,          \* argument objects, up to their arguments_hash
  ApprovalIds,   \* approval ids that can be drawn
  ChallengeIds,  \* challenge ids that can be drawn
  Codes,         \* TOTP codes that verify
  Nonces,
  Policies,      \* engines the PolicyStore can hold
  Granting,      \* those whose matching_grant covers this call
  Signed,        \* the identity's auth_mode is "signed"
  HasFactor,     \* the identity has a totp_secret
  Admin,         \* the administrator's transaction, as a lock holder
  None,
  MaxCalls,      \* bound on the calls of a behaviour (model checking only)
  MaxChanges     \* bound on the changes around them (model checking only)

ASSUME PipelineAssumption ==
  /\ Granting \subseteq Policies
  /\ Signed \in BOOLEAN /\ HasFactor \in BOOLEAN
  /\ Admin \notin Sessions /\ None \notin Sessions \union {Admin}
  /\ None \notin Args \union ApprovalIds \union ChallengeIds
  /\ None \notin Codes \union Nonces \union Policies
  /\ MaxCalls \in Nat /\ MaxChanges \in Nat

VARIABLES
  pc,          \* pc[s]: the stage of the call of session s
  call,        \* call[s]: the call, and what its stages have found out
  seen,        \* nonces the replay guard holds in Redis
  engine,      \* the engine in the PolicyStore
  drifted,     \* the upstream serves a definition that breaks the baseline
  blocked,     \* tool_baselines.blocked
  approvals,   \* the approvals table
  holder,      \* holder[i]: who holds the row lock of approval i
  challenges,  \* the challenges issued, and whether Redis still has them
  used,        \* TOTP codes the dedup keys hold
  log,         \* the rows of the audit log
  forwarded,   \* history: the calls written to the upstream
  arrived,     \* calls so far
  changes      \* changes so far

vars == <<pc, call, seen, engine, drifted, blocked, approvals, holder,
          challenges, used, log, forwarded, arrived, changes>>

stores == <<seen, approvals, holder, challenges, used>>
world  == <<engine, drifted, blocked, changes>>

Bands  == {"allow", "challenge", "approval", "deny"}

(* policy: the engine that granted it; band: of its fresh score; verified: *)
(* step_up_verified.  History: inForce, what made the call permissible at  *)
(* some moment since it arrived; ownDrift, its own refetch left the tool   *)
(* blocked.                                                                *)
Call == [n : 1..MaxCalls, args : Args, nonce : Nonces \union {None},
         approval : ApprovalIds \union {None},
         challenge : ChallengeIds \union {None}, code : Codes \union {None},
         policy : Policies \union {None}, band : Bands \union {None},
         verified : BOOLEAN, inForce : SUBSET {"grant", "unblocked"},
         ownDrift : BOOLEAN]

Approval == [audit : 0..MaxCalls, args : Args,
             status : {"pending", "approved", "expired"},
             lapsed : BOOLEAN, consumed : BOOLEAN]

Challenge == [args : Args, live : BOOLEAN]

Stages == {"authorize", "drift", "challenge", "code", "risk", "redeem",
           "hold", "issue", "schema", "ask", "refetch", "allow", "dispatch",
           "refuse"}

(* The writes to the upstream and to the client: they last for as long as  *)
(* the other end does not read (upstream_client.py:42,                     *)
(* session_manager.py:165).                                                *)
Writes == {"ask", "dispatch", "refuse"}

ASSUME NoRecordAssumption == None \notin Call \union Approval \union Challenge

(* A row of the audit log, as far as anything depends on it.               *)
Entry(event, n, args, id, policy) ==
  [event |-> event, call |-> n, args |-> args, id |-> id, policy |-> policy]

Requested(n, args) ==
  [audit |-> n, args |-> args, status |-> "pending", lapsed |-> FALSE,
   consumed |-> FALSE]

(* The gateway starts.  Call 0 stands for the calls of an earlier run of   *)
(* it, whose pending approvals and challenges Postgres and Redis still     *)
(* have.                                                                   *)
Init ==
  /\ pc = [s \in Sessions |-> "idle"]
  /\ call = [s \in Sessions |-> None]
  /\ seen = {}
  /\ engine \in Policies
  /\ drifted = FALSE
  /\ blocked = FALSE
  /\ approvals \in [ApprovalIds -> {None} \union {Requested(0, a) : a \in Args}]
  /\ holder = [i \in ApprovalIds |-> None]
  /\ challenges \in [ChallengeIds -> {None} \union [args : Args, live : {TRUE}]]
  /\ used = {}
  /\ log = {Entry("HUMAN_APPROVAL_REQUIRED", 0, approvals[i].args, None, None) :
              i \in {j \in ApprovalIds : approvals[j] # None}}
  /\ forwarded = {}
  /\ arrived = 0
  /\ changes = 0

Go(s, stage) == pc' = [pc EXCEPT ![s] = stage]

(* _deny, or "audit log unavailable": the call is answered, not forwarded. *)
Refuse(s) == Go(s, "refuse")

Learn(s, field, value) == call' = [call EXCEPT ![s][field] = value]

Record(entry) == log' = log \union {entry}

Permits == (IF engine \in Granting THEN {"grant"} ELSE {})
           \union (IF blocked THEN {} ELSE {"unblocked"})

-----------------------------------------------------------------------------
Fresh(args, nonce, approval, challenge, code) ==
  [n |-> arrived + 1, args |-> args, nonce |-> nonce,
   approval |-> approval, challenge |-> challenge, code |-> code,
   policy |-> None, band |-> None, verified |-> FALSE,
   inForce |-> Permits, ownDrift |-> FALSE]

(* ReplayGuard.check, the first await of a call, and its refusals: the     *)
(* nonce was seen or is missing, the time is out of its window, the store  *)
(* fails with or without remembering the nonce.  The key outlives that     *)
(* window but for the instant RedisWindows tells of, so it stays here.     *)
CheckNonce(s, nonce) ==
  \/ /\ nonce \in Nonces \ seen
     /\ seen' = seen \union {nonce}
     /\ Go(s, "authorize") \/ Refuse(s)
  \/ /\ Refuse(s)
     /\ UNCHANGED seen
  \/ /\ nonce = None /\ ~Signed
     /\ Go(s, "authorize")
     /\ UNCHANGED seen

(* A tools/call arrives, with the ids and the code it redeems.             *)
Receive(s) ==
  /\ pc[s] = "idle"
  /\ arrived < MaxCalls
  /\ arrived' = arrived + 1
  /\ \E args \in Args, nonce \in Nonces \union {None},
        approval \in {i \in ApprovalIds : approvals[i] # None} \union {None},
        challenge \in {c \in ChallengeIds : challenges[c] # None} \union {None},
        code \in Codes \union {None} :
       /\ challenge = None => code = None
       /\ call' = [call EXCEPT ![s] = Fresh(args, nonce, approval, challenge, code)]
       /\ CheckNonce(s, nonce)
  /\ UNCHANGED <<approvals, holder, challenges, used, world, log, forwarded>>

(* matching_grant, and the conditions that do not need a score.            *)
Authorize(s) ==
  /\ pc[s] = "authorize"
  /\ \/ /\ engine \in Granting
        /\ Go(s, "drift")
        /\ Learn(s, "policy", engine)
     \/ Refuse(s) /\ UNCHANGED call
  /\ UNCHANGED <<stores, world, log, forwarded, arrived>>

(* Mutant: a failed lookup reads as "not blocked".                         *)
DriftStatus_FailOpen(s) ==
  /\ pc[s] = "drift"
  /\ Go(s, IF call[s].challenge # None THEN "challenge" ELSE "risk")
  /\ UNCHANGED <<call, stores, world, log, forwarded, arrived>>

(* detector.is_blocked; a failed lookup counts as blocked.                 *)
DriftStatus(s) ==
  /\ pc[s] = "drift"
  /\ \/ /\ ~blocked
        /\ Go(s, IF call[s].challenge # None THEN "challenge" ELSE "risk")
     \/ Refuse(s)
  /\ UNCHANGED <<call, stores, world, log, forwarded, arrived>>

(* ChallengeStore.redeem: GETDEL, then the comparisons and the TOTP check. *)
TakeChallenge(s) ==
  LET id == call[s].challenge IN
  /\ pc[s] = "challenge"
  /\ \/ /\ challenges[id].live
        /\ challenges' = [challenges EXCEPT ![id].live = FALSE]
        /\ \/ /\ challenges[id].args = call[s].args
              /\ HasFactor /\ call[s].code # None
              /\ Go(s, "code")
           \/ Refuse(s)
     \/ Refuse(s) /\ UNCHANGED challenges
  /\ UNCHANGED <<call, seen, approvals, holder, used, world, log, forwarded, arrived>>

(* Mutant: the code is remembered for the challenge, not for the identity. *)
DedupCode_PerChallenge(s) ==
  /\ pc[s] = "code"
  /\ used' = used \union {call[s].code}
  /\ Learn(s, "verified", TRUE)
  /\ Go(s, "risk")
  /\ UNCHANGED <<seen, approvals, holder, challenges, world, log, forwarded, arrived>>

(* ... then one code, one redemption (SET NX).                             *)
DedupCode(s) ==
  /\ pc[s] = "code"
  /\ \/ /\ call[s].code \notin used
        /\ used' = used \union {call[s].code}
        /\ \/ Learn(s, "verified", TRUE) /\ Go(s, "risk")
           \/ Refuse(s) /\ UNCHANGED call
     \/ Refuse(s) /\ UNCHANGED <<call, used>>
  /\ UNCHANGED <<seen, approvals, holder, challenges, world, log, forwarded, arrived>>

(* Mutant: a verified proof also clears the approval band.                 *)
AfterScore_ProofClearsAll(band, verified) ==
  CASE band = "allow" \/ verified -> "schema"
    [] band = "deny" /\ ~verified -> "refuse"
    [] OTHER -> "hold"

(* threshold_outcome, and what a verified proof changes about it.          *)
AfterScore(band, verified) ==
  CASE band = "allow" \/ (band = "challenge" /\ verified) -> "schema"
    [] band = "deny" -> "refuse"
    [] OTHER -> "hold"

(* A fresh score, in some band; a crashed calculation is the deny band.    *)
(* The risk conditions can refuse the call in any band.                    *)
Score(s) ==
  /\ pc[s] = "risk"
  /\ call[s].approval = None
  /\ \E band \in Bands :
       /\ Learn(s, "band", band)
       /\ Go(s, AfterScore(band, call[s].verified)) \/ Refuse(s)
  /\ UNCHANGED <<stores, world, log, forwarded, arrived>>

-----------------------------------------------------------------------------
(* _risk_terminal: the decision is recorded first (nothing refers to a     *)
(* CHALLENGE row, which the log leaves out) ...                            *)
HoldEntries(s) ==
  IF call[s].band = "challenge" THEN {}
  ELSE {Entry("HUMAN_APPROVAL_REQUIRED", call[s].n, call[s].args, None, None)}

Hold(s) ==
  /\ pc[s] = "hold"
  /\ \/ /\ log' = log \union HoldEntries(s)
        /\ Go(s, "issue") \/ Refuse(s)
     \/ Refuse(s) /\ UNCHANGED log
  /\ UNCHANGED <<call, stores, world, forwarded, arrived>>

(* ... then what the retry redeems is created.                             *)
IssueApproval(s) ==
  /\ pc[s] = "issue" /\ call[s].band = "approval"
  /\ \E id \in {i \in ApprovalIds : approvals[i] = None} :
       approvals' = [approvals EXCEPT ![id] = Requested(call[s].n, call[s].args)]
  /\ Refuse(s)
  /\ UNCHANGED <<call, seen, holder, challenges, used, world, log, forwarded, arrived>>

IssueChallenge(s) ==
  /\ pc[s] = "issue" /\ call[s].band = "challenge"
  /\ HasFactor
  /\ \E id \in {c \in ChallengeIds : challenges[c] = None} :
       challenges' = [challenges EXCEPT ![id] = [args |-> call[s].args, live |-> TRUE]]
  /\ Refuse(s)
  /\ UNCHANGED <<call, seen, approvals, holder, used, world, log, forwarded, arrived>>

(* The store is down, or the identity has no factor to answer with.        *)
IssueNothing(s) ==
  /\ pc[s] = "issue"
  /\ Refuse(s)
  /\ UNCHANGED <<call, stores, world, log, forwarded, arrived>>

-----------------------------------------------------------------------------
(* Mutant: the SELECT takes no row lock.                                   *)
Unlocked_NoForUpdate(id) == TRUE

(* SELECT ... FOR UPDATE.                                                  *)
Unlocked(id) == holder[id] = None

(* Mutant: the arguments of the retry are not compared.                    *)
Redeemable_AnyArgs(s) ==
  LET row == approvals[call[s].approval] IN
  ~row.consumed /\ ~row.lapsed /\ row.status = "approved"

(* ApprovalStore.redeem, of an id of the table: its checks ...             *)
Redeemable(s) ==
  LET row == approvals[call[s].approval] IN
  /\ ~row.consumed /\ ~row.lapsed /\ row.status = "approved"
  /\ row.args = call[s].args

LockApproval(s) ==
  LET id == call[s].approval IN
  /\ pc[s] = "risk" /\ id # None
  /\ Unlocked(id) /\ Redeemable(s)
  /\ holder' = [holder EXCEPT ![id] = s]
  /\ Go(s, "redeem")
  /\ UNCHANGED <<call, seen, approvals, challenges, used, world, log, forwarded, arrived>>

(* Mutant: the session that locked the row is not closed.                  *)
ConsumeApproval_LeftOpen(s) ==
  LET id == call[s].approval IN
  /\ pc[s] = "redeem"
  /\ Go(s, "schema") \/ Refuse(s)
  /\ approvals' = [approvals EXCEPT ![id].consumed = TRUE]
  /\ UNCHANGED <<call, seen, holder, challenges, used, world, log, forwarded, arrived>>

(* ... the commit of the consumed row ...                                  *)
ConsumeApproval(s) ==
  LET id == call[s].approval IN
  /\ pc[s] = "redeem"
  /\ approvals' = [approvals EXCEPT ![id].consumed = TRUE]
  /\ holder' = [holder EXCEPT ![id] = None]
  /\ Go(s, "schema") \/ Refuse(s)
  /\ UNCHANGED <<call, seen, challenges, used, world, log, forwarded, arrived>>

(* ... or the reason to refuse; an unanswered one expires in passing.      *)
RefuseApproval(s) ==
  LET id == call[s].approval
      row == approvals[id]
  IN
  /\ pc[s] = "risk" /\ id # None
  /\ Unlocked(id) /\ ~Redeemable(s)
  /\ approvals' = IF row.lapsed /\ ~row.consumed /\ row.status = "pending"
                  THEN [approvals EXCEPT ![id].status = "expired"] ELSE approvals
  /\ Refuse(s)
  /\ UNCHANGED <<call, seen, holder, challenges, used, world, log, forwarded, arrived>>

(* The approval store is down before anything is committed.                *)
RedeemFails(s) ==
  /\ \/ pc[s] = "risk" /\ call[s].approval # None /\ UNCHANGED holder
     \/ pc[s] = "redeem" /\ holder' = [holder EXCEPT ![call[s].approval] = None]
  /\ Refuse(s)
  /\ UNCHANGED <<call, seen, approvals, challenges, used, world, log, forwarded, arrived>>

-----------------------------------------------------------------------------
(* _input_schema_for and the validation of the arguments.  The cached list *)
(* may be gone at any time: its TTL, or the initialize of another session. *)
Validate(s) ==
  /\ pc[s] = "schema"
  /\ Go(s, "allow") \/ Go(s, "ask") \/ Refuse(s)
  /\ UNCHANGED <<call, stores, world, log, forwarded, arrived>>

(* _refetch_tools: send_upstream writes the tools/list ...                 *)
AskUpstream(s) ==
  /\ pc[s] = "ask"
  /\ Go(s, "refetch") \/ Refuse(s)
  /\ UNCHANGED <<call, stores, world, log, forwarded, arrived>>

(* Every busy call sees what the world permits now.                        *)
Witness(calls) ==
  [s \in Sessions |-> IF calls[s] = None THEN None
                      ELSE [calls[s] EXCEPT !.inForce = @ \union Permits']]

(* ... and the fresh list goes through detector.check and into the cache;  *)
(* a timeout, an error or a failed check leaves no schema.                 *)
Refetch(s) ==
  /\ pc[s] = "refetch"
  /\ UNCHANGED engine
  /\ \/ /\ blocked' = drifted
        /\ call' = Witness([call EXCEPT ![s].ownDrift = drifted])
        /\ Go(s, "allow") \/ Refuse(s)
     \/ Refuse(s) /\ UNCHANGED <<blocked, call>>
  /\ UNCHANGED <<stores, drifted, changes, log, forwarded, arrived>>

AllowEntry(s) == Entry("ALLOW", call[s].n, call[s].args, call[s].approval, engine)

(* Mutant: an ALLOW row that cannot be written is only logged.             *)
RecordAllow_BestEffort(s) ==
  /\ pc[s] = "allow"
  /\ Record(AllowEntry(s)) \/ UNCHANGED log
  /\ Go(s, "dispatch")
  /\ UNCHANGED <<call, stores, world, forwarded, arrived>>

(* No record, no action.                                                   *)
RecordAllow(s) ==
  /\ pc[s] = "allow"
  /\ \/ /\ Record(AllowEntry(s))
        /\ Go(s, "dispatch") \/ Refuse(s)
     \/ Refuse(s) /\ UNCHANGED log
  /\ UNCHANGED <<call, stores, world, forwarded, arrived>>

Finish(s) ==
  /\ Go(s, "idle")
  /\ call' = [call EXCEPT ![s] = None]

(* The pump writes the call to the upstream.                               *)
Dispatch(s) ==
  /\ pc[s] = "dispatch"
  /\ forwarded' = forwarded \union {call[s]}
  /\ Finish(s)
  /\ UNCHANGED <<stores, world, log, arrived>>

(* The pump answers the client.                                            *)
Answer(s) ==
  /\ pc[s] = "refuse"
  /\ Finish(s)
  /\ UNCHANGED <<stores, world, log, forwarded, arrived>>

(* The session ends under the call: its task is cancelled at an await and  *)
(* a transaction it holds open rolls back.                                 *)
Cancel(s) ==
  /\ pc[s] # "idle"
  /\ holder' = [i \in ApprovalIds |-> IF holder[i] = s THEN None ELSE holder[i]]
  /\ Finish(s)
  /\ UNCHANGED <<seen, approvals, challenges, used, world, log, forwarded, arrived>>

-----------------------------------------------------------------------------
Entered(id, event) == Entry(event, approvals[id].audit, approvals[id].args, id, None)

Approvable(row) == row.status = "pending" /\ ~row.lapsed

(* ApprovalStore.approve: a pending approval is locked ...                 *)
Review(id) ==
  /\ approvals[id] # None /\ Unlocked(id)
  /\ Approvable(approvals[id])
  /\ holder' = [holder EXCEPT ![id] = Admin]
  /\ UNCHANGED <<pc, call, seen, approvals, challenges, used, world, log, forwarded, arrived>>

(* ... APPROVED is written under the lock, by a writer others wait for ... *)
AuditApproval(id) ==
  /\ holder[id] = Admin
  /\ Record(Entered(id, "APPROVED"))
  /\ UNCHANGED <<pc, call, stores, world, forwarded, arrived>>

(* ... then the row commits (the APPROVED row of a failed try counts too)  *)
(* ...                                                                     *)
CommitApproval(id) ==
  /\ holder[id] = Admin
  /\ Entered(id, "APPROVED") \in log
  /\ approvals' = [approvals EXCEPT ![id].status = "approved"]
  /\ holder' = [holder EXCEPT ![id] = None]
  /\ UNCHANGED <<pc, call, seen, challenges, used, world, log, forwarded, arrived>>

(* ... or the transaction fails and the row stays pending.                 *)
RollBackApproval(id) ==
  /\ holder[id] = Admin
  /\ holder' = [holder EXCEPT ![id] = None]
  /\ UNCHANGED <<pc, call, seen, approvals, challenges, used, world, log, forwarded, arrived>>

(* approve of a lapsed approval, and expire_stale at startup.              *)
ExpireApproval(id) ==
  /\ approvals[id] # None /\ Unlocked(id)
  /\ approvals[id].status = "pending" /\ approvals[id].lapsed
  /\ Record(Entered(id, "EXPIRED"))
  /\ approvals' = [approvals EXCEPT ![id].status = "expired"]
  /\ UNCHANGED <<pc, call, seen, holder, challenges, used, world, forwarded, arrived>>

(* expires_at passes.                                                      *)
Lapse(id) ==
  /\ approvals[id] # None /\ ~approvals[id].lapsed
  /\ approvals' = [approvals EXCEPT ![id].lapsed = TRUE]
  /\ UNCHANGED <<pc, call, seen, holder, challenges, used, world, log, forwarded, arrived>>

(* A challenge's Redis key expires.                                        *)
DropChallenge(id) ==
  /\ challenges[id] # None /\ challenges[id].live
  /\ challenges' = [challenges EXCEPT ![id].live = FALSE]
  /\ UNCHANGED <<pc, call, seen, approvals, holder, used, world, log, forwarded, arrived>>

-----------------------------------------------------------------------------
Change ==
  /\ changes < MaxChanges
  /\ changes' = changes + 1

(* SIGHUP or a rollback swaps the engine under the calls in flight.        *)
Swap ==
  /\ Change
  /\ engine' \in Policies \ {engine}
  /\ UNCHANGED blocked
  /\ call' = Witness(call)
  /\ UNCHANGED <<pc, stores, drifted, log, forwarded, arrived>>

(* The upstream starts to serve another definition.                        *)
Drift ==
  /\ Change /\ ~drifted
  /\ drifted' = TRUE
  /\ UNCHANGED <<pc, call, stores, engine, blocked, log, forwarded, arrived>>

(* A tools/list of any session goes through detector.check.                *)
Relist ==
  /\ blocked' = drifted
  /\ UNCHANGED engine
  /\ call' = Witness(call)
  /\ UNCHANGED <<pc, stores, drifted, changes, log, forwarded, arrived>>

(* The administrator re-approves the blocked tool.                         *)
Reapprove ==
  /\ blocked
  /\ blocked' = FALSE
  /\ drifted' = FALSE
  /\ UNCHANGED engine
  /\ call' = Witness(call)
  /\ UNCHANGED <<pc, stores, changes, log, forwarded, arrived>>

(* The gateway restarts; Postgres and Redis keep what they hold.           *)
Restart ==
  /\ Change
  /\ pc' = [s \in Sessions |-> "idle"]
  /\ call' = [s \in Sessions |-> None]
  /\ holder' = [i \in ApprovalIds |-> None]
  /\ engine' \in Policies
  /\ UNCHANGED <<seen, drifted, blocked, approvals, challenges, used,
                 log, forwarded, arrived>>

Stage(s) ==
  \/ Authorize(s) \/ DriftStatus(s) \/ TakeChallenge(s) \/ DedupCode(s)
  \/ Score(s) \/ Hold(s) \/ IssueApproval(s) \/ IssueChallenge(s)
  \/ IssueNothing(s) \/ ConsumeApproval(s) \/ Validate(s) \/ AskUpstream(s)
  \/ Refetch(s) \/ RecordAllow(s) \/ Dispatch(s) \/ Answer(s)

(* What a call that waits for the row lock of its approval does with it.   *)
Locked(s) == LockApproval(s) \/ RefuseApproval(s)

EndApproval(id) == CommitApproval(id) \/ RollBackApproval(id)

Next ==
  \/ \E s \in Sessions : Receive(s) \/ Stage(s) \/ Locked(s) \/ RedeemFails(s) \/ Cancel(s)
  \/ \E id \in ApprovalIds :
       \/ Review(id) \/ AuditApproval(id) \/ EndApproval(id)
       \/ ExpireApproval(id) \/ Lapse(id)
  \/ \E id \in ChallengeIds : DropChallenge(id)
  \/ Swap \/ Drift \/ Relist \/ Reapprove \/ Restart

Spec == Init /\ [][Next]_vars

(* Every await of a call on a store, on the answer to a re-fetch and of    *)
(* the administrator's transaction ends: with its result, an error or its  *)
(* timeout.  Nothing is assumed of Writes.  The wait for a row lock has no *)
(* timeout, but Postgres hands the lock on in turn: a redeem gets it among *)
(* however many approves.                                                  *)
FairSpec ==
  /\ Spec
  /\ \A s \in Sessions :
       WF_vars(pc[s] \notin Writes /\ Stage(s)) /\ SF_vars(Locked(s))
  /\ \A id \in ApprovalIds : WF_vars(EndApproval(id))

-----------------------------------------------------------------------------
(* Type invariant.                                                         *)
TypeOK ==
  /\ pc \in [Sessions -> {"idle"} \union Stages]
  /\ call \in [Sessions -> Call \union {None}]
  /\ \A s \in Sessions : call[s] = None <=> pc[s] = "idle"
  /\ seen \in SUBSET Nonces
  /\ engine \in Policies
  /\ drifted \in BOOLEAN /\ blocked \in BOOLEAN
  /\ approvals \in [ApprovalIds -> Approval \union {None}]
  /\ holder \in [ApprovalIds -> Sessions \union {Admin, None}]
  /\ \A i \in ApprovalIds : holder[i] # None => approvals[i] # None
  /\ challenges \in [ChallengeIds -> Challenge \union {None}]
  /\ used \in SUBSET Codes
  /\ forwarded \in SUBSET Call
  /\ arrived \in 0..MaxCalls
  /\ changes \in 0..MaxChanges

(* No record, no action: whatever fails, restarts or is cancelled, a call  *)
(* that reached the upstream has its ALLOW row, with its arguments         *)
(* (jsonrpc_interceptor.py:363-397).                                       *)
RecordedBeforeForwarded ==
  \A f \in forwarded : \E e \in log :
    e.event = "ALLOW" /\ e.call = f.n /\ e.args = f.args /\ e.id = f.approval

(* A call goes through on an approval only if that approval was requested  *)
(* for a call with the same arguments that was held and recorded, and the  *)
(* grant itself was recorded (approvals.py:62-134; ARCHITECTURE.md 4.8).   *)
ReviewedAsHeld ==
  \A f \in forwarded : f.approval # None =>
    LET row == approvals[f.approval] IN
    /\ row.consumed
    /\ Entered(f.approval, "APPROVED") \in log
    /\ Entry("HUMAN_APPROVAL_REQUIRED", row.audit, f.args, None, None) \in log

(* A call that was scored goes through in the allow band, or in the        *)
(* challenge band with a challenge issued for its arguments and taken by   *)
(* it: a proof never stands in for an approval (step_up.py:17-21,          *)
(* jsonrpc_interceptor.py:329-347).                                        *)
BandsRespected ==
  \A f \in forwarded : f.approval = None =>
    \/ f.band = "allow"
    \/ /\ f.band = "challenge"
       /\ f.challenge # None
       /\ challenges[f.challenge].args = f.args /\ ~challenges[f.challenge].live

(* Two calls never go through on the same nonce, the same challenge or the *)
(* same TOTP code, however they overlap (replay_guard.py:34-52,            *)
(* step_up.py:111-149).                                                    *)
TokensAnswerOnce ==
  \A f, g \in forwarded : f # g =>
    /\ f.nonce = g.nonce => f.nonce = None
    /\ f.challenge = g.challenge => f.challenge = None
    /\ f.code = g.code => f.code = None

(* Under policy swaps and drift checks that overtake the call: what goes   *)
(* through was granted by an engine in force after the call arrived, and   *)
(* its tool was unblocked at some moment since                             *)
(* (jsonrpc_interceptor.py:207-242).                                       *)
PermittedWhileRunning ==
  \A f \in forwarded : f.policy \in Granting /\ f.inForce = {"grant", "unblocked"}

(* No call hangs in the pipeline, although a redeem may have to wait for   *)
(* the row lock of an approval under review: each comes to be decided or   *)
(* its session ends, unless it stays in a write that the upstream or the   *)
(* client does not read (jsonrpc_interceptor.py:207-397,                   *)
(* approvals.py:62-162).                                                   *)
NoCallHangs ==
  \A s \in Sessions : []<>(pc[s] \in Writes \union {"idle"})

(* The expiry that counts is the one the holder of the row lock has read.  *)
RunOut(i) == approvals[i].lapsed /\ holder[i] = None

(* Where an approval is in its life.                                       *)
GrantOf(i) ==
  LET row == approvals[i] IN
  CASE row = None -> "none"
    [] row # None /\ row.consumed -> "spent"
    [] row # None /\ ~row.consumed /\ RunOut(i) -> "void"
    [] row # None /\ ~row.consumed /\ ~RunOut(i) ->
         IF row.status = "pending" THEN "held" ELSE "granted"

Promise == INSTANCE OneTimeGrant WITH
  Ids <- ApprovalIds,
  grant <- [i \in ApprovalIds |-> GrantOf(i)],
  uses <- [i \in ApprovalIds |-> Cardinality({f \in forwarded : f.approval = i})]

(* An approval and the calls it let through behave as OneTimeGrant         *)
(* promises, under concurrent redeems, grants, expiry, failed commits,     *)
(* cancellation and restarts (approvals.py:62-162).                        *)
GrantSpec == Promise!Spec

(* ARCHITECTURE.md 8 and 4.8: a re-fetch runs the drift check before the   *)
(* call is served, and breaking drift blocks immediately.                  *)
OwnDriftBlocks == \A f \in forwarded : ~f.ownDrift
=============================================================================
