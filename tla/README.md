# SecureMCP (PortunusMCP gateway): models, checks and proofs

TLA+ modules of the gateway under `src/services/gateway/`, the TLC
configurations that check them and the theorems TLAPS proves about them.
File names without a directory are those of `src/services/gateway/`.

## The system

The gateway stands between MCP clients and MCP servers it spawns as
subprocesses. It is one Python process with one event loop: every concurrency
hazard is two coroutines that interleave at their awaits, two transactions that
overlap in Postgres, or a store that another process shares.

| Component | State it keeps | Operations | Talks to |
|---|---|---|---|
| Audit log writer (`audit_log.py`) | `audit_log` rows (Postgres), the chain pointer `latest_audit_hash` (Redis), one `asyncio.Lock` | `write` | called by all others, before they act |
| Audit verifier (`audit_verifier.py`, `scripts/audit_verifier_daemon.py`) | one checkpoint row | `verify_increment` on a schedule, in a container of its own | reads `audit_log` beside the writer |
| Drift detector (`drift_detector.py`) | `tool_baselines` rows | `check`, `approve`, `is_blocked` and other queries | called by `tools/list` answers, re-fetches, the admin API; writes audit rows |
| Call pipeline (`jsonrpc_interceptor.py`) | - | `_authorize_call`, `_deny`, `_risk_terminal` | every store below |
| List relay, schema cache, pruner (`jsonrpc_interceptor.py`, `schema_cache.py`, `schema_pruner.py`) | pending requests, internal ids and futures per session, one cached list per server (Redis) | `on_client_message`, `_refetch_tools`, `on_upstream_message`, `_prune_tools_list`, `invalidate` | drift detector, policy, audit writer |
| Human approvals (`approvals.py`) | `approvals` rows, row locks | `create`, `approve`, `redeem`, `expire_stale` | audit writer |
| Step-up challenges, replay guard (`step_up.py`, `replay_guard.py`) | Redis keys with a TTL | `create`, `redeem`, `check` | - |
| Policy (`policy_engine.py`, `policy_versions.py`, `main.py`) | the engine in memory, `policy_versions` rows, snapshot files | reload on SIGHUP, rollback, startup | audit writer |
| Sessions (`session_manager.py`, `upstream_client.py`) | registry of subprocesses, last_seen keys | `create`, pumps, `sweep_once`, `teardown`, `shutdown_all` | interceptor, audit writer |
| Risk engine (`risk_engine.py`, `auth.py`) | Redis counters of calls, denials, failed keys and calibration | `score`, `record_denial`, `apply_decay`, `_count_failure` | drift detector |
| Explainer, simulator (`decision_explainer.py`, `policy_simulator.py`) | - | `explain_call`, `from_audit_row`, `simulate` | read policy, counters, drift, cache and audit rows |
| ABAC, validator, hashes (`abac.py`, `param_validator.py`) | - | pure functions | - |

What is hard here, and what must hold nevertheless:

* a row of the audit log is committed before the pointer to it moves, and
  calls are cancelled at any await: *the log is one chain of everything that was
  acknowledged, and what is not in the chain is known exactly*;
* several lists and approvals of the same tool overlap without row locks:
  *breaking drift is quarantined, the quarantine can end, and neither is silent*;
* one call reads policy, drift, challenge, approval, score and schema at
  different times: *nothing is forwarded without its record, without a review
  it was held for, or on a token another call used*;
* two pump tasks per session wait for each other, and all sessions share a
  cache: *clients see pruned lists only, calls are validated against a checked
  list, no pump waits for ever on the other*;
* a clock is read, and the key that remembers the result is set later: *a token
  is not taken twice inside its window, a counter counts recent calls only*;
* the decision is written three times, live, dry and from its row: *the three
  agree*;
* reloads and rollbacks overlap and crash half way: *what was in force can be
  looked up and rolled back to*;
* a session's subprocess outlives the coroutine that should reap it: *no
  subprocess without a session, no session that cannot end*.

`PROJECT.json` lists each hazard at its line with the properties that cover it.

## Modules

`HashChainLog` and `OneTimeGrant` are abstract: they say what the audit writer
and the approvals promise, without stores, locks or failures. Each of the other
modules follows one part of the code.

**AuditChain** (`audit_log.py`). One element of `Events` is one call of `write`.
`pc[e]` is the await it is at: `Acquire` (the lock), `Watch`, `GetPointer` or
`LastRow` (`_prev_hash`), `Insert` and `Commit` (`_insert`, its own transaction),
`Exec` or `ExecConflict` (`WatchError`, retry). The INSERT draws the seq, the
COMMIT makes the row visible: `log` is in seq order, `visible` says which of it
readers see, so rows of several processes may appear out of order. `Home` puts calls on processes, so one
process and several share a module. Failures are actions: a lost connection
(redis-py raises `WatchError` for it), a lost reply of an applied EXEC, an
exception or cancellation at any await (`Abort`), a Redis restart
(`LosePointer`). A hash is what it commits to: the sequence of events behind it.
`published` is history: the rows the pointer was moved to.

**AuditVerifier** extends it with `verify_increment`. A pass is `Anchor`,
`Scan`, `Save`, with the writers, other passes, the verifier's death and damage
to rows in between. `sigs[i]` is the hash the signature of row i covers; a
signature cannot be made by anybody but the writer. `Save` is the ORM's update
of the checkpoint or its first insert, which collides with another one
(`SaveCollides`). `damaged`, `altered`, `late` and `unseen` are history: the rows
altered or deleted, those altered at some time, those damaged after a pass had
read them, and those committed when a pass was behind their seq already.
`Before(i)` are the rows a pass can have read right before row i.

**DriftDetector** (`drift_detector.py`), one upstream server. A call of `check`
or `approve` loads rows (`base`), works on its copy (`new`), writes audit rows
(`Audit`) and commits. `Merge` is what the ORM's UPDATE of changed columns does
under READ COMMITTED. `Checked` is the whole loop of `check` as a function of
the table and the list; `classify` is the set `Mild` of changes below HIGH.
A definition stands for its hash and its shape.

**CallPipeline** (`_authorize_call`, `approvals.py`, `step_up.py`,
`replay_guard.py`), one identity and one tool. A stage is what runs between two
awaits; any store operation may fail with or without its effect. The score, the
conditions and the schema check have every outcome. A re-fetch is `AskUpstream`,
whose write has no timeout, and `Refetch`, whose wait has one; `Writes` are the
stages that wait for a peer to read. The administrator's `approve` is `Review`
(the row lock `holder`), `AuditApproval`, then `CommitApproval` or
`RollBackApproval`. Around the calls: `Swap`, `Drift`, `Relist`, `Reapprove`,
`Lapse`, `DropChallenge`, `Cancel`, `Restart`. `forwarded` is history.
`ownDrift` and `inForce` record what a call's own re-fetch found and what
permitted it at some moment.

**ListRelay** (`jsonrpc_interceptor.py`, the pumps of `session_manager.py`).
Each session has two tasks: `client[s]` and `up[s]` are what they await.
`Initialize`, `Invalidate`, `List`, `Miss`, `Ask` and `Refetch` are the client
pump; `Take`, `CheckList`, `PutList`, `AuditList` and `Serve` the upstream pump,
which resolves the future the other waits for. `pending[s]` is `_pending` as far
as it says `tools/list`: its keys are ids the client chooses, and any request
under an id takes the place of a list (`Remember`). The subprocess may answer
under any id, unasked or twice (`Reply`). The gateway's own ids are fresh
(`uuid4`). A list is a set of names. Timeouts (`GiveUp`), failures, the end of a
session with a SET under way, `Expire` of the cache and `Swap` of the policy come
in between. `usage`, `checked`, `dropped` and the fields `since` and `due` of the
upstream pump are history; `usage` says whether an id stands for one list, or is
`spoilt`. The ETag, which no code compares, is left out.

**RedisWindows** (`replay_guard.py`, `step_up.py`, `risk_engine.py`,
`auth.py`). The clock, the TTL of each key, and the two commands each handler
sends: `Check` then `Set`, `Incr` then `Expire` or `Lose`. The gateway's and
Redis's clock are the same clock.

**RiskScore** is the arithmetic of `risk_engine.py`: factors, `combine`, bands.
**Decisions** extends it with one identity's calls at one server, a handler per
step: `Live` is `_authorize_call`, `Explain` is `explain_call`, `FromAuditRow`
and `Simulated` are the two others. They are separate operators because the code
has them three times; they share what the code shares (`matching_grant`,
`evaluate`, the score). The policy version is read once for the Decision and once
for its row, on either side of an await: a swap may come in between (`Answered`,
`CallRow`, `ApprovedAnswer`). A compiled condition is the set of attribute paths it
names and a limit on the score. `c.fails` is the read that fails in this call.

**PolicyActivation** (`main.py`, `policy_versions.py`). A task is a SIGHUP
reload or a rollback, any number at once. `file` is POLICY_FILE, `engine` the
PolicyStore, `rows` and `snapshots` the two records, `log` the POLICY_ACTIVATED
rows. `Crash`, `Boot` and `BootDies` are the process; `Edit` is the operator.
`TearSnapshot` is a snapshot whose write was cut short. A row is its content hash;
`activated_at` and `activated_by`, which a rollback refreshes, are left out.

**SessionManager** (`session_manager.py`, `main.py`). For each session: where
its creating request is (`create`), its registry entry, subprocess, last_seen
key, pump task and the teardown that popped it (`reap`). The sweep is a task of
its own, whose question to Redis (`SweepAsks`) and action on the answer
(`SweepActs`) are apart. `Teardown` is the part of `teardown` before its first
await; `ReapWait` and `ReapDelete` are the rest. `Shutdown` and `Exit` are the
lifespan's end: uvicorn first answers the requests in flight (`RequestsDone`).
A cancelled task that has not taken its first step never enters `_run`; the end
of `_run` does not wait for its pumps, so one of them may still set the key
afterwards (`Message`).

**MC*** modules hold the constants TLC needs, ***Proofs** modules the theorems.
The operators named `X_Something` before an action X are wrong versions of it,
a plausible bug each, with which TLC refutes the property they are paired with
in `PROJECT.json`.

## Runs

All bounds are constants named `Max...`, the sizes of the constant sets, and
`Bounded` of `Decisions`.

| Run | Instance | Shows |
|---|---|---|
| `audit_single` | 1 process, 3 writes, 3 failures | published rows are one chain; an acknowledged seq is a published row with its own event; the log forks only behind a row that was never published; the writer implements `HashChainLog`; every write returns |
| `verifier` | 2 writes, 2 verifiers, 1 fault, 1 damaged row | the checkpoint never passes damage it could see; alarms are real; a clean log is verified to its end |
| `drift` | 2 overlapping calls, 2 tools, 3 definitions, 4 transactions | breaking drift is blocked, a block can end, nothing is silent, trust follows a report |
| `drift_rename` | same | *violation*: a rename unblocks itself |
| `pipeline_approval` | 2 sessions, 2 calls, 1 approval, 2 argument objects | no record, no action; the call reviewed is the call made; one-time use (`OneTimeGrant`); no call waits for ever but for a peer that reads |
| `pipeline_tokens` | 2 sessions, 2 calls, 2 challenges, 1 code, 1 nonce, 1 change | bands, one use of each token, permission while running |
| `pipeline_refetch` | 1 call, 1 change | *violation*: a call ignores the drift its own re-fetch found |
| `relay` | 2 sessions, 1 client id, 2 re-fetches, 2 answers, 2 policies, 1 swap | clients see checked, pruned and logged lists; the cached list is checked and no handshake's leftover; the pumps go on |
| `policy_activation` | 2 tasks, 3 versions, 2 contents, 6 steps, torn snapshots | what ran can be resolved, what is recorded can be rolled back to, the trail names the engine, append-only |
| `decisions` | 3 policies, 1 tool, 2 argument objects, 2 counted calls | dry run, row and simulation agree with the live decision; the static part of a score stands; calibration is earned |
| `windows` | 3 calls, 1 nonce, 1 code, clock to 8 | how long a nonce, a code and a counter last when commands are late or lost |
| `sessions` | 2 sessions, 2 Redis failures | no subprocess is lost while the gateway serves; what outlives it; silent sessions are reaped; creations return |

Every type invariant is a theorem; only the verifier's run repeats its own. The
chain of several processes, approvals under restarts and several approvals at
once are theorems only: the restart multiplies the states of
`pipeline_approval` by five.

Why the bounds are enough. The audit hazards need a write, a failure and a
successor that meets its leftovers; three writes and three failures also give a
conflict inside a retry. The verifier needs a row on each side of the damaged
one. Two overlapping transactions with two more before or after reach every
merge; a third definition separates mild, breaking and flagged drift. One
approval or challenge and two calls are a race; two argument objects tell a
changed call from the reviewed one. Of the two sessions of `relay` one client
lists and calls, the other calls: two answers are a list and a re-fetch's, on one
session or two, a late or second answer beside a fresh one, and a handshake over
an answer that is under way; one id is enough to use it twice, and two policies
that grant different tools show which one pruned. The policies of `MCDecisions` grant without conditions; behind a
grant for another server, with early and deferred conditions and one on an
attribute the identity lacks; and after a denial. Two counted calls pass a
threshold of one. `Bounded` gives up combinations, not steps: `MaxStress` allows
the more counters and flags to be raised at once the shorter the log is, a
counter behind its threshold counts no further, nor does one behind a second row, and a second row follows where
a later step refers to the first. `MaxTime` lies behind the end of every window,
so a key can be set, run out and be asked for again; at the bound clock and ages
stay, and keys still run out. Of two sessions, one is being torn down or created
while the sweep is at the other; two Redis failures let a creation fail and the
sweep or a teardown with it. Three versions allow a commit out of order below a higher one.
`CHECK_DEADLOCK FALSE` is set where a bound stops the system or every call has
returned.

Fairness. `audit_single`, `verifier`: a coroutine that can step does, since the
event loop runs all ready coroutines and each store call returns or raises; no
failure is required. A verifier is started again by its schedule.
`pipeline_approval`: weak fairness of each stage that awaits a store or a timeout
and of the end of the administrator's transaction, for the same reason; nothing
is assumed of the stages `Writes`, whose drain or send ends when a subprocess or a
client reads (`upstream_client.py:42`, `session_manager.py:165`). Waiting for the row lock is
strongly fair: the lock may be taken by others meanwhile, and Postgres queues
waiters. `relay`: the steps that end a store call or the re-fetch's `wait_for`,
which has a timeout; that a client reads, that a subprocess reads or answers is
not assumed, so a pump may stay at a write for ever ("ask", "send"). `windows`:
time passes, and a command that is due is sent or fails. `sessions`: requests
under way, cancelled or upstream-less pump tasks, teardowns and the sweep go on,
since their waits are bounded by the loop, the grace period and the interval;
that an upstream obeys SIGTERM is not assumed. Nothing assumes that clients
call, that approvals are granted or that an operator acts.

## What the violations show

1. `drift_rename`: a renamed tool is baselined with its live hash as the
   approved one, so the next list reads as a revert and clears `blocked`
   (`drift_detector.py:199`), though the comment at line 300 says it is blocked
   until approval.
2. `pipeline_refetch`: a call that re-fetches the schema runs the drift check and
   does not look at its verdict (`jsonrpc_interceptor.py:351`).

## Known gaps

What the passing properties state with an exception, because the code does not
give the plain claim:

* **Audit chain.** `_insert` commits before `EXEC`. One cancelled write leaves a
  stranded row and the next row does not continue it, though the comment at
  `audit_log.py:71` says seq order matches chain order. `ForkOnlyAfterStranded`
  and `AlarmsAreReal` say precisely what is left of the claim. `HashChainLog` is
  the promise of one process; several keep `PublishedChained`. A COMMIT that a
  cancellation or a crash interrupts takes effect at that moment or never.
* **Audit verifier.** `NeverPastABreak` vouches for published rows, with
  exceptions. Several gateways can publish rows whose heights fall, and a row
  deleted between two of them before a pass read it leaves no trace; with any
  number of them `CheckpointVouches` says what is left. A seq is drawn at the
  INSERT, before the COMMIT: with several gateways a row can appear behind the
  checkpoint, or behind what a pass has scanned, and is then never read
  (`audit_verifier.py:48-49`); `NeverPastABreak` exempts these rows (`unseen`). A
  row altered before it is deleted can have lent its false hash to the next one. A
  row altered behind the checkpoint is not read again, but a pass takes its hash
  from it: it fails at the next row, or vouches for one that continues the false
  hash.
* **Approvals.** The time of an approval can run out while its row is locked and
  counts from the next look at it. That a look finds it lapsed and records
  `EXPIRED` is one step (`ExpireApproval`). Several locked approvals lapse in one
  step when the gateway restarts, so `OneTimeGrant` lets a set of grants lapse at
  once.
* **Drift.** `approve` and `check` overlap without a row lock and their columns
  merge (`drift_detector.py:370-401`): a merged row can be unblocked although its
  definition is breaking, or blocked without an observation. `QuarantineHolds` and
  `QuarantineCanEnd` hold for all other rows; the history variable `torn` names
  the merged ones. `NothingSilent` and `TrustFollowsReport` hold for merged rows
  too.
* **Call pipeline.** `NoCallHangs` is about everything but writes to a peer: the
  subprocess or the client may stop reading for ever. The replay guard of this
  module does not forget; how long a nonce is kept is the subject of
  `RedisWindows`. The ALLOW row takes `matched_rules` and `policy_version` from
  the engine at the end of a call (`jsonrpc_interceptor.py:365`), which may have
  been swapped in after the grant. `PermittedWhileRunning` says what holds of the
  call.
* **Policy trail.** Overlapping reloads and rollbacks, and a task whose audit
  write fails, leave a last POLICY_ACTIVATED row that is not the policy in force
  (`main.py:59-71`, `:252-270`). `TrailNamesEngine` exempts them (`blurred`, until
  the next start); `HistoryResolvable` holds of them too.
* **List relay.** `_pending` is keyed by the ids the client chooses
  (`jsonrpc_interceptor.py:153`). A list whose id the client uses for another
  request before it is answered, a denied one included (`:523`, `:606`), is passed
  on unpruned, unchecked and unlogged; so is a second answer to one list, and an
  answer whose id has another type (`:719`). `ServedArePruned` holds of every answer
  relayed as a list and of every list whose id is used once and answered once,
  and of no other. Internal answers are "never forwarded to the client"
  (`:128-129`), but a re-fetch that times out forgets its id and its late answer
  passes too. An older list that was under way during a handshake is cached after
  it; `CacheIsCurrent` exempts it. `send_upstream` in the re-fetch has no timeout:
  a subprocess that does not read stops the client pump, and `PumpsGoOn` leaves
  that stage out.
* **Windows.** "first-seen + 2xwindow strictly outlives its validity"
  (`replay_guard.py:47-48`) fails at the last instant of the window and for a SET
  sent late; then the timestamp is at the end of its window, which is what
  `NonceReusedOnlyPastItsWindow` states. `step_up.py:43` counts 60 s of validity,
  a code has 90 s; the key lives 90 s. A "rolling window" (`risk_engine.py:67`) is
  a fixed one from the first call. A lost `EXPIRE` leaves a counter for ever
  (`lost` in `CounterClears`). The calibration key gets a fresh TTL with every
  approval, so that it clears is so only because the calls of a behaviour are
  finitely many.
* **Dry runs.** `explain_call` denies when the cache read fails, the live handler
  raises; it scores a validation denial, the live handler does not; without a
  cached list it denies, the live handler asks the upstream.
  `ExplainPredicts` states these three. The list of factors of a row that has
  none, and the hint `alternative`, which live decisions never carry, are not part
  of the decisions compared.
* **Rows and answers.** A Decision takes the policy version before its row is
  written (`jsonrpc_interceptor.py:537`, `:630`) or two awaits after it
  (`main.py:222`), the row takes its own (`audit_log.py:154`). With a swap in
  between the two differ, and `RowsExplained` compares all but the version. The
  `POLICY_ERROR` row of a condition that could not be evaluated stands before the
  row of the denial and answers nobody; a row whose call was then answered
  "unavailable" is a held, granting or forwarding row, never a denial.
* **Simulation.** Leaving out APPROVED rows so that a held call is not counted
  twice (`policy_simulator.py:42-44`) does not cover the ALLOW row of the call
  that redeemed it: both are replayed. Rows denied for replay, step-up or
  validation come back as ALLOW and are counted as newly allowed, since a replay
  has no token and no schema. `SimulationPredicts` compares with a live call
  without token, made now.
* **Sessions.** `OnlyInterruptedOutlive`: ARCHITECTURE.md 4.8 kills "anything
  still alive before the gateway process itself exits", but a session being torn
  down is no longer in the registry, and its teardown is cancelled by
  `sweep.cancel()` or by the end of the loop. An upstream that ignores SIGTERM
  then survives. `SilentSessionsReaped` exempts a dead sweep: the first Redis
  error in `sweep_once` ends `sweep_loop`, and nothing restarts it.
  `CreateReturns` exempts a session the sweep found between its registration and
  its first key. The EXISTS is answered before the SET, and the sweep cancels a
  pump task that was just created: `ready` is never set, the request waits for
  ever, and a graceful shutdown waits for the request.

## Proofs

Every theorem below is proved for every value of the constants under the
module's own named assumptions, which TLC evaluates in the runs. The bounds are
among the constants, so no theorem depends on their size (in `Decisions` an empty
`MaxStress` bounds nothing). None of the safety
properties is inductive; what each strengthening adds is the argument.

**AuditProofs** (`ChainAssumption`; any processes, events, `Home`, verifiers,
failures, damage). `SingleProcess` says that all writers share one process; it is
what one deployed gateway gives, the constants of the runs satisfy it, and the
theorems that need it name it as a hypothesis.

* *Writers.* `TypeCorrect`, `PublishedRowsChained`, `AcknowledgedRowsPublished`,
  and under `SingleProcess` `ForksOnlyAfterStrandedRows`. A call that is neither
  dirty nor before `GetPointer` has read the pointer as it still is; the pointer
  is the hash of the newest published row, or absent; a published row's hash
  extends its `prev`; rows behind the newest published one are unpublished. With
  one process the lock holder is the only call past `Acquire`, so no row is added
  or shown between its read of the log and its own row, and (`RowContinues`) the row
  it is about to show continues the newest one shown.
* *The promise.* `LogKeepsPromise` (under `SingleProcess`) is the refinement of
  `HashChainLog`, step by step: an EXEC that is acknowledged is `Acknowledge`, a
  publication whose reply is lost is `Extend`, everything else a stutter.
  `HistoryKept` is what the mapping needs: every row from the newest published one
  on commits to a history that extends it, a stranded row included, and so does
  the hash a writer is about to use. `AcknowledgedStaysOnChain` draws the
  conclusion: what was acknowledged never leaves the chain.
* *Verifiers.* `VerifierTypeCorrect` and `CheckpointVouches` hold for any number
  of gateways and verifiers; `CheckpointHidesNothing` and `AlarmsAreTrue` need
  `SingleProcess`. Rows are damaged at any moment, so an invariant cannot speak of
  what a row says now; it speaks of what damage does not reach, the signatures
  and `prev_hash`. `Anchored` says what a pass knows of the row it starts from.
  A commit can set the checkpoint back to what a slower pass has loaded, so
  `RowsTrusted` is about every seq some pass may still make the checkpoint
  (`ReliedOn`), and `NonesTrusted` likewise for deleted rows. Whether a gap can be
  seen depends on the writers: `WriterInv` gives each row a height, the length of
  the history it commits to, and says that heights never fall, rise behind a
  published row, and that the row right above a published one continues it unless
  that one was altered. So a deletion leaves a jump the next row betrays, or a
  row with the same hash. `AlarmsTrue` carries the failure a pass has found to its
  commit.

**DriftDetectorProofs** (`DriftAssumption`, `NoRowAssumption`):
`DriftTypeCorrect`, `BreakingDriftIsBlocked`, `BlocksCanEnd`,
`BaselinesAreNeverSilent`, `TrustIsReported`. Everything a transaction has in
its copy is backed by the log or by an event it still has to write
(`CopiesBacked`), and it commits only when none is left; a merged row takes each
column from a backed row, so it is backed too. That a row's block fits its
definition (`Fit`) survives only commits that do not merge, which is what `torn`
remembers.

**CallPipelineProofs** (`PipelineAssumption`, `NoRecordAssumption`):
`PipelineTypeCorrect`, `ForwardedAreRecorded`, `RedeemedWereReviewed`,
`BandsAreRespected`, `ForwardedWerePermitted`, `TokensAreSpentOnce`,
`GrantsAreOneTime`, `ApprovalsCarryOneCall`. `At` says
what a call has proved at each stage; `Kept` says that approvals, challenges and
the log never take back what a call relies on, so the other calls' steps keep
it. For the tokens, `Owns` says which nonce, challenge and code a call at a stage
holds and that the store remembers it, and `TokenInv` that the owners, forwarded
calls included, are pairwise apart. `GrantsAreOneTime` is the refinement of
`OneTimeGrant`. `RowStep` and `Released` list what a step can do to one row and
its lock; `OneRow` and `LettingGo` say that a step does the first to one row or
the second to any number. `GrantInv` is what makes each of these a step of a
grant: the columns of a locked row (`RowOK`), that a session holds exactly the
lock of the approval it redeems (`SessionLocks`), and that no two calls have
passed on one approval (`ClearedApart`), which holds because the second would
have found the row consumed under its lock.

**ListRelayProofs** (`RelayAssumption`, `NoAnswerAssumption`):
`RelayTypeCorrect`, `ServedListsArePruned`, `CachedListsAreCurrent`. `Promised` says
of one id, by what it was used for, which answers can be in the pipe and whether
`_pending` has it; an id that is not spoilt promises that the one answer to its
list meets its entry, and other ids, spoilt ones included, cannot disturb it. `Relays` is what that pump knows
of its answer at each stage, `Waits` what the client pump knows of its request,
and `Unsettled` that nothing on its way to the cache was settled in a handshake.

**RedisWindowsProofs** (`WindowsAssumption`): `WindowsTypeCorrect`,
`NoncesAreTakenOnce`, `CodesAreTakenOnce`, `CountedCallsAreRecent`. A token that
was accepted has a key whose remaining time reaches the end of its validity, or
the end has come; a call past its check but before its SET adds nothing to that.
For the counters, the oldest counted call is that of the creator of the key, and
`slack` is how long its EXPIRE was late.

**DecisionProofs** (`DecisionAssumption`, `NoneAssumption`, `ScoreAssumption`):
`DecisionsTypeCorrect`, `DecisionsAreExplained`, `StaticFloorHolds`,
`ExplanationsPredict`, `SimulationsPredict`, `CalibrationIsEarned`. Two need no
invariant beyond types: live and dry decision are compared stage by stage up to
validation. Calibration is counted: the one step that raises
it adds an `APPROVED` row and a held row that is no longer pending, every other
step keeps both sets of rows (`CountsGrow`, `OthersStep`).

**PolicyActivationProofs** (`ActivationAssumption`, `NoPolicyAssumption`):
`ActivationTypeCorrect`, `RecordedVersionsCanRollBack`, `HistoryIsResolvable`,
`RecordsAreAppendOnly`, `TrailNamesTheEngine`. `RecordsInv` says what backs each
task at its stage, a whole snapshot before its commit and a row after it; `Grows` that
records only grow; `TrailInv` that a task is alone as long as the trail is not
`blurred` by an overlap.

**SessionManagerProofs** (`SessionsAssumption`): `SessionTypeCorrect`,
`NoSubprocessForgotten`, `OutlivingWereInterrupted`. Before it is spawned a
session has no traces; while it is registered no teardown has it, so the one that
pops it is alone; a teardown that waits has sent SIGTERM; and (`Held`) whoever
will end a running subprocess depends on the phase of the gateway. `Closed` adds
that nothing is registered or created once the gateway stops, which is what
`RequestsDone` is for.

Only model-checked: liveness (`EveryWriteReturns`, `CleanLogVerified`,
`NoCallHangs`, `PumpsGoOn`, `CounterClears`, `SilentSessionsReaped`,
`CreateReturns`), which with ENABLED is out of the prover's reach; the two runs
that expect a violation. Every safety property and both refinements that the
runs check are theorems.

## Not modelled

HTTP, authentication by key hash or signature, and the MCP transport; hashing,
signing and JSON canonicalisation (a hash is injective); the grammar and parser
of ABAC conditions; JSON-schema validation and description patterns
(nondeterministic outcomes or constant sets); loading and validating a policy
file; metrics, logging and wiring; the development scripts. The offline chain
verification is one pass of `AuditVerifier` from the genesis hash. The pool of
database connections: `check`, `approve` and `expire_stale` hold one while they
wait for the audit lock, whose holder needs one; the pool's timeout ends that
wait with an exception, and exceptions at that await are in the models.

## Plan

What is left: *ConnectionPool*, the audit lock against pooled connections, with
the pool's timeout.
