----------------------------- MODULE AuditChain -----------------------------
(***************************************************************************)
(* AuditWriter (services/gateway/audit_log.py): appending hash-chained     *)
(* rows to Postgres while a Redis key points at the newest row's hash.     *)
(*                                                                         *)
(* One element of Events is one call of AuditWriter.write: a coroutine of  *)
(* the gateway process Home[e].  The steps are the awaits of the call:     *)
(*   Acquire -> Watch -> GetPointer [-> LastRow] -> Insert -> Commit       *)
(*     -> Exec                                                             *)
(* and a WatchError goes back to Watch.  The row is written in a Postgres  *)
(* transaction of its own, before Exec moves the pointer: its INSERT draws *)
(* the seq, its COMMIT makes the row visible, so that rows of several      *)
(* processes may appear out of seq order.                                  *)
(*                                                                         *)
(* A hash is modelled by what it commits to: sha256(prev_hash || payload)  *)
(* is the sequence of the events from the first row to this one, so equal  *)
(* hashes mean equal histories and the genesis hash is <<>>.               *)
(***************************************************************************)
EXTENDS Integers, Sequences

CONSTANTS
  Gateways,   \* gateway processes sharing the database and the Redis server
  Events,     \* calls of AuditWriter.write
  Home,       \* Home[e]: the process that makes call e
  MaxFaults,  \* bound on the failures in a behaviour (model checking only)
  NoOne,      \* "no coroutine holds the lock"
  NoPointer   \* the Redis key does not exist

ASSUME ChainAssumption ==
  /\ Home \in [Events -> Gateways]
  /\ MaxFaults \in Nat
  /\ NoOne \notin Events
  /\ NoPointer \notin Seq(Events)

VARIABLES
  log,        \* the rows inserted into audit_log, in seq order
  visible,    \* the seqs of those committed
  pointer,    \* the value of the Redis key latest_audit_hash
  lock,       \* lock[g]: the call that holds process g's asyncio.Lock
  pc,         \* pc[e]: where call e is
  prev,       \* prev[e]: its local variable prev_hash
  seq,        \* seq[e]: the seq of the row it inserted last, 0 for none
  dirty,      \* calls whose WATCHed key was touched since they watched it
  published,  \* history: the seqs the pointer was moved to
  faults      \* failures so far

vars == <<log, visible, pointer, lock, pc, prev, seq, dirty, published, faults>>

Hash == Seq(Events)
Genesis == <<>>
compute_hash(p, e) == Append(p, e)

Working == {"watch", "get", "lastrow", "insert", "commit", "exec"}
Labels  == {"idle", "acked", "failed"} \union Working

(* The hash a reader finds at seq i; seq 0 stands for the empty log.       *)
HashAt(i) == IF i = 0 THEN Genesis ELSE log[i].hash

(* The highest of some seqs, 0 if there is none.                           *)
Latest(S) == IF S = {} THEN 0 ELSE CHOOSE i \in S : \A j \in S : j <= i

Row == [event : Events, prev : Hash, hash : Hash]

Init ==
  /\ log = <<>> /\ visible = {}
  /\ pointer = NoPointer
  /\ lock = [g \in Gateways |-> NoOne]
  /\ pc = [e \in Events |-> "idle"]
  /\ prev = [e \in Events |-> Genesis]
  /\ seq = [e \in Events |-> 0]
  /\ dirty = {}
  /\ published = {}
  /\ faults = 0

Goto(e, from, to) == pc[e] = from /\ pc' = [pc EXCEPT ![e] = to]

Release(e) == lock' = [lock EXCEPT ![Home[e]] = NoOne]

-----------------------------------------------------------------------------
(* async with self._lock                                                   *)
Acquire(e) ==
  /\ Goto(e, "idle", "watch")
  /\ lock[Home[e]] = NoOne
  /\ lock' = [lock EXCEPT ![Home[e]] = e]
  /\ UNCHANGED <<log, visible, pointer, prev, seq, dirty, published, faults>>

(* pipe.watch(POINTER_KEY) on a new pipeline                               *)
Watch(e) ==
  /\ Goto(e, "watch", "get")
  /\ dirty' = dirty \ {e}
  /\ UNCHANGED <<log, visible, pointer, lock, prev, seq, published, faults>>

(* _prev_hash: the cached pointer, or the slow path when there is none     *)
GetPointer(e) ==
  /\ \/ /\ pointer # NoPointer
        /\ Goto(e, "get", "insert")
        /\ prev' = [prev EXCEPT ![e] = pointer]
     \/ /\ pointer = NoPointer
        /\ Goto(e, "get", "lastrow")
        /\ UNCHANGED prev
  /\ UNCHANGED <<log, visible, pointer, lock, seq, dirty, published, faults>>

(* Mutant: ORDER BY seq without DESC.                                      *)
LastRow_Ascending(e) ==
  /\ Goto(e, "lastrow", "insert")
  /\ prev' = [prev EXCEPT ![e] = HashAt(IF 1 \in visible THEN 1 ELSE 0)]
  /\ UNCHANGED <<log, visible, pointer, lock, seq, dirty, published, faults>>

(* _prev_hash: SELECT curr_hash ORDER BY seq DESC LIMIT 1                  *)
LastRow(e) ==
  /\ Goto(e, "lastrow", "insert")
  /\ prev' = [prev EXCEPT ![e] = HashAt(Latest(visible))]
  /\ UNCHANGED <<log, visible, pointer, lock, seq, dirty, published, faults>>

(* compute_hash and _insert: the INSERT, under the next seq                *)
Insert(e) ==
  /\ Goto(e, "insert", "commit")
  /\ log' = Append(log, [event |-> e, prev |-> prev[e],
                         hash |-> compute_hash(prev[e], e)])
  /\ seq' = [seq EXCEPT ![e] = Len(log) + 1]
  /\ UNCHANGED <<visible, pointer, lock, prev, dirty, published, faults>>

(* its COMMIT: the row is there for every reader, and stays                *)
Show(e) == visible' = visible \union {seq[e]}

Commit(e) ==
  /\ Goto(e, "commit", "exec")
  /\ Show(e)
  /\ UNCHANGED <<log, pointer, lock, prev, seq, dirty, published, faults>>

(* Redis marks every other connection that watches the key.                *)
Touch(e) == dirty' = dirty \union {d \in Events \ {e} : pc[d] \in Working}

(* Mutant: SET of the previous hash.                                       *)
SetPointer_PrevHash(e) ==
  /\ e \notin dirty
  /\ pointer' = prev[e]
  /\ published' = published \union {seq[e]}
  /\ Touch(e)

(* MULTI / SET / EXEC applied by Redis: the key was not touched since WATCH *)
SetPointer(e) ==
  /\ e \notin dirty
  /\ pointer' = compute_hash(prev[e], e)
  /\ published' = published \union {seq[e]}
  /\ Touch(e)

(* pipe.execute() succeeds: write returns the row's seq                    *)
Exec(e) ==
  /\ Goto(e, "exec", "acked")
  /\ SetPointer(e)
  /\ Release(e)
  /\ UNCHANGED <<log, visible, prev, seq, faults>>

(* Mutant: the WatchError is swallowed and the row's seq returned.         *)
ExecConflict_Swallowed(e) ==
  /\ Goto(e, "exec", "acked")
  /\ e \in dirty
  /\ Release(e)
  /\ UNCHANGED <<log, visible, pointer, prev, seq, dirty, published, faults>>

(* WatchError: continue, with a fresh pointer and one more row to insert   *)
ExecConflict(e) ==
  /\ Goto(e, "exec", "watch")
  /\ e \in dirty
  /\ UNCHANGED <<log, visible, pointer, lock, prev, seq, dirty, published, faults>>

-----------------------------------------------------------------------------
(* Failures.                                                               *)

Fault == faults < MaxFaults /\ faults' = faults + 1

(* The Redis connection breaks while it watches the key: the client raises *)
(* WatchError, which the handler takes for a conflict.                     *)
ConnectionLost(e) ==
  /\ Fault
  /\ pc[e] \in {"get", "exec"}
  /\ pc' = [pc EXCEPT ![e] = "watch"]
  /\ UNCHANGED <<log, visible, pointer, lock, prev, seq, dirty, published>>

(* The same, after Redis applied the EXEC: only the reply is lost.         *)
ReplyLost(e) ==
  /\ Fault
  /\ Goto(e, "exec", "watch")
  /\ SetPointer(e)
  /\ UNCHANGED <<log, visible, lock, prev, seq>>

(* Mutant: the lock is released on the way that succeeds.                  *)
Abort_KeepsLock(e) ==
  /\ Fault
  /\ pc[e] \in Working
  /\ pc' = [pc EXCEPT ![e] = "failed"]
  /\ UNCHANGED <<log, visible, pointer, lock, prev, seq, dirty, published>>

(* An exception leaves write: a Postgres or Redis error, the cancellation  *)
(* of the coroutine at an await, or the death of its process.  The lock is *)
(* released and the caller sees a failure; a committed row stays, and the  *)
(* COMMIT that was interrupted may have been carried out.                  *)
Abort(e) ==
  /\ Fault
  /\ pc[e] \in Working
  /\ pc' = [pc EXCEPT ![e] = "failed"]
  /\ Release(e)
  /\ UNCHANGED visible \/ (pc[e] = "commit" /\ Show(e))
  /\ UNCHANGED <<log, pointer, prev, seq, dirty, published>>

(* Redis restarts without its data (the container has no volume), or evicts *)
(* the key: the slow path's cold start.                                    *)
LosePointer ==
  /\ Fault
  /\ pointer # NoPointer
  /\ pointer' = NoPointer
  /\ dirty' = dirty \union {d \in Events : pc[d] \in Working}
  /\ UNCHANGED <<log, visible, lock, pc, prev, seq, published>>

-----------------------------------------------------------------------------
Step(e) ==
  \/ Acquire(e)
  \/ Watch(e)
  \/ GetPointer(e)
  \/ LastRow(e)
  \/ Insert(e)
  \/ Commit(e)
  \/ Exec(e)
  \/ ExecConflict(e)

Next ==
  \/ \E e \in Events : Step(e)
  \/ \E e \in Events : ConnectionLost(e)
  \/ \E e \in Events : ReplyLost(e)
  \/ \E e \in Events : Abort(e)
  \/ LosePointer

Spec == Init /\ [][Next]_vars

(* The event loop runs every ready coroutine and the stores answer: a call *)
(* that can step does.  Failures are never required to happen.             *)
FairSpec == Spec /\ \A e \in Events : WF_vars(Step(e))

-----------------------------------------------------------------------------
(* Type invariant: every variable has the shape of the code's value.       *)
TypeOK ==
  /\ log \in Seq(Row) /\ visible \in SUBSET (1..Len(log))
  /\ pointer \in Hash \union {NoPointer}
  /\ lock \in [Gateways -> Events \union {NoOne}]
  /\ pc \in [Events -> Labels]
  /\ prev \in [Events -> Hash]
  /\ seq \in [Events -> 0..Len(log)]
  /\ dirty \in SUBSET Events
  /\ published \in SUBSET (1..Len(log))
  /\ faults \in Nat

(* No published row is skipped by a later one: between a published row and *)
(* the row its prev_hash names lies no other published row.  WATCH/EXEC    *)
(* (audit_log.py:91-121) owes this for any number of processes and any     *)
(* failure: a row that read a pointer which has moved is never published.  *)
PublishedChained ==
  \A j \in published :
    \E k \in 0..(j - 1) :
      /\ log[j].prev = HashAt(k)
      /\ \A m \in published : ~(k < m /\ m < j)

(* A caller that got a seq back got the seq of a row holding its own event *)
(* and reached by the pointer: no acknowledgement for a row that a retry   *)
(* or a conflict left beside the chain (audit_log.py:104-121).             *)
AckedPublished ==
  \A e \in Events :
    pc[e] = "acked" => seq[e] \in published /\ log[seq[e]].event = e

(* The row that a reader of the table finds before row i.                  *)
RowBefore(i) == Latest({j \in visible : j < i})

(* The hazard of committing before moving the pointer, stated exactly: in  *)
(* seq order, a link is broken only right after a row that was never       *)
(* published.  Holds for one process, where the asyncio.Lock of            *)
(* audit_log.py:71-74 orders the writers.                                  *)
ForkOnlyAfterStranded ==
  \A i \in visible :
    log[i].prev # HashAt(RowBefore(i)) => RowBefore(i) \in visible \ published

(* Every call of write comes back, with a seq or with an exception: no     *)
(* lock is kept and the WatchError loop ends (audit_log.py:87-121).        *)
EveryWriteReturns ==
  \A e \in Events : <>(pc[e] \in {"acked", "failed"})

(* What ARCHITECTURE.md 4.8 and the comments of audit_log.py promise of    *)
(* the table: seq order is chain order, so a reader can walk the log.      *)
SeqOrderIsChainOrder ==
  \A i \in visible : log[i].prev = HashAt(RowBefore(i))

-----------------------------------------------------------------------------
(* Refinement: the promise of HashChainLog.  The history is what the hash  *)
(* of the newest published row commits to; the row being published by a    *)
(* returning call is acknowledged with it.                                 *)
Newest == Latest(published)

Promise == INSTANCE HashChainLog
             WITH chain <- HashAt(Newest),
                  acked <- {e \in Events : pc[e] = "acked"}

PromiseSpec == Promise!Spec
=============================================================================
