-------------------------- MODULE PolicyActivation --------------------------
(***************************************************************************)
(* Which policy is in force, and what is left of the ones that were:       *)
(* _reload_policy, rollback_policy and the startup activation of           *)
(* services/gateway/main.py over services/gateway/policy_versions.py.      *)
(*                                                                         *)
(* A task is a SIGHUP reload or a rollback request.  Any number of them    *)
(* overlap: loop.create_task and the HTTP server start them, no lock keeps *)
(* them apart.  A reload records, swaps, then audits; a rollback records,  *)
(* audits, then swaps.  The operator edits the policy file, and the        *)
(* gateway crashes and boots, at any time.                                 *)
(***************************************************************************)
EXTENDS Naturals, Sequences, SequencesExt

CONSTANTS
  Tasks,     \* overlapping reloads and rollbacks
  Versions,  \* the version numbers a policy file can carry
  Contents,  \* the rest of a policy file, up to its content_hash
  None,
  Torn,      \* the content of a file whose write was cut short
  MaxSteps   \* bound on edits, crashes and tasks begun (model checking only)

ASSUME ActivationAssumption ==
  /\ Versions \subseteq Nat
  /\ {None, Torn} \cap Contents = {} /\ Torn # None
  /\ MaxSteps \in Nat

Policy == [version : Versions, content : Contents]

ASSUME NoPolicyAssumption == None \notin Policy

VARIABLES
  file,       \* POLICY_FILE, None when it does not load
  engine,     \* the engine in the PolicyStore, None while the gateway is down
  rows,       \* policy_versions: rows[v] is the content_hash of version v
  snapshots,  \* policies/revisions: snapshots[v] is the content of v{n}.yaml
  st,         \* st[t]: where task t is
  cand,       \* cand[t]: the policy it is about to activate
  log,        \* the policies of the POLICY_ACTIVATED rows, in order
  ran,        \* history: the policies that were ever in force
  blurred,    \* history: tasks overlapped, or an audit write failed
  steps       \* edits, crashes and tasks so far

vars == <<file, engine, rows, snapshots, st, cand, log, ran, blurred, steps>>

Init ==
  /\ file \in Policy
  /\ engine = None
  /\ rows = [v \in Versions |-> None]
  /\ snapshots = [v \in Versions |-> None]
  /\ st = [t \in Tasks |-> "idle"]
  /\ cand = [t \in Tasks |-> None]
  /\ log = <<>>
  /\ ran = {}
  /\ blurred = FALSE
  /\ steps = 0

Busy == {t \in Tasks : st[t] # "idle"}

Count ==
  /\ steps < MaxSteps
  /\ steps' = steps + 1

Begin(t, stage, policy) ==
  /\ engine # None
  /\ st[t] = "idle"
  /\ Count
  /\ st' = [st EXCEPT ![t] = stage]
  /\ cand' = [cand EXCEPT ![t] = policy]
  /\ blurred' = (blurred \/ Busy # {})

Go(t, from, to) == st[t] = from /\ st' = [st EXCEPT ![t] = to]

End(t, from) ==
  /\ Go(t, from, "idle")
  /\ cand' = [cand EXCEPT ![t] = None]

Activate(policy) ==
  /\ engine' = policy
  /\ ran' = ran \union {policy}

-----------------------------------------------------------------------------
(* Mutant: a snapshot that exists is taken for the right one.              *)
Recordable_AnySnapshot(p) ==
  /\ rows[p.version] = None
  /\ \A v \in Versions : rows[v] # None => v < p.version

(* record_activation, up to its commit: a version above every recorded     *)
(* one, whose snapshot does not exist or is byte-identical.                *)
Recordable(p) ==
  /\ rows[p.version] = None
  /\ \A v \in Versions : rows[v] # None => v < p.version
  /\ snapshots[p.version] \in {None, p.content}

(* The same version and content again: "an idempotent no-op".              *)
Recorded(p) == rows[p.version] = p.content

WriteSnapshot(p) ==
  snapshots' = [snapshots EXCEPT ![p.version] = IF @ = None THEN p.content ELSE @]

(* The write is cut short: the file stays, and no later write replaces it.  *)
TearSnapshot(p) ==
  /\ Recordable(p) /\ snapshots[p.version] = None
  /\ snapshots' = [snapshots EXCEPT ![p.version] = Torn]

Record(p) == rows' = [rows EXCEPT ![p.version] = p.content]

-----------------------------------------------------------------------------
(* SIGHUP: load_candidate; a file that does not load changes nothing.      *)
Reload(t) ==
  /\ file # None
  /\ Begin(t, "record", file)
  /\ UNCHANGED <<file, engine, rows, snapshots, log, ran>>

(* record_activation reads the table and writes the snapshot ...           *)
RecordReload(t) ==
  \/ /\ Go(t, "record", "commit")
     /\ Recordable(cand[t])
     /\ WriteSnapshot(cand[t])
     /\ UNCHANGED <<file, engine, rows, cand, log, ran, blurred, steps>>
  \/ /\ Go(t, "record", "swap")
     /\ Recorded(cand[t])
     /\ UNCHANGED <<file, engine, rows, snapshots, cand, log, ran, blurred, steps>>

(* ... or raises, the disk being full included: the policy in force stays. *)
RejectReload(t) ==
  /\ End(t, "record")
  /\ UNCHANGED snapshots \/ TearSnapshot(cand[t])
  /\ UNCHANGED <<file, engine, rows, log, ran, blurred, steps>>

(* The primary key refuses a version another task has recorded meanwhile.  *)
CommitReload(t) ==
  /\ Go(t, "commit", "swap")
  /\ rows[cand[t].version] = None
  /\ Record(cand[t])
  /\ UNCHANGED <<file, engine, snapshots, cand, log, ran, blurred, steps>>

(* The commit fails, or succeeds and its reply is lost.                    *)
CommitReloadFails(t) ==
  /\ End(t, "commit")
  /\ \/ UNCHANGED rows
     \/ rows[cand[t].version] = None /\ Record(cand[t])
  /\ UNCHANGED <<file, engine, snapshots, log, ran, blurred, steps>>

SwapReload(t) ==
  /\ Go(t, "swap", "audit")
  /\ Activate(cand[t])
  /\ UNCHANGED <<file, rows, snapshots, cand, log, blurred, steps>>

(* The audit row of a reload is best effort: the write may fail, with or   *)
(* without leaving its row.                                                *)
AuditReload(t) ==
  /\ End(t, "audit")
  /\ \/ log' = Append(log, cand[t]) /\ blurred' \in {blurred, TRUE}
     \/ blurred' = TRUE /\ UNCHANGED log
  /\ UNCHANGED <<file, engine, rows, snapshots, ran, steps>>

-----------------------------------------------------------------------------
(* POST /admin/policy/rollback/{version}: the snapshot is loaded; a torn   *)
(* one does not load, or has no row to compare with, and is refused ...    *)
Rollback(t, v) ==
  /\ snapshots[v] \in Contents
  /\ Begin(t, "rollback", [version |-> v, content |-> snapshots[v]])
  /\ UNCHANGED <<file, engine, rows, snapshots, log, ran>>

(* Mutant: the row is looked up, its content_hash is not compared.         *)
RecordRollback_Unrecorded(t) ==
  /\ Go(t, "rollback", "announce")
  /\ UNCHANGED <<file, engine, rows, snapshots, cand, log, ran, blurred, steps>>

(* ... compared with the recorded content_hash, and the row's activated_at *)
(* and activated_by, which no code reads, are refreshed (left out here) ... *)
RecordRollback(t) ==
  /\ Go(t, "rollback", "announce")
  /\ Recorded(cand[t])
  /\ UNCHANGED <<file, engine, rows, snapshots, cand, log, ran, blurred, steps>>

(* ... and announced: no audit row, no rollback.                           *)
AnnounceRollback(t) ==
  /\ Go(t, "announce", "activate")
  /\ log' = Append(log, cand[t])
  /\ UNCHANGED <<file, engine, rows, snapshots, cand, ran, blurred, steps>>

(* Refused, a failed write (that may have left its row), cancellation.     *)
RollbackFails(t) ==
  /\ \/ End(t, "rollback") /\ UNCHANGED <<log, blurred>>
     \/ /\ End(t, "announce")
        /\ \/ UNCHANGED <<log, blurred>>
           \/ log' = Append(log, cand[t]) /\ blurred' = TRUE
  /\ UNCHANGED <<file, engine, rows, snapshots, ran, steps>>

(* Mutant: the swap is made by whoever holds the file's version.           *)
SwapRollback_ToFile(t) ==
  /\ file # None
  /\ End(t, "activate")
  /\ Activate(file)
  /\ UNCHANGED <<file, rows, snapshots, log, blurred, steps>>

SwapRollback(t) ==
  /\ End(t, "activate")
  /\ Activate(cand[t])
  /\ UNCHANGED <<file, rows, snapshots, log, blurred, steps>>

-----------------------------------------------------------------------------
(* The operator edits the policy file.                                     *)
Edit ==
  /\ Count
  /\ file' \in (Policy \union {None}) \ {file}
  /\ UNCHANGED <<engine, rows, snapshots, st, cand, log, ran, blurred>>

(* The process dies, in the middle of writing a snapshot or elsewhere.     *)
Crash ==
  /\ engine # None
  /\ \/ UNCHANGED snapshots
     \/ \E t \in Tasks : st[t] = "record" /\ TearSnapshot(cand[t])
  /\ Count
  /\ engine' = None
  /\ st' = [t \in Tasks |-> "idle"]
  /\ cand' = [t \in Tasks |-> None]
  /\ UNCHANGED <<file, rows, log, ran, blurred>>

(* Mutant: startup takes what it finds in POLICY_FILE.                     *)
Boot_Upsert ==
  /\ engine = None /\ file # None
  /\ WriteSnapshot(file) /\ Record(file)
  /\ log' = Append(log, file)
  /\ Activate(file)
  /\ blurred' = FALSE
  /\ UNCHANGED <<file, st, cand, steps>>

(* Startup: the file is recorded like a reload, and always audited; what   *)
(* fails leaves the gateway down.                                          *)
Boot ==
  /\ engine = None /\ file # None
  /\ \/ Recorded(file) /\ UNCHANGED <<rows, snapshots>>
     \/ Recordable(file) /\ WriteSnapshot(file) /\ Record(file)
  /\ log' = Append(log, file)
  /\ Activate(file)
  /\ blurred' = FALSE
  /\ UNCHANGED <<file, st, cand, steps>>

(* It dies while it writes the snapshot, after that, or after the row.     *)
BootDies ==
  /\ engine = None /\ file # None
  /\ Count
  /\ \/ TearSnapshot(file) /\ UNCHANGED rows
     \/ Recordable(file) /\ WriteSnapshot(file) /\ UNCHANGED rows
     \/ Recordable(file) /\ WriteSnapshot(file) /\ Record(file)
  /\ UNCHANGED <<file, engine, st, cand, log, ran, blurred>>

Next ==
  \/ \E t \in Tasks :
       \/ Reload(t) \/ RecordReload(t) \/ RejectReload(t) \/ CommitReload(t)
       \/ CommitReloadFails(t) \/ SwapReload(t) \/ AuditReload(t)
       \/ RecordRollback(t) \/ AnnounceRollback(t) \/ RollbackFails(t)
       \/ SwapRollback(t)
  \/ \E t \in Tasks, v \in Versions : Rollback(t, v)
  \/ Edit \/ Crash \/ Boot \/ BootDies

Spec == Init /\ [][Next]_vars

-----------------------------------------------------------------------------
(* Type invariant.                                                         *)
TypeOK ==
  /\ file \in Policy \union {None}
  /\ engine \in Policy \union {None}
  /\ rows \in [Versions -> Contents \union {None}]
  /\ snapshots \in [Versions -> Contents \union {None, Torn}]
  /\ st \in [Tasks -> {"idle", "record", "commit", "swap", "audit",
                       "rollback", "announce", "activate"}]
  /\ cand \in [Tasks -> Policy \union {None}]
  /\ \A t \in Tasks : st[t] = "idle" <=> cand[t] = None
  /\ log \in Seq(Policy)
  /\ ran \in SUBSET Policy
  /\ blurred \in BOOLEAN
  /\ steps \in 0..MaxSteps

(* Every policy that was ever in force can be looked up by the version the *)
(* audit rows carry: its row and its snapshot hold its content.  Overlaps, *)
(* edits without a new version, and crashes between the snapshot and the   *)
(* commit leave that true (policy_versions.py:32-91, main.py:47-89).       *)
HistoryResolvable ==
  \A p \in ran : rows[p.version] = p.content /\ snapshots[p.version] = p.content

(* A recorded version has the snapshot a rollback to it needs, with the    *)
(* recorded content, whatever died in between: the snapshot precedes the   *)
(* row, and a version whose snapshot was torn is never recorded            *)
(* (policy_versions.py:52-61, 84-91).                                      *)
RecordedCanRollBack ==
  \A v \in Versions : rows[v] # None => snapshots[v] = rows[v]

(* With no tasks overlapping and no audit write failing since the boot,    *)
(* the last POLICY_ACTIVATED row names the policy in force: it is late     *)
(* only while a reload has swapped, and early only while a rollback has    *)
(* not (main.py:60-71, 253-270).                                           *)
TrailNamesEngine ==
  engine # None /\ ~blurred =>
    \/ Last(log) = engine
    \/ \E t \in Busy : \/ st[t] = "audit" /\ cand[t] = engine
                       \/ st[t] = "activate" /\ cand[t] = Last(log)

(* A recorded version's content_hash and a written snapshot, whole or torn, *)
(* are never rewritten (policy_versions.py:3-12).                          *)
AppendOnly ==
  [][\A v \in Versions :
       /\ rows[v] # None => rows'[v] = rows[v]
       /\ snapshots[v] # None => snapshots'[v] = snapshots[v]]_vars
=============================================================================
