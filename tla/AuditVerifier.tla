--------------------------- MODULE AuditVerifier ---------------------------
(***************************************************************************)
(* verify_increment (services/gateway/audit_verifier.py), run on a         *)
(* schedule by the verifier sidecar, beside the writers of AuditChain: it  *)
(* walks audit_log in seq order from a checkpoint and stops at the first   *)
(* row that does not continue the chain.                                   *)
(*                                                                         *)
(* A pass is a database session with three awaits that matter:             *)
(*   Anchor  the checkpoint, and the row it names                          *)
(*   Scan    the rows behind it, one snapshot                              *)
(*   Save    the commit of the new checkpoint                              *)
(* Between them the gateway writes, other passes run, and rows of the      *)
(* table may be altered or lost.  What the verifier is for is to notice.   *)
(***************************************************************************)
EXTENDS AuditChain, FiniteSets

CONSTANTS
  Verifiers,  \* verifier processes: the sidecar, a cron job with --once
  MaxDamage   \* bound on the rows damaged in a behaviour (model checking only)

VARIABLES
  sigs,        \* sigs[i]: the hash that the signature of row i signs
  gone,        \* seqs of deleted rows
  checkpoint,  \* last_verified_seq, 0 when there is no checkpoint row
  pass,        \* pass[v]: the pass of v: its stage and local variables
  alarm,       \* alarm[v]: the seq v's latest pass failed at, 0 for none
  damaged,     \* history: rows altered or deleted
  altered,     \* history: those altered, before they were deleted or not
  late,        \* history: those damaged when a pass had already read them
  unseen       \* history: rows committed when a pass was already behind them

verifierVars == <<sigs, gone, checkpoint, pass, alarm, damaged, altered, late, unseen>>
allVars == <<vars, verifierVars>>

Idle == [stage |-> "idle", loaded |-> 0, prev |-> Genesis, upto |-> 0, fail |-> 0]

VerifierInit ==
  /\ Init
  /\ sigs = <<>>
  /\ gone = {}
  /\ checkpoint = 0
  /\ pass = [v \in Verifiers |-> Idle]
  /\ alarm = [v \in Verifiers |-> 0]
  /\ damaged = {}
  /\ altered = {}
  /\ late = {}
  /\ unseen = {}

(* Row i, or where it would be, is in front of the checkpoint or of a pass. *)
AlreadyRead(i) ==
  \/ i <= checkpoint
  \/ \E v \in Verifiers : pass[v].stage # "idle" /\ (i <= pass[v].loaded \/ i <= pass[v].upto)

(* A step of the gateway; _insert signs the hash of the row it adds.       *)
Write ==
  /\ Next
  /\ sigs' = IF Len(log') > Len(log)
             THEN Append(sigs, log'[Len(log')].hash) ELSE sigs
  /\ unseen' = unseen \union {i \in visible' \ visible : AlreadyRead(i)}
  /\ UNCHANGED <<gone, checkpoint, pass, alarm, damaged, altered, late>>

-----------------------------------------------------------------------------
(* Mutant: every pass starts from the genesis hash.                        *)
Anchor_Genesis(v) ==
  /\ pass[v].stage = "idle"
  /\ checkpoint \notin gone
  /\ pass' = [pass EXCEPT ![v] =
       [Idle EXCEPT !.stage = "scan", !.loaded = checkpoint]]
  /\ UNCHANGED <<vars, sigs, gone, checkpoint, alarm, damaged, altered, late, unseen>>

Anchor(v) ==
  /\ pass[v].stage = "idle"
  /\ checkpoint \notin gone
  /\ pass' = [pass EXCEPT ![v] =
       [Idle EXCEPT !.stage = "scan", !.loaded = checkpoint,
                    !.prev = HashAt(checkpoint)]]
  /\ UNCHANGED <<vars, sigs, gone, checkpoint, alarm, damaged, altered, late, unseen>>

(* "checkpoint row is missing from audit_log"                              *)
AnchorMissing(v) ==
  /\ pass[v].stage = "idle"
  /\ checkpoint \in gone
  /\ alarm' = [alarm EXCEPT ![v] = checkpoint]
  /\ UNCHANGED <<vars, sigs, gone, checkpoint, pass, damaged, altered, late, unseen>>

(* Mutant: the link to the row before is not compared.                     *)
Continues_NoLink(i, prevHash) ==
  /\ compute_hash(log[i].prev, log[i].event) = log[i].hash
  /\ sigs[i] = log[i].hash

(* The three checks of a row: chain link, chain math, signature.           *)
Continues(i, prevHash) ==
  /\ log[i].prev = prevHash
  /\ compute_hash(prevHash, log[i].event) = log[i].hash
  /\ sigs[i] = log[i].hash

Least(S) == CHOOSE i \in S : \A j \in S : i <= j

Behind(seqno) == {i \in visible \ gone : seqno < i}

(* The hash that the loop carries into row i.                              *)
Carried(v, i) ==
  LET before == {j \in Behind(pass[v].loaded) : j < i} IN
  IF before = {} THEN pass[v].prev
  ELSE log[Latest(before)].hash

Breaks(v) == {i \in Behind(pass[v].loaded) : ~Continues(i, Carried(v, i))}

(* The loop over the rows: verified through the last good one, up to the   *)
(* first bad one.                                                          *)
Scan(v) ==
  /\ pass[v].stage = "scan"
  /\ LET fail == IF Breaks(v) = {} THEN 0 ELSE Least(Breaks(v))
         good == {i \in Behind(pass[v].loaded) : fail = 0 \/ i < fail}
     IN pass' = [pass EXCEPT ![v].stage = "save", ![v].fail = fail,
                   ![v].upto = IF good = {} THEN pass[v].loaded ELSE Latest(good)]
  /\ UNCHANGED <<vars, sigs, gone, checkpoint, alarm, damaged, altered, late, unseen>>

(* Mutant: the first checkpoint row is not added to the session.           *)
Save_NoFirstRow(v) ==
  /\ pass[v].stage = "save"
  /\ checkpoint' = IF pass[v].loaded = 0 THEN checkpoint ELSE pass[v].upto
  /\ alarm' = [alarm EXCEPT ![v] = pass[v].fail]
  /\ pass' = [pass EXCEPT ![v] = Idle]
  /\ UNCHANGED <<vars, sigs, gone, damaged, altered, late, unseen>>

(* Mutant: the checkpoint names the next row to verify.                    *)
Save_NextSeq(v) ==
  /\ pass[v].stage = "save"
  /\ checkpoint' = IF pass[v].upto > pass[v].loaded THEN pass[v].upto + 1 ELSE checkpoint
  /\ alarm' = [alarm EXCEPT ![v] = pass[v].fail]
  /\ pass' = [pass EXCEPT ![v] = Idle]
  /\ UNCHANGED <<vars, sigs, gone, damaged, altered, late, unseen>>

(* The commit, when rows were verified.  The checkpoint row is inserted by *)
(* a pass that found none: it collides with one inserted meanwhile.        *)
Save(v) ==
  /\ pass[v].stage = "save"
  /\ pass[v].loaded = 0 /\ pass[v].upto > 0 => checkpoint = 0
  /\ checkpoint' = IF pass[v].upto > pass[v].loaded THEN pass[v].upto ELSE checkpoint
  /\ alarm' = [alarm EXCEPT ![v] = pass[v].fail]
  /\ pass' = [pass EXCEPT ![v] = Idle]
  /\ UNCHANGED <<vars, sigs, gone, damaged, altered, late, unseen>>

Die(v) == pass' = [pass EXCEPT ![v] = [Idle EXCEPT !.stage = "dead"]]

(* IntegrityError: no handler, the process ends.                           *)
SaveCollides(v) ==
  /\ pass[v].stage = "save"
  /\ pass[v].loaded = 0 /\ pass[v].upto > 0 /\ checkpoint > 0
  /\ Die(v)
  /\ UNCHANGED <<vars, sigs, gone, checkpoint, alarm, damaged, altered, late, unseen>>

(* The database fails under the pass, or the process dies.                 *)
PassDies(v) ==
  /\ Fault
  /\ pass[v].stage # "dead"
  /\ Die(v)
  /\ UNCHANGED <<log, visible, pointer, lock, pc, prev, seq, dirty, published>>
  /\ UNCHANGED <<sigs, gone, checkpoint, alarm, damaged, altered, late, unseen>>

(* The operator starts it again; the container has no restart policy.      *)
Revive(v) ==
  /\ pass[v].stage = "dead"
  /\ pass' = [pass EXCEPT ![v] = Idle]
  /\ UNCHANGED <<vars, sigs, gone, checkpoint, alarm, damaged, altered, late, unseen>>

-----------------------------------------------------------------------------
Damage(i) ==
  /\ Cardinality(damaged) < MaxDamage
  /\ i \in Behind(0)
  /\ damaged' = damaged \union {i}
  /\ late' = IF AlreadyRead(i) THEN late \union {i} ELSE late

(* A row's payload is altered, with or without a hash that matches it.     *)
Alter(i) ==
  /\ Damage(i)
  /\ \E e \in Events \ {log[i].event} :
       log' \in {[log EXCEPT ![i].event = e],
                 [log EXCEPT ![i].event = e, ![i].hash = compute_hash(log[i].prev, e)]}
  /\ altered' = altered \union {i}
  /\ UNCHANGED <<visible, pointer, lock, pc, prev, seq, dirty, published, faults>>
  /\ UNCHANGED <<sigs, gone, checkpoint, pass, alarm, unseen>>

(* A row is lost.  The newest row stays, so the slow path of the writers   *)
(* finds what AuditChain says.                                             *)
Delete(i) ==
  /\ Damage(i)
  /\ i < Latest(visible)
  /\ gone' = gone \union {i}
  /\ UNCHANGED <<vars, sigs, checkpoint, pass, alarm, altered, unseen>>

Verify(v) == Anchor(v) \/ AnchorMissing(v) \/ Scan(v) \/ Save(v) \/ SaveCollides(v)

VerifierNext ==
  \/ Write
  \/ \E v \in Verifiers : Verify(v) \/ PassDies(v) \/ Revive(v)
  \/ \E i \in 1..Len(log) : Alter(i) \/ Delete(i)

VerifierSpec == VerifierInit /\ [][VerifierNext]_allVars

(* Calls of write go on as in AuditChain; the schedule starts a pass again *)
(* and again, and a pass that nothing interrupts ends.                     *)
FairVerifierSpec ==
  /\ VerifierSpec
  /\ \A e \in Events : WF_allVars(Step(e) /\ Write)
  /\ \A v \in Verifiers : WF_allVars(Verify(v))

-----------------------------------------------------------------------------
Seqs == 0..Len(log)

(* Type invariant.                                                         *)
VerifierTypeOK ==
  /\ TypeOK
  /\ sigs \in Seq(Hash) /\ Len(sigs) = Len(log)
  /\ damaged \subseteq visible /\ unseen \subseteq visible
  /\ gone \subseteq damaged /\ altered \subseteq damaged /\ late \subseteq damaged
  /\ checkpoint \in Seqs
  /\ pass \in [Verifiers -> [stage : {"idle", "scan", "save", "dead"}, loaded : Seqs,
                             prev : Hash, upto : Seqs, fail : Seqs]]
  /\ alarm \in [Verifiers -> Seqs]

(* The rows up to n that a pass can have seen: all but those deleted before *)
(* any pass read them.                                                     *)
Kept(n) == {i \in visible : i <= n} \ (gone \ late)

(* The rows that a pass can have read right before row i: those committed  *)
(* behind a pass may have been passed over.                                *)
Before(i) ==
  {j \in {0} \union Kept(i - 1) : \A k \in Kept(i - 1) \ unseen : k <= j}

(* Row i carries the gateway's signature over its own content and          *)
(* continues the row before it, unless that one was damaged after a pass   *)
(* had read it.                                                            *)
Vouched(i) ==
  /\ sigs[i] = log[i].hash
  /\ compute_hash(log[i].prev, log[i].event) = log[i].hash
  /\ \E j \in Before(i) :
       \/ j = 0 /\ log[i].prev = Genesis
       \/ j # 0 /\ (j \in late \/ log[i].prev = sigs[j])

(* Row i, or an earlier row with its hash, was there to be seen.           *)
Present(i) == Before(i) \cap late # {} \/ \E j \in Kept(i) : sigs[j] = sigs[i]

RowsVouched(n) == \A i \in Kept(n) \ (late \union unseen) : Vouched(i)
NoneMissing(n) == \A i \in (published \cap 1..n) \ (late \union altered) : Present(i)

(* The checkpoint vouches for the rows up to it: each carried the          *)
(* gateway's signature over its own content and continued the row before   *)
(* it, and no published row was deleted unnoticed.  What was damaged after *)
(* a pass had read it is excepted, and a row that was altered before it    *)
(* was deleted may be missed: a writer can have continued the false hash.  *)
(* So is a row committed when a pass was already behind its seq, which no  *)
(* pass will ever read (audit_verifier.py:48-49): two gateways can do that *)
(* to each other, as a seq is drawn before the COMMIT that shows the row.  *)
(* The first part holds for any number of gateways, the second for one;    *)
(* both for any number of verifiers, whose commits may overtake each other *)
(* (audit_verifier.py:36-76).                                              *)
NeverPastABreak == RowsVouched(checkpoint) /\ NoneMissing(checkpoint)

(* With one gateway process, a failed pass points at damage or at a row    *)
(* right behind one whose write failed half way: never at the rows of      *)
(* writers it overlaps with (audit_verifier.py:57-69, audit_log.py:71).    *)
AlarmsAreReal ==
  \A v \in Verifiers : alarm[v] # 0 =>
    LET before == RowBefore(alarm[v]) IN
    alarm[v] \in damaged \/ before \in damaged \/ before \in visible \ published

Clean == damaged = {} /\ SeqOrderIsChainOrder
Running == \E v \in Verifiers : pass[v].stage # "dead"

(* A log without damage and without such a row is verified to its end, and *)
(* stays so, as long as a verifier runs (audit_verifier.py:48-76,          *)
(* scripts/audit_verifier_daemon.py:29-45).                                *)
CleanLogVerified == <>[](Clean /\ Running => checkpoint = Latest(visible))
=============================================================================
