----------------------- MODULE PolicyActivationProofs -----------------------
(* What is left of the policies that were in force, for any number of       *)
(* overlapping reloads and rollbacks, edits of the file and crashes.        *)
EXTENDS PolicyActivation, TLAPS

(* The types without the bound on steps.                                    *)
Files ==
  /\ file \in Policy \union {None} /\ engine \in Policy \union {None}
  /\ rows \in [Versions -> Contents \union {None}]
  /\ snapshots \in [Versions -> Contents \union {None, Torn}]
  /\ log \in Seq(Policy) /\ ran \in SUBSET Policy
  /\ blurred \in BOOLEAN /\ steps \in 0..MaxSteps

Stages ==
  /\ st \in [Tasks -> {"idle", "record", "commit", "swap", "audit",
                       "rollback", "announce", "activate"}]
  /\ cand \in [Tasks -> Policy \union {None}]
  /\ \A t \in Tasks : st[t] = "idle" <=> cand[t] = None

LEMMA TypeParts == TypeOK <=> Files /\ Stages
BY DEF TypeOK, Files, Stages

(* A step of one task between two stages, and one that begins or ends it.   *)
LEMMA StageMoves ==
  ASSUME Stages, NEW t \in Tasks, NEW a \in {"record", "commit", "swap", "audit",
                                             "rollback", "announce", "activate"}
  PROVE  /\ \A b \in {"commit", "swap", "audit", "announce", "activate"} :
              Go(t, a, b) /\ UNCHANGED cand => Stages'
         /\ End(t, a) => Stages'
BY NoPolicyAssumption DEF Stages, Go, End

LEMMA BeginMoves ==
  ASSUME Stages, NEW t \in Tasks, NEW b \in {"record", "rollback"}, NEW p \in Policy,
         Begin(t, b, p)
  PROVE  Stages'
BY NoPolicyAssumption DEF Stages, Begin

LEMMA CountType ==
  ASSUME steps \in 0..MaxSteps, Count
  PROVE  steps' \in 0..MaxSteps
BY ActivationAssumption DEF Count

(* The policy of a task that is not idle.                                   *)
LEMMA CandType ==
  ASSUME Stages, NEW t \in Tasks, st[t] # "idle"
  PROVE  /\ cand[t] \in Policy
         /\ cand[t].version \in Versions /\ cand[t].content \in Contents
<1>1. cand[t] \in Policy
  BY DEF Stages
<1> QED
  BY <1>1 DEF Policy

(* Writing the two records.                                                 *)
LEMMA RecordType ==
  ASSUME Files, NEW p \in Policy
  PROVE  /\ Record(p) => rows' \in [Versions -> Contents \union {None}]
         /\ WriteSnapshot(p) \/ TearSnapshot(p) =>
             snapshots' \in [Versions -> Contents \union {None, Torn}]
         /\ Append(log, p) \in Seq(Policy)
<1>1. p.version \in Versions /\ p.content \in Contents
  BY DEF Policy
<1> QED
  BY <1>1 DEF Files, Record, WriteSnapshot, TearSnapshot

LEMMA TypeStep ==
  ASSUME TypeOK, [Next]_vars
  PROVE  TypeOK'
<1>0. Files /\ Stages
  BY TypeParts
<1>1. ASSUME NEW t \in Tasks, Reload(t) PROVE Files' /\ Stages'
  <2>1. file \in Policy
    BY <1>0, <1>1 DEF Files, Reload
  <2>2. Stages'
    BY <1>0, <1>1, <2>1, BeginMoves DEF Reload
  <2>3. steps' \in 0..MaxSteps /\ blurred' \in BOOLEAN
    BY <1>0, <1>1, CountType DEF Reload, Begin, Files
  <2> QED
    BY <1>0, <1>1, <2>2, <2>3 DEF Files, Reload
<1>2. ASSUME NEW t \in Tasks, RecordReload(t) PROVE Files' /\ Stages'
  <2>1. st[t] # "idle"
    BY <1>2 DEF RecordReload, Go
  <2>2. cand[t] \in Policy
    BY <1>0, <2>1, CandType
  <2>3. Stages'
    BY <1>0, <1>2, StageMoves DEF RecordReload
  <2> QED
    BY <1>0, <1>2, <2>2, <2>3, RecordType DEF Files, RecordReload
<1>3. ASSUME NEW t \in Tasks, RejectReload(t) PROVE Files' /\ Stages'
  <2>1. st[t] # "idle"
    BY <1>3 DEF RejectReload, End, Go
  <2>2. cand[t] \in Policy
    BY <1>0, <2>1, CandType
  <2>3. Stages'
    BY <1>0, <1>3, StageMoves DEF RejectReload
  <2>4. snapshots' \in [Versions -> Contents \union {None, Torn}]
    BY <1>0, <1>3, <2>2, RecordType DEF Files, RejectReload
  <2> QED
    BY <1>0, <1>3, <2>3, <2>4 DEF Files, RejectReload
<1>4. ASSUME NEW t \in Tasks, CommitReload(t) \/ CommitReloadFails(t)
      PROVE  Files' /\ Stages'
  <2>1. st[t] = "commit"
    BY <1>4 DEF CommitReload, CommitReloadFails, Go, End
  <2>2. cand[t] \in Policy
    BY <1>0, <2>1, CandType
  <2>3. Stages'
    BY <1>0, <1>4, StageMoves DEF CommitReload, CommitReloadFails
  <2> QED
    BY <1>0, <1>4, <2>2, <2>3, RecordType DEF Files, CommitReload, CommitReloadFails
<1>5. ASSUME NEW t \in Tasks, SwapReload(t) \/ SwapRollback(t) PROVE Files' /\ Stages'
  <2>1. st[t] # "idle"
    BY <1>5 DEF SwapReload, SwapRollback, Go, End
  <2>2. cand[t] \in Policy
    BY <1>0, <2>1, CandType
  <2>3. Stages'
    BY <1>0, <1>5, StageMoves DEF SwapReload, SwapRollback
  <2> QED
    BY <1>0, <1>5, <2>2, <2>3 DEF Files, SwapReload, SwapRollback, Activate
<1>6. ASSUME NEW t \in Tasks, AuditReload(t) PROVE Files' /\ Stages'
  <2>1. st[t] # "idle"
    BY <1>6 DEF AuditReload, Go, End
  <2>2. cand[t] \in Policy
    BY <1>0, <2>1, CandType
  <2>3. Stages'
    BY <1>0, <1>6, StageMoves DEF AuditReload
  <2>4. log' \in Seq(Policy)
    BY <1>0, <1>6, <2>2, RecordType DEF Files, AuditReload
  <2> QED
    BY <1>0, <1>6, <2>3, <2>4 DEF Files, AuditReload
<1>7. ASSUME NEW t \in Tasks, NEW v \in Versions, Rollback(t, v) PROVE Files' /\ Stages'
  <2>1. [version |-> v, content |-> snapshots[v]] \in Policy
    BY <1>0, <1>7 DEF Files, Rollback, Policy
  <2>2. Stages'
    BY <1>0, <1>7, <2>1, BeginMoves DEF Rollback
  <2>3. steps' \in 0..MaxSteps /\ blurred' \in BOOLEAN
    BY <1>0, <1>7, CountType DEF Rollback, Begin, Files
  <2> QED
    BY <1>0, <1>7, <2>2, <2>3 DEF Files, Rollback
<1>8. ASSUME NEW t \in Tasks, RecordRollback(t) PROVE Files' /\ Stages'
  BY <1>0, <1>8, StageMoves DEF Files, RecordRollback
<1>9. ASSUME NEW t \in Tasks, AnnounceRollback(t) \/ RollbackFails(t)
      PROVE  Files' /\ Stages'
  <2>1. st[t] # "idle"
    BY <1>9 DEF AnnounceRollback, RollbackFails, Go, End
  <2>2. cand[t] \in Policy
    BY <1>0, <2>1, CandType
  <2>3. Stages'
    BY <1>0, <1>9, StageMoves DEF AnnounceRollback, RollbackFails
  <2>4. log' \in Seq(Policy)
    BY <1>0, <1>9, <2>2, RecordType DEF Files, AnnounceRollback, RollbackFails
  <2> QED
    BY <1>0, <1>9, <2>3, <2>4 DEF Files, AnnounceRollback, RollbackFails
<1>10. ASSUME Edit PROVE Files' /\ Stages'
  BY <1>0, <1>10, CountType DEF Files, Stages, Edit
<1>11. ASSUME Crash PROVE Files' /\ Stages'
  <2>1. ASSUME NEW t \in Tasks, st[t] = "record", TearSnapshot(cand[t])
        PROVE  snapshots' \in [Versions -> Contents \union {None, Torn}]
    <3>1. cand[t] \in Policy
      BY <1>0, <2>1, CandType
    <3> QED
      BY <1>0, <2>1, <3>1, RecordType
  <2>2. snapshots' \in [Versions -> Contents \union {None, Torn}]
    BY <1>0, <1>11, <2>1 DEF Files, Crash
  <2> QED
    BY <1>0, <1>11, <2>2, CountType DEF Files, Stages, Crash
<1>12. ASSUME Boot \/ BootDies PROVE Files' /\ Stages'
  <2>1. file \in Policy
    BY <1>0, <1>12 DEF Files, Boot, BootDies
  <2>2. UNCHANGED <<st, cand>>
    BY <1>12 DEF Boot, BootDies
  <2>3. /\ rows' \in [Versions -> Contents \union {None}]
        /\ snapshots' \in [Versions -> Contents \union {None, Torn}]
        /\ log' \in Seq(Policy)
    BY <1>0, <1>12, <2>1, RecordType DEF Files, Boot, BootDies
  <2>4. /\ engine' \in Policy \union {None} /\ ran' \in SUBSET Policy
        /\ steps' \in 0..MaxSteps /\ blurred' \in BOOLEAN /\ file' = file
    BY <1>0, <1>12, <2>1, CountType DEF Files, Boot, BootDies, Activate
  <2> QED
    BY <1>0, <2>1, <2>2, <2>3, <2>4 DEF Files, Stages
<1>13. ASSUME UNCHANGED vars PROVE Files' /\ Stages'
  BY <1>0, <1>13 DEF Files, Stages, vars
<1>14. Files' /\ Stages'
  BY <1>1, <1>2, <1>3, <1>4, <1>5, <1>6, <1>7, <1>8, <1>9, <1>10, <1>11, <1>12, <1>13
     DEF Next
<1> QED
  BY <1>14, TypeParts DEF TypeOK, Files, Stages

(* The activation's state keeps its types.                                  *)
THEOREM ActivationTypeCorrect == Spec => []TypeOK
<1>1. Init => TypeOK
  <2> SUFFICES ASSUME Init PROVE TypeOK
    OBVIOUS
  <2>1. steps \in 0..MaxSteps
    BY ActivationAssumption DEF Init
  <2>2. file \in Policy \union {None} /\ engine \in Policy \union {None}
    BY DEF Init
  <2>3. rows \in [Versions -> Contents \union {None}]
    BY DEF Init
  <2>4. snapshots \in [Versions -> Contents \union {None, Torn}]
    BY DEF Init
  <2>5. log \in Seq(Policy)
    BY DEF Init
  <2>6. ran \in SUBSET Policy /\ blurred \in BOOLEAN
    BY DEF Init
  <2>7. Files
    BY <2>1, <2>2, <2>3, <2>4, <2>5, <2>6 DEF Files
  <2>8. Stages
    BY DEF Init, Stages
  <2> QED
    BY <2>7, <2>8, TypeParts
<1>2. TypeOK /\ [Next]_vars => TypeOK'
  BY TypeStep
<1> QED
  BY <1>1, <1>2, PTL DEF Spec

-----------------------------------------------------------------------------
(* What a task has found or written, and still relies on, whatever the      *)
(* others do: the snapshot before it commits, the row from there on.        *)
Backed(t) ==
  /\ st[t] = "commit" => snapshots[cand[t].version] = cand[t].content
  /\ st[t] \in {"swap", "audit", "announce", "activate"} =>
       rows[cand[t].version] = cand[t].content

RanRecorded == \A p \in ran : rows[p.version] = p.content

RecordsInv ==
  /\ RecordedCanRollBack
  /\ \A t \in Tasks : Backed(t)
  /\ RanRecorded

(* Rows and snapshots are only ever added.                                  *)
Grows ==
  \A v \in Versions :
    /\ rows[v] # None => rows'[v] = rows[v]
    /\ snapshots[v] # None => snapshots'[v] = snapshots[v]

LEMMA Untouched ==
  ASSUME RecordsInv, UNCHANGED <<rows, snapshots>>
  PROVE  Grows /\ RecordedCanRollBack'
BY DEF RecordsInv, Grows, RecordedCanRollBack

(* A snapshot for a version that has no row, and the row after it.          *)
LEMMA Written ==
  ASSUME TypeOK, RecordsInv, NEW p \in Policy,
         \/ Recordable(p) /\ WriteSnapshot(p) /\ (Record(p) \/ UNCHANGED rows)
         \/ /\ rows[p.version] = None /\ snapshots[p.version] = p.content
            /\ Record(p) /\ UNCHANGED snapshots
  PROVE  /\ Grows /\ RecordedCanRollBack'
         /\ WriteSnapshot(p) => snapshots'[p.version] = p.content
         /\ Record(p) => rows'[p.version] = p.content
<1>1. p.version \in Versions /\ p.content \in Contents /\ p.content # None
  BY ActivationAssumption DEF Policy
<1>2. /\ rows \in [Versions -> Contents \union {None}]
      /\ snapshots \in [Versions -> Contents \union {None, Torn}]
  BY DEF TypeOK
<1>3. CASE Recordable(p) /\ WriteSnapshot(p)
  <2>1. rows[p.version] = None /\ snapshots[p.version] \in {None, p.content}
    BY <1>3 DEF Recordable
  <2>2. snapshots' = [snapshots EXCEPT ![p.version] = p.content]
    BY <1>1, <1>2, <1>3, <2>1 DEF WriteSnapshot
  <2>3. rows' = [rows EXCEPT ![p.version] = p.content] \/ rows' = rows
    BY <1>3, <2>1, <1>1 DEF Record
  <2> QED
    BY <1>1, <1>2, <2>1, <2>2, <2>3 DEF RecordsInv, Grows, RecordedCanRollBack, Record
<1>4. CASE /\ rows[p.version] = None /\ snapshots[p.version] = p.content
           /\ Record(p) /\ UNCHANGED snapshots
  BY <1>1, <1>2, <1>4 DEF RecordsInv, Grows, RecordedCanRollBack, Record
<1> QED
  BY <1>3, <1>4

(* A torn snapshot stands where there was none, for a version with no row.  *)
LEMMA TornOff ==
  ASSUME TypeOK, RecordsInv, NEW p \in Policy, TearSnapshot(p), UNCHANGED rows
  PROVE  Grows /\ RecordedCanRollBack'
<1>1. p.version \in Versions
  BY DEF Policy
<1>2. rows[p.version] = None /\ snapshots[p.version] = None
  BY DEF TearSnapshot, Recordable
<1>3. \A v \in Versions : v # p.version => snapshots'[v] = snapshots[v]
  BY <1>1 DEF TearSnapshot, TypeOK
<1> QED
  BY <1>1, <1>2, <1>3 DEF RecordsInv, Grows, RecordedCanRollBack

(* Every step only adds to the records, and keeps them fit for a rollback.  *)
LEMMA GrowStep ==
  ASSUME TypeOK, RecordsInv, [Next]_vars
  PROVE  Grows /\ RecordedCanRollBack'
<1>0. Files /\ Stages
  BY TypeParts
<1>1. ASSUME NEW t \in Tasks, RecordReload(t) PROVE Grows /\ RecordedCanRollBack'
  <2>1. cand[t] \in Policy
    BY <1>0, <1>1, CandType DEF RecordReload, Go
  <2>2. CASE Recordable(cand[t]) /\ WriteSnapshot(cand[t]) /\ UNCHANGED rows
    BY <2>1, <2>2, Written
  <2>3. CASE UNCHANGED <<rows, snapshots>>
    BY <2>3, Untouched
  <2> QED
    BY <1>1, <2>2, <2>3 DEF RecordReload
<1>2. ASSUME NEW t \in Tasks, CommitReload(t) \/ CommitReloadFails(t)
      PROVE  Grows /\ RecordedCanRollBack'
  <2>1. st[t] = "commit"
    BY <1>2 DEF CommitReload, CommitReloadFails, Go, End
  <2>2. cand[t] \in Policy /\ snapshots[cand[t].version] = cand[t].content
    BY <1>0, <2>1, CandType DEF RecordsInv, Backed
  <2>3. CASE /\ rows[cand[t].version] = None /\ Record(cand[t])
             /\ UNCHANGED snapshots
    BY <2>2, <2>3, Written
  <2>4. CASE UNCHANGED <<rows, snapshots>>
    BY <2>4, Untouched
  <2> QED
    BY <1>2, <2>3, <2>4 DEF CommitReload, CommitReloadFails
<1>3. ASSUME Boot \/ BootDies PROVE Grows /\ RecordedCanRollBack'
  <2>1. file \in Policy
    BY <1>0, <1>3 DEF Files, Boot, BootDies
  <2>2. CASE /\ Recordable(file) /\ WriteSnapshot(file)
             /\ Record(file) \/ UNCHANGED rows
    BY <2>1, <2>2, Written
  <2>3. CASE UNCHANGED <<rows, snapshots>>
    BY <2>3, Untouched
  <2>4. CASE TearSnapshot(file) /\ UNCHANGED rows
    BY <2>1, <2>4, TornOff
  <2> QED
    BY <1>3, <2>2, <2>3, <2>4 DEF Boot, BootDies
<1>5. ASSUME NEW t \in Tasks, st[t] = "record", TearSnapshot(cand[t]), UNCHANGED rows
      PROVE  Grows /\ RecordedCanRollBack'
  <2>1. cand[t] \in Policy
    BY <1>0, <1>5, CandType
  <2> QED
    BY <1>5, <2>1, TornOff
<1>6. ASSUME NEW t \in Tasks, RejectReload(t) PROVE Grows /\ RecordedCanRollBack'
  BY <1>5, <1>6, Untouched DEF RejectReload, End, Go
<1>7. ASSUME Crash PROVE Grows /\ RecordedCanRollBack'
  BY <1>5, <1>7, Untouched DEF Crash
<1>4. ASSUME UNCHANGED <<rows, snapshots>> PROVE Grows /\ RecordedCanRollBack'
  BY <1>4, Untouched
<1> QED
  BY <1>1, <1>2, <1>3, <1>4, <1>6, <1>7
     DEF Next, vars, Reload, SwapReload, AuditReload, Rollback,
         RecordRollback, AnnounceRollback, RollbackFails, SwapRollback, Edit

(* A task that does not move keeps what backs it.                           *)
LEMMA StillBacked ==
  ASSUME TypeOK, RecordsInv, Grows, NEW t \in Tasks,
         st'[t] = st[t], cand'[t] = cand[t]
  PROVE  Backed(t)'
<1>1. CASE st[t] = "idle"
  BY <1>1 DEF Backed
<1>2. CASE st[t] # "idle"
  <2>1. cand[t] \in Policy
    BY <1>2 DEF TypeOK
  <2>2. cand[t].version \in Versions /\ cand[t].content # None
    BY <2>1, ActivationAssumption DEF Policy
  <2> QED
    BY <2>2 DEF RecordsInv, Backed, Grows
<1> QED
  BY <1>1, <1>2

(* One task moves from a to b, its policy stays.                            *)
LEMMA OneBacked ==
  ASSUME TypeOK, RecordsInv, Grows, NEW t \in Tasks,
         NEW b, st' = [st EXCEPT ![t] = b],
         NEW c, cand' = [cand EXCEPT ![t] = c], b # "commit",
         b \in {"swap", "audit", "announce", "activate"} =>
           c = cand[t] /\ rows'[c.version] = c.content
  PROVE  \A u \in Tasks : Backed(u)'
<1> SUFFICES ASSUME NEW u \in Tasks PROVE Backed(u)'
  OBVIOUS
<1>1. CASE u = t
  BY <1>1 DEF TypeOK, Backed
<1>2. CASE u # t
  <2>1. st'[u] = st[u] /\ cand'[u] = cand[u]
    BY <1>2 DEF TypeOK
  <2> QED
    BY <2>1, StillBacked
<1> QED
  BY <1>1, <1>2

LEMMA BackedStep ==
  ASSUME TypeOK, RecordsInv, [Next]_vars
  PROVE  \A u \in Tasks : Backed(u)'
<1>0. Files /\ Stages /\ Grows
  BY TypeParts, GrowStep
<1>1. ASSUME NEW t \in Tasks,
             \/ Reload(t) \/ RejectReload(t) \/ CommitReloadFails(t) \/ AuditReload(t)
             \/ RollbackFails(t) \/ SwapRollback(t)
             \/ \E v \in Versions : Rollback(t, v)
      PROVE  \A u \in Tasks : Backed(u)'
  <2> DEFINE Elsewhere ==
        \E b \in {"idle", "record", "rollback"}, c \in Policy \union {None} :
          /\ st' = [st EXCEPT ![t] = b]
          /\ cand' = [cand EXCEPT ![t] = c]
  <2>1. Elsewhere
    <3>1. CASE Reload(t)
      BY <1>0, <3>1 DEF Reload, Begin, Files
    <3>2. ASSUME NEW v \in Versions, Rollback(t, v) PROVE Elsewhere
      <4>1. [version |-> v, content |-> snapshots[v]] \in Policy
        BY <1>0, <3>2 DEF Files, Rollback, Policy
      <4> QED
        BY <3>2, <4>1 DEF Rollback, Begin
    <3>3. CASE End(t, "record") \/ End(t, "commit") \/ End(t, "audit")
               \/ End(t, "rollback") \/ End(t, "announce") \/ End(t, "activate")
      BY <3>3 DEF End, Go
    <3> QED
      BY <1>1, <3>1, <3>2, <3>3
         DEF RejectReload, CommitReloadFails, AuditReload, RollbackFails, SwapRollback
  <2> QED
    BY <1>0, <2>1, OneBacked
<1>2. ASSUME NEW t \in Tasks, RecordReload(t) PROVE \A u \in Tasks : Backed(u)'
  <2>0. cand[t] \in Policy
    BY <1>0, <1>2, CandType DEF RecordReload, Go
  <2>1. CASE /\ Go(t, "record", "commit") /\ Recordable(cand[t])
             /\ WriteSnapshot(cand[t]) /\ UNCHANGED <<rows, cand>>
    <3>1. snapshots'[cand[t].version] = cand[t].content
      BY <2>0, <2>1, Written
    <3> SUFFICES ASSUME NEW u \in Tasks PROVE Backed(u)'
      OBVIOUS
    <3>2. CASE u = t
      BY <2>1, <3>1, <3>2 DEF TypeOK, Backed, Go
    <3>3. CASE u # t
      <4>1. st'[u] = st[u] /\ cand'[u] = cand[u]
        BY <2>1, <3>3 DEF TypeOK, Go
      <4> QED
        BY <1>0, <4>1, StillBacked
    <3> QED
      BY <3>2, <3>3
  <2>2. CASE /\ Go(t, "record", "swap") /\ Recorded(cand[t])
             /\ UNCHANGED <<rows, snapshots, cand>>
    <3>1. /\ \E b \in {"swap"} : st' = [st EXCEPT ![t] = b]
          /\ cand' = [cand EXCEPT ![t] = cand[t]]
          /\ rows'[cand[t].version] = cand[t].content
      BY <2>2 DEF Go, Recorded, TypeOK
    <3> QED
      BY <1>0, <3>1, OneBacked
  <2> QED
    BY <1>2, <2>1, <2>2 DEF RecordReload
<1>3. ASSUME NEW t \in Tasks,
             CommitReload(t) \/ SwapReload(t) \/ RecordRollback(t) \/ AnnounceRollback(t)
      PROVE  \A u \in Tasks : Backed(u)'
  <2>0. cand[t] \in Policy /\ cand' = [cand EXCEPT ![t] = cand[t]]
    BY <1>0, <1>3, CandType
       DEF CommitReload, SwapReload, RecordRollback, AnnounceRollback, Go, TypeOK
  <2>1. \E b \in {"swap", "audit", "announce", "activate"} :
          /\ st' = [st EXCEPT ![t] = b]
          /\ rows'[cand[t].version] = cand[t].content
    <3>1. CASE CommitReload(t)
      <4>1. snapshots[cand[t].version] = cand[t].content
        BY <3>1 DEF RecordsInv, Backed, CommitReload, Go
      <4>2. rows'[cand[t].version] = cand[t].content
        BY <2>0, <3>1, <4>1, Written DEF CommitReload
      <4> QED
        BY <3>1, <4>2 DEF CommitReload, Go
    <3>2. CASE SwapReload(t) \/ AnnounceRollback(t)
      BY <3>2 DEF SwapReload, AnnounceRollback, Go, RecordsInv, Backed
    <3>3. CASE RecordRollback(t)
      BY <3>3 DEF RecordRollback, Recorded, Go
    <3> QED
      BY <1>3, <3>1, <3>2, <3>3
  <2> QED
    BY <1>0, <2>0, <2>1, OneBacked
<1>4. ASSUME Crash PROVE \A u \in Tasks : Backed(u)'
  BY <1>4 DEF Crash, Backed
<1>5. ASSUME UNCHANGED <<st, cand>> PROVE \A u \in Tasks : Backed(u)'
  BY <1>0, <1>5, StillBacked
<1> QED
  BY <1>1, <1>2, <1>3, <1>4, <1>5 DEF Next, vars, Edit, Boot, BootDies

LEMMA RanStep ==
  ASSUME TypeOK, RecordsInv, [Next]_vars
  PROVE  RanRecorded'
<1>0. Files /\ Stages /\ Grows
  BY TypeParts, GrowStep
<1>1. ASSUME NEW p \in Policy, ran' = ran \union {p}, rows'[p.version] = p.content
      PROVE  RanRecorded'
  <2> SUFFICES ASSUME NEW q \in ran PROVE rows'[q.version] = q.content
    BY <1>1 DEF RanRecorded
  <2>1. q.version \in Versions /\ q.content # None
    BY <1>0, ActivationAssumption DEF Files, Policy
  <2> QED
    BY <1>0, <2>1 DEF RecordsInv, RanRecorded, Grows
<1>2. ASSUME UNCHANGED ran PROVE RanRecorded'
  <2> SUFFICES ASSUME NEW q \in ran PROVE rows'[q.version] = q.content
    BY <1>2 DEF RanRecorded
  <2>1. q.version \in Versions /\ q.content # None
    BY <1>0, ActivationAssumption DEF Files, Policy
  <2> QED
    BY <1>0, <2>1 DEF RecordsInv, RanRecorded, Grows
<1>3. ASSUME NEW t \in Tasks, SwapReload(t) \/ SwapRollback(t) PROVE RanRecorded'
  <2>1. cand[t] \in Policy
    BY <1>0, <1>3, CandType DEF SwapReload, SwapRollback, Go, End
  <2>2. ran' = ran \union {cand[t]} /\ rows'[cand[t].version] = cand[t].content
    BY <1>3 DEF SwapReload, SwapRollback, Go, End, Activate, RecordsInv, Backed
  <2> QED
    BY <1>1, <2>1, <2>2
<1>4. ASSUME Boot PROVE RanRecorded'
  <2>1. file \in Policy
    BY <1>0, <1>4 DEF Files, Boot
  <2>2. rows'[file.version] = file.content
    <3>1. CASE Recorded(file) /\ UNCHANGED rows
      BY <3>1 DEF Recorded
    <3>2. CASE Recordable(file) /\ WriteSnapshot(file) /\ Record(file)
      BY <2>1, <3>2, Written
    <3> QED
      BY <1>4, <3>1, <3>2 DEF Boot
  <2> QED
    BY <1>1, <1>4, <2>1, <2>2 DEF Boot, Activate
<1> QED
  BY <1>2, <1>3, <1>4
     DEF Next, vars, Reload, RecordReload, RejectReload, CommitReload, CommitReloadFails,
         AuditReload, Rollback, RecordRollback, AnnounceRollback, RollbackFails, Edit,
         Crash, BootDies

LEMMA RecordsHold == Spec => [](TypeOK /\ RecordsInv)
<1>1. Init => RecordsInv
  BY DEF Init, RecordsInv, RecordedCanRollBack, Backed, RanRecorded
<1>2. TypeOK /\ RecordsInv /\ [Next]_vars => RecordsInv'
  BY GrowStep, BackedStep, RanStep DEF RecordsInv
<1> QED
  BY <1>1, <1>2, ActivationTypeCorrect, PTL DEF Spec

(* A recorded version has the snapshot a rollback to it needs.              *)
THEOREM RecordedVersionsCanRollBack == Spec => []RecordedCanRollBack
<1>1. RecordsInv => RecordedCanRollBack
  BY DEF RecordsInv
<1> QED
  BY <1>1, RecordsHold, PTL

(* Every policy that was in force has its row and its snapshot, with its    *)
(* content.                                                                 *)
THEOREM HistoryIsResolvable == Spec => []HistoryResolvable
<1>1. TypeOK /\ RecordsInv => HistoryResolvable
  <2> SUFFICES ASSUME TypeOK, RecordsInv, NEW p \in ran
               PROVE  rows[p.version] = p.content /\ snapshots[p.version] = p.content
    BY DEF HistoryResolvable
  <2>1. p.version \in Versions /\ p.content # None
    BY ActivationAssumption DEF TypeOK, Policy
  <2> QED
    BY <2>1 DEF RecordsInv, RanRecorded, RecordedCanRollBack
<1> QED
  BY <1>1, RecordsHold, PTL

(* No step rewrites a recorded version or a written snapshot.               *)
THEOREM RecordsAreAppendOnly == Spec => AppendOnly
<1>1. TypeOK /\ RecordsInv /\ [Next]_vars =>
        [\A v \in Versions :
           /\ rows[v] # None => rows'[v] = rows[v]
           /\ snapshots[v] # None => snapshots'[v] = snapshots[v]]_vars
  BY GrowStep DEF Grows
<1> QED
  BY <1>1, RecordsHold, PTL DEF Spec, AppendOnly

-----------------------------------------------------------------------------
(* While tasks do not overlap, at most one is under way, and what the last  *)
(* row says of the engine follows from where that one is.                   *)
Alone == \A t, u \in Tasks : st[t] # "idle" /\ st[u] # "idle" => t = u

RowKnown ==
  /\ \A t \in Tasks : st[t] = "audit" => cand[t] = engine
  /\ \A t \in Tasks : st[t] = "activate" => cand[t] = Last(log)
  /\ (\A t \in Tasks : st[t] \notin {"audit", "activate"}) => Last(log) = engine

TrailInv ==
  /\ engine = None => \A t \in Tasks : st[t] = "idle"
  /\ engine # None /\ ~blurred => Alone /\ RowKnown

LEMMA LastOfAppend ==
  ASSUME log \in Seq(Policy), NEW p \in Policy
  PROVE  Last(Append(log, p)) = p
BY DEF Last

(* A task is under way: the gateway is up.                                  *)
LEMMA BusyIsUp ==
  ASSUME TypeOK, TrailInv, NEW t \in Tasks, st[t] # "idle"
  PROVE  engine # None
BY DEF TrailInv

LEMMA TrailStep ==
  ASSUME TypeOK, TrailInv, [Next]_vars
  PROVE  TrailInv'
<1>0. Files /\ Stages
  BY TypeParts
<1>t. /\ st \in [Tasks -> {"idle", "record", "commit", "swap", "audit",
                           "rollback", "announce", "activate"}]
      /\ cand \in [Tasks -> Policy \union {None}]
  BY <1>0 DEF Stages
<1>1. ASSUME NEW t \in Tasks, Reload(t) \/ \E v \in Versions : Rollback(t, v)
      PROVE  TrailInv'
  <2>1. PICK b, p : b \in {"record", "rollback"} /\ Begin(t, b, p)
    <3>1. CASE Reload(t)
      BY <3>1 DEF Reload
    <3>2. CASE \E v \in Versions : Rollback(t, v)
      BY <3>2 DEF Rollback
    <3> QED
      BY <1>1, <3>1, <3>2
  <2>2. UNCHANGED <<engine, log>> /\ engine # None
    BY <1>1 DEF Reload, Rollback, Begin
  <2>3. CASE Busy # {} \/ blurred
    BY <2>1, <2>2, <2>3 DEF TrailInv, Begin
  <2>4. CASE Busy = {} /\ ~blurred
    <3>1. \A u \in Tasks : st[u] = "idle"
      BY <2>4 DEF Busy
    <3>2. Last(log) = engine
      BY <2>2, <2>4, <3>1 DEF TrailInv, RowKnown
    <3>3. /\ \A u \in Tasks : u # t => st'[u] = "idle"
          /\ st'[t] \in {"record", "rollback"}
      BY <1>t, <2>1, <3>1 DEF Begin
    <3> QED
      BY <2>2, <3>2, <3>3 DEF TrailInv, Alone, RowKnown
  <2> QED
    BY <2>3, <2>4
<1>2. ASSUME NEW t \in Tasks, NEW a \in {"record", "commit", "rollback", "announce"},
             NEW b \in {"idle", "commit", "swap", "announce"},
             Go(t, a, b), UNCHANGED <<engine, log, blurred>>,
             \A u \in Tasks : u # t => cand'[u] = cand[u]
      PROVE  TrailInv'
  <2>1. engine # None
    BY <1>2, BusyIsUp DEF Go
  <2>2. CASE ~blurred
    <3>1. Alone /\ RowKnown
      BY <2>1, <2>2 DEF TrailInv
    <3>2. \A u \in Tasks : u # t => st'[u] = "idle"
      BY <1>t, <1>2, <3>1 DEF Go, Alone
    <3>3. st'[t] = b /\ \A u \in Tasks : st[u] \notin {"audit", "activate"}
      BY <1>t, <1>2, <3>1 DEF Go, Alone
    <3>4. Last(log) = engine
      BY <3>1, <3>3 DEF RowKnown
    <3> QED
      BY <1>2, <2>1, <3>2, <3>3, <3>4 DEF TrailInv, Alone, RowKnown
  <2> QED
    BY <1>2, <2>1, <2>2 DEF TrailInv
<1>3. ASSUME NEW t \in Tasks, SwapReload(t) PROVE TrailInv'
  <2>1. engine # None /\ cand[t] \in Policy /\ cand[t] # None
    BY <1>0, <1>3, BusyIsUp, CandType, NoPolicyAssumption DEF SwapReload, Go
  <2>2. CASE ~blurred
    <3>1. \A u \in Tasks : u # t => st'[u] = "idle"
      BY <1>t, <1>3, <2>1, <2>2 DEF TrailInv, Alone, SwapReload, Go
    <3>2. st'[t] = "audit" /\ cand'[t] = engine'
      BY <1>t, <1>3 DEF SwapReload, Go, Activate
    <3> QED
      BY <1>3, <2>1, <3>1, <3>2 DEF TrailInv, Alone, RowKnown, SwapReload, Activate
  <2> QED
    BY <1>3, <2>1, <2>2 DEF TrailInv, SwapReload, Activate
<1>4. ASSUME NEW t \in Tasks, AuditReload(t) PROVE TrailInv'
  <2>1. engine # None /\ cand[t] \in Policy
    BY <1>0, <1>4, BusyIsUp, CandType DEF AuditReload, End, Go
  <2>2. CASE ~blurred'
    <3>1. ~blurred /\ log' = Append(log, cand[t])
      <4>1. blurred' # TRUE
        BY <2>2
      <4>2. log' = Append(log, cand[t]) /\ blurred' = blurred
        BY <1>4, <4>1 DEF AuditReload
      <4> QED
        BY <2>2, <4>2
    <3>2. cand[t] = engine
      BY <1>4, <2>1, <3>1 DEF TrailInv, RowKnown, AuditReload, End, Go
    <3>3. Last(log') = engine
      BY <1>0, <2>1, <3>1, <3>2, LastOfAppend DEF Files
    <3>4. \A u \in Tasks : st'[u] = "idle"
      BY <1>t, <1>4, <2>1, <3>1 DEF TrailInv, Alone, AuditReload, End, Go
    <3> QED
      BY <1>4, <2>1, <3>3, <3>4 DEF TrailInv, Alone, RowKnown, AuditReload
  <2> QED
    BY <1>4, <2>1, <2>2 DEF TrailInv, AuditReload
<1>5. ASSUME NEW t \in Tasks, AnnounceRollback(t) PROVE TrailInv'
  <2>1. engine # None /\ cand[t] \in Policy
    BY <1>0, <1>5, BusyIsUp, CandType DEF AnnounceRollback, Go
  <2>2. CASE ~blurred
    <3>1. \A u \in Tasks : u # t => st'[u] = "idle"
      BY <1>t, <1>5, <2>1, <2>2 DEF TrailInv, Alone, AnnounceRollback, Go
    <3>2. st'[t] = "activate" /\ cand'[t] = Last(log')
      BY <1>0, <1>t, <1>5, <2>1, LastOfAppend DEF AnnounceRollback, Go, Files
    <3> QED
      BY <1>5, <2>1, <3>1, <3>2 DEF TrailInv, Alone, RowKnown, AnnounceRollback
  <2> QED
    BY <1>5, <2>1, <2>2 DEF TrailInv, AnnounceRollback
<1>6. ASSUME NEW t \in Tasks, SwapRollback(t) PROVE TrailInv'
  <2>1. engine # None /\ cand[t] \in Policy /\ cand[t] # None
    BY <1>0, <1>6, BusyIsUp, CandType, NoPolicyAssumption DEF SwapRollback, End, Go
  <2>2. CASE ~blurred
    <3>1. Last(log) = cand[t]
      BY <1>6, <2>1, <2>2 DEF TrailInv, RowKnown, SwapRollback, End, Go
    <3>2. \A u \in Tasks : st'[u] = "idle"
      BY <1>t, <1>6, <2>1, <2>2 DEF TrailInv, Alone, SwapRollback, End, Go
    <3> QED
      BY <1>6, <2>1, <3>1, <3>2 DEF TrailInv, Alone, RowKnown, SwapRollback, Activate
  <2> QED
    BY <1>6, <2>1, <2>2 DEF TrailInv, SwapRollback, Activate
<1>7. ASSUME NEW t \in Tasks,
             \/ RecordReload(t) \/ RejectReload(t) \/ CommitReload(t)
             \/ CommitReloadFails(t) \/ RecordRollback(t) \/ RollbackFails(t)
      PROVE  TrailInv'
  <2>1. CASE \E a \in {"record", "commit", "rollback", "announce"},
               b \in {"idle", "commit", "swap", "announce"} :
               /\ Go(t, a, b) /\ UNCHANGED <<engine, log, blurred>>
               /\ \A u \in Tasks : u # t => cand'[u] = cand[u]
    BY <1>2, <2>1
  <2>2. CASE Go(t, "announce", "idle") /\ blurred' = TRUE /\ UNCHANGED engine
    BY <2>2, BusyIsUp DEF TrailInv, Go
  <2> QED
    BY <1>t, <1>7, <2>1, <2>2
       DEF RecordReload, RejectReload, CommitReload, CommitReloadFails,
           RecordRollback, RollbackFails, End
<1>8. ASSUME Crash PROVE TrailInv'
  BY <1>8 DEF Crash, TrailInv
<1>9. ASSUME Boot PROVE TrailInv'
  <2>1. file \in Policy /\ file # None
    BY <1>0, <1>9 DEF Files, Boot
  <2>2. \A u \in Tasks : st'[u] = "idle"
    BY <1>9 DEF Boot, TrailInv
  <2>3. Last(log') = engine'
    BY <1>0, <1>9, <2>1, LastOfAppend DEF Boot, Activate, Files
  <2> QED
    BY <1>9, <2>1, <2>2, <2>3 DEF TrailInv, Alone, RowKnown, Boot, Activate
<1>10. ASSUME UNCHANGED <<engine, st, cand, log, blurred>> PROVE TrailInv'
  BY <1>10 DEF TrailInv, Alone, RowKnown
<1> QED
  BY <1>1, <1>3, <1>4, <1>5, <1>6, <1>7, <1>8, <1>9, <1>10
     DEF Next, vars, Edit, BootDies

(* With no overlap and no failed audit write since the boot, the last       *)
(* POLICY_ACTIVATED row names the policy in force, but for the one task     *)
(* between its swap and its row.                                            *)
THEOREM TrailNamesTheEngine == Spec => []TrailNamesEngine
<1>1. Init => TrailInv
  BY DEF Init, TrailInv
<1>2. TypeOK /\ TrailInv /\ [Next]_vars => TrailInv'
  BY TrailStep
<1>3. TypeOK /\ TrailInv => TrailNamesEngine
  BY DEF TrailInv, RowKnown, TrailNamesEngine, Busy
<1> QED
  BY <1>1, <1>2, <1>3, ActivationTypeCorrect, PTL DEF Spec
=============================================================================
