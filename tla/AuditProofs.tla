---------------------------- MODULE AuditProofs ----------------------------
(***************************************************************************)
(* Proofs about AuditChain and AuditVerifier, for any set of calls, any    *)
(* number of gateway processes, verifiers, failures and damaged rows; some *)
(* theorems assume that all calls run in one process, and say so.          *)
(*                                                                         *)
(* The writers.  PublishedChained is not inductive.  What makes it so is   *)
(* the meaning of WATCH: a call whose key was not touched since it watched *)
(* still holds the hash of a row after which nothing was published.        *)
(*                                                                         *)
(* The verifiers.  Rows are damaged under writers and verifiers alike, so  *)
(* nothing can be said in terms of a row's present content.  The argument  *)
(* rests on what damage does not reach: the signatures, and prev_hash.     *)
(* Rows appear when they are committed, so the newest visible row may be   *)
(* older than the last one inserted; with one process the lock leaves only *)
(* the row being written in between.                                       *)
(***************************************************************************)
EXTENDS AuditVerifier, WellFoundedInduction, TLAPS

(* Row k is not older than any published row.                              *)
NoneAfter(k) == \A m \in published : m <= k

PointerIsNewest ==
  pointer # NoPointer =>
    \E k \in published : pointer = log[k].hash /\ NoneAfter(k)

ReadIsFresh ==
  \A e \in Events :
    pc[e] = "insert" /\ e \notin dirty =>
      \E k \in 0..Len(log) : prev[e] = HashAt(k) /\ NoneAfter(k)

(* The calls with a row in the log that the pointer does not name yet.     *)
HasRow == {"commit", "exec"}

RowExists == \A e \in Events : pc[e] \in HasRow => seq[e] \in 1..Len(log)

RowIsOwn ==
  \A e \in Events :
    pc[e] \in HasRow =>
      /\ seq[e] \in 1..Len(log)
      /\ log[seq[e]].event = e
      /\ log[seq[e]].hash = compute_hash(prev[e], e)

RowIsFresh ==
  \A e \in Events :
    pc[e] \in HasRow /\ e \notin dirty =>
      \E k \in 0..(seq[e] - 1) : log[seq[e]].prev = HashAt(k) /\ NoneAfter(k)

(* What is published was committed first.                                  *)
PublishedVisible ==
  /\ published \subseteq visible
  /\ \A e \in Events : pc[e] = "exec" => seq[e] \in visible

(* The inductive invariant, for any number of processes.                   *)
IInv ==
  /\ TypeOK
  /\ PointerIsNewest
  /\ ReadIsFresh
  /\ RowIsOwn
  /\ RowIsFresh
  /\ PublishedVisible
  /\ PublishedChained
  /\ AckedPublished

-----------------------------------------------------------------------------
(* What holds in addition when all calls run in one process: its lock      *)
(* leaves one call at work, and the row it inserts is the last.            *)
SingleProcess == \A d, e \in Events : Home[d] = Home[e]

LockHeld == \A e \in Events : pc[e] \in Working => lock[Home[e]] = e

ReadIsLast ==
  \A e \in Events :
    pc[e] = "insert" =>
      \/ prev[e] = HashAt(Latest(visible))
      \/ Latest(visible) \in visible \ published

RowIsLast == \A e \in Events : pc[e] \in HasRow => seq[e] = Len(log)

(* Row i continues the one before it, or that one is stranded.             *)
Continued(i) ==
  \/ log[i].prev = HashAt(RowBefore(i))
  \/ RowBefore(i) \in visible \ published

RowContinues == \A e \in Events : pc[e] = "commit" => Continued(seq[e])

(* The inductive invariant of one process.                                 *)
IInvSingle ==
  /\ LockHeld
  /\ ReadIsLast
  /\ RowIsLast
  /\ RowContinues
  /\ ForkOnlyAfterStranded

-----------------------------------------------------------------------------
(* Least and greatest elements.                                            *)

(* A set of numbers has a least element.                                   *)
LEMMA LeastOf ==
  ASSUME NEW S, S \subseteq Nat, S # {}
  PROVE  Least(S) \in S /\ \A j \in S : Least(S) <= j
<1> DEFINE R == OpToRel(<, Nat)
<1>1. IsWellFoundedOn(R, Nat)
  BY NatLessThanWellFounded
<1>2. \A i, j \in Nat : <<i, j>> \in R <=> i < j
  BY DEF OpToRel
<1> HIDE DEF R
<1>3. PICK i \in S : \A j \in S : <<j, i>> \notin R
  BY <1>1, WFMin
<1>4. ASSUME NEW j \in S PROVE i <= j
  <2>1. i \in Nat /\ j \in Nat
    OBVIOUS
  <2>2. ~(j < i)
    BY <1>2, <1>3, <2>1, Zenon
  <2> QED
    BY <2>1, <2>2
<1> QED
  BY <1>4 DEF Least

(* A bounded set of seqs has a latest: mirrored, it is the least.          *)
LEMMA LatestOf ==
  ASSUME NEW n \in Nat, NEW S, S \subseteq 1..n, S # {}
  PROVE  Latest(S) \in S /\ \A j \in S : j <= Latest(S)
<1> DEFINE T == {n - i : i \in S}
<1>0. \A i \in S : i \in 1..n /\ n - i \in Nat
  OBVIOUS
<1>1. T \subseteq Nat /\ T # {}
  BY <1>0, Zenon
<1> HIDE DEF T
<1>2. PICK t \in T : \A u \in T : t <= u
  BY <1>1, LeastOf
<1>3. PICK i \in S : t = n - i
  BY DEF T
<1>4. ASSUME NEW j \in S PROVE j <= i
  <2>1. n - j \in T
    BY DEF T
  <2>2. n - i <= n - j
    BY <1>2, <1>3, <2>1
  <2> QED
    BY <2>2
<1> QED
  BY <1>4 DEF Latest

(* An upper bound in the set is its greatest element.                      *)
LEMMA LatestIs ==
  ASSUME NEW S, S \subseteq Nat, NEW g \in S, \A j \in S : j <= g
  PROVE  Latest(S) = g
<1>1. Latest(S) \in S /\ g <= Latest(S)
  BY DEF Latest
<1>2. Latest(S) <= g /\ Latest(S) \in Nat /\ g \in Nat
  BY <1>1
<1> QED
  BY <1>1, <1>2

(* The latest of some rows is one of them, or 0.                           *)
LEMMA LatestType ==
  ASSUME NEW n \in Nat, NEW S, S \subseteq 1..n
  PROVE  /\ Latest(S) \in 0..n /\ Latest(S) \in S \union {0}
         /\ \A j \in S : j <= Latest(S)
         /\ Latest(S) = 0 => S = {}
<1>1. CASE S = {}
  BY <1>1 DEF Latest
<1>2. CASE S # {}
  <2>1. Latest(S) \in S /\ \A j \in S : j <= Latest(S)
    BY <1>2, LatestOf
  <2>2. Latest(S) \in 1..n
    BY <2>1
  <2> QED
    BY <2>1, <2>2
<1> QED
  BY <1>1, <1>2

(* The latest committed row, if any, is in the log.                        *)
LEMMA LatestVisible ==
  ASSUME TypeOK
  PROVE  /\ Len(log) \in Nat /\ visible \subseteq 1..Len(log)
         /\ Latest(visible) \in 0..Len(log)
         /\ Latest(visible) \in visible \union {0}
         /\ \A j \in visible : j <= Latest(visible)
         /\ Latest(visible) = 0 => visible = {}
<1>1. Len(log) \in Nat /\ visible \subseteq 1..Len(log)
  BY DEF TypeOK
<1> QED
  BY <1>1, LatestType

-----------------------------------------------------------------------------
(* Appending a row keeps the hashes a reader finds at the rows before it.  *)
LEMMA HashAtAppend ==
  ASSUME NEW r, log \in Seq(Row), log' = Append(log, r),
         NEW k \in 0..Len(log)
  PROVE  HashAt(k)' = HashAt(k)
  BY DEF HashAt

(* The hash at a seq of the log, or at 0, is a hash.                       *)
LEMMA HashAtType ==
  ASSUME TypeOK, NEW k \in 0..Len(log)
  PROVE  HashAt(k) \in Hash
<1>1. CASE k = 0
  BY <1>1 DEF HashAt, Hash, Genesis
<1>2. CASE k # 0
  <2>1. log[k] \in Row
    BY <1>2 DEF TypeOK
  <2> QED
    BY <1>2, <2>1 DEF HashAt, Row
<1> QED
  BY <1>1, <1>2

(* A row a call inserts is appended to the log, and its seq is the last.   *)
LEMMA InsertAppends ==
  ASSUME TypeOK, NEW e \in Events, Insert(e)
  PROVE  /\ log' \in Seq(Row)
         /\ Len(log') = Len(log) + 1
         /\ \A i \in 1..Len(log) : log'[i] = log[i]
         /\ \A k \in 0..Len(log) : HashAt(k)' = HashAt(k)
         /\ log'[Len(log) + 1].event = e
         /\ log'[Len(log) + 1].prev = prev[e]
         /\ log'[Len(log) + 1].hash = compute_hash(prev[e], e)
<1> DEFINE r == [event |-> e, prev |-> prev[e],
                 hash |-> compute_hash(prev[e], e)]
<1>1. r \in Row
  BY DEF TypeOK, Row, Hash, compute_hash
<1>2. log' = Append(log, r) /\ log \in Seq(Row)
  BY DEF Insert, TypeOK
<1> HIDE DEF r
<1>3. /\ log' \in Seq(Row)
      /\ Len(log') = Len(log) + 1
      /\ \A i \in 1..Len(log) : log'[i] = log[i]
      /\ log'[Len(log) + 1] = r
  BY <1>1, <1>2
<1>4. \A k \in 0..Len(log) : HashAt(k)' = HashAt(k)
  BY <1>2, HashAtAppend
<1> QED
  BY <1>3, <1>4 DEF r

(* The steps of a call and the failures keep every variable's type.        *)
LEMMA TypeStep ==
  ASSUME TypeOK, RowExists, [Next]_vars
  PROVE  TypeOK'
<1> USE ChainAssumption DEF TypeOK, Working, Labels, Goto
<1>1. ASSUME NEW e \in Events, Acquire(e) PROVE TypeOK'
  BY <1>1 DEF Acquire
<1>2. ASSUME NEW e \in Events, Watch(e) PROVE TypeOK'
  BY <1>2 DEF Watch
<1>3. ASSUME NEW e \in Events, GetPointer(e) PROVE TypeOK'
  <2>1. pc' \in [Events -> Labels] /\ prev' \in [Events -> Hash]
    <3>1. CASE pointer # NoPointer
      <4>1. pointer \in Hash /\ pc' = [pc EXCEPT ![e] = "insert"]
        BY <1>3, <3>1 DEF GetPointer
      <4>2. prev' = [prev EXCEPT ![e] = pointer]
        BY <1>3, <3>1 DEF GetPointer
      <4> QED
        BY <4>1, <4>2
    <3>2. CASE pointer = NoPointer
      BY <1>3, <3>2 DEF GetPointer
    <3> QED
      BY <3>1, <3>2
  <2>2. UNCHANGED <<log, visible, pointer, lock, seq, dirty, published, faults>>
    BY <1>3 DEF GetPointer
  <2> QED
    BY <2>1, <2>2
<1>4. ASSUME NEW e \in Events, LastRow(e) PROVE TypeOK'
  <2>1. Latest(visible) \in 0..Len(log)
    BY LatestVisible
  <2>2. HashAt(Latest(visible)) \in Hash
    BY <2>1, HashAtType
  <2> QED
    BY <1>4, <2>2 DEF LastRow
<1>5. ASSUME NEW e \in Events, Insert(e) PROVE TypeOK'
  <2>1. log' \in Seq(Row) /\ Len(log') = Len(log) + 1
    BY <1>5, InsertAppends
  <2>2. /\ seq' \in [Events -> 0..Len(log')]
        /\ published' \in SUBSET (1..Len(log'))
        /\ visible' \in SUBSET (1..Len(log'))
    BY <1>5, <2>1 DEF Insert
  <2> QED
    BY <1>5, <2>1, <2>2 DEF Insert
<1>14. ASSUME NEW e \in Events, pc[e] = "commit", Show(e)
       PROVE  visible' \in SUBSET (1..Len(log))
  BY <1>14 DEF RowExists, HasRow, Show
<1>15. ASSUME NEW e \in Events, Commit(e) PROVE TypeOK'
  BY <1>14, <1>15 DEF Commit
<1>6. ASSUME NEW e \in Events, pc[e] = "exec", SetPointer(e)
      PROVE  /\ pointer' \in Hash
             /\ published' \in SUBSET (1..Len(log))
             /\ dirty' \in SUBSET Events
  <2>1. seq[e] \in 1..Len(log)
    BY <1>6 DEF RowExists, HasRow
  <2>2. prev[e] \in Hash
    OBVIOUS
  <2>3. pointer' \in Hash
    BY <1>6, <2>2 DEF SetPointer, compute_hash, Hash
  <2>4. published' \in SUBSET (1..Len(log)) /\ dirty' \in SUBSET Events
    BY <1>6, <2>1 DEF SetPointer, Touch
  <2> QED
    BY <2>3, <2>4
<1>7. ASSUME NEW e \in Events, Exec(e) PROVE TypeOK'
  BY <1>6, <1>7 DEF Exec, Release
<1>8. ASSUME NEW e \in Events, ExecConflict(e) PROVE TypeOK'
  BY <1>8 DEF ExecConflict
<1>9. ASSUME NEW e \in Events, ConnectionLost(e) PROVE TypeOK'
  BY <1>9 DEF ConnectionLost, Fault
<1>10. ASSUME NEW e \in Events, ReplyLost(e) PROVE TypeOK'
  BY <1>6, <1>10 DEF ReplyLost, Fault
<1>11. ASSUME NEW e \in Events, Abort(e) PROVE TypeOK'
  <2>1. visible' \in SUBSET (1..Len(log))
    BY <1>11, <1>14 DEF Abort
  <2> QED
    BY <1>11, <2>1 DEF Abort, Fault, Release
<1>12. CASE LosePointer
  BY <1>12 DEF LosePointer, Fault
<1>13. CASE UNCHANGED vars
  BY <1>13 DEF vars
<1> QED
  BY <1>1, <1>2, <1>3, <1>4, <1>5, <1>7, <1>8, <1>9, <1>10, <1>11, <1>12,
     <1>13, <1>15 DEF Next, Step

(* A call about to move the pointer has a row of its own in the log.       *)
LEMMA RowIsOwnStep ==
  ASSUME TypeOK, RowIsOwn, [Next]_vars
  PROVE  RowIsOwn'
<1> USE DEF TypeOK, Working, Labels, Goto, RowIsOwn, HasRow
<1>1. ASSUME NEW e \in Events, Insert(e) PROVE RowIsOwn'
  <2> SUFFICES ASSUME NEW d \in Events, pc'[d] \in HasRow
               PROVE  /\ seq'[d] \in 1..Len(log')
                      /\ log'[seq'[d]].event = d
                      /\ log'[seq'[d]].hash = compute_hash(prev'[d], d)
    BY DEF compute_hash
  <2>1. /\ Len(log') = Len(log) + 1
        /\ \A i \in 1..Len(log) : log'[i] = log[i]
        /\ log'[Len(log) + 1].event = e
        /\ log'[Len(log) + 1].hash = compute_hash(prev[e], e)
    BY <1>1, InsertAppends
  <2>2. CASE d = e
    BY <1>1, <2>1, <2>2 DEF Insert
  <2>3. CASE d # e
    <3>1. pc[d] \in HasRow /\ seq'[d] = seq[d] /\ prev' = prev
      BY <1>1, <2>3 DEF Insert
    <3> QED
      BY <2>1, <3>1 DEF compute_hash
  <2> QED
    BY <2>2, <2>3
<1>2. ASSUME NEW e \in Events,
             UNCHANGED <<log, seq>>,
             \A d \in Events :
               pc'[d] \in HasRow => pc[d] \in HasRow /\ prev'[d] = prev[d]
      PROVE  RowIsOwn'
  BY <1>2 DEF compute_hash
<1>3. ASSUME NEW e \in Events, Acquire(e) \/ Watch(e) \/ LastRow(e) \/ GetPointer(e)
      PROVE  RowIsOwn'
  BY <1>2, <1>3 DEF Acquire, Watch, LastRow, GetPointer
<1>4. ASSUME NEW e \in Events, Commit(e) \/ Exec(e) \/ ExecConflict(e)
      PROVE  RowIsOwn'
  BY <1>2, <1>4 DEF Commit, Exec, ExecConflict
<1>5. ASSUME NEW e \in Events, ConnectionLost(e) \/ ReplyLost(e) \/ Abort(e)
      PROVE  RowIsOwn'
  BY <1>2, <1>5 DEF ConnectionLost, ReplyLost, Abort
<1>6. CASE LosePointer
  BY <1>6 DEF LosePointer
<1>7. CASE UNCHANGED vars
  BY <1>7 DEF vars
<1> QED
  BY <1>1, <1>3, <1>4, <1>5, <1>6, <1>7 DEF Next, Step

(* Type correctness of AuditWriter's state, in every reachable state.      *)
THEOREM TypeCorrect == Spec => []TypeOK
<1>1. Init => TypeOK /\ RowIsOwn
  BY ChainAssumption DEF Init, TypeOK, RowIsOwn, HasRow, Labels, Working, Hash, Genesis, Row
<1>2. TypeOK /\ RowIsOwn /\ [Next]_vars => (TypeOK /\ RowIsOwn)'
  BY TypeStep, RowIsOwnStep DEF RowIsOwn, RowExists
<1> QED
  BY <1>1, <1>2, PTL DEF Spec

-----------------------------------------------------------------------------
(* The four ways a step touches the log, the pointer and the published     *)
(* rows; every other step only moves program counters and reads.           *)

(* Inserting a row publishes nothing.                                      *)
LEMMA InsertKeeps ==
  ASSUME IInv, NEW e \in Events, Insert(e)
  PROVE  /\ PointerIsNewest'
         /\ ReadIsFresh'
         /\ RowIsFresh'
         /\ PublishedVisible'
         /\ PublishedChained'
         /\ AckedPublished'
<1> USE DEF IInv
<1>1. /\ Len(log') = Len(log) + 1
      /\ Len(log) \in Nat
      /\ \A i \in 1..Len(log) : log'[i] = log[i]
      /\ \A k \in 0..Len(log) : HashAt(k)' = HashAt(k)
      /\ log'[Len(log) + 1].event = e
      /\ log'[Len(log) + 1].prev = prev[e]
  BY InsertAppends DEF TypeOK
<1>2. /\ pc[e] = "insert"
      /\ pc' = [pc EXCEPT ![e] = "commit"]
      /\ seq' = [seq EXCEPT ![e] = Len(log) + 1]
      /\ UNCHANGED <<visible, pointer, prev, dirty, published>>
  BY DEF Insert, Goto
<1>3. published \subseteq 1..Len(log) /\ \A k : NoneAfter(k)' = NoneAfter(k)
  BY <1>2 DEF TypeOK, NoneAfter
<1>4. PointerIsNewest'
  BY <1>1, <1>2, <1>3 DEF PointerIsNewest
<1>5. ReadIsFresh'
  <2> SUFFICES ASSUME NEW d \in Events, pc'[d] = "insert", d \notin dirty'
               PROVE  \E k \in 0..Len(log') : prev'[d] = HashAt(k)' /\ NoneAfter(k)'
    BY DEF ReadIsFresh
  <2>1. pc[d] = "insert" /\ d \notin dirty
    BY <1>2 DEF TypeOK
  <2>2. PICK k \in 0..Len(log) : prev[d] = HashAt(k) /\ NoneAfter(k)
    BY <2>1 DEF ReadIsFresh
  <2>3. k \in 0..Len(log') /\ prev'[d] = HashAt(k)' /\ NoneAfter(k)'
    BY <1>1, <1>2, <1>3, <2>2
  <2> QED
    BY <2>3
<1>6. RowIsFresh'
  <2> SUFFICES ASSUME NEW d \in Events, pc'[d] \in HasRow, d \notin dirty'
               PROVE  \E k \in 0..(seq'[d] - 1) :
                        log'[seq'[d]].prev = HashAt(k)' /\ NoneAfter(k)'
    BY DEF RowIsFresh
  <2>1. CASE d = e
    <3>1. PICK k \in 0..Len(log) : prev[e] = HashAt(k) /\ NoneAfter(k)
      BY <1>2, <2>1 DEF ReadIsFresh
    <3>2. seq'[d] = Len(log) + 1
      BY <1>2, <2>1 DEF TypeOK
    <3>3. /\ k \in 0..(seq'[d] - 1)
          /\ log'[seq'[d]].prev = HashAt(k)'
          /\ NoneAfter(k)'
      BY <1>1, <1>3, <3>1, <3>2
    <3> QED
      BY <3>3
  <2>2. CASE d # e
    <3>1. pc[d] \in HasRow /\ seq'[d] = seq[d] /\ d \notin dirty
      BY <1>2, <2>2 DEF TypeOK
    <3>2. seq[d] \in 1..Len(log)
      BY <3>1 DEF RowIsOwn
    <3>3. PICK k \in 0..(seq[d] - 1) : log[seq[d]].prev = HashAt(k) /\ NoneAfter(k)
      BY <3>1 DEF RowIsFresh
    <3>4. k \in 0..(seq'[d] - 1) /\ log'[seq'[d]].prev = HashAt(k)' /\ NoneAfter(k)'
      BY <1>1, <1>3, <3>1, <3>2, <3>3
    <3> QED
      BY <3>4
  <2> QED
    BY <2>1, <2>2
<1>7. PublishedChained'
  <2> SUFFICES ASSUME NEW j \in published
               PROVE  \E k \in 0..(j - 1) :
                        /\ log'[j].prev = HashAt(k)'
                        /\ \A m \in published : ~(k < m /\ m < j)
    BY <1>2 DEF PublishedChained
  <2>1. PICK k \in 0..(j - 1) : /\ log[j].prev = HashAt(k)
                                /\ \A m \in published : ~(k < m /\ m < j)
    BY DEF PublishedChained
  <2>2. j \in 1..Len(log) /\ k \in 0..Len(log)
    BY <1>1, <1>3
  <2> QED
    BY <1>1, <2>1, <2>2
<1>8. AckedPublished'
  BY <1>1, <1>2, <1>3 DEF AckedPublished, TypeOK
<1>9. PublishedVisible'
  BY <1>2 DEF PublishedVisible, TypeOK
<1> QED
  BY <1>4, <1>5, <1>6, <1>7, <1>8, <1>9

(* Moving the pointer to a call's own row, with its key untouched since it *)
(* watched: the row becomes the newest published one.                      *)
LEMMA PublishKeeps ==
  ASSUME IInv, NEW e \in Events, pc[e] = "exec", SetPointer(e),
         UNCHANGED <<log, visible, prev, seq>>,
         NEW to \in {"acked", "watch"}, pc' = [pc EXCEPT ![e] = to]
  PROVE  /\ PointerIsNewest'
         /\ ReadIsFresh'
         /\ RowIsFresh'
         /\ PublishedVisible'
         /\ PublishedChained'
         /\ AckedPublished'
<1> USE DEF IInv
<1> DEFINE s == seq[e]
<1>1. /\ s \in 1..Len(log) /\ log[s].event = e /\ Len(log) \in Nat
      /\ log[s].hash = compute_hash(prev[e], e)
  BY DEF RowIsOwn, HasRow, TypeOK
<1>2. PICK k \in 0..(s - 1) : log[s].prev = HashAt(k) /\ NoneAfter(k)
  BY DEF RowIsFresh, HasRow, SetPointer
<1>3. /\ pointer' = log[s].hash
      /\ published' = published \union {s}
      /\ published \subseteq 1..Len(log)
      /\ \A m \in published : m <= k
      /\ \A i : HashAt(i)' = HashAt(i)
  BY <1>1, <1>2 DEF SetPointer, NoneAfter, TypeOK, HashAt
<1>9. PublishedVisible'
  <2>1. s \in visible
    BY DEF PublishedVisible
  <2>2. published' \subseteq visible'
    BY <1>3, <2>1 DEF PublishedVisible
  <2> QED
    BY <2>2 DEF PublishedVisible, TypeOK
<1> HIDE DEF s
<1>4. PointerIsNewest'
  <2>1. s \in published' /\ \A m \in published' : m <= s
    BY <1>1, <1>2, <1>3
  <2> QED
    BY <1>3, <2>1 DEF PointerIsNewest, NoneAfter
<1>5. \A d \in Events : pc'[d] \in {"insert", "commit", "exec"} => d \in dirty'
  BY DEF SetPointer, Touch, TypeOK, Working
<1>6. ReadIsFresh' /\ RowIsFresh'
  BY <1>5 DEF ReadIsFresh, RowIsFresh, HasRow
<1>7. PublishedChained'
  <2> SUFFICES ASSUME NEW j \in published'
               PROVE  \E i \in 0..(j - 1) :
                        /\ log[j].prev = HashAt(i)
                        /\ \A m \in published' : ~(i < m /\ m < j)
    BY <1>3 DEF PublishedChained
  <2>1. CASE j = s
    BY <1>1, <1>2, <1>3, <2>1
  <2>2. CASE j # s
    <3>1. j \in published
      BY <1>3, <2>2
    <3>2. PICK i \in 0..(j - 1) : /\ log[j].prev = HashAt(i)
                                  /\ \A m \in published : ~(i < m /\ m < j)
      BY <3>1 DEF PublishedChained
    <3>3. j < s
      BY <1>1, <1>2, <1>3, <3>1
    <3>4. \A m \in published' : ~(i < m /\ m < j)
      BY <1>1, <1>3, <3>1, <3>2, <3>3
    <3> QED
      BY <3>2, <3>4
  <2> QED
    BY <2>1, <2>2
<1>8. AckedPublished'
  BY <1>1, <1>3 DEF AckedPublished, TypeOK, s
<1> QED
  BY <1>4, <1>6, <1>7, <1>8, <1>9

(* Steps that leave the rows, the pointer and the published rows alone and *)
(* take no call to a label where the invariant speaks of it.               *)
LEMMA QuietKeeps ==
  ASSUME IInv, UNCHANGED <<log, visible, published, seq>>,
         pointer' \in {pointer, NoPointer},
         \A d \in Events :
           pc'[d] \in {"insert", "commit", "exec", "acked"} =>
             pc'[d] = pc[d] /\ prev'[d] = prev[d] /\ (d \in dirty => d \in dirty')
  PROVE  /\ PointerIsNewest'
         /\ ReadIsFresh'
         /\ RowIsFresh'
         /\ PublishedVisible'
         /\ PublishedChained'
         /\ AckedPublished'
<1>1. \A k : HashAt(k)' = HashAt(k) /\ NoneAfter(k)' = NoneAfter(k)
  BY DEF HashAt, NoneAfter
<1>2. PointerIsNewest'
  BY <1>1 DEF IInv, PointerIsNewest
<1>3. ReadIsFresh'
  BY <1>1 DEF IInv, ReadIsFresh
<1>4. RowIsFresh'
  BY <1>1 DEF IInv, RowIsFresh, HasRow
<1>5. PublishedChained'
  BY <1>1 DEF IInv, PublishedChained
<1>6. AckedPublished'
  BY DEF IInv, AckedPublished
<1>7. PublishedVisible'
  BY DEF IInv, PublishedVisible
<1> QED
  BY <1>2, <1>3, <1>4, <1>5, <1>6, <1>7

(* A COMMIT, heard of or not: the row is shown, and nothing published.     *)
LEMMA ShowKeeps ==
  ASSUME IInv, NEW e \in Events, pc[e] = "commit", Show(e),
         UNCHANGED <<log, pointer, prev, seq, dirty, published>>,
         NEW to \in {"exec", "failed"}, pc' = [pc EXCEPT ![e] = to]
  PROVE  /\ PointerIsNewest'
         /\ ReadIsFresh'
         /\ RowIsFresh'
         /\ PublishedVisible'
         /\ PublishedChained'
         /\ AckedPublished'
<1> USE DEF IInv
<1>1. \A k : HashAt(k)' = HashAt(k) /\ NoneAfter(k)' = NoneAfter(k)
  BY DEF HashAt, NoneAfter
<1>2. \A d \in Events : /\ pc'[d] \in HasRow => pc[d] \in HasRow
                        /\ pc'[d] \in {"insert", "acked"} => pc'[d] = pc[d]
  BY DEF HasRow, TypeOK
<1>3. PointerIsNewest'
  BY <1>1 DEF PointerIsNewest
<1>4. ReadIsFresh'
  BY <1>1, <1>2 DEF ReadIsFresh
<1>5. RowIsFresh'
  BY <1>1, <1>2 DEF RowIsFresh
<1>6. PublishedChained'
  BY <1>1 DEF PublishedChained
<1>7. AckedPublished'
  BY <1>2 DEF AckedPublished
<1>8. PublishedVisible'
  BY DEF PublishedVisible, Show, TypeOK
<1> QED
  BY <1>3, <1>4, <1>5, <1>6, <1>7, <1>8

(* Reading the pointer, or the last row when there is none, yields a hash  *)
(* after which nothing is published yet.                                   *)
LEMMA ReadKeeps ==
  ASSUME IInv, NEW e \in Events, GetPointer(e) \/ LastRow(e)
  PROVE  /\ PointerIsNewest'
         /\ ReadIsFresh'
         /\ RowIsFresh'
         /\ PublishedVisible'
         /\ PublishedChained'
         /\ AckedPublished'
<1> USE DEF IInv
<1>1. UNCHANGED <<log, visible, pointer, seq, dirty, published>>
  BY DEF GetPointer, LastRow
<1>2. \A k : HashAt(k)' = HashAt(k) /\ NoneAfter(k)' = NoneAfter(k)
  BY <1>1 DEF HashAt, NoneAfter
<1>3. \A d \in Events : d # e => pc'[d] = pc[d] /\ prev'[d] = prev[d]
  BY DEF GetPointer, LastRow, Goto, TypeOK
<1>4. pc'[e] \in {"insert", "lastrow"}
  BY DEF GetPointer, LastRow, Goto, TypeOK
<1>5. ASSUME pc'[e] = "insert"
      PROVE  \E k \in 0..Len(log) : prev'[e] = HashAt(k) /\ NoneAfter(k)
  <2>1. CASE GetPointer(e)
    <3>1. pointer # NoPointer /\ prev'[e] = pointer
      BY <1>5, <2>1 DEF GetPointer, Goto, TypeOK
    <3>2. PICK k \in published : pointer = log[k].hash /\ NoneAfter(k)
      BY <3>1 DEF PointerIsNewest
    <3>3. k \in 1..Len(log)
      BY DEF TypeOK
    <3> QED
      BY <3>1, <3>2, <3>3 DEF HashAt
  <2>2. CASE LastRow(e)
    <3>1. prev'[e] = HashAt(Latest(visible))
      BY <2>2 DEF LastRow, TypeOK
    <3>2. /\ Latest(visible) \in 0..Len(log)
          /\ \A m \in visible : m <= Latest(visible)
      BY LatestVisible
    <3>3. NoneAfter(Latest(visible))
      BY <3>2 DEF NoneAfter, PublishedVisible
    <3> QED
      BY <3>1, <3>2, <3>3
  <2> QED
    BY <2>1, <2>2
<1>6. PointerIsNewest'
  BY <1>1, <1>2 DEF PointerIsNewest
<1>7. ReadIsFresh'
  BY <1>1, <1>2, <1>3, <1>5 DEF ReadIsFresh
<1>8. RowIsFresh'
  BY <1>1, <1>2, <1>3, <1>4 DEF RowIsFresh, HasRow
<1>9. PublishedChained'
  BY <1>1, <1>2 DEF PublishedChained
<1>10. AckedPublished'
  BY <1>1, <1>3, <1>4 DEF AckedPublished
<1>11. PublishedVisible'
  BY <1>1, <1>3, <1>4 DEF PublishedVisible
<1> QED
  BY <1>6, <1>7, <1>8, <1>9, <1>10, <1>11

(* Every step preserves the inductive invariant.                           *)
LEMMA IInvStep ==
  ASSUME IInv, [Next]_vars
  PROVE  IInv'
<1>1. TypeOK' /\ RowIsOwn'
  BY TypeStep, RowIsOwnStep DEF IInv, RowIsOwn, RowExists
<1> DEFINE Holds == /\ PointerIsNewest'
                    /\ ReadIsFresh'
                    /\ RowIsFresh'
                    /\ PublishedVisible'
                    /\ PublishedChained'
                    /\ AckedPublished'
<1> USE DEF Goto, Working, IInv
<1>2. ASSUME NEW e \in Events, Acquire(e) PROVE Holds
  BY <1>2, QuietKeeps DEF Acquire, TypeOK
<1>3. ASSUME NEW e \in Events, Watch(e) PROVE Holds
  BY <1>3, QuietKeeps DEF Watch, TypeOK
<1>4. ASSUME NEW e \in Events, GetPointer(e) \/ LastRow(e) PROVE Holds
  BY <1>4, ReadKeeps
<1>5. ASSUME NEW e \in Events, Insert(e) PROVE Holds
  BY <1>5, InsertKeeps
<1>6. ASSUME NEW e \in Events, Exec(e) PROVE Holds
  BY <1>6, PublishKeeps DEF Exec
<1>7. ASSUME NEW e \in Events, ReplyLost(e) PROVE Holds
  BY <1>7, PublishKeeps DEF ReplyLost
<1>8. ASSUME NEW e \in Events, ExecConflict(e) PROVE Holds
  BY <1>8, QuietKeeps DEF ExecConflict, TypeOK
<1>9. ASSUME NEW e \in Events, ConnectionLost(e) PROVE Holds
  BY <1>9, QuietKeeps DEF ConnectionLost, TypeOK
<1>10. ASSUME NEW e \in Events, Abort(e) PROVE Holds
  <2>1. CASE UNCHANGED visible
    BY <1>10, <2>1, QuietKeeps DEF Abort, TypeOK
  <2>2. CASE pc[e] = "commit" /\ Show(e)
    BY <1>10, <2>2, ShowKeeps DEF Abort
  <2> QED
    BY <1>10, <2>1, <2>2 DEF Abort
<1>14. ASSUME NEW e \in Events, Commit(e) PROVE Holds
  BY <1>14, ShowKeeps DEF Commit
<1>11. CASE LosePointer
  <2> Holds
    BY <1>11, QuietKeeps DEF LosePointer
  <2> QED
    BY <1>1
<1>12. CASE UNCHANGED vars
  <2> Holds
    BY <1>12, QuietKeeps DEF vars
  <2> QED
    BY <1>1
<1>13. ASSUME NEW e \in Events, Step(e) PROVE Holds
  BY <1>2, <1>3, <1>4, <1>5, <1>6, <1>8, <1>13, <1>14 DEF Step
<1> HIDE DEF Holds, Goto, Working, IInv
<1> QED
  BY <1>1, <1>7, <1>9, <1>10, <1>11, <1>12, <1>13 DEF Next, Holds, IInv

(* The invariant of any number of processes holds.                         *)
LEMMA Inductive == Spec => []IInv
<1>1. Init => IInv
  BY ChainAssumption
     DEF Init, IInv, TypeOK, PointerIsNewest, ReadIsFresh, RowIsOwn, RowIsFresh,
         HasRow, PublishedVisible, PublishedChained, AckedPublished, Labels, Working, Hash,
         Genesis, Row
<1> QED
  BY <1>1, IInvStep, PTL DEF Spec

(* No published row is skipped by a later one, whatever fails and however  *)
(* many processes write (audit_log.py:91-121).                             *)
THEOREM PublishedRowsChained == Spec => []PublishedChained
<1>1. IInv => PublishedChained
  BY DEF IInv
<1> QED
  BY <1>1, Inductive, PTL

(* A seq that write returned names a published row of the caller's event.  *)
THEOREM AcknowledgedRowsPublished == Spec => []AckedPublished
<1>1. IInv => AckedPublished
  BY DEF IInv
<1> QED
  BY <1>1, Inductive, PTL

-----------------------------------------------------------------------------
(* One process: its lock leaves at most one call at work.                  *)
LEMMA OneAtWork ==
  ASSUME SingleProcess, LockHeld, NEW d \in Events, NEW e \in Events,
         pc[d] \in Working, pc[e] \in Working
  PROVE  d = e
  BY DEF SingleProcess, LockHeld

(* A call at work holds the lock of its process, and keeps it.             *)
LEMMA LockHeldStep ==
  ASSUME SingleProcess, TypeOK, LockHeld, [Next]_vars
  PROVE  LockHeld'
<1> USE ChainAssumption DEF TypeOK, LockHeld, SingleProcess, Working, Goto
<1>1. ASSUME NEW e \in Events, Acquire(e) PROVE LockHeld'
  BY <1>1 DEF Acquire
<1>2. ASSUME NEW e \in Events, pc[e] \in Working, UNCHANGED lock,
             NEW l, pc' = [pc EXCEPT ![e] = l]
      PROVE  LockHeld'
  BY <1>2
<1>3. ASSUME NEW e \in Events, pc[e] \in Working, Release(e),
             NEW l \in {"acked", "failed"}, pc' = [pc EXCEPT ![e] = l]
      PROVE  LockHeld'
  BY <1>3, OneAtWork DEF Release
<1>4. ASSUME NEW e \in Events, Watch(e) \/ GetPointer(e) \/ LastRow(e) \/ Insert(e)
                               \/ Commit(e)
      PROVE  LockHeld'
  BY <1>2, <1>4 DEF Watch, GetPointer, LastRow, Insert, Commit
<1>5. ASSUME NEW e \in Events, ExecConflict(e) \/ ConnectionLost(e) \/ ReplyLost(e)
      PROVE  LockHeld'
  BY <1>2, <1>5 DEF ExecConflict, ConnectionLost, ReplyLost
<1>6. ASSUME NEW e \in Events, Exec(e) \/ Abort(e) PROVE LockHeld'
  BY <1>3, <1>6 DEF Exec, Abort
<1>7. CASE LosePointer
  BY <1>7 DEF LosePointer
<1>8. CASE UNCHANGED vars
  BY <1>8 DEF vars
<1> HIDE DEF TypeOK, LockHeld, SingleProcess, Working, Goto
<1> QED
  BY <1>1, <1>4, <1>5, <1>6, <1>7, <1>8 DEF Next, Step

(* Continued of a row depends on the rows before it alone.                 *)
LEMMA ContinuedKept ==
  ASSUME TypeOK, NEW i \in 1..Len(log), Continued(i),
         log'[i].prev = log[i].prev,
         \A k \in 0..Len(log) : HashAt(k)' = HashAt(k),
         {j \in visible' : j < i} = {j \in visible : j < i},
         \A j \in 1..(i - 1) : j \in published' => j \in published
  PROVE  Continued(i)'
<1> DEFINE k == RowBefore(i)
<1>0. Len(log) \in Nat /\ visible \subseteq 1..Len(log)
  BY LatestVisible
<1>1. /\ {j \in visible : j < i} \subseteq 1..Len(log)
      /\ \A j \in visible : j < i => j \in 1..(i - 1)
  <2>1. {j \in visible : j < i} \subseteq 1..Len(log)
    BY <1>0
  <2>2. ASSUME NEW j \in visible, j < i PROVE j \in 1..(i - 1)
    <3>1. j \in 1..Len(log)
      BY <1>0
    <3> QED
      BY <1>0, <2>2, <3>1
  <2> QED
    BY <2>1, <2>2
<1>2. k \in 0..Len(log) /\ k \in {j \in visible : j < i} \union {0}
  BY <1>0, <1>1, LatestType DEF RowBefore
<1>3. RowBefore(i)' = k
  BY DEF RowBefore
<1> HIDE DEF k
<1>4. CASE log[i].prev = HashAt(k)
  BY <1>2, <1>3, <1>4 DEF Continued
<1>5. CASE k \in visible \ published
  <2>1. k \in 1..(i - 1) /\ k \in {j \in visible : j < i}
    BY <1>1, <1>2, <1>5 DEF TypeOK
  <2>2. k \in visible' \ published'
    BY <1>5, <2>1
  <2> QED
    BY <1>3, <2>2 DEF Continued
<1> QED
  BY <1>4, <1>5 DEF Continued, k

(* A fork behind none but a stranded row: every row is continued.          *)
LEMMA ForksAreContinued == ForkOnlyAfterStranded <=> \A i \in visible : Continued(i)
  BY DEF ForkOnlyAfterStranded, Continued

(* Steps that leave the log and the published rows alone, and bring no     *)
(* call to a label where the invariant of one process speaks of it.        *)
LEMMA QuietKeepsSingle ==
  ASSUME IInv, IInvSingle, UNCHANGED <<log, visible, published, seq>>,
         \A d \in Events :
           pc'[d] \in {"insert", "commit", "exec"} => pc'[d] = pc[d] /\ prev'[d] = prev[d]
  PROVE  ReadIsLast' /\ RowIsLast' /\ RowContinues' /\ ForkOnlyAfterStranded'
<1>1. \A k : HashAt(k)' = HashAt(k)
  BY DEF HashAt
<1>2. \A i : Continued(i)' = Continued(i)
  BY <1>1 DEF Continued, RowBefore
<1>3. ReadIsLast' /\ RowIsLast'
  BY <1>1 DEF IInvSingle, ReadIsLast, RowIsLast, HasRow
<1>4. RowContinues'
  BY <1>2 DEF IInvSingle, RowContinues
<1>5. ForkOnlyAfterStranded'
  BY <1>1 DEF IInvSingle, ForkOnlyAfterStranded, RowBefore
<1> QED
  BY <1>3, <1>4, <1>5

(* The reads of the pointer and of the last row, in one process.           *)
LEMMA ReadKeepsSingle ==
  ASSUME IInv, IInvSingle, NEW e \in Events, GetPointer(e) \/ LastRow(e)
  PROVE  ReadIsLast' /\ RowIsLast' /\ RowContinues' /\ ForkOnlyAfterStranded'
<1> USE DEF IInv, IInvSingle
<1>1. UNCHANGED <<log, visible, published, seq>>
  BY DEF GetPointer, LastRow
<1>2. /\ \A k : HashAt(k)' = HashAt(k)
      /\ \A i : Continued(i)' = Continued(i)
      /\ Latest(visible)' = Latest(visible)
  BY <1>1 DEF HashAt, Continued, RowBefore
<1>3. \A d \in Events : d # e => pc'[d] = pc[d] /\ prev'[d] = prev[d]
  BY DEF GetPointer, LastRow, Goto, TypeOK
<1>4. pc'[e] \notin HasRow
  BY DEF GetPointer, LastRow, Goto, TypeOK, HasRow
<1>5. ASSUME pc'[e] = "insert", ~(Latest(visible) \in visible \ published)
      PROVE  prev'[e] = HashAt(Latest(visible))
  <2>1. CASE GetPointer(e)
    <3>1. pointer # NoPointer /\ prev'[e] = pointer
      BY <1>5, <2>1 DEF GetPointer, Goto, TypeOK
    <3>2. PICK k \in published : pointer = log[k].hash /\ NoneAfter(k)
      BY <3>1 DEF PointerIsNewest
    <3>3. k \in visible /\ k \in 1..Len(log)
      BY DEF PublishedVisible, TypeOK
    <3>4. Latest(visible) \in visible /\ k <= Latest(visible)
      BY <3>3, LatestVisible
    <3>5. Latest(visible) \in published
      BY <1>5, <3>4
    <3>6. k = Latest(visible)
      <4>1. Latest(visible) <= k
        BY <3>2, <3>5 DEF NoneAfter
      <4>2. Latest(visible) \in 0..Len(log) /\ k \in 1..Len(log) /\ Len(log) \in Nat
        BY <3>3, LatestVisible
      <4> QED
        BY <3>4, <4>1, <4>2
    <3> QED
      BY <3>1, <3>2, <3>3, <3>6 DEF HashAt
  <2>2. CASE LastRow(e)
    BY <2>2 DEF LastRow, TypeOK
  <2> QED
    BY <2>1, <2>2
<1>6. ReadIsLast'
  BY <1>1, <1>2, <1>3, <1>5 DEF ReadIsLast
<1>7. RowIsLast' /\ RowContinues'
  BY <1>1, <1>2, <1>3, <1>4 DEF RowIsLast, RowContinues, HasRow
<1>8. ForkOnlyAfterStranded'
  BY <1>1, <1>2, ForksAreContinued DEF ForkOnlyAfterStranded, RowBefore
<1> QED
  BY <1>6, <1>7, <1>8

(* The insert of a row, in one process.                                    *)
LEMMA InsertKeepsSingle ==
  ASSUME SingleProcess, IInv, IInvSingle, NEW e \in Events, Insert(e)
  PROVE  ReadIsLast' /\ RowIsLast' /\ RowContinues' /\ ForkOnlyAfterStranded'
<1> USE DEF IInv, IInvSingle
<1>1. /\ Len(log') = Len(log) + 1
      /\ Len(log) \in Nat
      /\ \A i \in 1..Len(log) : log'[i] = log[i]
      /\ \A k \in 0..Len(log) : HashAt(k)' = HashAt(k)
      /\ log'[Len(log) + 1].prev = prev[e]
  BY InsertAppends DEF TypeOK
<1>2. /\ pc[e] = "insert"
      /\ pc' = [pc EXCEPT ![e] = "commit"]
      /\ seq' = [seq EXCEPT ![e] = Len(log) + 1]
      /\ UNCHANGED <<visible, published>>
  BY DEF Insert, Goto
<1>3. \A d \in Events : d # e => pc[d] \notin Working
  BY <1>2, OneAtWork DEF Working
<1>4. ReadIsLast' /\ RowIsLast'
  BY <1>1, <1>2, <1>3 DEF ReadIsLast, RowIsLast, HasRow, TypeOK, Working
<1>0. PICK n : n = Len(log) + 1
  OBVIOUS
<1>5. Latest(visible) \in 0..Len(log) /\ \A j \in visible : j < n
  <2>1. Latest(visible) \in 0..Len(log) /\ visible \subseteq 1..Len(log)
    BY LatestVisible
  <2>2. \A j \in visible : j \in 1..Len(log)
    BY <2>1
  <2> QED
    BY <1>0, <1>1, <2>1, <2>2
<1>8. /\ log'[n].prev = prev[e]
      /\ seq' = [seq EXCEPT ![e] = n]
  BY <1>0, <1>1, <1>2
<1>9. RowBefore(n)' = Latest(visible)
  <2>1. {j \in visible : j < n} = visible
    BY <1>5
  <2> QED
    BY <1>2, <2>1 DEF RowBefore
<1>10. \A d \in Events : pc'[d] = "commit" => Continued(seq[d])'
  <2> SUFFICES ASSUME NEW d \in Events, pc'[d] = "commit"
               PROVE  \/ log'[seq'[d]].prev = HashAt(RowBefore(seq[d]))'
                      \/ RowBefore(seq[d])' \in visible' \ published'
    BY DEF Continued
  <2>1. d = e /\ seq'[d] = n
    BY <1>2, <1>3, <1>8 DEF TypeOK, Working
  <2>2. RowBefore(seq[d])' = Latest(visible)
    BY <1>9, <2>1 DEF RowBefore
  <2>3. CASE prev[e] = HashAt(Latest(visible))
    <3>1. prev[e] = HashAt(Latest(visible))'
      BY <1>1, <1>2, <1>5, <2>3
    <3> QED
      BY <1>2, <1>8, <2>1, <2>2, <3>1 DEF HashAt
  <2>4. CASE Latest(visible) \in visible \ published
    BY <1>2, <2>2, <2>4
  <2> QED
    BY <1>2, <2>3, <2>4 DEF ReadIsLast
<1>6. RowContinues'
  BY <1>10 DEF RowContinues
<1>7. ForkOnlyAfterStranded'
  <2> SUFFICES ASSUME NEW i \in visible PROVE Continued(i)'
    BY <1>2 DEF ForkOnlyAfterStranded, Continued
  <2>1. i \in 1..Len(log) /\ Continued(i)
    BY ForksAreContinued DEF TypeOK
  <2> QED
    BY <1>1, <1>2, <2>1, ContinuedKept
<1> QED
  BY <1>4, <1>6, <1>7

(* The COMMIT of a row, in one process.                                    *)
LEMMA ShowKeepsSingle ==
  ASSUME SingleProcess, IInv, IInvSingle,
         NEW e \in Events, pc[e] = "commit", Show(e),
         UNCHANGED <<log, prev, seq, published>>,
         NEW to \in {"exec", "failed"}, pc' = [pc EXCEPT ![e] = to]
  PROVE  ReadIsLast' /\ RowIsLast' /\ RowContinues' /\ ForkOnlyAfterStranded'
<1> USE DEF IInv, IInvSingle
<1>1. visible' = visible \union {Len(log)} /\ Len(log) \in Nat /\ seq[e] = Len(log)
  BY DEF Show, RowIsLast, HasRow, TypeOK
<1>2. \A k : HashAt(k)' = HashAt(k)
  BY DEF HashAt
<1>3. \A d \in Events : d # e => pc[d] \notin Working
  BY OneAtWork DEF Working
<1>4. \A d \in Events : pc'[d] \notin {"insert", "commit"}
  BY <1>3 DEF TypeOK, Working
<1>5. RowIsLast'
  BY DEF RowIsLast, HasRow, TypeOK
<1>6. ForkOnlyAfterStranded'
  <2> SUFFICES ASSUME NEW i \in visible' PROVE Continued(i)'
    BY DEF ForkOnlyAfterStranded, Continued
  <2>1. seq[e] \in 1..Len(log)
    BY DEF RowIsOwn, HasRow
  <2>2. i \in 1..Len(log)
    BY <1>1, <2>1 DEF TypeOK
  <2>3. Continued(i)
    BY <1>1, ForksAreContinued DEF RowContinues
  <2>4. {j \in visible' : j < i} = {j \in visible : j < i}
    BY <1>1, <2>2
  <2> QED
    BY <1>2, <2>2, <2>3, <2>4, ContinuedKept
<1> QED
  BY <1>4, <1>5, <1>6 DEF ReadIsLast, RowContinues

(* The move of the pointer, in one process.                                *)
LEMMA PublishKeepsSingle ==
  ASSUME SingleProcess, IInv, IInvSingle,
         NEW e \in Events, pc[e] = "exec", SetPointer(e),
         UNCHANGED <<log, visible, prev, seq>>,
         NEW to \in {"acked", "watch"}, pc' = [pc EXCEPT ![e] = to]
  PROVE  ReadIsLast' /\ RowIsLast' /\ RowContinues' /\ ForkOnlyAfterStranded'
<1> USE DEF IInv, IInvSingle
<1>1. published' = published \union {Len(log)} /\ Len(log) \in Nat
  BY DEF SetPointer, RowIsLast, HasRow, TypeOK
<1>2. \A k : HashAt(k)' = HashAt(k)
  BY DEF HashAt
<1>3. \A d \in Events : d # e => pc[d] \notin Working
  BY OneAtWork DEF Working
<1>4. \A d \in Events : pc'[d] \notin {"insert", "commit", "exec"}
  BY <1>3 DEF TypeOK, Working
<1>5. ForkOnlyAfterStranded'
  <2> SUFFICES ASSUME NEW i \in visible PROVE Continued(i)'
    BY DEF ForkOnlyAfterStranded, Continued
  <2>1. i \in 1..Len(log) /\ Continued(i)
    BY ForksAreContinued DEF TypeOK
  <2>2. \A j \in 1..(i - 1) : j \in published' => j \in published
    BY <1>1, <2>1
  <2> QED
    BY <1>2, <2>1, <2>2, ContinuedKept
<1> QED
  BY <1>4, <1>5 DEF ReadIsLast, RowIsLast, RowContinues, HasRow

(* Every step of one process keeps its invariant.                          *)
LEMMA IInvSingleStep ==
  ASSUME SingleProcess, IInv, IInvSingle, [Next]_vars
  PROVE  IInvSingle'
<1>1. LockHeld'
  BY LockHeldStep DEF IInv, IInvSingle
<1> DEFINE Holds == ReadIsLast' /\ RowIsLast' /\ RowContinues' /\ ForkOnlyAfterStranded'
<1>2. ASSUME NEW e \in Events, Acquire(e) \/ Watch(e) \/ ExecConflict(e) PROVE Holds
  BY <1>2, QuietKeepsSingle DEF Acquire, Watch, ExecConflict, Goto, IInv, TypeOK
<1>3. ASSUME NEW e \in Events, GetPointer(e) \/ LastRow(e) PROVE Holds
  BY <1>3, ReadKeepsSingle
<1>4. ASSUME NEW e \in Events, Insert(e) PROVE Holds
  BY <1>4, InsertKeepsSingle
<1>5. ASSUME NEW e \in Events, Exec(e) PROVE Holds
  BY <1>5, PublishKeepsSingle DEF Exec, Goto
<1>6. ASSUME NEW e \in Events, ReplyLost(e) PROVE Holds
  BY <1>6, PublishKeepsSingle DEF ReplyLost, Goto
<1>7. ASSUME NEW e \in Events, ConnectionLost(e) PROVE Holds
  BY <1>7, QuietKeepsSingle DEF ConnectionLost, IInv, TypeOK
<1>10. ASSUME NEW e \in Events, Commit(e) PROVE Holds
  BY <1>10, ShowKeepsSingle DEF Commit, Goto
<1>11. ASSUME NEW e \in Events, Abort(e) PROVE Holds
  <2>1. CASE UNCHANGED visible
    BY <1>11, <2>1, QuietKeepsSingle DEF Abort, IInv, TypeOK
  <2>2. CASE pc[e] = "commit" /\ Show(e)
    BY <1>11, <2>2, ShowKeepsSingle DEF Abort
  <2> QED
    BY <1>11, <2>1, <2>2 DEF Abort
<1>8. CASE LosePointer \/ UNCHANGED vars
  <2> Holds
    BY <1>8, QuietKeepsSingle DEF LosePointer, vars
  <2> QED
    BY <1>1 DEF IInvSingle
<1>9. ASSUME NEW e \in Events, Step(e) PROVE Holds
  BY <1>2, <1>3, <1>4, <1>5, <1>9, <1>10 DEF Step
<1> HIDE DEF Holds
<1> QED
  BY <1>1, <1>6, <1>7, <1>8, <1>9, <1>11 DEF Next, Holds, IInvSingle

(* With one gateway process the log forks only right after a row whose     *)
(* write was interrupted between its commit and the pointer update: the    *)
(* lock of audit_log.py:71-74 leaves no other way to break a link.         *)
THEOREM ForksOnlyAfterStrandedRows ==
  ASSUME SingleProcess
  PROVE  Spec => []ForkOnlyAfterStranded
<1>1. Init => IInvSingle
  BY DEF Init, IInvSingle, LockHeld, ReadIsLast, RowIsLast, RowContinues, HasRow,
         ForkOnlyAfterStranded, Working
<1>2. IInv /\ IInvSingle /\ [Next]_vars => IInvSingle'
  BY IInvSingleStep
<1>3. IInvSingle => ForkOnlyAfterStranded
  BY DEF IInvSingle
<1> QED
  BY <1>1, <1>2, <1>3, Inductive, PTL DEF Spec

-----------------------------------------------------------------------------
(* What writers add to the log.                                            *)

(* The row a call is about to publish is in the log.                       *)
LEMMA RowExistsStep ==
  ASSUME TypeOK, RowExists, [Next]_vars
  PROVE  RowExists'
<1> USE DEF TypeOK, Working, Labels, Goto, RowExists, HasRow
<1>1. ASSUME NEW e \in Events, Insert(e) PROVE RowExists'
  <2>1. Len(log') = Len(log) + 1
    BY <1>1, InsertAppends
  <2> QED
    BY <1>1, <2>1 DEF Insert
<1>2. ASSUME NEW e \in Events, Step(e) \/ ConnectionLost(e) \/ ReplyLost(e) \/ Abort(e),
             ~Insert(e)
      PROVE  RowExists'
  <2>1. UNCHANGED <<log, seq>>
    BY <1>2 DEF Step, Acquire, Watch, GetPointer, LastRow, Commit, Exec, ExecConflict,
         ConnectionLost, ReplyLost, Abort
  <2>2. \A d \in Events : pc'[d] \in HasRow => pc[d] \in HasRow
    BY <1>2 DEF Step, Acquire, Watch, GetPointer, LastRow, Commit, Exec, ExecConflict,
         ConnectionLost, ReplyLost, Abort
  <2> QED
    BY <2>1, <2>2
<1>3. CASE LosePointer \/ UNCHANGED vars
  BY <1>3 DEF LosePointer, vars
<1> HIDE DEF TypeOK, Working, Labels, Goto, RowExists, HasRow
<1> QED
  BY <1>1, <1>2, <1>3 DEF Next, Step

(* A step of a writer shows no row but its own, and publishes none that is *)
(* not shown.                                                              *)
LEMMA PublishedVisibleStep ==
  ASSUME TypeOK, PublishedVisible, [Next]_vars
  PROVE  PublishedVisible' /\ visible \subseteq visible'
<1> USE DEF TypeOK, Working, Labels, Goto, PublishedVisible, Show
<1>1. ASSUME NEW e \in Events, Insert(e) PROVE PublishedVisible' /\ visible \subseteq visible'
  BY <1>1 DEF Insert
<1>2. ASSUME NEW e \in Events, Commit(e) PROVE PublishedVisible' /\ visible \subseteq visible'
  BY <1>2 DEF Commit
<1>3. ASSUME NEW e \in Events, Exec(e) \/ ReplyLost(e)
      PROVE  PublishedVisible' /\ visible \subseteq visible'
  <2>1. /\ pc[e] = "exec" /\ published' = published \union {seq[e]}
        /\ UNCHANGED <<seq, visible>>
    BY <1>3 DEF Exec, ReplyLost, SetPointer
  <2>2. \A d \in Events : pc'[d] = "exec" => pc[d] = "exec"
    BY <1>3 DEF Exec, ReplyLost
  <2> QED
    BY <2>1, <2>2
<1>4. ASSUME NEW e \in Events, Abort(e) PROVE PublishedVisible' /\ visible \subseteq visible'
  BY <1>4 DEF Abort
<1>5. ASSUME NEW e \in Events,
             \/ Acquire(e) \/ Watch(e) \/ GetPointer(e) \/ LastRow(e) \/ ExecConflict(e)
             \/ ConnectionLost(e)
      PROVE  PublishedVisible' /\ visible \subseteq visible'
  <2>1. UNCHANGED <<published, visible, seq>>
    BY <1>5 DEF Acquire, Watch, GetPointer, LastRow, ExecConflict, ConnectionLost
  <2>2. \A d \in Events : pc'[d] = "exec" => pc[d] = "exec"
    BY <1>5 DEF Acquire, Watch, GetPointer, LastRow, ExecConflict, ConnectionLost
  <2> QED
    BY <2>1, <2>2
<1>6. CASE LosePointer \/ UNCHANGED vars
  BY <1>6 DEF LosePointer, vars
<1> HIDE DEF TypeOK, Working, Labels, Goto, PublishedVisible, Show
<1> QED
  BY <1>1, <1>2, <1>3, <1>4, <1>5, <1>6 DEF Next, Step

(* A step of a writer leaves the log alone or adds one row at its end, and *)
(* signs it.                                                               *)
LEMMA WriteAppends ==
  ASSUME VerifierTypeOK, Write
  PROVE  /\ sigs' \in Seq(Hash) /\ Len(sigs') = Len(log') /\ log' \in Seq(Row)
         /\ Len(log') >= Len(log)
         /\ \A i \in 1..Len(log) : log'[i] = log[i] /\ sigs'[i] = sigs[i]
         /\ \/ UNCHANGED <<log, sigs>>
            \/ \E e \in Events :
                 /\ Insert(e)
                 /\ Len(log') = Len(log) + 1
                 /\ log'[Len(log) + 1].event = e
                 /\ log'[Len(log) + 1].prev = prev[e]
                 /\ log'[Len(log) + 1].hash = compute_hash(prev[e], e)
                 /\ sigs'[Len(log) + 1] = compute_hash(prev[e], e)
<1>0. /\ TypeOK /\ log \in Seq(Row) /\ Len(log) \in Nat
      /\ sigs \in Seq(Hash) /\ Len(sigs) = Len(log)
  BY DEF VerifierTypeOK, TypeOK
<1>1. CASE log' = log
  BY <1>0, <1>1 DEF Write
<1>2. ASSUME NEW e \in Events, Insert(e)
      PROVE  /\ sigs' \in Seq(Hash) /\ Len(sigs') = Len(log') /\ log' \in Seq(Row)
             /\ \A i \in 1..Len(log) : log'[i] = log[i] /\ sigs'[i] = sigs[i]
             /\ Len(log') = Len(log) + 1
             /\ log'[Len(log) + 1].event = e
             /\ log'[Len(log) + 1].prev = prev[e]
             /\ log'[Len(log) + 1].hash = compute_hash(prev[e], e)
             /\ sigs'[Len(log) + 1] = compute_hash(prev[e], e)
  <2>1. /\ log' \in Seq(Row)
        /\ Len(log') = Len(log) + 1
        /\ \A i \in 1..Len(log) : log'[i] = log[i]
        /\ log'[Len(log) + 1].event = e
        /\ log'[Len(log) + 1].prev = prev[e]
        /\ log'[Len(log) + 1].hash = compute_hash(prev[e], e)
    BY <1>0, <1>2, InsertAppends
  <2>2. compute_hash(prev[e], e) \in Hash
    BY <1>0 DEF TypeOK, Hash, compute_hash
  <2>3. sigs' = Append(sigs, compute_hash(prev[e], e))
    <3>1. sigs' = Append(sigs, log'[Len(log')].hash)
      BY <1>0, <2>1 DEF Write
    <3> QED
      BY <2>1, <3>1
  <2> QED
    BY <1>0, <2>1, <2>2, <2>3
<1>3. log' = log \/ \E e \in Events : Insert(e)
  BY DEF Write, Next, Step, Acquire, Watch, GetPointer, LastRow, Commit, Exec,
         ExecConflict, ConnectionLost, ReplyLost, Abort, LosePointer
<1>4. ASSUME NEW e \in Events, Insert(e)
      PROVE  Len(log') >= Len(log)
  BY <1>0, <1>2, <1>4
<1> QED
  BY <1>0, <1>1, <1>2, <1>3, <1>4 DEF Write

-----------------------------------------------------------------------------
(* The steps of a pass, and damage.                                        *)

(* The rows behind a checkpoint, and the hash carried to one of them.      *)
LEMMA BehindRange ==
  ASSUME VerifierTypeOK, NEW n \in Seqs
  PROVE  /\ Len(log) \in Nat /\ visible \subseteq 1..Len(log)
         /\ \A i : i \in Behind(n) <=> i \in visible /\ i > n /\ i \notin gone
         /\ \A i \in Behind(n) : i \in 1..Len(log) /\ i > n
BY DEF VerifierTypeOK, TypeOK, Behind, Seqs

(* What a scan leaves: the pass is verified up to its anchor or to a row   *)
(* behind it; all rows up to there continue, and the one it failed at does *)
(* not.                                                                    *)
LEMMA Scanned ==
  ASSUME VerifierTypeOK, NEW v \in Verifiers, Scan(v)
  PROVE  /\ pass' = [pass EXCEPT ![v] = [pass[v] EXCEPT !.stage = "save",
                       !.upto = pass'[v].upto, !.fail = pass'[v].fail]]
         /\ pass'[v].upto \in {pass[v].loaded} \union Behind(pass[v].loaded)
         /\ pass'[v].fail \in {0} \union Breaks(v)
         /\ \A i \in Behind(pass[v].loaded) :
              i <= pass'[v].upto => Continues(i, Carried(v, i))
<1> DEFINE B == Behind(pass[v].loaded)
           fail == IF Breaks(v) = {} THEN 0 ELSE Least(Breaks(v))
           good == {i \in B : fail = 0 \/ i < fail}
           upto == IF good = {} THEN pass[v].loaded ELSE Latest(good)
<1>1. /\ pass[v].loaded \in Seqs /\ Len(log) \in Nat
      /\ \A i \in B : i \in 1..Len(log) /\ i > pass[v].loaded
      /\ pass \in [Verifiers -> [stage : {"idle", "scan", "save", "dead"}, loaded : Seqs,
                                 prev : Hash, upto : Seqs, fail : Seqs]]
  <2>1. /\ pass[v].loaded \in Seqs
        /\ pass \in [Verifiers -> [stage : {"idle", "scan", "save", "dead"}, loaded : Seqs,
                                   prev : Hash, upto : Seqs, fail : Seqs]]
    BY DEF VerifierTypeOK
  <2> QED
    BY <2>1, BehindRange
<1>2. pass' = [pass EXCEPT ![v].stage = "save", ![v].fail = fail, ![v].upto = upto]
  BY DEF Scan
<1>3. fail \in {0} \union Breaks(v) /\ \A i \in B : fail = 0 \/ i < fail => i \notin Breaks(v)
  <2>1. CASE Breaks(v) = {}
    BY <2>1
  <2>2. CASE Breaks(v) # {}
    <3>1. Breaks(v) \subseteq B
      BY DEF Breaks
    <3>2. Breaks(v) \subseteq Nat /\ 0 \notin Breaks(v)
      BY <1>1, <3>1
    <3>3. fail = Least(Breaks(v)) /\ fail \in Breaks(v) /\ \A j \in Breaks(v) : fail <= j
      BY <2>2, <3>2, LeastOf
    <3> HIDE DEF fail
    <3>4. fail \in Nat /\ fail # 0 /\ \A j \in Breaks(v) : j \in Nat
      BY <3>2, <3>3
    <3>5. \A i \in Breaks(v) : ~(fail = 0 \/ i < fail)
      BY <3>3, <3>4
    <3> QED
      BY <3>3, <3>5
  <2> QED
    BY <2>1, <2>2
<1>4. /\ upto \in {pass[v].loaded} \union B
      /\ \A i \in B : i <= upto => fail = 0 \/ i < fail
  <2>1. CASE good = {}
    BY <1>1, <2>1 DEF Seqs
  <2>2. CASE good # {}
    <3> HIDE DEF B
    <3>1. good \subseteq 1..Len(log) /\ good \subseteq B
      BY <1>1
    <3>2. fail \in {0} \union 1..Len(log)
      BY <1>1, <1>3 DEF Breaks, B
    <3> HIDE DEF fail, good
    <3>3. Latest(good) \in good
      BY <1>1, <2>2, <3>1, LatestOf
    <3>4. upto = Latest(good) /\ upto \in 1..Len(log) /\ upto \in B
      BY <2>2, <3>1, <3>3
    <3> HIDE DEF upto
    <3>5. fail = 0 \/ upto < fail
      BY <3>3, <3>4 DEF good
    <3> QED
      BY <1>1, <3>2, <3>4, <3>5
  <2> QED
    BY <2>1, <2>2
<1> HIDE DEF fail, upto, good
<1>5. pass'[v].upto = upto /\ pass'[v].fail = fail
  BY <1>1, <1>2
<1>6. pass' = [pass EXCEPT ![v] = [pass[v] EXCEPT !.stage = "save",
                 !.upto = pass'[v].upto, !.fail = pass'[v].fail]]
  BY <1>1, <1>2, <1>5
<1>7. \A i \in B : i \notin Breaks(v) => Continues(i, Carried(v, i))
  BY DEF Breaks
<1> QED
  BY <1>3, <1>4, <1>5, <1>6, <1>7

PassType == [stage : {"idle", "scan", "save", "dead"}, loaded : Seqs,
             prev : Hash, upto : Seqs, fail : Seqs]

(* A pass touches nothing but the checkpoint, its own state and alarm.     *)
LEMMA PassTypes ==
  ASSUME VerifierTypeOK, NEW v \in Verifiers,
         Verify(v) \/ PassDies(v) \/ Revive(v)
  PROVE  /\ UNCHANGED <<log, visible, pointer, lock, pc, prev, seq, dirty, published>>
         /\ UNCHANGED <<sigs, gone, damaged, altered, late, unseen>>
         /\ faults' \in Nat
         /\ pass' \in [Verifiers -> PassType]
         /\ checkpoint' \in Seqs /\ alarm' \in [Verifiers -> Seqs]
<1> USE DEF PassType
<1>1. /\ pass \in [Verifiers -> PassType] /\ checkpoint \in Seqs
      /\ alarm \in [Verifiers -> Seqs] /\ faults \in Nat /\ Len(log) \in Nat
      /\ 0 \in Seqs /\ Genesis \in Hash
  BY DEF VerifierTypeOK, TypeOK, Seqs, Genesis, Hash
<1>2. HashAt(checkpoint) \in Hash
  BY HashAtType DEF VerifierTypeOK, Seqs
<1>3. CASE Anchor(v)
  BY <1>1, <1>2, <1>3 DEF Anchor, Idle, vars
<1>4. CASE AnchorMissing(v)
  BY <1>1, <1>4 DEF AnchorMissing, vars
<1>5. CASE Scan(v)
  <2>1. /\ pass' = [pass EXCEPT ![v] = [pass[v] EXCEPT !.stage = "save",
                       !.upto = pass'[v].upto, !.fail = pass'[v].fail]]
        /\ pass'[v].upto \in {pass[v].loaded} \union Behind(pass[v].loaded)
        /\ pass'[v].fail \in {0} \union Breaks(v)
    BY <1>5, Scanned
  <2>2. Breaks(v) \subseteq Seqs /\ Behind(pass[v].loaded) \subseteq Seqs
    BY <1>1, BehindRange DEF Breaks, Seqs
  <2>3. pass'[v].upto \in Seqs /\ pass'[v].fail \in Seqs
    BY <1>1, <2>1, <2>2
  <2>4. pass' \in [Verifiers -> PassType]
    BY <1>1, <2>1, <2>3
  <2> QED
    BY <1>1, <1>5, <2>4 DEF Scan, vars
<1>6. CASE Save(v)
  BY <1>1, <1>6 DEF Save, Idle, vars
<1>7. CASE SaveCollides(v)
  BY <1>1, <1>7 DEF SaveCollides, Die, Idle, vars
<1>8. CASE PassDies(v)
  BY <1>1, <1>8 DEF PassDies, Die, Idle, Fault
<1>9. CASE Revive(v)
  BY <1>1, <1>9 DEF Revive, Idle, vars
<1> QED
  BY <1>3, <1>4, <1>5, <1>6, <1>7, <1>8, <1>9 DEF Verify

(* Damage strikes one row of the table.  A deleted row keeps its content,  *)
(* which the next row was written from; an altered one keeps its prev.     *)
LEMMA Damaged ==
  ASSUME VerifierTypeOK, NEW i \in 1..Len(log), Alter(i) \/ Delete(i)
  PROVE  /\ UNCHANGED <<visible, pointer, lock, pc, prev, seq, dirty, published, faults>>
         /\ UNCHANGED <<sigs, checkpoint, pass, alarm, unseen>>
         /\ i \in visible /\ i \notin gone /\ damaged' = damaged \union {i}
         /\ late' = IF AlreadyRead(i) THEN late \union {i} ELSE late
         /\ log' \in Seq(Row) /\ Len(log') = Len(log)
         /\ \A j \in 1..Len(log) : log'[j].prev = log[j].prev /\ (j # i => log'[j] = log[j])
         /\ log'[i].hash \in {log[i].hash, compute_hash(log[i].prev, log'[i].event)}
         /\ \/ /\ gone' = gone /\ altered' = altered \union {i}
            \/ /\ gone' = gone \union {i} /\ altered' = altered
               /\ i < Latest(visible) /\ log' = log
<1>1. /\ i \in visible /\ i \notin gone /\ damaged' = damaged \union {i}
      /\ late' = IF AlreadyRead(i) THEN late \union {i} ELSE late
  <2>1. 0 \in Seqs
    BY DEF Seqs, VerifierTypeOK, TypeOK
  <2> QED
    BY <2>1, BehindRange DEF Alter, Delete, Damage
<1>2. log \in Seq(Row) /\ log[i] \in Row
  BY DEF VerifierTypeOK, TypeOK
<1>3. CASE Delete(i)
  BY <1>1, <1>2, <1>3 DEF Delete, vars
<1>4. CASE Alter(i)
  <2>1. PICK e \in Events :
          log' \in {[log EXCEPT ![i].event = e],
                    [log EXCEPT ![i].event = e, ![i].hash = compute_hash(log[i].prev, e)]}
    BY <1>4, Zenon DEF Alter
  <2>2. PICK r \in Row : /\ log' = [log EXCEPT ![i] = r]
                         /\ r.prev = log[i].prev
                         /\ r.hash \in {log[i].hash, compute_hash(log[i].prev, r.event)}
    <3>1. CASE log' = [log EXCEPT ![i].event = e]
      <4> DEFINE r == [log[i] EXCEPT !.event = e]
      <4>1. r \in Row /\ r.prev = log[i].prev /\ r.hash = log[i].hash
        BY <1>2 DEF Row
      <4>2. log' = [log EXCEPT ![i] = r]
        BY <1>2, <3>1
      <4> QED
        BY <4>1, <4>2
    <3>2. CASE log' = [log EXCEPT ![i].event = e, ![i].hash = compute_hash(log[i].prev, e)]
      <4> DEFINE h == compute_hash(log[i].prev, e)
                 r == [log[i] EXCEPT !.event = e, !.hash = h]
      <4>1. h \in Hash
        BY <1>2 DEF Row, Hash, compute_hash
      <4> HIDE DEF h
      <4>2. r \in Row /\ r.prev = log[i].prev /\ r.hash = h /\ r.event = e
        BY <1>2, <4>1 DEF Row
      <4>3. log' = [log EXCEPT ![i] = r]
        BY <1>2, <3>2 DEF h
      <4> QED
        BY <4>2, <4>3 DEF h
    <3> QED
      BY <2>1, <3>1, <3>2
  <2>3. /\ log' \in Seq(Row) /\ Len(log') = Len(log) /\ log'[i] = r
        /\ \A j \in 1..Len(log) : j # i => log'[j] = log[j]
    BY <1>2, <2>2
  <2> QED
    BY <1>1, <1>4, <2>2, <2>3 DEF Alter
<1> QED
  BY <1>3, <1>4

-----------------------------------------------------------------------------
(* Types of the verifiers.                                                 *)

(* Every step of writers, verifiers and damage keeps the types.            *)
LEMMA VerifierTypes ==
  ASSUME VerifierTypeOK, RowExists, PublishedVisible, [VerifierNext]_allVars
  PROVE  VerifierTypeOK' /\ RowExists' /\ PublishedVisible'
<1> USE DEF PassType
<1>0. /\ TypeOK /\ Len(log) \in Nat /\ damaged \subseteq visible
      /\ pass \in [Verifiers -> PassType]
  BY DEF VerifierTypeOK, TypeOK
<1>1. CASE Write
  <2>1. TypeOK' /\ RowExists' /\ PublishedVisible' /\ visible \subseteq visible'
    BY <1>0, <1>1, TypeStep, RowExistsStep, PublishedVisibleStep DEF Write
  <2>2. /\ sigs' \in Seq(Hash) /\ Len(sigs') = Len(log') /\ Len(log') \in Nat
        /\ Len(log') >= Len(log)
    BY <1>1, <2>1, WriteAppends DEF TypeOK
  <2>3. UNCHANGED <<gone, checkpoint, pass, alarm, damaged, altered, late>>
    BY <1>1 DEF Write
  <2>4. Seqs \subseteq Seqs'
    BY <1>0, <2>2 DEF Seqs
  <2>5. /\ damaged' \subseteq visible' /\ unseen' \subseteq visible' /\ checkpoint' \in Seqs'
        /\ pass' \in [Verifiers -> PassType'] /\ alarm' \in [Verifiers -> Seqs']
    <3>1. damaged' \subseteq visible' /\ checkpoint' \in Seqs'
      BY <1>0, <2>1, <2>3, <2>4 DEF VerifierTypeOK
    <3>2a. unseen' \subseteq visible'
      BY <1>1, <2>1 DEF Write, VerifierTypeOK
    <3>2. PassType \subseteq PassType'
      BY <2>4
    <3>3. pass' \in [Verifiers -> PassType']
      BY <1>0, <2>3, <3>2
    <3>4. alarm' \in [Verifiers -> Seqs']
      BY <2>3, <2>4 DEF VerifierTypeOK
    <3> QED
      BY <3>1, <3>2a, <3>3, <3>4
  <2> QED
    BY <2>1, <2>2, <2>3, <2>5 DEF VerifierTypeOK
<1>2. ASSUME NEW v \in Verifiers, Verify(v) \/ PassDies(v) \/ Revive(v)
      PROVE  VerifierTypeOK' /\ RowExists' /\ PublishedVisible'
  <2>1. /\ UNCHANGED <<log, visible, pointer, lock, pc, prev, seq, dirty, published>>
        /\ UNCHANGED <<sigs, gone, damaged, altered, late, unseen>>
        /\ faults' \in Nat
        /\ pass' \in [Verifiers -> PassType]
        /\ checkpoint' \in Seqs /\ alarm' \in [Verifiers -> Seqs]
    BY <1>2, PassTypes
  <2>2. TypeOK'
    BY <1>0, <2>1 DEF TypeOK
  <2>3. Seqs' = Seqs
    BY <2>1 DEF Seqs
  <2> QED
    BY <2>1, <2>2, <2>3 DEF VerifierTypeOK, RowExists, PublishedVisible
<1>3. ASSUME NEW i \in 1..Len(log), Alter(i) \/ Delete(i)
      PROVE  VerifierTypeOK' /\ RowExists' /\ PublishedVisible'
  <2>1. /\ UNCHANGED <<visible, pointer, lock, pc, prev, seq, dirty, published, faults>>
        /\ UNCHANGED <<sigs, checkpoint, pass, alarm, unseen>>
        /\ i \in visible /\ damaged' = damaged \union {i}
        /\ late' = IF AlreadyRead(i) THEN late \union {i} ELSE late
        /\ log' \in Seq(Row) /\ Len(log') = Len(log)
        /\ gone' \in {gone, gone \union {i}} /\ altered' \in {altered, altered \union {i}}
    BY <1>3, Damaged
  <2>2. TypeOK' /\ RowExists' /\ PublishedVisible'
    BY <1>0, <2>1 DEF TypeOK, RowExists, PublishedVisible
  <2>3. Seqs' = Seqs
    BY <2>1 DEF Seqs
  <2> QED
    BY <1>3, <2>1, <2>2, <2>3 DEF VerifierTypeOK
<1>4. CASE UNCHANGED allVars
  BY <1>4 DEF allVars, vars, verifierVars, VerifierTypeOK, TypeOK, RowExists,
     PublishedVisible, Seqs
<1> QED
  BY <1>1, <1>2, <1>3, <1>4 DEF VerifierNext

(* The types hold throughout.                                              *)
LEMMA VerifierTypesHold ==
  VerifierSpec => [](VerifierTypeOK /\ RowExists /\ PublishedVisible)
<1>1. VerifierInit => VerifierTypeOK /\ RowExists /\ PublishedVisible
  BY ChainAssumption
     DEF VerifierInit, Init, VerifierTypeOK, TypeOK, RowExists, PublishedVisible, HasRow,
         Labels, Working, Hash, Genesis, Row, Idle, Seqs
<1> QED
  BY <1>1, VerifierTypes, PTL DEF VerifierSpec

(* Type correctness of the verifiers' state beside the writers'.           *)
THEOREM VerifierTypeCorrect == VerifierSpec => []VerifierTypeOK
BY VerifierTypesHold, PTL

-----------------------------------------------------------------------------
(* What a pass knows of its anchor: it was there when the pass read it,    *)
(* and unless it was damaged since, the pass holds its signed hash.        *)
Anchored ==
  \A v \in Verifiers :
    LET p == pass[v] IN
    /\ p.stage \notin {"scan", "save"} => p.loaded = 0 /\ p.upto = 0
    /\ p.stage = "scan" => p.upto = 0
    /\ p.loaded = 0 => p.prev = Genesis
    /\ p.loaded # 0 =>
         /\ p.loaded \in Kept(p.loaded)
         /\ p.loaded \in late \/ p.prev = sigs[p.loaded]

(* The seqs some process relies on: the checkpoint, and what a pass may    *)
(* make the checkpoint.                                                    *)
ReliedOn(n) ==
  n = checkpoint \/ \E v \in Verifiers : n = pass[v].loaded \/ n = pass[v].upto

RowsTrusted == \A n \in Seqs : ReliedOn(n) => RowsVouched(n)

(* They are seqs of rows that carry the gateway's signature.               *)
RelyOnRows ==
  \A n \in Seqs : ReliedOn(n) /\ n # 0 =>
    n \in visible /\ (n \in late \/ sigs[n] = log[n].hash)

(* The rows up to n that a pass can have seen are rows up to n.            *)
LEMMA KeptRange ==
  ASSUME VerifierTypeOK, NEW n \in Nat
  PROVE  /\ \A i : i \in Kept(n) <=> i \in visible /\ i <= n /\ (i \notin gone \/ i \in late)
         /\ Kept(n) \subseteq 1..n /\ Kept(n) \subseteq 1..Len(log) /\ Len(log) \in Nat
<1>1. visible \subseteq 1..Len(log) /\ Len(log) \in Nat
  BY DEF VerifierTypeOK, TypeOK
<1>2. \A i : i \in Kept(n) <=> i \in visible /\ i <= n /\ (i \notin gone \/ i \in late)
  BY DEF Kept
<1>3. ASSUME NEW i \in Kept(n) PROVE i \in 1..n /\ i \in 1..Len(log)
  <2>1. i \in 1..Len(log) /\ i <= n
    BY <1>1, <1>2
  <2> QED
    BY <1>1, <2>1
<1> QED
  BY <1>1, <1>2, <1>3

(* What a pass can have read right before row i is a row before it.        *)
LEMMA BeforeIs ==
  ASSUME VerifierTypeOK, NEW i \in Nat, i > 0, NEW b \in Before(i)
  PROVE  /\ b \in 0..(i - 1) /\ b \in {0} \union Kept(i - 1)
         /\ \A k \in Kept(i - 1) \ unseen : k <= b
<1>1. i - 1 \in Nat /\ Kept(i - 1) \subseteq 1..(i - 1)
  BY KeptRange
<1> QED
  BY <1>1 DEF Before

(* The hash a scan carries into position i is the anchor's, or that of a   *)
(* row that can have been read right before i, unless that row was damaged *)
(* after a pass had read it.                                               *)
LEMMA CarriedIs ==
  ASSUME VerifierTypeOK, Anchored, NEW v \in Verifiers,
         NEW i \in 1..Len(log), i > pass[v].loaded
  PROVE  \E j \in Before(i) :
           \/ j = 0 /\ pass[v].loaded = 0 /\ Carried(v, i) = Genesis
           \/ /\ j # 0
              /\ \/ j \in late
                 \/ j \in Behind(pass[v].loaded) /\ Carried(v, i) = log[j].hash
                 \/ j = pass[v].loaded /\ Carried(v, i) = sigs[j]
<1> DEFINE n == pass[v].loaded
           before == {j \in Behind(n) : j < i}
           K == Kept(i - 1) \ unseen
           Fits(j) == \/ j = 0 /\ n = 0 /\ Carried(v, i) = Genesis
                      \/ /\ j # 0
                         /\ \/ j \in late
                            \/ j \in Behind(n) /\ Carried(v, i) = log[j].hash
                            \/ j = n /\ Carried(v, i) = sigs[j]
<1>1. /\ n \in Seqs /\ n \in Nat /\ i \in Nat /\ i > 0 /\ i - 1 \in Nat /\ n <= i - 1
      /\ Len(log) \in Nat
      /\ \A j : j \in Behind(n) <=> j \in visible /\ j > n /\ j \notin gone
      /\ \A j \in Behind(n) : j \in 1..Len(log)
  BY BehindRange DEF VerifierTypeOK, Seqs
<1>2. Carried(v, i) = IF before = {} THEN pass[v].prev ELSE log[Latest(before)].hash
  BY DEF Carried
<1>3. /\ n = 0 => pass[v].prev = Genesis
      /\ n # 0 => n \in Kept(n) /\ (n \in late \/ pass[v].prev = sigs[n])
  BY DEF Anchored
<1>4. /\ \A j : j \in Kept(i - 1) <=>
               j \in visible /\ j <= i - 1 /\ (j \notin gone \/ j \in late)
      /\ Kept(i - 1) \subseteq 1..(i - 1)
      /\ \A j : j \in Kept(n) <=> j \in visible /\ j <= n /\ (j \notin gone \/ j \in late)
  BY <1>1, KeptRange
<1> HIDE DEF n
<1>5. before \subseteq Kept(i - 1) /\ before \subseteq 1..(i - 1)
  <2>1. ASSUME NEW j \in before PROVE j \in Kept(i - 1)
    BY <1>1, <1>4
  <2> QED
    BY <1>4, <2>1
<1>6. n # 0 => n \in Kept(i - 1)
  BY <1>1, <1>3, <1>4
<1>7. PICK p : p = IF before = {} THEN n ELSE Latest(before)
  OBVIOUS
<1>8. /\ p \in {0} \union Kept(i - 1) /\ p \in 0..(i - 1) /\ p >= n
      /\ \A j \in before : j <= p
      /\ Fits(p)
  <2>1. CASE before = {}
    BY <1>1, <1>2, <1>3, <1>4, <1>6, <1>7, <2>1
  <2>2. CASE before # {}
    <3>1. Latest(before) \in before /\ \A j \in before : j <= Latest(before)
      <4> HIDE DEF before
      <4> QED
        BY <1>1, <1>5, <2>2, LatestOf
    <3>2. p \in before /\ p = Latest(before) /\ Carried(v, i) = log[p].hash
      BY <1>2, <1>7, <2>2, <3>1
    <3>3. p \in Behind(n) /\ p > n /\ p # 0
      BY <1>1, <1>5, <3>2
    <3> QED
      BY <1>1, <1>5, <3>1, <3>2, <3>3
  <2> QED
    BY <2>1, <2>2
<1>9. CASE \A k \in K : k <= p
  <2>1. p \in Before(i)
    BY <1>8, <1>9 DEF Before
  <2> QED
    BY <1>8, <2>1 DEF n
<1>10. ASSUME NEW k \in K, ~(k <= p)
       PROVE  \E j \in Before(i) : Fits(j)
  <2>1. PICK q \in K : \A l \in K : l <= q
    <3>1. K \subseteq 1..(i - 1) /\ K # {}
      BY <1>4, <1>10
    <3> HIDE DEF K
    <3> QED
      BY <1>1, <3>1, LatestOf
  <2>2. /\ q \in Kept(i - 1) /\ q \in 1..(i - 1) /\ k \in 1..(i - 1) /\ k <= q
        /\ q \in visible /\ (q \notin gone \/ q \in late)
    BY <1>4, <1>10, <2>1
  <2>3. q \in Before(i)
    BY <2>1, <2>2 DEF Before
  <2>4. q > p /\ q > n /\ q < i
    BY <1>1, <1>8, <1>10, <2>2
  <2>5. q \in gone
    <3>1. q \notin before
      BY <1>8, <2>2, <2>4
    <3> QED
      BY <1>1, <2>2, <2>4, <3>1
  <2> QED
    BY <2>2, <2>3, <2>5
<1> QED
  BY <1>9, <1>10 DEF n

-----------------------------------------------------------------------------
(* The checkpoint vouches, for any number of gateway processes.            *)

(* What a process relies on is behind it, but for a pass that is idle.     *)
IdleIsIdle ==
  \A v \in Verifiers : pass[v].stage = "idle" => pass[v].loaded = 0 /\ pass[v].upto = 0

LEMMA RelyIsRead ==
  ASSUME IdleIsIdle, NEW n \in Nat, ReliedOn(n), NEW i \in 1..n
  PROVE  AlreadyRead(i)
BY DEF IdleIsIdle, ReliedOn, AlreadyRead

(* Rows a pass may rely on do not change under it: what is damaged among   *)
(* them is excepted from then on.                                          *)
LEMMA DamageKeepsRows ==
  ASSUME VerifierTypeOK, IdleIsIdle, NEW i \in 1..Len(log), Alter(i) \/ Delete(i),
         NEW n \in Seqs, ReliedOn(n)
  PROVE  /\ \A m \in 0..n : Kept(m)' = Kept(m)
         /\ \A m \in 1..n : Before(m)' = Before(m)
         /\ late \subseteq late' /\ (i <= n => i \in late')
         /\ RowsVouched(n) => RowsVouched(n)'
<1>1. /\ UNCHANGED <<sigs, checkpoint, pass, visible, unseen>> /\ i \notin gone
      /\ late' = IF AlreadyRead(i) THEN late \union {i} ELSE late
      /\ \A j \in 1..Len(log) : j # i => log'[j] = log[j]
      /\ gone' \in {gone, gone \union {i}}
  BY Damaged
<1>2. n \in Nat /\ n <= Len(log) /\ Len(log) \in Nat
  BY DEF VerifierTypeOK, TypeOK, Seqs
<1>3. late \subseteq late' /\ (i <= n => i \in late')
  <2>1. late \subseteq late'
    BY <1>1
  <2>2. ASSUME i <= n PROVE i \in late'
    <3>1. AlreadyRead(i)
      BY <1>2, <2>2, RelyIsRead
    <3> QED
      BY <1>1, <3>1
  <2> QED
    BY <2>1, <2>2
<1>4. ASSUME NEW m \in 0..n PROVE Kept(m)' = Kept(m)
  <2>1. ASSUME NEW j \in visible, j <= m
        PROVE  (j \in gone' \ late') <=> (j \in gone \ late)
    <3>1. j \in 1..Len(log) /\ (j = i => j <= n)
      BY <1>2, <2>1 DEF VerifierTypeOK, TypeOK
    <3> QED
      BY <1>1, <1>3, <3>1
  <2>2. m' = m
    OBVIOUS
  <2> QED
    BY <1>1, <2>1, <2>2 DEF Kept
<1>5. ASSUME NEW m \in 1..n PROVE Before(m)' = Before(m)
  <2>1. m - 1 \in 0..n
    BY <1>2
  <2>2. Kept(m - 1)' = Kept(m - 1)
    BY <1>4, <2>1
  <2> QED
    BY <1>1, <2>2 DEF Before
<1>6. ASSUME RowsVouched(n) PROVE RowsVouched(n)'
  <2> SUFFICES ASSUME NEW j \in Kept(n)' \ (late' \union unseen') PROVE Vouched(j)'
    BY DEF RowsVouched
  <2>1. j \in Kept(n) \ (late \union unseen) /\ j \in 1..n /\ j # i
    BY <1>1, <1>2, <1>3, <1>4, KeptRange
  <2>2. Vouched(j) /\ j \in 1..Len(log)
    BY <1>2, <1>6, <2>1 DEF RowsVouched
  <2>3. Before(j)' = Before(j) /\ log'[j] = log[j]
    BY <1>1, <1>5, <2>1, <2>2
  <2>4. PICK b \in Before(j) : \/ b = 0 /\ log[j].prev = Genesis
                               \/ b # 0 /\ (b \in late \/ log[j].prev = sigs[b])
    BY <2>2 DEF Vouched
  <2>5. b \in Before(j)' /\ (b \in late => b \in late')
    BY <1>3, <2>3, <2>4
  <2> QED
    BY <1>1, <2>2, <2>3, <2>4, <2>5 DEF Vouched, compute_hash
<1> QED
  BY <1>3, <1>4, <1>5, <1>6

(* Nor do they change by what is written behind them: a row committed late *)
(* is excepted too.                                                        *)
LEMMA WriteKeepsRows ==
  ASSUME VerifierTypeOK, RowExists, PublishedVisible, IdleIsIdle, Write, NEW n \in Seqs, ReliedOn(n)
  PROVE  /\ \A m : Kept(m) \subseteq Kept(m)'
         /\ \A m \in 1..n : Before(m) \subseteq Before(m)'
         /\ RowsVouched(n) => RowsVouched(n)'
<1>1. /\ UNCHANGED <<gone, late>> /\ visible \subseteq visible'
      /\ unseen' = unseen \union {i \in visible' \ visible : AlreadyRead(i)}
  BY PublishedVisibleStep DEF Write, VerifierTypeOK
<1>2. \A i \in 1..Len(log) : log'[i] = log[i] /\ sigs'[i] = sigs[i]
  BY WriteAppends
<1>3. n \in Nat /\ n <= Len(log) /\ Len(log) \in Nat /\ unseen \subseteq visible
  BY DEF VerifierTypeOK, TypeOK, Seqs
<1>4. \A m : Kept(m) \subseteq Kept(m)'
  BY <1>1 DEF Kept
<1>5. ASSUME NEW m \in 0..n PROVE Kept(m)' \ unseen' = Kept(m) \ unseen
  <2>1. ASSUME NEW i \in visible' \ visible, i <= m PROVE i \in unseen'
    <3>1. visible' \subseteq 1..Len(log') /\ Len(log') \in Nat
      <4>1. TypeOK'
        BY TypeStep DEF Write, VerifierTypeOK
      <4> QED
        BY <4>1 DEF TypeOK
    <3>2. i \in 1..n
      <4>1. i \in 1..Len(log')
        BY <2>1, <3>1
      <4> QED
        BY <1>3, <2>1, <3>1, <4>1
    <3> QED
      BY <1>1, <1>3, <2>1, <3>2, RelyIsRead
  <2>2. ASSUME NEW i \in Kept(m)' \ unseen' PROVE i \in Kept(m) \ unseen
    BY <1>1, <2>1, <2>2 DEF Kept
  <2>3. ASSUME NEW i \in Kept(m) \ unseen PROVE i \in Kept(m)' \ unseen'
    BY <1>1, <1>4, <2>3 DEF Kept
  <2> QED
    BY <2>2, <2>3
<1>6. ASSUME NEW m \in 1..n PROVE Before(m) \subseteq Before(m)'
  <2>1. m - 1 \in 0..n
    BY <1>3
  <2>2. Kept(m - 1)' \ unseen' = Kept(m - 1) \ unseen /\ Kept(m - 1) \subseteq Kept(m - 1)'
    BY <1>4, <1>5, <2>1
  <2> QED
    BY <2>2 DEF Before
<1>7. ASSUME RowsVouched(n), NEW j \in Kept(n)' \ (late' \union unseen') PROVE Vouched(j)'
  <2>1. j \in Kept(n) \ (late \union unseen)
    <3>1. n \in 0..n
      BY <1>3
    <3>2. j \in Kept(n) \ unseen
      BY <1>5, <1>7, <3>1
    <3> QED
      BY <1>1, <1>7, <3>2
  <2>2. j \in 1..n /\ j \in 1..Len(log) /\ Vouched(j)
    BY <1>3, <1>7, <2>1, KeptRange DEF RowsVouched
  <2>3. PICK b \in Before(j) : \/ b = 0 /\ log[j].prev = Genesis
                               \/ b # 0 /\ (b \in late \/ log[j].prev = sigs[b])
    BY <2>2 DEF Vouched
  <2>4. b \in Before(j)' /\ b \in 0..(j - 1)
    BY <1>3, <1>6, <2>2, BeforeIs
  <2>5. /\ log'[j] = log[j] /\ sigs'[j] = sigs[j]
        /\ b # 0 => sigs'[b] = sigs[b]
    BY <1>2, <1>3, <2>2, <2>4
  <2> QED
    BY <1>1, <2>2, <2>3, <2>4, <2>5 DEF Vouched, compute_hash
<1> QED
  BY <1>4, <1>6, <1>7 DEF RowsVouched

(* A scan vouches for the rows up to where it ends.                        *)
LEMMA ScanVouches ==
  ASSUME VerifierTypeOK, Anchored, RowsTrusted, NEW v \in Verifiers, Scan(v)
  PROVE  RowsVouched(pass'[v].upto)
<1> DEFINE m == pass[v].loaded
           n == pass'[v].upto
<1>1. /\ n \in {m} \union Behind(m)
      /\ \A i \in Behind(m) : i <= n => Continues(i, Carried(v, i))
  BY Scanned
<1>2. /\ m \in Seqs /\ m \in Nat /\ Len(log) \in Nat
      /\ \A i : i \in Behind(m) <=> i \in visible /\ i > m /\ i \notin gone
      /\ \A i \in Behind(m) : i \in 1..Len(log)
  BY BehindRange DEF VerifierTypeOK, Seqs
<1>3. RowsVouched(m)
  BY <1>2 DEF RowsTrusted, ReliedOn
<1>4. n \in Seqs /\ n \in Nat
  BY <1>1, <1>2 DEF Seqs
<1> HIDE DEF n, m
<1>5. ASSUME NEW i \in Kept(n) \ (late \union unseen) PROVE Vouched(i)
  <2>1. /\ i \in visible /\ i \in 1..n /\ i \notin gone /\ i \in 1..Len(log)
        /\ i \in Nat /\ i > 0
    BY <1>2, <1>4, <1>5, KeptRange
  <2>2. CASE i <= m
    <3>1. i \in Kept(m) \ (late \union unseen)
      BY <1>2, <1>5, <2>1, <2>2, KeptRange
    <3> QED
      BY <1>3, <3>1 DEF RowsVouched
  <2>3. CASE i > m
    <3>1. i \in Behind(m) /\ Continues(i, Carried(v, i))
      BY <1>1, <1>2, <2>1, <2>3
    <3>2. /\ log[i].prev = Carried(v, i)
          /\ compute_hash(log[i].prev, log[i].event) = log[i].hash
          /\ sigs[i] = log[i].hash
      BY <3>1 DEF Continues, compute_hash
    <3>3. PICK j \in Before(i) :
            \/ j = 0 /\ m = 0 /\ Carried(v, i) = Genesis
            \/ /\ j # 0
               /\ \/ j \in late
                  \/ j \in Behind(m) /\ Carried(v, i) = log[j].hash
                  \/ j = m /\ Carried(v, i) = sigs[j]
      BY <2>1, <2>3, CarriedIs DEF m
    <3>4. ASSUME j \in Behind(m), Carried(v, i) = log[j].hash
          PROVE  Carried(v, i) = sigs[j]
      <4>1. j \in 0..(i - 1)
        BY <2>1, <3>3, BeforeIs
      <4>2. j <= n
        BY <1>4, <2>1, <4>1
      <4> QED
        BY <1>1, <3>4, <4>2 DEF Continues
    <3>5. \/ j = 0 /\ log[i].prev = Genesis
          \/ j # 0 /\ (j \in late \/ log[i].prev = sigs[j])
      BY <3>2, <3>3, <3>4
    <3> QED
      BY <3>2, <3>3, <3>5 DEF Vouched
  <2> QED
    BY <1>2, <2>1, <2>2, <2>3
<1> QED
  BY <1>5 DEF RowsVouched, n

(* The step of a pass: what it relies on, besides what was relied on.      *)
LEMMA PassRelies ==
  ASSUME VerifierTypeOK, NEW v \in Verifiers, Verify(v) \/ PassDies(v) \/ Revive(v)
  PROVE  /\ \A n : ReliedOn(n)' =>
              ReliedOn(n) \/ n = 0 \/ (Scan(v) /\ n = pass'[v].upto)
         /\ \A n : Kept(n)' = Kept(n) /\ RowsVouched(n)' = RowsVouched(n)
<1>1. /\ UNCHANGED <<log, visible, sigs, gone, late, unseen>>
      /\ pass \in [Verifiers -> PassType] /\ pass' \in [Verifiers -> PassType]
  BY PassTypes DEF VerifierTypeOK, PassType
<1>2. \A n : Kept(n)' = Kept(n) /\ Before(n)' = Before(n)
  BY <1>1 DEF Kept, Before
<1>3. \A n : RowsVouched(n)' = RowsVouched(n)
  BY <1>1, <1>2 DEF RowsVouched, Vouched, compute_hash
<1>4. \A u \in Verifiers : u # v => pass'[u] = pass[u]
  BY <1>1 DEF Verify, Anchor, AnchorMissing, Scan, Save, SaveCollides, PassDies, Revive, Die
<1>5. /\ checkpoint' \in {checkpoint, pass[v].upto}
      /\ pass'[v].loaded \in {0, checkpoint, pass[v].loaded}
      /\ pass'[v].upto \in {0, pass[v].upto} \/ Scan(v)
  <2>1. CASE Anchor(v)
    BY <1>1, <2>1 DEF Anchor, Idle, PassType
  <2>2. CASE AnchorMissing(v)
    BY <2>2 DEF AnchorMissing
  <2>3. CASE Scan(v)
    <3>1. pass' = [pass EXCEPT ![v] = [pass[v] EXCEPT !.stage = "save",
                     !.upto = pass'[v].upto, !.fail = pass'[v].fail]]
      BY <2>3, Scanned
    <3>2. pass'[v].loaded = pass[v].loaded
      BY <1>1, <3>1 DEF PassType
    <3> QED
      BY <2>3, <3>2 DEF Scan
  <2>4. CASE Save(v)
    BY <1>1, <2>4 DEF Save, Idle
  <2>5. CASE SaveCollides(v) \/ PassDies(v)
    BY <1>1, <2>5 DEF SaveCollides, PassDies, Die, Idle
  <2>6. CASE Revive(v)
    BY <1>1, <2>6 DEF Revive, Idle
  <2> QED
    BY <2>1, <2>2, <2>3, <2>4, <2>5, <2>6 DEF Verify
<1>6. ASSUME NEW n, ReliedOn(n)'
      PROVE  ReliedOn(n) \/ n = 0 \/ (Scan(v) /\ n = pass'[v].upto)
  <2>1. CASE n = checkpoint'
    BY <1>5, <2>1 DEF ReliedOn
  <2>2. ASSUME NEW u \in Verifiers, n = pass'[u].loaded \/ n = pass'[u].upto
        PROVE  ReliedOn(n) \/ n = 0 \/ (Scan(v) /\ n = pass'[v].upto)
    BY <1>4, <1>5, <2>2 DEF ReliedOn
  <2> QED
    BY <1>6, <2>1, <2>2 DEF ReliedOn
<1> QED
  BY <1>2, <1>3, <1>6

AnchoredAt(v) ==
  LET p == pass[v] IN
  /\ p.stage \notin {"scan", "save"} => p.loaded = 0 /\ p.upto = 0
  /\ p.stage = "scan" => p.upto = 0
  /\ p.loaded = 0 => p.prev = Genesis
  /\ p.loaded # 0 =>
       /\ p.loaded \in Kept(p.loaded)
       /\ p.loaded \in late \/ p.prev = sigs[p.loaded]

(* Every step keeps what a pass knows of its anchor.                       *)
LEMMA AnchoredStep ==
  ASSUME VerifierTypeOK, RowExists, PublishedVisible, Anchored, RowsTrusted, RelyOnRows,
         VerifierNext
  PROVE  Anchored'
<1>0. /\ pass \in [Verifiers -> PassType] /\ checkpoint \in Seqs /\ Len(log) \in Nat
      /\ \A v \in Verifiers : AnchoredAt(v)
      /\ IdleIsIdle
  BY DEF VerifierTypeOK, TypeOK, PassType, Anchored, AnchoredAt, IdleIsIdle
<1> SUFFICES \A v \in Verifiers : AnchoredAt(v)'
  BY DEF Anchored, AnchoredAt
<1>1. ASSUME Write, NEW v \in Verifiers PROVE AnchoredAt(v)'
  <2>2. pass[v].loaded \in Seqs /\ ReliedOn(pass[v].loaded)
    BY <1>0 DEF PassType, ReliedOn
  <2>1. /\ UNCHANGED <<pass, late>> /\ \A m : Kept(m) \subseteq Kept(m)'
        /\ \A i \in 1..Len(log) : sigs'[i] = sigs[i]
    BY <1>0, <1>1, <2>2, WriteKeepsRows, WriteAppends DEF Write
  <2>4. Kept(pass[v].loaded) \subseteq Kept(pass[v].loaded)'
    BY <2>1 DEF Kept
  <2>3. pass[v].loaded # 0 => sigs'[pass[v].loaded] = sigs[pass[v].loaded]
    BY <1>0, <2>1, <2>2 DEF Seqs
  <2> QED
    BY <1>0, <2>1, <2>3, <2>4 DEF AnchoredAt
<1>2. ASSUME NEW i \in 1..Len(log), Alter(i) \/ Delete(i), NEW v \in Verifiers
      PROVE  AnchoredAt(v)'
  <2>1. UNCHANGED <<pass, sigs>>
    BY <1>2, Damaged
  <2>2. /\ pass[v].loaded \in Seqs /\ ReliedOn(pass[v].loaded)
    BY <1>0 DEF PassType, ReliedOn
  <2>3. /\ \A m \in 0..pass[v].loaded : Kept(m)' = Kept(m)
        /\ late \subseteq late'
    BY <1>0, <1>2, <2>2, DamageKeepsRows
  <2>4. Kept(pass[v].loaded)' = Kept(pass[v].loaded)
    BY <1>0, <2>1, <2>2, <2>3 DEF Seqs
  <2> QED
    BY <1>0, <2>1, <2>3, <2>4 DEF AnchoredAt
<1>3. ASSUME NEW v \in Verifiers, Verify(v) \/ PassDies(v) \/ Revive(v),
             NEW u \in Verifiers
      PROVE  AnchoredAt(u)'
  <2>1. /\ UNCHANGED <<log, visible, sigs, gone, late, unseen>>
        /\ pass' \in [Verifiers -> PassType] /\ \A n : Kept(n)' = Kept(n)
    BY <1>3, PassTypes, PassRelies DEF PassType
  <2>2. CASE u # v
    <3>1. pass'[u] = pass[u]
      BY <1>0, <1>3, <2>2 DEF Verify, Anchor, AnchorMissing, Scan, Save, SaveCollides,
           PassDies, Revive, Die
    <3> QED
      BY <1>0, <2>1, <3>1 DEF AnchoredAt
  <2>3. CASE pass'[v] = pass[v]
    BY <1>0, <2>1, <2>2, <2>3 DEF AnchoredAt
  <2>4. CASE pass'[v].loaded = 0 /\ pass'[v].upto = 0 /\ pass'[v].prev = Genesis
    BY <1>0, <2>2, <2>4 DEF AnchoredAt
  <2>5. CASE Anchor(v)
    <3>1. pass'[v] = [stage |-> "scan", loaded |-> checkpoint, prev |-> HashAt(checkpoint),
                      upto |-> 0, fail |-> 0]
      BY <1>0, <2>5 DEF Anchor, Idle
    <3>2. checkpoint = 0 => pass'[v].prev = Genesis
      BY <3>1 DEF HashAt
    <3>3. ASSUME checkpoint # 0
          PROVE  /\ checkpoint \in Kept(checkpoint)
                 /\ checkpoint \in late \/ pass'[v].prev = sigs[checkpoint]
      <4>1. checkpoint \in visible /\ checkpoint \in Nat /\ checkpoint \notin gone
        BY <1>0, <2>5, <3>3 DEF Seqs, Anchor, RelyOnRows, ReliedOn
      <4>2. checkpoint \in Kept(checkpoint)
        BY <4>1, KeptRange
      <4>4. checkpoint \notin late => sigs[checkpoint] = log[checkpoint].hash
        BY <1>0, <3>3 DEF RelyOnRows, ReliedOn
      <4> QED
        BY <3>1, <3>3, <4>2, <4>4 DEF HashAt
    <3> QED
      BY <2>1, <2>2, <3>1, <3>2, <3>3 DEF AnchoredAt
  <2>6. CASE Scan(v)
    <3>1. pass' = [pass EXCEPT ![v] = [pass[v] EXCEPT !.stage = "save",
                     !.upto = pass'[v].upto, !.fail = pass'[v].fail]]
      BY <2>6, Scanned
    <3>2. /\ pass'[v].stage = "save" /\ pass'[v].loaded = pass[v].loaded
          /\ pass'[v].prev = pass[v].prev
      BY <1>0, <3>1 DEF PassType
    <3>3. AnchoredAt(v)
      BY <1>0
    <3> QED
      BY <2>1, <2>2, <3>2, <3>3 DEF AnchoredAt
  <2> QED
    BY <1>0, <1>3, <2>3, <2>4, <2>5, <2>6
       DEF Verify, AnchorMissing, Save, SaveCollides, PassDies, Revive, Die, Idle
<1> QED
  BY <1>1, <1>2, <1>3 DEF VerifierNext

(* Every step keeps the rows that are relied on vouched for.               *)
LEMMA RowsTrustedStep ==
  ASSUME VerifierTypeOK, RowExists, PublishedVisible, Anchored, RowsTrusted, RelyOnRows,
         VerifierNext
  PROVE  RowsTrusted' /\ RelyOnRows'
<1>0. /\ pass \in [Verifiers -> PassType] /\ checkpoint \in Seqs /\ Len(log) \in Nat
      /\ \A n : ReliedOn(n) => /\ n \in Seqs /\ n \in 0..Len(log) /\ RowsVouched(n)
                               /\ n # 0 => n \in visible /\ (n \in late \/ sigs[n] = log[n].hash)
      /\ IdleIsIdle
  BY DEF VerifierTypeOK, TypeOK, PassType, RowsTrusted, ReliedOn, RelyOnRows, Seqs, Anchored,
     IdleIsIdle
<1> SUFFICES ASSUME NEW n \in Seqs', ReliedOn(n)'
             PROVE  /\ RowsVouched(n)'
                    /\ n # 0 => n \in visible' /\ (n \in late' \/ sigs'[n] = log'[n].hash)
  BY DEF RowsTrusted, RelyOnRows
<1> DEFINE Goal == /\ RowsVouched(n)'
                   /\ n # 0 => n \in visible' /\ (n \in late' \/ sigs'[n] = log'[n].hash)
<1>1. CASE Write
  <2>1. ReliedOn(n) /\ UNCHANGED late
    BY <1>1 DEF Write, ReliedOn
  <2>2. RowsVouched(n)'
    BY <1>0, <1>1, <2>1, WriteKeepsRows
  <2>3. n # 0 => n \in 1..Len(log)
    BY <1>0, <2>1
  <2>4. visible \subseteq visible' /\ \A i \in 1..Len(log) : log'[i] = log[i] /\ sigs'[i] = sigs[i]
    BY <1>1, PublishedVisibleStep, WriteAppends DEF Write, VerifierTypeOK
  <2> QED
    BY <1>0, <2>1, <2>2, <2>3, <2>4
<1>2. ASSUME NEW i \in 1..Len(log), Alter(i) \/ Delete(i) PROVE Goal
  <2>1. /\ ReliedOn(n) /\ UNCHANGED <<visible, sigs>>
        /\ \A j \in 1..Len(log) : j # i => log'[j] = log[j]
    BY <1>2, Damaged DEF ReliedOn
  <2>2. /\ RowsVouched(n)' /\ late \subseteq late' /\ (i <= n => i \in late')
    BY <1>0, <1>2, <2>1, DamageKeepsRows
  <2>3. n # 0 => n \in 1..Len(log) /\ (n # i => log'[n] = log[n])
    BY <1>0, <2>1
  <2> QED
    BY <1>0, <2>1, <2>2, <2>3
<1>3. ASSUME NEW v \in Verifiers, Verify(v) \/ PassDies(v) \/ Revive(v)
      PROVE  Goal
  <2>1. /\ ReliedOn(n) \/ n = 0 \/ (Scan(v) /\ n = pass'[v].upto)
        /\ RowsVouched(n)' = RowsVouched(n)
        /\ UNCHANGED <<log, sigs, visible, late>>
    BY <1>3, PassRelies, PassTypes
  <2>2. RowsVouched(0)
    BY KeptRange DEF RowsVouched
  <2>3. ASSUME Scan(v), n = pass'[v].upto, ~ReliedOn(n)
        PROVE  n \in visible /\ sigs[n] = log[n].hash
    <3>1. /\ n \in {pass[v].loaded} \union Behind(pass[v].loaded)
          /\ \A i \in Behind(pass[v].loaded) : i <= n => Continues(i, Carried(v, i))
      BY <2>3, Scanned
    <3>2. n \in Behind(pass[v].loaded)
      BY <2>3, <3>1 DEF ReliedOn
    <3>3. n \in visible /\ n \in 1..Len(log)
      BY <3>2, BehindRange DEF VerifierTypeOK
    <3> QED
      BY <1>0, <3>1, <3>2, <3>3 DEF Continues
  <2> QED
    BY <1>0, <2>1, <2>2, <2>3, ScanVouches
<1> HIDE DEF Goal
<1> QED
  BY <1>1, <1>2, <1>3 DEF VerifierNext, Goal

(* All of it holds throughout, for any number of gateways and verifiers.   *)
LEMMA TrustHolds == VerifierSpec => [](Anchored /\ RowsTrusted /\ RelyOnRows)
<1> DEFINE Trust == Anchored /\ RowsTrusted /\ RelyOnRows
<1>1. VerifierInit => Trust
  BY DEF VerifierInit, Init, Anchored, RowsTrusted, RelyOnRows, RowsVouched, Kept, ReliedOn,
     Idle, Seqs
<1>2. VerifierTypeOK /\ RowExists /\ PublishedVisible /\ Trust /\ VerifierNext => Trust'
  BY AnchoredStep, RowsTrustedStep
<1>3. VerifierTypeOK /\ Trust /\ UNCHANGED allVars => Trust'
  <2> SUFFICES ASSUME VerifierTypeOK, Trust, UNCHANGED allVars
               PROVE  Trust'
    OBVIOUS
  <2>1. UNCHANGED <<log, visible, sigs, gone, late, unseen, pass, checkpoint>>
    BY DEF allVars, vars, verifierVars
  <2>2. \A n : Kept(n)' = Kept(n) /\ Before(n)' = Before(n) /\ ReliedOn(n)' = ReliedOn(n)
    BY <2>1 DEF Kept, Before, ReliedOn
  <2>3. \A n : RowsVouched(n)' = RowsVouched(n)
    BY <2>1, <2>2 DEF RowsVouched, Vouched, compute_hash
  <2>4. Seqs' = Seqs
    BY <2>1 DEF Seqs
  <2> QED
    BY <2>1, <2>2, <2>3, <2>4 DEF Anchored, RowsTrusted, RelyOnRows
<1> HIDE DEF Trust
<1>4. VerifierTypeOK /\ RowExists /\ PublishedVisible /\ Trust /\ [VerifierNext]_allVars => Trust'
  BY <1>2, <1>3
<1>5. VerifierSpec => []Trust
  BY <1>1, <1>4, VerifierTypesHold, PTL DEF VerifierSpec
<1> QED
  BY <1>5 DEF Trust

(* However many gateways write and however many passes overlap and die:    *)
(* every row up to the checkpoint carried the gateway's signature over its *)
(* own content and continued the row before it, except for what was        *)
(* damaged after a pass had read it, and for rows committed with a seq     *)
(* that a pass was already behind, which no pass will read                 *)
(* (audit_verifier.py:36-76, audit_log.py:146-161).                        *)
THEOREM CheckpointVouches == VerifierSpec => []RowsVouched(checkpoint)
<1>1. VerifierTypeOK /\ RowsTrusted => RowsVouched(checkpoint)
  BY DEF VerifierTypeOK, RowsTrusted, ReliedOn
<1> QED
  BY <1>1, TrustHolds, VerifierTypesHold, PTL

-----------------------------------------------------------------------------
(* One process of writers, under damage.                                   *)

(* What one process of writers keeps of the log, whatever rows are damaged *)
(* under it.  The height of a row is the length of the history its         *)
(* prev_hash commits to; no damage changes it.                             *)
Height(i) == Len(log[i].prev)

RowWritten ==
  \A e \in Events :
    pc[e] \in HasRow =>
      /\ Len(log) > 0 /\ seq[e] = Len(log)
      /\ sigs[Len(log)] = compute_hash(prev[e], e) /\ log[Len(log)].prev = prev[e]
      /\ pc[e] = "commit" => Len(log) \notin visible

(* Only an altered row differs from what was signed.                       *)
Intact ==
  \A i \in 1..Len(log) :
    /\ Len(log[i].hash) = Height(i) + 1 /\ Len(sigs[i]) = Height(i) + 1
    /\ i \notin altered =>
         sigs[i] = log[i].hash /\ log[i].hash = compute_hash(log[i].prev, log[i].event)

LastStays == Latest(visible) \notin gone

PointerNamesNewest ==
  pointer # NoPointer =>
    \E r \in published :
      /\ pointer = sigs[r] /\ NoneAfter(r)
      /\ \A m \in visible : r < m => Height(m) = Len(pointer)

(* The calls that have read what their row continues, which no reader of   *)
(* the table sees yet.                                                     *)
Holding == {"insert", "commit"}

ReadIsCurrent ==
  \A e \in Events :
    /\ pc[e] = "lastrow" => pointer = NoPointer
    /\ pc[e] \in Holding /\ pointer # NoPointer => prev[e] = pointer

(* Rows stand no lower than the rows before them, and higher than every    *)
(* published one of these.                                                 *)
Grows ==
  \A a, b \in visible :
    a < b => Height(a) <= Height(b) /\ (a \in published => Height(a) < Height(b))

ReadGrows ==
  \A e \in Events : pc[e] \in Holding =>
    \A a \in visible :
      Height(a) <= Len(prev[e]) /\ (a \in published => Height(a) < Len(prev[e]))

(* What is written right above a published row continues that row, and the *)
(* first row continues none.                                               *)
Follows(p, r) == Len(p) = Height(r) + 1 => p = sigs[r]

PublishedContinued ==
  \A m \in visible :
    /\ \A r \in published \ altered :
         /\ r < m => Follows(log[m].prev, r)
         /\ r < m /\ (\A k \in visible : k < m => k <= r) => log[m].prev = sigs[r]
    /\ (\A k \in visible : m <= k) => log[m].prev = Genesis

ReadContinues ==
  \A e \in Events : pc[e] \in Holding =>
    /\ \A r \in published \ altered :
         /\ Follows(prev[e], r)
         /\ r = Latest(visible) => prev[e] = sigs[r]
    /\ visible = {} => prev[e] = Genesis

WriterInv ==
  /\ RowWritten
  /\ Intact
  /\ LastStays
  /\ PointerNamesNewest
  /\ ReadIsCurrent
  /\ Grows
  /\ ReadGrows
  /\ PublishedContinued
  /\ ReadContinues

(* The lengths the invariant compares are numbers.                         *)
LEMMA Heights ==
  ASSUME VerifierTypeOK
  PROVE  /\ Len(log) \in Nat /\ published \subseteq 1..Len(log) /\ visible \subseteq 1..Len(log)
         /\ \A i \in 1..Len(log) : Height(i) \in Nat /\ log[i].prev \in Hash
                                   /\ log[i].hash \in Hash /\ sigs[i] \in Hash
         /\ \A e \in Events : prev[e] \in Hash /\ Len(prev[e]) \in Nat
<1>1. log \in Seq(Row) /\ sigs \in Seq(Hash) /\ Len(sigs) = Len(log)
      /\ published \subseteq 1..Len(log) /\ prev \in [Events -> Hash]
      /\ visible \subseteq 1..Len(log)
  BY DEF VerifierTypeOK, TypeOK
<1>2. \A i \in 1..Len(log) : log[i] \in Row /\ sigs[i] \in Hash
  BY <1>1
<1>3. \A i \in 1..Len(log) : Height(i) \in Nat /\ log[i].prev \in Hash /\ log[i].hash \in Hash
  BY <1>2 DEF Height, Row, Hash
<1>4. \A e \in Events : prev[e] \in Hash /\ Len(prev[e]) \in Nat
  BY <1>1 DEF Hash
<1>5. Len(log) \in Nat
  BY <1>1
<1> QED
  BY <1>1, <1>2, <1>3, <1>4, <1>5

(* Steps that leave the rows, the pointer and the published rows alone and *)
(* take no call to a label where the invariant speaks of it.               *)
LEMMA QuietWriter ==
  ASSUME WriterInv, UNCHANGED <<log, visible, sigs, published, seq, gone, altered>>,
         pointer' \in {pointer, NoPointer},
         \A d \in Events :
           pc'[d] \in {"lastrow", "insert", "commit", "exec"} =>
             pc'[d] = pc[d] /\ prev'[d] = prev[d]
  PROVE  WriterInv'
<1> USE DEF WriterInv
<1>1. \A i : Height(i)' = Height(i) /\ NoneAfter(i)' = NoneAfter(i)
  BY DEF Height, NoneAfter
<1>2. RowWritten' /\ LastStays' /\ ReadIsCurrent'
  BY DEF RowWritten, LastStays, ReadIsCurrent, compute_hash, HasRow, Holding
<1>3. Intact' /\ Grows'
  BY <1>1 DEF Intact, Grows, compute_hash
<1>4. PointerNamesNewest'
  BY <1>1 DEF PointerNamesNewest
<1>5. ReadGrows'
  BY <1>1 DEF ReadGrows, Holding
<1>6. PublishedContinued'
  BY <1>1 DEF PublishedContinued, Follows
<1>7. ReadContinues'
  BY <1>1 DEF ReadContinues, Follows, Holding
<1> QED
  BY <1>2, <1>3, <1>4, <1>5, <1>6, <1>7

(* A read of the pointer, or of the last row when there is none.           *)
LEMMA ReadWriter ==
  ASSUME VerifierTypeOK, PublishedVisible, WriterInv,
         NEW e \in Events, GetPointer(e) \/ LastRow(e),
         UNCHANGED <<sigs, gone, altered>>
  PROVE  WriterInv'
<1> USE DEF WriterInv
<1>1. /\ UNCHANGED <<log, visible, pointer, published, seq>>
      /\ \A d \in Events : d # e => pc'[d] = pc[d] /\ prev'[d] = prev[d]
      /\ pc'[e] \in {"lastrow", "insert"}
      /\ pc'[e] = "lastrow" => pointer = NoPointer
  BY DEF GetPointer, LastRow, Goto, VerifierTypeOK, TypeOK
<1>2. \A i : Height(i)' = Height(i) /\ NoneAfter(i)' = NoneAfter(i)
  BY <1>1 DEF Height, NoneAfter
<1>3. /\ Len(log) \in Nat /\ published \subseteq visible
      /\ \A i \in visible : i \in 1..Len(log) /\ i \in Nat /\ Height(i) \in Nat
  BY Heights DEF PublishedVisible
<1>4. ASSUME pc'[e] = "insert"
      PROVE  /\ pointer # NoPointer => prev'[e] = pointer
             /\ \A a \in visible :
                  /\ Height(a) <= Len(prev'[e])
                  /\ a \in published => Height(a) < Len(prev'[e])
             /\ \A r \in published \ altered :
                  /\ Follows(prev'[e], r)
                  /\ r = Latest(visible) => prev'[e] = sigs[r]
             /\ visible = {} => prev'[e] = Genesis
  <2>1. CASE GetPointer(e)
    <3>1. pointer # NoPointer /\ prev'[e] = pointer
      BY <1>4, <2>1 DEF GetPointer, Goto, VerifierTypeOK, TypeOK
    <3>2. PICK r \in published :
            /\ pointer = sigs[r] /\ NoneAfter(r)
            /\ \A m \in visible : r < m => Height(m) = Len(pointer)
      BY <3>1 DEF PointerNamesNewest
    <3>3. /\ r \in visible /\ Len(pointer) = Height(r) + 1
          /\ \A m \in published : m <= r
      BY <1>3, <3>2 DEF Intact, NoneAfter
    <3>4. ASSUME NEW a \in visible
          PROVE  Height(a) <= Len(pointer) /\ (a \in published => Height(a) < Len(pointer))
      <4>1. CASE r < a
        BY <1>3, <3>2, <3>3, <4>1
      <4>2. CASE a <= r
        BY <1>3, <3>3, <4>2 DEF Grows
      <4> QED
        BY <1>3, <3>3, <4>1, <4>2
    <3>5. ASSUME NEW q \in published, Height(q) = Height(r) \/ q = Latest(visible)
          PROVE  q = r
      <4>1. q \in visible /\ q <= r
        BY <1>3, <3>3
      <4>2. q < r => Height(q) < Height(r)
        BY <3>3, <4>1 DEF Grows
      <4>3. q = Latest(visible) => r <= q
        BY <3>3, LatestVisible DEF VerifierTypeOK
      <4> QED
        BY <1>3, <3>3, <3>5, <4>1, <4>2, <4>3
    <3>6. ASSUME NEW q \in published \ altered
          PROVE  /\ Len(pointer) = Height(q) + 1 => pointer = sigs[q]
                 /\ q = Latest(visible) => pointer = sigs[q]
      <4>1. Height(q) \in Nat /\ Height(r) \in Nat
        BY <1>3, <3>3
      <4> QED
        BY <3>2, <3>3, <3>5, <4>1
    <3>7. visible # {}
      BY <3>3
    <3> QED
      BY <3>1, <3>4, <3>6, <3>7 DEF Follows
  <2>2. CASE LastRow(e)
    <3>0. PICK l : l = Latest(visible)
      OBVIOUS
    <3>1. pointer = NoPointer /\ prev'[e] = HashAt(l)
      BY <2>2, <3>0 DEF LastRow, Goto, ReadIsCurrent, VerifierTypeOK, TypeOK
    <3>2. CASE visible = {}
      <4>1. published = {} /\ l = 0
        BY <1>3, <3>0, <3>2 DEF Latest
      <4>2. prev'[e] = Genesis
        BY <3>1, <4>1 DEF HashAt
      <4> QED
        BY <3>1, <3>2, <4>1, <4>2, Zenon
    <3>3. CASE visible # {}
      <4>1. l \in visible /\ l # 0 /\ \A a \in visible : a <= l
        BY <1>3, <3>0, <3>3, LatestVisible DEF VerifierTypeOK
      <4>2. /\ prev'[e] = log[l].hash /\ Len(prev'[e]) = Height(l) + 1
            /\ l \notin altered => prev'[e] = sigs[l]
        BY <1>3, <3>1, <4>1 DEF HashAt, Intact
      <4>3. ASSUME NEW a \in visible
            PROVE  Height(a) <= Height(l)
        BY <1>3, <4>1 DEF Grows
      <4>4. ASSUME NEW q \in published, Height(q) = Height(l)
            PROVE  q = l
        <5>1. q \in visible /\ q <= l /\ (q < l => Height(q) < Height(l))
          BY <1>3, <4>1 DEF Grows
        <5> QED
          BY <1>3, <4>1, <4>4, <5>1
      <4>5. ASSUME NEW q \in published \ altered
            PROVE  /\ Len(prev'[e]) = Height(q) + 1 => prev'[e] = sigs[q]
                   /\ q = l => prev'[e] = sigs[q]
        <5>1. Height(q) \in Nat /\ Height(l) \in Nat
          BY <1>3, <4>1
        <5> QED
          BY <4>2, <4>4, <5>1
      <4>6. \A a \in visible : Height(a) < Len(prev'[e])
        BY <1>3, <4>1, <4>2, <4>3
      <4>7. \A a \in visible : Height(a) <= Len(prev'[e])
        BY <1>3, <4>1, <4>2, <4>3
      <4> QED
        BY <3>0, <3>1, <3>3, <4>5, <4>6, <4>7 DEF Follows
    <3> QED
      BY <3>2, <3>3
  <2> QED
    BY <2>1, <2>2
<1>5. RowWritten' /\ LastStays'
  BY <1>1 DEF RowWritten, LastStays, compute_hash, HasRow
<1>6. Intact' /\ Grows'
  BY <1>1, <1>2 DEF Intact, Grows, compute_hash
<1>7. PointerNamesNewest'
  BY <1>1, <1>2 DEF PointerNamesNewest
<1>8. ReadIsCurrent'
  BY <1>1, <1>4 DEF ReadIsCurrent, Holding
<1>9. ReadGrows'
  BY <1>1, <1>2, <1>4 DEF ReadGrows, Holding
<1>10. PublishedContinued'
  BY <1>1, <1>2 DEF PublishedContinued, Follows
<1>11. ReadContinues'
  <2>1. ASSUME NEW d \in Events, pc'[d] \in Holding
        PROVE  /\ \A r \in published \ altered :
                    /\ Follows(prev'[d], r)
                    /\ r = Latest(visible) => prev'[d] = sigs[r]
               /\ visible = {} => prev'[d] = Genesis
    <3>1. CASE d = e
      BY <1>1, <1>4, <2>1, <3>1 DEF Holding
    <3>2. CASE d # e
      BY <1>1, <2>1, <3>2 DEF ReadContinues
    <3> QED
      BY <3>1, <3>2
  <2> QED
    BY <1>1, <1>2, <2>1 DEF ReadContinues, Follows
<1> QED
  BY <1>5, <1>6, <1>7, <1>8, <1>9, <1>10, <1>11

(* A row is inserted, which no reader sees yet, on what the one call at    *)
(* work has read.                                                          *)
LEMMA InsertWriter ==
  ASSUME SingleProcess, LockHeld, VerifierTypeOK, WriterInv, Write,
         NEW e \in Events, Insert(e)
  PROVE  WriterInv'
<1> USE DEF WriterInv
<1>0. PICK L : L = Len(log)
  OBVIOUS
<1> USE <1>0
<1>1. /\ pc[e] = "insert" /\ UNCHANGED <<visible, pointer, published, gone, altered, prev>>
      /\ pc'[e] = "commit" /\ seq'[e] = L + 1
      /\ \A d \in Events : d # e => pc'[d] = pc[d]
      /\ \A r \in visible : r # L + 1
      /\ \A r \in damaged : r # L + 1
  BY DEF Insert, Write, Goto, VerifierTypeOK, TypeOK
<1>2. \A d \in Events : d # e => pc[d] \notin {"lastrow", "insert", "commit", "exec"}
  BY <1>1, OneAtWork DEF Working
<1>3. /\ L \in Nat /\ published \subseteq 1..L /\ visible \subseteq 1..L
      /\ \A i \in 1..L : Height(i) \in Nat
      /\ prev[e] \in Hash /\ Len(prev[e]) \in Nat
  BY Heights
<1>4. /\ \A i \in 1..L : log'[i] = log[i] /\ sigs'[i] = sigs[i]
      /\ Len(log') = L + 1
      /\ log'[L + 1].event = e /\ log'[L + 1].prev = prev[e]
      /\ log'[L + 1].hash = compute_hash(prev[e], e)
      /\ sigs'[L + 1] = compute_hash(prev[e], e)
  <2>1. /\ Len(log') = L + 1
        /\ log'[L + 1].event = e /\ log'[L + 1].prev = prev[e]
        /\ log'[L + 1].hash = compute_hash(prev[e], e)
    BY InsertAppends DEF VerifierTypeOK
  <2>2. log' # log
    BY <1>3, <2>1
  <2> QED
    BY <2>1, <2>2, WriteAppends
<1>5. /\ \A i \in 1..L : Height(i)' = Height(i)
      /\ Height(L + 1)' = Len(prev[e])
      /\ \A i \in 1..(L + 1) : i \in 1..L \/ i = L + 1
  <2>1. \A i \in 1..L : Height(i)' = Height(i)
    BY <1>4 DEF Height
  <2>2. Height(L + 1)' = Len(prev[e])
    BY <1>4 DEF Height
  <2> QED
    BY <1>3, <2>1, <2>2
<1>6. /\ Len(compute_hash(prev[e], e)) = Len(prev[e]) + 1
  BY <1>3 DEF compute_hash, Hash
<1>7. RowWritten'
  BY <1>1, <1>2, <1>3, <1>4 DEF RowWritten, compute_hash, HasRow
<1>8. Intact'
  <2> SUFFICES ASSUME NEW i \in 1..(L + 1)
               PROVE  /\ Len(log'[i].hash) = Height(i)' + 1 /\ Len(sigs'[i]) = Height(i)' + 1
                      /\ i \notin altered' =>
                           /\ sigs'[i] = log'[i].hash
                           /\ log'[i].hash = compute_hash(log'[i].prev, log'[i].event)
    BY <1>4 DEF Intact, compute_hash
  <2>1. CASE i \in 1..L
    BY <1>1, <1>4, <1>5, <2>1 DEF Intact
  <2>2. CASE i = L + 1
    BY <1>4, <1>5, <1>6, <2>2
  <2> QED
    BY <1>5, <2>1, <2>2
<1>9. /\ \A a \in visible : Height(a)' = Height(a) /\ log'[a] = log[a] /\ sigs'[a] = sigs[a]
      /\ \A a \in published : Height(a)' = Height(a) /\ sigs'[a] = sigs[a]
      /\ Latest(visible)' = Latest(visible)
  BY <1>1, <1>3, <1>4, <1>5
<1>10. LastStays'
  BY <1>1, <1>9 DEF LastStays
<1>11. PointerNamesNewest'
  BY <1>1, <1>9 DEF PointerNamesNewest, NoneAfter
<1>12. ReadIsCurrent'
  BY <1>1, <1>2 DEF ReadIsCurrent, Holding
<1>13. ReadGrows'
  BY <1>1, <1>2, <1>9 DEF ReadGrows, Holding
<1>14. Grows'
  BY <1>1, <1>9 DEF Grows
<1>15. PublishedContinued'
  BY <1>1, <1>9 DEF PublishedContinued, Follows
<1>16. ReadContinues'
  BY <1>1, <1>2, <1>9 DEF ReadContinues, Follows, Holding
<1> QED
  BY <1>7, <1>8, <1>10, <1>11, <1>12, <1>13, <1>14, <1>15, <1>16

(* The last row is committed, whether its call hears of it or not.         *)
LEMMA ShowWriter ==
  ASSUME SingleProcess, LockHeld, VerifierTypeOK, PublishedVisible, WriterInv,
         NEW e \in Events, pc[e] = "commit", Show(e),
         UNCHANGED <<log, sigs, pointer, published, prev, seq, gone, altered>>,
         NEW to \in {"exec", "failed"}, pc' = [pc EXCEPT ![e] = to]
  PROVE  WriterInv'
<1> USE DEF WriterInv
<1>0. PICK L : L = Len(log)
  OBVIOUS
<1> USE <1>0
<1>1. /\ L \in Nat /\ L > 0 /\ published \subseteq visible /\ L \notin visible
      /\ visible' = visible \union {L} /\ L \notin published /\ L \notin gone
      /\ log[L].prev = prev[e] /\ sigs[L] = compute_hash(prev[e], e)
      /\ \A i : Height(i)' = Height(i)
  <2>1. /\ L > 0 /\ L \notin visible /\ seq[e] = L
        /\ log[L].prev = prev[e] /\ sigs[L] = compute_hash(prev[e], e)
    BY DEF RowWritten, HasRow
  <2>2. published \subseteq visible /\ gone \subseteq visible
    BY DEF PublishedVisible, VerifierTypeOK
  <2> QED
    BY <2>1, <2>2, Heights DEF Show, Height
<1>2. /\ \A i \in visible : i \in 1..L /\ i < L /\ Height(i) \in Nat
      /\ Height(L) = Len(prev[e]) /\ Height(L) \in Nat
  <2>1. \A i \in visible : i \in 1..L /\ i # L
    BY <1>1, Heights
  <2> QED
    BY <1>1, <2>1, Heights DEF Height
<1>3. Latest(visible)' = L
  <2>1. /\ visible' \subseteq Nat /\ L \in visible' /\ \A j \in visible' : j <= L
    BY <1>1, <1>2
  <2> QED
    BY <2>1, LatestIs
<1>4. \A d \in Events : pc'[d] \notin {"lastrow", "insert", "commit"}
  <2>1. \A d \in Events : d # e => pc[d] \notin Working
    BY OneAtWork DEF Working
  <2> QED
    BY <2>1 DEF Working, VerifierTypeOK, TypeOK
<1>5. /\ ReadIsCurrent' /\ ReadGrows' /\ ReadContinues'
  BY <1>4 DEF ReadIsCurrent, ReadGrows, ReadContinues, Holding
<1>6. RowWritten'
  <2>1. \A d \in Events : pc'[d] \in HasRow => d = e
    <3>1. \A d \in Events : d # e => pc[d] \notin Working
      BY OneAtWork DEF Working
    <3> QED
      BY <3>1 DEF Working, HasRow, VerifierTypeOK, TypeOK
  <2>2. \A d \in Events : pc'[d] # "commit"
    BY <1>4
  <2> QED
    BY <2>1, <2>2 DEF RowWritten, HasRow, compute_hash
<1>7. Intact'
  BY <1>1 DEF Intact, compute_hash
<1>8. LastStays'
  BY <1>1, <1>3 DEF LastStays
<1>9. PointerNamesNewest'
  <2> SUFFICES ASSUME pointer # NoPointer
               PROVE  \E r \in published :
                        /\ pointer = sigs[r] /\ \A m \in published : m <= r
                        /\ \A m \in visible' : r < m => Height(m) = Len(pointer)
    BY <1>1 DEF PointerNamesNewest, NoneAfter
  <2>1. PICK r \in published :
          /\ pointer = sigs[r] /\ \A m \in published : m <= r
          /\ \A m \in visible : r < m => Height(m) = Len(pointer)
    BY DEF PointerNamesNewest, NoneAfter
  <2>2. prev[e] = pointer
    BY DEF ReadIsCurrent, Holding
  <2>3. \A m \in visible' : r < m => Height(m) = Len(pointer)
    BY <1>1, <1>2, <2>1, <2>2
  <2> QED
    BY <2>1, <2>3
<1>10. Grows'
  <2> SUFFICES ASSUME NEW a \in visible', NEW b \in visible', a < b
               PROVE  /\ Height(a) <= Height(b)
                      /\ a \in published => Height(a) < Height(b)
    BY <1>1 DEF Grows
  <2>1. a \in visible
    BY <1>1, <1>2
  <2>2. CASE b \in visible
    BY <2>1, <2>2 DEF Grows
  <2>3. CASE b = L
    BY <1>2, <2>1, <2>3 DEF ReadGrows, Holding
  <2> QED
    BY <1>1, <2>2, <2>3
<1>11. PublishedContinued'
  <2> SUFFICES ASSUME NEW m \in visible'
               PROVE  /\ \A r \in published \ altered :
                           /\ r < m => Follows(log[m].prev, r)
                           /\ r < m /\ (\A k \in visible' : k < m => k <= r)
                                => log[m].prev = sigs[r]
                      /\ (\A k \in visible' : m <= k) => log[m].prev = Genesis
    BY <1>1 DEF PublishedContinued, Follows
  <2>1. CASE m \in visible
    BY <1>1, <2>1 DEF PublishedContinued
  <2>2. CASE m = L
    <3>1. ASSUME NEW r \in published \ altered
          PROVE  Follows(log[m].prev, r)
      BY <1>1, <2>2 DEF ReadContinues, Holding
    <3>2. ASSUME NEW r \in published \ altered, \A k \in visible' : k < m => k <= r
          PROVE  log[m].prev = sigs[r]
      <4>1. r \in visible /\ \A k \in visible : k <= r
        BY <1>1, <1>2, <2>2, <3>2
      <4>2. Latest(visible) = r
        <5>1. visible \subseteq Nat
          BY <1>2
        <5> QED
          BY <4>1, <5>1, LatestIs
      <4> QED
        BY <1>1, <2>2, <4>2 DEF ReadContinues, Holding
    <3>3. ASSUME \A k \in visible' : m <= k PROVE log[m].prev = Genesis
      <4>1. visible = {}
        BY <1>1, <1>2, <2>2, <3>3
      <4> QED
        BY <1>1, <2>2, <4>1 DEF ReadContinues, Holding
    <3> QED
      BY <3>1, <3>2, <3>3
  <2> QED
    BY <1>1, <2>1, <2>2
<1> QED
  BY <1>5, <1>6, <1>7, <1>8, <1>9, <1>10, <1>11

(* The last row is published by the call that wrote it.                    *)
LEMMA PublishWriter ==
  ASSUME SingleProcess, LockHeld, VerifierTypeOK, PublishedVisible, WriterInv,
         NEW e \in Events, pc[e] = "exec", SetPointer(e),
         UNCHANGED <<log, visible, sigs, prev, seq, gone, altered>>,
         NEW to \in {"acked", "watch"}, pc' = [pc EXCEPT ![e] = to]
  PROVE  WriterInv'
<1> USE DEF WriterInv
<1>0. PICK L : L = Len(log)
  OBVIOUS
<1> USE <1>0
<1>1. /\ L \in Nat /\ L > 0 /\ published \subseteq 1..L /\ visible \subseteq 1..L
      /\ \A i : Height(i)' = Height(i)
      /\ published' = published \union {L} /\ pointer' = sigs[L]
  BY Heights DEF RowWritten, HasRow, SetPointer, Height
<1>2. \A d \in Events : pc'[d] \notin {"lastrow", "insert", "commit", "exec"}
  <2>1. \A d \in Events : d # e => pc[d] \notin Working
    BY OneAtWork DEF Working
  <2> QED
    BY <2>1 DEF Working, VerifierTypeOK, TypeOK
<1>3. RowWritten' /\ LastStays' /\ ReadIsCurrent' /\ ReadGrows' /\ ReadContinues'
  BY <1>2 DEF RowWritten, LastStays, ReadIsCurrent, ReadGrows, ReadContinues, HasRow, Holding
<1>4. Intact'
  BY <1>1 DEF Intact, compute_hash
<1>5. \A m \in visible : ~(L < m)
  BY <1>1
<1>6. PointerNamesNewest'
  <2>1. L \in published' /\ pointer' = sigs'[L] /\ NoneAfter(L)'
    BY <1>1 DEF NoneAfter
  <2> QED
    BY <1>5, <2>1 DEF PointerNamesNewest
<1>7. Grows'
  BY <1>1, <1>5 DEF Grows
<1>8. PublishedContinued'
  BY <1>1, <1>5 DEF PublishedContinued, Follows
<1> QED
  BY <1>3, <1>4, <1>6, <1>7, <1>8

(* Damage keeps the invariant: only an altered row ceases to be intact.    *)
LEMMA DamageWriter ==
  ASSUME VerifierTypeOK, PublishedVisible, WriterInv,
         NEW i \in 1..Len(log), Alter(i) \/ Delete(i)
  PROVE  WriterInv'
<1> USE DEF WriterInv
<1>1. /\ UNCHANGED <<visible, pointer, pc, prev, seq, published, sigs>>
      /\ log' \in Seq(Row) /\ Len(log') = Len(log)
      /\ \A j \in 1..Len(log) : log'[j].prev = log[j].prev /\ (j # i => log'[j] = log[j])
      /\ log'[i].hash \in {log[i].hash, compute_hash(log[i].prev, log'[i].event)}
      /\ \/ /\ gone' = gone /\ altered' = altered \union {i}
         \/ /\ gone' = gone \union {i} /\ altered' = altered
            /\ i < Latest(visible) /\ log' = log
  BY Damaged
<1>2. /\ Len(log) \in Nat /\ published \subseteq visible
      /\ \A j \in visible : j \in 1..Len(log)
      /\ \A j \in 1..Len(log) : Height(j) \in Nat /\ log[j].prev \in Hash
      /\ Latest(visible) \in Nat
  BY Heights, LatestVisible DEF PublishedVisible, VerifierTypeOK
<1>3. /\ \A j \in 1..Len(log) : Height(j)' = Height(j)
      /\ \A r : NoneAfter(r)' = NoneAfter(r)
      /\ altered \subseteq altered' /\ Latest(visible)' = Latest(visible)
  BY <1>1 DEF Height, NoneAfter
<1>4. ReadIsCurrent'
  BY <1>1 DEF ReadIsCurrent, Holding
<1>5. RowWritten'
  <2>1. Len(log) > 0 => log'[Len(log)].prev = log[Len(log)].prev
    BY <1>1, <1>2
  <2> QED
    BY <1>1, <2>1 DEF RowWritten, compute_hash
<1>6. LastStays'
  <2>1. i # Latest(visible) \/ gone' = gone
    BY <1>1, <1>2
  <2> QED
    BY <1>1, <1>3, <2>1 DEF LastStays
<1>7. Intact'
  <2> SUFFICES ASSUME NEW j \in 1..Len(log)
               PROVE  /\ Len(log'[j].hash) = Height(j) + 1 /\ Len(sigs[j]) = Height(j) + 1
                      /\ j \notin altered' =>
                           /\ sigs[j] = log'[j].hash
                           /\ log'[j].hash = compute_hash(log'[j].prev, log'[j].event)
    BY <1>1, <1>3 DEF Intact, compute_hash
  <2>1. CASE log'[j] = log[j]
    BY <1>3, <2>1 DEF Intact
  <2>2. CASE log'[j] # log[j]
    <3>1. j = i /\ j \in altered'
      BY <1>1, <2>2
    <3>2. Len(compute_hash(log[i].prev, log'[i].event)) = Height(i) + 1
      BY <1>2 DEF compute_hash, Hash, Height
    <3> QED
      BY <1>1, <3>1, <3>2 DEF Intact
  <2> QED
    BY <2>1, <2>2
<1>8. PointerNamesNewest'
  BY <1>1, <1>2, <1>3 DEF PointerNamesNewest
<1>9. Grows'
  BY <1>1, <1>2, <1>3 DEF Grows
<1>10. ReadGrows'
  BY <1>1, <1>2, <1>3 DEF ReadGrows, Holding
<1>11. PublishedContinued'
  <2>1. \A m \in visible : log'[m].prev = log[m].prev
    BY <1>1, <1>2
  <2>2. \A r \in published : Height(r)' = Height(r)
    BY <1>2, <1>3
  <2>3. \A r \in published \ altered' : r \in published \ altered
    BY <1>3
  <2> QED
    BY <1>1, <2>1, <2>2, <2>3 DEF PublishedContinued, Follows
<1>12. ReadContinues'
  BY <1>1, <1>2, <1>3 DEF ReadContinues, Follows, Holding
<1> QED
  BY <1>4, <1>5, <1>6, <1>7, <1>8, <1>9, <1>10, <1>11, <1>12

(* Every step keeps the invariant of the one process of writers.           *)
LEMMA WriterStep ==
  ASSUME SingleProcess, LockHeld, VerifierTypeOK, PublishedVisible, WriterInv,
         [VerifierNext]_allVars
  PROVE  WriterInv'
<1>1. CASE Write
  <2>1. UNCHANGED <<gone, altered>> /\ (log' = log => sigs' = sigs)
    BY <1>1 DEF Write, VerifierTypeOK, TypeOK
  <2>2. ASSUME NEW e \in Events, UNCHANGED visible,
               \/ Acquire(e) \/ Watch(e) \/ ExecConflict(e) \/ ConnectionLost(e) \/ Abort(e)
        PROVE  WriterInv'
    <3>1. UNCHANGED <<log, published, seq, pointer, prev>>
      BY <2>2 DEF Acquire, Watch, ExecConflict, ConnectionLost, Abort
    <3>2. \A d \in Events : pc'[d] \in {"lastrow", "insert", "commit", "exec"} => pc'[d] = pc[d]
      BY <2>2 DEF Acquire, Watch, ExecConflict, ConnectionLost, Abort, Goto,
           VerifierTypeOK, TypeOK
    <3> QED
      BY <2>1, <2>2, <3>1, <3>2, QuietWriter
  <2>3. CASE LosePointer
    BY <2>1, <2>3, QuietWriter DEF LosePointer
  <2>4. ASSUME NEW e \in Events, GetPointer(e) \/ LastRow(e) PROVE WriterInv'
    <3>1. UNCHANGED sigs
      BY <2>1, <2>4 DEF GetPointer, LastRow
    <3> QED
      BY <2>1, <2>4, <3>1, ReadWriter
  <2>5. ASSUME NEW e \in Events, Insert(e) PROVE WriterInv'
    BY <1>1, <2>5, InsertWriter
  <2>6. ASSUME NEW e \in Events, Exec(e) \/ ReplyLost(e) PROVE WriterInv'
    BY <2>1, <2>6, PublishWriter DEF Exec, ReplyLost, Goto
  <2>7. ASSUME NEW e \in Events, Commit(e) PROVE WriterInv'
    BY <2>1, <2>7, ShowWriter DEF Commit, Goto
  <2>8. ASSUME NEW e \in Events, Abort(e) PROVE WriterInv'
    <3>1. CASE UNCHANGED visible
      BY <2>2, <2>8, <3>1
    <3>2. CASE pc[e] = "commit" /\ Show(e)
      BY <2>1, <2>8, <3>2, ShowWriter DEF Abort
    <3> QED
      BY <2>8, <3>1, <3>2 DEF Abort
  <2>9. ASSUME NEW e \in Events,
               Acquire(e) \/ Watch(e) \/ ExecConflict(e) \/ ConnectionLost(e)
        PROVE  WriterInv'
    <3>1. UNCHANGED visible
      BY <2>9 DEF Acquire, Watch, ExecConflict, ConnectionLost
    <3> QED
      BY <2>2, <2>9, <3>1
  <2>10. Next
    BY <1>1 DEF Write
  <2> QED
    BY <2>3, <2>4, <2>5, <2>6, <2>7, <2>8, <2>9, <2>10 DEF Next, Step
<1>2. ASSUME NEW v \in Verifiers, Verify(v) \/ PassDies(v) \/ Revive(v)
      PROVE  WriterInv'
  BY <1>2, PassTypes, QuietWriter
<1>3. ASSUME NEW i \in 1..Len(log), Alter(i) \/ Delete(i) PROVE WriterInv'
  BY <1>3, DamageWriter
<1>4. CASE UNCHANGED allVars
  BY <1>4, QuietWriter DEF allVars, vars, verifierVars
<1> QED
  BY <1>1, <1>2, <1>3, <1>4 DEF VerifierNext

(* The lock of the one process is kept, whatever the verifiers do.         *)
LEMMA LockHeldBeside ==
  ASSUME SingleProcess, VerifierTypeOK, LockHeld, [VerifierNext]_allVars
  PROVE  LockHeld'
<1>1. TypeOK
  BY DEF VerifierTypeOK
<1>2. Next \/ UNCHANGED <<lock, pc>>
  BY PassTypes, Damaged DEF VerifierNext, Write, allVars, vars
<1> QED
  BY <1>1, <1>2, LockHeldStep DEF LockHeld

(* It holds throughout.                                                    *)
LEMMA WriterHolds ==
  ASSUME SingleProcess
  PROVE  VerifierSpec => [](LockHeld /\ WriterInv)
<1>1. VerifierInit => LockHeld /\ WriterInv
  BY DEF VerifierInit, Init, LockHeld, Working, WriterInv, RowWritten, Intact, LastStays,
         PointerNamesNewest, ReadIsCurrent, Grows, ReadGrows, PublishedContinued,
         ReadContinues, HasRow, Holding, Latest
<1>2. /\ VerifierTypeOK /\ PublishedVisible /\ LockHeld /\ WriterInv /\ [VerifierNext]_allVars
      => (LockHeld /\ WriterInv)'
  BY WriterStep, LockHeldBeside
<1> QED
  BY <1>1, <1>2, VerifierTypesHold, PTL DEF VerifierSpec

-----------------------------------------------------------------------------
(* No published row is missing, and no alarm is false.                     *)

NonesTrusted == \A n \in Seqs : ReliedOn(n) => NoneMissing(n)

(* A failure is at damage, right behind damage, or right behind a row that *)
(* was never published.                                                    *)
RealAlarm(i) ==
  i # 0 =>
    i \in damaged \/ RowBefore(i) \in damaged \/ RowBefore(i) \in visible \ published

AlarmsTrue == \A v \in Verifiers : RealAlarm(alarm[v]) /\ RealAlarm(pass[v].fail)

(* No row is committed behind a pass: a call commits the last row, and no  *)
(* pass relies on a row that is not committed.                             *)
AllSeen == unseen = {}

(* The row that a writer publishes, or commits, is the last one.           *)
LEMMA WritesLast ==
  ASSUME VerifierTypeOK, PublishedVisible, WriterInv, Write
  PROVE  /\ published' \subseteq published \union {Len(log)}
         /\ visible \subseteq visible'
         /\ visible' = visible \/ (visible' = visible \union {Len(log)} /\ Len(log) \notin visible)
         /\ \A i \in published' : i \in published \/ (i = Latest(visible) /\ i \in visible)
<1>1. ASSUME NEW e \in Events, Exec(e) \/ ReplyLost(e)
      PROVE  /\ published' = published \union {Len(log)} /\ visible' = visible
             /\ Len(log) = Latest(visible) /\ Len(log) \in visible
  <2>1. /\ pc[e] = "exec" /\ published' = published \union {seq[e]} /\ visible' = visible
    BY <1>1 DEF Exec, ReplyLost, SetPointer, Goto
  <2>2. seq[e] = Len(log) /\ Len(log) \in visible
    BY <2>1 DEF WriterInv, RowWritten, PublishedVisible, HasRow
  <2>3. \A j \in visible : j <= Len(log) /\ j \in Nat
    BY Heights
  <2>4. Latest(visible) = Len(log)
    <3>1. visible \subseteq Nat
      BY <2>3
    <3> QED
      BY <2>2, <2>3, <3>1, LatestIs
  <2> QED
    BY <2>1, <2>2, <2>4
<1>2. ASSUME NEW e \in Events, Commit(e) \/ Abort(e)
      PROVE  /\ published' = published
             /\ \/ visible' = visible
                \/ visible' = visible \union {Len(log)} /\ Len(log) \notin visible
  <2>1. CASE pc[e] = "commit" /\ Show(e)
    BY <1>2, <2>1 DEF Commit, Abort, Show, WriterInv, RowWritten, HasRow
  <2>2. CASE visible' = visible
    BY <1>2, <2>2 DEF Commit, Abort
  <2> QED
    BY <1>2, <2>1, <2>2 DEF Commit, Abort, Goto
<1>3. ASSUME NEW e \in Events,
             \/ Acquire(e) \/ Watch(e) \/ GetPointer(e) \/ LastRow(e) \/ Insert(e)
             \/ ExecConflict(e) \/ ConnectionLost(e)
      PROVE  published' = published /\ visible' = visible
  BY <1>3 DEF Acquire, Watch, GetPointer, LastRow, Insert, ExecConflict, ConnectionLost
<1>4. CASE LosePointer
  BY <1>4 DEF LosePointer
<1> QED
  BY <1>1, <1>2, <1>3, <1>4 DEF Write, Next, Step

(* Every step of one process keeps all rows seen.                          *)
LEMMA AllSeenStep ==
  ASSUME VerifierTypeOK, PublishedVisible, WriterInv, RelyOnRows, Anchored, AllSeen,
         VerifierNext
  PROVE  AllSeen'
<1>1. CASE Write
  <2> SUFFICES ASSUME NEW i \in visible' \ visible, AlreadyRead(i) PROVE FALSE
    BY <1>1 DEF Write, AllSeen
  <2>1. /\ i = Len(log) /\ i \notin visible /\ Len(log) \in Nat
        /\ \A j \in visible : j \in 1..Len(log)
    BY <1>1, WritesLast, Heights
  <2>2. ASSUME NEW n, ReliedOn(n), i <= n PROVE FALSE
    <3>1. n \in Seqs
      BY <2>2 DEF ReliedOn, VerifierTypeOK
    <3>2. n = 0 \/ n \in visible
      BY <2>2, <3>1 DEF RelyOnRows
    <3>3. CASE n = 0
      <4>1. Len(log) = 0
        BY <2>1, <2>2, <3>3
      <4>2. Len(log') >= Len(log)
        BY <1>1, WriteAppends
      <4>3. ~\E e \in Events : pc[e] \in HasRow
        BY <4>1 DEF WriterInv, RowWritten
      <4>4. visible' = visible
        BY <1>1, <4>3 DEF Write, Next, Step, Acquire, Watch, GetPointer, LastRow, Insert,
           Commit, Exec, ExecConflict, ConnectionLost, ReplyLost, Abort, LosePointer, Goto,
           HasRow
      <4> QED
        BY <4>4
    <3>4. CASE n \in visible
      BY <2>1, <2>2, <3>4
    <3> QED
      BY <3>2, <3>3, <3>4
  <2> QED
    BY <2>2 DEF AlreadyRead, ReliedOn
<1>2. ASSUME NEW v \in Verifiers, Verify(v) \/ PassDies(v) \/ Revive(v) PROVE AllSeen'
  BY <1>2, PassTypes DEF AllSeen
<1>3. ASSUME NEW i \in 1..Len(log), Alter(i) \/ Delete(i) PROVE AllSeen'
  BY <1>3, Damaged DEF AllSeen
<1> QED
  BY <1>1, <1>2, <1>3 DEF VerifierNext

(* A pass that steps over a deleted row finds its hash in the row before:  *)
(* the row behind was written right above it.                              *)
LEMMA ScanFinds ==
  ASSUME VerifierTypeOK, PublishedVisible, WriterInv, Anchored, NonesTrusted,
         NEW v \in Verifiers, Scan(v)
  PROVE  NoneMissing(pass'[v].upto)
<1>0. PICK a : a = pass[v].loaded
  OBVIOUS
<1>1. PICK n : n = pass'[v].upto
  OBVIOUS
<1>2. /\ n \in {a} \union Behind(a)
      /\ \A i \in Behind(a) : i <= n => Continues(i, Carried(v, i))
  BY <1>0, <1>1, Scanned
<1>3. /\ a \in Seqs /\ a \in Nat /\ Len(log) \in Nat
      /\ \A i : i \in Behind(a) <=> i \in visible /\ i > a /\ i \notin gone
      /\ \A i \in Behind(a) : i \in 1..Len(log)
  BY <1>0, BehindRange DEF VerifierTypeOK, Seqs
<1>4. n \in Nat /\ n <= Len(log)
  BY <1>2, <1>3 DEF Seqs
<1>5. NoneMissing(a)
  BY <1>0, <1>3 DEF NonesTrusted, ReliedOn
<1>6. ASSUME NEW i \in (published \cap 1..n) \ (late \union altered) PROVE Present(i)
  <2>0. i \in visible /\ i \in 1..Len(log) /\ i \in Nat /\ i > 0 /\ i <= n
    BY <1>3, <1>4, <1>6 DEF PublishedVisible
  <2>1. CASE i <= a
    BY <1>3, <1>5, <1>6, <2>0, <2>1 DEF NoneMissing
  <2>2. CASE i \notin gone
    <3>1. i \in Kept(i)
      BY <2>0, <2>2, KeptRange
    <3> QED
      BY <3>1 DEF Present
  <2>3. CASE i > a /\ i \in gone
    <3> DEFINE S == {j \in Behind(a) : j > i}
    <3>1. n \in S /\ S \subseteq Nat
      BY <1>2, <1>3, <1>4, <2>0, <2>3
    <3>2. PICK m \in S : \A j \in S : m <= j
      <4> HIDE DEF S
      <4> QED
        BY <3>1, LeastOf
    <3>3. /\ m \in visible /\ m \in 1..Len(log) /\ m \in Behind(a) /\ i < m /\ m <= n
      BY <1>3, <3>1, <3>2
    <3>4. {j \in Behind(a) : j < m} = {j \in Behind(a) : j < i}
      <4>1. ASSUME NEW j \in Behind(a), j < m PROVE j < i
        BY <1>3, <2>0, <2>3, <3>2, <3>3, <4>1
      <4>2. ASSUME NEW j \in Behind(a), j < i PROVE j < m
        BY <1>3, <2>0, <3>3, <4>2
      <4> QED
        BY <4>1, <4>2
    <3>5. log[m].prev = Carried(v, i)
      <4>1. Carried(v, m) = Carried(v, i)
        BY <1>0, <3>4 DEF Carried
      <4> QED
        BY <1>2, <3>3, <4>1 DEF Continues
    <3>6. /\ Height(i) \in Nat /\ Height(m) \in Nat /\ Height(i) < Height(m)
      BY <1>6, <2>0, <3>3, Heights DEF WriterInv, Grows
    <3>7. PICK b \in Before(i) :
            \/ b = 0 /\ a = 0 /\ Carried(v, i) = Genesis
            \/ /\ b # 0
               /\ \/ b \in late
                  \/ b \in Behind(a) /\ Carried(v, i) = log[b].hash
                  \/ b = a /\ Carried(v, i) = sigs[b]
      BY <1>0, <2>0, <2>3, CarriedIs
    <3>8. CASE b \in late
      BY <3>8 DEF Present
    <3>9. CASE b = 0 /\ Carried(v, i) = Genesis
      <4>1. Height(m) = 0
        BY <3>5, <3>9 DEF Height, Genesis
      <4> QED
        BY <3>6, <4>1
    <3>10. ASSUME b # 0, Carried(v, i) = sigs[b] \/ (b \in Behind(a) /\ Carried(v, i) = log[b].hash)
           PROVE  Present(i)
      <4>1. b \in Kept(i - 1) /\ b \in 0..(i - 1)
        BY <2>0, <3>10, BeforeIs
      <4>2. b \in visible /\ b \in 1..Len(log) /\ b < i /\ b <= n /\ i - 1 \in Nat
        BY <1>3, <1>4, <2>0, <3>10, <4>1, KeptRange
      <4>3. b \in Kept(i)
        BY <2>0, <4>1, <4>2, KeptRange
      <4>4. log[m].prev = sigs[b]
        <5>1. b \in Behind(a) => sigs[b] = log[b].hash
          BY <1>2, <4>2 DEF Continues
        <5> QED
          BY <3>5, <3>10, <5>1
      <4>5. Height(m) = Height(b) + 1 /\ Height(b) \in Nat
        BY <4>2, <4>4, Heights DEF WriterInv, Intact, Height
      <4>6. Height(b) <= Height(i)
        BY <2>0, <4>2 DEF WriterInv, Grows
      <4>7. Height(m) = Height(i) + 1
        BY <3>6, <4>5, <4>6
      <4>8. log[m].prev = sigs[i]
        BY <1>6, <3>3, <4>7 DEF WriterInv, PublishedContinued, Follows, Height
      <4> QED
        BY <4>3, <4>4, <4>8 DEF Present
    <3> QED
      BY <3>7, <3>8, <3>9, <3>10
  <2> QED
    BY <1>3, <2>0, <2>1, <2>2, <2>3
<1> QED
  BY <1>1, <1>6 DEF NoneMissing

(* Every step keeps the rows that are relied on complete.                  *)
LEMMA NonesTrustedStep ==
  ASSUME VerifierTypeOK, RowExists, PublishedVisible, WriterInv, Anchored, NonesTrusted,
         VerifierNext
  PROVE  NonesTrusted'
<1>0. /\ pass \in [Verifiers -> PassType] /\ checkpoint \in Seqs /\ Len(log) \in Nat
      /\ published \subseteq 1..Len(log) /\ Len(sigs) = Len(log)
      /\ \A n : ReliedOn(n) => n \in Seqs /\ NoneMissing(n)
      /\ IdleIsIdle
  BY DEF VerifierTypeOK, TypeOK, PassType, NonesTrusted, ReliedOn, Anchored, IdleIsIdle
<1> SUFFICES ASSUME NEW n \in Seqs', ReliedOn(n)' PROVE NoneMissing(n)'
  BY DEF NonesTrusted
<1>1. CASE Write
  <2>1. ReliedOn(n) /\ UNCHANGED <<late, altered, gone>>
    BY <1>1 DEF Write, ReliedOn
  <2>2. n \in Nat /\ n <= Len(log) /\ NoneMissing(n)
    BY <1>0, <2>1 DEF Seqs
  <2>3. /\ \A m : Kept(m) \subseteq Kept(m)'
        /\ \A m \in 1..n : Before(m) \subseteq Before(m)'
        /\ \A i \in 1..Len(log) : sigs'[i] = sigs[i]
        /\ \A i \in published' : i \in published \/ (i = Latest(visible) /\ i \in visible)
    BY <1>0, <1>1, <2>1, WriteKeepsRows, WriteAppends, WritesLast
  <2>4. ASSUME NEW i \in (published' \cap 1..n) \ (late \union altered) PROVE Present(i)'
    <3>1. i \in 1..Len(log) /\ i \in Nat /\ Kept(i) \subseteq 1..Len(log)
      BY <1>0, <2>2, KeptRange
    <3>2. Present(i)
      <4>1. CASE i \in published
        BY <2>2, <2>4, <4>1 DEF NoneMissing
      <4>2. CASE i = Latest(visible) /\ i \in visible
        <5>1. i \in Kept(i)
          BY <3>1, <4>2, KeptRange DEF WriterInv, LastStays
        <5> QED
          BY <5>1 DEF Present
      <4> QED
        BY <2>3, <4>1, <4>2
    <3>3. CASE Before(i) \cap late # {}
      BY <2>1, <2>3, <2>4, <3>3 DEF Present
    <3>4. ASSUME NEW j \in Kept(i), sigs[j] = sigs[i] PROVE Present(i)'
      <4>1. j \in Kept(i)' /\ j \in 1..Len(log) /\ sigs'[j] = sigs'[i]
        BY <2>3, <3>1, <3>4
      <4> QED
        BY <4>1 DEF Present
    <3> QED
      BY <3>2, <3>3, <3>4 DEF Present
  <2> QED
    BY <2>1, <2>4 DEF NoneMissing
<1>2. ASSUME NEW k \in 1..Len(log), Alter(k) \/ Delete(k) PROVE NoneMissing(n)'
  <2>1. ReliedOn(n) /\ UNCHANGED <<sigs, published>> /\ altered \subseteq altered'
    BY <1>2, Damaged DEF ReliedOn
  <2>3. /\ \A m \in 0..n : Kept(m)' = Kept(m)
        /\ \A m \in 1..n : Before(m)' = Before(m)
        /\ late \subseteq late'
    BY <1>0, <1>2, <2>1, DamageKeepsRows
  <2>4. ASSUME NEW i \in (published \cap 1..n) \ (late' \union altered') PROVE Present(i)'
    <3>1. Present(i) /\ i \in 0..n
      BY <1>0, <2>1, <2>3, <2>4 DEF NoneMissing, Seqs
    <3>2. Kept(i)' = Kept(i) /\ Before(i)' = Before(i)
      BY <2>3, <3>1
    <3> QED
      BY <2>1, <2>3, <3>1, <3>2 DEF Present
  <2> QED
    BY <2>1, <2>4 DEF NoneMissing
<1>3. ASSUME NEW v \in Verifiers, Verify(v) \/ PassDies(v) \/ Revive(v)
      PROVE  NoneMissing(n)'
  <2>1. UNCHANGED <<published, visible, sigs, gone, late, altered, unseen>>
    BY <1>3, PassTypes
  <2>2. \A m : Kept(m)' = Kept(m) /\ Before(m)' = Before(m)
    BY <2>1 DEF Kept, Before
  <2>3. NoneMissing(n)' = NoneMissing(n)
    BY <2>1, <2>2 DEF NoneMissing, Present
  <2>4. ReliedOn(n) \/ n = 0 \/ (Scan(v) /\ n = pass'[v].upto)
    BY <1>3, PassRelies
  <2>5. NoneMissing(0)
    BY DEF NoneMissing
  <2> QED
    BY <1>0, <2>3, <2>4, <2>5, ScanFinds
<1> QED
  BY <1>1, <1>2, <1>3 DEF VerifierNext

(* Where a pass fails with no damage at hand, the row before is stranded:  *)
(* a published one is continued by the row behind it.                      *)
LEMMA ScanIsRight ==
  ASSUME VerifierTypeOK, PublishedVisible, WriterInv, Anchored, AllSeen,
         NEW v \in Verifiers, Scan(v)
  PROVE  RealAlarm(pass'[v].fail)
<1>0. PICK i : i = pass'[v].fail
  OBVIOUS
<1>1. PICK r : r = RowBefore(i)
  OBVIOUS
<1> SUFFICES ASSUME i # 0, i \notin damaged, r \notin damaged, ~(r \in visible \ published)
             PROVE  FALSE
  BY <1>0, <1>1 DEF RealAlarm
<1>2. i \in Behind(pass[v].loaded) /\ ~Continues(i, Carried(v, i))
  BY <1>0, Scanned DEF Breaks
<1>3. /\ i \in visible /\ i \in 1..Len(log) /\ i > pass[v].loaded /\ Len(log) \in Nat
      /\ i \in Nat /\ i > 0 /\ i - 1 \in Nat
      /\ \A k \in visible : k \in 1..Len(log)
  BY <1>2, BehindRange DEF VerifierTypeOK
<1>4. /\ r \in 0..Len(log) /\ r \in {j \in visible : j < i} \union {0}
      /\ \A j \in visible : j < i => j <= r
  <2>1. {j \in visible : j < i} \subseteq 1..Len(log)
    BY <1>3
  <2>2. r = Latest({j \in visible : j < i})
    BY <1>1 DEF RowBefore
  <2> QED
    BY <1>3, <2>1, <2>2, LatestType
<1>5. /\ i \notin altered /\ gone \subseteq damaged /\ altered \subseteq damaged
      /\ late \subseteq damaged
  BY DEF VerifierTypeOK
<1>6. PICK b \in Before(i) :
        \/ b = 0 /\ pass[v].loaded = 0 /\ Carried(v, i) = Genesis
        \/ /\ b # 0
           /\ \/ b \in late
              \/ b \in Behind(pass[v].loaded) /\ Carried(v, i) = log[b].hash
              \/ b = pass[v].loaded /\ Carried(v, i) = sigs[b]
  BY <1>3, CarriedIs
<1>7. /\ b \in 0..(i - 1) /\ b \in {0} \union Kept(i - 1)
      /\ \A k \in Kept(i - 1) : k <= b
  BY <1>3, BeforeIs DEF AllSeen
<1>8. b = r
  <2>1. b <= r
    <3>1. CASE b = 0
      BY <1>4, <3>1
    <3>2. CASE b \in Kept(i - 1)
      <4>1. b \in visible /\ b < i
        BY <1>3, <1>7, <3>2, KeptRange
      <4> QED
        BY <1>4, <4>1
    <3> QED
      BY <1>7, <3>1, <3>2
  <2>2. CASE r = 0
    BY <1>7, <2>1, <2>2
  <2>3. CASE r # 0
    <3>1. r \in visible /\ r < i /\ r \notin gone /\ r \in Nat
      BY <1>3, <1>4, <1>5, <2>3
    <3>2. r \in Kept(i - 1)
      BY <1>3, <3>1, KeptRange
    <3>3. r <= b
      BY <1>7, <3>2
    <3> QED
      BY <1>3, <1>4, <1>7, <2>1, <3>3
  <2> QED
    BY <2>2, <2>3
<1>9. log[i].prev = Carried(v, i)
  <2>1. CASE r = 0
    <3>1. \A k \in visible : i <= k
      BY <1>3, <1>4, <2>1
    <3> QED
      BY <1>3, <1>6, <1>8, <2>1, <3>1 DEF WriterInv, PublishedContinued
  <2>2. CASE r # 0
    <3>1. r \in published /\ r \in 1..Len(log) /\ r < i /\ r \notin altered /\ r \notin late
      BY <1>3, <1>4, <1>5, <2>2
    <3>2. log[i].prev = sigs[r] /\ sigs[r] = log[r].hash
      BY <1>3, <1>4, <3>1 DEF WriterInv, PublishedContinued, Intact
    <3> QED
      BY <1>6, <1>8, <2>2, <3>1, <3>2
  <2> QED
    BY <2>1, <2>2
<1>10. /\ sigs[i] = log[i].hash /\ log[i].hash = compute_hash(log[i].prev, log[i].event)
  BY <1>3, <1>5 DEF WriterInv, Intact
<1> QED
  BY <1>2, <1>9, <1>10 DEF Continues, compute_hash

(* Every step keeps the alarms true.                                       *)
LEMMA AlarmsTrueStep ==
  ASSUME VerifierTypeOK, PublishedVisible, WriterInv, Anchored, AllSeen, AlarmsTrue,
         VerifierNext
  PROVE  AlarmsTrue'
<1>0. /\ pass \in [Verifiers -> PassType] /\ alarm \in [Verifiers -> Seqs]
      /\ Len(log) \in Nat /\ gone \subseteq damaged
      /\ \A v \in Verifiers : pass[v].fail \in Seqs /\ alarm[v] \in Seqs
  BY DEF VerifierTypeOK, TypeOK, PassType
<1>1. CASE Write
  <2>1. /\ UNCHANGED <<pass, alarm, damaged>>
        /\ published' \subseteq published \union {Len(log)} /\ visible \subseteq visible'
        /\ visible' \subseteq visible \union {Len(log)}
    BY <1>1, WritesLast DEF Write
  <2>2. ASSUME NEW i \in Seqs, RealAlarm(i) PROVE RealAlarm(i)'
    <3>1. i \in Nat /\ i <= Len(log)
      BY <1>0 DEF Seqs
    <3>2. {j \in visible' : j < i} = {j \in visible : j < i}
      BY <1>0, <2>1, <3>1
    <3>3. RowBefore(i)' = RowBefore(i)
      BY <3>2 DEF RowBefore
    <3>4. ASSUME RowBefore(i) \in visible \ published
          PROVE  RowBefore(i) \in visible' \ published'
      <4>1. {j \in visible : j < i} \subseteq 1..Len(log)
        BY Heights
      <4>2. RowBefore(i) \in {j \in visible : j < i} \union {0}
        BY <1>0, <4>1, LatestType DEF RowBefore
      <4>3. \A j \in visible : j # 0
        BY Heights
      <4>4. RowBefore(i) # Len(log)
        BY <1>0, <3>1, <3>4, <4>2, <4>3
      <4> QED
        BY <2>1, <3>4, <4>4
    <3> QED
      BY <2>1, <2>2, <3>3, <3>4 DEF RealAlarm
  <2> QED
    BY <1>0, <2>1, <2>2 DEF AlarmsTrue
<1>2. ASSUME NEW k \in 1..Len(log), Alter(k) \/ Delete(k) PROVE AlarmsTrue'
  <2>1. UNCHANGED <<pass, alarm, published, visible>> /\ damaged \subseteq damaged'
    BY <1>2, Damaged
  <2>2. \A i : RowBefore(i)' = RowBefore(i)
    BY <2>1 DEF RowBefore
  <2> QED
    BY <2>1, <2>2 DEF AlarmsTrue, RealAlarm
<1>3. ASSUME NEW v \in Verifiers, Verify(v) \/ PassDies(v) \/ Revive(v)
      PROVE  AlarmsTrue'
  <2>1. UNCHANGED <<published, damaged, visible>>
    BY <1>3, PassTypes
  <2>2. \A i : RealAlarm(i)' = RealAlarm(i)
    BY <2>1 DEF RealAlarm, RowBefore
  <2>3. \A u \in Verifiers : u # v => pass'[u] = pass[u] /\ alarm'[u] = alarm[u]
    BY <1>0, <1>3 DEF Verify, Anchor, AnchorMissing, Scan, Save, SaveCollides, PassDies,
         Revive, Die
  <2>4. RealAlarm(0)
    BY DEF RealAlarm
  <2>5. RealAlarm(alarm'[v]) /\ RealAlarm(pass'[v].fail)
    <3>1. CASE Anchor(v) \/ Revive(v) \/ SaveCollides(v) \/ PassDies(v)
      <4>1. CASE Anchor(v)
        <5>1. alarm' = alarm /\ pass'[v] = [Idle EXCEPT !.stage = "scan", !.loaded = checkpoint,
                                                        !.prev = HashAt(checkpoint)]
          BY <1>0, <4>1 DEF Anchor
        <5> QED
          BY <2>4, <5>1 DEF AlarmsTrue, Idle
      <4>2. CASE Revive(v) \/ SaveCollides(v) \/ PassDies(v)
        <5>1. alarm' = alarm /\ pass'[v] \in {Idle, [Idle EXCEPT !.stage = "dead"]}
          BY <1>0, <4>2 DEF Revive, SaveCollides, PassDies, Die
        <5> QED
          BY <2>4, <5>1 DEF AlarmsTrue, Idle
      <4> QED
        BY <3>1, <4>1, <4>2
    <3>2. CASE AnchorMissing(v)
      <4>1. alarm'[v] \in damaged /\ pass' = pass
        BY <1>0, <3>2 DEF AnchorMissing
      <4> QED
        BY <4>1 DEF AlarmsTrue, RealAlarm
    <3>3. CASE Save(v)
      <4>1. alarm'[v] = pass[v].fail /\ pass'[v].fail = 0
        BY <1>0, <3>3 DEF Save, Idle
      <4> QED
        BY <2>4, <4>1 DEF AlarmsTrue
    <3>4. CASE Scan(v)
      <4>1. alarm' = alarm
        BY <3>4 DEF Scan
      <4> QED
        BY <3>4, <4>1, ScanIsRight DEF AlarmsTrue
    <3> QED
      BY <1>3, <3>1, <3>2, <3>3, <3>4 DEF Verify
  <2> QED
    BY <2>2, <2>3, <2>5 DEF AlarmsTrue
<1> QED
  BY <1>1, <1>2, <1>3 DEF VerifierNext

(* Both hold throughout, with one process of writers.                      *)
LEMMA VerifierHolds ==
  ASSUME SingleProcess
  PROVE  VerifierSpec => [](AllSeen /\ NonesTrusted /\ AlarmsTrue)
<1> DEFINE Hold == AllSeen /\ NonesTrusted /\ AlarmsTrue
           Known == /\ VerifierTypeOK /\ RowExists /\ PublishedVisible
                    /\ WriterInv /\ Anchored /\ RelyOnRows
<1>1. VerifierInit => Hold
  BY DEF VerifierInit, Init, AllSeen, NonesTrusted, NoneMissing, AlarmsTrue, RealAlarm, Idle
<1>2. Known /\ Hold /\ VerifierNext => Hold'
  BY AllSeenStep, NonesTrustedStep, AlarmsTrueStep
<1>3. ASSUME Hold, UNCHANGED allVars
      PROVE  Hold'
  <2>1. UNCHANGED <<log, visible, published, sigs, gone, late, altered, damaged, unseen, pass,
                    checkpoint, alarm>>
    BY <1>3 DEF allVars, vars, verifierVars
  <2>2. \A n : Kept(n)' = Kept(n) /\ Before(n)' = Before(n) /\ ReliedOn(n)' = ReliedOn(n)
    BY <2>1 DEF Kept, Before, ReliedOn
  <2>3. \A n : NoneMissing(n)' = NoneMissing(n) /\ RealAlarm(n)' = RealAlarm(n)
    BY <2>1, <2>2 DEF NoneMissing, Present, RealAlarm, RowBefore
  <2>4. Seqs' = Seqs
    BY <2>1 DEF Seqs
  <2> QED
    BY <1>3, <2>1, <2>2, <2>3, <2>4 DEF NonesTrusted, AlarmsTrue, AllSeen
<1> HIDE DEF Hold
<1>4. Known /\ Hold /\ [VerifierNext]_allVars => Hold'
  BY <1>2, <1>3
<1>5. /\ VerifierTypeOK /\ RowExists /\ PublishedVisible
      /\ LockHeld /\ WriterInv /\ Anchored /\ RowsTrusted /\ RelyOnRows
      => Known
  OBVIOUS
<1> HIDE DEF Known
<1>6. VerifierSpec => []Hold
  BY <1>1, <1>4, <1>5, WriterHolds, TrustHolds, VerifierTypesHold, PTL DEF VerifierSpec
<1> QED
  BY <1>6 DEF Hold

(* With one gateway process, and any number of verifiers: the checkpoint   *)
(* vouches for the rows up to it, and none of the published ones is        *)
(* missing unnoticed (audit_verifier.py:36-76).                            *)
THEOREM CheckpointHidesNothing ==
  ASSUME SingleProcess
  PROVE  VerifierSpec => []NeverPastABreak
<1>1. VerifierTypeOK /\ RowsTrusted /\ NonesTrusted => NeverPastABreak
  BY DEF VerifierTypeOK, RowsTrusted, NonesTrusted, ReliedOn, NeverPastABreak
<1> QED
  BY <1>1, VerifierHolds, TrustHolds, VerifierTypesHold, PTL

(* With one gateway process, no pass raises an alarm over the rows of      *)
(* writers that work beside it (audit_verifier.py:57-69).                  *)
THEOREM AlarmsAreTrue ==
  ASSUME SingleProcess
  PROVE  VerifierSpec => []AlarmsAreReal
<1>1. AlarmsTrue => AlarmsAreReal
  BY DEF AlarmsTrue, RealAlarm, AlarmsAreReal
<1> QED
  BY <1>1, VerifierHolds, PTL

-----------------------------------------------------------------------------
(* The promise of HashChainLog, kept by one process of writers.            *)

Extends(s, t) == Len(s) <= Len(t) /\ \A i \in 1..Len(s) : s[i] = t[i]

(* Every row from the newest published one on commits to a history that    *)
(* extends the one promised, and so does what a writer is about to add.    *)
HistoryKept ==
  /\ \A k \in Newest..Len(log) : Extends(HashAt(Newest), HashAt(k))
  /\ \A e \in Events :
       pc[e] \in {"insert", "commit", "exec"} => Extends(HashAt(Newest), prev[e])

HistoryTyped == HashAt(Newest) \in Hash

(* A history that extends another has it as a prefix.                      *)
LEMMA ExtendsIsPrefix ==
  ASSUME NEW s \in Hash, NEW t \in Hash, Extends(s, t)
  PROVE  Promise!IsPrefix(s, t)
<1>1. SubSeq(s, 1, Len(s)) = SubSeq(t, 1, Len(s))
  BY DEF Extends, Hash
<1> QED
  BY <1>1 DEF Extends, Promise!IsPrefix

(* Appending an event to a history extends what it extends, strictly.      *)
LEMMA ExtendsAppend ==
  ASSUME NEW s \in Hash, NEW t \in Hash, Extends(s, t), NEW e \in Events
  PROVE  /\ Append(t, e) \in Hash /\ Extends(s, Append(t, e))
         /\ s # Append(t, e) /\ e \in Promise!ToSet(Append(t, e))
<1>1. /\ Append(t, e) \in Hash /\ Len(Append(t, e)) = Len(t) + 1
      /\ \A i \in 1..Len(t) : Append(t, e)[i] = t[i]
      /\ Append(t, e)[Len(t) + 1] = e
      /\ DOMAIN Append(t, e) = 1..(Len(t) + 1)
      /\ Len(s) \in Nat /\ Len(t) \in Nat
  BY DEF Hash
<1>2. Extends(s, Append(t, e)) /\ Len(s) < Len(Append(t, e))
  BY <1>1 DEF Extends
<1>3. e \in Promise!ToSet(Append(t, e))
  BY <1>1 DEF Promise!ToSet
<1> QED
  BY <1>1, <1>2, <1>3

(* The newest row is the last of the published ones, 0 without any.        *)
LEMMA NewestIs ==
  ASSUME TypeOK
  PROVE  /\ Newest \in 0..Len(log) /\ Len(log) \in Nat
         /\ published = {} => Newest = 0
         /\ published # {} => Newest \in published
         /\ \A j \in published : j <= Newest
<1>1. published \subseteq 1..Len(log) /\ Len(log) \in Nat
  BY DEF TypeOK
<1>2. /\ Newest \in 0..Len(log) /\ Newest \in published \union {0}
      /\ \A j \in published : j <= Newest
      /\ Newest = 0 => published = {}
  BY <1>1, LatestType DEF Newest
<1>3. published = {} => Newest = 0
  BY DEF Newest, Latest
<1> QED
  BY <1>1, <1>2, <1>3

(* What is published last becomes the newest row.                          *)
LEMMA NewestMoves ==
  ASSUME TypeOK, Len(log) \in published', published' \subseteq 1..Len(log)
  PROVE  Newest' = Len(log)
<1>1. Newest' = Latest(published')
  BY DEF Newest, Latest
<1>2. published' \subseteq Nat /\ \A j \in published' : j <= Len(log)
  BY DEF TypeOK
<1> QED
  BY <1>1, <1>2, LatestIs

(* A step that leaves the log and the published rows alone, and has no     *)
(* call read, keeps the history.                                           *)
LEMMA QuietHistory ==
  ASSUME HistoryKept, UNCHANGED <<log, published>>,
         \A d \in Events :
           pc'[d] \in {"insert", "commit", "exec"} =>
             pc[d] \in {"insert", "commit", "exec"} /\ prev'[d] = prev[d]
  PROVE  HistoryKept' /\ HashAt(Newest)' = HashAt(Newest)
<1>1. Newest' = Newest /\ \A k : HashAt(k)' = HashAt(k)
  BY DEF Newest, Latest, HashAt
<1> QED
  BY <1>1 DEF HistoryKept, Extends

(* What a call reads extends the history promised.                         *)
LEMMA ReadHistory ==
  ASSUME IInv, HistoryKept, NEW e \in Events, GetPointer(e) \/ LastRow(e)
  PROVE  HistoryKept' /\ HashAt(Newest)' = HashAt(Newest)
<1> USE DEF IInv
<1>1. UNCHANGED <<log, pointer, published>>
  BY DEF GetPointer, LastRow
<1>2. Newest' = Newest /\ \A k : HashAt(k)' = HashAt(k)
  BY <1>1 DEF Newest, Latest, HashAt
<1>3. /\ \A d \in Events : d # e => pc'[d] = pc[d] /\ prev'[d] = prev[d]
      /\ pc'[e] \in {"insert", "lastrow"}
  BY DEF GetPointer, LastRow, Goto, TypeOK
<1>4. Newest \in 0..Len(log) /\ Len(log) \in Nat
  BY NewestIs
<1>5. ASSUME pc'[e] = "insert"
      PROVE  \E k \in Newest..Len(log) : prev'[e] = HashAt(k)
  <2>1. CASE GetPointer(e)
    <3>1. pointer # NoPointer /\ prev'[e] = pointer
      BY <1>5, <2>1 DEF GetPointer, Goto, TypeOK
    <3>2. PICK k \in published : pointer = log[k].hash /\ NoneAfter(k)
      BY <3>1 DEF PointerIsNewest
    <3>3. k = Newest /\ k # 0
      BY <3>2, NewestIs DEF NoneAfter, TypeOK
    <3> QED
      BY <1>4, <3>1, <3>2, <3>3 DEF HashAt
  <2>2. CASE LastRow(e)
    <3>1. prev'[e] = HashAt(Latest(visible))
      BY <2>2 DEF LastRow, TypeOK
    <3>2. Latest(visible) \in 0..Len(log) /\ \A j \in visible : j <= Latest(visible)
      BY LatestVisible
    <3>3. Newest \in visible \/ Newest = 0
      BY NewestIs DEF PublishedVisible
    <3>4. Latest(visible) \in Newest..Len(log)
      BY <1>4, <3>2, <3>3
    <3> QED
      BY <3>1, <3>4
  <2> QED
    BY <2>1, <2>2
<1> QED
  BY <1>1, <1>2, <1>3, <1>5 DEF HistoryKept, Extends

(* A row inserted extends the history promised.                            *)
LEMMA InsertHistory ==
  ASSUME IInv, HistoryKept, NEW e \in Events, Insert(e)
  PROVE  HistoryKept' /\ HashAt(Newest)' = HashAt(Newest)
<1> USE DEF IInv
<1>1. /\ Len(log') = Len(log) + 1
      /\ \A k \in 0..Len(log) : HashAt(k)' = HashAt(k)
      /\ log'[Len(log) + 1].hash = compute_hash(prev[e], e)
  BY InsertAppends
<1>2. pc[e] = "insert" /\ pc' = [pc EXCEPT ![e] = "commit"] /\ UNCHANGED <<prev, published>>
  BY DEF Insert, Goto
<1>3. PICK n : n = Newest
  OBVIOUS
<1>4. n \in 0..Len(log) /\ Len(log) \in Nat /\ Newest' = n
  BY <1>2, <1>3, NewestIs DEF Newest, Latest
<1>5. PICK h : h = HashAt(n)
  OBVIOUS
<1>6. h \in Hash /\ HashAt(n)' = h /\ prev[e] \in Hash
  BY <1>1, <1>4, <1>5, HashAtType DEF TypeOK
<1>7. Extends(h, prev[e])
  BY <1>2, <1>3, <1>5 DEF HistoryKept
<1>8. ASSUME NEW k \in n..Len(log') PROVE Extends(h, HashAt(k)')
  <2>1. CASE k = Len(log) + 1
    <3>1. HashAt(k)' = Append(prev[e], e)
      BY <1>1, <1>4, <2>1 DEF HashAt, compute_hash
    <3> QED
      BY <1>6, <1>7, <3>1, ExtendsAppend
  <2>2. CASE k \in n..Len(log)
    <3>1. HashAt(k)' = HashAt(k)
      BY <1>1, <1>4, <2>2
    <3> QED
      BY <1>3, <1>5, <2>2, <3>1 DEF HistoryKept
  <2> QED
    BY <1>1, <1>4, <2>1, <2>2
<1>9. ASSUME NEW d \in Events, pc'[d] \in {"insert", "commit", "exec"}
      PROVE  Extends(h, prev'[d])
  BY <1>2, <1>3, <1>5, <1>9 DEF HistoryKept, TypeOK
<1>10. HashAt(Newest)' = h
  BY <1>4, <1>6
<1>11. HistoryKept'
  BY <1>4, <1>8, <1>9, <1>10 DEF HistoryKept
<1> QED
  BY <1>3, <1>5, <1>10, <1>11

(* The move of the pointer extends the history by the row of its call.     *)
LEMMA PublishHistory ==
  ASSUME SingleProcess, IInv, IInvSingle, HistoryKept,
         NEW e \in Events, pc[e] = "exec", SetPointer(e),
         UNCHANGED <<log, prev, seq>>,
         NEW to \in {"acked", "watch"}, pc' = [pc EXCEPT ![e] = to]
  PROVE  /\ HistoryKept'
         /\ Promise!IsStrictPrefix(HashAt(Newest), HashAt(Newest)')
         /\ e \in Promise!ToSet(HashAt(Newest)')
<1> USE DEF IInv, IInvSingle
<1>1. /\ seq[e] = Len(log) /\ Len(log) \in 1..Len(log)
      /\ log[Len(log)].hash = Append(prev[e], e)
      /\ published' = published \union {Len(log)}
  BY DEF RowIsLast, RowIsOwn, HasRow, SetPointer, compute_hash
<1>2. PICK L : L = Len(log)
  OBVIOUS
<1>3. Newest' = L /\ HashAt(Newest)' = Append(prev[e], e) /\ L' = L /\ Len(log)' = L
  <2>1. Newest' = L
    BY <1>1, <1>2, NewestMoves DEF TypeOK
  <2> QED
    BY <1>1, <1>2, <2>1 DEF HashAt
<1>4. Extends(HashAt(Newest), prev[e]) /\ prev[e] \in Hash /\ HashAt(Newest) \in Hash
  BY NewestIs, HashAtType DEF HistoryKept, TypeOK
<1>5. /\ Append(prev[e], e) \in Hash
      /\ Extends(HashAt(Newest), Append(prev[e], e))
      /\ HashAt(Newest) # Append(prev[e], e)
      /\ e \in Promise!ToSet(Append(prev[e], e))
  BY <1>4, ExtendsAppend
<1>6. Promise!IsStrictPrefix(HashAt(Newest), Append(prev[e], e))
  BY <1>4, <1>5, ExtendsIsPrefix DEF Promise!IsStrictPrefix
<1>7. HistoryKept'
  <2>1. \A d \in Events : pc'[d] \notin {"insert", "commit", "exec"}
    <3>1. \A d \in Events : d # e => pc[d] \notin Working
      BY OneAtWork DEF Working
    <3> QED
      BY <3>1 DEF TypeOK, Working
  <2>2. \A k \in Newest'..Len(log') : k = L
    BY <1>1, <1>2, <1>3
  <2>3. HashAt(L)' = Append(prev[e], e)
    BY <1>3
  <2>4. Extends(Append(prev[e], e), Append(prev[e], e))
    BY <1>5 DEF Extends, Hash
  <2> QED
    BY <1>3, <2>1, <2>2, <2>3, <2>4 DEF HistoryKept
<1> QED
  BY <1>3, <1>5, <1>6, <1>7

(* Every step is a step of the promise, or leaves it alone.                *)
LEMMA PromiseStep ==
  ASSUME SingleProcess, IInv, IInvSingle, HistoryKept, [Next]_vars
  PROVE  /\ HistoryKept'
         /\ [Promise!Next]_<<HashAt(Newest), {e \in Events : pc[e] = "acked"}>>
<1> DEFINE Acked == {e \in Events : pc[e] = "acked"}
           Stays == HistoryKept' /\ HashAt(Newest)' = HashAt(Newest) /\ Acked' = Acked
<1>0. pc \in [Events -> Labels]
  BY DEF IInv, TypeOK
<1>1. ASSUME NEW e \in Events,
             \/ Acquire(e) \/ Watch(e) \/ Commit(e) \/ ExecConflict(e)
             \/ ConnectionLost(e) \/ Abort(e)
      PROVE  Stays
  <2>1. /\ UNCHANGED <<log, published, prev>> /\ pc[e] # "acked"
        /\ \/ \E l \in {"watch", "get", "failed"} : pc' = [pc EXCEPT ![e] = l]
           \/ pc[e] = "commit" /\ pc' = [pc EXCEPT ![e] = "exec"]
    BY <1>1 DEF Acquire, Watch, Commit, ExecConflict, ConnectionLost, Abort, Goto, Working
  <2>2. \A d \in Events :
          pc'[d] \in {"insert", "commit", "exec"} =>
            pc[d] \in {"insert", "commit", "exec"} /\ prev'[d] = prev[d]
    BY <1>0, <2>1
  <2>3. Acked' = Acked
    BY <1>0, <2>1
  <2> QED
    BY <2>1, <2>2, <2>3, QuietHistory
<1>2. ASSUME NEW e \in Events, GetPointer(e) \/ LastRow(e) \/ Insert(e) PROVE Stays
  <2>1. Acked' = Acked
    BY <1>0, <1>2 DEF GetPointer, LastRow, Insert, Goto
  <2> QED
    BY <1>2, <2>1, ReadHistory, InsertHistory
<1>3. ASSUME LosePointer \/ UNCHANGED vars PROVE Stays
  <2>1. UNCHANGED <<log, published, prev, pc>>
    BY <1>3 DEF LosePointer, vars
  <2> QED
    BY <2>1, QuietHistory
<1>4. ASSUME NEW e \in Events, ReplyLost(e) PROVE HistoryKept' /\ Promise!Extend
  <2>1. Acked' = Acked
    BY <1>0, <1>4 DEF ReplyLost, Goto
  <2> QED
    BY <1>4, <2>1, PublishHistory DEF ReplyLost, Goto, Promise!Extend
<1>5. ASSUME NEW e \in Events, Exec(e) PROVE HistoryKept' /\ Promise!Acknowledge
  <2>1. Acked' = Acked \union {e} /\ e \in Events \ Acked
    BY <1>0, <1>5 DEF Exec, Goto
  <2>2. /\ HistoryKept' /\ e \in Promise!ToSet(HashAt(Newest)')
        /\ Promise!IsPrefix(HashAt(Newest), HashAt(Newest)')
    BY <1>5, PublishHistory DEF Exec, Goto, Promise!IsStrictPrefix
  <2> QED
    BY <2>1, <2>2 DEF Promise!Acknowledge
<1> HIDE DEF Acked, Stays
<1>6. Stays => HistoryKept' /\ UNCHANGED <<HashAt(Newest), Acked>>
  BY DEF Stays
<1> QED
  BY <1>1, <1>2, <1>3, <1>4, <1>5, <1>6 DEF Next, Step, Promise!Next, Acked

(* With one gateway process, the log keeps the promise of HashChainLog,    *)
(* whatever fails: the history it commits to is only ever extended, and    *)
(* write returns a seq only for an event of it (audit_log.py:62-121).      *)
THEOREM LogKeepsPromise ==
  ASSUME SingleProcess
  PROVE  Spec => PromiseSpec
<1>1. Init => HistoryKept /\ IInvSingle
  BY DEF Init, HistoryKept, IInvSingle, LockHeld, ReadIsLast, RowIsLast,
         HasRow, RowContinues, ForkOnlyAfterStranded, Working, Newest, Latest, HashAt,
         Extends, Genesis
<1>2. Init => Promise!Init
  BY DEF Init, Promise!Init, Newest, Latest, HashAt, Genesis
<1>3. IInv /\ IInvSingle /\ HistoryKept /\ [Next]_vars => IInvSingle' /\ HistoryKept'
  BY IInvSingleStep, PromiseStep
<1>4. IInv /\ IInvSingle /\ HistoryKept /\ [Next]_vars =>
        [Promise!Next]_<<HashAt(Newest), {e \in Events : pc[e] = "acked"}>>
  BY PromiseStep
<1> QED
  BY <1>1, <1>2, <1>3, <1>4, Inductive, PTL DEF Spec, PromiseSpec, Promise!Spec

(* A history keeps the events of the history it extends.                   *)
LEMMA PrefixKeepsEvents ==
  ASSUME NEW s \in Hash, NEW t \in Hash, Promise!IsPrefix(s, t)
  PROVE  Promise!ToSet(s) \subseteq Promise!ToSet(t)
<1>1. ASSUME NEW i \in DOMAIN s PROVE i \in DOMAIN t /\ t[i] = s[i]
  <2>1. i \in 1..Len(s) /\ i \in 1..Len(t) /\ DOMAIN t = 1..Len(t)
    BY DEF Promise!IsPrefix, Hash
  <2>2. SubSeq(s, 1, Len(s))[i] = s[i] /\ SubSeq(t, 1, Len(s))[i] = t[i]
    BY <2>1 DEF Promise!IsPrefix, Hash
  <2> QED
    BY <2>1, <2>2 DEF Promise!IsPrefix
<1> QED
  BY <1>1 DEF Promise!ToSet

(* With one gateway process, no event whose writer was told "recorded"     *)
(* ever leaves the history the newest published row commits to.            *)
THEOREM AcknowledgedStaysOnChain ==
  ASSUME SingleProcess
  PROVE  Spec => []Promise!AckedOnChain
<1> DEFINE Acked == {e \in Events : pc[e] = "acked"}
<1>1. Init => HistoryKept /\ IInvSingle /\ Promise!AckedOnChain
  BY DEF Init, HistoryKept, IInvSingle, LockHeld, ReadIsLast, RowIsLast,
         HasRow, RowContinues, ForkOnlyAfterStranded, Working, Newest, Latest, HashAt,
         Extends, Genesis,
         Promise!AckedOnChain
<1>2. ASSUME IInv, IInvSingle, HistoryKept, [Next]_vars
      PROVE  IInvSingle' /\ HistoryKept'
  BY <1>2, IInvSingleStep, PromiseStep
<1>3. IInv => HistoryTyped
  BY NewestIs, HashAtType DEF IInv, HistoryTyped
<1>4. ASSUME HistoryTyped, HistoryTyped', IInv, IInvSingle, HistoryKept, [Next]_vars,
             Promise!AckedOnChain
      PROVE  Promise!AckedOnChain'
  <2>1. [Promise!Next]_<<HashAt(Newest), Acked>>
    BY <1>4, PromiseStep
  <2>2. HashAt(Newest) \in Hash /\ HashAt(Newest)' \in Hash
    BY <1>4 DEF HistoryTyped
  <2>3. CASE UNCHANGED <<HashAt(Newest), Acked>>
    BY <1>4, <2>3 DEF Promise!AckedOnChain
  <2>4. CASE Promise!Next
    <3>1. Promise!IsPrefix(HashAt(Newest), HashAt(Newest)')
      BY <2>4 DEF Promise!Next, Promise!Extend, Promise!Acknowledge, Promise!IsStrictPrefix
    <3>2. Promise!ToSet(HashAt(Newest)) \subseteq Promise!ToSet(HashAt(Newest)')
      BY <2>2, <3>1, PrefixKeepsEvents
    <3>3. Acked' \subseteq Acked \union Promise!ToSet(HashAt(Newest)')
      BY <2>4 DEF Promise!Next, Promise!Extend, Promise!Acknowledge
    <3> QED
      BY <1>4, <3>2, <3>3 DEF Promise!AckedOnChain, Promise!ToSet
  <2> QED
    BY <2>1, <2>3, <2>4
<1> QED
  BY <1>1, <1>2, <1>3, <1>4, Inductive, PTL DEF Spec
=============================================================================
