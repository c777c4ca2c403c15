-------------------------- MODULE ListRelayProofs --------------------------
(* What clients are served and what calls are validated against, for any   *)
(* number of sessions, requests, answers and policies, whatever fails, is  *)
(* late or is answered unasked.                                            *)
EXTENDS ListRelay, TLAPS

-----------------------------------------------------------------------------
(* One id i of one session: what its usage u promises of the answers q in  *)
(* the pipe and of the pending ids p.                                      *)
Promised(i, u, q, p) ==
  /\ u \in {"unused", "asked"} => \A j \in 1..Len(q) : q[j].id # i
  /\ u = "asked" => i \in p
  /\ u = "answered" => \A j \in 1..Len(q) : q[j].id = i =>
                         i \in p /\ \A l \in 1..Len(q) : q[l].id = i => l = j

(* The subprocess answers: under i ...                                      *)
LEMMA PromiseAnswered ==
  ASSUME NEW i, NEW u, NEW q \in Seq(Answer), NEW p, Promised(i, u, q, p),
         NEW m \in Answer, m.id = i,
         NEW v, v = IF u = "asked" THEN "answered" ELSE "spoilt"
  PROVE  Promised(i, v, Append(q, m), p)
<1> DEFINE r == Append(q, m)
<1>1. Len(r) = Len(q) + 1 /\ Len(q) \in Nat
  OBVIOUS
<1>2. \A j \in 1..Len(r) : r[j] = IF j = Len(q) + 1 THEN m ELSE q[j]
  OBVIOUS
<1>3. \A j \in 1..Len(r) : j # Len(q) + 1 => j \in 1..Len(q)
  BY <1>1
<1> HIDE DEF r
<1> QED
  BY <1>1, <1>2, <1>3 DEF Promised

(* ... or under another id.                                                 *)
LEMMA PromiseKept ==
  ASSUME NEW i, NEW u, NEW q \in Seq(Answer), NEW p, Promised(i, u, q, p),
         NEW m \in Answer, m.id # i
  PROVE  Promised(i, u, Append(q, m), p)
<1> DEFINE r == Append(q, m)
<1>1. Len(r) = Len(q) + 1 /\ Len(q) \in Nat
  OBVIOUS
<1>2. \A j \in 1..Len(r) : r[j] = IF j = Len(q) + 1 THEN m ELSE q[j]
  OBVIOUS
<1>3. \A j \in 1..Len(r) : j # Len(q) + 1 => j \in 1..Len(q)
  BY <1>1
<1> HIDE DEF r
<1> QED
  BY <1>1, <1>2, <1>3 DEF Promised

(* The upstream pump reads an answer, which is then pending no more.        *)
LEMMA PromiseTaken ==
  ASSUME NEW i, NEW u, NEW q \in Seq(Answer), NEW p, Promised(i, u, q, p), q # <<>>,
         NEW p2, p2 = p \ {Head(q).id} \/ (p2 = p /\ Head(q).id # i)
  PROVE  /\ Promised(i, u, Tail(q), p2)
         /\ u = "answered" /\ Head(q).id = i => i \in p
<1> DEFINE r == Tail(q)
<1>1. Len(r) = Len(q) - 1 /\ Len(q) \in Nat /\ Len(q) # 0
  OBVIOUS
<1>2. \A j \in 1..Len(r) : r[j] = q[j + 1] /\ j + 1 \in 1..Len(q) /\ j + 1 # 1
  OBVIOUS
<1>3. Head(q) = q[1] /\ 1 \in 1..Len(q)
  BY <1>1
<1>4. \A j, l \in 1..Len(r) : j + 1 = l + 1 => j = l
  BY <1>1
<1> HIDE DEF r
<1> QED
  BY <1>2, <1>3, <1>4 DEF Promised

-----------------------------------------------------------------------------
(* The inductive invariant, one part per pump and wire.                     *)

(* What the ids of one session promise.                                     *)
Promises(ids, use, q, p) == \A i \in ids : Promised(i, use[i], q, p)

(* The client pump: it has an answer from "check" on, and caches it checked. *)
Waits(c, f, done) ==
  /\ c \in {"check", "put"} => f # None
  /\ c = "put" => f.n \in done

(* A list pruned by an engine that was in force between since and e.        *)
Granted(msg, since, e) == \E x \in since..e : msg.tools \subseteq Grants[x]

(* The upstream pump: what it knows of its answer at each stage.            *)
Relays(u, e, done, rows) ==
  /\ u.at \in {"check", "put", "audit", "send"} => u.msg # None /\ u.since <= e
  /\ u.at \in {"put", "audit"} => u.msg.n \in done
  /\ u.at = "audit" => Granted(u.msg, u.since, e)
  /\ u.at = "send" /\ u.due /\ u.msg.ok =>
       u.msg.n \in done /\ Granted(u.msg, u.since, e) /\ <<u.msg.n, u.msg.tools>> \in rows

(* Nothing on its way to the cache was settled in a handshake.              *)
Unsettled(q, f, u, old) ==
  /\ \A j \in 1..Len(q) : q[j].n \notin old
  /\ f # None => f.n \notin old
  /\ u.at \in {"check", "put"} => u.msg.n \notin old

IInv ==
  /\ TypeOK
  /\ \A s \in Sessions :
       /\ Promises(Ids[s], usage[s], pipe[s], pending[s])
       /\ Waits(client[s], future[s], checked)
       /\ Relays(up[s], engine, checked, log)
       /\ Unsettled(pipe[s], future[s], up[s], dropped)
  /\ dropped \subseteq 1..answered
  /\ CacheIsCurrent

-----------------------------------------------------------------------------
(* The parts at one session.                                                *)
Stage == [at : {"ready", "check", "put", "audit", "send", "over"},
          msg : Answer \union {None}, since : 0..MaxSwaps, due : BOOLEAN]

LEMMA AtSession ==
  ASSUME IInv, NEW s \in Sessions
  PROVE  /\ Promises(Ids[s], usage[s], pipe[s], pending[s])
         /\ Waits(client[s], future[s], checked)
         /\ Relays(up[s], engine, checked, log)
         /\ Unsettled(pipe[s], future[s], up[s], dropped)
         /\ pending[s] \in SUBSET ClientIds
         /\ internal[s] \in OwnIds \union {None}
         /\ future[s] \in Answer \union {None}
         /\ pipe[s] \in Seq(Answer)
         /\ up[s] \in Stage
BY DEF IInv, TypeOK, Stage

(* One pump moves.                                                          *)
LEMMA UpMoves ==
  ASSUME TypeOK, NEW s \in Sessions, NEW u \in Stage, up' = [up EXCEPT ![s] = u]
  PROVE  up' \in [Sessions -> Stage]
BY DEF TypeOK, Stage

LEMMA BoundsAreNat == MaxRequests \in Nat /\ MaxAnswers \in Nat /\ MaxSwaps \in Nat
BY RelayAssumption

(* The ids of a session's client.                                           *)
LEMMA IdsOfSession ==
  ASSUME NEW s \in Sessions
  PROVE  /\ Ids[s] \subseteq ClientIds
         /\ \A i \in Ids[s] : i \notin OwnIds \union {None}
BY RelayAssumption DEF ClientIds, OwnIds

(* The first answer in a pipe, and what is left.                            *)
LEMMA HeadOfPipe ==
  ASSUME NEW q \in Seq(Answer), q # <<>>
  PROVE  /\ Head(q) \in Answer /\ Tail(q) \in Seq(Answer)
         /\ 1 \in 1..Len(q) /\ Head(q) = q[1]
         /\ \A j \in 1..Len(Tail(q)) : j + 1 \in 1..Len(q) /\ Tail(q)[j] = q[j + 1]
OBVIOUS

(* What an error or the pruning leaves of an answer.                        *)
LEMMA AnswerChanges ==
  ASSUME NEW m \in Answer
  PROVE  /\ Error(m) \in Answer /\ ~Error(m).ok /\ Error(m).n = m.n /\ Error(m).id = m.id
         /\ Pruned(m) \in Answer /\ Pruned(m).n = m.n /\ Pruned(m).tools \subseteq Grants[engine]
BY DEF Error, Pruned, Answer

(* A new answer of the subprocess, and what becomes of the ids.             *)
LEMMA ReplyAnswers ==
  ASSUME IInv, NEW s \in Sessions, Reply(s)
  PROVE  \E m \in Answer :
           /\ m.n = answered + 1 /\ answered' = answered + 1 /\ answered' \in Serials
           /\ pipe' = [pipe EXCEPT ![s] = Append(@, m)]
           /\ usage' = [usage EXCEPT ![s] =
                [j \in ClientIds |-> IF j # m.id THEN usage[s][j]
                               ELSE IF usage[s][j] = "asked" THEN "answered" ELSE "spoilt"]]
<1>1. PICK i \in Ids[s] \union 1..sent, l \in Offers, ok \in BOOLEAN :
       /\ usage' = [usage EXCEPT ![s] =
            [j \in ClientIds |-> IF j # i THEN usage[s][j]
                           ELSE IF usage[s][j] = "asked" THEN "answered" ELSE "spoilt"]]
       /\ LET m == [n |-> answered', id |-> i, ok |-> TRUE, tools |-> l]
          IN  pipe' = [pipe EXCEPT ![s] = Append(@, IF ok THEN m ELSE Error(m))]
  BY Zenon DEF Reply
<1>2. answered' = answered + 1 /\ answered' \in Serials
  BY BoundsAreNat DEF Reply, IInv, TypeOK, Serials
<1>3. i \in ClientIds \union OwnIds /\ l \in SUBSET Tools
  BY IdsOfSession, BoundsAreNat, RelayAssumption DEF IInv, TypeOK, OwnIds
<1> DEFINE m == [n |-> answered', id |-> i, ok |-> TRUE, tools |-> l]
<1>4. m \in Answer /\ m.n = answered + 1 /\ m.id = i
  BY <1>2, <1>3 DEF Answer
<1>5. pipe' = [pipe EXCEPT ![s] = Append(@, IF ok THEN m ELSE Error(m))]
  BY <1>1
<1> HIDE DEF m
<1>6. CASE ok
  BY <1>1, <1>2, <1>4, <1>5, <1>6
<1>7. CASE ~ok
  <2>1. Error(m) \in Answer /\ Error(m).n = answered + 1 /\ Error(m).id = i
    BY <1>4, AnswerChanges
  <2>2. pipe' = [pipe EXCEPT ![s] = Append(@, Error(m))]
    BY <1>5, <1>7
  <2> QED
    BY <1>1, <1>2, <2>1, <2>2
<1> QED
  BY <1>6, <1>7

LEMMA TypeStep == IInv /\ [Next]_vars => TypeOK'
<1> SUFFICES ASSUME IInv, [Next]_vars
             PROVE  TypeOK'
  OBVIOUS
<1> USE BoundsAreNat DEF pumps, wires, bounds, history
<1>t. TypeOK
  BY DEF IInv
<1>r. ASSUME NEW s \in Sessions, Remember(s)
      PROVE  /\ pending' \in [Sessions -> SUBSET ClientIds]
             /\ usage' \in [Sessions -> [ClientIds -> {"unused", "asked", "answered", "spoilt"}]]
  <2>1. CASE UNCHANGED <<pending, usage>>
    BY <1>t, <2>1 DEF TypeOK
  <2>2. ASSUME NEW i \in Ids[s],
               pending' = [pending EXCEPT ![s] = @ \ {i}],
               usage' = [usage EXCEPT ![s][i] = "spoilt"]
        PROVE  /\ pending' \in [Sessions -> SUBSET ClientIds]
               /\ usage' \in [Sessions -> [ClientIds -> {"unused", "asked", "answered", "spoilt"}]]
    BY <1>t, <2>2 DEF TypeOK
  <2> QED
    BY <1>r, <2>1, <2>2 DEF Remember
<1>1. ASSUME NEW s \in Sessions, Request(s) \/ Initialize(s)
      PROVE  TypeOK'
  BY <1>t, <1>r, <1>1 DEF TypeOK, Request, Initialize, Step
<1>2. ASSUME NEW s \in Sessions, Invalidate(s)
      PROVE  TypeOK'
  <2>1. 1..answered \subseteq Serials
    BY <1>t DEF TypeOK, Serials
  <2> QED
    BY <1>t, <1>2, <2>1 DEF TypeOK, Invalidate, Step
<1>3. ASSUME NEW s \in Sessions, List(s)
      PROVE  TypeOK'
  <2>1. PICK i \in Ids[s] :
          /\ pending' = [pending EXCEPT ![s] = @ \union {i}]
          /\ usage' = [usage EXCEPT ![s][i] = IF @ = "unused" THEN "asked" ELSE "spoilt"]
    BY <1>3 DEF List
  <2>2. i \in ClientIds
    BY <2>1, IdsOfSession
  <2>3. /\ pending' \in [Sessions -> SUBSET ClientIds]
        /\ usage' \in [Sessions -> [ClientIds -> {"unused", "asked", "answered", "spoilt"}]]
    BY <1>t, <2>1, <2>2 DEF TypeOK
  <2> QED
    BY <1>t, <1>3, <2>3 DEF TypeOK, List
<1>4. ASSUME NEW s \in Sessions, Miss(s)
      PROVE  TypeOK'
  <2>1. sent' \in OwnIds /\ sent' \in 0..MaxRequests
    BY <1>t, <1>4 DEF TypeOK, Miss, OwnIds
  <2> QED
    BY <1>t, <1>r, <1>4, <2>1 DEF TypeOK, Miss, Step
<1>5. ASSUME NEW s \in Sessions, Ask(s) \/ GiveUp(s) \/ Resume(s)
      PROVE  TypeOK'
  BY <1>t, <1>5 DEF TypeOK, Ask, GiveUp, Resume, Forget, Step
<1>6. ASSUME NEW s \in Sessions, CheckOwn(s)
      PROVE  TypeOK'
  <2>1. future[s].n \in Serials
    BY <1>6, AtSession DEF Waits, CheckOwn, Step, Answer
  <2> QED
    BY <1>t, <1>6, <2>1 DEF TypeOK, CheckOwn, Step
<1>7. ASSUME NEW s \in Sessions, PutOwn(s) \/ FailOwn(s)
      PROVE  TypeOK'
  BY <1>t, <1>7 DEF TypeOK, PutOwn, FailOwn, Forget, Step
<1>8. ASSUME NEW s \in Sessions, Reply(s)
      PROVE  TypeOK'
  <2>1. PICK m \in Answer :
          /\ pipe' = [pipe EXCEPT ![s] = Append(@, m)]
          /\ answered' \in Serials
          /\ usage' = [usage EXCEPT ![s] =
               [j \in ClientIds |-> IF j # m.id THEN usage[s][j]
                              ELSE IF usage[s][j] = "asked" THEN "answered" ELSE "spoilt"]]
    BY <1>8, ReplyAnswers
  <2>2. Append(pipe[s], m) \in Seq(Answer) /\ answered' \in 0..MaxAnswers
    BY <2>1, AtSession DEF Serials
  <2>3. usage' \in [Sessions -> [ClientIds -> {"unused", "asked", "answered", "spoilt"}]]
    BY <1>t, <2>1 DEF TypeOK
  <2> QED
    BY <1>t, <1>8, <2>1, <2>2, <2>3 DEF TypeOK, Reply
<1>9. ASSUME NEW s \in Sessions, Take(s)
      PROVE  TypeOK'
  <2>1. Head(pipe[s]) \in Answer /\ Tail(pipe[s]) \in Seq(Answer)
    BY <1>9, AtSession, HeadOfPipe DEF Take
  <2>2. up' \in [Sessions -> Stage]
    <3> DEFINE u(at, due) == [at |-> at, msg |-> Head(pipe[s]), since |-> engine, due |-> due]
    <3>1. \A due \in BOOLEAN : u("check", due) \in Stage /\ u("send", due) \in Stage
      BY <1>t, <2>1 DEF TypeOK, Stage
    <3>2. up' = up \/ \E due \in BOOLEAN : \/ up' = [up EXCEPT ![s] = u("check", due)]
                                           \/ up' = [up EXCEPT ![s] = u("send", due)]
      BY <1>9 DEF Take
    <3> HIDE DEF u
    <3>3. up \in [Sessions -> Stage]
      BY <1>t DEF TypeOK, Stage
    <3> QED
      BY <1>t, <3>1, <3>2, <3>3, UpMoves
  <2>3. /\ future' \in [Sessions -> Answer \union {None}]
        /\ pending' \in [Sessions -> SUBSET ClientIds]
    <3>1. /\ \/ future' = future
             \/ future' = [future EXCEPT ![s] = IF @ = None THEN Head(pipe[s]) ELSE @]
          /\ pending' = pending \/ pending' = [pending EXCEPT ![s] = @ \ {Head(pipe[s]).id}]
      BY <1>9 DEF Take
    <3>2. /\ future \in [Sessions -> Answer \union {None}]
          /\ pending \in [Sessions -> SUBSET ClientIds]
      BY <1>t DEF TypeOK
    <3>3. future' \in [Sessions -> Answer \union {None}]
      BY <2>1, <3>1, <3>2
    <3>4. pending' \in [Sessions -> SUBSET ClientIds]
      BY <3>1, <3>2
    <3> QED
      BY <3>3, <3>4
  <2>4. pipe' \in [Sessions -> Seq(Answer)]
    BY <1>t, <1>9, <2>1 DEF TypeOK, Take
  <2> QED
    BY <1>t, <1>9, <2>2, <2>3, <2>4 DEF TypeOK, Take, Stage
<1>10. ASSUME NEW s \in Sessions, CheckList(s)
       PROVE  TypeOK'
  <2>1. up[s].msg.n \in Serials
    BY <1>10, AtSession DEF Relays, CheckList, Answer, Stage
  <2> DEFINE u == [up[s] EXCEPT !.at = "put"]
  <2>4. u \in Stage
    BY <1>10, AtSession DEF CheckList, Stage
  <2>5. up' = [up EXCEPT ![s] = u]
    BY <1>t, <1>10 DEF TypeOK, CheckList
  <2> HIDE DEF u
  <2>6. up' \in [Sessions -> Stage]
    BY <1>t, <2>4, <2>5, UpMoves
  <2> QED
    BY <1>t, <1>10, <2>1, <2>6 DEF TypeOK, CheckList, Stage
<1>11. ASSUME NEW s \in Sessions, PutList(s)
       PROVE  TypeOK'
  <2>1. up[s].msg \in Answer
    BY <1>11, AtSession DEF Relays, PutList, Stage
  <2>2. Pruned(up[s].msg) \in Answer
    BY <2>1, AnswerChanges
  <2> DEFINE u == [up[s] EXCEPT !.at = "audit", !.msg = Pruned(@)]
  <2>4. u \in Stage
    BY <1>11, <2>1, <2>2, AtSession DEF PutList, Stage
  <2>5. up' = [up EXCEPT ![s] = u]
    BY <1>11 DEF PutList
  <2> HIDE DEF u
  <2>6. up' \in [Sessions -> Stage]
    BY <1>t, <2>4, <2>5, UpMoves
  <2> QED
    BY <1>t, <1>11, <2>1, <2>2, <2>6 DEF TypeOK, PutList, Stage
<1>12. ASSUME NEW s \in Sessions, AuditList(s)
       PROVE  TypeOK'
  <2>1. up[s].msg.n \in Serials /\ up[s].msg.tools \in SUBSET Tools
    BY <1>12, AtSession DEF Relays, AuditList, Answer, Stage
  <2> DEFINE u == [up[s] EXCEPT !.at = "send"]
  <2>4. u \in Stage
    BY <1>12, AtSession DEF AuditList, Stage
  <2>5. up' = [up EXCEPT ![s] = u]
    BY <1>t, <1>12 DEF TypeOK, AuditList
  <2> HIDE DEF u
  <2>6. up' \in [Sessions -> Stage]
    BY <1>t, <2>4, <2>5, UpMoves
  <2>7. log' \in SUBSET (Serials \X SUBSET Tools)
    BY <1>t, <1>12, <2>1 DEF TypeOK, AuditList
  <2> QED
    BY <1>t, <1>12, <2>6, <2>7 DEF TypeOK, AuditList, Stage
<1>13. ASSUME NEW s \in Sessions, FailList(s)
       PROVE  TypeOK'
  <2>1. Error(up[s].msg) \in Answer
    <3>1. up[s].msg \in Answer
      BY <1>13, AtSession DEF Relays, FailList, Stage
    <3> QED
      BY <3>1, AnswerChanges
  <2> DEFINE u == [up[s] EXCEPT !.at = "send", !.msg = Error(@)]
  <2>4. u \in Stage
    BY <1>13, <2>1, AtSession DEF FailList, Stage
  <2>5. up' = [up EXCEPT ![s] = u]
    BY <1>t, <1>13 DEF TypeOK, FailList
  <2> HIDE DEF u
  <2>6. up' \in [Sessions -> Stage]
    BY <1>t, <2>4, <2>5, UpMoves
  <2> QED
    BY <1>t, <1>13, <2>6 DEF TypeOK, FailList, Stage
<1>14. ASSUME NEW s \in Sessions, Serve(s)
       PROVE  TypeOK'
  BY <1>t, <1>14 DEF TypeOK, Serve, Idle
<1>15. ASSUME NEW s \in Sessions, End(s)
       PROVE  TypeOK'
  <2>1. cache' \in Answer \union {None}
    BY <1>t, <1>15, AtSession DEF TypeOK, End, Puts, Relays, Stage
  <2>2. Unused \in [ClientIds -> {"unused", "asked", "answered", "spoilt"}]
    BY DEF Unused
  <2> QED
    <3> DEFINE u == [Idle EXCEPT !.at = "over"]
    <3>1. Idle \in Stage
      BY DEF Idle, Stage
    <3>2. u \in Stage
      BY <3>1 DEF Stage
    <3>3. up' = [up EXCEPT ![s] = u]
      BY <1>15 DEF End
    <3> HIDE DEF u
    <3>4. up' \in [Sessions -> Stage]
      BY <1>t, <3>2, <3>3, UpMoves
    <3>5. usage' \in [Sessions -> [ClientIds -> {"unused", "asked", "answered", "spoilt"}]]
      BY <1>t, <1>15, <2>2 DEF TypeOK, End
    <3> QED
      BY <1>t, <1>15, <2>1, <3>4, <3>5 DEF TypeOK, End, Stage
<1>16. ASSUME Swap \/ Expire \/ UNCHANGED vars
       PROVE  TypeOK'
  BY <1>t, <1>16 DEF TypeOK, Swap, Expire, vars
<1> QED
  BY <1>1, <1>2, <1>3, <1>4, <1>5, <1>6, <1>7, <1>8, <1>9, <1>10, <1>11, <1>12, <1>13,
     <1>14, <1>15, <1>16 DEF Next, Refetch, Relay

-----------------------------------------------------------------------------
(* Every step keeps what the ids promise.                                   *)
Promising(t) == Promises(Ids[t], usage[t], pipe[t], pending[t])

LEMMA PromisesStep ==
  ASSUME IInv, [Next]_vars, NEW t \in Sessions
  PROVE  Promising(t)'
<1> USE DEF pumps, wires, bounds, history
<1>t. TypeOK
  BY DEF IInv
<1>l. Promising(t)
  BY AtSession DEF Promising
<1>1. ASSUME usage'[t] = usage[t], pipe'[t] = pipe[t], pending'[t] = pending[t]
      PROVE  Promising(t)'
  BY <1>l, <1>1 DEF Promising
<1>2. ASSUME NEW s \in Sessions, Remember(s), pipe' = pipe
      PROVE  Promising(t)'
  <2>1. CASE UNCHANGED <<pending, usage>>
    BY <1>1, <1>2, <2>1
  <2>2. ASSUME NEW i \in Ids[s],
               pending' = [pending EXCEPT ![s] = @ \ {i}],
               usage' = [usage EXCEPT ![s][i] = "spoilt"]
        PROVE  Promising(t)'
    <3>1. CASE t = s
      <4>1. i \in ClientIds
        BY IdsOfSession
      <4>2. pending'[t] = pending[t] \ {i} /\ usage'[t] = [usage[t] EXCEPT ![i] = "spoilt"]
        BY <1>t, <2>2, <3>1 DEF TypeOK
      <4>3. \A j \in Ids[t] : usage'[t][j] = IF j = i THEN "spoilt" ELSE usage[t][j]
        BY <1>t, <4>1, <4>2, IdsOfSession DEF TypeOK
      <4> QED
        BY <1>l, <1>2, <4>2, <4>3 DEF Promising, Promises, Promised
    <3>2. CASE t # s
      BY <1>t, <1>1, <1>2, <2>2, <3>2 DEF TypeOK
    <3> QED
      BY <3>1, <3>2
  <2> QED
    BY <1>2, <2>1, <2>2 DEF Remember
<1>3. ASSUME NEW s \in Sessions, List(s)
      PROVE  Promising(t)'
  <2>1. PICK i \in Ids[s] :
          /\ pending' = [pending EXCEPT ![s] = @ \union {i}]
          /\ usage' = [usage EXCEPT ![s][i] = IF @ = "unused" THEN "asked" ELSE "spoilt"]
          /\ pipe' = pipe
    BY <1>3 DEF List
  <2>2. CASE t = s
    <3>1. pending'[t] = pending[t] \union {i}
      BY <1>t, <2>1, <2>2 DEF TypeOK
    <3>2. \A j \in Ids[t] : usage'[t][j] =
            IF j # i THEN usage[t][j] ELSE IF usage[t][i] = "unused" THEN "asked" ELSE "spoilt"
      BY <1>t, <2>1, <2>2, IdsOfSession DEF TypeOK
    <3> QED
      BY <1>l, <2>1, <3>1, <3>2 DEF Promising, Promises, Promised
  <2>3. CASE t # s
    BY <1>t, <1>1, <2>1, <2>3 DEF TypeOK
  <2> QED
    BY <2>2, <2>3
<1>4. ASSUME NEW s \in Sessions, Reply(s)
      PROVE  Promising(t)'
  <2>1. PICK m \in Answer :
          /\ pipe' = [pipe EXCEPT ![s] = Append(@, m)]
          /\ usage' = [usage EXCEPT ![s] =
               [j \in ClientIds |-> IF j # m.id THEN usage[s][j]
                              ELSE IF usage[s][j] = "asked" THEN "answered" ELSE "spoilt"]]
    BY <1>4, ReplyAnswers
  <2>2. pending' = pending
    BY <1>4 DEF Reply
  <2>3. CASE t = s
    <3>1. pipe'[t] = Append(pipe[t], m)
      BY <1>t, <2>1, <2>3 DEF TypeOK
    <3>2. \A i \in Ids[t] : usage'[t][i] =
            IF i # m.id THEN usage[t][i]
            ELSE IF usage[t][i] = "asked" THEN "answered" ELSE "spoilt"
      BY <1>t, <2>1, <2>3, IdsOfSession DEF TypeOK
    <3>3. ASSUME NEW i \in Ids[t]
          PROVE  Promised(i, usage'[t][i], Append(pipe[t], m), pending[t])
      <4>1. Promised(i, usage[t][i], pipe[t], pending[t])
        BY <1>l DEF Promising, Promises
      <4> QED
        BY <3>2, <4>1, AtSession, PromiseAnswered, PromiseKept
    <3> QED
      BY <2>2, <3>1, <3>3 DEF Promising, Promises
  <2>4. CASE t # s
    BY <1>t, <1>1, <2>1, <2>2, <2>4 DEF TypeOK
  <2> QED
    BY <2>3, <2>4
<1>5. ASSUME NEW s \in Sessions, Take(s)
      PROVE  Promising(t)'
  <2>1. usage' = usage
    BY <1>5 DEF Take
  <2>2. CASE t = s
    <3>1. pipe[t] # <<>> /\ pipe'[t] = Tail(pipe[t])
      BY <1>t, <1>5, <2>2 DEF Take, TypeOK
    <3>2. \/ pending'[t] = pending[t] \ {Head(pipe[t]).id}
          \/ pending'[t] = pending[t] /\ Head(pipe[t]).id = internal[t]
      BY <1>t, <1>5, <2>2 DEF Take, TypeOK
    <3>3. ASSUME NEW i \in Ids[t]
          PROVE  Promised(i, usage[t][i], Tail(pipe[t]), pending'[t])
      <4>1. Promised(i, usage[t][i], pipe[t], pending[t]) /\ i # internal[t]
        BY <1>l, AtSession, IdsOfSession DEF Promising, Promises
      <4> QED
        BY <3>1, <3>2, <4>1, AtSession, PromiseTaken
    <3> QED
      BY <2>1, <3>1, <3>3 DEF Promising, Promises
  <2>3. CASE t # s
    BY <1>t, <1>1, <1>5, <2>1, <2>3 DEF Take, TypeOK
  <2> QED
    BY <2>2, <2>3
<1>6. ASSUME NEW s \in Sessions, End(s)
      PROVE  Promising(t)'
  <2>1. CASE t = s
    <3>1. pipe'[t] = <<>> /\ usage'[t] = Unused
      BY <1>t, <1>6, <2>1 DEF End, TypeOK
    <3>2. \A i \in Ids[t] : usage'[t][i] = "unused"
      BY <3>1, IdsOfSession DEF Unused
    <3> QED
      BY <3>1, <3>2 DEF Promising, Promises, Promised
  <2>2. CASE t # s
    BY <1>t, <1>1, <1>6, <2>2 DEF End, TypeOK
  <2> QED
    BY <2>1, <2>2
<1>7. ASSUME NEW s \in Sessions, Request(s) \/ Initialize(s) \/ Miss(s)
      PROVE  Promising(t)'
  BY <1>2, <1>7 DEF Request, Initialize, Miss
<1>8. ASSUME NEW s \in Sessions,
             \/ Invalidate(s) \/ Ask(s) \/ GiveUp(s) \/ Resume(s) \/ CheckOwn(s) \/ PutOwn(s)
             \/ FailOwn(s) \/ CheckList(s) \/ PutList(s) \/ AuditList(s) \/ FailList(s)
             \/ Serve(s)
      PROVE  Promising(t)'
  BY <1>1, <1>8 DEF Invalidate, Ask, GiveUp, Resume, CheckOwn, PutOwn, FailOwn, Forget,
                    CheckList, PutList, AuditList, FailList, Serve
<1>9. ASSUME Swap \/ Expire \/ UNCHANGED vars
      PROVE  Promising(t)'
  BY <1>1, <1>9 DEF Swap, Expire, vars
<1> QED
  BY <1>3, <1>4, <1>5, <1>6, <1>7, <1>8, <1>9 DEF Next, Refetch, Relay

-----------------------------------------------------------------------------
(* The history only grows.                                                  *)
LEMMA HistoryGrows ==
  ASSUME [Next]_vars
  PROVE  checked \subseteq checked' /\ log \subseteq log'
<1> USE DEF bounds, history
<1>1. ASSUME NEW s \in Sessions,
             \/ Request(s) \/ Initialize(s) \/ Invalidate(s) \/ List(s) \/ Miss(s) \/ Ask(s)
             \/ Reply(s) \/ Relay(s) \/ Serve(s) \/ End(s)
      PROVE  checked \subseteq checked' /\ log \subseteq log'
  BY <1>1 DEF Request, Initialize, Invalidate, List, Miss, Ask, Reply, Relay, Take, CheckList,
              PutList, AuditList, FailList, Serve, End
<1>2. ASSUME NEW s \in Sessions, Refetch(s)
      PROVE  checked \subseteq checked' /\ log \subseteq log'
  BY <1>2 DEF Refetch, GiveUp, Resume, CheckOwn, PutOwn, FailOwn, Forget
<1>3. ASSUME Swap \/ Expire \/ UNCHANGED vars
      PROVE  checked \subseteq checked' /\ log \subseteq log'
  BY <1>3 DEF Swap, Expire, vars
<1> QED
  BY <1>1, <1>2, <1>3 DEF Next

(* Every step keeps what the client pumps know ...                          *)
Waiting(t) == Waits(client[t], future[t], checked)

LEMMA WaitsStep ==
  ASSUME IInv, [Next]_vars, NEW t \in Sessions
  PROVE  Waiting(t)'
<1> USE DEF pumps, wires
<1>t. TypeOK
  BY DEF IInv
<1>l. Waiting(t)
  BY AtSession DEF Waiting
<1>1. ASSUME client'[t] = client[t], future'[t] = future[t]
      PROVE  Waiting(t)'
  BY <1>l, <1>1, HistoryGrows DEF Waiting, Waits
<1>2. ASSUME NEW s \in Sessions, NEW from, NEW to \in {"ready", "invalidate", "ask", "await"},
             Step(s, from, to), t # s => future'[t] = future[t]
      PROVE  Waiting(t)'
  <2>1. CASE t = s
    <3>1. client'[t] = to
      BY <1>t, <1>2, <2>1 DEF Step, TypeOK
    <3> QED
      BY <1>2, <3>1 DEF Waiting, Waits
  <2>2. CASE t # s
    BY <1>t, <1>1, <1>2, <2>2 DEF Step, TypeOK
  <2> QED
    BY <2>1, <2>2
<1>3. ASSUME NEW s \in Sessions, Initialize(s) \/ Invalidate(s) \/ Miss(s) \/ Ask(s)
      PROVE  Waiting(t)'
  BY <1>2, <1>3 DEF Initialize, Invalidate, Miss, Ask
<1>4. ASSUME NEW s \in Sessions, Forget(s), NEW from, Step(s, from, "ready")
      PROVE  Waiting(t)'
  <2>1. t # s => future'[t] = future[t]
    BY <1>t, <1>4 DEF Forget, TypeOK
  <2> QED
    BY <1>2, <1>4, <2>1
<1>5. ASSUME NEW s \in Sessions, Refetch(s)
      PROVE  Waiting(t)'
  <2>1. CASE GiveUp(s)
    BY <1>4, <2>1 DEF GiveUp
  <2>2. CASE Resume(s)
    <3>1. CASE Step(s, "await", "ready") /\ Forget(s)
      BY <1>4, <3>1
    <3>2. CASE Step(s, "await", "check") /\ UNCHANGED wires
      <4>1. CASE t = s
        BY <1>t, <1>l, <2>2, <3>2, <4>1 DEF Waiting, Waits, Resume, Step, TypeOK
      <4>2. CASE t # s
        BY <1>t, <1>1, <3>2, <4>2 DEF Step, TypeOK
      <4> QED
        BY <4>1, <4>2
    <3> QED
      BY <2>2, <3>1, <3>2 DEF Resume
  <2>3. CASE CheckOwn(s)
    <3>1. CASE t = s
      BY <1>t, <1>l, <2>3, <3>1 DEF Waiting, Waits, CheckOwn, Step, TypeOK
    <3>2. CASE t # s
      BY <1>t, <1>1, <2>3, <3>2 DEF CheckOwn, Step, TypeOK
    <3> QED
      BY <3>1, <3>2
  <2>4. CASE PutOwn(s)
    BY <1>4, <2>4 DEF PutOwn
  <2>5. CASE FailOwn(s)
    BY <1>4, <2>5 DEF FailOwn
  <2> QED
    BY <1>5, <2>1, <2>2, <2>3, <2>4, <2>5 DEF Refetch
<1>6. ASSUME NEW s \in Sessions, Take(s)
      PROVE  Waiting(t)'
  <2>1. Head(pipe[s]) \in Answer /\ client' = client
    BY <1>6, AtSession, HeadOfPipe DEF Take
  <2>2. future'[t] = future[t] \/ (future[t] = None /\ future'[t] = Head(pipe[s]))
    BY <1>t, <1>6 DEF Take, TypeOK
  <2>3. CASE future'[t] = future[t]
    BY <1>1, <2>1, <2>3
  <2>4. CASE future[t] = None
    BY <1>l, <2>1, <2>4 DEF Waiting, Waits
  <2> QED
    BY <2>2, <2>3, <2>4
<1>7. ASSUME NEW s \in Sessions, End(s)
      PROVE  Waiting(t)'
  <2>1. CASE t = s
    <3>1. client'[t] = "over"
      BY <1>t, <1>7, <2>1 DEF End, TypeOK
    <3> QED
      BY <3>1 DEF Waiting, Waits
  <2>2. CASE t # s
    BY <1>t, <1>1, <1>7, <2>2 DEF End, TypeOK
  <2> QED
    BY <2>1, <2>2
<1>8. ASSUME NEW s \in Sessions,
             \/ Request(s) \/ List(s) \/ Reply(s) \/ CheckList(s) \/ PutList(s) \/ AuditList(s)
             \/ FailList(s) \/ Serve(s)
      PROVE  Waiting(t)'
  BY <1>1, <1>8 DEF Request, List, Reply, CheckList, PutList, AuditList, FailList, Serve
<1>9. ASSUME Swap \/ Expire \/ UNCHANGED vars
      PROVE  Waiting(t)'
  BY <1>1, <1>9 DEF Swap, Expire, vars
<1> QED
  BY <1>3, <1>5, <1>6, <1>7, <1>8, <1>9 DEF Next, Relay

(* ... and what the upstream pumps know.                                    *)
Relaying(t) == Relays(up[t], engine, checked, log)

LEMMA RelaysStep ==
  ASSUME IInv, [Next]_vars, NEW t \in Sessions
  PROVE  Relaying(t)'
<1> USE BoundsAreNat DEF pumps, wires, bounds, history
<1>t. TypeOK /\ up \in [Sessions -> Stage] /\ engine \in Nat
  BY DEF IInv, TypeOK, Stage
<1>l. Promising(t) /\ Relaying(t) /\ up[t] \in Stage
  BY AtSession DEF Promising, Relaying
<1>1. ASSUME up'[t] = up[t], engine' = engine
      PROVE  Relaying(t)'
  BY <1>l, <1>1, HistoryGrows DEF Relaying, Relays
<1>2. ASSUME NEW s \in Sessions, Take(s)
      PROVE  Relaying(t)'
  <2>1. CASE up' = up
    BY <1>1, <1>2, <2>1 DEF Take
  <2>2. ASSUME t = s, up' # up
        PROVE  Relaying(t)'
    <3> DEFINE m == Head(pipe[t])
               listed == m.id \in pending[t] /\ m.ok
               due == listed \/ m.id \in {i \in Ids[t] : usage[t][i] = "answered"}
    <3>1. pipe[t] # <<>> /\ engine' = engine
      BY <1>2, <2>2 DEF Take
    <3>2. up'[t] = [at |-> IF listed THEN "check" ELSE "send", msg |-> m, since |-> engine,
                    due |-> due]
      BY <1>t, <1>2, <2>2 DEF Take
    <3>3. m \in Answer /\ m # None
      BY <3>1, AtSession, HeadOfPipe, NoAnswerAssumption
    <3>4. due => m.id \in pending[t]
      <4>1. ASSUME NEW i \in Ids[t], usage[t][i] = "answered", Head(pipe[t]).id = i
            PROVE  i \in pending[t]
        <5>1. Promised(i, usage[t][i], pipe[t], pending[t])
          BY <1>l DEF Promising, Promises
        <5> QED
          BY <3>1, <4>1, <5>1, AtSession, HeadOfPipe DEF Promised
      <4> QED
        BY <4>1
    <3> HIDE DEF m, due
    <3>5. CASE listed
      BY <1>t, <3>1, <3>2, <3>3, <3>5 DEF Relaying, Relays
    <3>6. CASE ~listed
      BY <1>t, <3>1, <3>2, <3>3, <3>4, <3>6 DEF Relaying, Relays
    <3> QED
      BY <3>5, <3>6
  <2>3. CASE t # s
    BY <1>t, <1>1, <1>2, <2>3 DEF Take
  <2> QED
    BY <2>1, <2>2, <2>3
<1>3. ASSUME NEW s \in Sessions, CheckList(s)
      PROVE  Relaying(t)'
  <2>1. CASE t = s
    <3>1. up'[t] = [up[t] EXCEPT !.at = "put"] /\ up[t].at = "check"
      BY <1>t, <1>3, <2>1 DEF CheckList
    <3> QED
      BY <1>l, <1>3, <2>1, <3>1 DEF Relaying, Relays, CheckList, Stage
  <2>2. CASE t # s
    BY <1>t, <1>1, <1>3, <2>2 DEF CheckList
  <2> QED
    BY <2>1, <2>2
<1>4. ASSUME NEW s \in Sessions, PutList(s)
      PROVE  Relaying(t)'
  <2>1. CASE t = s
    <3>1. up'[t] = [up[t] EXCEPT !.at = "audit", !.msg = Pruned(@)] /\ up[t].at = "put"
      BY <1>t, <1>4, <2>1 DEF PutList
    <3>2. up[t].msg \in Answer /\ engine \in up[t].since..engine
      BY <1>t, <1>l, <3>1 DEF Relaying, Relays, Stage
    <3>3. /\ Pruned(up[t].msg) \in Answer /\ Pruned(up[t].msg).n = up[t].msg.n
          /\ Pruned(up[t].msg).tools \subseteq Grants[engine]
      BY <3>2, AnswerChanges
    <3>4. /\ up'[t].at = "audit" /\ up'[t].msg = Pruned(up[t].msg)
          /\ up'[t].since = up[t].since
      BY <1>l, <3>1 DEF Stage
    <3>5. engine' = engine /\ up[t].msg.n \in checked /\ up[t].since <= engine
      BY <1>l, <1>4, <3>1 DEF PutList, Relaying, Relays
    <3> QED
      BY <3>2, <3>3, <3>4, <3>5, HistoryGrows, NoAnswerAssumption DEF Relaying, Relays, Granted
  <2>2. CASE t # s
    BY <1>t, <1>1, <1>4, <2>2 DEF PutList
  <2> QED
    BY <2>1, <2>2
<1>5. ASSUME NEW s \in Sessions, AuditList(s)
      PROVE  Relaying(t)'
  <2>1. CASE t = s
    <3>1. up'[t] = [up[t] EXCEPT !.at = "send"] /\ up[t].at = "audit"
      BY <1>t, <1>5, <2>1 DEF AuditList
    <3> QED
      BY <1>l, <1>5, <2>1, <3>1, HistoryGrows DEF Relaying, Relays, AuditList, Stage
  <2>2. CASE t # s
    BY <1>t, <1>1, <1>5, <2>2 DEF AuditList
  <2> QED
    BY <2>1, <2>2
<1>6. ASSUME NEW s \in Sessions, FailList(s)
      PROVE  Relaying(t)'
  <2>1. CASE t = s
    <3>1. up'[t] = [up[t] EXCEPT !.at = "send", !.msg = Error(@)]
      BY <1>t, <1>6, <2>1 DEF FailList
    <3>2. /\ up'[t].at = "send" /\ up'[t].msg = Error(up[t].msg)
          /\ up'[t].since = up[t].since
      BY <1>l, <3>1 DEF Stage
    <3>3. engine' = engine /\ up[t].since <= engine /\ up[t].msg \in Answer
      BY <1>l, <1>6, <2>1 DEF Relaying, Relays, FailList, Stage
    <3>4. Error(up[t].msg) \in Answer /\ ~Error(up[t].msg).ok
      BY <3>3, AnswerChanges
    <3> QED
      BY <3>2, <3>3, <3>4, NoAnswerAssumption DEF Relaying, Relays
  <2>2. CASE t # s
    BY <1>t, <1>1, <1>6, <2>2 DEF FailList
  <2> QED
    BY <2>1, <2>2
<1>7. ASSUME NEW s \in Sessions, Serve(s) \/ End(s)
      PROVE  Relaying(t)'
  <2>1. CASE t = s
    <3>1. up'[t].at \in {"ready", "over"}
      BY <1>t, <1>7, <2>1 DEF Serve, End, Idle
    <3> QED
      BY <3>1 DEF Relaying, Relays
  <2>2. CASE t # s
    BY <1>t, <1>1, <1>7, <2>2 DEF Serve, End
  <2> QED
    BY <2>1, <2>2
<1>8. CASE Swap
  <2>1. up' = up /\ engine' = engine + 1 /\ checked' = checked /\ log' = log
    BY <1>8 DEF Swap
  <2>2. up[t].since \in Nat
    BY <1>l DEF Stage
  <2>3. up[t].since..engine \subseteq up[t].since..(engine + 1)
    BY <1>t, <2>2
  <2>4. Granted(up[t].msg, up[t].since, engine) => Granted(up[t].msg, up[t].since, engine + 1)
    BY <2>3 DEF Granted
  <2> QED
    BY <1>t, <1>l, <2>1, <2>2, <2>4 DEF Relaying, Relays
<1>9. ASSUME NEW s \in Sessions,
             \/ Request(s) \/ Initialize(s) \/ Invalidate(s) \/ List(s) \/ Miss(s) \/ Ask(s)
             \/ Refetch(s) \/ Reply(s)
      PROVE  Relaying(t)'
  BY <1>1, <1>9 DEF Request, Initialize, Invalidate, List, Miss, Ask, Refetch, GiveUp, Resume,
                    CheckOwn, PutOwn, FailOwn, Forget, Reply
<1>10. ASSUME Expire \/ UNCHANGED vars
       PROVE  Relaying(t)'
  BY <1>1, <1>10 DEF Expire, vars
<1> QED
  BY <1>2, <1>3, <1>4, <1>5, <1>6, <1>7, <1>8, <1>9, <1>10 DEF Next, Relay

(* Only a handshake settles answers, and none that is on its way.           *)
Moving(t) == Unsettled(pipe[t], future[t], up[t], dropped)

LEMMA OnlyHandshakesSettle ==
  ASSUME [Next]_vars, \A s \in Sessions : ~Invalidate(s)
  PROVE  /\ dropped' = dropped
         /\ answered' = answered \/ answered' = answered + 1
<1> USE DEF bounds, history
<1>1. ASSUME NEW s \in Sessions,
             \/ Request(s) \/ Initialize(s) \/ List(s) \/ Miss(s) \/ Ask(s) \/ Refetch(s)
             \/ Reply(s) \/ Relay(s) \/ Serve(s) \/ End(s)
      PROVE  /\ dropped' = dropped
             /\ answered' = answered \/ answered' = answered + 1
  BY <1>1 DEF Refetch, Relay, Request, Initialize, List, Miss, Ask, GiveUp, Resume, CheckOwn,
              PutOwn, FailOwn, Forget, Reply, Take, CheckList, PutList, AuditList, FailList,
              Serve, End
<1>2. ASSUME Swap \/ Expire \/ UNCHANGED vars
      PROVE  UNCHANGED <<answered, dropped>>
  BY <1>2 DEF Swap, Expire, vars
<1> QED
  BY <1>1, <1>2 DEF Next

LEMMA MovingStep ==
  ASSUME IInv, [Next]_vars, NEW t \in Sessions
  PROVE  Moving(t)'
<1> USE DEF pumps, wires, bounds, history
<1>t. TypeOK /\ up \in [Sessions -> Stage]
  BY DEF IInv, TypeOK, Stage
<1>l. Moving(t) /\ up[t] \in Stage
  BY AtSession DEF Moving
<1>1. ASSUME UNCHANGED <<pipe, dropped>>, future'[t] \in {future[t], None},
             up'[t].at \in {"check", "put"} =>
               up[t].at \in {"check", "put"} /\ up'[t].msg = up[t].msg
      PROVE  Moving(t)'
  BY <1>l, <1>1 DEF Moving, Unsettled
<1>2. ASSUME NEW s \in Sessions, Invalidate(s)
      PROVE  Moving(t)'
  <2> DEFINE P == {{pipe[x][i].n : i \in DOMAIN pipe[x]} : x \in Sessions}
             U == {up[x].msg.n : x \in {y \in Sessions : up[y].at \in {"check", "put"}}}
             F == {future[x].n : x \in {y \in Sessions : future[y] # None}}
  <2>1. /\ \A j \in DOMAIN pipe[t] : pipe[t][j].n \in UnderWay
        /\ up[t].at \in {"check", "put"} => up[t].msg.n \in UnderWay
        /\ future[t] # None => future[t].n \in UnderWay
    <3>1. {pipe[t][j].n : j \in DOMAIN pipe[t]} \in P
      OBVIOUS
    <3>2. up[t].at \in {"check", "put"} => up[t].msg.n \in U
      OBVIOUS
    <3>3. future[t] # None => future[t].n \in F
      OBVIOUS
    <3>4. UnderWay = (UNION P) \union U \union F
      BY Zenon DEF UnderWay
    <3>5. {pipe[t][j].n : j \in DOMAIN pipe[t]} \subseteq UNION P
      BY <3>1
    <3> HIDE DEF P, U, F
    <3> QED
      BY <3>2, <3>3, <3>4, <3>5
  <2>2. DOMAIN pipe[t] = 1..Len(pipe[t])
    BY AtSession
  <2>3. \A n \in UnderWay : n \in dropped' => n \in dropped
    BY <1>2 DEF Invalidate
  <2> HIDE DEF UnderWay
  <2>4. UNCHANGED <<pipe, future, up>>
    BY <1>2 DEF Invalidate
  <2> QED
    BY <1>l, <2>1, <2>2, <2>3, <2>4 DEF Moving, Unsettled
<1>3. ASSUME NEW s \in Sessions,
             \/ Request(s) \/ Initialize(s) \/ List(s) \/ Miss(s) \/ Ask(s)
             \/ GiveUp(s) \/ Resume(s) \/ CheckOwn(s) \/ PutOwn(s) \/ FailOwn(s)
      PROVE  Moving(t)'
  <2>1. UNCHANGED <<pipe, up, dropped>>
    BY <1>3 DEF Request, Initialize, List, Miss, Ask, GiveUp, Resume, CheckOwn, PutOwn,
                FailOwn, Forget
  <2>2. future'[t] \in {future[t], None}
    BY <1>t, <1>3 DEF Request, Initialize, List, Miss, Ask, GiveUp, Resume, CheckOwn, PutOwn,
                      FailOwn, Forget, TypeOK
  <2> QED
    BY <1>1, <2>1, <2>2
<1>4. ASSUME NEW s \in Sessions, Reply(s)
      PROVE  Moving(t)'
  <2>1. PICK m \in Answer :
          m.n = answered + 1 /\ pipe' = [pipe EXCEPT ![s] = Append(@, m)]
    BY <1>4, ReplyAnswers
  <2>2. UNCHANGED <<up, future, dropped>>
    BY <1>4 DEF Reply
  <2>3. m.n \notin dropped
    BY <2>1 DEF IInv, TypeOK
  <2>4. CASE t = s
    <3> DEFINE r == Append(pipe[t], m)
    <3>1. pipe'[t] = r
      BY <1>t, <2>1, <2>4 DEF TypeOK
    <3>2. \A j \in 1..Len(r) : r[j] = m \/ (j \in 1..Len(pipe[t]) /\ r[j] = pipe[t][j])
      BY AtSession
    <3> HIDE DEF r
    <3> QED
      BY <1>l, <2>2, <2>3, <3>1, <3>2 DEF Moving, Unsettled
  <2>5. CASE t # s
    <3>1. pipe'[t] = pipe[t]
      BY <1>t, <2>1, <2>5 DEF TypeOK
    <3> QED
      BY <1>l, <2>2, <3>1 DEF Moving, Unsettled
  <2> QED
    BY <2>4, <2>5
<1>5. ASSUME NEW s \in Sessions, Take(s)
      PROVE  Moving(t)'
  <2>1. dropped' = dropped
    BY <1>5 DEF Take
  <2>2. CASE t = s
    <3>1. pipe[t] # <<>> /\ pipe'[t] = Tail(pipe[t])
      BY <1>t, <1>5, <2>2 DEF Take, TypeOK
    <3>2. /\ up'[t] = up[t] \/ up'[t].msg = Head(pipe[t])
          /\ future'[t] \in {future[t], Head(pipe[t])}
      BY <1>t, <1>5, <2>2 DEF Take, TypeOK
    <3>3. /\ Head(pipe[t]).n \notin dropped
          /\ \A j \in 1..Len(Tail(pipe[t])) : Tail(pipe[t])[j].n \notin dropped
      BY <1>l, <3>1, AtSession, HeadOfPipe DEF Moving, Unsettled
    <3> QED
      BY <1>l, <2>1, <3>1, <3>2, <3>3 DEF Moving, Unsettled
  <2>3. CASE t # s
    <3>1. up'[t] = up[t] /\ pipe'[t] = pipe[t] /\ future'[t] = future[t]
      BY <1>t, <1>5, <2>3 DEF Take, TypeOK
    <3> QED
      BY <1>l, <2>1, <3>1 DEF Moving, Unsettled
  <2> QED
    BY <2>2, <2>3
<1>6. ASSUME NEW s \in Sessions,
             CheckList(s) \/ PutList(s) \/ AuditList(s) \/ FailList(s) \/ Serve(s)
      PROVE  Moving(t)'
  <2>1. UNCHANGED <<pipe, future, dropped>>
    BY <1>6 DEF CheckList, PutList, AuditList, FailList, Serve
  <2>2. CASE t = s
    <3>1. \/ up[t].at = "check" /\ up'[t] = [up[t] EXCEPT !.at = "put"]
          \/ up'[t].at \in {"audit", "send", "ready"}
      BY <1>t, <1>l, <1>6, <2>2 DEF CheckList, PutList, AuditList, FailList, Serve, Idle, Stage
    <3> QED
      BY <1>l, <1>1, <2>1, <3>1 DEF Stage
  <2>3. CASE t # s
    <3>1. up'[t] = up[t]
      BY <1>t, <1>6, <2>3 DEF CheckList, PutList, AuditList, FailList, Serve
    <3> QED
      BY <1>1, <2>1, <3>1
  <2> QED
    BY <2>2, <2>3
<1>7. ASSUME NEW s \in Sessions, End(s)
      PROVE  Moving(t)'
  <2>1. dropped' = dropped
    BY <1>7 DEF End
  <2>2. CASE t = s
    <3>1. pipe'[t] = <<>> /\ future'[t] = None /\ up'[t].at = "over"
      BY <1>t, <1>7, <2>2 DEF End, Idle, TypeOK
    <3> QED
      BY <2>1, <3>1 DEF Moving, Unsettled
  <2>3. CASE t # s
    <3>1. pipe'[t] = pipe[t] /\ future'[t] = future[t] /\ up'[t] = up[t]
      BY <1>t, <1>7, <2>3 DEF End, TypeOK
    <3> QED
      BY <1>l, <2>1, <3>1 DEF Moving, Unsettled
  <2> QED
    BY <2>2, <2>3
<1>8. ASSUME Swap \/ Expire \/ UNCHANGED vars
      PROVE  Moving(t)'
  BY <1>1, <1>8 DEF Swap, Expire, vars
<1> QED
  BY <1>2, <1>3, <1>4, <1>5, <1>6, <1>7, <1>8 DEF Next, Refetch, Relay

LEMMA DroppedStep == IInv /\ [Next]_vars => dropped' \subseteq 1..answered'
<1> SUFFICES ASSUME IInv, [Next]_vars
             PROVE  dropped' \subseteq 1..answered'
  OBVIOUS
<1>1. answered \in Nat /\ dropped \subseteq 1..answered
  BY BoundsAreNat DEF IInv, TypeOK
<1>2. ASSUME NEW s \in Sessions, Invalidate(s)
      PROVE  dropped' \subseteq 1..answered'
  BY <1>1, <1>2 DEF Invalidate, bounds
<1>3. CASE \A s \in Sessions : ~Invalidate(s)
  <2>1. dropped' = dropped /\ (answered' = answered \/ answered' = answered + 1)
    BY <1>3, OnlyHandshakesSettle
  <2>2. 1..answered \subseteq 1..answered'
    BY <1>1, <2>1
  <2> QED
    BY <1>1, <2>1, <2>2
<1> QED
  BY <1>2, <1>3

-----------------------------------------------------------------------------
(* What is cached was checked, and on its way at every handshake since.     *)
LEMMA CacheStep == IInv /\ [Next]_vars => CacheIsCurrent'
<1> SUFFICES ASSUME IInv, [Next]_vars
             PROVE  CacheIsCurrent'
  OBVIOUS
<1> USE DEF bounds, history
<1>i. CacheIsCurrent
  BY DEF IInv
<1>1. ASSUME cache' \in {cache, None}, dropped' = dropped
      PROVE  CacheIsCurrent'
  BY <1>i, <1>1, HistoryGrows DEF CacheIsCurrent
<1>2. ASSUME NEW m, m.n \in checked, m.n \notin dropped, cache' = m, dropped' = dropped
      PROVE  CacheIsCurrent'
  BY <1>2, HistoryGrows DEF CacheIsCurrent
<1>3. ASSUME NEW s \in Sessions, client[s] = "put"
      PROVE  future[s].n \in checked /\ future[s].n \notin dropped
  BY <1>3, AtSession DEF Waits, Unsettled
<1>4. ASSUME NEW s \in Sessions, up[s].at = "put"
      PROVE  up[s].msg.n \in checked /\ up[s].msg.n \notin dropped
  BY <1>4, AtSession DEF Relays, Unsettled
<1>5. ASSUME NEW s \in Sessions, Invalidate(s)
      PROVE  CacheIsCurrent'
  BY <1>5 DEF Invalidate, CacheIsCurrent
<1>6. ASSUME NEW s \in Sessions, PutOwn(s)
      PROVE  CacheIsCurrent'
  BY <1>2, <1>3, <1>6 DEF PutOwn, Step, Forget
<1>7. ASSUME NEW s \in Sessions, PutList(s)
      PROVE  CacheIsCurrent'
  BY <1>2, <1>4, <1>7 DEF PutList
<1>8. ASSUME NEW s \in Sessions, End(s)
      PROVE  CacheIsCurrent'
  <2>1. PICK m \in {cache} \union Puts(s) : cache' = m /\ dropped' = dropped
    BY <1>8 DEF End
  <2>2. CASE m = cache
    BY <1>1, <2>1, <2>2
  <2>3. CASE m \in Puts(s)
    BY <1>2, <1>3, <1>4, <2>1, <2>3 DEF Puts
  <2> QED
    BY <2>1, <2>2, <2>3
<1>9. ASSUME NEW s \in Sessions,
             \/ Request(s) \/ Initialize(s) \/ List(s) \/ Miss(s) \/ Ask(s) \/ GiveUp(s)
             \/ Resume(s) \/ CheckOwn(s) \/ FailOwn(s) \/ Reply(s) \/ Take(s) \/ CheckList(s)
             \/ AuditList(s) \/ FailList(s) \/ Serve(s)
      PROVE  cache' = cache /\ dropped' = dropped
  BY <1>9 DEF Request, Initialize, List, Miss, Ask, GiveUp, Resume, CheckOwn, FailOwn, Forget,
              Reply, Take, CheckList, AuditList, FailList, Serve
<1>10. ASSUME Swap \/ Expire \/ UNCHANGED vars
       PROVE  cache' \in {cache, None} /\ dropped' = dropped
  BY <1>10 DEF Swap, Expire, vars
<1> QED
  BY <1>1, <1>5, <1>6, <1>7, <1>8, <1>9, <1>10 DEF Next, Refetch, Relay

LEMMA InvariantStarts == Init => IInv
<1> SUFFICES ASSUME Init
             PROVE  IInv
  OBVIOUS
<1>1. TypeOK
  BY BoundsAreNat DEF Init, TypeOK, Idle, Unused
<1>2. ASSUME NEW s \in Sessions
      PROVE  /\ Promises(Ids[s], usage[s], pipe[s], pending[s])
             /\ Waits(client[s], future[s], checked)
             /\ Relays(up[s], engine, checked, log)
             /\ Unsettled(pipe[s], future[s], up[s], dropped)
  <2>1. \A i \in Ids[s] : usage[s][i] = "unused"
    BY IdsOfSession DEF Init, Unused
  <2> QED
    BY <1>2, <2>1 DEF Init, Promises, Promised, Waits, Relays, Unsettled, Idle
<1> QED
  BY <1>1, <1>2 DEF Init, IInv, CacheIsCurrent

LEMMA InvariantStep == IInv /\ [Next]_vars => IInv'
BY TypeStep, PromisesStep, WaitsStep, RelaysStep, MovingStep, DroppedStep, CacheStep
   DEF IInv, Promising, Waiting, Relaying, Moving

LEMMA Invariant == Spec => []IInv
BY InvariantStarts, InvariantStep, PTL DEF Spec

(* The state of pumps, wires and cache has its type: the stages, answers    *)
(* and requests of jsonrpc_interceptor.py:129-160.                          *)
THEOREM RelayTypeCorrect == Spec => []TypeOK
BY Invariant, PTL DEF IInv

(* Whatever is late, fails, is answered twice or is swapped in between, and *)
(* for any number of sessions: an answer that is relayed as a list, and     *)
(* every list under an id that its client used once and the subprocess did  *)
(* not answer unasked, is checked for drift, pruned by an engine in force   *)
(* while it was relayed, and logged as served before it is written to the   *)
(* client (jsonrpc_interceptor.py:707-764).                                 *)
THEOREM ServedListsArePruned == Spec => []ServedArePruned
<1>1. IInv => ServedArePruned
  <2> SUFFICES ASSUME IInv, NEW s \in Sessions, up[s].at = "send", up[s].due, up[s].msg.ok
               PROVE  /\ up[s].msg.n \in checked
                      /\ \E e \in up[s].since..engine : up[s].msg.tools \subseteq Grants[e]
                      /\ <<up[s].msg.n, up[s].msg.tools>> \in log
    BY DEF ServedArePruned
  <2> QED
    BY AtSession DEF Relays, Granted
<1> QED
  BY <1>1, Invariant, PTL

(* What calls are validated against was checked for drift, and was on its   *)
(* way at every handshake that did not precede it (schema_cache.py:1-7).    *)
THEOREM CachedListsAreCurrent == Spec => []CacheIsCurrent
BY Invariant, PTL DEF IInv
=============================================================================
