------------------------- MODULE RedisWindowsProofs -------------------------
(* What the keys of RedisWindows guarantee for any windows, any tokens and  *)
(* any number of calls, however late the second command of each is.         *)
EXTENDS RedisWindows, TLAPS

(* The moment from which no check of the clock accepts token t.             *)
End(t) ==
  IF t \in Nonces THEN Stamp[t] + Window ELSE (StepOf[t] + 2) * TotpStep

(* A SET that is due leaves a key that outlives the token, and so does the  *)
(* key of a token that was accepted.                                        *)
Pending(c) ==
  /\ pc[c] \in {"idle", "checked"} => took[c] = None
  /\ pc[c] = "checked" => now + Life(job[c]) >= End(job[c])

Accepted(c) ==
  took[c] # None =>
    /\ job[c] \in Tokens /\ took[c] <= now
    /\ now + left[job[c]] >= End(job[c])

AgainAfterEnd ==
  \A c, d \in Calls : Again(c, d) => took[c] >= End(job[c])

TokenInv ==
  /\ TypeOK /\ now <= MaxTime
  /\ \A c \in Calls : Pending(c) /\ Accepted(c)
  /\ AgainAfterEnd

-----------------------------------------------------------------------------
THEOREM TypeInit == Init => TypeOK
BY DEF Init, TypeOK

(* Every step keeps the types.                                              *)
LEMMA TypeStep == TypeOK /\ [Next]_vars => TypeOK'
<1> SUFFICES ASSUME TypeOK, [Next]_vars PROVE TypeOK'
  OBVIOUS
<1> USE WindowsAssumption
<1>1. CASE Tick
  <2>1. now' \in Nat
    BY <1>1 DEF TypeOK, Tick, Older, Lesser
  <2>2. left' \in [Tokens -> Nat]
    BY <1>1 DEF TypeOK, Tick, Greater
  <2>3. /\ count' \in [Counters -> Nat]
        /\ ttl' \in [Counters -> Nat \union {None}]
        /\ \A k \in Counters : ttl'[k] # None => count'[k] > 0 /\ ttl'[k] > 0
    BY <1>1 DEF TypeOK, Tick
  <2>4. age' \in [Calls -> Nat \union {None}]
    BY <1>1 DEF TypeOK, Tick, Older, Lesser
  <2>5. slack' \in Nat /\ lost' \subseteq Counters
    BY <1>1 DEF TypeOK, Tick
  <2> QED
    BY <1>1, <2>1, <2>2, <2>3, <2>4, <2>5 DEF TypeOK, Tick
<1>2. ASSUME NEW c \in Calls, Check(c) PROVE TypeOK'
  BY <1>2 DEF TypeOK, Check, tokens, counters
<1>3. ASSUME NEW c \in Calls, Set(c) PROVE TypeOK'
  <2>1. Life(job[c]) \in Nat
    BY DEF Life
  <2> QED
    BY <1>3, <2>1 DEF TypeOK, Set, tokens, counters
<1>4. ASSUME NEW c \in Calls, Incr(c) PROVE TypeOK'
  BY <1>4 DEF TypeOK, Incr, tokens
<1>5. ASSUME NEW c \in Calls, Expire(c) PROVE TypeOK'
  <2>1. \A k \in Counters : Period[k] \in Nat /\ Period[k] > 0
    BY DEF Period, Counters
  <2> QED
    BY <1>5, <2>1 DEF TypeOK, Expire, tokens
<1>6. ASSUME NEW c \in Calls, Lose(c) PROVE TypeOK'
  BY <1>6 DEF TypeOK, Lose, tokens
<1>7. CASE UNCHANGED vars
  BY <1>7 DEF TypeOK, vars, tokens, counters
<1> QED
  BY <1>1, <1>2, <1>3, <1>4, <1>5, <1>6, <1>7 DEF Next

(* The state of the gateway's keys and calls keeps its types.               *)
THEOREM WindowsTypeCorrect == Spec => []TypeOK
BY TypeInit, TypeStep, PTL DEF Spec

-----------------------------------------------------------------------------
(* A code checked in time step q has ended three steps later.               *)
LEMMA CodeSpan ==
  ASSUME NEW n \in Nat, NEW k \in Int, NEW T \in Nat \ {0}, n \div T - k \in -1..1
  PROVE  n + 3 * T >= (k + 2) * T
<1> DEFINE q == n \div T
<1>1. q \in Int /\ q * T <= n
  OBVIOUS
<1>2. q >= k - 1
  OBVIOUS
<1>3. q * T >= (k - 1) * T
  BY <1>1, <1>2
<1>4. (k - 1) * T + 3 * T = (k + 2) * T
  OBVIOUS
<1> QED
  BY <1>1, <1>3, <1>4

(* Whatever passes the check of the clock can be remembered long enough.    *)
LEMMA LifeCoversToken ==
  ASSUME TypeOK, NEW t \in Tokens,
         t \in Nonces => FreshTimestamp(t), t \in Codes => verify_totp(t)
  PROVE  now + Life(t) >= End(t)
<1>1. CASE t \in Nonces
  BY <1>1, WindowsAssumption DEF TypeOK, FreshTimestamp, Life, End
<1>2. CASE t \notin Nonces
  <2>1. t \in Codes /\ verify_totp(t)
    BY <1>2 DEF Tokens
  <2>2. now + 3 * TotpStep >= (StepOf[t] + 2) * TotpStep
    BY <2>1, CodeSpan, WindowsAssumption DEF TypeOK, verify_totp
  <2> QED
    BY <1>2, <2>2 DEF Life, End
<1> QED
  BY <1>1, <1>2

LEMMA EndType ==
  \A t \in Tokens : End(t) \in Int /\ End(t) <= MaxTime /\ Life(t) \in Nat
BY WindowsAssumption DEF End, Life, Tokens

LEMMA TokenInit == Init => TokenInv
BY TypeInit, WindowsAssumption DEF Init, TokenInv, Pending, Accepted, AgainAfterEnd, Again

(* Steps that leave the clock and the tokens alone, and move no call into   *)
(* or out of the check of a token.                                          *)
LEMMA TokenFrame ==
  ASSUME TokenInv, TypeOK', now' = now, UNCHANGED tokens,
         \A c \in Calls :
           \/ pc'[c] = pc[c] /\ job'[c] = job[c]
           \/ took[c] = None /\ pc'[c] \notin {"checked"}
           \/ pc[c] = "counted" /\ pc'[c] = "done" /\ job'[c] = job[c]
  PROVE  TokenInv'
<1>1. now' <= MaxTime
  BY DEF TokenInv
<1>2. ASSUME NEW c \in Calls PROVE Pending(c)' /\ Accepted(c)'
  <2>1. took'[c] = took[c] /\ left' = left
    BY DEF tokens
  <2>2. Pending(c) /\ Accepted(c)
    BY DEF TokenInv
  <2> QED
    BY <2>1, <2>2 DEF Pending, Accepted, End, Life
<1>3. AgainAfterEnd'
  <2> SUFFICES ASSUME NEW c \in Calls, NEW d \in Calls, Again(c, d)'
               PROVE  took'[c] >= End(job'[c])
    BY DEF AgainAfterEnd, End
  <2>1. took' = took /\ took[c] # None /\ took[d] # None
    BY DEF Again, tokens
  <2>2. job'[c] = job[c] /\ job'[d] = job[d]
    BY <2>1
  <2>3. Again(c, d)
    BY <2>1, <2>2 DEF Again
  <2> QED
    BY <2>1, <2>2, <2>3 DEF TokenInv, AgainAfterEnd
<1> QED
  BY <1>1, <1>2, <1>3 DEF TokenInv

LEMMA TokenStep == TokenInv /\ [Next]_vars => TokenInv'
<1> SUFFICES ASSUME TokenInv, [Next]_vars PROVE TokenInv'
  OBVIOUS
<1> USE WindowsAssumption
<1>0. TypeOK /\ TypeOK'
  BY TypeStep DEF TokenInv
<1>1. CASE Tick
  <2>1. now' \in Nat /\ now' <= MaxTime /\ now <= now' /\ (now' = now + 1 \/ now' = MaxTime)
    BY <1>0, <1>1 DEF TokenInv, TypeOK, Tick, Older, Lesser
  <2>2. job' = job /\ pc' = pc /\ took' = took
    BY <1>1 DEF Tick
  <2>3. ASSUME NEW c \in Calls PROVE Pending(c)'
    <3>1. ASSUME pc[c] = "checked" PROVE now' + Life(job[c]) >= End(job[c])
      <4>1. job[c] \in Tokens /\ now + Life(job[c]) >= End(job[c])
        BY <1>0, <3>1 DEF TypeOK, TokenInv, Pending
      <4> QED
        BY <1>0, <2>1, <4>1, EndType DEF TypeOK
    <3>2. Pending(c)
      BY DEF TokenInv
    <3> QED
      BY <2>2, <3>1, <3>2 DEF Pending, Life, End
  <2>4. ASSUME NEW c \in Calls PROVE Accepted(c)'
    <3>1. ASSUME took[c] # None
          PROVE  /\ job[c] \in Tokens /\ took[c] <= now'
                 /\ now' + left'[job[c]] >= End(job[c])
      <4>1. /\ job[c] \in Tokens /\ took[c] <= now
            /\ now + left[job[c]] >= End(job[c])
        BY <3>1 DEF TokenInv, Accepted
      <4>2. left'[job[c]] \in Nat /\ left'[job[c]] >= left[job[c]] - 1
        BY <1>0, <1>1, <4>1 DEF Tick, TypeOK, Greater
      <4>3. End(job[c]) \in Int /\ End(job[c]) <= MaxTime
        BY <4>1, EndType
      <4>4. left[job[c]] \in Nat /\ took[c] \in Nat /\ now \in Nat
        BY <1>0, <3>1, <4>1 DEF TypeOK
      <4> QED
        BY <2>1, <4>1, <4>2, <4>3, <4>4
    <3> QED
      BY <2>2, <3>1 DEF Accepted, End
  <2>5. AgainAfterEnd'
    BY <2>2 DEF TokenInv, AgainAfterEnd, Again, End
  <2> QED
    BY <1>0, <2>1, <2>3, <2>4, <2>5 DEF TokenInv
<1>2. ASSUME NEW c \in Calls, Check(c) PROVE TokenInv'
  <2>1. /\ now' = now /\ took' = took /\ left' = left
        /\ took[c] = None
        /\ pc' = [pc EXCEPT ![c] = "checked"]
        /\ \A d \in Calls \ {c} : job'[d] = job[d] /\ pc'[d] = pc[d]
    BY <1>0, <1>2 DEF Check, tokens, TokenInv, Pending, TypeOK
  <2>2. PICK t \in Tokens : /\ t \in Nonces => FreshTimestamp(t)
                            /\ t \in Codes => verify_totp(t)
                            /\ job' = [job EXCEPT ![c] = t]
    BY <1>2 DEF Check
  <2>3. job'[c] = t
    BY <1>0, <2>2 DEF TypeOK
  <2>4. now + Life(t) >= End(t)
    BY <1>0, <2>2, LifeCoversToken
  <2>5. ASSUME NEW d \in Calls PROVE Pending(d)' /\ Accepted(d)'
    <3>1. CASE d = c
      BY <2>1, <2>3, <2>4, <3>1 DEF Pending, Accepted, Life, End
    <3>2. CASE d # c
      <4>1. Pending(d) /\ Accepted(d)
        BY DEF TokenInv
      <4> QED
        BY <2>1, <3>2, <4>1 DEF Pending, Accepted, Life, End
    <3> QED
      BY <3>1, <3>2
  <2>6. AgainAfterEnd'
    <3> SUFFICES ASSUME NEW d \in Calls, NEW e \in Calls, Again(d, e)'
                 PROVE  took'[d] >= End(job'[d])
      BY DEF AgainAfterEnd, End
    <3>1. d # c /\ e # c /\ Again(d, e)
      BY <2>1 DEF Again
    <3> QED
      BY <2>1, <3>1 DEF TokenInv, AgainAfterEnd
  <2> QED
    BY <1>0, <2>1, <2>5, <2>6 DEF TokenInv
<1>3. ASSUME NEW c \in Calls, Set(c) PROVE TokenInv'
  <2> DEFINE t == job[c]
  <2>1. /\ now' = now /\ job' = job /\ pc' = [pc EXCEPT ![c] = "done"]
        /\ pc[c] = "checked" /\ t \in Tokens /\ took[c] = None
        /\ now + Life(t) >= End(t)
    BY <1>0, <1>3 DEF Set, TokenInv, Pending, TypeOK
  <2>2. CASE left[t] = 0
    <3>1. left' = [left EXCEPT ![t] = Life(t)] /\ took' = [took EXCEPT ![c] = now]
      BY <1>3, <2>2 DEF Set
    <3>2. ASSUME NEW d \in Calls PROVE Pending(d)' /\ Accepted(d)'
      <4>1. Pending(d) /\ Accepted(d)
        BY DEF TokenInv
      <4>2. CASE d = c
        BY <1>0, <2>1, <3>1, <4>2 DEF TypeOK, Pending, Accepted, End
      <4>3. CASE d # c
        <5>1. took'[d] = took[d] /\ pc'[d] = pc[d] /\ job'[d] = job[d]
          BY <1>0, <2>1, <3>1, <4>3 DEF TypeOK
        <5>2. Pending(d)'
          BY <2>1, <4>1, <5>1 DEF Pending, Life, End
        <5>3. job[d] \in Tokens => left'[job[d]] = IF job[d] = t THEN Life(t) ELSE left[job[d]]
          BY <1>0, <2>1, <3>1 DEF TypeOK
        <5>4. Accepted(d)'
          BY <2>1, <4>1, <5>1, <5>3 DEF Accepted, End
        <5> QED
          BY <5>2, <5>4
      <4> QED
        BY <4>2, <4>3
    <3>3. AgainAfterEnd'
      <4> SUFFICES ASSUME NEW d \in Calls, NEW e \in Calls, Again(d, e)'
                   PROVE  took'[d] >= End(job'[d])
        BY DEF AgainAfterEnd, End
      <4>1. d # e /\ job[d] = job[e] /\ took'[d] # None /\ took'[e] # None /\ took'[e] <= took'[d]
        BY <2>1 DEF Again
      <4>2. \A x \in Calls \ {c} : took'[x] = took[x]
        BY <1>0, <3>1 DEF TypeOK
      <4>3. took'[c] = now
        BY <1>0, <3>1 DEF TypeOK
      <4>4. \A x \in Calls : took[x] # None /\ job[x] = t => now >= End(t)
        BY <1>0, <2>1, <2>2 DEF TokenInv, Accepted, TypeOK
      <4>5. CASE d = c
        BY <2>1, <4>1, <4>2, <4>3, <4>4, <4>5
      <4>6. CASE e = c
        (* an older key is gone, so the other acceptance is not later       *)
        <5>1. took[d] # None /\ took'[d] = took[d] /\ job[d] = t
          BY <4>1, <4>2, <4>6
        <5>2. took[d] <= now /\ now <= took[d]
          BY <4>1, <4>3, <4>6, <5>1 DEF TokenInv, Accepted
        <5>3. took[d] \in Nat /\ now \in Nat
          BY <1>0, <5>1 DEF TypeOK
        <5>4. took[d] = now
          BY <5>2, <5>3
        <5> QED
          BY <2>1, <4>4, <5>1, <5>4
      <4>7. CASE d # c /\ e # c
        <5>1. Again(d, e)
          BY <4>1, <4>2, <4>7 DEF Again
        <5> QED
          BY <2>1, <4>2, <4>7, <5>1 DEF TokenInv, AgainAfterEnd
      <4> QED
        BY <4>5, <4>6, <4>7
    <3> QED
      BY <1>0, <2>1, <3>2, <3>3 DEF TokenInv
  <2>3. CASE left[t] # 0
    <3>1. UNCHANGED tokens
      BY <1>3, <2>3 DEF Set
    <3>2. \A d \in Calls : \/ pc'[d] = pc[d]
                           \/ took[d] = None /\ pc'[d] # "checked"
      BY <1>0, <2>1 DEF TypeOK
    <3> QED
      BY <1>0, <2>1, <3>1, <3>2, TokenFrame
  <2> QED
    BY <2>2, <2>3
<1>4. ASSUME NEW c \in Calls, Incr(c) PROVE TokenInv'
  <2>1. now' = now /\ UNCHANGED tokens /\ took[c] = None
    BY <1>4 DEF Incr, TokenInv, Pending
  <2>2. \A d \in Calls : \/ pc'[d] = pc[d] /\ job'[d] = job[d]
                         \/ took[d] = None /\ pc'[d] \notin {"checked"}
    BY <1>0, <1>4, <2>1 DEF Incr, TypeOK
  <2> QED
    BY <1>0, <2>1, <2>2, TokenFrame
<1>5. ASSUME NEW c \in Calls, Expire(c) \/ Lose(c) PROVE TokenInv'
  <2>1. now' = now /\ UNCHANGED tokens /\ job' = job
    BY <1>5 DEF Expire, Lose
  <2>2. \A d \in Calls : \/ pc'[d] = pc[d]
                         \/ pc[d] = "counted" /\ pc'[d] = "done"
    BY <1>0, <1>5 DEF Expire, Lose, TypeOK
  <2> QED
    BY <1>0, <2>1, <2>2, TokenFrame
<1>6. CASE UNCHANGED vars
  BY <1>0, <1>6, TokenFrame DEF vars, tokens
<1> QED
  BY <1>1, <1>2, <1>3, <1>4, <1>5, <1>6 DEF Next

LEMMA TokenInvariant == Spec => []TokenInv
BY TokenInit, TokenStep, PTL DEF Spec

(* No message is taken twice inside its window, however late the SET of a   *)
(* call is behind its check of the clock.                                   *)
THEOREM NoncesAreTakenOnce == Spec => []NonceReusedOnlyPastItsWindow
<1>1. TokenInv => NonceReusedOnlyPastItsWindow
  BY DEF TokenInv, AgainAfterEnd, NonceReusedOnlyPastItsWindow, End
<1> QED
  BY <1>1, TokenInvariant, PTL

(* No TOTP code answers two challenges inside its three time steps.         *)
THEOREM CodesAreTakenOnce == Spec => []CodeReusedOnlyAfterItsSpan
<1>1. TokenInv => CodeReusedOnlyAfterItsSpan
  BY WindowsAssumption DEF TokenInv, AgainAfterEnd, CodeReusedOnlyAfterItsSpan, End
<1> QED
  BY <1>1, TokenInvariant, PTL
-----------------------------------------------------------------------------
(* Call c made the key of "freq" and has not sent its EXPIRE.               *)
Creator(c) == pc[c] = "counted" /\ job[c] = "freq"

(* Nobody is counted in a key that is gone; the creator of a key is alone   *)
(* and its oldest call; a key that has a TTL has no creator left, and its   *)
(* oldest call and what is left of it add up to no more than the window     *)
(* and the delay of the EXPIRE.                                             *)
CountInv ==
  /\ TypeOK
  /\ count["freq"] = 0 => \A c \in Calls : age[c] = None
  /\ \A c \in Calls : Creator(c) =>
       /\ ttl["freq"] = None /\ age[c] # None
       /\ \A d \in Calls : age[d] # None => age[d] <= age[c]
       /\ \A d \in Calls : Creator(d) => d = c
  /\ ttl["freq"] # None =>
       /\ ttl["freq"] <= CountWindow
       /\ \A c \in Calls : age[c] # None => age[c] + ttl["freq"] <= CountWindow + slack

LEMMA CountInit == Init => CountInv
BY TypeInit DEF Init, CountInv, Creator, Counters

LEMMA CountStep == CountInv /\ [Next]_vars => CountInv'
<1> SUFFICES ASSUME CountInv, [Next]_vars PROVE CountInv'
  OBVIOUS
<1>7. None \notin Nat /\ CountWindow \in Nat /\ MaxTime \in Nat
  BY WindowsAssumption
<1> USE <1>7
<1>0. TypeOK /\ TypeOK' /\ "freq" \in Counters
  BY TypeStep DEF CountInv, Counters
<1>1. CASE Tick
  <2>1. job' = job /\ pc' = pc
    BY <1>1 DEF Tick
  <2>2. CASE ttl["freq"] = 1
    <3>1. \A c \in Calls : age'[c] = None /\ ~Creator(c)
      BY <1>0, <1>1, <2>2 DEF Tick, CountInv
    <3>2. ttl'["freq"] = None
      BY <1>0, <1>1, <2>2 DEF Tick
    <3> QED
      BY <1>0, <2>1, <3>1, <3>2 DEF CountInv, Creator
  <2>3. CASE ttl["freq"] # 1
    <3>1. /\ count'["freq"] = count["freq"] /\ slack' = slack
          /\ ttl'["freq"] = IF ttl["freq"] = None THEN None ELSE ttl["freq"] - 1
          /\ \A c \in Calls : age'[c] = IF age[c] = None THEN None ELSE Older(age[c])
      BY <1>0, <1>1, <2>3 DEF Tick
    <3>2. \A m, n \in Nat : /\ Older(m) \in Nat /\ Older(m) <= m + 1
                            /\ m <= n => Older(m) <= Older(n)
      BY DEF Older, Lesser
    <3>3. \A c \in Calls : age[c] # None => age[c] \in Nat /\ age'[c] = Older(age[c])
      BY <1>0, <3>1 DEF TypeOK
    <3>4. \A c \in Calls : age'[c] # None => age[c] # None
      BY <3>1
    <3>5. ttl'["freq"] # None => /\ ttl["freq"] # None /\ ttl["freq"] \in Nat
                                 /\ ttl'["freq"] = ttl["freq"] - 1
      BY <1>0, <3>1 DEF TypeOK
    <3>6. count'["freq"] = 0 => \A c \in Calls : age'[c] = None
      BY <3>1 DEF CountInv
    <3>7. ASSUME NEW c \in Calls, Creator(c)'
          PROVE  /\ ttl'["freq"] = None /\ age'[c] # None
                 /\ \A d \in Calls : age'[d] # None => age'[d] <= age'[c]
                 /\ \A d \in Calls : Creator(d)' => d = c
      <4>1. Creator(c) /\ \A d \in Calls : Creator(d)' => Creator(d)
        BY <2>1, <3>7 DEF Creator
      <4>2. /\ ttl["freq"] = None /\ age[c] # None
            /\ \A d \in Calls : age[d] # None => age[d] <= age[c]
            /\ \A d \in Calls : Creator(d) => d = c
        BY <4>1 DEF CountInv
      <4>3. age'[c] # None
        BY <3>2, <3>3, <4>2
      <4>4. \A d \in Calls : age'[d] # None => age'[d] <= age'[c]
        BY <3>2, <3>3, <3>4, <4>2
      <4> QED
        BY <3>1, <4>1, <4>2, <4>3, <4>4
    <3>8. ASSUME ttl'["freq"] # None
          PROVE  /\ ttl'["freq"] <= CountWindow
                 /\ \A c \in Calls : age'[c] # None =>
                      age'[c] + ttl'["freq"] <= CountWindow + slack'
      <4>1. /\ ttl["freq"] <= CountWindow
            /\ \A c \in Calls : age[c] # None => age[c] + ttl["freq"] <= CountWindow + slack
        BY <3>5, <3>8 DEF CountInv
      <4>2. slack \in Nat
        BY <1>0 DEF TypeOK
      <4>3. ASSUME NEW c \in Calls, age'[c] # None
            PROVE  age'[c] + ttl'["freq"] <= CountWindow + slack'
        <5>1. age[c] \in Nat /\ age'[c] \in Nat /\ age'[c] <= age[c] + 1
          BY <3>2, <3>3, <3>4, <4>3
        <5>2. age[c] + ttl["freq"] <= CountWindow + slack
          BY <3>4, <4>1, <4>3
        <5> QED
          BY <3>1, <3>5, <3>8, <4>2, <5>1, <5>2
      <4> QED
        BY <3>5, <3>8, <4>1, <4>3
    <3> QED
      BY <1>0, <3>6, <3>7, <3>8 DEF CountInv
  <2> QED
    BY <2>2, <2>3
<1>2. ASSUME NEW c \in Calls, Check(c) \/ Set(c) PROVE CountInv'
  <2>1. UNCHANGED counters
    BY <1>2 DEF Check, Set
  <2>2. \A d \in Calls : Creator(d)' => Creator(d)
    BY <1>0, <1>2 DEF Check, Set, Creator, TypeOK
  <2> QED
    BY <1>0, <2>1, <2>2 DEF CountInv, counters
<1>3. ASSUME NEW c \in Calls, Incr(c) PROVE CountInv'
  <2>1. PICK k \in Counters :
          /\ job' = [job EXCEPT ![c] = k]
          /\ count' = [count EXCEPT ![k] = @ + 1]
          /\ pc' = [pc EXCEPT ![c] = IF Arms(k, count'[k]) THEN "counted" ELSE "done"]
          /\ age' = IF k = "freq" THEN [age EXCEPT ![c] = 0] ELSE age
          /\ UNCHANGED <<ttl, slack, lost>>
    BY <1>3 DEF Incr
  <2>2. \A d \in Calls \ {c} : Creator(d)' <=> Creator(d)
    BY <1>0, <2>1 DEF Creator, TypeOK
  <2>3. CASE k # "freq"
    <3>1. ~Creator(c)'
      BY <1>0, <2>1, <2>3 DEF Creator, TypeOK
    <3>2. age' = age /\ count'["freq"] = count["freq"]
      BY <1>0, <2>1, <2>3 DEF TypeOK
    <3> QED
      BY <1>0, <2>1, <2>2, <3>1, <3>2 DEF CountInv
  <2>4. CASE k = "freq"
    <3>1. /\ age' = [age EXCEPT ![c] = 0] /\ count'["freq"] = count["freq"] + 1
          /\ count["freq"] \in Nat
      BY <1>0, <2>1, <2>4 DEF TypeOK
    <3>2. CASE count["freq"] = 0
      <4>1. \A d \in Calls : age[d] = None /\ ~Creator(d)
        BY <3>2 DEF CountInv
      <4>2. ttl'["freq"] = None
        BY <1>0, <2>1, <3>2 DEF TypeOK
      <4>3. age'[c] = 0 /\ \A d \in Calls \ {c} : age'[d] = None /\ ~Creator(d)'
        BY <1>0, <2>2, <3>1, <4>1 DEF TypeOK
      <4>4. None # 0 /\ count'["freq"] # 0
        BY <3>1, <3>2
      <4> QED
        BY <1>0, <4>2, <4>3, <4>4 DEF CountInv
    <3>3. CASE count["freq"] # 0
      <4>0. \A n : n # 1 => ~Arms("freq", n)
        BY DEF Arms
      <4>1. ~Creator(c)'
        <5>0. count'["freq"] # 1
          BY <3>1, <3>3
        <5>1. pc' = [pc EXCEPT ![c] = "done"]
          BY <2>1, <2>4, <4>0, <5>0
        <5> QED
          BY <1>0, <5>1 DEF Creator, TypeOK
      <4>2. count'["freq"] # 0
        BY <3>1
      <4>3. age'[c] = 0 /\ \A d \in Calls \ {c} : age'[d] = age[d]
        BY <1>0, <3>1 DEF TypeOK
      <4>4. ASSUME NEW d \in Calls, Creator(d)'
            PROVE  /\ ttl'["freq"] = None /\ age'[d] # None
                   /\ \A e \in Calls : age'[e] # None => age'[e] <= age'[d]
                   /\ \A e \in Calls : Creator(e)' => e = d
        <5>1. d # c /\ Creator(d)
          BY <2>2, <4>1, <4>4
        <5>2. age[d] \in Nat
          BY <1>0, <5>1 DEF CountInv, TypeOK
        <5> QED
          BY <2>1, <2>2, <4>1, <4>3, <5>1, <5>2 DEF CountInv
      <4>5. ASSUME ttl'["freq"] # None
            PROVE  /\ ttl'["freq"] <= CountWindow
                   /\ \A d \in Calls : age'[d] # None =>
                        age'[d] + ttl'["freq"] <= CountWindow + slack'
        <5>1. /\ ttl' = ttl /\ slack' = slack /\ slack \in Nat
              /\ ttl["freq"] \in Nat /\ ttl["freq"] <= CountWindow
              /\ \A d \in Calls : age[d] # None => age[d] + ttl["freq"] <= CountWindow + slack
          BY <1>0, <2>1, <4>5 DEF CountInv, TypeOK
        <5> QED
          BY <4>3, <5>1
      <4> QED
        BY <1>0, <4>2, <4>4, <4>5 DEF CountInv
    <3> QED
      BY <3>2, <3>3
  <2> QED
    BY <2>3, <2>4
<1>4. ASSUME NEW c \in Calls, Expire(c) PROVE CountInv'
  <2>1. job' = job /\ pc' = [pc EXCEPT ![c] = "done"] /\ count' = count /\ age' = age
    BY <1>4 DEF Expire
  <2>2. \A d \in Calls : Creator(d)' => Creator(d) /\ d # c
    BY <1>0, <2>1 DEF Creator, TypeOK
  <2>3. CASE job[c] # "freq"
    <3>1. ttl'["freq"] = ttl["freq"] /\ slack' = slack
      BY <1>0, <1>4, <2>3 DEF Expire, TypeOK
    <3> QED
      BY <1>0, <2>1, <2>2, <3>1 DEF CountInv
  <2>4. CASE job[c] = "freq"
    <3>1. Creator(c)
      BY <1>4, <2>4 DEF Expire, Creator
    <3>2. \A d \in Calls : ~Creator(d)'
      BY <2>2, <3>1 DEF CountInv
    <3>3. /\ age[c] # None /\ age[c] \in Nat
          /\ \A d \in Calls : age[d] # None => age[d] \in Nat /\ age[d] <= age[c]
      BY <1>0, <3>1 DEF CountInv, TypeOK
    <3>4. slack' = age[c]
      BY <1>4, <2>4, <3>3 DEF Expire
    <3>5. ttl'["freq"] # None => ttl'["freq"] = CountWindow
      BY <1>0, <1>4, <2>4, <3>1 DEF Expire, Period, TypeOK, CountInv
    <3> QED
      BY <1>0, <2>1, <3>2, <3>3, <3>4, <3>5 DEF CountInv
  <2> QED
    BY <2>3, <2>4
<1>5. ASSUME NEW c \in Calls, Lose(c) PROVE CountInv'
  <2>1. /\ job' = job /\ pc' = [pc EXCEPT ![c] = "done"]
        /\ count' = count /\ age' = age /\ ttl' = ttl /\ slack' = slack
    BY <1>5 DEF Lose
  <2>2. \A d \in Calls : Creator(d)' => Creator(d)
    BY <1>0, <2>1 DEF Creator, TypeOK
  <2> QED
    BY <1>0, <2>1, <2>2 DEF CountInv
<1>6. CASE UNCHANGED vars
  BY <1>0, <1>6 DEF vars, counters, CountInv, Creator
<1> QED
  BY <1>1, <1>2, <1>3, <1>4, <1>5, <1>6 DEF Next

(* No counted call is older than the window and the delay of the EXPIRE.    *)
THEOREM CountedCallsAreRecent == Spec => []CountsAreRecent
<1>1. CountInv => CountsAreRecent
  <2> SUFFICES ASSUME CountInv, ttl["freq"] # None, NEW c \in Calls, age[c] # None
               PROVE  age[c] < CountWindow + slack
    BY DEF CountsAreRecent
  <2>1. age[c] \in Nat /\ slack \in Nat /\ ttl["freq"] \in Nat /\ ttl["freq"] > 0
    BY DEF CountInv, TypeOK, Counters
  <2>2. age[c] + ttl["freq"] <= CountWindow + slack
    BY DEF CountInv
  <2> QED
    BY <2>1, <2>2, WindowsAssumption
<1> QED
  BY <1>1, CountInit, CountStep, PTL DEF Spec
=============================================================================
