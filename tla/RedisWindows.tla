---------------------------- MODULE RedisWindows ----------------------------
(***************************************************************************)
(* The keys of the gateway's Redis that live for a time, and the steps     *)
(* between which that time passes:                                         *)
(*                                                                         *)
(*   ReplayGuard.check       the clock, then SET NX EX of the nonce        *)
(*   ChallengeStore.redeem   the clock, then SET NX EX of the TOTP code    *)
(*   RiskEngine._bump_frequency, record_denial; auth._count_failure        *)
(*                           INCR, then EXPIRE if the count is 1           *)
(*   RiskEngine.apply_decay  INCRBY, then EXPIRE                           *)
(*                                                                         *)
(* Each pair is two awaits: the clock ticks in between, other calls come,  *)
(* and the second may never be sent.                                       *)
(***************************************************************************)
EXTENDS Integers

CONSTANTS
  Calls,         \* calls, each with one of these jobs
  Nonces,        \* messages: a nonce and the timestamp signed with it
  Stamp,         \* Stamp[n]: the timestamp of message n
  Codes,         \* TOTP codes
  StepOf,        \* StepOf[k]: the time step code k belongs to
  Window,        \* settings.replay_window_seconds, the half-width
  TotpStep,      \* _TOTP_STEP_SECONDS
  CountWindow,   \* settings.risk_freq_window_seconds and the like
  DecayTTL,      \* settings.risk_decay_ttl_seconds
  None,
  MaxTime        \* bound on the clock and on ages, behind every window
                 \* (model checking only)

ASSUME WindowsAssumption ==
  /\ Stamp \in [Nonces -> Int] /\ StepOf \in [Codes -> Int]
  /\ Window \in Nat \ {0} /\ TotpStep \in Nat \ {0}
  /\ CountWindow \in Nat \ {0} /\ DecayTTL \in Nat \ {0}
  /\ MaxTime \in Nat
  /\ Nonces \intersect Codes = {} /\ None \notin Nat \union Nonces \union Codes
  /\ \A n \in Nonces : Stamp[n] + Window <= MaxTime
  /\ \A k \in Codes : (StepOf[k] + 2) * TotpStep <= MaxTime

Tokens == Nonces \union Codes

Counters == {"freq", "decay"}

VARIABLES
  now,     \* the clock
  job,     \* job[c]: what call c does: a token it presents, a counter, or None
  pc,      \* pc[c]: "idle", "checked" (a token), "counted" (a counter), "done"
  took,    \* took[c]: when the token of c was accepted, or None (history)
  left,    \* left[t]: what is left of the key of token t, 0 if there is none
  count,   \* count[k]: the value of counter k, 0 if there is no key
  ttl,     \* ttl[k]: what is left of it, or None
  age,     \* age[c]: since c was counted in "freq", None if it is not (history)
  slack,   \* how late the EXPIRE of "freq" came (history)
  lost     \* counters whose EXPIRE was never sent (history)

vars == <<now, job, pc, took, left, count, ttl, age, slack, lost>>

tokens   == <<took, left>>
counters == <<count, ttl, age, slack, lost>>

Lesser(a, b)  == IF a <= b THEN a ELSE b
Greater(a, b) == IF a <= b THEN b ELSE a

Init ==
  /\ now = 0
  /\ job = [c \in Calls |-> None] /\ pc = [c \in Calls |-> "idle"]
  /\ took = [c \in Calls |-> None] /\ left = [t \in Tokens |-> 0]
  /\ count = [k \in Counters |-> 0] /\ ttl = [k \in Counters |-> None]
  /\ age = [c \in Calls |-> None] /\ slack = 0 /\ lost = {}

-----------------------------------------------------------------------------
(* The checks against the clock: a timestamp within the window, a code of  *)
(* the current time step or of one next to it.                             *)
FreshTimestamp(n) == now - Stamp[n] \in -Window..Window

verify_totp(k) == now \div TotpStep - StepOf[k] \in -1..1

Check(c) ==
  /\ pc[c] = "idle"
  /\ \E t \in Tokens :
       /\ t \in Nonces => FreshTimestamp(t)
       /\ t \in Codes => verify_totp(t)
       /\ job' = [job EXCEPT ![c] = t]
  /\ pc' = [pc EXCEPT ![c] = "checked"]
  /\ UNCHANGED <<now, tokens, counters>>

(* Mutant: one window.                                                     *)
Life_OneWindow(t) == IF t \in Nonces THEN Window ELSE 3 * TotpStep

(* Mutant: the 60 s of the comment.                                        *)
Life_TwoSteps(t) == IF t \in Nonces THEN 2 * Window ELSE 2 * TotpStep

(* The EX of the two SETs: _CODE_DEDUP_TTL_SECONDS is three steps.         *)
Life(t) == IF t \in Nonces THEN 2 * Window ELSE 3 * TotpStep

(* SET NX EX: accepted if there was no key.                                *)
Set(c) ==
  /\ pc[c] = "checked" /\ pc' = [pc EXCEPT ![c] = "done"]
  /\ LET t == job[c] IN
     IF left[t] = 0
     THEN left' = [left EXCEPT ![t] = Life(t)] /\ took' = [took EXCEPT ![c] = now]
     ELSE UNCHANGED tokens
  /\ UNCHANGED <<now, job, counters>>

-----------------------------------------------------------------------------
(* Mutant: every call prolongs the window.                                 *)
Arms_Always(k, n) == TRUE

(* Mutant: INCR is taken to return the old value.                          *)
Arms_OldValue(k, n) == k = "decay" \/ n = 0

(* Is the INCR that makes a counter n followed by an EXPIRE?               *)
Arms(k, n) == k = "decay" \/ n = 1

Period == [freq |-> CountWindow, decay |-> DecayTTL]

(* INCR, which creates a key without TTL.                                  *)
Incr(c) ==
  /\ pc[c] = "idle"
  /\ \E k \in Counters :
       /\ job' = [job EXCEPT ![c] = k]
       /\ count' = [count EXCEPT ![k] = @ + 1]
       /\ pc' = [pc EXCEPT ![c] = IF Arms(k, count'[k]) THEN "counted" ELSE "done"]
       /\ age' = IF k = "freq" THEN [age EXCEPT ![c] = 0] ELSE age
       /\ UNCHANGED <<ttl, slack, lost>>
  /\ UNCHANGED <<now, tokens>>

(* EXPIRE, which does nothing to a key that is gone.                       *)
Expire(c) ==
  /\ pc[c] = "counted" /\ pc' = [pc EXCEPT ![c] = "done"]
  /\ LET k == job[c] IN
     /\ ttl' = IF count[k] > 0 THEN [ttl EXCEPT ![k] = Period[k]] ELSE ttl
     /\ slack' = IF k = "freq" /\ age[c] # None THEN age[c] ELSE slack
     /\ lost' = lost \ {k}
  /\ UNCHANGED <<now, job, tokens, count, age>>

(* The connection fails, or the process dies, before the EXPIRE.           *)
Lose(c) ==
  /\ pc[c] = "counted" /\ pc' = [pc EXCEPT ![c] = "done"]
  /\ lost' = lost \union {job[c]}
  /\ UNCHANGED <<now, job, tokens, count, ttl, age, slack>>

-----------------------------------------------------------------------------
(* A second passes; a key with nothing left is gone, and so is what it     *)
(* counted.  The clock and the ages stop at MaxTime, the TTLs do not.      *)
Older(n) == Lesser(n + 1, MaxTime)

Tick ==
  LET gone == {k \in Counters : ttl[k] = 1} IN
  /\ now' = Older(now)
  /\ left' = [t \in Tokens |-> Greater(left[t] - 1, 0)]
  /\ count' = [k \in Counters |-> IF k \in gone THEN 0 ELSE count[k]]
  /\ ttl' = [k \in Counters |-> IF ttl[k] = None \/ k \in gone THEN None ELSE ttl[k] - 1]
  /\ age' = [c \in Calls |-> IF age[c] = None \/ "freq" \in gone THEN None
                             ELSE Older(age[c])]
  /\ lost' = lost \ gone
  /\ slack' = IF "freq" \in gone THEN 0 ELSE slack
  /\ UNCHANGED <<job, pc, took>>

Next ==
  \/ Tick
  \/ \E c \in Calls : Check(c) \/ Set(c) \/ Incr(c) \/ Expire(c) \/ Lose(c)

(* Time passes, and a command that is due is sent or fails.                *)
Fairness ==
  /\ WF_vars(Tick)
  /\ \A c \in Calls : WF_vars(Set(c)) /\ WF_vars(Expire(c) \/ Lose(c))

Spec == Init /\ [][Next]_vars

FairSpec == Spec /\ Fairness

-----------------------------------------------------------------------------
TypeOK ==
  /\ now \in Nat
  /\ job \in [Calls -> Tokens \union Counters \union {None}]
  /\ pc \in [Calls -> {"idle", "checked", "counted", "done"}]
  /\ took \in [Calls -> Nat \union {None}]
  /\ left \in [Tokens -> Nat]
  /\ count \in [Counters -> Nat]
  /\ ttl \in [Counters -> Nat \union {None}]
  /\ age \in [Calls -> Nat \union {None}]
  /\ slack \in Nat /\ lost \subseteq Counters
  /\ \A c \in Calls : /\ pc[c] = "checked" => job[c] \in Tokens
                      /\ pc[c] = "counted" => job[c] \in Counters
  /\ \A k \in Counters : ttl[k] # None => count[k] > 0 /\ ttl[k] > 0

(* A later acceptance of the token of c than that by d.                    *)
Again(c, d) ==
  c # d /\ job[c] = job[d] /\ took[c] # None /\ took[d] # None /\ took[d] <= took[c]

(* A message is taken a second time, if ever, only when its timestamp is   *)
(* no longer inside the window: however long a SET is behind its check of  *)
(* the clock, the first key outlives every check that can still pass.      *)
(* (replay_guard.py:45-51: "first-seen + 2xwindow strictly outlives its    *)
(* validity"; at the last instant of the window, or for a SET sent after   *)
(* it, the key may be gone.)                                               *)
NonceReusedOnlyPastItsWindow ==
  \A c, d \in Calls :
    Again(c, d) /\ job[c] \in Nonces => took[c] >= Stamp[job[c]] + Window

(* A TOTP code answers a second challenge only when all three time steps   *)
(* in which it verifies are over.                                          *)
(* (step_up.py:40-44 and 142-149: the code verifies for three steps of     *)
(* 30 s, the key lives 90 s.)                                              *)
CodeReusedOnlyAfterItsSpan ==
  \A c, d \in Calls :
    Again(c, d) /\ job[c] \in Codes => took[c] >= (StepOf[job[c]] + 2) * TotpStep

(* What a counter counts is recent: as long as its EXPIRE was sent, no     *)
(* counted call is older than the window and the delay of that EXPIRE, so  *)
(* no old call raises a score for ever.                                    *)
(* (_bump_frequency, risk_engine.py:301-306; record_denial, 312-318;       *)
(* _count_failure, auth.py:47-55.)                                         *)
CountsAreRecent ==
  ttl["freq"] # None =>
    \A c \in Calls : age[c] # None => age[c] < CountWindow + slack

(* Every counter is cleared some time after it was set, unless its EXPIRE  *)
(* was never sent: only then it stays, "freq" for good and "decay" until   *)
(* the next approval.                                                      *)
(* (risk_engine.py:303-305 and 320-326, "idle calibration ages out".)      *)
CounterClears ==
  \A k \in Counters : count[k] > 0 ~> count[k] = 0 \/ k \in lost
=============================================================================
