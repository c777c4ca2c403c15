------------------------ MODULE SessionManagerProofs ------------------------
(* What SessionManager keeps hold of, for any number of sessions and of     *)
(* Redis failures.                                                          *)
EXTENDS SessionManager, TLAPS

(* A session whose subprocess was not started has no trace. *)
Unborn(s) ==
  create[s] \in {"idle", "spawn"} =>
    proc[s] = "none" /\ reap[s] = NotReaped /\ s \notin registered

(* The stages of a teardown. *)
Reaping(s) ==
  /\ s \in registered => reap[s] = NotReaped
  /\ reap[s].at = "wait" => s \in termed
  /\ reap[s].at \in {"delete", "done"} => ~Alive(s)
  /\ reap[s].at = "cut" /\ Alive(s) => s \in termed

(* Who will end a subprocess that runs. *)
Held(s) ==
  Alive(s) =>
    /\ gateway = "up" => s \in registered \/ reap[s].at = "wait"
    /\ gateway = "stopping" =>
         /\ s \in termed
         /\ \/ reap[s].at \in {"none", "cut"}
            \/ reap[s].at = "wait" /\ reap[s].by = "task"
    /\ gateway = "exited" => s \in termed /\ reap[s].at = "cut"

(* From the shutdown on nothing is registered and nothing is created. *)
Closed ==
  gateway # "up" =>
    registered = {} /\ \A s \in Sessions : create[s] # "spawn"

IInv ==
  /\ TypeOK
  /\ Closed
  /\ \A s \in Sessions : Unborn(s) /\ Reaping(s) /\ Held(s)

(* The part of teardown before its first await touches one session, and     *)
(* only if it is registered.                                                *)
LEMMA TeardownTypes ==
  ASSUME TypeOK, NEW s \in Sessions, NEW who \in {"task", "request", "sweep"},
         Teardown(s, who)
  PROVE  /\ registered' \subseteq Sessions
         /\ cancelled' \subseteq Sessions
         /\ termed' \subseteq Sessions
         /\ reap' \in [Sessions -> {NotReaped} \cup
                        [by : {"task", "request", "sweep"},
                         at : {"wait", "delete", "done", "cut"}]]
BY DEF TypeOK, Teardown

LEMMA TypeInit == Init => TypeOK
BY SessionsAssumption DEF Init, TypeOK, NotReaped, Asleep

(* Every step keeps the types. *)
LEMMA TypeStep == TypeOK /\ [Next]_vars => TypeOK'
<1> SUFFICES ASSUME TypeOK, [Next]_vars PROVE TypeOK'
  OBVIOUS
<1>1. ASSUME NEW s \in Sessions, Record(s) PROVE TypeOK'
  BY <1>1 DEF TypeOK, Record
<1>2. ASSUME NEW s \in Sessions, Spawn(s) PROVE TypeOK'
  BY <1>2 DEF TypeOK, Spawn
<1>3. ASSUME NEW s \in Sessions, TouchNew(s) PROVE TypeOK'
  BY <1>3, SessionsAssumption DEF TypeOK, TouchNew, Fault
<1>4. ASSUME NEW s \in Sessions, Open(s) PROVE TypeOK'
  BY <1>4 DEF TypeOK, Open
<1>5. ASSUME NEW s \in Sessions, RunStarts(s) PROVE TypeOK'
  BY <1>5 DEF TypeOK, RunStarts
<1>6. ASSUME NEW s \in Sessions, Message(s) PROVE TypeOK'
  BY <1>6 DEF TypeOK, Message
<1>7. ASSUME NEW s \in Sessions, RunEnds(s) PROVE TypeOK'
  BY <1>7, TeardownTypes DEF TypeOK, RunEnds
<1>8. ASSUME NEW s \in Sessions, Delete(s) PROVE TypeOK'
  BY <1>8, TeardownTypes DEF TypeOK, Delete
<1>9. ASSUME NEW s \in Sessions, ReapWait(s) PROVE TypeOK'
  BY <1>9 DEF TypeOK, ReapWait, NotReaped
<1>10. ASSUME NEW s \in Sessions, ReapDelete(s) PROVE TypeOK'
  <2>1. reap' \in [Sessions -> {NotReaped} \cup
                     [by : {"task", "request", "sweep"},
                      at : {"wait", "delete", "done", "cut"}]]
    BY <1>10 DEF TypeOK, ReapDelete, NotReaped
  <2>2. sweep' \in [at : {"asleep", "next", "asked", "reaping", "dead", "cancelled"},
                    todo : SUBSET Sessions, of : Sessions \cup {NoSession},
                    gone : BOOLEAN]
    BY <1>10 DEF TypeOK, ReapDelete, Asleep
  <2>3. lastSeen' \subseteq Sessions /\ faults' \in 0 .. MaxFaults
    BY <1>10, SessionsAssumption DEF TypeOK, ReapDelete, Fault
  <2> QED
    BY <1>10, <2>1, <2>2, <2>3 DEF TypeOK, ReapDelete
<1>11. ASSUME NEW s \in Sessions, SweepAsks(s) PROVE TypeOK'
  <2> DEFINE SweepType ==
               [at : {"asleep", "next", "asked", "reaping", "dead", "cancelled"},
                todo : SUBSET Sessions, of : Sessions \cup {NoSession},
                gone : BOOLEAN]
  <2>1. sweep' \in SweepType
    <3>1. ASSUME NEW u \in SUBSET Sessions, NEW g \in BOOLEAN
          PROVE  [at |-> "asked", todo |-> u, of |-> s, gone |-> g] \in SweepType
      OBVIOUS
    <3>2. sweep.todo \ {s} \in SUBSET Sessions
      BY DEF TypeOK
    <3>3. (s \notin lastSeen) \in BOOLEAN
      OBVIOUS
    <3>4. [at |-> "asked", todo |-> sweep.todo \ {s}, of |-> s,
           gone |-> s \notin lastSeen] \in SweepType
      BY ONLY <3>1, <3>2, <3>3, Zenon
    <3>5. [Asleep EXCEPT !.at = "dead"] \in SweepType
      BY DEF Asleep
    <3> HIDE DEF SweepType
    <3> QED
      BY <1>11, <3>4, <3>5, Zenon DEF SweepAsks
  <2>2. faults' = faults \/ Fault
    BY <1>11, Zenon DEF SweepAsks
  <2>3. faults' \in 0 .. MaxFaults
    BY <2>2, SessionsAssumption DEF TypeOK, Fault
  <2>4. UNCHANGED <<create, registered, proc, termed, lastSeen, task,
                    cancelled, ready, reap, gateway>>
    BY <1>11, Zenon DEF SweepAsks
  <2> QED
    BY <2>1, <2>3, <2>4 DEF TypeOK
<1>12. ASSUME NEW s \in Sessions, ProcExits(s) PROVE TypeOK'
  BY <1>12 DEF TypeOK, ProcExits
<1>13. ASSUME NEW s \in Sessions, KeyExpires(s) PROVE TypeOK'
  BY <1>13 DEF TypeOK, KeyExpires
<1>14. CASE SweepWakes
  BY <1>14 DEF TypeOK, SweepWakes, Asleep
<1>15. CASE SweepActs
  <2>1. CASE sweep.gone /\ sweep.of \in registered
    BY <1>15, <2>1, TeardownTypes DEF TypeOK, SweepActs
  <2>2. CASE ~(sweep.gone /\ sweep.of \in registered)
    BY <1>15, <2>2 DEF TypeOK, SweepActs
  <2> QED BY <2>1, <2>2
<1>16. CASE SweepDone
  BY <1>16 DEF TypeOK, SweepDone, Asleep
<1>17. CASE Shutdown
  <2>1. reap' \in [Sessions -> {NotReaped} \cup
                     [by : {"task", "request", "sweep"},
                      at : {"wait", "delete", "done", "cut"}]]
    BY <1>17 DEF TypeOK, Shutdown, Cut, NotReaped
  <2>2. sweep' \in [at : {"asleep", "next", "asked", "reaping", "dead", "cancelled"},
                    todo : SUBSET Sessions, of : Sessions \cup {NoSession},
                    gone : BOOLEAN]
    BY <1>17 DEF TypeOK, Shutdown, Asleep
  <2> QED
    BY <1>17, <2>1, <2>2 DEF TypeOK, Shutdown
<1>18. CASE Exit
  BY <1>18 DEF TypeOK, Exit, Cut, NotReaped
<1>19. CASE UNCHANGED vars
  BY <1>19 DEF TypeOK, vars
<1> QED
  BY <1>1, <1>2, <1>3, <1>4, <1>5, <1>6, <1>7, <1>8, <1>9, <1>10, <1>11,
     <1>12, <1>13, <1>14, <1>15, <1>16, <1>17, <1>18, <1>19 DEF Next, Step

(* The variables of a session always have their types: no handler leaves    *)
(* one in a state another does not know.                                    *)
THEOREM SessionTypeCorrect == Spec => []TypeOK
<1> QED BY TypeInit, TypeStep, PTL DEF Spec

-----------------------------------------------------------------------------
(* The safety of one session depends on it alone, but for Closed.           *)
Safe(s) == Unborn(s) /\ Reaping(s) /\ Held(s)

(* A teardown keeps a session safe: the subprocess of a session it pops is  *)
(* terminated and waited for.                                               *)
LEMMA TeardownSafe ==
  ASSUME TypeOK, Closed, NEW s \in Sessions, Safe(s),
         NEW t \in Sessions, NEW who \in {"task", "request", "sweep"},
         Teardown(t, who),
         create' = create, proc' = proc, gateway' = gateway
  PROVE  Safe(s)'
<1>1. CASE t \notin registered
  BY <1>1 DEF Teardown, Safe, Unborn, Reaping, Held, Alive
<1>2. CASE t \in registered /\ s # t
  BY <1>2 DEF Teardown, TypeOK, Safe, Unborn, Reaping, Held, Alive
<1>3. CASE t \in registered /\ s = t
  <2>1. gateway = "up" /\ create[s] \notin {"idle", "spawn"}
    BY <1>3 DEF TypeOK, Closed, Safe, Unborn
  <2>2. /\ s \notin registered'
        /\ reap'[s] = [by |-> who, at |-> IF Alive(s) THEN "wait" ELSE "delete"]
        /\ Alive(s) => s \in termed'
    BY <1>3 DEF Teardown, TypeOK
  <2> QED BY <2>1, <2>2 DEF Safe, Unborn, Reaping, Held, Alive
<1> QED BY <1>1, <1>2, <1>3

LEMMA SafeInit == Init => IInv
BY TypeInit DEF Init, IInv, Closed, Unborn, Reaping, Held, Alive, NotReaped

(* Every step keeps every session safe. *)
LEMMA SafeStep ==
  ASSUME TypeOK, Closed, \A r \in Sessions : Safe(r), Next, NEW s \in Sessions
  PROVE  Safe(s)'
<1> USE DEF Safe
<1>1. ASSUME NEW t \in Sessions, Record(t) PROVE Safe(s)'
  BY <1>1 DEF TypeOK, Record, Unborn, Reaping, Held, Alive
<1>2. ASSUME NEW t \in Sessions, Spawn(t) PROVE Safe(s)'
  <2>1. gateway = "up"
    BY <1>2 DEF Spawn, Closed
  <2> QED
    BY <1>2, <2>1 DEF TypeOK, Spawn, Unborn, Reaping, Held, Alive, NotReaped
<1>3. ASSUME NEW t \in Sessions, TouchNew(t) PROVE Safe(s)'
  BY <1>3 DEF TypeOK, TouchNew, Unborn, Reaping, Held, Alive
<1>4. ASSUME NEW t \in Sessions, Open(t) PROVE Safe(s)'
  BY <1>4 DEF TypeOK, Open, Unborn, Reaping, Held, Alive
<1>5. ASSUME NEW t \in Sessions, RunStarts(t) \/ Message(t) \/ SweepAsks(t) \/ KeyExpires(t)
      PROVE  Safe(s)'
  BY <1>5 DEF RunStarts, Message, SweepAsks, KeyExpires, Unborn, Reaping, Held, Alive
<1>6. ASSUME NEW t \in Sessions, RunEnds(t) \/ Delete(t) PROVE Safe(s)'
  BY <1>6, TeardownSafe DEF RunEnds, Delete
<1>7. ASSUME NEW t \in Sessions, ReapWait(t) PROVE Safe(s)'
  BY <1>7 DEF TypeOK, ReapWait, Unborn, Reaping, Held, Alive, NotReaped
<1>8. ASSUME NEW t \in Sessions, ReapDelete(t) PROVE Safe(s)'
  BY <1>8 DEF TypeOK, ReapDelete, Unborn, Reaping, Held, Alive, NotReaped
<1>9. ASSUME NEW t \in Sessions, ProcExits(t) PROVE Safe(s)'
  BY <1>9 DEF TypeOK, ProcExits, Unborn, Reaping, Held, Alive
<1>10. CASE SweepWakes \/ SweepDone
  BY <1>10 DEF SweepWakes, SweepDone, Unborn, Reaping, Held, Alive
<1>11. CASE SweepActs
  <2>1. CASE sweep.gone /\ sweep.of \in registered
    BY <1>11, <2>1, TeardownSafe DEF SweepActs, TypeOK
  <2>2. CASE ~(sweep.gone /\ sweep.of \in registered)
    BY <1>11, <2>2 DEF SweepActs, Unborn, Reaping, Held, Alive
  <2> QED BY <2>1, <2>2
<1>12. CASE Shutdown
  <2>1. /\ gateway = "up" /\ gateway' = "stopping" /\ registered' = {}
        /\ create' = create /\ proc' = proc /\ create[s] # "spawn"
        /\ ~(reap[s].by = "request" /\ reap[s].at = "wait")
    BY <1>12 DEF Shutdown, RequestsDone
  <2>2. reap'[s] = IF reap[s].by = "sweep" /\ reap[s].at \in {"wait", "delete"}
                   THEN [reap[s] EXCEPT !.at = "cut"] ELSE reap[s]
    BY <1>12 DEF Shutdown, Cut
  <2>3. termed \subseteq termed' /\ (s \in registered /\ Alive(s) => s \in termed')
    BY <1>12 DEF Shutdown
  <2>4. reap[s] = NotReaped \/ reap[s] \in [by : {"task", "request", "sweep"},
                                          at : {"wait", "delete", "done", "cut"}]
    BY DEF TypeOK
  <2> QED
    BY <2>1, <2>2, <2>3, <2>4 DEF Unborn, Reaping, Held, Alive, NotReaped
<1>13. CASE Exit
  <2>1. /\ gateway = "stopping" /\ gateway' = "exited"
        /\ registered' = registered /\ create' = create /\ termed' = termed
        /\ proc'[s] = IF s \in Awaited THEN "ended" ELSE proc[s]
    BY <1>13 DEF Exit
  <2>2. reap'[s] = IF reap[s].by = "task" /\ reap[s].at \in {"wait", "delete"}
                   THEN [reap[s] EXCEPT !.at = "cut"] ELSE reap[s]
    BY <1>13 DEF Exit, Cut
  <2>3. reap[s] = NotReaped \/ reap[s] \in [by : {"task", "request", "sweep"},
                                          at : {"wait", "delete", "done", "cut"}]
    BY DEF TypeOK
  <2> QED
    BY <2>1, <2>2, <2>3 DEF Unborn, Reaping, Held, Alive, Awaited, NotReaped
<1> QED
  BY <1>1, <1>2, <1>3, <1>4, <1>5, <1>6, <1>7, <1>8, <1>9, <1>10, <1>11,
     <1>12, <1>13 DEF Next, Step

(* Nothing is created once the gateway stops, and nothing is registered. *)
LEMMA ClosedStep == TypeOK /\ Closed /\ Next => Closed'
<1> SUFFICES ASSUME TypeOK, Closed, Next PROVE Closed'
  OBVIOUS
<1>1. CASE Shutdown
  BY <1>1 DEF Shutdown, RequestsDone, Closed
<1>2. CASE ~Shutdown
  BY <1>2 DEF TypeOK, Closed, Next, Step, Record, Spawn, TouchNew, Open, RunStarts,
       Message, RunEnds, Delete, ReapWait, ReapDelete, SweepAsks, ProcExits,
       KeyExpires, SweepWakes, SweepActs, SweepDone, Exit, Teardown
<1> QED BY <1>1, <1>2

LEMMA InductiveInvariant == Spec => []IInv
<1>1. IInv /\ [Next]_vars => IInv'
  <2> SUFFICES ASSUME IInv, [Next]_vars PROVE IInv'
    OBVIOUS
  <2>1. TypeOK'
    BY TypeStep DEF IInv
  <2>2. CASE Next
    BY <2>1, <2>2, SafeStep, ClosedStep DEF IInv, Safe
  <2>3. CASE UNCHANGED vars
    BY <2>1, <2>3 DEF IInv, vars, Closed, Unborn, Reaping, Held, Alive
  <2> QED BY <2>2, <2>3
<1> QED BY <1>1, SafeInit, PTL DEF Spec

(* While the gateway serves, a subprocess that runs is registered or being  *)
(* waited for by the teardown that popped it: failed creations, overlapping *)
(* teardowns and the sweep lose none (session_manager.py:80-214).           *)
THEOREM NoSubprocessForgotten == Spec => []NothingForgotten
<1>1. IInv => NothingForgotten
  BY DEF IInv, Held, NothingForgotten
<1> QED BY <1>1, InductiveInvariant, PTL

(* shutdown_all leaves running only what a teardown begun earlier had       *)
(* popped, terminated and not yet killed (session_manager.py:195-247).      *)
THEOREM OutlivingWereInterrupted == Spec => []OnlyInterruptedOutlive
<1>1. IInv => OnlyInterruptedOutlive
  BY DEF IInv, Held, OnlyInterruptedOutlive
<1> QED BY <1>1, InductiveInvariant, PTL
=============================================================================
