--------------------------- MODULE SessionManager ---------------------------
(* services/gateway/session_manager.py: a session is a registry entry, an   *)
(* upstream subprocess, a last_seen key in Redis and a pump task.  Sessions *)
(* are created by requests, torn down by their own pump task, by a DELETE   *)
(* request and by the idle sweep, and ended by the lifespan shutdown.       *)
(*                                                                          *)
(* One asyncio loop runs everything, so a step is what happens between two  *)
(* awaits.  A cancelled task notices at its next step; one cancelled before *)
(* its first step never runs any of its code.                               *)
EXTENDS Naturals, FiniteSets

CONSTANTS
  Sessions,   \* session ids
  MaxFaults,  \* bound on Redis commands that fail
  NoSession

ASSUME SessionsAssumption ==
  /\ NoSession \notin Sessions
  /\ MaxFaults \in Nat

VARIABLES
  create,      \* create[s]: where the creating request is
  registered,  \* SessionManager._sessions
  proc,        \* proc[s]: the upstream subprocess
  termed,      \* sessions whose subprocess was sent SIGTERM
  lastSeen,    \* sessions whose last_seen key exists
  task,        \* task[s]: Session.task
  cancelled,   \* tasks with a cancellation not yet delivered
  ready,       \* Session.ready is set
  reap,        \* reap[s]: the teardown that popped s, and where it is
  sweep,       \* the sweep task
  gateway,
  faults

vars == <<create, registered, proc, termed, lastSeen, task, cancelled, ready,
          reap, sweep, gateway, faults>>

Alive(s) == proc[s] = "running"

NotReaped == [by |-> "nobody", at |-> "none"]
Asleep == [at |-> "asleep", todo |-> {}, of |-> NoSession, gone |-> FALSE]

TypeOK ==
  /\ create \in [Sessions -> {"idle", "spawn", "touch", "ready", "open", "failed"}]
  /\ registered \subseteq Sessions
  /\ proc \in [Sessions -> {"none", "running", "ended"}]
  /\ termed \subseteq Sessions
  /\ lastSeen \subseteq Sessions
  /\ task \in [Sessions -> {"none", "scheduled", "pumping", "done"}]
  /\ cancelled \subseteq Sessions
  /\ ready \subseteq Sessions
  /\ reap \in [Sessions -> {NotReaped} \cup
                 [by : {"task", "request", "sweep"},
                  at : {"wait", "delete", "done", "cut"}]]
  /\ sweep \in [at : {"asleep", "next", "asked", "reaping", "dead", "cancelled"},
                todo : SUBSET Sessions, of : Sessions \cup {NoSession},
                gone : BOOLEAN]
  /\ gateway \in {"up", "stopping", "exited"}
  /\ faults \in 0 .. MaxFaults

Init ==
  /\ create = [s \in Sessions |-> "idle"]
  /\ registered = {} /\ termed = {} /\ lastSeen = {}
  /\ proc = [s \in Sessions |-> "none"]
  /\ task = [s \in Sessions |-> "none"]
  /\ cancelled = {} /\ ready = {}
  /\ reap = [s \in Sessions |-> NotReaped]
  /\ sweep = Asleep
  /\ gateway = "up"
  /\ faults = 0

Fault == faults < MaxFaults /\ faults' = faults + 1

-----------------------------------------------------------------------------
(* SessionManager.create, in the handler of the initialize request.         *)

\* The SESSION_START row is written; an unknown server or a failed write
\* ends the request before anything is spawned.
Record(s) ==
  /\ gateway = "up" /\ create[s] = "idle"
  /\ \E to \in {"spawn", "failed"} : create' = [create EXCEPT ![s] = to]
  /\ UNCHANGED <<registered, proc, termed, lastSeen, task, cancelled, ready,
                 reap, sweep, gateway, faults>>

\* The subprocess starts and is registered without an await in between.
Spawn(s) ==
  /\ create[s] = "spawn"
  /\ \/ /\ proc' = [proc EXCEPT ![s] = "running"]
        /\ registered' = registered \cup {s}
        /\ create' = [create EXCEPT ![s] = "touch"]
     \/ /\ create' = [create EXCEPT ![s] = "failed"]
        /\ UNCHANGED <<registered, proc>>
  /\ UNCHANGED <<termed, lastSeen, task, cancelled, ready, reap, sweep,
                 gateway, faults>>

\* The first _touch.  When it fails the request fails, but the session stays
\* registered, with a subprocess and without a task.
TouchNew(s) ==
  /\ create[s] = "touch"
  /\ \/ /\ lastSeen' = lastSeen \cup {s}
        /\ task' = [task EXCEPT ![s] = "scheduled"]
        /\ create' = [create EXCEPT ![s] = "ready"]
        /\ UNCHANGED faults
     \/ /\ Fault
        /\ create' = [create EXCEPT ![s] = "failed"]
        /\ UNCHANGED <<lastSeen, task>>
  /\ UNCHANGED <<registered, proc, termed, cancelled, ready, reap, sweep, gateway>>

\* await session.ready.wait() returns; the request goes to the transport.
Open(s) ==
  /\ create[s] = "ready" /\ s \in ready
  /\ create' = [create EXCEPT ![s] = "open"]
  /\ UNCHANGED <<registered, proc, termed, lastSeen, task, cancelled, ready,
                 reap, sweep, gateway, faults>>

-----------------------------------------------------------------------------
(* teardown, up to its first await: only the caller that pops the session   *)
(* goes on; it cancels the pump task unless it is that task, and terminates *)
(* a subprocess that still runs.                                            *)

\* The variables a teardown step of `who' changes before it first waits.
Teardown(s, who) ==
  IF s \notin registered
  THEN UNCHANGED <<registered, cancelled, termed, reap>>
  ELSE /\ registered' = registered \ {s}
       /\ cancelled' = IF who # "task" /\ task[s] \in {"scheduled", "pumping"}
                       THEN cancelled \cup {s} ELSE cancelled
       /\ termed' = IF Alive(s) THEN termed \cup {s} ELSE termed
       /\ reap' = [reap EXCEPT ![s] =
                     [by |-> who, at |-> IF Alive(s) THEN "wait" ELSE "delete"]]

\* Mutant: the TimeoutError of the grace period is swallowed without a kill.
ReapWait_NoKill(s) ==
  /\ gateway # "exited" /\ reap[s].at = "wait"
  /\ reap' = [reap EXCEPT ![s].at = "delete"]
  /\ UNCHANGED <<create, registered, proc, termed, lastSeen, task, cancelled,
                 ready, sweep, gateway, faults>>

\* The subprocess exits within the grace period, or is killed at its end.
ReapWait(s) ==
  /\ gateway # "exited" /\ reap[s].at = "wait"
  /\ proc' = [proc EXCEPT ![s] = "ended"]
  /\ reap' = [reap EXCEPT ![s].at = "delete"]
  /\ UNCHANGED <<create, registered, termed, lastSeen, task, cancelled, ready,
                 sweep, gateway, faults>>

\* The last_seen key is deleted.  A failure is the caller's: it ends the sweep.
ReapDelete(s) ==
  /\ gateway # "exited" /\ reap[s].at = "delete"
  /\ reap' = [reap EXCEPT ![s].at = "done"]
  /\ \/ /\ lastSeen' = lastSeen \ {s}
        /\ sweep' = IF reap[s].by = "sweep" THEN [sweep EXCEPT !.at = "next"]
                                            ELSE sweep
        /\ UNCHANGED faults
     \/ /\ Fault
        /\ sweep' = IF reap[s].by = "sweep" THEN [Asleep EXCEPT !.at = "dead"]
                                            ELSE sweep
        /\ UNCHANGED lastSeen
  /\ UNCHANGED <<create, registered, proc, termed, task, cancelled, ready, gateway>>

-----------------------------------------------------------------------------
(* _run: the pump task of a session.                                        *)

\* Mutant: ready is set by the finally clause only.
RunStarts_NotReady(s) ==
  /\ task[s] = "scheduled"
  /\ task' = [task EXCEPT ![s] = IF s \in cancelled THEN "done" ELSE "pumping"]
  /\ UNCHANGED <<create, registered, proc, termed, lastSeen, cancelled, ready,
                 reap, sweep, gateway, faults>>

\* The first step of the task: it connects the transport and sets ready,
\* unless it was cancelled first, and then neither try nor finally is entered.
RunStarts(s) ==
  /\ task[s] = "scheduled"
  /\ IF s \in cancelled
     THEN task' = [task EXCEPT ![s] = "done"] /\ UNCHANGED ready
     ELSE task' = [task EXCEPT ![s] = "pumping"] /\ ready' = ready \cup {s}
  /\ UNCHANGED <<create, registered, proc, termed, lastSeen, cancelled, reap,
                 sweep, gateway, faults>>

\* A client message refreshes the key before it is handled.  The cancellation of
\* the task leaves its pumps to themselves: one may do so after the teardown.
Message(s) ==
  /\ gateway = "up" /\ create[s] = "open" /\ task[s] \in {"pumping", "done"}
  /\ lastSeen' = lastSeen \cup {s}
  /\ UNCHANGED <<create, registered, proc, termed, task, cancelled, ready,
                 reap, sweep, gateway, faults>>

\* Either pump ends (client gone, upstream gone, an exception), or the task is
\* cancelled: the finally clause tears the session down.
RunEnds(s) ==
  /\ gateway # "exited" /\ task[s] = "pumping"
  /\ task' = [task EXCEPT ![s] = "done"]
  /\ Teardown(s, "task")
  /\ UNCHANGED <<create, proc, lastSeen, ready, sweep, gateway, faults>>

\* A DELETE request for a session its client knows of.
Delete(s) ==
  /\ gateway = "up" /\ create[s] = "open" /\ s \in registered
  /\ Teardown(s, "request")
  /\ UNCHANGED <<create, proc, lastSeen, task, ready, sweep, gateway, faults>>

-----------------------------------------------------------------------------
(* sweep_loop and sweep_once.                                               *)

\* The interval is over: the sessions registered now are gone through.
SweepWakes ==
  /\ gateway = "up" /\ sweep.at = "asleep" /\ registered # {}
  /\ sweep' = [Asleep EXCEPT !.at = "next", !.todo = registered]
  /\ UNCHANGED <<create, registered, proc, termed, lastSeen, task, cancelled,
                 ready, reap, gateway, faults>>

\* EXISTS runs in Redis; an error leaves sweep_once and sweep_loop.
SweepAsks(s) ==
  /\ sweep.at = "next" /\ s \in sweep.todo
  /\ \/ /\ sweep' = [at |-> "asked", todo |-> sweep.todo \ {s}, of |-> s,
                     gone |-> s \notin lastSeen]
        /\ UNCHANGED faults
     \/ Fault /\ sweep' = [Asleep EXCEPT !.at = "dead"]
  /\ UNCHANGED <<create, registered, proc, termed, lastSeen, task, cancelled,
                 ready, reap, gateway>>

\* Mutant: the sweep passes over a session that has no pump task yet.
SweepActs_NeedsTask ==
  /\ sweep.at = "asked"
  /\ IF sweep.gone /\ sweep.of \in registered /\ task[sweep.of] # "none"
     THEN Teardown(sweep.of, "sweep") /\ sweep' = [sweep EXCEPT !.at = "reaping"]
     ELSE /\ sweep' = [sweep EXCEPT !.at = "next"]
          /\ UNCHANGED <<registered, cancelled, termed, reap>>
  /\ UNCHANGED <<create, proc, lastSeen, task, ready, gateway, faults>>

\* The answer arrives: a session without a key is torn down, by then perhaps
\* by somebody else, or with a key again.
SweepActs ==
  /\ sweep.at = "asked"
  /\ IF sweep.gone /\ sweep.of \in registered
     THEN Teardown(sweep.of, "sweep") /\ sweep' = [sweep EXCEPT !.at = "reaping"]
     ELSE /\ sweep' = [sweep EXCEPT !.at = "next"]
          /\ UNCHANGED <<registered, cancelled, termed, reap>>
  /\ UNCHANGED <<create, proc, lastSeen, task, ready, gateway, faults>>

SweepDone ==
  /\ sweep.at = "next" /\ sweep.todo = {}
  /\ sweep' = Asleep
  /\ UNCHANGED <<create, registered, proc, termed, lastSeen, task, cancelled,
                 ready, reap, gateway, faults>>

-----------------------------------------------------------------------------
(* The lifespan's finally clause and shutdown_all.                          *)

\* uvicorn runs it when the requests in flight have been answered.
RequestsDone ==
  \A s \in Sessions :
    /\ create[s] \notin {"spawn", "touch", "ready"}
    /\ ~(reap[s].by = "request" /\ reap[s].at \in {"wait", "delete"})

\* Teardowns of `who' that are interrupted where they wait.
Cut(who) ==
  [s \in Sessions |-> IF reap[s].by \in who /\ reap[s].at \in {"wait", "delete"}
                      THEN [reap[s] EXCEPT !.at = "cut"] ELSE reap[s]]

\* Mutant: sessions without a pump task are not terminated.
Shutdown_TasksOnly ==
  /\ gateway = "up" /\ RequestsDone
  /\ gateway' = "stopping"
  /\ sweep' = IF sweep.at = "dead" THEN sweep ELSE [Asleep EXCEPT !.at = "cancelled"]
  /\ reap' = Cut({"sweep"})
  /\ registered' = {}
  /\ cancelled' = cancelled \cup {s \in registered : task[s] \in {"scheduled", "pumping"}}
  /\ termed' = termed \cup {s \in registered : Alive(s) /\ task[s] # "none"}
  /\ UNCHANGED <<create, proc, lastSeen, task, ready, faults>>

\* sweep.cancel(), which interrupts a teardown the sweep is in; then the
\* registry is cleared, every pump cancelled and every subprocess terminated.
Shutdown ==
  /\ gateway = "up" /\ RequestsDone
  /\ gateway' = "stopping"
  /\ sweep' = IF sweep.at = "dead" THEN sweep ELSE [Asleep EXCEPT !.at = "cancelled"]
  /\ reap' = Cut({"sweep"})
  /\ registered' = {}
  /\ cancelled' = cancelled \cup {s \in registered : task[s] \in {"scheduled", "pumping"}}
  /\ termed' = termed \cup {s \in registered : Alive(s)}
  /\ UNCHANGED <<create, proc, lastSeen, task, ready, faults>>

\* The subprocesses that shutdown_all waits for: those it terminated itself.
Awaited == {s \in Sessions : Alive(s) /\ s \in termed /\ reap[s].at = "none"}

\* Nobody is left to wait for, or the grace period is over and with it those
\* of the teardowns under way: survivors are killed, the server returns and
\* what still runs in the loop is cancelled.
Exit ==
  /\ gateway = "stopping"
  /\ Awaited = {} \/ \A s \in Sessions : reap[s].at # "wait"
  /\ proc' = [s \in Sessions |-> IF s \in Awaited THEN "ended" ELSE proc[s]]
  /\ reap' = Cut({"task"})
  /\ gateway' = "exited"
  /\ UNCHANGED <<create, registered, termed, lastSeen, task, cancelled, ready,
                 sweep, faults>>

-----------------------------------------------------------------------------
(* The environment.                                                         *)

\* An upstream exits: by itself, or because it was terminated.
ProcExits(s) ==
  /\ Alive(s)
  /\ proc' = [proc EXCEPT ![s] = "ended"]
  /\ UNCHANGED <<create, registered, termed, lastSeen, task, cancelled, ready,
                 reap, sweep, gateway, faults>>

\* The TTL of a last_seen key passes.
KeyExpires(s) ==
  /\ s \in lastSeen
  /\ lastSeen' = lastSeen \ {s}
  /\ UNCHANGED <<create, registered, proc, termed, task, cancelled, ready,
                 reap, sweep, gateway, faults>>

-----------------------------------------------------------------------------
Step(s) ==
  \/ Record(s) \/ Spawn(s) \/ TouchNew(s) \/ Open(s)
  \/ RunStarts(s) \/ Message(s) \/ RunEnds(s) \/ Delete(s)
  \/ ReapWait(s) \/ ReapDelete(s) \/ SweepAsks(s)
  \/ ProcExits(s) \/ KeyExpires(s)

Next == (\E s \in Sessions : Step(s))
        \/ SweepWakes \/ SweepActs \/ SweepDone \/ Shutdown \/ Exit

Spec == Init /\ [][Next]_vars

(* The loop runs every task that can go on: the handler of a request, the   *)
(* pump task when it is cancelled or its upstream is gone, teardowns (their *)
(* grace period ends) and the sweep (its interval ends).  Nothing makes a   *)
(* client speak, an upstream exit or a key expire.                          *)
Fairness ==
  /\ \A s \in Sessions :
       /\ WF_vars(Spawn(s)) /\ WF_vars(TouchNew(s)) /\ WF_vars(Open(s))
       /\ WF_vars(RunStarts(s))
       /\ WF_vars((s \in cancelled \/ ~Alive(s)) /\ RunEnds(s))
       /\ WF_vars(ReapWait(s)) /\ WF_vars(ReapDelete(s))
       /\ WF_vars(SweepAsks(s))
  /\ WF_vars(SweepWakes) /\ WF_vars(SweepActs) /\ WF_vars(SweepDone)

FairSpec == Spec /\ Fairness

-----------------------------------------------------------------------------
(* While the gateway serves, a subprocess that runs is either registered,   *)
(* where shutdown_all and the sweep find it, or a teardown that will kill   *)
(* it is waiting for it: neither a creation that failed half way nor        *)
(* teardowns that meet lose one (ARCHITECTURE.md 4.8: "no process or        *)
(* credential leaks across sessions").                                      *)
NothingForgotten ==
  gateway = "up" =>
    \A s \in Sessions : Alive(s) => s \in registered \/ reap[s].at = "wait"

(* What shutdown_all leaves behind: a subprocess that runs when the gateway *)
(* has exited is one whose teardown, begun before the shutdown, was         *)
(* interrupted after SIGTERM and before SIGKILL.  The registry no longer    *)
(* had it, so shutdown_all did not wait for it.                             *)
OnlyInterruptedOutlive ==
  gateway = "exited" =>
    \A s \in Sessions : Alive(s) => reap[s].at = "cut" /\ s \in termed

(* The idle timeout: a subprocess whose session has no last_seen key is     *)
(* gone some time later, unless the client speaks again, the sweep loop has *)
(* died of a Redis error (nothing restarts it) or the gateway shuts down.   *)
(* This covers sessions whose creation failed after the subprocess started. *)
SilentSessionsReaped ==
  \A s \in Sessions :
    (Alive(s) /\ s \notin lastSeen)
      ~> (~Alive(s) \/ s \in lastSeen \/ sweep.at = "dead" \/ gateway # "up")

(* A creation under way ends, with an open session or with an error, except *)
(* when the sweep found the session before its first key was set and        *)
(* cancelled its pump task before that task's first step: ready is then     *)
(* never set and the request waits for ever.                                *)
CreateReturns ==
  \A s \in Sessions :
    create[s] = "spawn"
      ~> \/ create[s] \in {"open", "failed"}
         \/ task[s] = "done" /\ s \notin ready /\ reap[s].by = "sweep"
=============================================================================
