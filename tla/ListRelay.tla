----------------------------- MODULE ListRelay -----------------------------
(***************************************************************************)
(* How a tools/list answer travels (jsonrpc_interceptor.py,                *)
(* schema_cache.py, schema_pruner.py, the pumps of session_manager.py).    *)
(* Every session has its own subprocess of one server and two pump tasks,  *)
(* each of which handles one message at a time:                            *)
(*   client    initialize, tools/list and tools/call; a call that misses   *)
(*             the schema cache asks for the list itself and waits for the *)
(*             other pump to resolve its future;                           *)
(*   upstream  the answers.                                                *)
(* All sessions share the schema cache.  The client chooses the ids of its *)
(* requests, the gateway those of its own, and the subprocess answers      *)
(* under any id, asked or not.  A list is the set of the names on it.      *)
(***************************************************************************)
EXTENDS Naturals, Sequences, FiniteSets

CONSTANTS
  Sessions,
  Ids,          \* Ids[s]: the ids under which the client of s asks for a list
  Tools,
  Offers,       \* the lists the server may answer
  Grants,       \* Grants[e]: the tools the e-th engine grants to the identity
  None,
  MaxRequests,  \* bound on the gateway's requests (model checking only)
  MaxAnswers,   \* bound on the subprocesses' answers (model checking only)
  MaxSwaps      \* bound on policy swaps

ASSUME RelayAssumption ==
  /\ Offers \subseteq SUBSET Tools
  /\ Grants \in [0..MaxSwaps -> SUBSET Tools]
  /\ MaxRequests \in Nat /\ MaxAnswers \in Nat /\ MaxSwaps \in Nat
  /\ DOMAIN Ids = Sessions
  /\ \A s \in Sessions : Ids[s] \intersect 1..MaxRequests = {} /\ None \notin Ids[s]

VARIABLES
  client,    \* client[s]: what the client pump awaits
  up,        \* up[s]: what the upstream pump awaits, and the answer it has
  pending,   \* pending[s]: the ids that _pending has for a tools/list
  internal,  \* internal[s]: the id of the gateway's own request (_internal)
  future,    \* future[s]: what resolved its future
  pipe,      \* pipe[s]: its answers that no pump has read
  cache,     \* the schema cache of the server
  engine,    \* PolicyStore.engine, by the swaps that led to it
  log,       \* TOOLS_LIST rows: <<answer, tools served>>
  sent,      \* requests of the gateway so far
  answered,  \* answers of the subprocesses so far
  usage,     \* history: usage[s][i]: what the id i stood for in session s
  checked,   \* history: answers whose drift check was committed
  dropped    \* history: answers older than a handshake, not under way in it

pumps == <<client, up>>
wires == <<pending, internal, future, pipe>>
bounds == <<sent, answered>>
history == <<usage, checked, dropped>>
vars == <<pumps, wires, cache, engine, log, bounds, history>>

ClientIds == UNION {Ids[s] : s \in Sessions}
OwnIds == 1..MaxRequests
Serials == 1..MaxAnswers

(* n counts the answers; no message carries it.                            *)
Answer == [n : Serials, id : ClientIds \union OwnIds, ok : BOOLEAN, tools : SUBSET Tools]
Error(m) == [m EXCEPT !.ok = FALSE, !.tools = {}]

ASSUME NoAnswerAssumption == None \notin Answer

(* History: since, the engine at its arrival; due, whether the client must *)
(* get it as a pruned list.                                                *)
Idle == [at |-> "ready", msg |-> None, since |-> 0, due |-> FALSE]

(* An id is unused, or stands for one tools/list, asked or answered once;  *)
(* it is spoilt when the client uses it again, which the protocol forbids, *)
(* or the subprocess answers what is not asked under it.                   *)
Unused == [i \in ClientIds |-> "unused"]

Init ==
  /\ client = [s \in Sessions |-> "ready"]
  /\ up = [s \in Sessions |-> Idle]
  /\ pending = [s \in Sessions |-> {}]
  /\ internal = [s \in Sessions |-> None]
  /\ future = [s \in Sessions |-> None]
  /\ pipe = [s \in Sessions |-> <<>>]
  /\ cache = None
  /\ engine = 0
  /\ log = {}
  /\ sent = 0 /\ answered = 0
  /\ usage = [s \in Sessions |-> Unused]
  /\ checked = {} /\ dropped = {}

-----------------------------------------------------------------------------
(* The client pump.  What it forwards or answers is written at once; of    *)
(* its waits for a reader only that of the refetch is a stage, "ask".      *)
Step(s, from, to) == client[s] = from /\ client' = [client EXCEPT ![s] = to]

(* A request of the client takes the place of what _pending has under its  *)
(* id, also of a list; other requests mostly have ids of their own.        *)
Remember(s) ==
  \/ UNCHANGED <<pending, usage>>
  \/ \E i \in Ids[s] : /\ pending' = [pending EXCEPT ![s] = @ \ {i}]
                       /\ usage' = [usage EXCEPT ![s][i] = "spoilt"]

(* Any request that is handled at once: it is forwarded or, a tools/call,  *)
(* denied.                                                                 *)
Request(s) ==
  /\ client[s] = "ready"
  /\ Remember(s)
  /\ UNCHANGED <<pumps, internal, future, pipe, cache, engine, log, bounds>>
  /\ UNCHANGED <<checked, dropped>>

(* initialize: the cached list is dropped, then the message forwarded.     *)
Initialize(s) ==
  /\ Step(s, "ready", "invalidate")
  /\ Remember(s)
  /\ UNCHANGED <<up, internal, future, pipe, cache, engine, log, bounds>>
  /\ UNCHANGED <<checked, dropped>>

(* Answers that are still on their way to the cache.                       *)
UnderWay ==
  (UNION {{pipe[s][i].n : i \in DOMAIN pipe[s]} : s \in Sessions})
  \union {up[s].msg.n : s \in {t \in Sessions : up[t].at \in {"check", "put"}}}
  \union {future[s].n : s \in {t \in Sessions : future[t] # None}}

(* Mutant: the handshake leaves the cached list to its TTL.                *)
Invalidate_Ttl(s) ==
  /\ Step(s, "invalidate", "ready")
  /\ dropped' = dropped \union ((1..answered) \ UnderWay)
  /\ UNCHANGED <<up, wires, cache, engine, log, bounds, usage, checked>>

Invalidate(s) ==
  /\ Step(s, "invalidate", "ready")
  /\ cache' = None
  /\ dropped' = dropped \union ((1..answered) \ UnderWay)
  /\ UNCHANGED <<up, wires, engine, log, bounds, usage, checked>>

(* tools/list of the client is remembered and forwarded.                   *)
List(s) ==
  /\ client[s] = "ready"
  /\ \E i \in Ids[s] :
       /\ pending' = [pending EXCEPT ![s] = @ \union {i}]
       /\ usage' = [usage EXCEPT ![s][i] = IF @ = "unused" THEN "asked" ELSE "spoilt"]
  /\ UNCHANGED <<pumps, internal, future, pipe, cache, engine, log, bounds>>
  /\ UNCHANGED <<checked, dropped>>

(* tools/call, when _input_schema_for finds no cached list.                *)
Miss(s) ==
  /\ cache = None
  /\ Step(s, "ready", "ask")
  /\ Remember(s)
  /\ sent < MaxRequests
  /\ sent' = sent + 1
  /\ internal' = [internal EXCEPT ![s] = sent']
  /\ UNCHANGED <<up, future, pipe, cache, engine, log, answered>>
  /\ UNCHANGED <<checked, dropped>>

(* _refetch_tools: send_upstream, which has no timeout.                    *)
Ask(s) ==
  /\ Step(s, "ask", "await")
  /\ UNCHANGED <<up, wires, cache, engine, log, bounds, history>>

(* Its finally: the id is forgotten.                                       *)
Forget(s) ==
  /\ internal' = [internal EXCEPT ![s] = None]
  /\ future' = [future EXCEPT ![s] = None]
  /\ UNCHANGED <<up, pending, pipe, engine, log, bounds, usage, dropped>>

(* Mutant: wait_for without a timeout.                                     *)
GiveUp_Patient(s) ==
  /\ Step(s, "await", "ready")
  /\ future[s] # None
  /\ Forget(s)
  /\ UNCHANGED <<cache, checked>>

(* The answer does not come in time, or the request cannot be written.     *)
GiveUp(s) ==
  /\ Step(s, "await", "ready") \/ Step(s, "ask", "ready")
  /\ future[s] = None
  /\ Forget(s)
  /\ UNCHANGED <<cache, checked>>

(* It comes: a list, or an error that leaves the call without a schema.    *)
Resume(s) ==
  /\ future[s] # None
  /\ \/ /\ future[s].ok
        /\ Step(s, "await", "check")
        /\ UNCHANGED <<up, wires, cache, engine, log, bounds, history>>
     \/ /\ ~future[s].ok
        /\ Step(s, "await", "ready")
        /\ Forget(s)
        /\ UNCHANGED <<cache, checked>>

(* The drift check and the cache.                                          *)
CheckOwn(s) ==
  /\ Step(s, "check", "put")
  /\ checked' = checked \union {future[s].n}
  /\ UNCHANGED <<up, wires, cache, engine, log, bounds, usage, dropped>>

PutOwn(s) ==
  /\ Step(s, "put", "ready")
  /\ cache' = future[s]
  /\ Forget(s)
  /\ UNCHANGED checked

(* The write, the check or the SET fails after the answer came.            *)
FailOwn(s) ==
  /\ \E at \in {"ask", "check", "put"} : Step(s, at, "ready")
  /\ future[s] # None
  /\ Forget(s)
  /\ UNCHANGED <<cache, checked>>

-----------------------------------------------------------------------------
(* The subprocess answers, in any order, what it was asked or not: twice,  *)
(* a request of another method, or under an id nobody knows.               *)
Reply(s) ==
  /\ client[s] # "over"
  /\ answered < MaxAnswers
  /\ answered' = answered + 1
  /\ \E i \in Ids[s] \union 1..sent, l \in Offers, ok \in BOOLEAN :
       /\ usage' = [usage EXCEPT ![s] =
            [j \in ClientIds |-> IF j # i THEN usage[s][j]
                           ELSE IF usage[s][j] = "asked" THEN "answered" ELSE "spoilt"]]
       /\ LET m == [n |-> answered', id |-> i, ok |-> TRUE, tools |-> l]
          IN  pipe' = [pipe EXCEPT ![s] = Append(@, IF ok THEN m ELSE Error(m))]
  /\ UNCHANGED <<pumps, pending, internal, future, cache, engine, log, sent>>
  /\ UNCHANGED <<checked, dropped>>

(* on_upstream_message: the first answer to a request of the gateway       *)
(* resolves the future, another is swallowed; an answer under the id of a  *)
(* tools/list that is pending is relayed as a list; anything else is       *)
(* passed on as it is.                                                     *)
Take(s) ==
  LET m == Head(pipe[s])
      listed == m.id \in pending[s] /\ m.ok
  IN
  /\ up[s].at = "ready"
  /\ pipe[s] # <<>>
  /\ pipe' = [pipe EXCEPT ![s] = Tail(@)]
  /\ \/ /\ m.id = internal[s]
        /\ future' = [future EXCEPT ![s] = IF @ = None THEN m ELSE @]
        /\ UNCHANGED <<up, pending>>
     \/ /\ m.id # internal[s]
        /\ pending' = [pending EXCEPT ![s] = @ \ {m.id}]
        /\ up' = [up EXCEPT ![s] =
             [at |-> IF listed THEN "check" ELSE "send", msg |-> m, since |-> engine,
              due |-> listed \/ m.id \in {i \in Ids[s] : usage[s][i] = "answered"}]]
        /\ UNCHANGED future
  /\ UNCHANGED <<client, internal, cache, engine, log, bounds, history>>

(* _prune_tools_list: the drift check ...                                  *)
CheckList(s) ==
  /\ up[s].at = "check"
  /\ up' = [up EXCEPT ![s].at = "put"]
  /\ checked' = checked \union {up[s].msg.n}
  /\ UNCHANGED <<client, wires, cache, engine, log, bounds, usage, dropped>>

(* Mutant: the list is served as it was cached.                            *)
PutList_Unpruned(s) ==
  /\ up[s].at = "put"
  /\ cache' = up[s].msg
  /\ up' = [up EXCEPT ![s].at = "audit"]
  /\ UNCHANGED <<client, wires, engine, log, bounds, history>>

(* ... the cache, and the pruning by the engine of that moment ...         *)
Pruned(m) == [m EXCEPT !.tools = @ \intersect Grants[engine]]

PutList(s) ==
  /\ up[s].at = "put"
  /\ cache' = up[s].msg
  /\ up' = [up EXCEPT ![s].at = "audit", ![s].msg = Pruned(@)]
  /\ UNCHANGED <<client, wires, engine, log, bounds, history>>

(* ... and the TOOLS_LIST row.                                             *)
AuditList(s) ==
  /\ up[s].at = "audit"
  /\ up' = [up EXCEPT ![s].at = "send"]
  /\ log' = log \union {<<up[s].msg.n, up[s].msg.tools>>}
  /\ UNCHANGED <<client, wires, cache, engine, bounds, history>>

(* A failed check or row: the client gets an error.                        *)
FailList(s) ==
  /\ up[s].at \in {"check", "audit"}
  /\ up' = [up EXCEPT ![s].at = "send", ![s].msg = Error(@)]
  /\ UNCHANGED <<client, wires, cache, engine, log, bounds, history>>

Serve(s) ==
  /\ up[s].at = "send"
  /\ up' = [up EXCEPT ![s] = Idle]
  /\ UNCHANGED <<client, wires, cache, engine, log, bounds, history>>

-----------------------------------------------------------------------------
(* A pump fails or its side goes away, which ends the session.  A SET that *)
(* was under way may still be applied.                                     *)
Puts(s) ==
  {up[t].msg : t \in {x \in {s} : up[x].at = "put"}}
  \union {future[t] : t \in {x \in {s} : client[x] = "put"}}

End(s) ==
  /\ client[s] # "over"
  /\ client' = [client EXCEPT ![s] = "over"]
  /\ up' = [up EXCEPT ![s] = [Idle EXCEPT !.at = "over"]]
  /\ pending' = [pending EXCEPT ![s] = {}]
  /\ internal' = [internal EXCEPT ![s] = None]
  /\ future' = [future EXCEPT ![s] = None]
  /\ pipe' = [pipe EXCEPT ![s] = <<>>]
  /\ cache' \in {cache} \union Puts(s)
  /\ usage' = [usage EXCEPT ![s] = Unused]
  /\ UNCHANGED <<engine, log, bounds, checked, dropped>>

(* A reload or a rollback.                                                 *)
Swap ==
  /\ engine < MaxSwaps
  /\ engine' = engine + 1
  /\ UNCHANGED <<pumps, wires, cache, log, bounds, history>>

(* The TTL of the cached list.                                             *)
Expire ==
  /\ cache # None
  /\ cache' = None
  /\ UNCHANGED <<pumps, wires, engine, log, bounds, history>>

Refetch(s) ==
  GiveUp(s) \/ Resume(s) \/ CheckOwn(s) \/ PutOwn(s) \/ FailOwn(s)
Relay(s) == Take(s) \/ CheckList(s) \/ PutList(s) \/ AuditList(s) \/ FailList(s)

Next ==
  \/ \E s \in Sessions :
       \/ Request(s) \/ Initialize(s) \/ Invalidate(s) \/ List(s) \/ Miss(s) \/ Ask(s)
       \/ Refetch(s) \/ Reply(s) \/ Relay(s) \/ Serve(s) \/ End(s)
  \/ Swap \/ Expire

Spec == Init /\ [][Next]_vars

(* Stores answer or raise, and the wait for an answer has a timeout.  That *)
(* a client or a subprocess reads, or that one answers, is not assumed.    *)
FairSpec ==
  /\ Spec
  /\ \A s \in Sessions :
       /\ WF_vars(Invalidate(s))
       /\ WF_vars(client[s] # "ask" /\ Refetch(s))
       /\ WF_vars(up[s].at # "ready" /\ Relay(s))

-----------------------------------------------------------------------------
(* Type invariant.                                                         *)
TypeOK ==
  /\ client \in [Sessions -> {"ready", "invalidate", "ask", "await", "check",
                              "put", "over"}]
  /\ up \in [Sessions -> [at : {"ready", "check", "put", "audit", "send", "over"},
                          msg : Answer \union {None}, since : 0..MaxSwaps,
                          due : BOOLEAN]]
  /\ pending \in [Sessions -> SUBSET ClientIds]
  /\ internal \in [Sessions -> OwnIds \union {None}]
  /\ future \in [Sessions -> Answer \union {None}]
  /\ pipe \in [Sessions -> Seq(Answer)]
  /\ cache \in Answer \union {None}
  /\ engine \in 0..MaxSwaps
  /\ log \in SUBSET (Serials \X SUBSET Tools)
  /\ sent \in 0..MaxRequests /\ answered \in 0..MaxAnswers
  /\ usage \in [Sessions -> [ClientIds -> {"unused", "asked", "answered", "spoilt"}]]
  /\ checked \subseteq Serials /\ dropped \subseteq Serials

(* An answer that reaches a client under the id of its tools/list passed   *)
(* the drift check, shows only tools granted by an engine in force while   *)
(* it was relayed, and is in the audit log as it was served.  That holds   *)
(* of every answer relayed as a list, and of every list whose id the       *)
(* client used once and the subprocess did not answer unasked, whatever    *)
(* other ids are spoilt.  A spoilt id carries no promise: _pending forgets *)
(* the list when another request has its id, and when it is answered twice *)
(* or under an id of another type the second answer passes as it is, as do *)
(* late answers to requests of the gateway                                 *)
(* (jsonrpc_interceptor.py:153, 523, 606, 707-764).                        *)
ServedArePruned ==
  \A s \in Sessions : up[s].at = "send" /\ up[s].due /\ up[s].msg.ok =>
    /\ up[s].msg.n \in checked
    /\ \E e \in up[s].since..engine : up[s].msg.tools \subseteq Grants[e]
    /\ <<up[s].msg.n, up[s].msg.tools>> \in log

(* The list that calls are validated against went through the drift check, *)
(* and is none that a handshake found settled: only an answer that was on  *)
(* its way while the handshake dropped the cache may follow it             *)
(* (schema_cache.py:1-7, jsonrpc_interceptor.py:155-157, 497-500).         *)
CacheIsCurrent == cache # None => cache.n \in checked /\ cache.n \notin dropped

(* Each pump is again and again done with its message, or over, or at a     *)
(* write: a call gets its schema or its denial, and a handshake its way,   *)
(* although the pump that must resolve the future may be stuck with a      *)
(* client that does not read; only writes can wait for ever                *)
(* (jsonrpc_interceptor.py:487-506, session_manager.py:160-183).           *)
PumpsGoOn ==
  \A s \in Sessions :
    /\ []<>(client[s] \in {"ready", "ask", "over"})
    /\ []<>(up[s].at \in {"ready", "send", "over"})
=============================================================================
