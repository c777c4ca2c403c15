--------------------------- MODULE DriftDetector ---------------------------
(***************************************************************************)
(* DriftDetector (services/gateway/drift_detector.py): the tool_baselines  *)
(* table of one upstream server, read and written by two kinds of calls    *)
(* that interleave at their awaits:                                        *)
(*   check    every tools/list answer and every schema refetch of any      *)
(*            session of the server;                                       *)
(*   approve  the administrator's promotion of the observed definition.    *)
(* Each loads rows, awaits audit writes with its transaction open, and     *)
(* commits.  Nothing locks the rows.  The ORM's UPDATE names the columns   *)
(* whose value differs from the loaded one, so two transactions that       *)
(* overlap merge their rows column by column.                              *)
(*                                                                         *)
(* A tool definition is an element of Defs and stands for its own hash and *)
(* its own shape; Mild is the set of changes that classify puts below HIGH.*)
(***************************************************************************)
EXTENDS Naturals, FiniteSets

CONSTANTS
  Calls,     \* concurrent calls of check or approve
  Tools,     \* tool names
  Defs,      \* tool definitions without their name
  Mild,      \* pairs <<old, new>> whose drift does not block
  Flagged,   \* definitions that scan_descriptions has findings for
  None,      \* NULL
  Removed,   \* REMOVED_SENTINEL
  NoRow,     \* no baseline for the tool
  MaxLoads   \* bound on the transactions of a behaviour (model checking only)

ASSUME DriftAssumption ==
  /\ Mild \subseteq {p \in Defs \X Defs : p[1] # p[2]}
  /\ Flagged \subseteq Defs
  /\ None \notin Defs /\ Removed \notin Defs /\ None # Removed
  /\ MaxLoads \in Nat

VARIABLES
  rows,      \* the committed tool_baselines of the server
  st,        \* st[a]: where call a is
  base,      \* base[a]: the rows call a loaded
  new,       \* new[a]: the rows as call a leaves them in its session
  events,    \* events[a]: the DRIFT_* events call a has to write
  flags,     \* flags[a]: the BASELINE_FLAGGED events it has to write
  reported,  \* DRIFT_* events in the audit log: <<tool, definition>>
  flagged,   \* BASELINE_FLAGGED events in the audit log
  torn,      \* history: tools whose row merged two overlapping transactions
  renamed,   \* history: tools baselined as a rename and not approved since
  loads      \* transactions begun so far

vars == <<rows, st, base, new, events, flags, reported, flagged, torn, renamed,
          loads>>

Row == [approvedSchema : Defs, approvedHash : Defs \union {Removed},
        observedSchema : Defs \union {None},
        observedHash : Defs \union {None, Removed},
        blocked : BOOLEAN, suspicious : BOOLEAN]

ASSUME NoRowAssumption == NoRow \notin Row

Table == [Tools -> Row \union {NoRow}]

(* Tools lists: what a server may answer, a partial function of the names. *)
Lists == UNION {[S -> Defs] : S \in SUBSET Tools}

NoTable == [t \in Tools |-> NoRow]

Init ==
  /\ rows = NoTable
  /\ st = [a \in Calls |-> "idle"]
  /\ base = [a \in Calls |-> NoTable]
  /\ new = [a \in Calls |-> NoTable]
  /\ events = [a \in Calls |-> {}]
  /\ flags = [a \in Calls |-> {}]
  /\ reported = {}
  /\ flagged = {}
  /\ torn = {}
  /\ renamed = {}
  /\ loads = 0

Begin(a, kind) ==
  /\ st[a] = "idle"
  /\ st' = [st EXCEPT ![a] = kind]
  /\ base' = [base EXCEPT ![a] = rows]
  /\ loads < MaxLoads
  /\ loads' = loads + 1

End(a) ==
  /\ st' = [st EXCEPT ![a] = "idle"]
  /\ base' = [base EXCEPT ![a] = NoTable]
  /\ new' = [new EXCEPT ![a] = NoTable]

-----------------------------------------------------------------------------
(* classify(old, new) or HIGH: a change the table does not name blocks.    *)
Breaks(old, def) == <<old, def>> \notin Mild

(* check's loop over the live tools, for one that has a baseline.          *)
Reverted(row) ==
  IF row.observedHash = None THEN row
  ELSE [row EXCEPT !.observedHash = None, !.observedSchema = None,
                   !.blocked = FALSE]

Drifted(row, def) ==
  [row EXCEPT !.observedSchema = def, !.observedHash = def,
              !.blocked = @ \/ Breaks(row.approvedSchema, def)]

IsDrift(row, def) == def # row.approvedHash /\ def # row.observedHash

(* Mutant: drift is recorded and never blocks.                             *)
Seen_NeverBlocks(row, def) ==
  CASE def = row.approvedHash -> Reverted(row)
    [] IsDrift(row, def) -> [Drifted(row, def) EXCEPT !.blocked = row.blocked]
    [] OTHER -> row

Seen(row, def) ==
  CASE def = row.approvedHash -> Reverted(row)
    [] IsDrift(row, def) -> Drifted(row, def)
    [] OTHER -> row

(* _first_sighting: a tool of the same shape whose name is gone from the   *)
(* list is taken for this one under its old name.                          *)
Sources(table, live, def) ==
  {s \in Tools \ DOMAIN live : table[s] # NoRow /\ table[s].approvedSchema = def}

FirstSighting(table, live, def) ==
  LET rename == Sources(table, live, def) # {}
      seen   == IF rename THEN def ELSE None
  IN [approvedSchema |-> def, approvedHash |-> def,
      observedSchema |-> seen, observedHash |-> seen,
      blocked |-> rename, suspicious |-> def \in Flagged]

NewTools(table, live) == {t \in DOMAIN live : table[t] = NoRow}

RenamedSources(table, live) ==
  {CHOOSE s \in Sources(table, live, live[t]) : TRUE :
     t \in {n \in NewTools(table, live) : Sources(table, live, live[n]) # {}}}

(* Baselined tools the list lacks: their removal is recorded once.         *)
Gone(table, live) ==
  {t \in Tools \ (DOMAIN live \union RenamedSources(table, live)) :
     table[t] # NoRow /\ table[t].observedHash # Removed}

Vanished(row) == [row EXCEPT !.observedHash = Removed, !.observedSchema = None]

(* The table as check leaves it in its session.                            *)
Checked(table, live) ==
  [t \in Tools |->
     CASE t \in NewTools(table, live) -> FirstSighting(table, live, live[t])
       [] t \in DOMAIN live \ NewTools(table, live) -> Seen(table[t], live[t])
       [] t \in Gone(table, live) -> Vanished(table[t])
       [] OTHER -> table[t]]

(* The DRIFT_* events of a check: drift of a baselined tool, a rename, and *)
(* a removal (which names no definition).                                  *)
DriftEvents(table, live) ==
  {<<t, live[t]>> : t \in {n \in DOMAIN live \ NewTools(table, live) :
                             IsDrift(table[n], live[n])}}
  \union {<<t, live[t]>> : t \in {n \in NewTools(table, live) :
                                    Sources(table, live, live[n]) # {}}}
  \union {<<t, Removed>> : t \in Gone(table, live)}

-----------------------------------------------------------------------------
(* check: SELECT the server's rows, then compare them with the live list.  *)
LoadCheck(a, live) ==
  /\ Begin(a, "check")
  /\ new' = [new EXCEPT ![a] = Checked(rows, live)]
  /\ events' = [events EXCEPT ![a] = DriftEvents(rows, live)]
  /\ flags' = [flags EXCEPT ![a] = {<<t, live[t]>> : t \in
                 {n \in NewTools(rows, live) : live[n] \in Flagged}}]
  /\ UNCHANGED <<rows, reported, flagged, torn, renamed>>

(* Mutant: the flag follows the definition that is being replaced.         *)
Promoted_StaleScan(row) ==
  [approvedSchema |-> row.observedSchema,
   approvedHash |-> IF row.observedHash = None THEN row.observedSchema
                    ELSE row.observedHash,
   observedSchema |-> None, observedHash |-> None, blocked |-> FALSE,
   suspicious |-> row.approvedSchema \in Flagged]

(* approve: the observed definition becomes the approved one.              *)
Promoted(row) ==
  [approvedSchema |-> row.observedSchema,
   approvedHash |-> IF row.observedHash = None THEN row.observedSchema
                    ELSE row.observedHash,
   observedSchema |-> None, observedHash |-> None, blocked |-> FALSE,
   suspicious |-> row.observedSchema \in Flagged]

(* approve: LookupError unless a definition is observed.                   *)
LoadApprove(a, t) ==
  /\ Begin(a, "approve")
  /\ rows[t] # NoRow
  /\ rows[t].observedSchema # None
  /\ new' = [new EXCEPT ![a] = [rows EXCEPT ![t] = Promoted(rows[t])]]
  /\ events' = [events EXCEPT ![a] = {}]
  /\ flags' = [flags EXCEPT ![a] =
       IF rows[t].observedSchema \in Flagged /\ ~rows[t].suspicious
       THEN {<<t, rows[t].observedSchema>>} ELSE {}]
  /\ UNCHANGED <<rows, reported, flagged, torn, renamed>>

Touched(a) == {t \in Tools : new[a][t] # base[a][t]}

(* Mutant: the events are written after the commit, if at all.             *)
Audit_Later(a) ==
  /\ events[a] \union flags[a] # {}
  /\ events' = [events EXCEPT ![a] = {}]
  /\ flags' = [flags EXCEPT ![a] = {}]
  /\ UNCHANGED <<rows, st, base, new, reported, flagged, torn, renamed, loads>>

(* The audit writes of the call, each a committed row of its own.          *)
Audit(a) ==
  /\ events[a] \union flags[a] # {}
  /\ reported' = reported \union events[a]
  /\ flagged' = flagged \union flags[a]
  /\ events' = [events EXCEPT ![a] = {}]
  /\ flags' = [flags EXCEPT ![a] = {}]
  /\ UNCHANGED <<rows, st, base, new, torn, renamed, loads>>

(* One row's UPDATE: the columns the session changed, over what is there.  *)
Merge(cur, old, upd) ==
  [c \in DOMAIN upd |-> IF upd[c] # old[c] THEN upd[c] ELSE cur[c]]

Committed(a, t) ==
  CASE t \notin Touched(a) -> rows[t]
    [] t \in Touched(a) /\ base[a][t] = NoRow -> new[a][t]
    [] OTHER -> Merge(rows[t], base[a][t], new[a][t])

(* The primary key refuses a row another transaction inserted first.       *)
Duplicate(a) == \E t \in Touched(a) : base[a][t] = NoRow /\ rows[t] # NoRow

Commit(a) ==
  /\ st[a] # "idle"
  /\ events[a] \union flags[a] = {}
  /\ ~Duplicate(a)
  /\ rows' = [t \in Tools |-> Committed(a, t)]
  /\ torn' = torn \union {t \in Touched(a) : rows[t] # base[a][t]}
  /\ renamed' = IF st[a] = "approve" THEN renamed \ Touched(a)
                ELSE renamed \union {t \in Touched(a) :
                       base[a][t] = NoRow /\ new[a][t].blocked}
  /\ End(a)
  /\ UNCHANGED <<events, flags, reported, flagged, loads>>

(* A failed audit write, IntegrityError, a database error or cancellation: *)
(* the transaction rolls back, the events already written stay.            *)
RollBack(a) ==
  /\ st[a] # "idle"
  /\ \E done \in SUBSET events[a], noted \in SUBSET flags[a] :
       /\ reported' = reported \union done
       /\ flagged' = flagged \union noted
  /\ End(a)
  /\ events' = [events EXCEPT ![a] = {}]
  /\ flags' = [flags EXCEPT ![a] = {}]
  /\ UNCHANGED <<rows, torn, renamed, loads>>

Next ==
  \/ \E a \in Calls, live \in Lists : LoadCheck(a, live)
  \/ \E a \in Calls, t \in Tools : LoadApprove(a, t)
  \/ \E a \in Calls : Audit(a)
  \/ \E a \in Calls : Commit(a)
  \/ \E a \in Calls : RollBack(a)

Spec == Init /\ [][Next]_vars

-----------------------------------------------------------------------------
(* Type invariant.                                                         *)
TypeOK ==
  /\ rows \in Table
  /\ st \in [Calls -> {"idle", "check", "approve"}]
  /\ base \in [Calls -> Table]
  /\ new \in [Calls -> Table]
  /\ events \in [Calls -> SUBSET (Tools \X (Defs \union {Removed}))]
  /\ flags \in [Calls -> SUBSET (Tools \X Defs)]
  /\ reported \in SUBSET (Tools \X (Defs \union {Removed}))
  /\ flagged \in SUBSET (Tools \X Defs)
  /\ torn \in SUBSET Tools
  /\ renamed \in SUBSET Tools
  /\ loads \in 0..MaxLoads

Baselined == {t \in Tools : rows[t] # NoRow}

Pending(t) == rows[t].observedHash \in Defs \ {rows[t].approvedHash}

(* Breaking drift that awaits review is blocked, in every row that no two  *)
(* overlapping transactions merged (drift_detector.py:207-224, 370-410).   *)
(* The exemption is the hazard: nothing locks the row between the SELECT   *)
(* and the commit.                                                         *)
QuarantineHolds ==
  \A t \in Baselined \ torn :
    Pending(t) /\ Breaks(rows[t].approvedSchema, rows[t].observedHash) => rows[t].blocked

(* A blocked tool has a way out: the observation an administrator can      *)
(* approve or the server can revert is there as long as the block is, and  *)
(* the flag of the risk score is that of the approved definition           *)
(* (drift_detector.py:199-204, 382-401).                                   *)
QuarantineCanEnd ==
  \A t \in Baselined \ torn :
    /\ rows[t].blocked => rows[t].observedHash # None
    /\ rows[t].suspicious = (rows[t].approvedSchema \in Flagged)

(* Whatever overlaps, merges or fails, the baseline never holds an         *)
(* observation, a block or a flag without its event in the audit log:      *)
(* every write precedes the commit of what it reports, and a tool is       *)
(* blocked only by drift or a rename, which name the definition met        *)
(* (drift_detector.py:208-224, 287-312).                                   *)
NothingSilent ==
  \A t \in Baselined :
    /\ rows[t].observedHash # None => <<t, rows[t].observedHash>> \in reported
    /\ rows[t].observedSchema # None => <<t, rows[t].observedSchema>> \in reported
    /\ rows[t].blocked => \E d \in Defs : <<t, d>> \in reported
    /\ rows[t].suspicious => \E d \in Defs : <<t, d>> \in flagged

(* What becomes trusted was reported as drift first: an approval promotes  *)
(* only a definition the audit log names (drift_detector.py:370-410).      *)
TrustFollowsReport ==
  [][\A t \in Baselined :
       rows'[t].approvedSchema # rows[t].approvedSchema =>
         <<t, rows'[t].approvedSchema>> \in reported]_vars

(* What drift_detector.py:300 and ARCHITECTURE.md 4.8 promise of a renamed *)
(* tool: blocked until approval.                                           *)
RenamedBlockedUntilApproved == \A t \in renamed : rows[t].blocked
=============================================================================
