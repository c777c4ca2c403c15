------------------------ MODULE DriftDetectorProofs ------------------------
(* What the baselines of a server say, for any number of overlapping checks *)
(* and approvals, tools and definitions, whatever writes fail.              *)
EXTENDS DriftDetector, TLAPS

-----------------------------------------------------------------------------
(* The rows that check and approve compute are rows.                        *)
LEMMA SeenType ==
  ASSUME NEW row \in Row, NEW def \in Defs
  PROVE  Seen(row, def) \in Row
<1>1. Reverted(row) \in Row
  BY DEF Reverted, Row
<1>2. Drifted(row, def) \in Row
  <2>1. (row.blocked \/ Breaks(row.approvedSchema, def)) \in BOOLEAN
    BY DEF Row, Breaks
  <2> DEFINE b == row.blocked \/ Breaks(row.approvedSchema, def)
  <2>2. Drifted(row, def) =
          [row EXCEPT !.observedSchema = def, !.observedHash = def, !.blocked = b]
    BY DEF Drifted
  <2> HIDE DEF b
  <2> QED
    BY <2>1, <2>2 DEF Row, b
<1> QED
  BY <1>1, <1>2 DEF Seen, IsDrift

LEMMA FirstSightingType ==
  ASSUME NEW table, NEW live, NEW def \in Defs
  PROVE  FirstSighting(table, live, def) \in Row
BY DEF FirstSighting, Row

LEMMA VanishedType ==
  ASSUME NEW row \in Row
  PROVE  Vanished(row) \in Row
BY DEF Vanished, Row

LEMMA PromotedType ==
  ASSUME NEW row \in Row, row.observedSchema # None
  PROVE  Promoted(row) \in Row
BY DEF Promoted, Row

(* A list that a server may answer.                                         *)
LEMMA ListType ==
  ASSUME NEW live \in Lists
  PROVE  DOMAIN live \subseteq Tools /\ \A t \in DOMAIN live : live[t] \in Defs
BY DEF Lists

(* What check leaves of each tool.                                          *)
LEMMA CheckedCases ==
  ASSUME NEW table \in Table, NEW live \in Lists, NEW t \in Tools
  PROVE  \/ /\ t \in DOMAIN live /\ table[t] = NoRow
            /\ Checked(table, live)[t] = FirstSighting(table, live, live[t])
         \/ /\ t \in DOMAIN live /\ table[t] # NoRow
            /\ Checked(table, live)[t] = Seen(table[t], live[t])
         \/ /\ t \in Gone(table, live) /\ table[t] # NoRow
            /\ Checked(table, live)[t] = Vanished(table[t])
         \/ Checked(table, live)[t] = table[t]
<1> DEFINE fresh == t \in NewTools(table, live)
<1>0. fresh <=> t \in DOMAIN live /\ table[t] = NoRow
  BY DEF NewTools
<1> USE DEF Gone
<1>1. CASE fresh
  <2>1. Checked(table, live)[t] = FirstSighting(table, live, live[t])
    BY <1>0, <1>1 DEF Checked
  <2> QED
    BY <1>0, <1>1, <2>1
<1>2. CASE t \in DOMAIN live /\ ~fresh
  <2>1. Checked(table, live)[t] = Seen(table[t], live[t])
    BY <1>0, <1>2 DEF Checked
  <2> QED
    BY <1>0, <1>2, <2>1
<1>3. CASE t \notin DOMAIN live
  <2>1. ~fresh
    BY <1>0, <1>3
  <2>2. Checked(table, live)[t] =
          IF t \in Gone(table, live) THEN Vanished(table[t]) ELSE table[t]
    BY <1>3, <2>1 DEF Checked
  <2>3. t \in Gone(table, live) => table[t] # NoRow
    OBVIOUS
  <2> QED
    BY <2>2, <2>3
<1> QED
  BY <1>1, <1>2, <1>3

LEMMA CheckedType ==
  ASSUME NEW table \in Table, NEW live \in Lists
  PROVE  /\ Checked(table, live) \in Table
         /\ \A t \in Tools : table[t] # NoRow => Checked(table, live)[t] # NoRow
<1>1. ASSUME NEW t \in Tools
      PROVE  /\ Checked(table, live)[t] \in Row \union {NoRow}
             /\ table[t] # NoRow => Checked(table, live)[t] # NoRow
  <2>1. table[t] # NoRow => table[t] \in Row
    BY DEF Table
  <2>2. t \in DOMAIN live => live[t] \in Defs
    BY ListType
  <2> QED
    BY <2>1, <2>2, CheckedCases, SeenType, FirstSightingType, VanishedType, NoRowAssumption
<1> QED
  BY <1>1 DEF Checked, Table

(* The columns of a merged row.                                             *)
LEMMA MergeColumns ==
  ASSUME NEW cur \in Row, NEW old \in Row, NEW upd \in Row
  PROVE  LET m == Merge(cur, old, upd) IN
         /\ m \in Row
         /\ m.approvedSchema \in {cur.approvedSchema, upd.approvedSchema}
         /\ m.observedSchema \in {cur.observedSchema, upd.observedSchema}
         /\ m.observedHash \in {cur.observedHash, upd.observedHash}
         /\ m.blocked \in {cur.blocked, upd.blocked}
         /\ m.suspicious \in {cur.suspicious, upd.suspicious}
         /\ m.approvedSchema # cur.approvedSchema => upd.approvedSchema # old.approvedSchema
         /\ cur = old => m = upd
<1>1. DOMAIN upd = {"approvedSchema", "approvedHash", "observedSchema", "observedHash",
                    "blocked", "suspicious"}
  BY DEF Row
<1>2. Merge(cur, old, upd) =
        [approvedSchema |-> IF upd.approvedSchema # old.approvedSchema
                            THEN upd.approvedSchema ELSE cur.approvedSchema,
         approvedHash |-> IF upd.approvedHash # old.approvedHash
                          THEN upd.approvedHash ELSE cur.approvedHash,
         observedSchema |-> IF upd.observedSchema # old.observedSchema
                            THEN upd.observedSchema ELSE cur.observedSchema,
         observedHash |-> IF upd.observedHash # old.observedHash
                          THEN upd.observedHash ELSE cur.observedHash,
         blocked |-> IF upd.blocked # old.blocked THEN upd.blocked ELSE cur.blocked,
         suspicious |-> IF upd.suspicious # old.suspicious
                        THEN upd.suspicious ELSE cur.suspicious]
  BY <1>1 DEF Merge
<1>3. Merge(cur, old, upd) \in Row
  BY <1>2 DEF Row
<1>4. cur = old => Merge(cur, old, upd) = upd
  BY <1>2 DEF Row
<1> QED
  BY <1>2, <1>3, <1>4

-----------------------------------------------------------------------------
(* What the three properties say of one row, with the audit log as given.   *)
Backed(t, row, rep, flg) ==
  /\ row.observedHash # None => <<t, row.observedHash>> \in rep
  /\ row.observedSchema # None => <<t, row.observedSchema>> \in rep
  /\ row.blocked => \E d \in Defs : <<t, d>> \in rep
  /\ row.suspicious => \E d \in Defs : <<t, d>> \in flg

Fit(row) ==
  /\ row.observedHash \in Defs \ {row.approvedHash}
     /\ Breaks(row.approvedSchema, row.observedHash) => row.blocked
  /\ row.blocked => row.observedHash # None
  /\ row.suspicious = (row.approvedSchema \in Flagged)

(* The BASELINE_FLAGGED events of a check.                                  *)
NewFlags(table, live) ==
  {<<t, live[t]>> : t \in {n \in NewTools(table, live) : live[n] \in Flagged}}

LEMMA SeenColumns ==
  ASSUME NEW row \in Row, NEW def \in Defs
  PROVE  /\ Seen(row, def).approvedSchema = row.approvedSchema
         /\ Seen(row, def).suspicious = row.suspicious
         /\ Seen(row, def).observedHash \in {None, row.observedHash, def}
         /\ Seen(row, def).observedSchema \in {None, row.observedSchema, def}
         /\ ~IsDrift(row, def) =>
              /\ Seen(row, def).observedHash \in {None, row.observedHash}
              /\ Seen(row, def).observedSchema \in {None, row.observedSchema}
              /\ Seen(row, def).blocked => row.blocked
         /\ Fit(row) => Fit(Seen(row, def))
<1> DEFINE b == row.blocked \/ Breaks(row.approvedSchema, def)
           drifted == [row EXCEPT !.observedSchema = def, !.observedHash = def, !.blocked = b]
<1>1. Drifted(row, def) = drifted
  BY DEF Drifted
<1>2. b \in BOOLEAN /\ (Breaks(row.approvedSchema, def) => b)
  BY DEF Row, Breaks
<1>3. def # None
  BY DriftAssumption
<1> HIDE DEF b
<1>4. CASE def = row.approvedHash
  <2>1. Seen(row, def) = Reverted(row)
    BY <1>4 DEF Seen, IsDrift
  <2> QED
    BY <2>1, <1>4, DriftAssumption DEF Reverted, Fit, Row, IsDrift
<1>5. CASE IsDrift(row, def)
  <2>1. Seen(row, def) = drifted
    BY <1>1, <1>5 DEF Seen, IsDrift
  <2>2. /\ drifted.approvedSchema = row.approvedSchema
        /\ drifted.suspicious = row.suspicious
        /\ drifted.observedHash = def /\ drifted.observedSchema = def
        /\ drifted.blocked = b
    BY DEF Row
  <2>3. Fit(row) => Fit(drifted)
    BY <1>2, <1>3, <2>2 DEF Fit
  <2> QED
    BY <1>5, <2>1, <2>2, <2>3
<1>6. CASE def # row.approvedHash /\ ~IsDrift(row, def)
  <2>1. Seen(row, def) = row
    BY <1>6 DEF Seen
  <2> QED
    BY <2>1
<1> QED
  BY <1>4, <1>5, <1>6

(* A check never touches what is trusted ...                                *)
LEMMA CheckedKeeps ==
  ASSUME NEW table \in Table, NEW live \in Lists, NEW t \in Tools, table[t] # NoRow
  PROVE  Checked(table, live)[t].approvedSchema = table[t].approvedSchema
<1>1. table[t] \in Row
  BY DEF Table
<1>2. t \in DOMAIN live => live[t] \in Defs
  BY ListType
<1>3. Vanished(table[t]).approvedSchema = table[t].approvedSchema
  BY <1>1 DEF Vanished, Row
<1> QED
  BY <1>1, <1>2, <1>3, CheckedCases, SeenColumns

(* ... leaves fit rows fit ...                                              *)
LEMMA CheckedFit ==
  ASSUME NEW table \in Table, NEW live \in Lists, NEW t \in Tools,
         table[t] # NoRow => Fit(table[t]),
         Checked(table, live)[t] # NoRow
  PROVE  Fit(Checked(table, live)[t])
<1>1. table[t] # NoRow => table[t] \in Row
  BY DEF Table
<1>2. t \in DOMAIN live => live[t] \in Defs
  BY ListType
<1>3. table[t] # NoRow => Fit(Vanished(table[t]))
  BY <1>1, DriftAssumption DEF Vanished, Row, Fit
<1>4. t \in DOMAIN live => Fit(FirstSighting(table, live, live[t]))
  BY <1>2, DriftAssumption DEF FirstSighting, Fit
<1> QED
  BY <1>1, <1>2, <1>3, <1>4, CheckedCases, SeenColumns

(* ... and has an event for every observation, block and flag that it adds. *)
LEMMA CheckedBacked ==
  ASSUME NEW table \in Table, NEW live \in Lists, NEW t \in Tools, NEW rep, NEW flg,
         table[t] # NoRow => Backed(t, table[t], rep, flg),
         Checked(table, live)[t] # NoRow
  PROVE  Backed(t, Checked(table, live)[t], rep \union DriftEvents(table, live),
                flg \union NewFlags(table, live))
<1> DEFINE events1 == rep \union DriftEvents(table, live)
           flags1 == flg \union NewFlags(table, live)
<1>1. table[t] # NoRow => table[t] \in Row
  BY DEF Table
<1>2. t \in DOMAIN live => live[t] \in Defs
  BY ListType
<1>3. table[t] # NoRow => Backed(t, table[t], events1, flags1)
  BY DEF Backed
<1>4. ASSUME t \in DOMAIN live, table[t] = NoRow
      PROVE  Backed(t, FirstSighting(table, live, live[t]), events1, flags1)
  <2>1. t \in NewTools(table, live)
    BY <1>4 DEF NewTools
  <2>2. Sources(table, live, live[t]) # {} => <<t, live[t]>> \in events1
    BY <2>1 DEF DriftEvents
  <2>3. live[t] \in Flagged => <<t, live[t]>> \in flags1
    BY <2>1 DEF NewFlags
  <2> QED
    BY <1>2, <1>4, <2>2, <2>3 DEF FirstSighting, Backed
<1>5. ASSUME t \in DOMAIN live, table[t] # NoRow
      PROVE  Backed(t, Seen(table[t], live[t]), events1, flags1)
  <2>1. t \in DOMAIN live \ NewTools(table, live)
    BY <1>5 DEF NewTools
  <2>2. IsDrift(table[t], live[t]) => <<t, live[t]>> \in events1
    BY <2>1 DEF DriftEvents
  <2> QED
    BY <1>1, <1>2, <1>3, <1>5, <2>2, SeenColumns DEF Backed
<1>6. ASSUME t \in Gone(table, live), table[t] # NoRow
      PROVE  Backed(t, Vanished(table[t]), events1, flags1)
  <2>1. <<t, Removed>> \in events1
    BY <1>6 DEF DriftEvents
  <2> QED
    BY <1>1, <1>3, <1>6, <2>1 DEF Vanished, Backed, Row
<1> QED
  BY <1>3, <1>4, <1>5, <1>6, CheckedCases

LEMMA EventsType ==
  ASSUME NEW table \in Table, NEW live \in Lists
  PROVE  /\ DriftEvents(table, live) \subseteq Tools \X (Defs \union {Removed})
         /\ NewFlags(table, live) \subseteq Tools \X Defs
<1>1. NewTools(table, live) \subseteq DOMAIN live /\ Gone(table, live) \subseteq Tools
  BY DEF NewTools, Gone
<1> QED
  BY <1>1, ListType DEF DriftEvents, NewFlags

-----------------------------------------------------------------------------
(* The invariant.  A transaction's copy of a row is backed by the audit log *)
(* and by the events it still has to write, and by the time it commits none *)
(* of those is left.  A merged row takes each column from a backed row, so  *)
(* merging cannot make it silent; only fitness relates columns, and is lost *)
(* where two transactions merge.                                            *)
Pinned == \A a \in Calls, t \in Tools : base[a][t] # NoRow =>
            rows[t] # NoRow /\ new[a][t] # NoRow

RowsBacked == \A t \in Tools : rows[t] # NoRow => Backed(t, rows[t], reported, flagged)

CopiesBacked == \A a \in Calls, t \in Tools : new[a][t] # NoRow =>
  Backed(t, new[a][t], reported \union events[a], flagged \union flags[a])

CopiesReported == \A a \in Calls, t \in Tools :
  base[a][t] # NoRow /\ new[a][t].approvedSchema # base[a][t].approvedSchema =>
    <<t, new[a][t].approvedSchema>> \in reported

RowsFit == \A t \in Tools \ torn : rows[t] # NoRow => Fit(rows[t])

CopiesFit == \A a \in Calls, t \in Tools : t \notin torn /\ new[a][t] # NoRow =>
  Fit(new[a][t])

IInv == /\ TypeOK /\ Pinned /\ RowsBacked /\ CopiesBacked /\ CopiesReported
        /\ RowsFit /\ CopiesFit

LEMMA InitInv == Init => IInv
BY DriftAssumption DEF Init, IInv, TypeOK, Pinned, RowsBacked, CopiesBacked, CopiesReported,
   RowsFit, CopiesFit, NoTable, Table

LEMMA CheckStep ==
  ASSUME IInv, NEW a \in Calls, NEW live \in Lists, LoadCheck(a, live)
  PROVE  IInv'
<1> DEFINE copy == Checked(rows, live)
           evs == DriftEvents(rows, live)
           fls == NewFlags(rows, live)
<1>1. /\ rows' = rows /\ reported' = reported /\ flagged' = flagged /\ torn' = torn
      /\ renamed' = renamed
      /\ st' = [st EXCEPT ![a] = "check"] /\ base' = [base EXCEPT ![a] = rows]
      /\ new' = [new EXCEPT ![a] = copy]
      /\ events' = [events EXCEPT ![a] = evs] /\ flags' = [flags EXCEPT ![a] = fls]
      /\ loads < MaxLoads /\ loads' = loads + 1
  BY Zenon DEF LoadCheck, Begin, NewFlags
<1>2. copy \in Table /\ \A t \in Tools : rows[t] # NoRow => copy[t] # NoRow
  BY CheckedType DEF IInv, TypeOK
<1>3. evs \subseteq Tools \X (Defs \union {Removed}) /\ fls \subseteq Tools \X Defs
  BY EventsType DEF IInv, TypeOK
<1>4. \A t \in Tools : copy[t] # NoRow =>
        Backed(t, copy[t], reported \union evs, flagged \union fls)
  BY CheckedBacked DEF IInv, TypeOK, RowsBacked
<1>5. \A t \in Tools : rows[t] # NoRow => copy[t].approvedSchema = rows[t].approvedSchema
  BY CheckedKeeps DEF IInv, TypeOK
<1>6. \A t \in Tools \ torn : copy[t] # NoRow => Fit(copy[t])
  BY CheckedFit DEF IInv, TypeOK, RowsFit
<1> HIDE DEF copy, evs, fls
<1>7. TypeOK'
  BY <1>1, <1>2, <1>3, DriftAssumption DEF IInv, TypeOK
<1>8. Pinned'
  BY <1>1, <1>2 DEF IInv, TypeOK, Pinned
<1>9. RowsBacked' /\ RowsFit'
  BY <1>1 DEF IInv, RowsBacked, RowsFit
<1>10. CopiesBacked'
  BY <1>1, <1>4 DEF IInv, TypeOK, CopiesBacked
<1>11. CopiesReported'
  BY <1>1, <1>5 DEF IInv, TypeOK, CopiesReported
<1>12. CopiesFit'
  BY <1>1, <1>6 DEF IInv, TypeOK, CopiesFit
<1> QED
  BY <1>7, <1>8, <1>9, <1>10, <1>11, <1>12 DEF IInv

LEMMA ApproveStep ==
  ASSUME IInv, NEW a \in Calls, NEW t \in Tools, LoadApprove(a, t)
  PROVE  IInv'
<1> DEFINE copy == [rows EXCEPT ![t] = Promoted(rows[t])]
           fls == IF rows[t].observedSchema \in Flagged /\ ~rows[t].suspicious
                  THEN {<<t, rows[t].observedSchema>>} ELSE {}
<1>1. /\ rows' = rows /\ reported' = reported /\ flagged' = flagged /\ torn' = torn
      /\ renamed' = renamed
      /\ st' = [st EXCEPT ![a] = "approve"] /\ base' = [base EXCEPT ![a] = rows]
      /\ new' = [new EXCEPT ![a] = copy]
      /\ events' = [events EXCEPT ![a] = {}] /\ flags' = [flags EXCEPT ![a] = fls]
      /\ loads < MaxLoads /\ loads' = loads + 1
  BY Zenon DEF LoadApprove, Begin
<1>2. rows[t] \in Row /\ rows[t] # NoRow /\ rows[t].observedSchema # None
  BY DEF LoadApprove, IInv, TypeOK, Table
<1>3. Promoted(rows[t]) \in Row /\ Promoted(rows[t]) # NoRow
  BY <1>2, PromotedType, NoRowAssumption
<1>4. copy \in Table /\ \A u \in Tools : rows[u] # NoRow => copy[u] # NoRow
  BY <1>3 DEF IInv, TypeOK, Table
<1>5. rows[t].observedSchema \in Defs
  BY <1>2 DEF Row
<1>6. fls \subseteq Tools \X Defs
  BY <1>5
<1>7. Backed(t, rows[t], reported, flagged)
  BY <1>2 DEF IInv, RowsBacked
<1>8. Backed(t, Promoted(rows[t]), reported, flagged \union fls)
  BY <1>2, <1>5, <1>7 DEF Backed, Promoted
<1>9. Fit(Promoted(rows[t]))
  BY <1>2, DriftAssumption DEF Fit, Promoted
<1>10. \A u \in Tools : copy[u] # NoRow =>
         Backed(u, copy[u], reported \union {}, flagged \union fls)
  <2>1. \A u \in Tools \ {t} : rows[u] # NoRow =>
          Backed(u, rows[u], reported, flagged \union fls)
    BY DEF IInv, RowsBacked, Backed
  <2> QED
    BY <1>8, <2>1 DEF IInv, TypeOK, Table
<1>11. \A u \in Tools : copy[u].approvedSchema # rows[u].approvedSchema =>
         <<u, copy[u].approvedSchema>> \in reported
  <2>1. Promoted(rows[t]).approvedSchema = rows[t].observedSchema
    BY DEF Promoted
  <2> QED
    BY <1>2, <1>7, <2>1 DEF IInv, TypeOK, Table, Backed
<1>12. \A u \in Tools \ torn : copy[u] # NoRow => Fit(copy[u])
  BY <1>9 DEF IInv, TypeOK, Table, RowsFit
<1> HIDE DEF copy, fls
<1>13. TypeOK'
  BY <1>1, <1>4, <1>6, DriftAssumption DEF IInv, TypeOK
<1>14. Pinned'
  BY <1>1, <1>4 DEF IInv, TypeOK, Pinned
<1>15. RowsBacked' /\ RowsFit'
  BY <1>1 DEF IInv, RowsBacked, RowsFit
<1>16. CopiesBacked'
  BY <1>1, <1>10 DEF IInv, TypeOK, CopiesBacked
<1>17. CopiesReported'
  BY <1>1, <1>11 DEF IInv, TypeOK, CopiesReported
<1>18. CopiesFit'
  BY <1>1, <1>12 DEF IInv, TypeOK, CopiesFit
<1> QED
  BY <1>13, <1>14, <1>15, <1>16, <1>17, <1>18 DEF IInv

LEMMA BackedGrows ==
  ASSUME NEW t, NEW row, NEW rep, NEW flg, NEW more, NEW other,
         Backed(t, row, rep, flg), rep \subseteq more, flg \subseteq other
  PROVE  Backed(t, row, more, other)
BY DEF Backed

LEMMA AuditStep ==
  ASSUME IInv, NEW a \in Calls, Audit(a)
  PROVE  IInv'
<1>1. /\ reported' = reported \union events[a] /\ flagged' = flagged \union flags[a]
      /\ events' = [events EXCEPT ![a] = {}] /\ flags' = [flags EXCEPT ![a] = {}]
      /\ UNCHANGED <<rows, st, base, new, torn, renamed, loads>>
  BY DEF Audit
<1>2. TypeOK'
  BY <1>1 DEF IInv, TypeOK
<1>3. Pinned' /\ RowsFit' /\ CopiesFit' /\ CopiesReported'
  BY <1>1 DEF IInv, Pinned, RowsFit, CopiesFit, CopiesReported
<1>4. RowsBacked'
  BY <1>1, BackedGrows DEF IInv, RowsBacked
<1>5. CopiesBacked'
  <2>1. \A c \in Calls : /\ reported \union events[c] \subseteq (reported \union events[c])'
                        /\ flagged \union flags[c] \subseteq (flagged \union flags[c])'
    BY <1>1 DEF IInv, TypeOK
  <2>2. SUFFICES ASSUME NEW c \in Calls, NEW t \in Tools, new[c][t] # NoRow
                 PROVE  Backed(t, new[c][t], (reported \union events[c])',
                               (flagged \union flags[c])')
    BY <1>1 DEF CopiesBacked
  <2>3. Backed(t, new[c][t], reported \union events[c], flagged \union flags[c])
    BY <2>2 DEF IInv, CopiesBacked
  <2> QED
    BY <2>1, <2>3, BackedGrows
<1> QED
  BY <1>2, <1>3, <1>4, <1>5 DEF IInv

LEMMA RollBackStep ==
  ASSUME IInv, NEW a \in Calls, RollBack(a)
  PROVE  IInv'
<1>1. PICK done \in SUBSET events[a], noted \in SUBSET flags[a] :
        reported' = reported \union done /\ flagged' = flagged \union noted
  BY DEF RollBack
<1>2. /\ events' = [events EXCEPT ![a] = {}] /\ flags' = [flags EXCEPT ![a] = {}]
      /\ st' = [st EXCEPT ![a] = "idle"] /\ base' = [base EXCEPT ![a] = NoTable]
      /\ new' = [new EXCEPT ![a] = NoTable]
      /\ UNCHANGED <<rows, torn, renamed, loads>>
  BY DEF RollBack, End
<1>3. NoTable \in Table /\ \A t \in Tools : NoTable[t] = NoRow
  BY DEF NoTable, Table
<1> USE DEF IInv
<1>4. TypeOK'
  BY <1>1, <1>2, <1>3 DEF TypeOK
<1>5. Pinned' /\ CopiesReported'
  BY <1>1, <1>2, <1>3 DEF TypeOK, Pinned, CopiesReported
<1>6. RowsFit' /\ CopiesFit'
  BY <1>2, <1>3 DEF TypeOK, RowsFit, CopiesFit
<1>7. RowsBacked'
  BY <1>1, <1>2, BackedGrows DEF RowsBacked
<1>8. CopiesBacked'
  <2>1. \A c \in Calls \ {a} :
          /\ reported \union events[c] \subseteq (reported \union events[c])'
          /\ flagged \union flags[c] \subseteq (flagged \union flags[c])'
    BY <1>1, <1>2 DEF TypeOK
  <2>2. \A c \in Calls \ {a} : new'[c] = new[c]
    BY <1>2 DEF TypeOK
  <2>3. new'[a] = NoTable
    BY <1>2 DEF TypeOK
  <2> QED
    BY <1>3, <2>1, <2>2, <2>3, BackedGrows DEF CopiesBacked
<1> QED
  BY <1>4, <1>5, <1>6, <1>7, <1>8

(* The row that a commit leaves of a tool.                                  *)
LEMMA CommittedRow ==
  ASSUME IInv, NEW a \in Calls, Commit(a), NEW t \in Tools
  PROVE  /\ Committed(a, t) \in Row \union {NoRow}
         /\ rows[t] # NoRow => Committed(a, t) # NoRow
         /\ Committed(a, t) # NoRow => Backed(t, Committed(a, t), reported, flagged)
         /\ t \notin torn' /\ Committed(a, t) # NoRow => Fit(Committed(a, t))
         /\ rows[t] # NoRow /\ Committed(a, t).approvedSchema # rows[t].approvedSchema =>
              <<t, Committed(a, t).approvedSchema>> \in reported
<1>1. /\ rows[t] \in Row \union {NoRow} /\ base[a][t] \in Row \union {NoRow}
      /\ new[a][t] \in Row \union {NoRow}
  BY DEF IInv, TypeOK, Table
<1>2. base[a][t] # NoRow => rows[t] # NoRow /\ new[a][t] # NoRow
  BY DEF IInv, Pinned
<1>3. rows[t] # NoRow => Backed(t, rows[t], reported, flagged)
  BY DEF IInv, RowsBacked
<1>4. new[a][t] # NoRow => Backed(t, new[a][t], reported, flagged)
  <2>1. events[a] = {} /\ flags[a] = {}
    BY DEF Commit
  <2>2. reported \union events[a] = reported /\ flagged \union flags[a] = flagged
    BY <2>1
  <2> QED
    BY <2>2 DEF IInv, CopiesBacked
<1>5. torn' = torn \union {u \in Touched(a) : rows[u] # base[a][u]}
  BY DEF Commit
<1>6. ASSUME t \notin torn'
      PROVE  /\ rows[t] # NoRow => Fit(rows[t])
             /\ new[a][t] # NoRow => Fit(new[a][t])
             /\ t \in Touched(a) => rows[t] = base[a][t]
  BY <1>5, <1>6 DEF IInv, RowsFit, CopiesFit
<1>7. CASE t \notin Touched(a)
  <2>1. Committed(a, t) = rows[t]
    BY <1>7 DEF Committed
  <2> QED
    BY <2>1, <1>1, <1>3, <1>6
<1>8. CASE t \in Touched(a) /\ base[a][t] = NoRow
  <2>1. Committed(a, t) = new[a][t]
    BY <1>8 DEF Committed
  <2>2. rows[t] = NoRow /\ new[a][t] # NoRow
    BY <1>8 DEF Commit, Duplicate, Touched
  <2> QED
    BY <1>8, <2>1, <2>2, <1>1, <1>4, <1>6
<1>9. CASE t \in Touched(a) /\ base[a][t] # NoRow
  <2> DEFINE m == Merge(rows[t], base[a][t], new[a][t])
  <2>1. Committed(a, t) = m
    BY <1>9 DEF Committed
  <2>2. rows[t] \in Row /\ base[a][t] \in Row /\ new[a][t] \in Row
    BY <1>1, <1>2, <1>9
  <2>3. /\ m \in Row
        /\ m.approvedSchema \in {rows[t].approvedSchema, new[a][t].approvedSchema}
        /\ m.observedSchema \in {rows[t].observedSchema, new[a][t].observedSchema}
        /\ m.observedHash \in {rows[t].observedHash, new[a][t].observedHash}
        /\ m.blocked \in {rows[t].blocked, new[a][t].blocked}
        /\ m.suspicious \in {rows[t].suspicious, new[a][t].suspicious}
        /\ m.approvedSchema # rows[t].approvedSchema =>
             new[a][t].approvedSchema # base[a][t].approvedSchema
        /\ rows[t] = base[a][t] => m = new[a][t]
    BY <2>2, MergeColumns
  <2> HIDE DEF m
  <2>4. Backed(t, m, reported, flagged)
    BY <1>2, <1>3, <1>4, <1>9, <2>3 DEF Backed
  <2>5. m.approvedSchema # rows[t].approvedSchema => <<t, m.approvedSchema>> \in reported
    BY <1>9, <2>3 DEF IInv, CopiesReported
  <2>6. t \notin torn' => Fit(m)
    BY <1>2, <1>6, <1>9, <2>3
  <2> QED
    BY <2>1, <2>3, <2>4, <2>5, <2>6, NoRowAssumption
<1> QED
  BY <1>7, <1>8, <1>9

LEMMA CommitStep ==
  ASSUME IInv, NEW a \in Calls, Commit(a)
  PROVE  IInv'
<1>1. /\ rows' = [t \in Tools |-> Committed(a, t)]
      /\ st' = [st EXCEPT ![a] = "idle"] /\ base' = [base EXCEPT ![a] = NoTable]
      /\ new' = [new EXCEPT ![a] = NoTable]
      /\ torn \subseteq torn' /\ torn' \subseteq torn \union Touched(a)
      /\ renamed' \subseteq renamed \union Touched(a)
      /\ UNCHANGED <<events, flags, reported, flagged, loads>>
  BY DEF Commit, End
<1>2. NoTable \in Table /\ \A t \in Tools : NoTable[t] = NoRow
  BY DEF NoTable, Table
<1>3. Touched(a) \subseteq Tools
  BY DEF Touched
<1> USE DEF IInv
<1>4. TypeOK'
  <2>1. rows' \in Table
    BY <1>1, CommittedRow DEF Table
  <2> QED
    BY <1>1, <1>2, <1>3, <2>1 DEF TypeOK
<1>5. Pinned'
  <2>1. \A t \in Tools : rows[t] # NoRow => rows'[t] # NoRow
    BY <1>1, CommittedRow
  <2> QED
    BY <1>1, <1>2, <2>1 DEF TypeOK, Pinned
<1>6. RowsBacked'
  BY <1>1, CommittedRow DEF RowsBacked
<1>7. RowsFit'
  BY <1>1, CommittedRow DEF RowsFit
<1>8. CopiesBacked'
  BY <1>1, <1>2 DEF TypeOK, CopiesBacked
<1>9. CopiesReported'
  BY <1>1, <1>2 DEF TypeOK, CopiesReported
<1>10. CopiesFit'
  BY <1>1, <1>2 DEF TypeOK, CopiesFit
<1> QED
  BY <1>4, <1>5, <1>6, <1>7, <1>8, <1>9, <1>10

LEMMA NextInv == IInv /\ [Next]_vars => IInv'
<1> SUFFICES ASSUME IInv, [Next]_vars PROVE IInv'
  OBVIOUS
<1>1. ASSUME NEW a \in Calls, NEW live \in Lists, LoadCheck(a, live) PROVE IInv'
  BY <1>1, CheckStep
<1>2. ASSUME NEW a \in Calls, NEW t \in Tools, LoadApprove(a, t) PROVE IInv'
  BY <1>2, ApproveStep
<1>3. ASSUME NEW a \in Calls, Audit(a) PROVE IInv'
  BY <1>3, AuditStep
<1>4. ASSUME NEW a \in Calls, Commit(a) PROVE IInv'
  BY <1>4, CommitStep
<1>5. ASSUME NEW a \in Calls, RollBack(a) PROVE IInv'
  BY <1>5, RollBackStep
<1>6. ASSUME UNCHANGED vars PROVE IInv'
  BY <1>6 DEF vars, IInv, TypeOK, Pinned, RowsBacked, CopiesBacked, CopiesReported, RowsFit,
     CopiesFit
<1> QED
  BY <1>1, <1>2, <1>3, <1>4, <1>5, <1>6 DEF Next

LEMMA Invariant == Spec => []IInv
BY InitInv, NextInv, PTL DEF Spec

-----------------------------------------------------------------------------
(* DriftDetector keeps the types of its rows and of its transactions.       *)
THEOREM DriftTypeCorrect == Spec => []TypeOK
<1>1. IInv => TypeOK
  BY DEF IInv
<1> QED
  BY <1>1, Invariant, PTL

(* However many checks and approvals overlap and whatever fails, the table  *)
(* holds no observation, block or flag that the audit log does not know     *)
(* (drift_detector.py:208-224, 287-312).                                    *)
THEOREM BaselinesAreNeverSilent == Spec => []NothingSilent
<1>1. IInv => NothingSilent
  BY DEF IInv, RowsBacked, NothingSilent, Baselined, Backed
<1> QED
  BY <1>1, Invariant, PTL

(* Breaking drift that awaits review is blocked in every row that no two    *)
(* transactions merged (drift_detector.py:207-224).                         *)
THEOREM BreakingDriftIsBlocked == Spec => []QuarantineHolds
<1>1. IInv => QuarantineHolds
  BY DEF IInv, RowsFit, QuarantineHolds, Baselined, Pending, Fit
<1> QED
  BY <1>1, Invariant, PTL

(* In the same rows a block keeps the observation that can end it, and the  *)
(* flag is that of the approved definition (drift_detector.py:382-401).     *)
THEOREM BlocksCanEnd == Spec => []QuarantineCanEnd
<1>1. IInv => QuarantineCanEnd
  BY DEF IInv, RowsFit, QuarantineCanEnd, Baselined, Fit
<1> QED
  BY <1>1, Invariant, PTL

(* No commit, merged or not, makes a definition trusted that was not        *)
(* reported as drift before (drift_detector.py:370-410).                    *)
THEOREM TrustIsReported == Spec => TrustFollowsReport
<1> DEFINE Follows == \A t \in Baselined :
      rows'[t].approvedSchema # rows[t].approvedSchema =>
        <<t, rows'[t].approvedSchema>> \in reported
<1>1. ASSUME IInv, Next PROVE Follows
  <2>1. CASE \E a \in Calls : Commit(a)
    <3>1. PICK a \in Calls : Commit(a)
      BY <2>1
    <3>2. rows' = [t \in Tools |-> Committed(a, t)]
      BY <3>1 DEF Commit
    <3> QED
      BY <1>1, <3>1, <3>2, CommittedRow DEF Baselined
  <2>2. CASE rows' = rows
    BY <2>2
  <2> QED
    BY <1>1, <2>1, <2>2 DEF Next, LoadCheck, LoadApprove, Audit, RollBack
<1>2. IInv /\ [Next]_vars => [Follows]_vars
  BY <1>1
<1> QED
  BY <1>2, Invariant, PTL DEF Spec, TrustFollowsReport
=============================================================================
