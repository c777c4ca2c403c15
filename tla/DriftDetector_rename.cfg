\* Two overlapping calls on a server with two tool names.
SPECIFICATION Spec
CONSTANTS
  d0 = d0
  d1 = d1
  d2 = d2
  Calls = {a1, a2}
  Tools = {t1, t2}
  Defs = {d0, d1, d2}
  Mild <- MildChanges
  Flagged = {d2}
  None = None
  Removed = Removed
  NoRow = NoRow
  MaxLoads = 4
SYMMETRY CallSymmetry
INVARIANTS
  RenamedBlockedUntilApproved
\* The bound on transactions stops the system.
CHECK_DEADLOCK FALSE
