\* Two overlapping tasks, three versions, two contents.
SPECIFICATION Spec
CONSTANTS
  Tasks = {t1, t2}
  Versions = {1, 2, 3}
  Contents = {x, y}
  None = None
  Torn = Torn
  MaxSteps = 6
SYMMETRY TaskSymmetry
INVARIANTS
  HistoryResolvable
  RecordedCanRollBack
  TrailNamesEngine
PROPERTIES
  AppendOnly
\* The bound on edits, crashes and tasks stops the system.
CHECK_DEADLOCK FALSE
