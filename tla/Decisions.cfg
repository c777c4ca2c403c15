SPECIFICATION Spec
CONSTANTS
  None = None
  Versions = {1, 2, 3}
  Policy <- MCPolicy
  Tools = {"t1"}
  Listed = {"t1"}
  Args = {"repo", "bad"}
  Fitting = {"repo"}
  FreqThreshold = 1
  DenialThreshold = 0
  FailureThreshold = 0
  HistoryThreshold = 1
  DecayStep = 25
  DecayMax = 40
  MaxCalls = 2
  MaxStress <- MCStress
INVARIANTS
  ExplainPredicts
  RowsExplained
  StaticFloor
  CalibrationEarned
  SimulationPredicts
CHECK_DEADLOCK FALSE
