SPECIFICATION FairSpec
CONSTANTS
  None = None
  Calls = {c1, c2, c3}
  Nonces = {n1}
  Codes = {k1}
  Stamp <- MCStamp
  StepOf <- MCStepOf
  Window = 2
  TotpStep = 2
  CountWindow = 3
  DecayTTL = 2
  MaxTime = 8
INVARIANTS
  NonceReusedOnlyPastItsWindow
  CodeReusedOnlyAfterItsSpan
  CountsAreRecent
PROPERTIES
  CounterClears
