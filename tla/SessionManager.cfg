\* Two sessions, two Redis failures.
SPECIFICATION FairSpec
CONSTANTS
  s1 = s1
  s2 = s2
  Sessions = {s1, s2}
  NoSession = NoSession
  MaxFaults = 2
INVARIANTS
  NothingForgotten
  OnlyInterruptedOutlive
PROPERTIES
  SilentSessionsReaped
  CreateReturns
\* The gateway exits.
CHECK_DEADLOCK FALSE
