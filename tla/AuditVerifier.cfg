\* Two writes, two verifiers, one fault, one damaged row.
SPECIFICATION FairVerifierSpec
CONSTANTS
  g1 = g1
  Gateways = {g1}
  Events = {e1, e2}
  Home <- OneHome
  MaxFaults = 1
  NoOne = NoOne
  NoPointer = NoPointer
  Verifiers = {v1, v2}
  MaxDamage = 1
INVARIANTS
  VerifierTypeOK
  NeverPastABreak
  AlarmsAreReal
PROPERTIES
  CleanLogVerified
\* Every write ends; a pass that finds nothing new changes nothing.
CHECK_DEADLOCK FALSE
