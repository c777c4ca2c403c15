\* One gateway process, three writes, three failures anywhere.
SPECIFICATION FairSpec
CONSTANTS
  g1 = g1
  e1 = e1
  e2 = e2
  e3 = e3
  Gateways = {g1}
  Events = {e1, e2, e3}
  Home <- OneHome
  MaxFaults = 3
  NoOne = NoOne
  NoPointer = NoPointer
INVARIANTS
  PublishedChained
  AckedPublished
  ForkOnlyAfterStranded
PROPERTIES
  PromiseSpec
  EveryWriteReturns
\* Every call returns once, so the system stops.
CHECK_DEADLOCK FALSE
