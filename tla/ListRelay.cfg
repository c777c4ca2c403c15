\* Two sessions, two requests of the gateway, two answers, one policy swap.
SPECIFICATION FairSpec
CONSTANTS
  t1 = t1
  t2 = t2
  s1 = s1
  s2 = s2
  i1 = i1
  i2 = i2
  Sessions = {s1, s2}
  Ids <- MCIds
  Tools = {t1, t2}
  Offers <- MCOffers
  Grants <- MCGrants
  None = None
  MaxRequests = 2
  MaxAnswers = 2
  MaxSwaps = 1
INVARIANTS
  ServedArePruned
  CacheIsCurrent
PROPERTY
  PumpsGoOn
\* Sessions end.
CHECK_DEADLOCK FALSE
