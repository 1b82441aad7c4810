SPECIFICATION FairSpec
CONSTANTS
  w1 = w1 w2 = w2 w3 = w3 u1 = u1 u2 = u2
  Workers <- ThreeWorkers
  Uris <- TwoUris
  Sizes = {2, 4}
  MAX_CACHE_SIZE = 3
  MAX_OBJECT_SIZE = 3
  SEM_VALUE_MAX = 2
INVARIANTS WritersExclusive SizeAccounted EvictHasVictim KnownIsHit
CHECK_DEADLOCK FALSE
PROPERTIES LookupReturns InsertReturns
