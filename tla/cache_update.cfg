SPECIFICATION Spec
CONSTANTS
  w1 = w1 w2 = w2 w3 = w3 u1 = u1 u2 = u2
  Workers <- TwoWorkers
  Uris <- OneUri
  Sizes = {1}
  MAX_CACHE_SIZE = 3
  MAX_OBJECT_SIZE = 3
  SEM_VALUE_MAX = 2
INVARIANT ItemUpdatesExclusive
CHECK_DEADLOCK FALSE
