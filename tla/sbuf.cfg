SPECIFICATION FairSpec
CONSTANTS
  main = main other = other w1 = w1 w2 = w2
  n = 2
  Producers <- TwoProducers
  Consumers <- TwoConsumers
  ConnBound = 4
INVARIANTS MutualExclusion
PROPERTIES ImplementsFifo ConnectionsTaken InsertReturns
CHECK_DEADLOCK FALSE
