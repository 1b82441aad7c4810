CONSTANTS
  WSIZE = 4
  MAX_HEAP = 240
  CHUNKSIZE = 80
  NUM_CLASSES = 2
  Builds <- MCBuilds
  Ids <- MCIds
  Sizes <- MCSizes
  MaxOps <- MCMaxOps
  NumTraces = 1
  UTIL_WEIGHT = 60
  AVG_LIBC_THRUPUT = 1
  Durations <- MCDurations
  Counts <- MCCounts
  Cost = 3
  Gaps <- MCGaps
  WORD = 4
  USEC = 4
  MAX_ETIME = 8
  runs = 2
  kbest = 2
  maxsamples = 3
  epsilon = 1
  NEVENT = 2
  THRESHOLD = 2
  RECORDTHRESH = 2
  Mhz = 1
SPECIFICATION Spec
INVARIANTS BlocksTile FreeListsExact ReplaysAlike UtilizationSound TimesTrue
PROPERTIES ErrorMeansNoMemory GrowsOnlyWithoutFit ImplementsPayloadHeap
CHECK_DEADLOCK FALSE
