CONSTANTS
  MAX_HEAP = 208
  WSIZE = 8
  pagesize = 64
  Setups <- MCSetups
  FileLists <- MCFileLists
  UTIL_WEIGHT = 60
  AVG_LIBC_THRUPUT = 1
  Durations <- MCDurations
  runs = 2
SPECIFICATION Spec
INVARIANTS TagsAgree FreeListExact ReportHonest
CHECK_DEADLOCK FALSE
