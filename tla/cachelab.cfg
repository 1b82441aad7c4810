CONSTANTS
  WIDTH = 30
  MatrixSizes <- MCMatrixSizes
  MAXN = 256
  A_addr = 1101952
  B_addr = 1364096
  Marker_start = 1626252
  Marker_end = 1626253
  Arguments <- MCArguments
  Stack <- MCStack
  CsimArguments <- MCCsimArguments
  Accesses <- MCAccesses
  MaxTrace = 5
SPECIFICATION Spec
INVARIANTS CountsAsReference TransposesCorrect MissesWithinLimits
CHECK_DEADLOCK FALSE
