CONSTANTS
  Parts = {1, 2, 3}
  Addr = {1, 2, 3}
  Sizes = {0, 1, 2}
  MaxCalls = 5
SPECIFICATION Spec
INVARIANTS LibcCallsLegal AlarmsExact LeakReportExact
CHECK_DEADLOCK FALSE
