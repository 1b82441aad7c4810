SPECIFICATION FairSpec
CONSTANTS
  MAXJOBS = 2
  JidBound = 2
  Pids = {p1, p2}
  NoPid = NoPid
  Commands = {"run", "run &"}
  Keys = {"INT", "TSTP"}
  KeyBound = 2
CHECK_DEADLOCK FALSE
INVARIANTS FreeSlotsCleared JidFreshUntilWrap ForegroundIsAwaited StoppedShown
PROPERTIES ImplementsJobList ZombiesReaped WaitfgEndsOnExit WaitfgEndsOnStop
