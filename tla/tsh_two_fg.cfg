SPECIFICATION Spec
CONSTANTS
  MAXJOBS = 2
  JidBound = 3
  Pids = {p1, p2}
  NoPid = NoPid
  Commands = {"run", "run &", "fg pid"}
  Keys = {}
  KeyBound = 0
CHECK_DEADLOCK FALSE
INVARIANT AtMostOneFg
