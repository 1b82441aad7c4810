SPECIFICATION Spec
CONSTANTS
  MAXJOBS = 2
  JidBound = 3
  Pids = {p1, p2, p3}
  NoPid = NoPid
  Commands = {"run", "run &", "fg %jid", "fg pid", "bg %jid", "bg pid"}
  Keys = {"INT", "TSTP"}
  KeyBound = 1
SYMMETRY Symmetry
CHECK_DEADLOCK FALSE
INVARIANTS ShellInv
PROPERTY SparesBackground
