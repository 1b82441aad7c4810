CONSTANTS
  Writers = {w1, w2}
  BlobReaders = {r1}
  PaddrReaders = {q1, q2}
  Tasks = {1, 2, 3}
  Addresses = {0, 3}
  FirstParent <- MCFirstParent
  PAGE_SIZE = 2
  Frames <- MCFrames
  MaxCalls = 3
SPECIFICATION Spec
INVARIANT SerialCallsExact
CHECK_DEADLOCK FALSE
