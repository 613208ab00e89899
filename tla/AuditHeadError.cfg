CONSTANTS
  p1 = p1
  p2 = p2
  w1 = w1
  w2 = w2
  w3 = w3
  Process = {p1}
  Writer = {w1, w2}
  ProcOf <- OneProcess
  Event = {e1, e2, e3}
  Genesis = Genesis
  NoOne = NoOne
  UniqueSeq = FALSE
  HeadReadFails = TRUE
  FileSink = TRUE
  Attempts = 2
SPECIFICATION Spec
INVARIANTS ChainVerifies
CHECK_DEADLOCK FALSE
