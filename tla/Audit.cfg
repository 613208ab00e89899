CONSTANTS
  p1 = p1
  p2 = p2
  w1 = w1
  w2 = w2
  w3 = w3
  Process = {p1, p2}
  Writer = {w1, w2, w3}
  ProcOf <- TwoProcesses
  Event = {e1, e2, e3}
  Genesis = Genesis
  NoOne = NoOne
  UniqueSeq = TRUE
  HeadReadFails = TRUE
  FileSink = TRUE
  Attempts = 2
SPECIFICATION FairSpec
INVARIANTS TypeOK ChainVerifies LossesAreCounted
PROPERTIES AppendsAreAtomic RecordReturns
CHECK_DEADLOCK FALSE
