SPECIFICATION Spec
CONSTANTS
    ReceiptId = {1, 2, 3}
    Worker = {ticker}
    Provider = {bitcoin}
    BatchCap = 2
    MaxBatches = 4
    MaxTime = 2
    Burst = 2
    HeadRead = {FALSE}
    NoBatch = NoBatch
INVARIANT
    SubmittedIsGapFree
CHECK_DEADLOCK FALSE
