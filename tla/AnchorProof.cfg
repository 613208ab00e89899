SPECIFICATION Spec
CONSTANTS
    ReceiptId = {1, 2, 3}
    Worker = {ticker}
    Provider = {bitcoin}
    BatchCap = 2
    MaxBatches = 4
    MaxTime = 2
    Burst = 2
    HeadRead = {TRUE}
    NoBatch = NoBatch
INVARIANT
    ProofReachesTheRoot
CHECK_DEADLOCK FALSE
