SPECIFICATION FairSpec
CONSTANTS
    ReceiptId = {1, 2, 3}
    Worker = {ticker}
    Provider = {bitcoin}
    BatchCap = 1
    MaxBatches = 100
    MaxTime = 1
    Burst = 3
    HeadRead = {FALSE}
    NoBatch = NoBatch
PROPERTY
    BacklogDrains
CHECK_DEADLOCK FALSE
