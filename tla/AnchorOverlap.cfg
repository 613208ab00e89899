SPECIFICATION Spec
CONSTANTS
    ReceiptId = {1, 2, 3}
    Worker = {ticker, admin}
    Provider = {bitcoin, solana}
    BatchCap = 2
    MaxBatches = 2
    MaxTime = 2
    Burst = 2
    HeadRead = {TRUE}
    NoBatch = NoBatch
SYMMETRY Interchangeable
INVARIANTS
    TypeOK
    OnlyLateReceiptsMissed
    SubmittedIsAccepted
    RangeHoldsTheBatch
CHECK_DEADLOCK FALSE
