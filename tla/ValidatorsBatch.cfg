SPECIFICATION ValSpec
CONSTANTS
    PowerWord = 8
    Key = {1, 2}
    Nil = Nil
    Op <- MCOp
    MaxBatch = 2
    MaxVals = 3
    MaxEvents = 0
CHECK_DEADLOCK FALSE
INVARIANT
    EveryBatchMeansItsOps
