SPECIFICATION MCSpec
CONSTANTS
    Addr <- MCAddr
    FeeReceiver = "foundation"
    Genesis <- MCGenesis
    GenesisAddr <- MCGenesisAddr
    Word = 64
    Transfer <- Chained
    Worker = {w1}
    NoTx = NoTx
    NoFile = NoFile
    Empty = Empty
    Mixed = Mixed
    V1File = NoFile
    EmissionInterval = 2
    EpochMint <- MCEpochMint
    FeedCap = 2
    ExtBundle = {}
    Faults = {"crash"}
    Resubmit = FALSE
    MaxReceipts = 4
    MaxCrashes = 2
    Requests = {r1, r2}
    Free = Free
    PowerWord = 8
    Key = {1, 2}
    Nil = Nil
    Op <- MCOp
    MaxBatch = 2
    MaxVals = 3
    MaxEvents = 4
CHECK_DEADLOCK FALSE
INVARIANTS
    ReceiptsCovered
    HeaderHeightsIncrease
    ScoresAndPowerBounded
    BatchesMeanTheirOps
PROPERTIES
    HistoryGrows
    EveryHandlerFinishes
    FourthMissSilences
    RootFixesPower
