SPECIFICATION Spec
CONSTANTS
    Addr <- MCAddr
    FeeReceiver = "foundation"
    Genesis <- MCGenesis
    GenesisAddr <- MCGenesisAddr
    Word = 64
    Transfer <- Pair
    Worker = {w1}
    NoTx = NoTx
    NoFile = NoFile
    Empty = Empty
    Mixed = Mixed
    V1File = NoFile
    EmissionInterval = 2
    EpochMint <- MCEpochMint
    FeedCap = 2
    ExtBundle = {}
    Faults = {"crash", "torn"}
    Resubmit = FALSE
    MaxReceipts = 2
    MaxCrashes = 1
CHECK_DEADLOCK FALSE
INVARIANT
    HeaderHeightsIncrease
