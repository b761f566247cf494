SPECIFICATION Spec
CONSTANTS
    Addr <- MCAddr
    FeeReceiver = "foundation"
    Genesis <- MCGenesis
    GenesisAddr <- MCGenesisAddr
    Word = 64
    Transfer <- Pair
    Worker = {w1, w2}
    NoTx = NoTx
    NoFile = NoFile
    Empty = Empty
    Mixed = Mixed
    V1File <- MCV1
    EmissionInterval = 2
    EpochMint <- MCEpochMint
    FeedCap = 2
    ExtBundle = {7}
    Faults = {"crash", "torn", "io"}
    Resubmit = TRUE
    MaxReceipts = 2
    MaxCrashes = 1
CHECK_DEADLOCK FALSE
SYMMETRY WorkerSym
INVARIANTS
    RoundsContiguous
    HeadersLinked
