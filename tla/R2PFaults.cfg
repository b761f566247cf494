SPECIFICATION R2PSpec
CONSTANTS
    Addr <- MCAddr
    FeeReceiver = "bob"
    Genesis <- MCGenesis
    GenesisAddr <- MCGenesisAddr
    Word = 65536
    Transfer <- Payments
    Worker = {w1, w2}
    NoTx = NoTx
    NoFile = NoFile
    Empty = Empty
    Mixed = Mixed
    V1File = NoFile
    EmissionInterval = 2
    EpochMint <- MCEpochMint
    FeedCap = 2
    ExtBundle = {}
    Faults = {"crash", "torn", "io"}
    Resubmit = FALSE
    MaxReceipts = 1
    MaxCrashes = 1
    Request = {"r1"}
    Payee <- MCPayee
    Payer <- MCPayer
    Amount <- Affordable
    FeeBps = 25
    FeeMas = {0}
    NoHash = NoHash
    Dev1 = Dev1
    Dev2 = Dev2
    DevHash <- MCDevHash
    DevFree = TRUE
    OneAtATime = FALSE
CHECK_DEADLOCK FALSE
SYMMETRY WorkerSym
INVARIANT
    PaidOnlyByTransfer
