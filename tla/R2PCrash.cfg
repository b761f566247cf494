SPECIFICATION ReadSpec
CONSTANTS
    Addr <- MCAddr
    FeeReceiver = "bob"
    Genesis <- MCGenesis
    GenesisAddr <- MCGenesisAddr
    Word = 65536
    Transfer <- Payments
    Worker = {w1}
    NoTx = NoTx
    NoFile = NoFile
    Empty = Empty
    Mixed = Mixed
    V1File = NoFile
    EmissionInterval = 2
    EpochMint <- MCEpochMint
    FeedCap = 2
    ExtBundle = {}
    Faults = {"crash"}
    Resubmit = FALSE
    MaxReceipts = 2
    MaxCrashes = 1
    Request = {"r1", "r2"}
    Payee <- MCPayee
    Payer <- MCPayer
    Amount <- Tight
    FeeBps = 25
    FeeMas = {0}
    NoHash = NoHash
    Dev1 = Dev1
    Dev2 = Dev2
    DevHash <- MCDevHash
    DevFree = TRUE
    OneAtATime = TRUE
    Query <- MCQuery
    NoRead = NoRead
CHECK_DEADLOCK FALSE
INVARIANTS
    PaidIsBacked
    AckedPaymentsSurvive
    ListKeepsItsFilter
    PaymentsCanBeLookedUp
PROPERTY
    ImplementsLifecycle
