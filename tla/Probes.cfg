SPECIFICATION ProbeSpec
CONSTANTS
    Addr <- MCPAddr
    FeeReceiver = "foundation"
    Genesis <- MCPGenesis
    GenesisAddr <- MCPGenesisAddr
    Word = 64
    Transfer <- Rivals
    Worker = {w1, w2}
    NoTx = NoTx
    NoFile = NoFile
    Empty = Empty
    Mixed = Mixed
    V1File = NoFile
    EmissionInterval = 2
    EpochMint <- MCEpochMint
    FeedCap = 2
    ExtBundle = {}
    Faults = {}
    Resubmit = TRUE
    MaxReceipts = 3
    MaxCrashes = 0
    MintAccounts <- MCMintAccounts
CHECK_DEADLOCK FALSE
SYMMETRY WorkerSym
INVARIANTS
    TypeOK
    CommittedRootsMatch
    NoncesAccounted
    LedgerExplainsBalances
    MoneyConserved
    HeadersCoverReceipts
    RecentBundlesServed
    SupplyWithinSchedule
    VaultsHoldSupply
PROPERTIES
    HealthyAtRest
    CommitSafeKeepsItsWord
    ReadingsFit
    LightPairsAgree
