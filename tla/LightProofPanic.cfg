SPECIFICATION ProbeSpec
CONSTANTS
    Addr <- MCPAddr
    FeeReceiver = "foundation"
    Genesis <- MCPGenesis
    GenesisAddr <- MCPGenesisAddr
    Word = 64
    Transfer <- Pair
    Worker = {w1}
    NoTx = NoTx
    NoFile = NoFile
    Empty = Empty
    Mixed = Mixed
    V1File = NoFile
    EmissionInterval = 2
    EpochMint <- MCEpochMint
    FeedCap = 2
    ExtBundle = {}
    Faults = {}
    Resubmit = FALSE
    MaxReceipts = 2
    MaxCrashes = 0
    MintAccounts <- MCMintAccounts
CHECK_DEADLOCK FALSE
INVARIANT
    LightProofServed
