SPECIFICATION MCSpec
CONSTANTS
    HalfWord = 32768
    FeeBps = 25
    Malformed = {"x"}
    Bound <- MCBound
    NoKey = NoKey
    BadKey = BadKey
    Req <- MCReq
    Env <- MCEnv
    Client = {c1}
    Rpm = 3
    TokenTime = 2
    Call = {k1, k2}
    HttpReq <- MCHttpReq
    MaxTime = 7
    LcTx <- MCLcTx
    LcChainID = 777
    LcCall = {g1, g2}
    Nobody = Nobody
    LcMaxHeight = 2
    LcMaxDeaths = 2
    EmissionInterval = 10
    EpochMint <- MCEpochMint
    Member = {"u", "v", "w"}
    StakeBase <- MCStakeBase
    PoolMultiplier = 2
    RewardWord = 1000
    EpochBlocks = 2
    ScheduleMint <- MCScheduleMint
    EpochLength = 2
    FirstScores <- MCFirstScores
    FirstBlock = 2
    MaxBlock = 4
    MaxTries = 1
    MaxParticipation = 2
    Byte = {0, 1, 2}
    Nul = 0
    Holder = {1, 2, 3, 4, 5}
    NameOf <- MCNameOf
    Content <- MCContent
    NoProof = NoProof
    MaxAge = 1
CHECK_DEADLOCK FALSE
SYMMETRY CallSym
INVARIANTS
    AdmittedFits
    AdmittedAuthorised
    RepliesTruthful
    RestoresBounded
    PatientIsServed
    LightAnswersAgree
    RewardsAddUp
    FreshProofsVerify
    AcceptedIsTrue
PROPERTY
    RootsIdentifyStates
