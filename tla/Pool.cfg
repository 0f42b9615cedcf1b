SPECIFICATION PoolSpec
CONSTANTS
    alice = alice
    bob = bob
    matcher = matcher
    TKN = TKN
    ORN = ORN
    ETH = ETH
    Users = {alice, bob, matcher}
    Assets = {ORN, TKN, ETH}
    Unit = 2
    BaseUnit <- ExactUnits
    Int112Max = 1000
    Uint112Max = 1000
    Int64Max = 1000
    Uint64Range = 1000
    OrnPriceTime = 900
    FutureSlack = 1
    StartTime = 11
    MaxTime = 11
    ReleasingDuration = 1
    InitialSettings <- Margin
    InitialRisks <- FullRisks
    InitialWallet <- PoolWallet
    InitialAllowance <- AllApproved
    Orders <- PoolOrders
    SignedOrders <- PoolSigned
    AllowedMatcher = matcher
    Feeds <- OneFeed
    FeedTimes = {11}
    DepositAmounts <- PoolFillDeposits
    WithdrawAmounts <- NoAmounts
    StakeAmounts <- CreditStakes
    LiquidationAmounts <- NoAmounts
    FillAmounts = {1, 2}
    FillPrices = {2}
    ApproveAmounts <- NoAmounts
    SettingsChoices = {}
    RiskChoices = {}
    OwnerTargets = {}
    SwapFee = 1
    FeeBase = 10
    InitialReserves <- FillReserves
    MarketReserves <- FillMarket
    Paths <- SwapPaths
    PoolFillAmounts = {1, 2}
    BlockchainFees = {1}
    PoolSwaps <- PoolSwapRequests
INVARIANTS
    PoolTypeOK
    BorrowersHaveStake
    Backed
PROPERTIES
    PoolTermsHonoured
    PoolRiskIsCovered
CHECK_DEADLOCK FALSE
