SPECIFICATION PoolSpec
CONSTANTS
    alice = alice
    bob = bob
    matcher = matcher
    TKN = TKN
    ORN = ORN
    ETH = ETH
    Users = {alice, bob, matcher}
    Assets = {ORN, TKN, ETH}
    Unit = 2
    BaseUnit <- OddUnits
    Int112Max = 1000
    Uint112Max = 1000
    Int64Max = 1000
    Uint64Range = 1000
    OrnPriceTime = 900
    FutureSlack = 1
    StartTime = 11
    MaxTime = 11
    ReleasingDuration = 1
    InitialSettings <- Margin
    InitialRisks <- FullRisks
    InitialWallet <- DustWallet
    InitialAllowance <- AllApproved
    Orders <- DustOrders
    SignedOrders <- DustOrders
    AllowedMatcher = matcher
    Feeds <- NoFeeds
    FeedTimes = {11}
    DepositAmounts <- DustDeposits
    WithdrawAmounts <- DustWithdrawals
    StakeAmounts <- NoStakes
    LiquidationAmounts <- NoAmounts
    FillAmounts = {2}
    FillPrices = {2}
    ApproveAmounts <- NoAmounts
    SettingsChoices = {}
    RiskChoices = {}
    OwnerTargets = {}
    SwapFee = 1
    FeeBase = 10
    InitialReserves <- DustReserves
    MarketReserves <- DustMarket
    Paths <- DustPaths
    PoolFillAmounts = {1}
    BlockchainFees = {0}
    PoolSwaps <- DustRequests
PROPERTIES
    DustBounded
CHECK_DEADLOCK FALSE
CONSTRAINT SmallBalances
