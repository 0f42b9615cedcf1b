SPECIFICATION PoolSpec
CONSTANTS
    alice = alice
    bob = bob
    matcher = matcher
    TKN = TKN
    ORN = ORN
    ETH = ETH
    Users = {alice, matcher}
    Assets = {ORN, TKN, ETH}
    Unit = 2
    BaseUnit <- ExactUnits
    Int112Max = 1000
    Uint112Max = 1000
    Int64Max = 1000
    Uint64Range = 1000
    OrnPriceTime = 900
    FutureSlack = 1
    StartTime = 11
    MaxTime = 11
    ReleasingDuration = 1
    InitialSettings <- Margin
    InitialRisks <- FullRisks
    InitialWallet <- RefillWallet
    InitialAllowance <- AllApproved
    Orders <- PoolFillOrders
    SignedOrders <- PoolFillSigned
    AllowedMatcher = matcher
    Feeds <- OneFeed
    FeedTimes = {11}
    DepositAmounts <- PoolFillDeposits
    WithdrawAmounts <- NoAmounts
    StakeAmounts <- CreditStakes
    LiquidationAmounts <- NoAmounts
    FillAmounts = {}
    FillPrices = {}
    ApproveAmounts <- NoAmounts
    SettingsChoices = {}
    RiskChoices = {}
    OwnerTargets = {}
    SwapFee = 1
    FeeBase = 10
    InitialReserves <- FillReserves
    MarketReserves <- FillMarket
    Paths <- FillPaths
    PoolFillAmounts = {1, 2}
    BlockchainFees = {0, 1}
    PoolSwaps = {}
INVARIANTS
    OrderFilledOnce
CHECK_DEADLOCK FALSE
