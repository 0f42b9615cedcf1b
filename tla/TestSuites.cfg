SPECIFICATION TestSpec
CONSTANTS
    owner = owner
    user1 = user1
    user2 = user2
    user3 = user3
    user4 = user4
    otherUser = otherUser
    broker = broker
    liquidator = liquidator
    ORN = ORN
    ETH = ETH
    WETH = WETH
    USDT = USDT
    WBTC = WBTC
    WXRP = WXRP
    Users = {owner, user1, user2, user3, user4, otherUser, broker, liquidator}
    Assets = {ORN, ETH, WETH, USDT, WBTC, WXRP}
    Unit = 100
    BaseUnit <- ToExchUnits
    Int112Max = 100000000
    Uint112Max = 100000000
    Int64Max = 100000000
    Uint64Range = 10000
    OrnPriceTime = 9000
    FutureSlack = 1
    StartTime = 100
    MaxTime = 100
    OrderLife = 2500
    ReleasingDuration = 86
    InitialSettings <- deployedSettings
    InitialRisks <- deployedRisks
    InitialWallet <- fundedAccounts
    InitialAllowance <- nothingApproved
    Suite <- TestedSuite
    Orders <- TestedOrders
    SignedOrders <- TestedOrders
    AllowedMatcher = owner
    Feeds = {}
    FeedTimes = {}
    DepositAmounts <- NoInputs
    WithdrawAmounts <- NoInputs
    StakeAmounts <- NoLocks
    LiquidationAmounts <- NoInputs
    FillAmounts = {}
    FillPrices = {}
    ApproveAmounts <- NoInputs
    SettingsChoices = {}
    RiskChoices = {}
    OwnerTargets = {}
    SwapFee = 3
    FeeBase = 1000
    InitialReserves <- TestedReserves
    MarketReserves = {}
    Paths = {}
    PoolFillAmounts = {}
    BlockchainFees = {}
    PoolSwaps = {}
INVARIANTS
    FactsAgree
PROPERTIES
    ChangesAgree
