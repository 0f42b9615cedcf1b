SPECIFICATION Spec
CONSTANTS
    alice = alice
    bob = bob
    matcher = matcher
    TKN = TKN
    ORN = ORN
    ETH = ETH
    Users = {alice, bob, matcher}
    Assets = {ORN, TKN}
    Unit = 2
    BaseUnit <- ExactUnits
    Int112Max = 1000
    Uint112Max = 1000
    Int64Max = 1000
    Uint64Range = 1000
    OrnPriceTime = 900
    FutureSlack = 1
    StartTime = 11
    MaxTime = 13
    ReleasingDuration = 1
    InitialSettings <- Margin
    InitialRisks <- HalfRisks
    InitialWallet <- OrnDebtWallet
    InitialAllowance <- AllApproved
    Orders <- ShortSale
    SignedOrders <- ShortSale
    AllowedMatcher = matcher
    Feeds <- LiquidationFeeds
    FeedTimes = {11, 12, 13}
    DepositAmounts <- OrnDebtDeposits
    WithdrawAmounts <- OrnDebtWithdrawals
    StakeAmounts <- OrnDebtStakes
    LiquidationAmounts <- TokenRedemptions
    FillAmounts = {2}
    FillPrices = {2}
    ApproveAmounts <- NoAmounts
    SettingsChoices = {}
    RiskChoices = {}
    OwnerTargets = {}
INVARIANT OrnListedIsOwed
CHECK_DEADLOCK FALSE
