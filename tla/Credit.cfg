SPECIFICATION Spec
CONSTANTS
    alice = alice
    bob = bob
    matcher = matcher
    TKN = TKN
    ORN = ORN
    ETH = ETH
    Users = {alice, bob, matcher}
    Assets = {ORN, TKN}
    Unit = 2
    BaseUnit <- ExactUnits
    Int112Max = 1000
    Uint112Max = 1000
    Int64Max = 1000
    Uint64Range = 1000
    OrnPriceTime = 900
    FutureSlack = 1
    StartTime = 11
    MaxTime = 12
    ReleasingDuration = 1
    InitialSettings <- Margin
    InitialRisks <- FullRisks
    InitialWallet <- CreditWallet
    InitialAllowance <- AllApproved
    Orders <- CreditOrders
    SignedOrders <- CreditOrders
    AllowedMatcher = matcher
    Feeds <- CreditFeeds
    FeedTimes = {11}
    DepositAmounts <- CreditDeposits
    WithdrawAmounts <- CreditWithdrawals
    StakeAmounts <- CreditStakes
    LiquidationAmounts <- NoAmounts
    FillAmounts = {1, 2}
    FillPrices = {2}
    ApproveAmounts <- Revocation
    SettingsChoices <- TightMargin
    RiskChoices = {}
    OwnerTargets = {}
INVARIANTS
    TypeOK
    NegativeIsListed
    ListedIsOwed
    OutstandingWithinDebt
PROPERTIES
    TermsHonoured
    NewRiskIsCovered
    TimerNeedsCover
    CoverRestartsTimer
CHECK_DEADLOCK FALSE
