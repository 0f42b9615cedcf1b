SPECIFICATION PairSpec
CONSTANTS
    alice = alice
    carol = carol
    token0 = token0
    token1 = token1
    Pair = Pair
    NoOne = NoOne
    Accounts = {alice, carol}
    SwapFee = 1
    FeeBase = 10
    MINIMUM_LIQUIDITY = 1
    Uint112Max = 10
    InitialHoldings <- ProviderHoldings
    TransferAmounts = {5}
    LiquidityAmounts = {3}
    SwapAmounts = {0, 1}
    FeeReceivers = {carol, NoOne}
PROPERTIES
    FeeWithinSixth
CHECK_DEADLOCK FALSE
