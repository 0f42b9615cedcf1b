SPECIFICATION PriceOracleSpec
CONSTANTS
    provider = provider
    ornAggregator = ornAggregator
    tknAggregator = tknAggregator
    TKN = TKN
    ETH = ETH
    baseAsset = ORN
    Assets = {ORN, ETH, TKN}
    NoAggregator = NoAggregator
    Aggregators = {ornAggregator, tknAggregator}
    Senders = {provider}
    Unit = 2
    AggregatorUnit = 2
    Uint64Max = 4
    Day = 2
    FutureSlack = 2
    StartTime = 1
    MaxTime = 3
    RoundPrices <- Answers
    Feeds <- OneFeed
    ProvidedFeeds <- OneFeed
    FeedTimes = {1, 3}
    AssetLists <- TokenLists
    AggregatorLists <- AllAggregators
    AuthorizationChanges <- Authorize
INVARIANT
    PriceOracleTypeOK
PROPERTIES
    ImplementsInterface
    NoFresherThanBase
