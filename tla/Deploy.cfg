SPECIFICATION FairDeploymentSpec
CONSTANTS
    Networks = {"mainnet", "bsc", "bsc_testnet", "binanceTestnet", "hardhat", "eth", "development"}
    AddedNetworks = {"binanceTestnet"}
    Reruns = {9}
    MaxCrashes = 2
    MaxProxies = 4
    MaxOracles = 4
INVARIANTS
    DeploymentTypeOK
    StatementsSucceed
    PublishedIsUsable
    OracleHasProvider
PROPERTIES
    ServiceOnlyImproves
    DeploymentEnds
CHECK_DEADLOCK FALSE
