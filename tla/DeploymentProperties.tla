------------------------- MODULE DeploymentProperties -------------------------
(* What a deployment that may die anywhere and be run again must keep. *)
EXTENDS Deployment

Contracts ==
    Libs \cup {"Migrations", "WXRP", "WBTC", "WETH", "WETH9", "Orion", "USDT", "PriceOracle",
               "OrionPoolFactory", "OrionPoolLibrary", "OrionPoolRouter", "PoolFunctionality",
               "ExchangeImplementation"}

Artifacts ==
    [deployed : SUBSET Contracts,
     links : SUBSET (((Libs \cup {"OrionPoolLibrary"}) \X (Exchanges \cup {"OrionPoolRouter"}))),
     oracle : 0..MaxOracles,
     exchange : [Exchanges -> 0..MaxProxies]]

Routers == {"OrionPoolRouter", "PoolFunctionality"}

Proxies ==
    [code : Exchanges \cup {"none"}, oracle : 0..Given, margins : BOOLEAN, risks : BOOLEAN,
     router : {"none"} \cup Routers]

(* Types of the variables. *)
DeploymentTypeOK ==
    /\ network \in Networks /\ givenRouter \in {"none"} \cup Routers
    /\ completed \in 0..9
    /\ proxies \in [1..MaxProxies -> Proxies]
    /\ providers \in [1..MaxOracles -> BOOLEAN]
    /\ saved \in Artifacts /\ mem \in Artifacts
    /\ instance \in 0..MaxProxies
    /\ pc.file \in 0..9 /\ pc.step \in Nat
    /\ crashes \in 0..MaxCrashes

(* An exchange whose address was published has its basic parameters, and one
   published as running ExchangeWithOrionPool does run it and has its source
   of pool prices, which answers for WETH: however often the process died between the transaction that creates or
   upgrades an exchange and the ones that configure it.  (On the test net of
   the Binance chain the call that sets the parameters after the upgrade is
   commented out, 9_upgradeToExchangeWithOrionPool.js:77-88.) *)
PublishedIsUsable ==
    network # "bsc_testnet" => \A x \in Exchanges : saved.exchange[x] # None =>
        LET p == proxies[saved.exchange[x]] IN
        /\ p.oracle # None
        /\ x = "ExchangeWithOrionPool" => p.code = x /\ KnowsWETH(p.router)

(* The file whose setBasicParams reverts, because it hands the exchange a
   router of the pools, which has no getWETH: file 7 on the development
   network, always (7_deployOrionPoolStub.js:43), and file 9 on the two main
   networks if the address written in it is such a router
   (9_upgradeToExchangeWithOrionPool.js:129, 176). *)
FailingFile ==
    CASE network = "development" -> 7
      [] network \in {"bsc", "mainnet"} /\ givenRouter = "OrionPoolRouter" -> 9
      [] OTHER -> 0

(* Whatever files were cut short and run again, every statement finds what it
   needs: the libraries linked, the contracts deployed by the files before.
   Only the one call above does not succeed, and it never does. *)
StatementsSucceed ==
    Running => (Possible(Statement) <=> ~(pc.file = FailingFile /\ Statement.op = "setBasicParams"))

(* No exchange relies on an oracle of a file that authorises a provider
   before that provider may write to it (4_deploy_contracts.js:53). *)
OracleHasProvider ==
    network = "mainnet" =>
        \A i \in 1..MaxProxies : proxies[i].oracle \in 1..MaxOracles => providers[proxies[i].oracle]

(* The exchange in service is never replaced by another, loses none of its
   settings, and never goes back to the code without pools. *)
ServiceOnlyImproves ==
    [][FixedProxy # None =>
        LET old == proxies[FixedProxy]
            new == proxies'[FixedProxy] IN
        /\ saved'.exchange["Exchange"] = FixedProxy
        /\ old.oracle # None => new.oracle # None
        /\ old.router # "none" => new.router # "none"
        /\ old.margins => new.margins
        /\ old.risks => new.risks
        /\ old.code = "ExchangeWithOrionPool" => new.code = "ExchangeWithOrionPool"]_vars

(* Every file is run in the end, despite the deaths on the way, up to the one
   that fails: file 7 on the development network, file 9 on a main network
   given a router without getWETH. *)
DeploymentEnds ==
    <>[](completed = IF FailingFile = 0 THEN LastFile ELSE FailingFile - 1)
===============================================================================
