------------------------------ MODULE Deployment ------------------------------
(***************************************************************************)
(* The deployment of the contracts: the numbered files of src/migrations   *)
(* run by `truffle migrate', one after another, each a sequence of         *)
(* transactions that may be cut short by an error or by the death of the   *)
(* process, and then run again from its first line.  What the transactions *)
(* did stays on the chain; what the process learnt (addresses, links) is   *)
(* on disk only when its file ended.                                       *)
(*                                                                         *)
(* truffle and its upgrades plug-in are external: modelled from how the    *)
(* files use them.  Networks deployed with hardhat run their script the    *)
(* same way, with nothing recorded between two runs of it.                 *)
(***************************************************************************)
EXTENDS Naturals, Sequences

CONSTANTS
    Networks,        \* the networks this instance deploys to
    AddedNetworks,   \* entries an operator adds to the committed configuration
    Reruns,          \* files an operator may run again (--f n --to n)
    MaxCrashes,      \* bound: deaths of the process
    MaxProxies,      \* bound: exchanges the chain remembers
    MaxOracles       \* bound: price oracles the chain remembers

VARIABLES
    network,   \* the network deployed to
    givenRouter, \* what stands at the router's address written in file 9
    completed, \* Migrations.last_completed_migration, kept on the chain
    proxies,   \* the exchanges on the chain
    providers, \* for each price oracle, whether its provider may write
    saved,     \* artifacts on disk: addresses and links
    mem,       \* artifacts in the process that runs a file
    instance,  \* exchangeInstance, the exchange a file works on
    pc,        \* the file being run and the next of its steps
    crashes

vars == <<network, givenRouter, completed, proxies, providers, saved, mem, instance, pc, crashes>>

None == 0
Given == MaxOracles + 1      \* an address written in the file

Libs == {"LibValidator", "LibUnitConverter", "MarginalFunctionality"}
Exchanges == {"Exchange", "ExchangeWithOrionPool"}

-------------------------------------------------------------------------------
(* The statements of the files that call the chain or the resolver. *)

Do(op, c) == [op |-> op, c |-> c, arg |-> "none"]
Deploy(c) == Do("deploy", c)
DeployWith(c, arg) == [op |-> "deploy", c |-> c, arg |-> arg]
deployed(c) == Do("deployed", c)
link(lib, c) == [op |-> "link", c |-> c, arg |-> lib]
linkGiven(lib, c) == [op |-> "linkGiven", c |-> c, arg |-> lib]
deployProxy(c) == Do("deployProxy", c)
upgradeProxy(c) == Do("upgradeProxy", c)
setBasicParams(oracle, router) == [op |-> "setBasicParams", c |-> oracle, arg |-> router]
updateMarginalSettings == Do("updateMarginalSettings", "none")
updateAssetRisks == Do("updateAssetRisks", "none")
changePriceProviderAuthorization == Do("authorise", "PriceOracle")

(* Slip: a library is left out. *)
DeployLibsNoConverter == <<Deploy("LibValidator"), Deploy("MarginalFunctionality")>>

DeployLibs == <<Deploy("LibValidator"), Deploy("LibUnitConverter"), Deploy("MarginalFunctionality")>>
FindLibs == <<deployed("LibValidator"), deployed("MarginalFunctionality"), deployed("LibUnitConverter")>>
LinkLibs(c) == <<link("LibValidator", c), link("LibUnitConverter", c), link("MarginalFunctionality", c)>>
LinkGivenLibs(c) ==
    <<linkGiven("LibValidator", c), linkGiven("LibUnitConverter", c), linkGiven("MarginalFunctionality", c)>>
Collateral == <<updateMarginalSettings, updateAssetRisks>>

InitialMigration == <<Deploy("Migrations")>>

DevelopmentTokens ==
    <<Deploy("WXRP"), Deploy("WBTC"), Deploy("WETH"), Deploy("WETH9"), Deploy("Orion"), Deploy("USDT")>>

BinanceTestnetExchange ==
    DeployLibs \o LinkLibs("Exchange") \o <<Deploy("PriceOracle"), deployed("PriceOracle"),
    deployProxy("Exchange"), setBasicParams("PriceOracle", "none")>> \o Collateral

RopstenExchange ==
    DeployLibs \o LinkLibs("Exchange") \o <<Deploy("PriceOracle"), deployed("PriceOracle"),
    deployProxy("Exchange"), setBasicParams("PriceOracle", "none")>> \o Collateral

DevelopmentExchange ==
    LinkLibs("Exchange") \o <<deployed("Orion"), Deploy("PriceOracle"),
    deployProxy("Exchange"), setBasicParams("PriceOracle", "none")>>

(* Slip: the provider is authorised last. *)
MainnetExchangeProviderLast ==
    LinkLibs("Exchange") \o <<Deploy("PriceOracle"), deployed("PriceOracle"), deployProxy("Exchange"),
    setBasicParams("PriceOracle", "none")>> \o Collateral \o <<changePriceProviderAuthorization>>

(* The oracle is told its provider before the exchange is told its oracle. *)
MainnetExchange ==
    LinkLibs("Exchange") \o <<Deploy("PriceOracle"), deployed("PriceOracle"), deployProxy("Exchange"),
    changePriceProviderAuthorization, setBasicParams("PriceOracle", "none")>> \o Collateral

(* A new oracle, which no exchange is told of. *)
UpdatePriceOracle ==
    <<Deploy("PriceOracle"), deployed("PriceOracle"), changePriceProviderAuthorization>>

(* Slip: a new exchange is put in place of an upgrade. *)
UpgradeExchangeByNewProxy ==
    <<Deploy("MarginalFunctionality"), link("MarginalFunctionality", "Exchange"), deployProxy("Exchange")>>

UpgradeExchange ==
    <<Deploy("MarginalFunctionality"), link("MarginalFunctionality", "Exchange"), upgradeProxy("Exchange")>>

FactoryAndLibrary ==
    <<Deploy("OrionPoolFactory"), deployed("OrionPoolFactory"), Deploy("OrionPoolLibrary")>>
RouterFor(weth) ==
    <<link("OrionPoolLibrary", "OrionPoolRouter"), DeployWith("OrionPoolRouter", weth),
      deployed("OrionPoolRouter")>>

(* The exchange with pools of a development chain is given the router. *)
DevelopmentPool ==
    <<deployed("WETH9"), deployed("Orion")>> \o FactoryAndLibrary \o RouterFor("WETH9")
    \o LinkLibs("ExchangeWithOrionPool")
    \o <<deployed("PriceOracle"), deployProxy("ExchangeWithOrionPool"), deployed("USDT"),
         setBasicParams("PriceOracle", "OrionPoolRouter")>> \o Collateral

BscTestnetPool ==
    <<deployed("OrionPoolFactory"), deployed("OrionPoolLibrary")>> \o RouterFor("given")

RopstenPool == FactoryAndLibrary \o RouterFor("malformed")     \* let weth = {address: ''}
BscPool == FactoryAndLibrary \o <<deployed("OrionPoolLibrary")>> \o RouterFor("given")
MainnetPool == FactoryAndLibrary \o <<deployed("OrionPoolLibrary")>> \o RouterFor("given")

RopstenUpgrade == LinkGivenLibs("ExchangeWithOrionPool") \o <<upgradeProxy("ExchangeWithOrionPool")>>

BscTestnetUpgrade ==
    FindLibs \o LinkLibs("ExchangeWithOrionPool") \o <<upgradeProxy("ExchangeWithOrionPool")>>

BscUpgrade ==
    DeployLibs \o FindLibs \o LinkLibs("ExchangeWithOrionPool")
    \o <<upgradeProxy("ExchangeWithOrionPool"), setBasicParams("given", "given")>>

MainnetUpgrade ==
    DeployLibs \o FindLibs \o LinkLibs("ExchangeWithOrionPool")
    \o <<upgradeProxy("ExchangeWithOrionPool"), setBasicParams("given", "given")>>

(* The oracle's address ends with a stray backtick. *)
Bsc2Params ==
    FindLibs \o LinkLibs("ExchangeWithOrionPool")
    \o <<deployed("ExchangeWithOrionPool"), setBasicParams("malformed", "given")>>

KucoinExchange == LinkGivenLibs("ExchangeWithOrionPool") \o <<deployProxy("ExchangeWithOrionPool")>>

(* The script for hardhat puts a new implementation on the chain, and leaves
   its proxy and its parameters for later. *)
DeployDepositless == LinkGivenLibs("ExchangeWithOrionPool") \o <<Deploy("ExchangeImplementation")>>

(* The fixture of the tests: tokens, a pool with its functionality, an
   exchange that was initialised, its collateral and its price provider. *)
deployTokens == <<Deploy("WETH"), Deploy("Orion"), Deploy("USDT"), Deploy("WXRP"), Deploy("WBTC")>>
deployPool ==
    <<Deploy("OrionPoolFactory"), Deploy("OrionPoolLibrary"), Deploy("OrionPoolRouter"),
      Deploy("PoolFunctionality")>>
deployExchange ==
    deployPool \o DeployLibs \o <<Deploy("PriceOracle")>> \o LinkLibs("ExchangeWithOrionPool")
    \o <<deployProxy("ExchangeWithOrionPool"), setBasicParams("PriceOracle", "PoolFunctionality")>> \o Collateral
setCollateralAndPriceOracles ==
    <<updateMarginalSettings, changePriceProviderAuthorization, updateAssetRisks>>
TestFixture == deployTokens \o deployExchange \o setCollateralAndPriceOracles

(* What file f does on network n; a file with no branch for n does nothing. *)
Script(n, f) ==
    CASE f = 1 /\ n \notin {"hardhat", "eth"} -> InitialMigration
      [] f = 1 /\ n = "hardhat" -> TestFixture
      [] f = 1 /\ n = "eth" -> DeployDepositless
      [] f = 2 /\ n = "development" -> DevelopmentTokens
      [] f = 3 /\ n \in {"development", "mainnet"} -> DeployLibs
      [] f = 3 /\ n = "binanceTestnet" -> BinanceTestnetExchange
      [] f = 3 /\ n = "ropsten" -> RopstenExchange
      [] f = 4 /\ n = "development" -> DevelopmentExchange
      [] f = 4 /\ n = "mainnet" -> MainnetExchange
      [] f = 5 /\ n = "mainnet" -> UpdatePriceOracle
      [] f = 6 /\ n \in {"ropsten", "mainnet"} -> UpgradeExchange
      [] f = 7 /\ n = "development" -> DevelopmentPool
      [] f = 7 /\ n = "bsc_testnet" -> BscTestnetPool
      [] f = 7 /\ n = "ropsten" -> RopstenPool
      [] f = 7 /\ n = "bsc" -> BscPool
      [] f = 7 /\ n = "mainnet" -> MainnetPool
      [] f = 8 /\ n \in {"testnet", "ropsten", "mainnet"} -> UpgradeExchange
      [] f = 9 /\ n = "ropsten" -> RopstenUpgrade
      [] f = 9 /\ n = "bsc_testnet" -> BscTestnetUpgrade
      [] f = 9 /\ n = "bsc" -> BscUpgrade
      [] f = 9 /\ n = "mainnet" -> MainnetUpgrade
      [] f = 9 /\ n = "bsc2" -> Bsc2Params
      [] f = 9 /\ n = "mainnet_kucoin" -> KucoinExchange
      [] OTHER -> <<>>

(* Networks the committed configuration of truffle, or of hardhat, knows. *)
TruffleNetworks == {"development", "ropsten", "mainnet", "bsc_testnet", "bsc", "bsc2"}
HardhatNetworks == {"hardhat", "eth"}
LastFile == IF network \in HardhatNetworks THEN 1 ELSE 9

-------------------------------------------------------------------------------
(* The chain and the disk when this repository's files are first run. *)

NoProxy == [code |-> "none", oracle |-> None, router |-> "none", margins |-> FALSE, risks |-> FALSE]
Blank == [deployed |-> {}, links |-> {}, oracle |-> None, exchange |-> [x \in Exchanges |-> None]]

(* Some networks have an exchange from before, whose address is written in
   their files.  The one of the Binance test network ran Exchange (migration 8
   upgrades the same address to it), the one bsc2 configures was upgraded by
   the run for bsc, which has the same chain and the same artifacts.  What runs
   ExchangeWithOrionPool accepted a router once: it is one that has getWETH. *)
Predeployed(n) ==
    {[code |-> x, oracle |-> Given, margins |-> TRUE, risks |-> TRUE,
      router |-> IF x = "Exchange" THEN "none" ELSE "PoolFunctionality"] :
        x \in CASE n = "bsc" -> Exchanges
                [] n = "bsc2" -> {"ExchangeWithOrionPool"}
                [] OTHER -> {"Exchange"}}

Restored(n) ==
    CASE n = "bsc" -> [Blank EXCEPT !.exchange["Exchange"] = 1]
      [] n = "testnet" -> [Blank EXCEPT !.exchange["Exchange"] = 1, !.links = Libs \X {"Exchange"}]
      [] n = "bsc_testnet" -> [Blank EXCEPT !.exchange["Exchange"] = 1,
                                            !.deployed = Libs \cup {"OrionPoolFactory", "OrionPoolLibrary"}]
      [] n = "bsc2" -> [Blank EXCEPT !.exchange["ExchangeWithOrionPool"] = 1, !.deployed = Libs]
      [] OTHER -> Blank

(* The files for these networks hand setBasicParams an address written in
   them, and nothing in the repository says which of its contracts is there:
   the router that file 7 deploys, or the one made for the exchange. *)
RoutersGiven(n) ==
    IF n \in {"bsc", "mainnet", "bsc2"} THEN {"OrionPoolRouter", "PoolFunctionality"} ELSE {"none"}

Init ==
    /\ network \in Networks
    /\ givenRouter \in RoutersGiven(network)
    /\ completed = IF network = "bsc2" THEN 8 ELSE 0
    /\ saved = Restored(network)
    /\ \E p \in IF saved = Blank THEN {NoProxy} ELSE Predeployed(network) :
           proxies = [i \in 1..MaxProxies |-> IF i = 1 THEN p ELSE NoProxy]
    /\ providers = [o \in 1..MaxOracles |-> FALSE]
    /\ mem = saved
    /\ instance = None
    /\ pc = [file |-> 0, step |-> 0]
    /\ crashes = 0

-------------------------------------------------------------------------------
(* One run of a file. *)

Running == pc.file # 0 /\ pc.step <= Len(Script(network, pc.file))
Statement == Script(network, pc.file)[pc.step]

(* The exchange whose address an operator writes into a later file. *)
FixedProxy == saved.exchange["Exchange"]

Linked(c) == \A lib \in Libs : <<lib, c>> \in mem.links

(* The contract a statement hands to setBasicParams as the router. *)
RouterNamed(arg) == IF arg = "given" THEN givenRouter ELSE arg

(* ExchangeWithOrionPool asks it for the address of WETH, with getWETH: of the
   contracts of this repository only PoolFunctionality has that function, and
   with the routers of the pools the call reverts. *)
KnowsWETH(router) == router = "PoolFunctionality"

(* What a statement needs so as not to throw. *)
Possible(s) ==
    /\ "malformed" \notin {s.c, s.arg}
    /\ s.op = "deployed" =>
           IF s.c \in Exchanges THEN mem.exchange[s.c] # None ELSE s.c \in mem.deployed
    /\ s.op = "link" => s.arg \in mem.deployed
    /\ s.op \in {"deployProxy", "upgradeProxy"} => Linked(s.c)
    /\ s.op = "upgradeProxy" => FixedProxy # None
    /\ s.op = "setBasicParams" /\ proxies[instance].code = "ExchangeWithOrionPool" => KnowsWETH(RouterNamed(s.arg))

Runs(op) ==
    /\ Running
    /\ Statement.op = op
    /\ Possible(Statement)
    /\ pc' = [pc EXCEPT !.step = @ + 1]

chainVars == <<proxies, providers>>
diskVars == <<network, givenRouter, completed, saved, crashes>>

(* An oracle, or an exchange, that no one has the address of is forgotten. *)
FreshOracle ==
    CHOOSE o \in 1..MaxOracles :
        o \notin {mem.oracle, saved.oracle} \cup {proxies[i].oracle : i \in 1..MaxProxies}
FreshProxy ==
    CHOOSE i \in 1..MaxProxies :
        \A x \in Exchanges : i \notin {mem.exchange[x], saved.exchange[x]}

DeployContract ==
    /\ Runs("deploy")
    /\ mem' = [mem EXCEPT !.deployed = @ \cup {Statement.c},
                          !.oracle = IF Statement.c = "PriceOracle" THEN FreshOracle ELSE @]
    /\ providers' = IF Statement.c = "PriceOracle"
                    THEN [providers EXCEPT ![FreshOracle] = FALSE] ELSE providers
    /\ UNCHANGED <<proxies, instance, diskVars>>

FindContract ==
    /\ Runs("deployed")
    /\ instance' = IF Statement.c \in Exchanges THEN mem.exchange[Statement.c] ELSE instance
    /\ UNCHANGED <<mem, chainVars, diskVars>>

LinkLibrary ==
    /\ Runs("link") \/ Runs("linkGiven")
    /\ mem' = [mem EXCEPT !.links = @ \cup {<<Statement.arg, Statement.c>>}]
    /\ UNCHANGED <<instance, chainVars, diskVars>>

(* Slip: the new address is on disk at once, not when the file ends. *)
DeployProxySaved ==
    /\ Runs("deployProxy")
    /\ proxies' = [proxies EXCEPT ![FreshProxy] = [NoProxy EXCEPT !.code = Statement.c]]
    /\ instance' = FreshProxy
    /\ mem' = [mem EXCEPT !.exchange[Statement.c] = FreshProxy]
    /\ saved' = [saved EXCEPT !.exchange[Statement.c] = FreshProxy]
    /\ UNCHANGED <<providers, network, givenRouter, completed, crashes>>

DeployProxy ==
    /\ Runs("deployProxy")
    /\ proxies' = [proxies EXCEPT ![FreshProxy] = [NoProxy EXCEPT !.code = Statement.c]]
    /\ instance' = FreshProxy
    /\ mem' = [mem EXCEPT !.exchange[Statement.c] = FreshProxy]
    /\ UNCHANGED <<providers, diskVars>>

UpgradeProxy ==
    /\ Runs("upgradeProxy")
    /\ proxies' = [proxies EXCEPT ![FixedProxy].code = Statement.c]
    /\ instance' = FixedProxy
    /\ mem' = [mem EXCEPT !.exchange[Statement.c] = FixedProxy]
    /\ UNCHANGED <<providers, diskVars>>

SetBasicParams ==
    /\ Runs("setBasicParams")
    /\ proxies' = [proxies EXCEPT
           ![instance].oracle = IF Statement.c = "PriceOracle" THEN mem.oracle ELSE Given,
           ![instance].router = RouterNamed(Statement.arg)]
    /\ UNCHANGED <<mem, instance, providers, diskVars>>

UpdateMarginalSettings ==
    /\ Runs("updateMarginalSettings")
    /\ proxies' = [proxies EXCEPT ![instance].margins = TRUE]
    /\ UNCHANGED <<mem, instance, providers, diskVars>>

UpdateAssetRisks ==
    /\ Runs("updateAssetRisks")
    /\ proxies' = [proxies EXCEPT ![instance].risks = TRUE]
    /\ UNCHANGED <<mem, instance, providers, diskVars>>

ChangePriceProviderAuthorization ==
    /\ Runs("authorise")
    /\ providers' = [providers EXCEPT ![mem.oracle] = TRUE]
    /\ UNCHANGED <<mem, instance, proxies, diskVars>>

-------------------------------------------------------------------------------
(* truffle: which file runs next, how one ends, and how one does not. *)

Idle == pc.file = 0

(* `truffle migrate' takes the files after the last one completed, in order;
   `--f n --to n' takes file n again. *)
Start(f) ==
    /\ Idle
    /\ f = completed + 1 \/ (f \in Reruns /\ f <= completed)
    /\ f <= LastFile
    /\ network \in TruffleNetworks \cup HardhatNetworks \cup AddedNetworks
    /\ pc' = [file |-> f, step |-> 1]
    /\ mem' = saved
    /\ instance' = None
    /\ UNCHANGED <<chainVars, diskVars>>

(* Slip: the artifacts are kept and the file is not recorded. *)
FinishUnrecorded ==
    /\ pc.file # 0
    /\ ~Running
    /\ saved' = mem
    /\ pc' = [file |-> 0, step |-> 0]
    /\ UNCHANGED <<network, givenRouter, completed, mem, instance, chainVars, crashes>>

(* Slip: the file after it is recorded too. *)
FinishNext ==
    /\ pc.file # 0
    /\ ~Running
    /\ completed' = pc.file + 1
    /\ saved' = mem
    /\ pc' = [file |-> 0, step |-> 0]
    /\ UNCHANGED <<network, givenRouter, mem, instance, chainVars, crashes>>

(* The file is recorded on the chain and its artifacts on disk. *)
Finish ==
    /\ pc.file # 0
    /\ ~Running
    /\ completed' = pc.file
    /\ saved' = mem
    /\ pc' = [file |-> 0, step |-> 0]
    /\ UNCHANGED <<network, givenRouter, mem, instance, chainVars, crashes>>

(* A statement throws: truffle stops, and nothing is recorded. *)
Abort ==
    /\ Running
    /\ ~Possible(Statement)
    /\ pc' = [file |-> 0, step |-> 0]
    /\ UNCHANGED <<mem, instance, chainVars, diskVars>>

(* The process dies, loses its node or gives up waiting for a transaction. *)
Crash ==
    /\ ~Idle
    /\ crashes < MaxCrashes
    /\ crashes' = crashes + 1
    /\ pc' = [file |-> 0, step |-> 0]
    /\ UNCHANGED <<network, givenRouter, completed, saved, mem, instance, chainVars>>

Migrate == \E f \in 1..9 : Start(f)

RunStatement ==
    \/ DeployContract
    \/ FindContract
    \/ LinkLibrary
    \/ DeployProxy
    \/ UpgradeProxy
    \/ SetBasicParams
    \/ UpdateMarginalSettings
    \/ UpdateAssetRisks
    \/ ChangePriceProviderAuthorization

Next == Migrate \/ RunStatement \/ Finish \/ Abort \/ Crash

DeploymentSpec == Init /\ [][Next]_vars

(* An operator who is left with files to run runs them, and a process that
   was not killed gets to its next statement. *)
Fairness == WF_vars(Migrate) /\ WF_vars(RunStatement \/ Finish \/ Abort)

FairDeploymentSpec == DeploymentSpec /\ Fairness
===============================================================================
