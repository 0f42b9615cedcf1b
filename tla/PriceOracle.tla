------------------------------ MODULE PriceOracle ------------------------------
(***************************************************************************)
(* The oracle contract: prices come from authorised providers and from     *)
(* ChainLink aggregators, which are external and modelled by their latest  *)
(* round.  A list of assets is modelled by a set or a map: the order of a  *)
(* list and its repetitions make no difference, because a second write     *)
(* with the same timestamp is ignored.                                     *)
(***************************************************************************)
EXTENDS PriceOracleInterface

CONSTANTS
    baseAsset,        \* ORN, whose aggregator gives the price of all others
    ETH,              \* address(0)
    Unit,             \* 10^8 in the code
    AggregatorUnit,   \* 10^decimals of the base aggregator
    Uint64Max,
    Day,              \* 24 hours: the age at which a round is outdated
    Senders, Aggregators, NoAggregator,
    RoundPrices,      \* the answers an aggregator may give, negative ones too
    ProvidedFeeds, FeedTimes, AssetLists, AggregatorLists, AuthorizationChanges

ASSUME OracleAssumption ==
    /\ ETH \in Assets /\ baseAsset \in Assets \ {ETH}
    /\ Unit \in Nat \ {0} /\ AggregatorUnit \in Nat \ {0}
    /\ Uint64Max \in Nat
    /\ Day \in Nat /\ FutureSlack > 0
    /\ NoAggregator \notin Aggregators
    /\ RoundPrices \subseteq Int
    /\ ProvidedFeeds \subseteq Feeds /\ FeedTimes \subseteq Nat
    /\ AssetLists \subseteq SUBSET Assets
    /\ \A list \in AggregatorLists :
          /\ DOMAIN list \subseteq Assets
          /\ \A a \in DOMAIN list : list[a] \in Aggregators \cup {NoAggregator}
    /\ AuthorizationChanges \subseteq (SUBSET Senders) \X (SUBSET Senders)

VARIABLES
    chainLinkETHAggregator,     \* asset -> aggregator, or NoAggregator
    priceProviderAuthorization, \* the senders that may provide prices
    latestRound                 \* aggregator -> answer and time (external)

priceOracleVars ==
    <<assetPrices, now, chainLinkETHAggregator, priceProviderAuthorization, latestRound>>

PriceOracleTypeOK ==
    /\ OracleTypeOK
    /\ chainLinkETHAggregator \in [Assets -> Aggregators \cup {NoAggregator}]
    /\ priceProviderAuthorization \in SUBSET Senders
    /\ latestRound \in [Aggregators -> [answer : RoundPrices, updatedAt : 0 .. now]]

PriceOracleInit ==
    /\ OracleInit
    /\ chainLinkETHAggregator = [a \in Assets |-> NoAggregator]
    /\ priceProviderAuthorization = {}
    /\ latestRound \in [Aggregators -> [answer : RoundPrices, updatedAt : {0}]]

-------------------------------------------------------------------------------
(* Slip: anybody may provide prices stamped at any time. *)
provideDataUnstamped(sender, feed, t) ==
    /\ assetPrices' = StoreFeed(feed, t)
    /\ UNCHANGED <<now, chainLinkETHAggregator, priceProviderAuthorization, latestRound>>

provideDataAddressAuthorization(sender, feed, t) ==
    /\ sender \in priceProviderAuthorization
    /\ ProvideData(feed, t)
    /\ UNCHANGED <<chainLinkETHAggregator, priceProviderAuthorization, latestRound>>

-------------------------------------------------------------------------------
(* The aggregator of an asset, and the latest round of it. *)
HasAggregator(asset) == chainLinkETHAggregator[asset] # NoAggregator

RoundOf(asset) == latestRound[chainLinkETHAggregator[asset]]

Fresh(round) == now - round.updatedAt < Day

BaseTimestamp == IF Fresh(RoundOf(baseAsset)) THEN now ELSE RoundOf(baseAsset).updatedAt

(* Slip: the age of the base price is not taken into account. *)
AssetTimestampOfItsRound(asset) ==
    IF Fresh(RoundOf(asset)) THEN now ELSE RoundOf(asset).updatedAt

(* The age that is looked at is the one of the base price, now when fresh. *)
AssetTimestamp(asset) ==
    LET aTimestamp == IF now - BaseTimestamp < Day THEN now ELSE RoundOf(asset).updatedAt
    IN IF BaseTimestamp > aTimestamp THEN aTimestamp ELSE BaseTimestamp

(* Prices of tokens are in ETH; the price of ETH is the inverse of ORN's. *)
EthPrice == (AggregatorUnit * Unit) \div RoundOf(baseAsset).answer

AssetPrice(asset) == (RoundOf(asset).answer * Unit) \div RoundOf(baseAsset).answer

(* What one call writes: nothing where the stored price is as recent. *)
EthIsWritten == assetPrices[ETH].timestamp < BaseTimestamp

WrittenAssets(assets) ==
    {a \in assets \ {ETH} :
        HasAggregator(a) /\ assetPrices[a].timestamp < AssetTimestamp(a)}

(* Slip: only the answer for the base asset is checked. *)
BaseAnswerIsValid(assets) == RoundOf(baseAsset).answer >= 0

AnswersAreValid(assets) ==
    \A a \in assets \cup {baseAsset} : HasAggregator(a) => RoundOf(a).answer >= 0

getChainLinkPriceData(assets) ==
    /\ HasAggregator(baseAsset)     \* else the call returns at once
    /\ AnswersAreValid(assets)
    /\ EthIsWritten \/ WrittenAssets(assets) # {} => RoundOf(baseAsset).answer # 0
    /\ EthIsWritten => EthPrice < Uint64Max
    /\ \A a \in WrittenAssets(assets) : AssetPrice(a) < Uint64Max
    /\ assetPrices' =
          [a \in Assets |->
              CASE a = ETH /\ EthIsWritten ->
                       [price |-> EthPrice, timestamp |-> BaseTimestamp]
                [] a \in WrittenAssets(assets) ->
                       [price |-> AssetPrice(a), timestamp |-> AssetTimestamp(a)]
                [] OTHER -> assetPrices[a]]
    /\ UNCHANGED <<now, chainLinkETHAggregator, priceProviderAuthorization, latestRound>>

-------------------------------------------------------------------------------
(* Operations of the owner. *)

setChainLinkAggregators(list) ==
    /\ chainLinkETHAggregator' =
          [a \in Assets |-> IF a \in DOMAIN list THEN list[a] ELSE chainLinkETHAggregator[a]]
    /\ UNCHANGED <<assetPrices, now, priceProviderAuthorization, latestRound>>

changePriceProviderAuthorization(added, removed) ==
    /\ priceProviderAuthorization' = (priceProviderAuthorization \cup added) \ removed
    /\ UNCHANGED <<assetPrices, now, chainLinkETHAggregator, latestRound>>

(* The aggregators' network answers a new round. *)
AnswerUpdated(aggregator, answer) ==
    /\ latestRound' = [latestRound EXCEPT ![aggregator] = [answer |-> answer, updatedAt |-> now]]
    /\ UNCHANGED <<assetPrices, now, chainLinkETHAggregator, priceProviderAuthorization>>

NewBlock ==
    /\ Tick
    /\ UNCHANGED <<chainLinkETHAggregator, priceProviderAuthorization, latestRound>>

PriceOracleNext ==
    \/ \E sender \in Senders, feed \in ProvidedFeeds, t \in FeedTimes :
          provideDataAddressAuthorization(sender, feed, t)
    \/ \E assets \in AssetLists : getChainLinkPriceData(assets)
    \/ \E list \in AggregatorLists : setChainLinkAggregators(list)
    \/ \E change \in AuthorizationChanges :
          changePriceProviderAuthorization(change[1], change[2])
    \/ \E aggregator \in Aggregators, answer \in RoundPrices :
          AnswerUpdated(aggregator, answer)
    \/ NewBlock

PriceOracleSpec == PriceOracleInit /\ [][PriceOracleNext]_priceOracleVars
================================================================================
