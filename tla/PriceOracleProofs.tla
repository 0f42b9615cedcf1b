--------------------------- MODULE PriceOracleProofs ---------------------------
(***************************************************************************)
(* The oracle contract is the oracle that the exchange relies on, for all  *)
(* assets, providers, aggregators and answers.                             *)
(***************************************************************************)
EXTENDS PriceOracleProperties, TLAPS

LEMMA ProviderStep ==
    ASSUME PriceOracleTypeOK, NEW feed \in Feeds, NEW t \in Nat, ProvideData(feed, t)
    PROVE  /\ assetPrices' \in [Assets -> PriceDataOut]
           /\ PricesMove
<1>1. assetPrices \in [Assets -> PriceDataOut] /\ now \in Nat
  BY DEF PriceOracleTypeOK, OracleTypeOK
<1>2. \A a \in DOMAIN feed : feed[a] \in Nat
  BY TimeAssumption DEF TimeAssumption
<1>3. assetPrices' = StoreFeed(feed, t) /\ t < now + FutureSlack /\ UNCHANGED now
  BY DEF ProvideData
<1>4. assetPrices' \in [Assets -> PriceDataOut]
  BY <1>1, <1>2, <1>3 DEF StoreFeed, PriceDataOut
<1>5. PricesMove
  <2>. SUFFICES ASSUME NEW a \in Assets, assetPrices'[a] # assetPrices[a]
                PROVE  /\ assetPrices'[a].timestamp > assetPrices[a].timestamp
                       /\ assetPrices'[a].timestamp < now + FutureSlack
    BY <1>3 DEF PricesMove
  <2>1. /\ assetPrices[a].timestamp < t
        /\ assetPrices'[a] = [price |-> feed[a], timestamp |-> t]
    BY <1>3 DEF StoreFeed
  <2>. QED BY <1>1, <1>3, <2>1 DEF PriceDataOut
<1>. QED BY <1>4, <1>5

(* The time of the latest round of the base asset is in the past, so that what
   a ChainLink call stamps is never ahead of the block. *)
LEMMA ChainLinkStep ==
    ASSUME PriceOracleTypeOK, NEW assets \in SUBSET Assets, getChainLinkPriceData(assets)
    PROVE  /\ assetPrices' \in [Assets -> PriceDataOut]
           /\ PricesMove
<1>1. /\ assetPrices \in [Assets -> PriceDataOut] /\ now \in Nat
      /\ \A a \in Assets : HasAggregator(a) =>
            RoundOf(a).answer \in Int /\ RoundOf(a).updatedAt \in 0 .. now
  BY OracleAssumption
     DEF OracleAssumption, PriceOracleTypeOK, OracleTypeOK, HasAggregator, RoundOf
<1>2. /\ HasAggregator(baseAsset) /\ RoundOf(baseAsset).answer \in Nat
      /\ \A a \in assets : HasAggregator(a) => RoundOf(a).answer \in Nat
      /\ EthIsWritten \/ WrittenAssets(assets) # {} => RoundOf(baseAsset).answer # 0
      /\ UNCHANGED now
  BY <1>1, OracleAssumption DEF OracleAssumption, getChainLinkPriceData, AnswersAreValid
<1>3. BaseTimestamp \in 0 .. now
  BY <1>1, <1>2, OracleAssumption DEF OracleAssumption, BaseTimestamp
<1>4. \A a \in WrittenAssets(assets) : AssetTimestamp(a) \in 0 .. now
  <2>. SUFFICES ASSUME NEW a \in WrittenAssets(assets) PROVE AssetTimestamp(a) \in 0 .. now
    OBVIOUS
  <2>1. a \in Assets /\ HasAggregator(a)
    BY DEF WrittenAssets
  <2>2. RoundOf(a).updatedAt \in 0 .. now
    BY <1>1, <2>1
  <2>. QED BY <1>1, <1>3, <2>2 DEF AssetTimestamp
<1>5. EthIsWritten => EthPrice \in Nat
  <2>1. AggregatorUnit * Unit \in Nat
    BY OracleAssumption DEF OracleAssumption
  <2>. QED BY <1>2, <2>1 DEF EthPrice
<1>6. \A a \in WrittenAssets(assets) : AssetPrice(a) \in Nat
  <2>. SUFFICES ASSUME NEW a \in WrittenAssets(assets) PROVE AssetPrice(a) \in Nat
    OBVIOUS
  <2>1. RoundOf(a).answer \in Nat /\ RoundOf(baseAsset).answer \in Nat \ {0}
    BY <1>2 DEF WrittenAssets
  <2>2. RoundOf(a).answer * Unit \in Nat
    BY <2>1, OracleAssumption DEF OracleAssumption
  <2>. QED BY <2>1, <2>2 DEF AssetPrice
<1>7. ETH \notin WrittenAssets(assets)
  BY DEF WrittenAssets
<1>8. /\ assetPrices' \in [Assets -> PriceDataOut]
      /\ \A a \in Assets : assetPrices'[a] # assetPrices[a] =>
            /\ assetPrices'[a].timestamp > assetPrices[a].timestamp
            /\ assetPrices'[a].timestamp \in 0 .. now
  <2>. DEFINE new(a) == CASE a = ETH /\ EthIsWritten ->
                                 [price |-> EthPrice, timestamp |-> BaseTimestamp]
                          [] a \in WrittenAssets(assets) ->
                                 [price |-> AssetPrice(a), timestamp |-> AssetTimestamp(a)]
                          [] OTHER -> assetPrices[a]
  <2>1. assetPrices' = [a \in Assets |-> new(a)]
    BY DEF getChainLinkPriceData
  <2>2. ASSUME NEW a \in Assets
        PROVE  /\ new(a) \in PriceDataOut
               /\ new(a) # assetPrices[a] =>
                     new(a).timestamp > assetPrices[a].timestamp /\ new(a).timestamp \in 0 .. now
    <3>0. assetPrices[a] \in PriceDataOut
      BY <1>1
    <3>1. CASE a = ETH /\ EthIsWritten
      <4>1. new(a) = [price |-> EthPrice, timestamp |-> BaseTimestamp]
        BY <1>7, <3>1
      <4>2. assetPrices[a].timestamp < BaseTimestamp
        BY <3>1 DEF EthIsWritten
      <4>. HIDE DEF new
      <4>. QED BY <1>1, <1>3, <1>5, <3>0, <3>1, <4>1, <4>2 DEF PriceDataOut
    <3>2. CASE a \in WrittenAssets(assets)
      <4>1. new(a) = [price |-> AssetPrice(a), timestamp |-> AssetTimestamp(a)]
        BY <1>7, <3>2
      <4>2. assetPrices[a].timestamp < AssetTimestamp(a)
        BY <3>2 DEF WrittenAssets
      <4>3. AssetPrice(a) \in Nat /\ AssetTimestamp(a) \in 0 .. now
        BY <1>4, <1>6, <3>2
      <4>. HIDE DEF new
      <4>. QED BY <1>1, <3>0, <4>1, <4>2, <4>3 DEF PriceDataOut
    <3>3. CASE ~ (a = ETH /\ EthIsWritten) /\ a \notin WrittenAssets(assets)
      <4>1. new(a) = assetPrices[a]
        BY <3>3
      <4>. QED BY <3>0, <4>1
    <3>. QED BY <3>1, <3>2, <3>3
  <2>. HIDE DEF new
  <2>. QED BY <2>1, <2>2
<1>. QED BY <1>1, <1>2, <1>8, TimeAssumption, OracleAssumption
         DEF PricesMove, TimeAssumption, OracleAssumption, PriceDataOut

LEMMA OracleInitStep == PriceOracleInit => PriceOracleTypeOK /\ OracleInit
BY TimeAssumption
   DEF PriceOracleInit, PriceOracleTypeOK, OracleInit, OracleTypeOK, PriceDataOut, TimeAssumption

(* Every step keeps the types and is a step, or a stutter, of the interface. *)
LEMMA OracleNextStep ==
    ASSUME PriceOracleTypeOK, [PriceOracleNext]_priceOracleVars
    PROVE  PriceOracleTypeOK' /\ [Tick \/ PricesMove]_oracleVars
<1>. USE DEF PriceOracleTypeOK, OracleTypeOK
<1>1. ASSUME NEW sender \in Senders, NEW feed \in ProvidedFeeds, NEW t \in FeedTimes,
             provideDataAddressAuthorization(sender, feed, t)
      PROVE  PriceOracleTypeOK' /\ PricesMove
  <2>1. feed \in Feeds /\ t \in Nat
    BY OracleAssumption DEF OracleAssumption
  <2>. QED BY <1>1, <2>1, ProviderStep DEF provideDataAddressAuthorization, ProvideData
<1>2. ASSUME NEW assets \in AssetLists, getChainLinkPriceData(assets)
      PROVE  PriceOracleTypeOK' /\ PricesMove
  <2>1. assets \in SUBSET Assets
    BY OracleAssumption DEF OracleAssumption
  <2>. QED BY <1>2, <2>1, ChainLinkStep DEF getChainLinkPriceData
<1>3. ASSUME NEW list \in AggregatorLists, setChainLinkAggregators(list)
      PROVE  PriceOracleTypeOK' /\ UNCHANGED oracleVars
  BY <1>3, OracleAssumption DEF OracleAssumption, setChainLinkAggregators, oracleVars
<1>4. ASSUME NEW change \in AuthorizationChanges,
             changePriceProviderAuthorization(change[1], change[2])
      PROVE  PriceOracleTypeOK' /\ UNCHANGED oracleVars
  BY <1>4, OracleAssumption
     DEF OracleAssumption, changePriceProviderAuthorization, oracleVars
<1>5. ASSUME NEW aggregator \in Aggregators, NEW answer \in RoundPrices,
             AnswerUpdated(aggregator, answer)
      PROVE  PriceOracleTypeOK' /\ UNCHANGED oracleVars
  BY <1>5 DEF AnswerUpdated, oracleVars
<1>6. CASE NewBlock
  <2>1. now' = now + 1 /\ Tick
        /\ UNCHANGED <<assetPrices, chainLinkETHAggregator, priceProviderAuthorization,
                       latestRound>>
    BY <1>6 DEF NewBlock, Tick
  <2>2. \A n \in 0 .. now : n \in 0 .. now'
    BY <2>1
  <2>. QED BY <2>1, <2>2
<1>7. CASE UNCHANGED priceOracleVars
  BY <1>7 DEF priceOracleVars, oracleVars
<1>. QED BY <1>1, <1>2, <1>3, <1>4, <1>5, <1>6, <1>7 DEF PriceOracleNext

(* The types of the oracle, with every round in the past. *)
THEOREM OracleTypeCorrect == PriceOracleSpec => []PriceOracleTypeOK
<1>. QED BY OracleInitStep, OracleNextStep, PTL DEF PriceOracleSpec

(* The oracle contract implements the interface that the exchange is specified
   against: a stored price is only replaced by one stamped later, and never one
   stamped FutureSlack ahead. *)
THEOREM OracleImplementsInterface == PriceOracleSpec => ImplementsInterface
<1>. QED BY OracleInitStep, OracleNextStep, OracleTypeCorrect, PTL
         DEF PriceOracleSpec, ImplementsInterface, OracleSpec

(* What a ChainLink call writes is stamped with the time of the base price at
   the latest. *)
LEMMA BaseStampsAll ==
    ASSUME PriceOracleTypeOK, NEW assets \in SUBSET Assets, getChainLinkPriceData(assets),
           NEW a \in Assets, assetPrices'[a] # assetPrices[a]
    PROVE  assetPrices'[a].timestamp <= BaseTimestamp
<1>1. BaseTimestamp \in Int
  <2>1. HasAggregator(baseAsset)
    BY DEF getChainLinkPriceData
  <2>2. RoundOf(baseAsset).updatedAt \in Int /\ now \in Int
    BY <2>1, OracleAssumption
       DEF OracleAssumption, PriceOracleTypeOK, OracleTypeOK, HasAggregator, RoundOf
  <2>. QED BY <2>2 DEF BaseTimestamp
<1>2. CASE a = ETH
  <2>1. ETH \notin WrittenAssets(assets)
    BY DEF WrittenAssets
  <2>2. assetPrices'[a] = [price |-> EthPrice, timestamp |-> BaseTimestamp]
    BY <1>2, <2>1 DEF getChainLinkPriceData
  <2>. QED BY <1>1, <2>2
<1>3. CASE a # ETH
  <2>1. /\ a \in WrittenAssets(assets)
        /\ assetPrices'[a] = [price |-> AssetPrice(a), timestamp |-> AssetTimestamp(a)]
    BY <1>3 DEF getChainLinkPriceData
  <2>2. HasAggregator(a)
    BY <2>1 DEF WrittenAssets
  <2>3. RoundOf(a).updatedAt \in Int /\ now \in Int
    BY <2>2, OracleAssumption
       DEF OracleAssumption, PriceOracleTypeOK, OracleTypeOK, HasAggregator, RoundOf
  <2>4. AssetTimestamp(a) <= BaseTimestamp
    BY <1>1, <2>3 DEF AssetTimestamp
  <2>. QED BY <2>1, <2>4
<1>. QED BY <1>2, <1>3

(* No ChainLink call makes a price look fresher than the price of ORN that it
   was computed from. *)
THEOREM PricesNoFresherThanBase == PriceOracleSpec => NoFresherThanBase
<1>1. PriceOracleTypeOK =>
        [\A assets \in AssetLists :
            getChainLinkPriceData(assets) =>
               \A a \in Assets : assetPrices'[a] # assetPrices[a] =>
                  assetPrices'[a].timestamp <=
                     IF now - RoundOf(baseAsset).updatedAt < Day
                     THEN now ELSE RoundOf(baseAsset).updatedAt]_priceOracleVars
  <2>1. AssetLists \subseteq SUBSET Assets
    BY OracleAssumption DEF OracleAssumption
  <2>. QED BY <2>1, BaseStampsAll DEF BaseTimestamp, Fresh
<1>. QED BY <1>1, OracleTypeCorrect, PTL DEF NoFresherThanBase
===============================================================================
