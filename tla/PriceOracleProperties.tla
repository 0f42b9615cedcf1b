------------------------- MODULE PriceOracleProperties -------------------------
(***************************************************************************)
(* What the oracle contract promises.                                      *)
(***************************************************************************)
EXTENDS PriceOracle

(* Whatever providers, aggregators and the owner do, in any order, the oracle
   is the one the exchange relies on: no late feed or round replaces a newer
   price, and no price is stamped too far ahead. *)
ImplementsInterface == OracleSpec

(* A ChainLink call never makes a price look fresher than the base price it was
   computed from: it is stamped now only while the round of ORN is less than a
   day old, and with the time of that round at the latest otherwise. *)
NoFresherThanBase ==
    [][\A assets \in AssetLists :
          getChainLinkPriceData(assets) =>
             \A a \in Assets : assetPrices'[a] # assetPrices[a] =>
                assetPrices'[a].timestamp <=
                   IF now - RoundOf(baseAsset).updatedAt < Day
                   THEN now ELSE RoundOf(baseAsset).updatedAt]_priceOracleVars

(* The same of the asset's own round (PriceOracle.sol:173: "if provided price is
   older than 24h - Chainlink aggregator doesn't work and in this case we will
   not set outdated price as fresh"). *)
NoFresherThanRound ==
    [][\A assets \in AssetLists :
          getChainLinkPriceData(assets) =>
             \A a \in assets \ {ETH} : assetPrices'[a] # assetPrices[a] =>
                \/ now - RoundOf(a).updatedAt < Day
                \/ assetPrices'[a].timestamp <= RoundOf(a).updatedAt]_priceOracleVars
================================================================================
