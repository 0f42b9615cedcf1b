----------------------------- MODULE MCPriceOracle -----------------------------
(***************************************************************************)
(* A small instance of PriceOracle and what it promises.                   *)
(***************************************************************************)
EXTENDS PriceOracleProperties

CONSTANTS provider, ornAggregator, tknAggregator, TKN

Answers == {-1, 0, 1, 2}
OneFeed == {[a \in {ETH, TKN} |-> 1]}
TokenLists == {{TKN}, {ETH, baseAsset}}
AllAggregators ==
    {[a \in {baseAsset, TKN} |-> IF a = TKN THEN tknAggregator ELSE ornAggregator],
     [a \in {TKN} |-> NoAggregator]}
Authorize == {<<{provider}, {}>>, <<{}, {provider}>>}
================================================================================
