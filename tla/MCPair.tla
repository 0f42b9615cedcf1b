-------------------------------- MODULE MCPair --------------------------------
(* Small instances of a pair for TLC. *)
EXTENDS OrionPoolV2PairProperties

CONSTANTS alice, carol

(* alice provides liquidity, enough for a fee to be minted on the growth of it;
   carol trades, and may receive the fee. *)
ProviderHoldings ==
    [a \in Accounts |-> [t \in Tokens |->
        CASE a = alice -> 10
          [] a = carol /\ t = token0 -> 5
          [] OTHER -> 0]]
===============================================================================
