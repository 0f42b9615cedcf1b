-------------------------------- MODULE MCPool --------------------------------
(***************************************************************************)
(* Small instances of the exchange with the pool for TLC.                  *)
(***************************************************************************)
EXTENDS ExchangeWithOrionPoolProperties, MCExchange

PairReserves(tkn, orn, ornForEth, eth) ==
    [pool \in {{TKN, ORN}, {ORN, ETH}} |-> [a \in Assets |->
        IF TKN \in pool THEN CASE a = TKN -> tkn [] a = ORN -> orn [] OTHER -> 0
        ELSE CASE a = ORN -> ornForEth [] a = ETH -> eth [] OTHER -> 0]]

FillReserves == PairReserves(8, 16, 12, 12)
PoorReserves == PairReserves(8, 8, 12, 12)   \* TKN has become cheap
Direct == <<TKN, ORN>>
TwoHops == <<ETH, ORN, TKN>>
FillMarket == {PoorReserves}
FillPaths == {Direct}
SwapPaths == {Direct, <<ETH, ORN>>, TwoHops}

(* Orders filled by the pool: alice sells TKN for ORN, from her balance (on
   credit beyond it) or from her wallet, with the fee taken from the output or
   from her TKN.  She did not sign the third order. *)
RefillWallet ==
    [u \in Users |-> [a \in Assets |-> IF u = alice /\ a # ETH THEN 4 ELSE 0]]
PoolFillDeposits ==
    [NoAmounts EXCEPT ![alice] = [a \in Assets |-> IF a = ETH THEN {} ELSE {1}]]
PoolFillSigned ==
    {Order(11, alice, kSell, TKN, ORN, ORN, 2, 2, 2),
     Order(12, alice, kSell, TKN, ORN, TKN, 2, 2, 1)}
PoolFillOrders == PoolFillSigned \cup {Order(13, alice, kSell, TKN, ORN, ORN, 2, 1, 0)}
OneFeed == {[a \in {TKN, ORN} |-> 2]}

(* Swaps of users: from a balance (on credit beyond it), from a wallet, with
   ether sent for it, and with ether sent that is not enough for it; an order
   of alice, who buys TKN with ether along two pairs; and the trades of her TKN
   for bob's ether, without the pool. *)
EtherOrder == {Order(5, alice, kBuy, TKN, ETH, ORN, 1, 10, 0)}
PoolSwapRequests ==
    {[value |-> 0, spend |-> 2, receive |-> 2, path |-> Direct, exact |-> TRUE],
     [value |-> 0, spend |-> 3, receive |-> 3, path |-> Direct, exact |-> FALSE],
     [value |-> 5, spend |-> 4, receive |-> 2, path |-> <<ETH, ORN>>, exact |-> FALSE],
     [value |-> 1, spend |-> 4, receive |-> 1, path |-> <<ETH, ORN>>, exact |-> TRUE]}
PoolOrders == PoolFillOrders \cup EtherOrder \cup WalletOrders
PoolSigned == PoolFillSigned \cup EtherOrder \cup WalletSigned
PoolWallet ==
    [u \in Users |-> [a \in Assets |->
        CASE u = alice -> (IF a = ETH THEN 5 ELSE 2)
          [] u = bob /\ a = ETH -> 2
          [] OTHER -> 0]]

(* Dust: TKN has fewer decimals than the exchange, ETH more. *)
DustReserves == PairReserves(8, 16, 12, 36)
DustMarket == {}
DustRequests ==
    {[value |-> 0, spend |-> 2, receive |-> 1, path |-> Direct, exact |-> TRUE],
     [value |-> 0, spend |-> 4, receive |-> 3, path |-> Direct, exact |-> FALSE],
     [value |-> 5, spend |-> 3, receive |-> 1, path |-> <<ETH, ORN>>, exact |-> FALSE],
     [value |-> 0, spend |-> 2, receive |-> 2, path |-> <<ORN, ETH>>, exact |-> TRUE]}
DustPaths == {Direct, <<ETH, ORN>>, <<ORN, ETH>>, TwoHops}
DustOrders == RoundingOrders \cup EtherOrder
DustWallet ==
    [u \in Users |-> [a \in Assets |->
        CASE u = alice -> (CASE a = TKN -> 3 [] a = ORN -> 1 [] OTHER -> 10)
          [] u = bob /\ a = ETH -> 7
          [] OTHER -> 0]]
DustDeposits ==
    [NoAmounts EXCEPT ![alice][TKN] = {1}, ![bob][ETH] = {2, 5}]
DustWithdrawals == [NoAmounts EXCEPT ![bob][TKN] = {1}, ![alice][ETH] = {2}]
===============================================================================
