------------------------------ MODULE MCExchange ------------------------------
(***************************************************************************)
(* Small instances of Exchange for TLC.  The constants of a run are given  *)
(* by its configuration, from the definitions below.                       *)
(***************************************************************************)
EXTENDS StakeRelease

CONSTANTS alice, bob, matcher, TKN

Order(nonce, user, side, base, quote, feeAsset, amount, price, fee) ==
    [senderAddress |-> user, matcherAddress |-> matcher, baseAsset |-> base,
     quoteAsset |-> quote, matcherFeeAsset |-> feeAsset, amount |-> amount,
     price |-> price, matcherFee |-> fee, nonce |-> nonce, expiration |-> 12999,
     buySide |-> side]

(* Tokens with as many decimals as the exchange keeps. *)
ExactUnits == [a \in Assets |-> Unit]

(* Inputs, wallets and allowances, user by user. *)
NoAmounts == [u \in Users |-> [a \in Assets |-> {}]]
NoStakes == [u \in Users |-> {}]
AllApproved == [u \in Users |-> [a \in Assets |-> 9]]

NoFeeds == {}

FullRisks == [a \in Assets |-> IF a = ORN THEN 255 ELSE 127]
Margin == [collateralAssets |-> <<ORN, TKN>>, stakeRisk |-> 255,
           liquidationPremium |-> 51, priceOverdue |-> 1, positionOverdue |-> 1]

(* Trading on credit: alice goes short of TKN to bob, and buys TKN back by
   selling ORN; no two orders of one user match each other.  Debts are also
   covered by deposits, and bob pays from his wallet until he revokes an
   approval; the owner may stop counting stakes as collateral. *)
CreditWallet ==
    [u \in Users |-> [a \in Assets |->
        CASE u = alice -> IF a = ORN THEN 3 ELSE 1
          [] u = bob -> 2
          [] OTHER -> 0]]
CreditDeposits ==
    [NoAmounts EXCEPT ![alice] = [a \in Assets |-> IF a = ORN THEN {3} ELSE {1}]]
CreditWithdrawals ==
    [NoAmounts EXCEPT ![alice][ORN] = {1}]
CreditStakes == [NoStakes EXCEPT ![alice] = {1}]
CreditOrders ==
    {Order(1, alice, kSell, TKN, ORN, ORN, 2, 2, 1),
     Order(2, bob, kBuy, TKN, ORN, ORN, 2, 2, 0),
     Order(3, alice, kSell, ORN, TKN, TKN, 2, 2, 0),
     Order(4, bob, kBuy, ORN, TKN, ORN, 2, 2, 1)}
TightMargin == {[Margin EXCEPT !.stakeRisk = 0, !.priceOverdue = 9]}
Revocation == [NoAmounts EXCEPT ![bob][ORN] = {0}]
CreditFeeds == {[a \in {TKN, ORN} |-> 2]}

(* Liquidation: alice sells TKN or ORN she does not have, may withdraw most of
   her ORN, and the price of TKN may triple; bob, who has both, may liquidate a
   part of her debt, all of it, or more, paid from alice's balance and then from
   her stake.  The owner may raise the risks, and freeze or free her stake. *)
HalfRisks == [a \in Assets |-> 127]
RaisedRisks == {FullRisks}
LiquidationWallet ==
    [u \in Users |-> [a \in Assets |->
        CASE u = alice /\ a = ORN -> 6
          [] u = bob -> 2
          [] OTHER -> 0]]
LiquidationDeposits ==
    [NoAmounts EXCEPT ![alice][ORN] = {6}, ![alice][TKN] = {1},
                      ![bob][TKN] = {2}, ![bob][ORN] = {2}]
LiquidationWithdrawals == [NoAmounts EXCEPT ![alice][ORN] = {4, 5}]
LiquidationStakes == [NoStakes EXCEPT ![alice] = {2}]
LiquidationFeeds == {[a \in {TKN, ORN} |-> IF a = ORN THEN 2 ELSE p] : p \in {2, 6}}
TokenRedemptions == [NoAmounts EXCEPT ![bob][TKN] = {1, 2}]
Redemptions == [TokenRedemptions EXCEPT ![bob][ORN] = {1, 2}]
ShortSale ==
    {Order(1, alice, kSell, TKN, ORN, ORN, 2, 2, 0),
     Order(2, bob, kBuy, TKN, ORN, ORN, 2, 2, 0)}
ShortSales == ShortSale \cup
    {Order(3, alice, kSell, ORN, TKN, ORN, 2, 2, 0),
     Order(4, bob, kBuy, ORN, TKN, ORN, 2, 2, 0)}

(* Trades paid from and to wallets: alice's TKN for bob's ether, with fees in
   ORN, in the asset received (more than is received), and on an order that
   alice did not sign. *)
WalletSigned ==
    {Order(1, alice, kSell, TKN, ETH, ORN, 2, 2, 1),
     Order(2, bob, kBuy, TKN, ETH, TKN, 2, 2, 2),
     Order(3, alice, kSell, TKN, ETH, ETH, 1, 2, 2)}
WalletOrders == WalletSigned \cup {Order(4, alice, kSell, TKN, ETH, ETH, 2, 1, 0)}

(* Tokens of other decimals: TKN has fewer than the exchange, ETH more. *)
OddUnits == [a \in Assets |-> CASE a = TKN -> 1 [] a = ETH -> 6 [] OTHER -> Unit]
RoundingOrders ==
    {Order(1, alice, kSell, TKN, ETH, ETH, 2, 2, 0),
     Order(2, bob, kBuy, TKN, ETH, TKN, 3, 2, 1)}

(* Withdrawals of less than a unit are free: balances are bounded here. *)
SmallBalances == \A u \in Users, a \in Assets : assetBalances[u][a] <= 8

(* A liquidator who owes ORN. *)
OrnDebtWallet ==
    [u \in Users |-> [a \in Assets |->
        IF a # ORN THEN 0 ELSE CASE u = alice -> 8 [] u = bob -> 2 [] OTHER -> 0]]
OrnDebtDeposits == [NoAmounts EXCEPT ![alice][ORN] = {8}, ![bob][ORN] = {2}]
OrnDebtStakes == [NoStakes EXCEPT ![alice] = {2}, ![bob] = {1}]
OrnDebtWithdrawals ==
    [NoAmounts EXCEPT ![alice][ORN] = {4, 7}, ![bob][ORN] = {3}, ![bob][TKN] = {1}]
===============================================================================
