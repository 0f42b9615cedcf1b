----------------------------- MODULE DeployFixture -----------------------------
(***************************************************************************)
(* The exchange, the tokens and the accounts the tests share, and the      *)
(* constants of the specification that stand for them.  All tokens have    *)
(* the decimals of the exchange; a time unit is a thousand seconds.        *)
(***************************************************************************)
EXTENDS HardhatTests

CONSTANTS
    owner, user1, user2, user3, user4, otherUser, broker, liquidator,
    WETH, USDT, WBTC, WXRP

ToExchAny(amount) == amount * Unit

(* Fees are smaller than the unit of any replay, and count as one. *)
FEE == 1

Hundredths(amount) == (amount * Unit) \div 100

Tenths(amount) == (amount * Unit) \div 10

ToExchUnits == [a \in Assets |-> Unit]

(* Settings of the exchange the fixture deploys. *)
deployedSettings ==
    [collateralAssets |-> <<ORN, WETH, USDT>>, stakeRisk |-> 220,
     liquidationPremium |-> 12, priceOverdue |-> 10, positionOverdue |-> 86]

deployedRisks ==
    [a \in Assets |-> IF a \in {ORN, WETH, USDT} THEN 200 ELSE 0]

(* Accounts have ether and nothing else; no token is approved. *)
fundedAccounts == [u \in Users |-> [a \in Assets |-> IF a = ETH THEN ToExchAny(100) ELSE 0]]

nothingApproved == [u \in Users |-> [a \in Assets |-> 0]]

emptyPools(pools) == [pool \in pools |-> [a \in Assets |-> 0]]

(* The environment of the exchange does nothing by itself. *)
NoInputs == [u \in Users |-> [a \in Assets |-> {}]]
NoLocks == [u \in Users |-> {}]

setCollateralAndPriceOracles ==
    <<Phase(
        <<<<updateMarginalSettings(
               [collateralAssets |-> <<ORN, USDT>>, stakeRisk |-> 254,
                liquidationPremium |-> 10, priceOverdue |-> 86, positionOverdue |-> 90])>>,
          <<provideData([a \in {ORN, USDT, WETH} |-> Unit])>>,
          <<updateAssetRisks([a \in {ORN, USDT} |-> 254])>>>>,
        {})>>

(* An order of each side, with fees in ORN, filled at its price. *)
Trade(nonce, buyer, seller, base, quote, amount, price, fee) ==
    fillOrders(
        generateOrderV4(nonce, buyer, owner, kBuy, base, quote, ORN, amount, price, fee),
        generateOrderV4(nonce + 1, seller, owner, kSell, base, quote, ORN, amount, price, fee),
        price, amount)
================================================================================
