------------------------------ MODULE MarginTests ------------------------------
(***************************************************************************)
(* The test of margin trading and liquidation, 8_margin.  Unit is a        *)
(* hundredth: where the test trades thousandths of a WBTC or a WETH, the   *)
(* replay trades hundredths.                                               *)
(***************************************************************************)
EXTENDS DeployFixture

initialOrionBalance == ToExchAny(5000)
initialWBTCBalance == Hundredths(10)
initialWETHBalance == ToExchAny(3)
initialWXRPBalance == ToExchAny(4300)
initialETHBalance == ToExchAny(3)
stakeAmount == ToExchAny(200)
overdueDuration == 86
priceOverdue == 10

WBTCPrice == ToExchAny(4321)
WXRPPrice == Hundredths(10)
WETHPrice == ToExchAny(143)
ETHPrice == ToExchAny(143)

orionWeight == 220
wbtcWeight == 200
ethWeight == 190
stakeRisk == 242
liquidationPremium == 12

ValueOf(amount, price) == (amount * price) \div Unit

(* What a user without debts but liability is worth, computed by the test. *)
calcCollateral(user0, orionStake, orn, wbtc, weth, eth, liability) ==
    LET btc == ValueOf(wbtc, WBTCPrice)
        ether == ValueOf(weth, WETHPrice)
        raw == ValueOf(eth, ETHPrice)
    IN Position(user0, "POSITIVE",
          uint8Percent(orionStake, stakeRisk) + uint8Percent(orn, orionWeight)
             + uint8Percent(btc, wbtcWeight) + uint8Percent(ether, ethWeight)
             + uint8Percent(raw, ethWeight) + liability,
          orionStake + orn + btc + ether + raw + liability)

(* A new block has a later time, else the oracle would keep the old price. *)
providePriceData(wethPrice) ==
    <<advanceTime(1),
      provideData([a \in {WETH, WBTC, ORN, ETH, WXRP} |->
          CASE a \in {WETH, ETH} -> wethPrice [] a = WBTC -> WBTCPrice
            [] a = ORN -> Unit [] a = WXRP -> WXRPPrice])>>

provideRisks ==
    <<<<updateMarginalSettings(
           [collateralAssets |-> <<ORN, WETH, WBTC, ETH>>, stakeRisk |-> stakeRisk,
            liquidationPremium |-> liquidationPremium, priceOverdue |-> priceOverdue,
            positionOverdue |-> overdueDuration])>>,
      <<updateAssetRisks([a \in {ORN, WBTC, ETH, WETH} |->
            CASE a = ORN -> orionWeight [] a = WBTC -> wbtcWeight [] OTHER -> ethWeight])>>>>

DepositsOf(u) ==
    mintAndDeposit(ORN, u, initialOrionBalance) \o mintAndDeposit(WBTC, u, initialWBTCBalance)
    \o mintAndDeposit(WETH, u, initialWETHBalance) \o mintAndDeposit(WXRP, u, initialWXRPBalance)
    \o <<deposit(u, initialETHBalance)>>

initialDeposits ==
    <<Phase(<<DepositsOf(broker) \o <<lockStake(broker, stakeAmount)>>, DepositsOf(otherUser)>>,
            {Holds("exchange", broker, ETH, initialETHBalance),
             Holds("exchange", otherUser, ETH, initialETHBalance)})>>

Setup ==
    setCollateralAndPriceOracles \o <<Phase(<<providePriceData(WETHPrice)>>, {})>>
    \o <<Phase(provideRisks, {})>> \o initialDeposits

-------------------------------------------------------------------------------
(* The broker sells to the user, or buys from the user. *)
BrokerSells(nonce, asset, amount, price, fee) ==
    Trade(nonce, otherUser, broker, asset, ORN, amount, price, fee)

BrokerBuys(nonce, asset, amount, price, fee) ==
    Trade(nonce, broker, otherUser, asset, ORN, amount, price, fee)

UserPosition ==
    <<Phase(<<>>, {calcCollateral(otherUser, 0, initialOrionBalance, initialWBTCBalance,
                       initialWETHBalance, initialETHBalance, 0)})>>

BrokerPosition ==
    <<Phase(<<>>, {calcCollateral(broker, stakeAmount, initialOrionBalance - stakeAmount,
                       initialWBTCBalance, initialWETHBalance, initialETHBalance, 0)})>>

ornAfterSales ==
    initialOrionBalance - stakeAmount + ValueOf(initialWBTCBalance, WBTCPrice)
    + ValueOf(initialWETHBalance, WETHPrice) + ValueOf(initialWXRPBalance, WXRPPrice)
    + ValueOf(initialETHBalance, ETHPrice) - 4 * FEE

shortWBTC == Hundredths(1)
ornAfterShort == ornAfterSales + ValueOf(shortWBTC, WBTCPrice) - FEE

(* The broker gets rid of all tokens, in any order, and then goes short.   *)
MarginalTrades ==
    <<Phase(<<<<BrokerSells(801, WBTC, initialWBTCBalance, WBTCPrice, FEE)>>,
              <<BrokerSells(803, WETH, initialWETHBalance, WETHPrice, FEE)>>,
              <<BrokerSells(805, WXRP, initialWXRPBalance, WXRPPrice, FEE)>>,
              <<BrokerSells(807, ETH, initialETHBalance, ETHPrice, FEE)>>>>,
            {Holds("exchange", broker, ORN, ornAfterSales),
             calcCollateral(broker, stakeAmount, ornAfterSales, 0, 0, 0, 0)}),
      Phase(<<<<BrokerSells(809, WBTC, shortWBTC, WBTCPrice, FEE)>>>>, {})>>

StakeIsKept == <<Phase(<<<<Reverts(requestReleaseStake(broker))>>,
                         <<Reverts(withdraw(WBTC, broker, 1))>>>>, {})>>

PositionAfterMarginalTrade ==
    <<Phase(<<>>, {Holds("exchange", broker, ORN, ornAfterShort),
                   calcCollateral(broker, stakeAmount, ornAfterShort, 0, 0, 0,
                                  -ValueOf(shortWBTC, WBTCPrice))})>>

(* With a debt the stake alone does not cover, all ORN can not be taken. *)
NoWithdrawalIntoNegative ==
    <<Phase(<<<<BrokerSells(811, WBTC, Hundredths(10), WBTCPrice, 0),
                Reverts(cleanupDeposit(ORN, broker)),
                BrokerBuys(813, WBTC, Hundredths(10), WBTCPrice, 0)>>>>,
            {Borrows(broker, <<WBTC>>)})>>

ThreeLiabilities ==
    LET orn == ornAfterShort + WETHPrice + WXRPPrice - 2 * FEE
    IN <<Phase(<<<<BrokerSells(815, WETH, ToExchAny(1), WETHPrice, FEE),
                   BrokerSells(817, WXRP, ToExchAny(1), WXRPPrice, FEE)>>>>,
               {Holds("exchange", broker, ORN, orn),
                calcCollateral(broker, stakeAmount, orn, 0, 0, 0,
                    -ValueOf(shortWBTC, WBTCPrice) - WETHPrice - WXRPPrice)})>>

(* The last entry takes the place of the one that is removed. *)
ReimburseByDeposit ==
    <<Phase(<<mintAndDeposit(WBTC, broker, 2 * shortWBTC)>>,
            {Borrows(broker, <<WXRP, WETH>>), Holds("exchange", broker, WBTC, shortWBTC)})>>

ReimburseByTrade ==
    <<Phase(<<<<BrokerBuys(819, WXRP, ToExchAny(2), WXRPPrice, FEE)>>>>,
            {Borrows(broker, <<WETH>>)})>>

firstLiabilityTime == StartTime + 1

DeepenLiability ==
    <<Phase(<<<<BrokerSells(821, WETH, ToExchAny(1), WETHPrice, FEE)>>>>,
            {Borrows(broker, <<WETH>>), Holds("exchange", broker, WETH, -ToExchAny(2)),
             DebtTimer(broker, 1, ToExchAny(1), firstLiabilityTime)})>>

AfterOverdue == <<advanceTime(overdueDuration + 1)>> \o providePriceData(WETHPrice)

NoNewDebtWhenOverdue ==
    <<Phase(<<AfterOverdue
                 \o <<Reverts(BrokerSells(823, ETH, ToExchAny(1), ETHPrice, FEE))>>>>, {})>>

NoDeeperDebtWhenOverdue ==
    <<Phase(<<AfterOverdue
                 \o <<Reverts(BrokerSells(825, WETH, ToExchAny(1), WETHPrice, FEE))>>>>, {}),
      Phase(<<mintAndDeposit(WETH, broker, ToExchAny(2))>>, {Borrows(broker, <<>>)})>>

(* What was outstanding when the clock started is paid first. *)
addWethLiability(nonce, amount) ==
    providePriceData(WETHPrice) \o <<BrokerSells(nonce, WETH, amount, WETHPrice, FEE)>>

OverdueTime ==
    LET initial == ToExchAny(1)
        additional == Hundredths(3)
        since == firstLiabilityTime + 2 * (overdueDuration + 2) + 1
    IN <<Phase(<<addWethLiability(827, initial)>>, {DebtTimer(broker, 1, initial, since)}),
         Phase(<<<<advanceTime(1)>> \o addWethLiability(829, additional)>>,
               {DebtTimer(broker, 1, initial, since)}),
         Phase(<<<<advanceTime(1)>> \o mintAndDeposit(WETH, broker, 0)>>,
               {DebtTimer(broker, 1, initial, since)}),
         Phase(<<mintAndDeposit(WETH, broker, initial)>>,
               {DebtTimer(broker, 1, additional, since + 3)}),
         Phase(<<mintAndDeposit(WETH, broker, additional)>>, {Borrows(broker, <<>>)})>>

-------------------------------------------------------------------------------
(* Exchange::Liquidation *)

RewardOf(weth, price) ==
    LET liquidationAmount == ValueOf(ToExchAny(weth), price)
    IN liquidationAmount + (liquidationAmount \div 255) * liquidationPremium

higherPrice == ToExchAny(160)

Liquidate(weth) == partiallyLiquidate(liquidator, broker, WETH, ToExchAny(weth))

PositiveIsNotLiquidated ==
    <<Phase(<<mintAndDeposit(ORN, otherUser, ToExchAny(50000)),
              mintAndDeposit(WETH, liquidator, ToExchAny(1100))>>, {}),
      Phase(<<<<BrokerSells(831, WETH, ToExchAny(200), WETHPrice, FEE),
                Reverts(Liquidate(10))>>>>, {})>>

NegativeIsLiquidated ==
    <<Phase(<<providePriceData(higherPrice)>>, {PositionIs(broker, "NEGATIVE")}),
      Phase(<<<<Moving(Liquidate(10),
                       {<<"exchange", broker, ORN, -RewardOf(10, higherPrice)>>,
                        <<"exchange", liquidator, ORN, RewardOf(10, higherPrice)>>})>>>>,
            {Holds("exchange", liquidator, ORN, RewardOf(10, higherPrice))})>>

NotTooMuchIsLiquidated == <<Phase(<<<<Reverts(Liquidate(220))>>>>, {})>>

OverdueIsLiquidated ==
    <<Phase(<<<<advanceTime(overdueDuration + 1)>> \o providePriceData(higherPrice)
              \o <<Moving(Liquidate(180),
                       {<<"exchange", liquidator, ORN, RewardOf(180, higherPrice)>>})>>>>, {})>>

MarginTrading ==
    Setup \o UserPosition \o BrokerPosition \o MarginalTrades \o StakeIsKept
    \o PositionAfterMarginalTrade \o NoWithdrawalIntoNegative \o ThreeLiabilities
    \o ReimburseByDeposit \o ReimburseByTrade \o DeepenLiability \o NoNewDebtWhenOverdue
    \o NoDeeperDebtWhenOverdue \o OverdueTime \o PositiveIsNotLiquidated
    \o NegativeIsLiquidated \o NotTooMuchIsLiquidated \o OverdueIsLiquidated

MarginSuite == [margin |-> MarginTrading]

================================================================================
