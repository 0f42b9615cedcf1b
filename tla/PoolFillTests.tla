---------------------------- MODULE PoolFillTests ----------------------------
(***************************************************************************)
(* The tests of orders filled by pools of a thousand ORN.  A token counts  *)
(* as a tenth of one and prices stay what they are: a fee of 0.00002 ORN   *)
(* counts as 1, and any smaller amount as one.  The USDT of                *)
(* 14_eth_fill_orionpool count as a hundred.                               *)
(***************************************************************************)
EXTENDS DeployFixture

-------------------------------------------------------------------------------
(* 19_fill_orionpool_depositless: the wallet pays and is paid. *)

thousand == Tenths(1000)

DepositlessSetup ==
    <<Phase(<<<<mintAndApprove(USDT, user1, Tenths(200))>>,
              <<addLiquidity(owner, ORN, USDT, thousand, thousand)>>,
              <<addLiquidity(owner, ETH, USDT, thousand, thousand)>>,
              <<addLiquidity(owner, ETH, ORN, thousand, thousand)>>>>,
            {})>>

HasNoneOnExchange(u, assets) == {Holds("exchange", u, a, 0) : a \in assets}

(* The pool asks for more than the price, and the fee can not be paid. *)
WithoutEnoughApprove ==
    LET buy == generateOrderV4(1901, user1, owner, kBuy, ORN, USDT, ORN,
                   Tenths(20), ToExchAny(1), FEE)
    IN <<Phase(<<>>, {Holds("wallet", user1, ORN, 0)} \cup HasNoneOnExchange(user1, {ORN, USDT})),
         Phase(<<<<Reverts(fillThroughOrionPool(buy, Tenths(20), FEE, <<USDT, ORN>>))>>>>,
               {Holds("wallet", user1, ORN, 0)})>>

FeeInAssetIn ==
    LET buy == generateOrderV4(1902, user1, owner, kBuy, ORN, USDT, ORN,
                   Tenths(10), ToExchAny(2), FEE)
    IN <<Phase(<<<<approve(ORN, user1, FEE)>>>>,
               {Holds("wallet", user1, USDT, Tenths(200))}
               \cup HasNoneOnExchange(user1, {ORN, USDT})),
         Phase(<<<<Settling(fillThroughOrionPool(buy, Tenths(10), FEE, <<USDT, ORN>>),
                       "wallet", "wallet")>>>>,
               HasNoneOnExchange(user1, {ORN, USDT})
               \cup {Holds("wallet", user1, ORN, Tenths(10) - FEE),
                     Holds("exchange", owner, ORN, FEE), Holds("custody", owner, ORN, FEE)})>>

PoolFeeInAssetOut ==
    LET sell == generateOrderV4(1903, user1, owner, kSell, ORN, USDT, ORN,
                    Tenths(10), Tenths(5), FEE)
    IN <<Phase(<<<<mintAndApprove(ORN, user1, Tenths(10) + FEE)>>>>,
               HasNoneOnExchange(user1, {ORN, USDT})),
         Phase(<<<<Settling(fillThroughOrionPool(sell, Tenths(10), FEE, <<ORN, USDT>>),
                       "wallet", "wallet")>>>>,
               HasNoneOnExchange(user1, {ORN, USDT})
               \cup {Holds("exchange", owner, ORN, 2 * FEE),
                     Holds("custody", owner, ORN, 2 * FEE)})>>

OneHopPath ==
    LET buy == generateOrderV4(1904, user1, owner, kBuy, ETH, ORN, ORN,
                   Tenths(2), ToExchAny(2), FEE)
    IN <<Phase(<<<<mintAndApprove(ORN, user1, Tenths(4) + FEE)>>>>,
               HasNoneOnExchange(user1, {ORN, USDT})),
         Phase(<<<<Settling(fillThroughOrionPool(buy, Tenths(2), FEE, <<ORN, USDT, ETH>>),
                       "wallet", "wallet")>>>>,
               HasNoneOnExchange(user1, {ORN, USDT})
               \cup {Holds("wallet", user1, ETH, ToExchAny(100) + Tenths(2)),
                     Holds("exchange", owner, ORN, 3 * FEE),
                     Holds("custody", owner, ORN, 3 * FEE)})>>

SellFeeInAssetIn ==
    LET fee == Hundredths(15)
        sell == generateOrderV4(1905, user2, owner, kSell, ORN, USDT, USDT,
                    Tenths(5), Tenths(9), fee)
    IN <<Phase(<<<<approve(USDT, user2, fee), mintAndApprove(ORN, user2, Tenths(5))>>>>, {}),
         Phase(<<<<Settling(fillThroughOrionPool(sell, Tenths(5), fee, <<ORN, USDT>>),
                       "wallet", "wallet")>>>>,
               HasNoneOnExchange(user2, {ORN, USDT})
               \cup {Holds("wallet", user2, ORN, 0), Holds("exchange", owner, USDT, fee),
                     Holds("custody", owner, USDT, fee)})>>

InContractSwap ==
    LET sell == generateOrderV4(1906, user3, owner, kSell, ORN, USDT, ORN,
                    Tenths(7), Tenths(5), FEE)
    IN <<Phase(<<mintAndDeposit(ORN, user3, Tenths(7) + FEE)>>,
               {Holds("exchange", user3, ORN, Tenths(7) + FEE),
                Holds("exchange", user3, USDT, 0)}),
         Phase(<<<<Settling(fillThroughOrionPool(sell, Tenths(7), FEE, <<ORN, USDT>>),
                       "exchange", "exchange")>>>>,
               {Holds("wallet", user3, a, 0) : a \in {ORN, USDT}}
               \cup {Holds("exchange", user3, ORN, 0), Holds("exchange", owner, ORN, 4 * FEE),
                     Holds("custody", owner, ORN, 4 * FEE)}),
         Phase(<<<<cleanupDeposit(USDT, user3)>>>>, {})>>

(* The matcher asks for half of the fee the order offers. *)
EtherFeeInAssetIn ==
    LET actual == Hundredths(1)
        buy == generateOrderV4(1907, user3, owner, kBuy, ETH, USDT, ETH,
                   Tenths(2), Tenths(15), Hundredths(2))
    IN <<Phase(<<<<mintAndApprove(USDT, user3, Tenths(3))>>>>,
               HasNoneOnExchange(user3, {ETH, USDT})),
         Phase(<<<<Settling(fillThroughOrionPool(buy, Tenths(2), actual, <<USDT, ETH>>),
                       "wallet", "wallet")>>>>,
               HasNoneOnExchange(user3, {ETH, USDT})
               \cup {Holds("wallet", user3, ETH, ToExchAny(100) + Tenths(2) - actual),
                     Holds("exchange", owner, ETH, actual), Holds("custody", owner, ETH, actual)})>>

FillDepositless ==
    DepositlessSetup \o WithoutEnoughApprove \o FeeInAssetIn \o PoolFeeInAssetOut \o OneHopPath
    \o SellFeeInAssetIn \o InContractSwap \o EtherFeeInAssetIn

-------------------------------------------------------------------------------
(* 10_fill_orionpool: balances on the exchange pay and are paid. *)

FillSetup ==
    <<Phase(<<<<addLiquidity(owner, ORN, USDT, thousand, Tenths(800))>>,
              <<addLiquidity(owner, ETH, USDT, Tenths(800), Tenths(800))>>,
              <<addLiquidity(owner, ETH, ORN, Tenths(800), thousand)>>>>,
            {})>>

(* The order offers a fee of two, the matcher asks for one. *)
ThroughPair ==
    LET buy == generateOrderV4(1001, user1, owner, kBuy, USDT, ORN, ORN,
                   Hundredths(7), ToExchAny(2), 2 * FEE)
    IN <<Phase(<<mintAndDeposit(ORN, user1, Tenths(10))>>,
               {Holds("exchange", user1, ORN, Tenths(10)), Holds("exchange", user1, USDT, 0)}),
         Phase(<<<<Settling(fillThroughOrionPool(buy, Hundredths(7), FEE, <<ORN, USDT>>),
                       "exchange", "exchange")>>>>,
               {Holds("exchange", user1, USDT, Hundredths(7)),
                Holds("exchange", user1, ORN, Tenths(10) - FEE
                    - getAmountIn(Hundredths(7), thousand, Tenths(800)))})>>

ThroughPairAgain ==
    LET buy == generateOrderV4(1002, user1, owner, kBuy, USDT, ORN, ORN, 1, ToExchAny(2), FEE)
    IN <<Phase(<<mintAndDeposit(ORN, user1, Tenths(1))
                    \o <<fillThroughOrionPool(buy, 1, FEE, <<ORN, USDT>>)>>>>, {})>>

TwoHopPath ==
    LET buy == generateOrderV4(1003, user1, owner, kBuy, ETH, ORN, ORN,
                   Tenths(2), ToExchAny(2), FEE)
    IN <<Phase(<<mintAndDeposit(ORN, user1, Tenths(2004))>>, {}),
         Phase(<<<<Settling(
                     Moving(fillThroughOrionPool(buy, Tenths(2), FEE, <<ORN, USDT, ETH>>),
                            {<<"wallet", user1, ETH, 0>>}),
                     "exchange", "exchange")>>>>,
               {Holds("exchange", user1, ETH, Tenths(2))})>>

SellOrderThroughPair ==
    LET sell == generateOrderV4(1004, user1, owner, kSell, ORN, USDT, ORN,
                    Tenths(2), Tenths(5), FEE)
    IN <<Phase(<<mintAndDeposit(ORN, user1, Tenths(2002))>>, {}),
         Phase(<<<<Settling(
                     Moving(fillThroughOrionPool(sell, Tenths(2), FEE, <<ORN, USDT>>),
                            {<<"exchange", user1, ORN, -Tenths(2) - FEE>>}),
                     "exchange", "exchange")>>>>, {})>>

FillOrionPool ==
    FillSetup \o ThroughPair \o ThroughPairAgain \o TwoHopPath \o SellOrderThroughPair

-------------------------------------------------------------------------------
(* 16_approvedMethodTrades: the two orders that pools fill. *)

wethSwapped == Tenths(9)
wethReserve == Tenths(100)
usdtReserve == Tenths(200)
usdtToSpend == getAmountIn(wethSwapped, usdtReserve, wethReserve)

ApprovedBuySide ==
    LET buy == generateOrderV4(1621, user3, owner, kBuy, WETH, USDT, ORN,
                   wethSwapped, Tenths(25), FEE)
    IN <<Phase(<<<<mintAndApprove(USDT, user3, usdtToSpend)>>, <<mintAndApprove(ORN, user3, FEE)>>>>,
               {Holds("exchange", user3, USDT, 0)}),
         Phase(<<<<fillThroughOrionPool(buy, wethSwapped, FEE, <<USDT, WETH>>)>>>>,
               {Holds("wallet", user3, WETH, wethSwapped), Holds("wallet", user3, USDT, 0)})>>

ApprovedSellSide ==
    LET sell == generateOrderV4(1622, user4, owner, kSell, WETH, USDT, ORN,
                    wethSwapped, Tenths(15), FEE)
    IN <<Phase(<<<<mintAndApprove(WETH, user4, wethSwapped)>>, <<mintAndApprove(ORN, user4, FEE)>>>>,
               {Holds("exchange", user4, WETH, 0)}),
         Phase(<<<<Settling(fillThroughOrionPool(sell, wethSwapped, FEE, <<WETH, USDT>>),
                       "wallet", "wallet")>>>>,
               {Holds("wallet", user4, WETH, 0)})>>

ApprovedPoolTrades ==
    <<Phase(<<<<addLiquidity(owner, WETH, USDT, wethReserve, usdtReserve)>>>>, {})>>
    \o setCollateralAndPriceOracles \o ApprovedBuySide \o ApprovedSellSide

-------------------------------------------------------------------------------
(* 14_eth_fill_orionpool: pools with ether.  The least price of the test,   *)
(* a millionth, counts as 0.                                               *)

EtherSetup ==
    <<Phase(<<<<addLiquidity(owner, ORN, USDT, thousand, Tenths(150))>>,
              <<addLiquidity(owner, ETH, ORN, Tenths(100), thousand)>>,
              <<addLiquidity(owner, ETH, USDT, Hundredths(128), Hundredths(1756))>>>>,
            {})>>

OrnForEther ==
    LET sell == generateOrderV4(1401, user2, owner, kSell, ORN, ETH, ORN, Tenths(10), 0, FEE)
    IN <<Phase(<<mintAndDeposit(ORN, user2, Tenths(10) + FEE)>>, {}),
         Phase(<<<<Settling(
                     Moving(fillThroughOrionPool(sell, Tenths(10), FEE, <<ORN, ETH>>),
                            {<<"exchange", user2, ORN, -Tenths(10) - FEE>>,
                             <<"wallet", user2, ETH, 0>>}),
                     "exchange", "exchange")>>>>, {})>>

SellEther ==
    LET sell == generateOrderV4(1402, user1, owner, kSell, ETH, USDT, ORN,
                    Tenths(1), Tenths(119), FEE)
    IN <<Phase(<<<<deposit(user1, Tenths(2))>>, <<mintAndApprove(ORN, user1, FEE)>>>>, {}),
         Phase(<<<<Settling(
                     Moving(fillThroughOrionPool(sell, Tenths(1), FEE, <<ETH, USDT>>),
                            {<<"wallet", user1, ORN, -FEE>>,
                             <<"exchange", user1, ETH, -Tenths(1)>>}),
                     "exchange", "exchange")>>>>, {})>>

BuyEther ==
    LET buy == generateOrderV4(1403, user1, owner, kBuy, ETH, USDT, ORN,
                   Tenths(1), ToExchAny(15), FEE)
    IN <<Phase(<<<<deposit(user1, Tenths(2))>>, <<mintAndApprove(ORN, user1, FEE)>>,
                 mintAndDeposit(USDT, user1, Tenths(15))>>, {}),
         Phase(<<<<Settling(
                     Moving(fillThroughOrionPool(buy, Tenths(1), FEE, <<USDT, ETH>>),
                            {<<"wallet", user1, ORN, -FEE>>,
                             <<"exchange", user1, ETH, Tenths(1)>>}),
                     "exchange", "exchange")>>>>, {})>>

HopTradeBothSides ==
    LET buy == generateOrderV4(1404, user1, owner, kBuy, USDT, ORN, ORN,
                   Tenths(12), ToExchAny(1), FEE)
        sell == generateOrderV4(1405, user1, owner, kSell, USDT, ORN, ORN,
                    Tenths(10), 1, FEE)
    IN <<Phase(<<mintAndDeposit(ORN, user1, Tenths(120))>>, {}),
         Phase(<<<<Settling(
                     Moving(fillThroughOrionPool(buy, Tenths(12), FEE, <<ORN, ETH, USDT>>),
                            {<<"exchange", user1, USDT, Tenths(12)>>}),
                     "exchange", "exchange"),
                   Settling(
                     Moving(fillThroughOrionPool(sell, Tenths(10), FEE, <<USDT, ETH, ORN>>),
                            {<<"exchange", user1, USDT, -Tenths(10)>>}),
                     "exchange", "exchange")>>>>, {})>>

HopTradeEtherFirst ==
    LET sell == generateOrderV4(1406, user1, owner, kSell, ETH, ORN, ORN, Tenths(1), 1, FEE)
    IN <<Phase(<<<<deposit(user1, Tenths(2))>>>>, {}),
         Phase(<<<<Settling(
                     Moving(fillThroughOrionPool(sell, Tenths(1), FEE, <<ETH, USDT, ORN>>),
                            {<<"exchange", user1, ETH, -Tenths(1)>>}),
                     "exchange", "exchange")>>>>, {})>>

EtherFill ==
    EtherSetup \o OrnForEther \o SellEther \o BuyEther \o HopTradeBothSides \o HopTradeEtherFirst

-------------------------------------------------------------------------------
PoolFillSuite ==
    [depositless |-> FillDepositless, fill |-> FillOrionPool,
     approved |-> ApprovedPoolTrades, ether |-> EtherFill]

===============================================================================
