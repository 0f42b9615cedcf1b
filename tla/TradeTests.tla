------------------------------ MODULE TradeTests ------------------------------
(***************************************************************************)
(* The tests of trades between users: from balances, from wallets, and on  *)
(* credit.  Unit is a hundredth, so that a fee of 0.0035 ORN counts as 1.  *)
(***************************************************************************)
EXTENDS DeployFixture

MatcherPaid(fees) == <<"exchange", owner, ORN, fees>>

-------------------------------------------------------------------------------
(* 20_exchange_balance_on_trade: five WETH at 0.04 USDT, what the exchange *)
(* holds after it, and everything withdrawn.                               *)

wethAmount == ToExchAny(5)
wethPrice == Hundredths(4)
usdtQuote == Hundredths(20)

ExchangeHas(weth, usdt, orn) ==
    {Holds("custody", owner, WETH, weth), Holds("custody", owner, USDT, usdt),
     Holds("custody", owner, ORN, orn)}

(* ToORN of a fee that is already in the units of ORN: the test mints more *)
(* than it needs.                                                          *)
mintFees(trader) == <<mintAndApprove(ORN, trader, ToExchAny(FEE))>>

WithoutExchangeBalance ==
    <<Phase(<<<<mintAndApprove(USDT, user1, usdtQuote)>>, <<mintAndApprove(WETH, user2, wethAmount)>>,
              mintFees(user1), mintFees(user2)>>,
            ExchangeHas(0, 0, 0)),
      Phase(<<<<Trade(2001, user1, user2, WETH, USDT, wethAmount, wethPrice, FEE)>>>>,
            ExchangeHas(0, 0, 2 * FEE)),
      Phase(<<<<withdraw(ORN, owner, 2 * FEE)>>>>, ExchangeHas(0, 0, 0))>>

OneDepositOneWallet ==
    <<Phase(<<mintAndDeposit(USDT, user1, usdtQuote), <<mintAndApprove(WETH, user2, wethAmount)>>,
              mintFees(user1), mintFees(user2)>>,
            ExchangeHas(0, usdtQuote, 0)),
      Phase(<<<<Trade(2003, user1, user2, WETH, USDT, wethAmount, wethPrice, FEE)>>>>,
            ExchangeHas(wethAmount, 0, 2 * FEE)),
      Phase(<<<<withdraw(WETH, user1, wethAmount)>>, <<withdraw(ORN, owner, 2 * FEE)>>>>,
            ExchangeHas(0, 0, 0))>>

BothWithDeposit ==
    <<Phase(<<mintAndDeposit(USDT, user1, usdtQuote), mintAndDeposit(WETH, user2, wethAmount),
              mintFees(user1), mintFees(user2)>>,
            ExchangeHas(wethAmount, usdtQuote, 0)),
      Phase(<<<<Trade(2005, user1, user2, WETH, USDT, wethAmount, wethPrice, FEE)>>>>,
            ExchangeHas(wethAmount, usdtQuote, 2 * FEE)),
      Phase(<<<<withdraw(WETH, user1, wethAmount)>>, <<withdraw(USDT, user2, usdtQuote)>>,
              <<withdraw(ORN, owner, 2 * FEE)>>>>,
            ExchangeHas(0, 0, 0))>>

(* What the broker sells on credit is owed to the buyer by the exchange. *)
BrokerKeepsTokensOnExchange ==
    <<Phase(<<mintAndDeposit(ORN, broker, ToExchAny(150)) \o <<lockStake(broker, ToExchAny(1))>>,
              <<mintAndApprove(USDT, user1, usdtQuote)>>, mintFees(user1)>>,
            {Holds("exchange", broker, ORN, ToExchAny(149))}),
      Phase(<<<<Trade(2007, user1, broker, WETH, USDT, wethAmount, wethPrice, FEE)>>>>,
            ExchangeHas(0, usdtQuote, ToExchAny(150) + FEE)
            \cup {Holds("exchange", user1, WETH, wethAmount)})>>

SellFromContractToWallet ==
    <<Phase(<<<<mintAndApprove(USDT, user2, usdtQuote)>>, mintFees(user1), mintFees(user2)>>,
            {Holds("exchange", user1, WETH, wethAmount)}),
      Phase(<<<<Trade(2009, user2, user1, WETH, USDT, wethAmount, wethPrice, FEE)>>>>, {})>>

ExchangeBalanceOnTrade ==
    setCollateralAndPriceOracles \o WithoutExchangeBalance \o OneDepositOneWallet
    \o BothWithDeposit \o BrokerKeepsTokensOnExchange \o SellFromContractToWallet

-------------------------------------------------------------------------------
(* 18_partialLiabilities_userNotApprove: the broker pays more USDT than it *)
(* has, twice.                                                             *)
initialDeposit ==
    <<Phase(<<mintAndDeposit(ORN, otherUser, ToExchAny(250)),
              mintAndDeposit(WBTC, otherUser, ToExchAny(20)),
              mintAndDeposit(ORN, broker, ToExchAny(250))
                 \o <<lockStake(broker, Hundredths(10))>>,
              mintAndDeposit(USDT, broker, ToExchAny(10))>>,
            {})>>

BrokerGoesInTwoLiabilities ==
    <<Phase(<<<<Trade(1801, broker, otherUser, WBTC, USDT, ToExchAny(16), ToExchAny(1), FEE)>>>>,
            {Holds("exchange", broker, USDT, -ToExchAny(6))}),
      Phase(<<<<Moving(Trade(1803, broker, otherUser, ORN, USDT, ToExchAny(21), ToExchAny(1), FEE),
                       {<<"exchange", broker, USDT, -ToExchAny(21)>>})>>>>,
            {DebtTimer(broker, 1, ToExchAny(6), StartTime)})>>

PartialLiabilities ==
    setCollateralAndPriceOracles \o initialDeposit \o BrokerGoesInTwoLiabilities

-------------------------------------------------------------------------------
(* 16_approvedMethodTrades: trades from wallets that approved the exchange. *)

mintAndApproveTokens ==
    <<Phase(<<<<mintAndApprove(USDT, user1, ToExchAny(1000))>>,
              <<mintAndApprove(WETH, user2, ToExchAny(40))>>,
              <<mintAndApprove(ORN, user1, ToExchAny(100))>>,
              <<mintAndApprove(ORN, user2, ToExchAny(100))>>>>,
            {})>>

NothingOnExchange ==
    {Holds("exchange", u, a, 0) : u \in {user1, user2}, a \in {USDT, WETH}}

BothFromWallet ==
    <<Phase(<<<<Moving(Trade(1601, user1, user2, WETH, USDT, wethAmount, wethPrice, FEE),
                       {<<"wallet", user1, WETH, wethAmount>>,
                        <<"wallet", user2, WETH, -wethAmount>>})>>>>,
            NothingOnExchange)>>

DepositOfUser2 ==
    <<Phase(<<<<depositAsset(WETH, user2, ToExchAny(35)),
                mintAndApprove(WETH, user2, ToExchAny(5))>>>>, {})>>

WalletAgainstContract ==
    <<Phase(<<<<Moving(Trade(1603, user1, user2, WETH, USDT, wethAmount, wethPrice, FEE),
                       {<<"wallet", user1, USDT, -usdtQuote>>, <<"wallet", user1, ORN, -FEE>>,
                        <<"exchange", user2, WETH, -wethAmount>>,
                        <<"exchange", user2, USDT, usdtQuote>>, <<"wallet", user2, ORN, -FEE>>})>>>>,
            {Holds("exchange", user1, WETH, 0), Holds("wallet", user1, WETH, 2 * wethAmount),
             Holds("exchange", owner, ORN, 4 * FEE)}),
      Phase(<<<<withdraw(USDT, user2, usdtQuote)>>, <<cleanupDeposit(WETH, user2)>>>>,
            NothingOnExchange)>>

(* The fee of the buyer is in USDT, the fee of the seller in WETH. *)
FeeInAssetOut ==
    LET buy == generateOrderV4(1605, user1, owner, kBuy, WETH, USDT, USDT,
                   wethAmount, wethPrice, Hundredths(1))
        sell == generateOrderV4(1606, user2, owner, kSell, WETH, USDT, WETH,
                   wethAmount, wethPrice, Hundredths(25))
    IN <<Phase(<<<<mintAndApprove(WETH, user2, wethAmount + Hundredths(25))>>>>, {}),
         Phase(<<<<Moving(fillOrders(buy, sell, wethPrice, wethAmount),
                       {<<"wallet", user1, WETH, wethAmount>>,
                        <<"wallet", user2, WETH, -wethAmount - Hundredths(25)>>,
                        <<"wallet", user1, USDT, -usdtQuote - Hundredths(1)>>,
                        <<"wallet", user2, USDT, usdtQuote>>})>>>>,
               NothingOnExchange)>>

BrokerGoesIntoLiability ==
    LET amount == ToExchAny(41)
        quote == ToExchAny(41 * 5)
    IN <<Phase(<<mintAndDeposit(ORN, broker, ToExchAny(150))
                    \o <<lockStake(broker, ToExchAny(1))>>>>,
               {Holds("exchange", broker, ORN, ToExchAny(149))}),
         Phase(<<<<Moving(Trade(1607, user1, broker, WETH, USDT, amount, ToExchAny(5), FEE),
                       {<<"wallet", user1, WETH, 0>>, <<"wallet", user1, USDT, -quote>>,
                        <<"wallet", user1, ORN, -FEE>>, <<"exchange", broker, ORN, -FEE>>,
                        MatcherPaid(2 * FEE)})>>>>,
               {Holds("exchange", user1, WETH, amount), Holds("exchange", broker, WETH, -amount),
                Holds("exchange", broker, USDT, quote)})>>

(* The exchange has WETH by now, the buyer some of it on the exchange. *)
BrokerGoesDeeper ==
    LET amount == ToExchAny(1)
    IN <<Phase(<<mintAndDeposit(WETH, user1, amount)>>,
               {Holds("custody", owner, WETH, amount + Hundredths(25))}),
         Phase(<<<<Moving(Trade(1609, user1, broker, WETH, USDT, amount, ToExchAny(1), FEE),
                       {<<"exchange", user1, WETH, amount>>, <<"wallet", user1, WETH, 0>>,
                        <<"wallet", user1, USDT, -amount>>, <<"exchange", broker, WETH, -amount>>,
                        <<"exchange", broker, USDT, amount>>, MatcherPaid(2 * FEE),
                        <<"wallet", user1, ORN, -FEE>>, <<"exchange", broker, ORN, -FEE>>})>>>>,
               {Holds("exchange", broker, WETH, -ToExchAny(42))})>>

TradeWithEther ==
    LET amount == ToExchAny(2)
        quote == ToExchAny(1)
    IN <<Phase(<<<<deposit(user2, amount)>>>>,
               {Holds("exchange", user1, USDT, 0), Holds("exchange", user2, ETH, amount)}),
         Phase(<<<<Moving(Trade(1611, user1, user2, ETH, USDT, amount, Hundredths(50), FEE),
                       {<<"wallet", user1, ETH, amount>>, <<"exchange", user1, USDT, 0>>,
                        <<"wallet", user1, USDT, -quote>>, <<"wallet", user2, ETH, 0>>,
                        <<"exchange", user2, ETH, -amount>>, <<"exchange", user2, USDT, quote>>})>>>>,
               {Holds("exchange", user1, ETH, 0)})>>

(* Three more ORN of fee than the 25 ORN that are bought for 8 USDT each. *)
ReceivesLessThanFee ==
    LET amount == ToExchAny(25)
        quote == ToExchAny(200)
        fee == ToExchAny(28)
        buy == generateOrderV4(1613, user1, owner, kBuy, ORN, USDT, ORN, amount, ToExchAny(8), fee)
        sell == generateOrderV4(1614, broker, owner, kSell, ORN, USDT, ORN, amount, ToExchAny(8), FEE)
    IN <<Phase(<<<<mintAndApprove(USDT, user1, quote)>>, <<mintAndApprove(ORN, user1, ToExchAny(3))>>,
                 mintAndDeposit(ORN, broker, amount + FEE)>>, {}),
         Phase(<<<<Moving(fillOrders(buy, sell, ToExchAny(8), amount),
                       {<<"exchange", user1, USDT, 0>>, <<"exchange", user1, ORN, 0>>,
                        <<"wallet", user1, USDT, -quote>>, <<"wallet", user1, ORN, -ToExchAny(3)>>,
                        <<"wallet", broker, USDT, 0>>, <<"wallet", broker, ORN, 0>>,
                        <<"exchange", broker, USDT, quote>>,
                        <<"exchange", broker, ORN, -amount - FEE>>, MatcherPaid(FEE + fee)})>>>>,
               {})>>

SomeOnWalletSomeOnContract ==
    LET amount == ToExchAny(25)
        onContract == ToExchAny(30)
        onWallet == ToExchAny(170)
    IN <<Phase(<<mintAndDeposit(USDT, user1, onContract) \o <<mintAndApprove(USDT, user1, onWallet)>>,
                 mintAndDeposit(ORN, broker, amount + FEE)>>, {}),
         Phase(<<<<Moving(Trade(1615, user1, broker, ORN, USDT, amount, ToExchAny(8), FEE),
                       {<<"exchange", user1, ORN, amount - FEE>>,
                        <<"wallet", user1, USDT, -onWallet>>, <<"wallet", user1, ORN, 0>>,
                        <<"wallet", broker, USDT, 0>>, <<"wallet", broker, ORN, 0>>,
                        <<"exchange", broker, USDT, onContract + onWallet>>,
                        <<"exchange", broker, ORN, -amount - FEE>>})>>>>,
               {Holds("exchange", user1, USDT, 0)})>>

FeeOnContract ==
    LET amount == ToExchAny(2)
        price == ToExchAny(4800)
        quote == ToExchAny(9600)
        buy == generateOrderV4(1617, user1, owner, kBuy, WETH, USDT, ORN, amount, price, FEE)
        sell == generateOrderV4(1618, broker, owner, kSell, WETH, USDT, ORN, amount, price, 0)
    IN <<Phase(<<mintAndDeposit(ORN, user1, FEE), <<mintAndApprove(USDT, user1, quote)>>,
                 mintAndDeposit(WETH, broker, amount)>>, {}),
         Phase(<<<<Moving(fillOrders(buy, sell, price, amount),
                       {<<"exchange", user1, WETH, amount>>, <<"exchange", user1, USDT, 0>>,
                        <<"exchange", user1, ORN, -FEE>>, <<"wallet", user1, USDT, -quote>>,
                        <<"wallet", user1, ORN, 0>>, <<"wallet", user1, WETH, 0>>})>>>>, {})>>

ApprovedMethodTrades ==
    setCollateralAndPriceOracles \o mintAndApproveTokens \o BothFromWallet \o DepositOfUser2
    \o WalletAgainstContract \o FeeInAssetOut \o BrokerGoesIntoLiability \o BrokerGoesDeeper
    \o TradeWithEther \o ReceivesLessThanFee \o SomeOnWalletSomeOnContract \o FeeOnContract

-------------------------------------------------------------------------------
TradeSuite ==
    [exchangeBalance |-> ExchangeBalanceOnTrade, partialLiabilities |-> PartialLiabilities,
     approvedMethod |-> ApprovedMethodTrades]
===============================================================================
