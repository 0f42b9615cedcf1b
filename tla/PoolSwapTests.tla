---------------------------- MODULE PoolSwapTests ----------------------------
(***************************************************************************)
(* The tests with pools of a hundred ORN at 15 USDT: swaps of users, and   *)
(* orders that are filled in part or not at all.  A token counts as a      *)
(* twentieth of one, prices stay what they are, and any smaller amount     *)
(* counts as one.                                                          *)
(* An ether, thousands of USDT in the tests and far from the least amounts *)
(* of the replay, is cheaper here.                                         *)
(***************************************************************************)
EXTENDS DeployFixture

Twentieths(amount) == (amount * Unit) \div 20

ORN_SUPPLY == Twentieths(100)
USDT_SUPPLY == Twentieths(1500)

OrnForUsdt(u, receive, atMost) ==
    swapThroughOrionPool(u, 0, Twentieths(atMost), Twentieths(receive), <<USDT, ORN>>, FALSE)

-------------------------------------------------------------------------------
(* 17_depositless_swapThroughOrionPool: an ether is worth 40 USDT. *)

USDT_AMOUNT == Twentieths(2000)

SwapSetup ==
    <<Phase(<<<<addLiquidity(owner, ORN, USDT, ORN_SUPPLY, USDT_SUPPLY)>>,
              <<addLiquidity(owner, ETH, USDT, Twentieths(100), Twentieths(4000))>>,
              <<mintAndApprove(USDT, user1, USDT_AMOUNT)>>,
              <<mintAndApprove(USDT, user2, USDT_AMOUNT)>>,
              <<mintAndApprove(USDT, user3, USDT_AMOUNT)>>>>,
            {})>>

AfterDepositInContract ==
    <<Phase(<<<<depositAsset(USDT, user1, Twentieths(500)), OrnForUsdt(user1, 13, 500)>>>>,
            {Holds("exchange", user1, ORN, Twentieths(13))}),
      Phase(<<<<OrnForUsdt(user1, 1, 200), cleanupDeposit(USDT, user1),
                OrnForUsdt(user1, 13, 1000)>>>>, {})>>

AfterDepositlessInWallet ==
    <<Phase(<<<<transferToExchange(USDT, user2, Twentieths(1000)), OrnForUsdt(user2, 13, 1000)>>>>,
            {Holds("wallet", user2, ORN, Twentieths(13))}),
      Phase(<<<<OrnForUsdt(user2, 5, 500)>>>>, {Holds("wallet", user2, ORN, Twentieths(18))})>>

AfterDirectDepositlessInWallet ==
    <<Phase(<<<<OrnForUsdt(user3, 13, 1000)>>>>, {Holds("wallet", user3, ORN, Twentieths(13))}),
      Phase(<<<<OrnForUsdt(user3, 5, 500)>>>>, {Holds("wallet", user3, ORN, Twentieths(18))})>>

(* The exchange has the five ORN that user4 lacks; they belong to another. *)
PositionNotEnough ==
    <<Phase(<<mintAndDeposit(ORN, user4, Twentieths(10)), mintAndDeposit(ORN, owner, Twentieths(5))>>,
            {}),
      Phase(<<<<Reverts(swapThroughOrionPool(user4, 0, Twentieths(15), Twentieths(100),
                            <<ORN, USDT>>, TRUE)),
                cleanupDeposit(ORN, user4)>>>>, {})>>

NativeFromWalletFails ==
    <<Phase(<<<<deposit(owner, Twentieths(16))>>>>, {}),
      Phase(<<<<Reverts(swapThroughOrionPool(user4, 0, Twentieths(15), 0, <<ETH, USDT>>, TRUE))>>>>,
            {})>>

(* The second swap is sent a twentieth more ether than the router asks for *)
(* 500 USDT, and gets it back.                                             *)
PayableNativeSwap ==
    LET more == 101
    IN <<Phase(<<<<deposit(owner, Twentieths(16))>>>>, {}),
         Phase(<<<<Settling(
                     Moving(swapThroughOrionPool(user4, Twentieths(15), Twentieths(15),
                                Twentieths(1), <<ETH, USDT>>, TRUE),
                            {<<"wallet", user4, ETH, -Twentieths(15)>>}),
                     "wallet", "wallet"),
                   Settling(
                     Moving(swapThroughOrionPool(user4, more, more, Twentieths(500),
                                <<ETH, USDT>>, FALSE),
                            {<<"wallet", user4, USDT, Twentieths(500)>>}),
                     "wallet", "wallet"),
                   cleanupDeposit(USDT, user4)>>>>, {})>>

(* Less ether than the swap spends is a deposit. *)
DualNativeSwap ==
    <<Phase(<<<<deposit(user4, Twentieths(5)),
                Settling(
                  Moving(swapThroughOrionPool(user4, Twentieths(10), Twentieths(15), Twentieths(1),
                             <<ETH, USDT>>, TRUE),
                         {<<"wallet", user4, ETH, -Twentieths(10)>>, <<"wallet", user4, USDT, 0>>}),
                  "exchange", "exchange")>>>>, {})>>

DepositlessSwap ==
    SwapSetup \o AfterDepositInContract \o AfterDepositlessInWallet
    \o AfterDirectDepositlessInWallet \o PositionNotEnough \o NativeFromWalletFails
    \o PayableNativeSwap \o DualNativeSwap

-------------------------------------------------------------------------------
(* 13_swap_through_pool_approve: an ether is worth 300 USDT; where the     *)
(* test sells a thousand ORN, fifty are sold.                              *)

ApproveSetup ==
    <<Phase(<<<<addLiquidity(owner, ORN, USDT, ORN_SUPPLY, USDT_SUPPLY)>>,
              <<addLiquidity(owner, ETH, USDT, Twentieths(50), Twentieths(15000))>>,
              <<addLiquidity(owner, ETH, ORN, Twentieths(50), Twentieths(1000))>>,
              <<mintAndApprove(USDT, user1, Twentieths(10000))>>>>,
            {})>>

ExactSpend(u, amount, least, path) == swapThroughOrionPool(u, 0, amount, least, path, TRUE)

BaseSwap ==
    <<Phase(<<<<approve(ORN, user1, Twentieths(14)), OrnForUsdt(user1, 13, 1000),
                OrnForUsdt(user1, 1, 1000), Reverts(OrnForUsdt(user1, 10, 1)),
                ExactSpend(user1, Twentieths(14), Twentieths(1), <<ORN, USDT>>)>>>>,
            {Holds("custody", owner, ORN, 0), Holds("custody", owner, USDT, 0)}
            \cup {Holds("exchange", user1, a, 0) : a \in {ORN, USDT}})>>

EnoughApproval ==
    <<Phase(<<<<mintAndApprove(ORN, user1, Twentieths(20))>>>>, {Holds("exchange", user1, ORN, 0)}),
      Phase(<<<<Settling(ExactSpend(user1, Twentieths(20), Twentieths(1), <<ORN, USDT>>),
                         "wallet", "wallet")>>>>,
            {Holds("exchange", user1, USDT, 0)})>>

EtherForUsdt ==
    <<Phase(<<<<deposit(user1, Twentieths(1))>>>>, {Holds("exchange", user1, ETH, Twentieths(1))}),
      Phase(<<<<Reverts(ExactSpend(user1, Twentieths(1) + 1, 1, <<ETH, USDT>>)),
                Settling(ExactSpend(user1, Twentieths(1), 1, <<ETH, USDT>>),
                         "exchange", "exchange")>>>>,
            {Holds("exchange", user1, ETH, 0)})>>

NothingLeftOnExchange(u) == {Holds("exchange", u, a, 0) : a \in {ORN, USDT, ETH}}

FromWalletToWallet(u, amount, path) ==
    <<Phase(<<<<mintAndApprove(First(path), u, amount)>>>>, NothingLeftOnExchange(u)),
      Phase(<<<<Settling(ExactSpend(u, amount, 1, path), "wallet", "wallet")>>>>,
            NothingLeftOnExchange(u))>>

UsdtForEther == FromWalletToWallet(user2, Twentieths(1000), <<USDT, ETH>>)
OrnUsdtEther == FromWalletToWallet(user2, Twentieths(50), <<ORN, USDT, ETH>>)
OrnEtherUsdt == FromWalletToWallet(user2, Twentieths(50), <<ORN, ETH, USDT>>)

OrnEtherUsdtExact ==
    LET enough == Twentieths(10000)
        exact == Twentieths(10)
    IN <<Phase(<<<<mintAndApprove(ORN, user3, enough)>>>>, NothingLeftOnExchange(user3)),
         Phase(<<<<Settling(
                     Moving(swapThroughOrionPool(user3, 0, enough, exact, <<ORN, ETH, USDT>>, FALSE),
                            {<<"wallet", user3, USDT, exact>>}),
                     "wallet", "wallet")>>>>,
               NothingLeftOnExchange(user2))>>

SwapWithApproval ==
    ApproveSetup \o BaseSwap \o EnoughApproval \o EtherForUsdt \o UsdtForEther \o OrnUsdtEther
    \o OrnEtherUsdt \o OrnEtherUsdtExact

-------------------------------------------------------------------------------
(* 11_fill_orionpool_advanced: the pool of ether has a hundred, not one.   *)

balancer == liquidator

AdvancedSetup ==
    <<Phase(<<<<addLiquidity(owner, ORN, USDT, ORN_SUPPLY, USDT_SUPPLY)>>,
              <<addLiquidity(owner, ETH, ORN, Twentieths(100), ORN_SUPPLY)>>,
              <<mint(ORN, balancer, Twentieths(100000)), mint(USDT, balancer, Twentieths(100000))>>>>,
            {})>>

(* The balancer brings the price back to about 15. *)
Balance(amount) == swapAtRouter(balancer, amount, 1, <<ORN, USDT>>, TRUE)

RouterKeepsMaximum ==
    LET bought == Twentieths(17)
        addition == Twentieths(33)
        increased == getAmountIn(bought, USDT_SUPPLY, ORN_SUPPLY) + addition
    IN <<Phase(<<<<burnToken(ORN, owner), burnToken(USDT, owner), mint(USDT, owner, increased),
                   swapAtRouter(owner, increased, bought, <<USDT, ORN>>, FALSE)>>>>,
               {Holds("wallet", owner, ORN, bought), Holds("wallet", owner, USDT, addition)}),
         Phase(<<<<Balance(bought)>>>>, {})>>

(* The matcher asks for the fee of the gas only. *)
BuyAtWorstPrice ==
    LET bought == Twentieths(13)
        gasFee == Twentieths(36)
        fee == gasFee + FEE
        buy == generateOrderV4(1101, user1, owner, kBuy, ORN, USDT, ORN, bought, ToExchAny(20), fee)
    IN <<Phase(<<mintAndDeposit(USDT, user1, 13 * Twentieths(20)) \o mintAndDeposit(ORN, user1, fee)>>,
               {}),
         Phase(<<<<Settling(
                     Moving(fillThroughOrionPool(buy, bought, gasFee, <<USDT, ORN>>),
                            {<<"exchange", user1, ORN, bought - gasFee>>}),
                     "exchange", "exchange")>>>>,
               {Holds("exchange", owner, ORN, gasFee)}),
         Phase(<<<<Balance(bought)>>>>, {})>>

(* The pool pays 12.8 for an ORN.  An order for more is not filled, and    *)
(* pays its fee.                                                           *)
SellOrders ==
    LET sold == Twentieths(17)
        sellAt(nonce, price) ==
            fillThroughOrionPool(
                generateOrderV4(nonce, user1, owner, kSell, ORN, USDT, ORN, sold, price, FEE),
                sold, FEE, <<ORN, USDT>>)
        onlyFee == {<<"exchange", user1, USDT, 0>>, <<"exchange", owner, ORN, FEE>>,
                    <<"exchange", user1, ORN, -FEE>>}
    IN <<Phase(<<mintAndDeposit(ORN, user1, Twentieths(10000))>>, {}),
         Phase(<<<<sellAt(1102, ToExchAny(20)),
                   Moving(sellAt(1103, ToExchAny(13)), onlyFee),
                   Settling(Moving(sellAt(1104, Tenths(128)),
                                {<<"exchange", owner, ORN, FEE>>,
                                 <<"exchange", user1, ORN, -sold - FEE>>}),
                            "exchange", "exchange")>>>>, {})>>

PartialFills ==
    LET sold == Twentieths(2)
        half == Twentieths(1)
        fillHalf == fillThroughOrionPool(
            generateOrderV4(1105, user1, owner, kSell, ORN, USDT, ORN, sold, 1, FEE),
            half, FEE, <<ORN, USDT>>)
        sellsHalf == Moving(fillHalf, {<<"exchange", user1, ORN, -half - FEE>>})
    IN <<Phase(<<mintAndDeposit(ORN, user1, Twentieths(100))>>, {}),
         Phase(<<<<sellsHalf, sellsHalf, Reverts(fillHalf)>>>>, {})>>

SellOrnForEther ==
    LET sold == Twentieths(10)
        sell == generateOrderV4(1106, user2, owner, kSell, ORN, ETH, ORN, sold, 1, FEE)
    IN <<Phase(<<mintAndDeposit(ORN, user2, sold + FEE)>>, {}),
         Phase(<<<<Settling(
                     Moving(fillThroughOrionPool(sell, sold, FEE, <<ORN, ETH>>),
                            {<<"exchange", user2, ORN, -sold - FEE>>, <<"wallet", user2, ETH, 0>>}),
                     "exchange", "exchange")>>>>, {})>>

FillAdvanced ==
    AdvancedSetup \o RouterKeepsMaximum \o BuyAtWorstPrice \o SellOrders \o PartialFills
    \o SellOrnForEther

-------------------------------------------------------------------------------
PoolSwapSuite ==
    [depositlessSwap |-> DepositlessSwap, approval |-> SwapWithApproval, advanced |-> FillAdvanced]

===============================================================================
