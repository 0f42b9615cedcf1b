------------------------- MODULE ExchangeWithOrionPool -------------------------
(***************************************************************************)
(* The exchange with the pool as a counterparty: orders filled by a chain  *)
(* of swaps, and swaps of users, paid by balances on the exchange or by    *)
(* wallets.  The pairs are their reserves; they stay in line with them     *)
(* between transactions (ReservesCovered) and accept what the library      *)
(* quotes (QuoteKeepsProduct, QuotedInputKeepsProduct).                    *)
(***************************************************************************)
EXTENDS Exchange, OrionPoolV2Library

CONSTANTS
    InitialReserves,  \* {a, b} -> a or b -> base units; ETH stands for WETH
    MarketReserves,   \* what other traders may make of the reserves
    Paths,            \* non-empty chains of pairs
    PoolFillAmounts,
    BlockchainFees,   \* what the matcher asks as a fee
    PoolSwaps         \* what users ask: [value, spend, receive, path, exact]

Pools == DOMAIN InitialReserves

ReservesType == [Pools -> [Assets -> Nat]]

(* The code accepts paths that come back to a pair; these are left out. *)
ASSUME PoolAssumption ==
    /\ ETH \in Assets
    /\ Pools \subseteq SUBSET Assets
    /\ InitialReserves \in ReservesType
    /\ MarketReserves \subseteq ReservesType
    /\ \A path \in Paths :
          /\ path \in Seq(Assets) /\ Len(path) >= 2
          /\ \A i \in 1 .. Len(path) - 1 :
                /\ path[i] # path[i + 1] /\ PairOf(path, i) \in Pools
                /\ \A j \in 1 .. i - 1 : PairOf(path, i) # PairOf(path, j)
    /\ PoolFillAmounts \subseteq Nat /\ BlockchainFees \subseteq Nat
    /\ PoolSwaps \subseteq [value : Nat, spend : Nat, receive : Nat,
                            path : Paths, exact : BOOLEAN]

VARIABLE reserves

poolVars == <<vars, reserves>>

First(path) == path[1]
Last(path) == path[Len(path)]

-------------------------------------------------------------------------------
(* PoolFunctionality. *)

Quote(spend, receive, path, exact) ==
    IF exact THEN getAmountsOut(reserves, DecimalToBaseUnit(First(path), spend), path)
    ELSE getAmountsIn(reserves, DecimalToBaseUnit(Last(path), receive), path)

(* Slip: the other amount of the request is not looked at. *)
WithinLimitsNever(amounts, spend, receive, path, exact) == TRUE

WithinLimits(amounts, spend, receive, path, exact) ==
    IF exact THEN amounts[Len(path)] >= DecimalToBaseUnit(Last(path), receive)
    ELSE amounts[1] <= DecimalToBaseUnit(First(path), spend)

(* The exchange pays out of its custody; a wallet only with tokens, and    *)
(* through the allowance given to the exchange.                            *)
CanPay(L, user, fromExchange, asset, base) ==
    IF fromExchange THEN L.held[asset] >= base
    ELSE asset # ETH /\ CanReceive(L, user, asset, base)

Pay(L, user, fromExchange, asset, base) ==
    IF fromExchange THEN [L EXCEPT !.held[asset] = @ - base]
    ELSE [L EXCEPT !.wallet[user][asset] = @ - base,
                   !.allowance[user][asset] = @ - base]

(* Slip: the user is paid, also when the exchange credits the output. *)
CollectByWallet(L, user, toExchange, asset, base) ==
    [L EXCEPT !.wallet[user][asset] = @ + base]

Collect(L, user, toExchange, asset, base) ==
    IF toExchange THEN [L EXCEPT !.held[asset] = @ + base]
    ELSE [L EXCEPT !.wallet[user][asset] = @ + base]

(* Every pair of the path takes one amount and gives the next. *)
Swapped(amounts, path) ==
    [pool \in Pools |-> [asset \in Assets |->
        LET hops == {i \in 1 .. Len(path) - 1 : PairOf(path, i) = pool}
        IN IF hops = {} THEN reserves[pool][asset]
           ELSE LET i == CHOOSE i \in hops : TRUE
                IN reserves[pool][asset]
                   + (IF asset = path[i] THEN amounts[i] ELSE 0)
                   - (IF asset = path[i + 1] THEN amounts[i + 1] ELSE 0)]]

(* ok is FALSE when a call of the router reverts.  amountOut is what was   *)
(* paid and amountIn what was received, both rounded down to the units of  *)
(* the exchange.                                                           *)
doSwapThroughOrionPool(L, user, fromExchange, spend, receive, path, exact, toExchange) ==
    LET amounts == Quote(spend, receive, path, exact)
        paid == amounts[1]
        received == amounts[Len(path)]
        amountOut == BaseUnitToDecimal(First(path), paid)
        amountIn == BaseUnitToDecimal(Last(path), received)
    IN [ok |-> /\ \A i \in DOMAIN path : amounts[i] \in Nat \ {0}
               /\ DecimalToBaseUnit(First(path), spend) < Uint112Max
               /\ DecimalToBaseUnit(Last(path), receive) < Uint112Max
               /\ WithinLimits(amounts, spend, receive, path, exact)
               /\ CanPay(L, user, fromExchange, First(path), paid)
               /\ Swapped(amounts, path) \in [Pools -> [Assets -> 0 .. Uint112Max]]
               /\ amountOut < Uint112Max /\ amountIn < Uint112Max,
        ledger |-> Collect(Pay(L, user, fromExchange, First(path), paid),
                           user, toExchange, Last(path), received),
        reserves |-> Swapped(amounts, path),
        amountOut |-> amountOut,
        amountIn |-> amountIn]

-------------------------------------------------------------------------------
(* The address of the matcher is zero until the exchange is set up. *)
initialized == AllowedMatcher # ZeroAddress

_payMatcherFee(L, order, fee) ==
    LET charged == _updateBalance(L, order.senderAddress, order.matcherFeeAsset, -fee)
    IN _updateBalance(charged.ledger, order.matcherAddress, order.matcherFeeAsset, fee).ledger

(* The output stays on the exchange when the fee is taken from it. *)
RetainsFee(order, inContract, path) ==
    ~inContract /\ order.matcherFeeAsset = Last(path)

(* Slip: the matcher gets all that the order offers. *)
LowersFeeNever(order, blockchainFee) == FALSE

LowersFee(order, blockchainFee) == blockchainFee < order.matcherFee

(* The price of the fill, rounded down, is within the limit of the order. *)
PriceHonoured(order, isSeller, filledBase, filledQuote) ==
    /\ filledBase > 0   \* else a division by zero
    /\ isSeller => (filledQuote * Unit) \div filledBase >= order.price
    /\ ~isSeller => (filledQuote * Unit) \div filledBase <= order.price

(* A swap of the whole order has been made: balances follow. *)
SettleSwap(swap, order, isSeller, inContract, filledBase, filledQuote, path) ==
    LET user == order.senderAddress
        debited == updateOrderBalanceDebit(swap.ledger, order, isSeller,
                       filledBase, filledQuote, order.matcherFee)
        feePaid == _payMatcherFee(swap.ledger, order, order.matcherFee)
    IN IF inContract
       THEN creditUserAssets(debited.ledger, debited.fromWallet, user,
                             debited.actualIn, Last(path))
       ELSE IF RetainsFee(order, inContract, path)
       THEN creditUserAssets(feePaid, TRUE, user, swap.amountIn, Last(path))
       ELSE feePaid

(* Slip: the position is not checked. *)
PositionUnchecked(user, needed) == TRUE

PositionChecked(user, needed) == needed => checkPosition(user)'

(* The fill is recorded under the hash of the order with the lowered fee. *)
FillThroughOrionPool(sender, order, filledAmount, blockchainFee, path) ==
    LET user == order.senderAddress
        isSeller == order.buySide = kSell
        amountQuote == (filledAmount * order.price) \div Unit
        spend == IF isSeller THEN filledAmount ELSE amountQuote
        receive == IF isSeller THEN amountQuote ELSE filledAmount
        inContract == First(path) = ETH \/ assetBalances[user][First(path)] > 0
        swap == doSwapThroughOrionPool(Ledger, user, inContract, spend, receive, path,
                    isSeller, inContract \/ RetainsFee(order, inContract, path))
        filledBase == IF isSeller THEN swap.amountOut ELSE swap.amountIn
        filledQuote == IF isSeller THEN swap.amountIn ELSE swap.amountOut
        charged == IF swap.ok /\ LowersFee(order, blockchainFee)
                   THEN [order EXCEPT !.matcherFee = blockchainFee] ELSE order
        orderHash == getTypeValueHash(charged)
        filled == IF swap.ok THEN filledBase ELSE 0
    IN
    /\ initialized
    /\ checkOrderSingleMatch(order, sender, filledAmount, path)
    /\ swap.ok => PriceHonoured(order, isSeller, filledBase, filledQuote)
    /\ filledAmounts[orderHash] + filled <= order.amount
    /\ filledAmounts' = [filledAmounts EXCEPT ![orderHash] = @ + filled]
    /\ Commit(IF swap.ok
              THEN SettleSwap(swap, charged, isSeller, inContract,
                              filledBase, filledQuote, path)
              ELSE _payMatcherFee(Ledger, order, order.matcherFee))
    /\ reserves' = IF swap.ok THEN swap.reserves ELSE reserves
    /\ UNCHANGED <<stakingData, settingsVars, oracleVars>>
    /\ PositionChecked(user, TRUE)

(* The ether that the swap did not need. *)
Refund(sentEnough, value, spent) ==
    IF sentEnough /\ value > spent THEN value - spent ELSE 0

(* Ether sent with the call pays the swap when it is enough for it; what   *)
(* was not needed is sent back.  Otherwise it is a deposit.  What a wallet *)
(* paid in full needs no check of the position.                            *)
SwapThroughOrionPool(user, request) ==
    LET path == request.path
        ethSent == BaseUnitToDecimal(ETH, request.value)
        sentEnough == request.value > 0 /\ First(path) = ETH /\ ethSent >= request.spend
        deposited == request.value > 0 /\ ~sentEnough
        inContract == assetBalances[user][First(path)] > 0 /\ ~sentEnough
        withEther == Receive(Ledger, user, ETH, request.value)
        before == IF deposited THEN _updateBalance(withEther, user, ETH, ethSent).ledger
                  ELSE withEther
        swap == doSwapThroughOrionPool(before, user, inContract \/ sentEnough,
                    request.spend, request.receive, path, request.exact, inContract)
        spent == DecimalToBaseUnit(ETH, swap.amountOut)
        refund == Refund(sentEnough, request.value, spent)
        debited == _updateBalance(swap.ledger, user, First(path), -swap.amountOut).ledger
    IN
    /\ initialized
    /\ wallet[user][ETH] >= request.value
    /\ FitsInt112(ethSent)
    /\ swap.ok
    /\ sentEnough => FitsInt112(spent) /\ swap.ledger.held[ETH] >= refund
    /\ Commit(IF inContract
              THEN _updateBalance(debited, user, Last(path), swap.amountIn).ledger
              ELSE Send(swap.ledger, user, ETH, refund))
    /\ reserves' = swap.reserves
    /\ UNCHANGED <<filledAmounts, stakingData, settingsVars, oracleVars>>
    /\ PositionChecked(user, inContract)

-------------------------------------------------------------------------------
PoolInit == Init /\ reserves = InitialReserves

(* Other traders and liquidity providers use the pairs. *)
MarketStep ==
    /\ reserves' \in MarketReserves
    /\ UNCHANGED vars

PoolStep ==
    \/ \E m \in Users, order \in Orders, x \in PoolFillAmounts, fee \in BlockchainFees,
          path \in Paths : FillThroughOrionPool(m, order, x, fee, path)
    \/ \E u \in Users, request \in PoolSwaps : SwapThroughOrionPool(u, request)
    \/ MarketStep

PoolNext == (Next /\ UNCHANGED reserves) \/ PoolStep

PoolSpec == PoolInit /\ [][PoolNext]_poolVars
================================================================================
