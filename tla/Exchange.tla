------------------------------- MODULE Exchange -------------------------------
(***************************************************************************)
(* The exchange contract: deposits, withdrawals, the settlement of matched *)
(* orders (from balances, from wallets, or on credit), liquidation and the *)
(* owner's settings, with its environment: block time, the price feed and  *)
(* the approvals users give to token contracts.                            *)
(***************************************************************************)
EXTENDS MarginalFunctionality, LibValidator

CONSTANTS
    Uint112Max,
    \* the inputs of each operation: by user and asset,
    DepositAmounts, WithdrawAmounts, ApproveAmounts, LiquidationAmounts,
    StakeAmounts,                           \* by user,
    FillAmounts, FillPrices, FeedTimes,     \* and for everyone
    SettingsChoices, RiskChoices, OwnerTargets

ASSUME ExchangeAssumption ==
    /\ Uint112Max \in Nat
    /\ {DepositAmounts, WithdrawAmounts, ApproveAmounts, LiquidationAmounts}
          \subseteq [Users -> [Assets -> SUBSET Nat]]
    /\ StakeAmounts \in [Users -> SUBSET Nat]
    /\ FillAmounts \subseteq Nat /\ FillPrices \subseteq Nat
    /\ FeedTimes \subseteq Nat
    /\ SettingsChoices \subseteq Settings
    /\ RiskChoices \subseteq [Assets -> Nat]
    /\ OwnerTargets \subseteq Users

vars == <<assetBalances, liabilities, filledAmounts, settings, assetRisks,
          wallet, allowance, held, stakingData, assetPrices, now>>

-------------------------------------------------------------------------------
(***************************************************************************)
(* A transaction is computed on a record of the variables it goes through; *)
(* reverted is set when one of its steps reverts.                          *)
(***************************************************************************)
Ledger ==
    [assetBalances |-> assetBalances, liabilities |-> liabilities,
     wallet |-> wallet, allowance |-> allowance, held |-> held,
     reverted |-> FALSE]

Commit(L) ==
    /\ ~L.reverted
    /\ assetBalances' = L.assetBalances
    /\ liabilities' = L.liabilities
    /\ wallet' = L.wallet
    /\ allowance' = L.allowance
    /\ held' = L.held

Require(L, condition) == [L EXCEPT !.reverted = @ \/ ~condition]

AddBalance(L, user, asset, amount) ==
    [L EXCEPT !.assetBalances[user][asset] = @ + amount]

(* ERC20 transferFrom of an approved amount, or ether sent with the call. *)
Receive(L, user, asset, base) ==
    [L EXCEPT !.wallet[user][asset] = @ - base,
              !.allowance[user][asset] = IF asset = ETH THEN @ ELSE @ - base,
              !.held[asset] = @ + base]

(* safeTransfer, or an ether transfer, from the exchange to the user. *)
Send(L, user, asset, base) ==
    [L EXCEPT !.wallet[user][asset] = @ + base,
              !.held[asset] = @ - base]

(* Slip: the balance of the payer is not looked at. *)
CanReceiveUnchecked(L, user, asset, base) ==
    asset = ETH \/ L.allowance[user][asset] >= base

CanReceive(L, user, asset, base) ==
    L.wallet[user][asset] >= base /\ (asset = ETH \/ L.allowance[user][asset] >= base)

-------------------------------------------------------------------------------
(* A user goes short: a new entry for the whole negative balance. *)
setLiability(L, user, asset, balance) ==
    [L EXCEPT !.liabilities[user] =
        Append(@, [asset |-> asset, timestamp |-> now, outstandingAmount |-> -balance])]

coverLiability(L, user, asset, amount, balance) ==
    [L EXCEPT !.liabilities[user] = updateLiability(@, asset, amount, balance)]

(* All of the missing amount comes from the wallet, or none of it. *)
CanPull(L, user, asset, amount) ==
    asset # ETH /\ CanReceive(L, user, asset, DecimalToBaseUnit(asset, amount))

(* Slip: a transfer that did not happen is taken for a deposit. *)
_tryDepositNothing(L, user, asset, amount) == L

_tryDeposit(L, user, asset, amount) ==
    Receive(L, user, asset, DecimalToBaseUnit(asset, amount))

(***************************************************************************)
(* fromWallet is the code's tradeType: the debit was paid by the wallet    *)
(* of a user with nothing of the asset on the exchange.                    *)
(***************************************************************************)
_updateBalance(L, user, asset, amount) ==
    LET before == L.assetBalances[user][asset]
        after == before + amount
        short == before >= 0 /\ after < 0
        updated == AddBalance(L, user, asset, amount)
        checked == Require(L, asset = ETH \/ FitsInt112(DecimalToBaseUnit(asset, -after)))
    IN CASE amount > 0 /\ before < 0 ->
              [ledger |-> coverLiability(updated, user, asset, amount, after),
               fromWallet |-> FALSE]
         [] short /\ CanPull(L, user, asset, -after) ->
              [ledger |-> AddBalance(_tryDeposit(checked, user, asset, -after),
                                     user, asset, -before),
               fromWallet |-> before = 0]
         [] short /\ ~CanPull(L, user, asset, -after) ->
              [ledger |-> setLiability(AddBalance(checked, user, asset, amount),
                                       user, asset, after),
               fromWallet |-> FALSE]
         [] ~short /\ ~(amount > 0 /\ before < 0) ->
              [ledger |-> updated, fromWallet |-> FALSE]

(* Slip: every partial fill pays the fee of the whole order. *)
MatcherFeeWhole(order, filledAmount) == order.matcherFee

(* The fee shrinks with the part of the order that is filled. *)
MatcherFee(order, filledAmount) == (order.matcherFee * filledAmount) \div order.amount

(* What the order gives and what it is due; the fee is taken from either   *)
(* of them when it is in that asset, else from the balance of its asset.   *)
updateOrderBalanceDebit(L, order, isSeller, amountBase, amountQuote, fee) ==
    LET user == order.senderAddress
        assetOut == IF isSeller THEN order.baseAsset ELSE order.quoteAsset
        assetIn == IF isSeller THEN order.quoteAsset ELSE order.baseAsset
        amountOut == IF isSeller THEN amountBase ELSE amountQuote
        amountIn == IF isSeller THEN amountQuote ELSE amountBase
        feeOut == order.matcherFeeAsset = assetOut
        feeIn == ~feeOut /\ order.matcherFeeAsset = assetIn
        paid == IF feeOut \/ feeIn THEN [ledger |-> L, fromWallet |-> TRUE]
                ELSE _updateBalance(L, user, order.matcherFeeAsset, -fee)
        debited == _updateBalance(paid.ledger, user, assetOut,
                                  -amountOut - (IF feeOut THEN fee ELSE 0))
        matched == _updateBalance(debited.ledger, order.matcherAddress,
                                  order.matcherFeeAsset, fee)
    IN IF amountBase = 0 THEN [ledger |-> L, fromWallet |-> FALSE, actualIn |-> 0]
       ELSE [ledger |-> matched.ledger,
             fromWallet |-> paid.fromWallet /\ debited.fromWallet,
             actualIn |-> amountIn - (IF feeIn THEN fee ELSE 0)]

(* Slip: what went to the wallet is credited to the balance as well. *)
creditUserAssetsTwice(L, fromWallet, user, amount, asset) ==
    LET before == L.assetBalances[user][asset]
        remaining == amount + before
        base == DecimalToBaseUnit(asset, remaining)
        sent == fromWallet /\ remaining > 0 /\ before <= 0 /\ L.held[asset] >= base
        paid == IF sent THEN Send(L, user, asset, base) ELSE L
    IN _updateBalance(paid, user, asset, amount).ledger

(* What a wallet trade is due goes to the wallet, if the exchange has it;  *)
(* an older debt in the asset is paid first.                               *)
creditUserAssets(L, fromWallet, user, amount, asset) ==
    LET before == L.assetBalances[user][asset]
        remaining == amount + before
        base == DecimalToBaseUnit(asset, remaining)
        toWallet == fromWallet /\ remaining > 0 /\ before <= 0
        checked == Require(L, toWallet => FitsInt112(base))
        sent == toWallet /\ L.held[asset] >= base
        toUpdate == IF sent THEN -before ELSE amount
        paid == IF sent THEN Send(checked, user, asset, base) ELSE checked
    IN IF toUpdate = 0 THEN paid ELSE _updateBalance(paid, user, asset, toUpdate).ledger

-------------------------------------------------------------------------------
(* Operations of users. *)

(* Slip: a deposit that covers a debt leaves the list of debts alone. *)
generalDepositOnly(L, user, asset, amount) ==
    AddBalance(L, user, asset, BaseUnitToDecimal(asset, amount))

generalDeposit(L, user, asset, amount) ==
    LET decimal == BaseUnitToDecimal(asset, amount)
        added == Require(AddBalance(L, user, asset, decimal), FitsInt112(decimal))
    IN IF L.assetBalances[user][asset] < 0
       THEN coverLiability(added, user, asset, decimal, added.assetBalances[user][asset])
       ELSE added

(* depositAsset for tokens; deposit, with the ether of the call, for ETH. *)
Deposit(user, asset, amount) ==
    /\ CanReceive(Ledger, user, asset, amount)
    /\ Commit(generalDeposit(Receive(Ledger, user, asset, amount), user, asset, amount))
    /\ UNCHANGED <<filledAmounts, stakingData, settingsVars, oracleVars>>

(* Slip: the position is not checked after the withdrawal. *)
WithdrawUnchecked(user, asset, amount) ==
    LET decimal == BaseUnitToDecimal(asset, amount)
    IN
    /\ assetBalances[user][asset] >= decimal
    /\ held[asset] >= amount
    /\ Commit(Send(AddBalance(Ledger, user, asset, -decimal), user, asset, amount))
    /\ UNCHANGED <<filledAmounts, stakingData, settingsVars, oracleVars>>

Withdraw(user, asset, amount) ==
    LET decimal == BaseUnitToDecimal(asset, amount)
    IN
    /\ FitsInt112(decimal)
    /\ assetBalances[user][asset] >= decimal
    /\ held[asset] >= amount
    /\ Commit(Send(AddBalance(Ledger, user, asset, -decimal), user, asset, amount))
    /\ UNCHANGED <<filledAmounts, stakingData, settingsVars, oracleVars>>
    /\ checkPosition(user)'

(* A user approves the exchange in the token contract. *)
Approve(user, asset, amount) ==
    /\ asset # ETH
    /\ allowance' = [allowance EXCEPT ![user][asset] = amount]
    /\ UNCHANGED <<assetBalances, liabilities, wallet, held,
                   filledAmounts, stakingData, settingsVars, oracleVars>>

-------------------------------------------------------------------------------
(* Operations of the matcher. *)

Settle(buyOrder, sellOrder, filledAmount, amountQuote) ==
    LET bought == updateOrderBalanceDebit(Ledger, buyOrder, FALSE, filledAmount,
                      amountQuote, MatcherFee(buyOrder, filledAmount))
        sold == updateOrderBalanceDebit(bought.ledger, sellOrder, TRUE, filledAmount,
                      amountQuote, MatcherFee(sellOrder, filledAmount))
        buyerCredited == creditUserAssets(sold.ledger, bought.fromWallet,
                      buyOrder.senderAddress, bought.actualIn, buyOrder.baseAsset)
    IN creditUserAssets(buyerCredited, sold.fromWallet,
                      sellOrder.senderAddress, sold.actualIn, sellOrder.quoteAsset)

FillOrders(sender, buyOrder, sellOrder, filledPrice, filledAmount) ==
    LET amountQuote == (filledAmount * filledPrice) \div Unit
        buyOrderHash == getTypeValueHash(buyOrder)
        sellOrderHash == getTypeValueHash(sellOrder)
        buyFilled == [filledAmounts EXCEPT ![buyOrderHash] = @ + filledAmount]
    IN
    /\ amountQuote < Uint112Max
    /\ checkOrdersInfo(buyOrder, sellOrder, sender, filledAmount, filledPrice)
    /\ filledAmounts[buyOrderHash] + filledAmount <= buyOrder.amount
    /\ filledAmounts[sellOrderHash] + filledAmount <= sellOrder.amount
    /\ buyOrder.amount > 0 /\ sellOrder.amount > 0  \* else a division by zero
    /\ filledAmounts' = [buyFilled EXCEPT ![sellOrderHash] = @ + filledAmount]
    /\ Commit(Settle(buyOrder, sellOrder, filledAmount, amountQuote))
    /\ UNCHANGED <<stakingData, settingsVars, oracleVars>>
    /\ checkPosition(buyOrder.senderAddress)'
    /\ checkPosition(sellOrder.senderAddress)'

-------------------------------------------------------------------------------
(* Operations of the owner. *)

UpdateMarginalSettings(newSettings) ==
    /\ settings' = newSettings
    /\ UNCHANGED <<assetRisks, ledgerVars, filledAmounts, stakingData, oracleVars>>

UpdateAssetRisks(risks) ==
    /\ assetRisks' = risks
    /\ UNCHANGED <<settings, ledgerVars, filledAmounts, stakingData, oracleVars>>

-------------------------------------------------------------------------------
Init == OracleInit /\ StorageInit /\ VaultInit

(* The oracle and the clock, which the exchange only reads. *)
OracleStep ==
    /\ \/ \E feed \in Feeds, t \in FeedTimes : ProvideData(feed, t)
       \/ Tick
    /\ UNCHANGED <<ledgerVars, filledAmounts, settingsVars, stakingData>>

UserStep ==
    \E u \in Users :
        \/ \E a \in Assets : \E x \in DepositAmounts[u][a] : Deposit(u, a, x)
        \/ \E a \in Assets : \E x \in WithdrawAmounts[u][a] : Withdraw(u, a, x)
        \/ \E a \in Assets : \E x \in ApproveAmounts[u][a] : Approve(u, a, x)
        \/ \E x \in StakeAmounts[u] : LockStake(u, x)
        \/ RequestReleaseStake(u)
        \/ \E b \in Users, a \in Assets : \E x \in LiquidationAmounts[u][a] :
              PartiallyLiquidate(u, b, a, x)

MatcherStep ==
    \E m \in Users, buy \in Orders, sell \in Orders, p \in FillPrices, x \in FillAmounts :
        FillOrders(m, buy, sell, p, x)

OwnerStep ==
    \/ \E s \in SettingsChoices : UpdateMarginalSettings(s)
    \/ \E r \in RiskChoices : UpdateAssetRisks(r)
    \/ \E u \in OwnerTargets : PostponeStakeRelease(u) \/ AllowStakeRelease(u)

Next == OracleStep \/ UserStep \/ MatcherStep \/ OwnerStep

Spec == Init /\ [][Next]_vars
===============================================================================
