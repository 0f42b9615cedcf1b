-------------------------- MODULE ExchangeProperties --------------------------
(***************************************************************************)
(* What the exchange promises its users, as invariants and action          *)
(* properties of the specification in Exchange.                            *)
(***************************************************************************)
EXTENDS Exchange

(* Every variable has its type (balances may be negative, nothing else). *)
TypeOK == OracleTypeOK /\ StorageTypeOK /\ VaultTypeOK

-------------------------------------------------------------------------------
(* Debts and the list of debts. *)

Owes(user, asset) == assetBalances[user][asset] < 0

Listed(user) == {liabilities[user][i].asset : i \in DOMAIN liabilities[user]}

(* A debt is always on the user's list of liabilities, whatever sequence of
   fills, covers, removals (by swap with the last entry) and liquidations led
   to it: an unlisted debt would be counted by no position check. *)
NegativeIsListed ==
    \A u \in Users, a \in Assets : Owes(u, a) => a \in Listed(u)

(* An entry of the list is a debt, and the only entry of its asset, for every
   asset but ORN: no path that brings a balance back above zero forgets to
   remove the entry (ExchangeStorage.sol:22). *)
ListedIsOwed ==
    \A u \in Users : \A i \in DOMAIN liabilities[u] :
        liabilities[u][i].asset # ORN =>
            /\ Owes(u, liabilities[u][i].asset)
            /\ \A j \in DOMAIN liabilities[u] :
                  liabilities[u][j].asset = liabilities[u][i].asset => i = j

(* The same for ORN, which rewards of liquidations also pay. *)
OrnListedIsOwed ==
    \A u \in Users : ORN \in Listed(u) => Owes(u, ORN)

(* A borrower has a stake that is not on its way out, through every order of
   locking, release requests, the owner's freezes and seizures by liquidators
   (OrionVault.sol:88: unlock and withdrawal are impossible with liabilities). *)
BorrowersHaveStake ==
    \A u \in Users : liabilities[u] # <<>> =>
        /\ stakingData[u].amount > 0
        /\ stakingData[u].phase \in {"LOCKED", "FROZEN", "READYTORELEASE"}

(* What is still outstanding of the debt the clock was started for is no more
   than the debt (MarginalFunctionality.sol:10-15). *)
OutstandingWithinDebt ==
    \A u \in Users : \A i \in DOMAIN liabilities[u] :
        LET entry == liabilities[u][i] IN
        entry.asset # ORN => entry.outstandingAmount <= -assetBalances[u][entry.asset]

-------------------------------------------------------------------------------
(* Custody. *)

Staked(user, asset) == IF asset = ORN THEN stakingData[user].amount ELSE 0

OwedToUsers(asset) ==
    SumFunction([u \in Users |-> assetBalances[u][asset] + Staked(u, asset)])

(* held and owed in the same unit: base units times Unit. *)
Surplus(asset) == held[asset] * Unit - OwedToUsers(asset) * BaseUnit[asset]

(* The tokens the contract holds are exactly the balances and stakes it owes,
   debts counted negative: no deposit, withdrawal, pull from a wallet, payment
   to a wallet, fee, stake or liquidation creates or loses value.  For tokens
   whose base unit is the exchange's unit; others lose dust, see DustBounded. *)
Backed == \A a \in Assets : BaseUnit[a] = Unit => Surplus(a) = 0

(* With other decimals a transaction rounds: one transaction takes less than
   two units (one per order) from what backs the balances. *)
DustBounded ==
    [][\A a \in Assets :
          Surplus(a)' > Surplus(a) - 2 * Max({Unit, BaseUnit[a]})]_vars

-------------------------------------------------------------------------------
(* Consent. *)

Wealth(user, asset) ==
    assetBalances[user][asset] + wallet[user][asset] + Staked(user, asset)

(* What the terms of an order grant for a fill of amount d. *)
Terms(order, d, asset) ==
    LET quote == (d * order.price) \div Unit
        sign == IF order.buySide = kBuy THEN 1 ELSE -1
    IN (IF asset = order.baseAsset THEN sign * d ELSE 0)
       - (IF asset = order.quoteAsset THEN sign * quote ELSE 0)
       - (IF asset = order.matcherFeeAsset
          THEN (order.matcherFee * d) \div order.amount ELSE 0)

FillOf(order) == filledAmounts[getTypeValueHash(order)]

(* The orders of the user that the step fills. *)
Filled(user) == {o \in SignedOrders : o.senderAddress = user /\ FillOf(o)' # FillOf(o)}

Due(user, asset) ==
    SumFunction([o \in Filled(user) |-> Terms(o, FillOf(o)' - FillOf(o), asset)])

WealthChange(user, asset) == Wealth(user, asset)' - Wealth(user, asset)

BalanceChange(user, asset) == assetBalances'[user][asset] - assetBalances[user][asset]

(* The debts of the user that the step pays, valued by the oracle. *)
RedeemedValue(user) ==
    SumFunction([a \in {x \in Assets : Owes(user, x)} |->
                    BalanceChange(user, a) * assetPrices[a].price])

(* A liquidated borrower pays, in ORN, the debt redeemed and the premium;
   a liquidator pays no more than a borrower's debt goes down.  (When a debt in ORN itself is paid in
   full, what was redeemed cannot be told from what was charged.) *)
LiquidationPayment(user, asset) ==
    /\ UNCHANGED filledAmounts
    /\ \/ /\ asset = ORN
          /\ calcPosition(user).state \in {"NEGATIVE", "OVERDUE"}
          /\ \/ -WealthChange(user, ORN) * Unit * 255
                   <= RedeemedValue(user) * (255 + settings.liquidationPremium)
             \/ Owes(user, ORN) /\ assetBalances'[user][ORN] >= 0
       \/ \E v \in Users \ {user} :
             /\ Owes(v, asset)
             /\ BalanceChange(v, asset) >= -WealthChange(user, asset)

(* A step changes what a user owns of an asset, on the exchange, in the wallet
   and in the stake together, by no less than the terms of the user's own
   signed orders give for the amounts they are filled by, limit price and
   fee included.  Otherwise only a liquidation takes anything: the redeemed
   amount from the liquidator, and from a borrower in a negative or overdue
   position no more than the price of the redeemed debt and the premium
   (docs/README.md: no central authority can seize assets of a user who does
   not participate in marginal trading).  Balance and wallet can be added for
   tokens whose base unit is the exchange's unit. *)
TermsHonoured ==
    [][\A u \in Users, a \in Assets : BaseUnit[a] = Unit =>
          WealthChange(u, a) >= Due(u, a) \/ LiquidationPayment(u, a)]_vars

-------------------------------------------------------------------------------
(* Margin. *)

(* Tokens leave to a wallet, and a debt deepens, only in a transaction that
   leaves that user's position positive, with the stake, prices and balances
   the transaction ends with. *)
NewRiskIsCovered ==
    [][\A u \in Users, a \in Assets :
          \/ wallet'[u][a] > wallet[u][a]
          \/ assetBalances'[u][a] < 0 /\ assetBalances'[u][a] < assetBalances[u][a]
          => checkPosition(u)']_vars

(* The clock of a debt restarts only when the step covers all that was
   outstanding (MarginalFunctionality.sol:10-15). *)
TimerNeedsCover ==
    [][\A u \in Users :
         \A i \in DOMAIN liabilities[u], j \in DOMAIN liabilities'[u] :
            LET old == liabilities[u][i]
                new == liabilities'[u][j]
            IN /\ new.asset = old.asset
               /\ new.timestamp # old.timestamp
               => BalanceChange(u, old.asset) >= old.outstandingAmount]_vars

(* And a step that covers all that was outstanding of a debt, without paying
   the whole debt, restarts its clock (same comment: "once outstandingAmount is
   covered ... time counter is dropped and timestamp set to now"). *)
CoverRestartsTimer ==
    [][\A u \in Users :
         \A i \in DOMAIN liabilities[u], j \in DOMAIN liabilities'[u] :
            LET old == liabilities[u][i]
                new == liabilities'[u][j]
            IN /\ new.asset = old.asset
               /\ BalanceChange(u, old.asset) > 0
               /\ BalanceChange(u, old.asset) >= old.outstandingAmount
               /\ assetBalances'[u][old.asset] < 0
               => new.timestamp = now]_vars
===============================================================================
