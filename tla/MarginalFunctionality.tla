------------------------ MODULE MarginalFunctionality ------------------------
(***************************************************************************)
(* What a user owes, what covers it, and the liquidation of those who owe  *)
(* too much or for too long.                                               *)
(***************************************************************************)
EXTENDS OrionVault, FiniteSetsExt

CONSTANTS
    Uint64Range,  \* 2^64: timestamps and delays are added modulo it
    Int64Max,     \* bound of the ORN paid by one liquidation
    OrnPriceTime  \* timestamp of the constant price of ORN, 0xfffffff000000000

ASSUME MarginAssumption ==
    /\ Uint64Range \in Nat \ {0}
    /\ Int64Max \in Nat
    /\ OrnPriceTime \in Nat

(* Percentages are bytes, 255 = 1; large amounts are divided first. *)
uint8Percent(a, b) == IF a > 65536 THEN (a \div 255) * b ELSE (a * b) \div 255

(* Division of a signed amount by 10^8 truncates towards zero. *)
PerUnit(x) == IF x >= 0 THEN x \div Unit ELSE -((-x) \div Unit)

(* A uint64 sum compared with the block time: both wrap silently. *)
Expired(timestamp, delay) == (timestamp + delay) % Uint64Range < now

-------------------------------------------------------------------------------
(* Collateral: the assets of the owner's list that the user holds. *)

CollateralPrice(asset) ==
    IF asset = ORN THEN [price |-> Unit, timestamp |-> OrnPriceTime]
                   ELSE assetPrices[asset]

AssetValue(user, asset) ==
    IF assetBalances[user][asset] < 0 THEN 0
    ELSE PerUnit(assetBalances[user][asset] * CollateralPrice(asset).price)

(* calcAssets runs over the list: an asset listed twice counts twice. *)
calcAssets(user) ==
    LET list == settings.collateralAssets
        counted == {i \in DOMAIN list : AssetValue(user, list[i]) > 0}
    IN [outdated |-> \E i \in counted :
                        Expired(CollateralPrice(list[i]).timestamp, settings.priceOverdue),
        weightedPosition |->
            MapThenSumSet(LAMBDA i : uint8Percent(AssetValue(user, list[i]),
                                                  assetRisks[list[i]]), counted),
        totalPosition |->
            MapThenSumSet(LAMBDA i : AssetValue(user, list[i]), counted)]

(* Liabilities: every entry of the user's list, at the oracle's price. *)
LiabilityValue(user, asset) == PerUnit(assetBalances[user][asset] * assetPrices[asset].price)

calcLiabilities(user) ==
    LET list == liabilities[user] IN
    [outdated |-> \E i \in DOMAIN list :
                     Expired(assetPrices[list[i].asset].timestamp, settings.priceOverdue),
     overdue |-> \E i \in DOMAIN list :
                     Expired(list[i].timestamp, settings.positionOverdue),
     position |-> MapThenSumSet(LAMBDA i : LiabilityValue(user, list[i].asset), DOMAIN list)]

calcPosition(user) ==
    LET covers == calcAssets(user)
        owes == calcLiabilities(user)
        locked == getLockedStakeBalance(user)
        weighted == covers.weightedPosition + uint8Percent(locked, settings.stakeRisk)
                    + owes.position
    IN [state |->
            IF liabilities[user] # <<>> /\ locked = 0 THEN "INCORRECT"
            ELSE IF owes.overdue THEN "OVERDUE"
            ELSE IF covers.outdated \/ owes.outdated THEN "NOPRICE"
            ELSE IF weighted < 0 THEN "NEGATIVE" ELSE "POSITIVE",
        weightedPosition |-> weighted,
        totalPosition |-> covers.totalPosition + locked + owes.position]

checkPosition(user) ==
    liabilities[user] = <<>> \/ calcPosition(user).state = "POSITIVE"

-------------------------------------------------------------------------------
(* The list of liabilities of one user. *)

MinIndex(S) == CHOOSE i \in S : \A j \in S : i <= j

Entries(list, asset) == {i \in DOMAIN list : list[i].asset = asset}

(* Slip: the last entry is dropped without being moved. *)
removeLiabilityDropsLast(list, asset) ==
    IF Entries(list, asset) = {} THEN list ELSE SubSeq(list, 1, Len(list) - 1)

(* Slip: the entry of a paid debt stays. *)
removeLiabilityNever(list, asset) == list

(* The first entry of the asset is overwritten by the last one. *)
removeLiability(list, asset) ==
    IF Entries(list, asset) = {} THEN list
    ELSE LET i == MinIndex(Entries(list, asset))
         IN SubSeq([list EXCEPT ![i] = list[Len(list)]], 1, Len(list) - 1)

(* The search stops at the last entry without looking at its asset. *)
EntryToUpdate(list, asset) ==
    LET found == {i \in 1 .. Len(list) - 1 : list[i].asset = asset}
    IN IF found = {} THEN Len(list) ELSE MinIndex(found)

(* Slip: outstandingAmount is not reduced by a partial cover. *)
updateLiabilityKeepsOutstanding(list, asset, depositAmount, currentBalance) ==
    IF currentBalance >= 0 THEN removeLiability(list, asset)
    ELSE LET i == EntryToUpdate(list, asset)
         IN [list EXCEPT ![i] =
                IF depositAmount >= @.outstandingAmount
                THEN [@ EXCEPT !.outstandingAmount = -currentBalance, !.timestamp = now]
                ELSE @]

(* Slip: the new outstanding amount keeps the old clock. *)
updateLiabilityKeepsClock(list, asset, depositAmount, currentBalance) ==
    IF currentBalance >= 0 THEN removeLiability(list, asset)
    ELSE LET i == EntryToUpdate(list, asset)
         IN [list EXCEPT ![i].outstandingAmount =
                IF depositAmount >= @ THEN -currentBalance ELSE @ - depositAmount]

(* Slip: any cover restarts the clock. *)
updateLiabilityRestartsClock(list, asset, depositAmount, currentBalance) ==
    IF currentBalance >= 0 THEN removeLiability(list, asset)
    ELSE [list EXCEPT ![EntryToUpdate(list, asset)] =
                [@ EXCEPT !.outstandingAmount = -currentBalance, !.timestamp = now]]

(* Once outstandingAmount is covered at one go the clock restarts. *)
updateLiability(list, asset, depositAmount, currentBalance) ==
    IF currentBalance >= 0 THEN removeLiability(list, asset)
    ELSE LET i == EntryToUpdate(list, asset)
             entry == list[i]
         IN [list EXCEPT ![i] =
                IF depositAmount >= entry.outstandingAmount
                THEN [entry EXCEPT !.outstandingAmount = -currentBalance, !.timestamp = now]
                ELSE [entry EXCEPT !.outstandingAmount =
                                      entry.outstandingAmount - depositAmount]]

-------------------------------------------------------------------------------
(***************************************************************************)
(* A liquidator pays amount of the broker's debt and is given ORN for it,  *)
(* first from the broker's balance and then from the broker's stake.       *)
(***************************************************************************)
(* Slip: another percentage is used as the premium. *)
LiquidationRewardByStakeRisk(redeemedAsset, amount) ==
    LET value == PerUnit(amount * assetPrices[redeemedAsset].price)
    IN value + uint8Percent(value, settings.stakeRisk)

LiquidationReward(redeemedAsset, amount) ==
    LET value == PerUnit(amount * assetPrices[redeemedAsset].price)
    IN value + uint8Percent(value, settings.liquidationPremium)

(* Slip: the debt is paid and nobody is debited. *)
BrokerCredited(broker, liquidator, redeemedAsset, amount) ==
    [assetBalances EXCEPT ![broker][redeemedAsset] = @ + amount]

(* The state after the debt is paid and before the reward is given. *)
BalancesAfterRedemption(broker, liquidator, redeemedAsset, amount) ==
    LET debited == [assetBalances EXCEPT ![liquidator][redeemedAsset] = @ - amount]
    IN [debited EXCEPT ![broker][redeemedAsset] = @ + amount]

(* Slip: the whole reward is taken from the balance. *)
RewardFromBalanceOnly(available, reward) == reward

RewardFromBalance(available, reward) ==
    IF available > reward THEN reward
    ELSE IF available > 0 THEN available ELSE 0

(* Slip: an incorrect or unpriced position is accepted when it improved. *)
AnyImprovement(initial, final) == final.weightedPosition > initial.weightedPosition

(* require "E10": better, but not so good that too much was liquidated. *)
AcceptableOutcome(initial, final) ==
    /\ final.state \in {"POSITIVE", "NEGATIVE", "OVERDUE"}
    /\ final.weightedPosition > initial.weightedPosition
    /\ final.state = "POSITIVE" => final.weightedPosition < 10 * Unit

PartiallyLiquidate(liquidator, broker, redeemedAsset, amount) ==
    LET initial == calcPosition(broker)
        redeemed == BalancesAfterRedemption(broker, liquidator, redeemedAsset, amount)
        reward == LiquidationReward(redeemedAsset, amount)
        fromBalance == RewardFromBalance(redeemed[broker][ORN], reward)
        fromStake == reward - fromBalance
        charged == [redeemed EXCEPT ![broker][ORN] = @ - fromBalance]
        final == calcPosition(broker)'
    IN
    /\ initial.state \in {"NEGATIVE", "OVERDUE"}
    /\ assetBalances[liquidator][redeemedAsset] >= amount
    /\ assetBalances[broker][redeemedAsset] < 0
    /\ (assetPrices[redeemedAsset].timestamp + settings.priceOverdue) % Uint64Range > now
    /\ reward <= Int64Max
    /\ stakingData[broker].amount >= fromStake
    /\ assetBalances' = [charged EXCEPT ![liquidator][ORN] = @ + reward]
    /\ liabilities' = [liabilities EXCEPT ![broker] =
                          IF redeemed[broker][redeemedAsset] >= 0
                          THEN removeLiability(@, redeemedAsset) ELSE @]
    /\ stakingData' = [stakingData EXCEPT ![broker].amount = @ - fromStake]
    /\ UNCHANGED <<filledAmounts, settings, assetRisks, wallet, allowance, held,
                   assetPrices, now>>
    /\ AcceptableOutcome(initial, final)
===============================================================================
