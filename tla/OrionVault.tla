------------------------------ MODULE OrionVault ------------------------------
(***************************************************************************)
(* The stake of ORN that a user locks to be allowed to borrow.             *)
(***************************************************************************)
EXTENDS ExchangeStorage

CONSTANT ReleasingDuration   \* a day in the code

ASSUME VaultAssumption == ReleasingDuration \in Nat

VARIABLE stakingData   \* user -> Stake

StakePhase == {"NOTSTAKED", "LOCKED", "RELEASING", "READYTORELEASE", "FROZEN"}

Stake == [amount : Nat, phase : StakePhase, lastActionTimestamp : Nat]

VaultTypeOK == stakingData \in [Users -> Stake]

VaultInit ==
    stakingData = [u \in Users |->
        [amount |-> 0, phase |-> "NOTSTAKED", lastActionTimestamp |-> 0]]

(* The phase a stake is in now: RELEASING ends by the passage of time. *)
getStakePhase(user) ==
    LET stake == stakingData[user] IN
    IF /\ stake.phase = "RELEASING"
       /\ now - stake.lastActionTimestamp > ReleasingDuration
    THEN "READYTORELEASE"
    ELSE stake.phase

(* Slip: a stake still counts while it is being released. *)
getStakeBalanceInAnyPhase(user) == stakingData[user].amount

getLockedStakeBalance(user) ==
    IF getStakePhase(user) \in {"LOCKED", "FROZEN"}
    THEN stakingData[user].amount
    ELSE 0

-------------------------------------------------------------------------------
vaultUnchanged ==
    UNCHANGED <<liabilities, filledAmounts, settings, assetRisks,
                wallet, allowance, held, assetPrices, now>>

SetPhase(user, phase) ==
    /\ stakingData' = [stakingData EXCEPT ![user].phase = phase]
    /\ vaultUnchanged
    /\ UNCHANGED assetBalances

(* The owner blocks, or forces, the release of a user's stake. *)
PostponeStakeRelease(user) == SetPhase(user, "FROZEN")

AllowStakeRelease(user) == SetPhase(user, "READYTORELEASE")

(* Slip: the release starts whatever the user owes. *)
StartReleaseUnguarded(user) ==
    /\ getStakePhase(user) = "LOCKED"
    /\ SetPhase(user, "RELEASING")

(* The first call of requestReleaseStake starts the release... *)
StartRelease(user) ==
    /\ liabilities[user] = <<>>
    /\ getStakePhase(user) = "LOCKED"
    /\ stakingData' = [stakingData EXCEPT
            ![user].phase = "RELEASING", ![user].lastActionTimestamp = now]
    /\ UNCHANGED assetBalances
    /\ vaultUnchanged

(* ... and a call once it is ready moves the stake to the balance. *)
CollectStake(user) ==
    /\ liabilities[user] = <<>>
    /\ getStakePhase(user) = "READYTORELEASE"
    /\ assetBalances' = [assetBalances EXCEPT ![user][ORN] = @ + stakingData[user].amount]
    /\ stakingData' = [stakingData EXCEPT
            ![user].amount = 0, ![user].phase = "NOTSTAKED"]
    /\ vaultUnchanged

RequestReleaseStake(user) == StartRelease(user) \/ CollectStake(user)

LockStake(user, amount) ==
    /\ assetBalances[user][ORN] > amount
    /\ assetBalances' = [assetBalances EXCEPT ![user][ORN] = @ - amount]
    /\ stakingData' = [stakingData EXCEPT ![user] =
            [amount |-> @.amount + amount,
             phase |-> IF @.phase = "FROZEN" THEN "FROZEN" ELSE "LOCKED",
             lastActionTimestamp |-> now]]
    /\ vaultUnchanged
===============================================================================
