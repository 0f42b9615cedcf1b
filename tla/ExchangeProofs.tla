---------------------------- MODULE ExchangeProofs ----------------------------
(***************************************************************************)
(* Theorems of the specification of the exchange, for every set of users,  *)
(* assets and orders and every choice of amounts and settings.             *)
(***************************************************************************)
EXTENDS StakeRelease, LedgerProofs

ListsOK == \A u \in Users : ListOK(assetBalances[u], liabilities[u])

StakeCounts(user) ==
    /\ stakingData[user].amount > 0
    /\ stakingData[user].phase \in {"LOCKED", "FROZEN", "READYTORELEASE"}

(* Whoever goes into debt has a stake that is not on its way out. *)
HasSecurity(user) ==
    stakingData[user].amount > 0 /\ getStakePhase(user) \in {"LOCKED", "FROZEN"}

NewDebtsSecured ==
    \A u \in Users : liabilities[u] = <<>> /\ liabilities'[u] # <<>> => HasSecurity(u)'

(***************************************************************************)
(* The inductive invariant.  Types alone are not inductive: updateLiability *)
(* takes the last entry for the one it searches for, so that a cover of an  *)
(* unlisted debt would index an empty list.                                 *)
(***************************************************************************)
IInv == TypeOK /\ ListsOK /\ BorrowersHaveStake

LEMMA InitInv == Init => IInv
<1>. SUFFICES ASSUME Init PROVE IInv
  OBVIOUS
<1>. USE DEF Init, OracleInit, StorageInit, VaultInit
<1>1. OracleTypeOK
  BY TimeAssumption DEF TimeAssumption, OracleTypeOK, PriceDataOut
<1>2. StorageTypeOK
  <2>1. liabilities \in [Users -> Seq(Liability)]
    BY EmptySeq
  <2>. QED BY <2>1, StorageAssumption DEF StorageTypeOK, StorageAssumption
<1>3. VaultTypeOK
  BY DEF VaultTypeOK, Stake, StakePhase
<1>4. ListsOK
  <2>1. \A u \in Users : /\ assetBalances[u] = [a \in Assets |-> 0]
                         /\ liabilities[u] = <<>> /\ Len(liabilities[u]) = 0
    BY EmptySeq
  <2>2. \A u \in Users : liabilities[u] \in Seq(Liability)
    BY <1>2 DEF StorageTypeOK
  <2>. QED BY <2>1, <2>2 DEF ListsOK, ListOK, EveryDebtListed, EntryIsDebt
<1>5. BorrowersHaveStake
  BY DEF BorrowersHaveStake
<1>. QED BY <1>1, <1>2, <1>3, <1>4, <1>5 DEF IInv, TypeOK

-------------------------------------------------------------------------------
(* Transactions that end with Commit. *)

LEMMA LedgerIsOK ==
    ASSUME IInv
    PROVE  LedgerOK(Ledger) /\ Ledger \in LedgerType
BY DEF IInv, TypeOK, StorageTypeOK, ListsOK, LedgerOK, LedgerType, Ledger

LEMMA CommitOK ==
    ASSUME IInv, NEW L, LedgerOK(L), Commit(L),
           filledAmounts' \in [OrderHashes -> Nat],
           UNCHANGED <<stakingData, settingsVars, oracleVars>>
    PROVE  TypeOK' /\ ListsOK'
<1>1. /\ L.assetBalances \in [Users -> [Assets -> Int]]
      /\ L.liabilities \in [Users -> Seq(Liability)]
      /\ L.wallet \in [Users -> [Assets -> Nat]]
      /\ L.allowance \in [Users -> [Assets -> Nat]]
      /\ L.held \in [Assets -> Nat]
  BY DEF LedgerOK, LedgerType
<1>2. StorageTypeOK'
  BY <1>1 DEF Commit, IInv, TypeOK, StorageTypeOK, settingsVars
<1>3. OracleTypeOK' /\ VaultTypeOK'
  BY DEF IInv, TypeOK, OracleTypeOK, VaultTypeOK, oracleVars
<1>4. ListsOK'
  BY DEF LedgerOK, Commit, ListsOK
<1>. QED BY <1>2, <1>3, <1>4 DEF TypeOK

(* Users who were no borrowers and are none have nothing to show. *)
LEMMA StakesUnchanged ==
    ASSUME IInv, NEW S \in SUBSET Users, UNCHANGED stakingData,
           \A u \in Users \ S : liabilities[u] = <<>> => liabilities'[u] = <<>>,
           \A u \in S : liabilities'[u] # <<>> => StakeCounts(u)'
    PROVE  BorrowersHaveStake'
BY DEF IInv, BorrowersHaveStake, StakeCounts

(* A position that passes the check of a trade has a stake behind it. *)
LEMMA CheckedHasStake ==
    ASSUME NEW user \in Users, VaultTypeOK',
           calcPosition(user)'.state # "INCORRECT", liabilities'[user] # <<>>
    PROVE  StakeCounts(user)' /\ HasSecurity(user)'
<1>1. getLockedStakeBalance(user)' # 0
  BY DEF calcPosition
<1>2. /\ getStakePhase(user)' \in {"LOCKED", "FROZEN"}
      /\ stakingData'[user].amount # 0
  BY <1>1 DEF getLockedStakeBalance
<1>3. stakingData'[user].phase \in {"LOCKED", "FROZEN"}
  BY <1>2 DEF getStakePhase
<1>4. stakingData'[user].amount \in Nat
  BY DEF VaultTypeOK, Stake
<1>. QED BY <1>2, <1>3, <1>4 DEF StakeCounts, HasSecurity

LEMMA DepositInv ==
    ASSUME IInv, NEW user \in Users, NEW asset \in Assets, NEW amount \in Nat,
           Deposit(user, asset, amount)
    PROVE  IInv' /\ NewDebtsSecured
<1>. DEFINE received == Receive(Ledger, user, asset, amount)
            L == generalDeposit(received, user, asset, amount)
<1>1. /\ received \in LedgerType
      /\ received.assetBalances = Ledger.assetBalances
      /\ received.liabilities = Ledger.liabilities
  BY LedgerIsOK, ReceiveFields DEF Deposit
<1>2. LedgerOK(received)
  BY <1>1, LedgerIsOK DEF LedgerOK
<1>. HIDE DEF received
<1>3. now \in Nat
  BY DEF IInv, TypeOK, OracleTypeOK
<1>4. LedgerOK(L) /\ NoNewBorrower(received, L, {})
  BY <1>2, <1>3, GeneralDepositOK
<1>5. Commit(L) /\ UNCHANGED <<filledAmounts, stakingData, settingsVars, oracleVars>>
  BY DEF Deposit, received
<1>. HIDE DEF L
<1>6. TypeOK' /\ ListsOK'
  <2>1. filledAmounts' \in [OrderHashes -> Nat]
    BY <1>5 DEF IInv, TypeOK, StorageTypeOK
  <2>. QED BY <1>4, <1>5, <2>1, CommitOK
<1>7. BorrowersHaveStake' /\ NewDebtsSecured
  <2>1. \A u \in Users : liabilities[u] = <<>> => liabilities'[u] = <<>>
    BY <1>1, <1>4, <1>5 DEF NoNewBorrower, Ledger, Commit
  <2>2. {} \in SUBSET Users /\ Users \ {} = Users /\ UNCHANGED stakingData
    BY <1>5
  <2>. HIDE DEF Deposit
  <2>3. BorrowersHaveStake'
    BY <2>1, <2>2, StakesUnchanged, Zenon
  <2>. QED BY <2>1, <2>3 DEF NewDebtsSecured
<1>. QED BY <1>6, <1>7 DEF IInv

LEMMA WithdrawInv ==
    ASSUME IInv, NEW user \in Users, NEW asset \in Assets, NEW amount \in Nat,
           Withdraw(user, asset, amount)
    PROVE  IInv' /\ NewDebtsSecured
<1>. DEFINE decimal == BaseUnitToDecimal(asset, amount)
            x == Ledger.assetBalances[user][asset] - decimal
            debited == AddBalance(Ledger, user, asset, -decimal)
            L == Send(debited, user, asset, amount)
<1>1. /\ Commit(L) /\ UNCHANGED <<filledAmounts, stakingData, settingsVars, oracleVars>>
      /\ Ledger.assetBalances[user][asset] >= decimal /\ Ledger.held[asset] >= amount
  BY DEF Withdraw, Ledger
<1>2. decimal \in Nat
  BY ConversionNat
<1>. HIDE DEF decimal
<1>3. Ledger.assetBalances[user][asset] \in Int /\ x \in Int /\ x >= 0
  <2>1. Ledger \in LedgerType
    BY LedgerIsOK
  <2>2. Ledger.assetBalances[user][asset] \in Int
    BY <2>1 DEF LedgerType
  <2>. QED BY <1>1, <1>2, <2>2
<1>4. /\ debited \in LedgerType
      /\ debited.assetBalances = [Ledger.assetBalances EXCEPT ![user] =
                                    [Ledger.assetBalances[user] EXCEPT ![asset] = x]]
      /\ debited.liabilities = Ledger.liabilities
      /\ debited.held = Ledger.held
  <2>. DEFINE minus == -decimal
              sum == Ledger.assetBalances[user][asset] + minus
  <2>1. minus \in Int /\ Ledger \in LedgerType
    BY <1>2, LedgerIsOK
  <2>2. x = sum
    BY <1>2, <1>3
  <2>3. debited = AddBalance(Ledger, user, asset, minus)
    OBVIOUS
  <2>. HIDE DEF minus, debited, x
  <2>4. /\ debited \in LedgerType
        /\ debited.assetBalances = [Ledger.assetBalances EXCEPT ![user] =
                                      [Ledger.assetBalances[user] EXCEPT ![asset] = sum]]
        /\ debited.liabilities = Ledger.liabilities
        /\ debited.held = Ledger.held
    BY <2>1, <2>3, AddBalanceFields
  <2>. QED BY <2>2, <2>4
<1>. HIDE DEF debited
<1>5. /\ L \in LedgerType
      /\ L.assetBalances = debited.assetBalances
      /\ L.liabilities = debited.liabilities
  BY <1>1, <1>4, SendFields
<1>. HIDE DEF L
<1>6. LedgerOK(L) /\ NoNewBorrower(Ledger, L, {})
  <2>1. Ledger.assetBalances[user][asset] >= 0
    BY <1>1, <1>2, <1>3
  <2>. HIDE DEF x
  <2>. QED BY <1>3, <1>4, <1>5, <2>1, LedgerIsOK, SameListOK
<1>7. TypeOK' /\ ListsOK'
  <2>1. filledAmounts' \in [OrderHashes -> Nat]
    BY <1>1 DEF IInv, TypeOK, StorageTypeOK
  <2>. QED BY <1>1, <1>6, <2>1, CommitOK
<1>8. BorrowersHaveStake' /\ NewDebtsSecured
  <2>1. \A u \in Users : liabilities[u] = <<>> => liabilities'[u] = <<>>
    BY <1>1, <1>4, <1>5 DEF Ledger, Commit
  <2>2. {} \in SUBSET Users /\ Users \ {} = Users /\ UNCHANGED stakingData
    BY <1>1
  <2>. HIDE DEF Withdraw
  <2>3. BorrowersHaveStake'
    BY <2>1, <2>2, StakesUnchanged, Zenon
  <2>. QED BY <2>1, <2>3 DEF NewDebtsSecured
<1>. QED BY <1>7, <1>8 DEF IInv

LEMMA ApproveInv ==
    ASSUME IInv, NEW user \in Users, NEW asset \in Assets, NEW amount \in Nat,
           Approve(user, asset, amount)
    PROVE  IInv'
<1>1. /\ allowance' = [allowance EXCEPT ![user][asset] = amount]
      /\ UNCHANGED <<assetBalances, liabilities, wallet, held, filledAmounts,
                     stakingData, settings, assetRisks, assetPrices, now>>
  BY DEF Approve, settingsVars, oracleVars
<1>2. allowance' \in [Users -> [Assets -> Nat]]
  BY <1>1 DEF IInv, TypeOK, StorageTypeOK
<1>3. TypeOK'
  BY <1>1, <1>2 DEF IInv, TypeOK, StorageTypeOK, OracleTypeOK, VaultTypeOK
<1>4. ListsOK' /\ BorrowersHaveStake'
  BY <1>1 DEF IInv, ListsOK, BorrowersHaveStake
<1>. QED BY <1>3, <1>4 DEF IInv

LEMMA HashOfOrder ==
    ASSUME NEW order \in Orders
    PROVE  getTypeValueHash(order) \in OrderHashes
<1>1. order.matcherFee \in 0 .. order.matcherFee
  BY StorageAssumption DEF StorageAssumption, OrderType
<1>. QED BY <1>1 DEF getTypeValueHash, OrderHashes

LEMMA FillOrdersInv ==
    ASSUME IInv, NEW sender \in Users, NEW buy \in Orders, NEW sell \in Orders,
           NEW filledPrice \in Nat, NEW filledAmount \in Nat,
           FillOrders(sender, buy, sell, filledPrice, filledAmount)
    PROVE  IInv' /\ NewDebtsSecured
<1>. DEFINE amountQuote == (filledAmount * filledPrice) \div Unit
            L == Settle(buy, sell, filledAmount, amountQuote)
            traders == {buy.senderAddress, sell.senderAddress}
            buyFilled == [filledAmounts EXCEPT ![getTypeValueHash(buy)] = @ + filledAmount]
<1>1. buy \in OrderType /\ sell \in OrderType /\ traders \in SUBSET Users
  BY StorageAssumption DEF StorageAssumption, OrderType
<1>2. amountQuote \in Nat
  BY UnitAssumption, ProductNat, DivNat DEF UnitAssumption
<1>3. /\ buy.amount > 0 /\ sell.amount > 0
      /\ filledAmounts' = [buyFilled EXCEPT ![getTypeValueHash(sell)] = @ + filledAmount]
      /\ Commit(L)
      /\ UNCHANGED <<stakingData, settingsVars, oracleVars>>
      /\ \A u \in traders : checkPosition(u)'
  BY DEF FillOrders
<1>. HIDE DEF amountQuote, traders
<1>4. filledAmounts' \in [OrderHashes -> Nat]
  <2>1. filledAmounts \in [OrderHashes -> Nat]
    BY DEF IInv, TypeOK, StorageTypeOK
  <2>2. buyFilled \in [OrderHashes -> Nat]
    BY <2>1, HashOfOrder
  <2>. HIDE DEF buyFilled
  <2>. QED BY <1>3, <2>2, HashOfOrder
<1>5. LedgerOK(L) /\ NoNewBorrower(Ledger, L, traders)
  <2>1. now \in Nat
    BY DEF IInv, TypeOK, OracleTypeOK
  <2>. QED BY <1>1, <1>2, <1>3, <2>1, LedgerIsOK, SettleOK DEF traders
<1>. HIDE DEF L
<1>6. TypeOK' /\ ListsOK'
  BY <1>3, <1>4, <1>5, CommitOK
<1>7. BorrowersHaveStake' /\ NewDebtsSecured
  <2>1. \A u \in Users \ traders : liabilities[u] = <<>> => liabilities'[u] = <<>>
    BY <1>3, <1>5 DEF NoNewBorrower, Ledger, Commit
  <2>2. \A u \in traders : liabilities'[u] # <<>> => StakeCounts(u)' /\ HasSecurity(u)'
    <3>. SUFFICES ASSUME NEW u \in traders, liabilities'[u] # <<>>
                  PROVE  StakeCounts(u)' /\ HasSecurity(u)'
      OBVIOUS
    <3>1. u \in Users /\ VaultTypeOK'
      BY <1>1, <1>6 DEF TypeOK
    <3>2. calcPosition(u)'.state # "INCORRECT"
      BY <1>3 DEF checkPosition
    <3>. QED BY <3>1, <3>2, CheckedHasStake
  <2>3. UNCHANGED stakingData
    BY <1>3
  <2>4. BorrowersHaveStake'
    BY <1>1, <2>1, <2>2, <2>3, StakesUnchanged
  <2>. QED BY <2>1, <2>2, <2>4 DEF NewDebtsSecured
<1>. QED BY <1>6, <1>7 DEF IInv

(* A single balance of a single user changes, and no list. *)
LEMMA BalanceListsOK ==
    ASSUME IInv, NEW user \in Users, NEW asset \in Assets, NEW x \in Int,
           assetBalances' = [assetBalances EXCEPT ![user][asset] = x],
           UNCHANGED liabilities,
           \/ x < 0 /\ assetBalances[user][asset] < 0
           \/ x >= 0 /\ assetBalances[user][asset] >= 0
           \/ asset = ORN /\ x >= assetBalances[user][asset]
    PROVE  ListsOK' /\ assetBalances' \in [Users -> [Assets -> Int]]
<1>. DEFINE bal == assetBalances[user]
            list == liabilities[user]
<1>1. /\ assetBalances \in [Users -> [Assets -> Int]]
      /\ \A u \in Users : ListOK(assetBalances[u], liabilities[u])
  BY DEF IInv, TypeOK, StorageTypeOK, ListsOK
<1>2. /\ assetBalances'[user] = [bal EXCEPT ![asset] = x]
      /\ \A u \in Users \ {user} : assetBalances'[u] = assetBalances[u]
  BY <1>1
<1>3. ListOK([bal EXCEPT ![asset] = x], list)
  <2>1. ListOK(bal, list) /\ list \in Seq(Liability)
    BY <1>1 DEF ListOK
  <2>2. \/ x < 0 /\ bal[asset] < 0
        \/ x >= 0 /\ bal[asset] >= 0
        \/ asset = ORN /\ x >= bal[asset]
    OBVIOUS
  <2>3. \A i \in 1 .. Len(list) : list[i].asset = list[i].asset
    OBVIOUS
  <2>. HIDE DEF bal, list
  <2>. QED BY <2>1, <2>2, <2>3, SameAssetsOK
<1>4. ListsOK'
  <2>. SUFFICES ASSUME NEW u \in Users PROVE ListOK(assetBalances'[u], liabilities'[u])
    BY DEF ListsOK
  <2>1. CASE u = user
    BY <1>2, <1>3, <2>1
  <2>2. CASE u # user
    BY <1>1, <1>2, <2>2
  <2>. QED BY <2>1, <2>2
<1>. QED BY <1>1, <1>4

(* The stake of a single user changes. *)
LEMMA StakeChangeOK ==
    ASSUME IInv, NEW user \in Users, NEW stake \in Stake,
           stakingData' = [stakingData EXCEPT ![user] = stake],
           UNCHANGED liabilities,
           liabilities[user] # <<>> =>
              stake.amount > 0 /\ stake.phase \in {"LOCKED", "FROZEN", "READYTORELEASE"}
    PROVE  VaultTypeOK' /\ BorrowersHaveStake'
<1>1. stakingData \in [Users -> Stake]
  BY DEF IInv, TypeOK, VaultTypeOK
<1>2. /\ stakingData'[user] = stake
      /\ \A u \in Users \ {user} : stakingData'[u] = stakingData[u]
  BY <1>1
<1>3. VaultTypeOK'
  BY <1>1 DEF VaultTypeOK
<1>4. BorrowersHaveStake'
  BY <1>2 DEF IInv, BorrowersHaveStake
<1>. QED BY <1>3, <1>4

LEMMA LockStakeInv ==
    ASSUME IInv, NEW user \in Users, NEW amount \in Nat, LockStake(user, amount),
           ORN \in Assets
    PROVE  IInv'
<1>. DEFINE x == assetBalances[user][ORN] - amount
<1>1. /\ assetBalances[user][ORN] > amount
      /\ assetBalances' = [assetBalances EXCEPT ![user][ORN] = x]
      /\ UNCHANGED <<liabilities, filledAmounts, settings, assetRisks, wallet, allowance,
                     held, assetPrices, now>>
  BY DEF LockStake, vaultUnchanged
<1>2. x \in Int /\ x >= 0 /\ assetBalances[user][ORN] >= 0
  BY <1>1 DEF IInv, TypeOK, StorageTypeOK
<1>3. ListsOK' /\ assetBalances' \in [Users -> [Assets -> Int]]
  <2>. HIDE DEF x
  <2>. QED BY <1>1, <1>2, BalanceListsOK
<1>4. VaultTypeOK' /\ BorrowersHaveStake'
  <2>. DEFINE old == stakingData[user]
              stake == [amount |-> old.amount + amount,
                        phase |-> IF old.phase = "FROZEN" THEN "FROZEN" ELSE "LOCKED",
                        lastActionTimestamp |-> now]
  <2>1. stakingData' = [stakingData EXCEPT ![user] = stake]
    BY DEF LockStake
  <2>2. old \in Stake /\ now \in Nat
    BY DEF IInv, TypeOK, VaultTypeOK, OracleTypeOK
  <2>3. liabilities[user] # <<>> => old.amount > 0
    BY DEF IInv, BorrowersHaveStake
  <2>. HIDE DEF old
  <2>4. /\ stake \in Stake
        /\ liabilities[user] # <<>> =>
              stake.amount > 0 /\ stake.phase \in {"LOCKED", "FROZEN", "READYTORELEASE"}
    BY <2>2, <2>3 DEF Stake, StakePhase
  <2>. HIDE DEF stake
  <2>. QED BY <1>1, <2>1, <2>4, StakeChangeOK
<1>5. TypeOK'
  BY <1>1, <1>3, <1>4 DEF IInv, TypeOK, StorageTypeOK, OracleTypeOK
<1>. QED BY <1>3, <1>4, <1>5 DEF IInv

LEMMA ReleaseStakeInv ==
    ASSUME IInv, NEW user \in Users, RequestReleaseStake(user), ORN \in Assets
    PROVE  IInv'
<1>. DEFINE old == stakingData[user]
<1>1. /\ liabilities[user] = <<>>
      /\ UNCHANGED <<liabilities, filledAmounts, settings, assetRisks, wallet, allowance,
                     held, assetPrices, now>>
  BY DEF RequestReleaseStake, StartRelease, CollectStake, vaultUnchanged
<1>2. old \in Stake /\ now \in Nat
  BY DEF IInv, TypeOK, VaultTypeOK, OracleTypeOK
<1>3. ListsOK' /\ assetBalances' \in [Users -> [Assets -> Int]]
  <2>1. CASE StartRelease(user)
    BY <1>1, <2>1 DEF StartRelease, IInv, TypeOK, StorageTypeOK, ListsOK
  <2>2. CASE CollectStake(user)
    <3>. DEFINE x == assetBalances[user][ORN] + old.amount
    <3>1. assetBalances' = [assetBalances EXCEPT ![user][ORN] = x]
      BY <2>2 DEF CollectStake
    <3>2. assetBalances[user][ORN] \in Int /\ old.amount \in Nat
      BY <1>2 DEF IInv, TypeOK, StorageTypeOK, Stake
    <3>. HIDE DEF old
    <3>3. x \in Int /\ x >= assetBalances[user][ORN]
      BY <3>2
    <3>4. UNCHANGED liabilities
      BY <1>1
    <3>. HIDE DEF x
    <3>. QED BY <3>1, <3>3, <3>4, BalanceListsOK
  <2>. QED BY <2>1, <2>2 DEF RequestReleaseStake
<1>4. VaultTypeOK' /\ BorrowersHaveStake'
  <2>1. \E stake \in Stake : stakingData' = [stakingData EXCEPT ![user] = stake]
    <3>1. CASE StartRelease(user)
      <4>. DEFINE stake == [old EXCEPT !.phase = "RELEASING", !.lastActionTimestamp = now]
      <4>1. stake \in Stake
        BY <1>2 DEF Stake, StakePhase
      <4>2. stakingData' = [stakingData EXCEPT ![user] = stake]
        BY <1>2, <3>1 DEF StartRelease, IInv, TypeOK, VaultTypeOK, Stake
      <4>. QED BY <4>1, <4>2
    <3>2. CASE CollectStake(user)
      <4>. DEFINE stake == [old EXCEPT !.amount = 0, !.phase = "NOTSTAKED"]
      <4>1. stake \in Stake
        BY <1>2 DEF Stake, StakePhase
      <4>2. stakingData' = [stakingData EXCEPT ![user] = stake]
        BY <1>2, <3>2 DEF CollectStake, IInv, TypeOK, VaultTypeOK, Stake
      <4>. QED BY <4>1, <4>2
    <3>. QED BY <3>1, <3>2 DEF RequestReleaseStake
  <2>. QED BY <1>1, <2>1, StakeChangeOK
<1>5. TypeOK'
  BY <1>1, <1>3, <1>4 DEF IInv, TypeOK, StorageTypeOK, OracleTypeOK
<1>. QED BY <1>3, <1>4, <1>5 DEF IInv

LEMMA SetPhaseInv ==
    ASSUME IInv, NEW user \in Users, NEW phase \in {"FROZEN", "READYTORELEASE"},
           SetPhase(user, phase)
    PROVE  IInv'
<1>. DEFINE old == stakingData[user]
            stake == [old EXCEPT !.phase = phase]
<1>1. UNCHANGED <<assetBalances, liabilities, filledAmounts, settings, assetRisks, wallet,
                  allowance, held, assetPrices, now>>
  BY DEF SetPhase, vaultUnchanged
<1>2. old \in Stake
  BY DEF IInv, TypeOK, VaultTypeOK
<1>3. stakingData' = [stakingData EXCEPT ![user] = stake]
  BY <1>2 DEF SetPhase, IInv, TypeOK, VaultTypeOK, Stake
<1>4. liabilities[user] # <<>> => old.amount > 0
  BY DEF IInv, BorrowersHaveStake
<1>. HIDE DEF old
<1>5. /\ stake \in Stake
      /\ liabilities[user] # <<>> =>
            stake.amount > 0 /\ stake.phase \in {"LOCKED", "FROZEN", "READYTORELEASE"}
  BY <1>2, <1>4 DEF Stake, StakePhase
<1>. HIDE DEF stake
<1>6. VaultTypeOK' /\ BorrowersHaveStake'
  BY <1>1, <1>3, <1>5, StakeChangeOK
<1>7. TypeOK' /\ ListsOK'
  BY <1>1, <1>6 DEF IInv, TypeOK, StorageTypeOK, OracleTypeOK, ListsOK
<1>. QED BY <1>6, <1>7 DEF IInv

-------------------------------------------------------------------------------
(* Liquidation: two users' balances, one list, one stake. *)

LEMMA RewardNat ==
    ASSUME IInv, NEW asset \in Assets, NEW amount \in Nat
    PROVE  LiquidationReward(asset, amount) \in Nat
<1>1. assetPrices[asset].price \in Nat /\ settings.liquidationPremium \in Nat
  BY DEF IInv, TypeOK, OracleTypeOK, PriceDataOut, StorageTypeOK, Settings
<1>2. PerUnit(amount * assetPrices[asset].price) \in Nat
  BY <1>1, ProductNat, PerUnitNat
<1>3. uint8Percent(PerUnit(amount * assetPrices[asset].price),
                   settings.liquidationPremium) \in Nat
  BY <1>1, <1>2, PercentNat
<1>. QED BY <1>2, <1>3 DEF LiquidationReward

LEMMA LiquidationInv ==
    ASSUME IInv, NEW liquidator \in Users, NEW broker \in Users, NEW asset \in Assets,
           NEW amount \in Nat, ORN \in Assets,
           PartiallyLiquidate(liquidator, broker, asset, amount)
    PROVE  IInv'
<1>. DEFINE reward == LiquidationReward(asset, amount)
            redeemed == BalancesAfterRedemption(broker, liquidator, asset, amount)
            fromBalance == RewardFromBalance(redeemed[broker][ORN], reward)
            fromStake == reward - fromBalance
            charged == [redeemed EXCEPT ![broker][ORN] = @ - fromBalance]
            remaining == IF redeemed[broker][asset] >= 0
                         THEN removeLiability(liabilities[broker], asset)
                         ELSE liabilities[broker]
            stake == [stakingData[broker] EXCEPT !.amount = @ - fromStake]
<1>1. /\ assetBalances \in [Users -> [Assets -> Int]]
      /\ liabilities \in [Users -> Seq(Liability)]
      /\ stakingData \in [Users -> Stake]
      /\ \A u \in Users : ListOK(assetBalances[u], liabilities[u])
  BY DEF IInv, TypeOK, StorageTypeOK, VaultTypeOK, ListsOK
<1>2. /\ assetBalances[liquidator][asset] >= amount
      /\ assetBalances[broker][asset] < 0
      /\ stakingData[broker].amount >= fromStake
      /\ assetBalances' = [charged EXCEPT ![liquidator][ORN] = @ + reward]
      /\ liabilities' = [liabilities EXCEPT ![broker] = remaining]
      /\ stakingData' = [stakingData EXCEPT ![broker] = stake]
      /\ UNCHANGED <<filledAmounts, settings, assetRisks, wallet, allowance, held,
                     assetPrices, now>>
      /\ calcPosition(broker)'.state # "INCORRECT"
  BY <1>1 DEF PartiallyLiquidate, AcceptableOutcome, Stake
<1>3. reward \in Nat
  BY RewardNat
<1>4. liquidator # broker
  BY <1>1, <1>2
<1>. DEFINE lbal == [assetBalances[liquidator] EXCEPT
                        ![asset] = assetBalances[liquidator][asset] - amount]
            bbal == [assetBalances[broker] EXCEPT
                        ![asset] = assetBalances[broker][asset] + amount]
<1>5. /\ redeemed \in [Users -> [Assets -> Int]]
      /\ redeemed[liquidator] = lbal /\ redeemed[broker] = bbal
      /\ \A u \in Users \ {liquidator, broker} : redeemed[u] = assetBalances[u]
  <2>. DEFINE debited == [assetBalances EXCEPT ![liquidator] = lbal]
  <2>1. lbal \in [Assets -> Int] /\ bbal \in [Assets -> Int]
    BY <1>1
  <2>2. redeemed = [debited EXCEPT ![broker] = bbal]
    BY <1>1, <1>4 DEF BalancesAfterRedemption
  <2>. HIDE DEF redeemed, lbal, bbal
  <2>. QED BY <1>1, <1>4, <2>1, <2>2
<1>. HIDE DEF redeemed, reward
<1>6. fromBalance \in Nat /\ fromBalance <= reward
      /\ \/ bbal[ORN] >= 0 /\ bbal[ORN] - fromBalance >= 0
         \/ fromBalance = 0
  BY <1>3, <1>5 DEF RewardFromBalance
<1>. HIDE DEF fromBalance
<1>7. /\ assetBalances' \in [Users -> [Assets -> Int]]
      /\ assetBalances'[liquidator] = [lbal EXCEPT ![ORN] = lbal[ORN] + reward]
      /\ assetBalances'[broker] = [bbal EXCEPT ![ORN] = bbal[ORN] - fromBalance]
      /\ \A u \in Users \ {liquidator, broker} : assetBalances'[u] = assetBalances[u]
  <2>. DEFINE lfinal == [lbal EXCEPT ![ORN] = lbal[ORN] + reward]
              bfinal == [bbal EXCEPT ![ORN] = bbal[ORN] - fromBalance]
  <2>1. lfinal \in [Assets -> Int] /\ bfinal \in [Assets -> Int]
    <3>1. lbal \in [Assets -> Int] /\ bbal \in [Assets -> Int]
      BY <1>1
    <3>. HIDE DEF lbal, bbal
    <3>2. lbal[ORN] + reward \in Int /\ bbal[ORN] - fromBalance \in Int
      BY <1>3, <1>6, <3>1
    <3>. QED BY <3>1, <3>2
  <2>2. charged = [redeemed EXCEPT ![broker] = bfinal]
    BY <1>5
  <2>3. charged[liquidator] = lbal
    <3>. HIDE DEF lbal, bfinal, charged
    <3>. QED BY <1>4, <1>5, <2>2
  <2>4. assetBalances' = [charged EXCEPT ![liquidator] = lfinal]
    <3>. HIDE DEF lbal, charged
    <3>. QED BY <1>2, <2>3
  <2>. HIDE DEF lfinal, bfinal, charged
  <2>5. /\ assetBalances' \in [Users -> [Assets -> Int]]
        /\ assetBalances'[liquidator] = lfinal /\ assetBalances'[broker] = bfinal
        /\ \A u \in Users \ {liquidator, broker} : assetBalances'[u] = assetBalances[u]
    BY <1>4, <1>5, <2>1, <2>2, <2>4
  <2>. QED BY <2>5 DEF lfinal, bfinal
<1>8. ListOK(assetBalances'[liquidator], liabilities'[liquidator])
  <2>. DEFINE old == assetBalances[liquidator]
              list == liabilities[liquidator]
              x == old[asset] - amount
              y == lbal[ORN] + reward
  <2>1. list \in Seq(Liability) /\ \A i \in 1 .. Len(list) : list[i].asset = list[i].asset
    BY <1>1
  <2>2. x \in Int /\ x >= 0 /\ old[asset] >= 0
    BY <1>1, <1>2
  <2>3. ListOK(lbal, list)
    <3>1. ListOK(old, list) /\ lbal = [old EXCEPT ![asset] = x]
      BY <1>1
    <3>. HIDE DEF old, list, x, lbal
    <3>. QED BY <2>1, <2>2, <3>1, SameAssetsOK
  <2>4. lbal[ORN] \in Int /\ y \in Int /\ y >= lbal[ORN]
    BY <1>1, <1>3
  <2>5. liabilities'[liquidator] = list
    BY <1>1, <1>2, <1>4
  <2>6. assetBalances'[liquidator] = [lbal EXCEPT ![ORN] = y]
    BY <1>7
  <2>. HIDE DEF lbal, list, y
  <2>. QED BY <2>1, <2>3, <2>4, <2>5, <2>6, SameAssetsOK
<1>9. ListOK(assetBalances'[broker], liabilities'[broker])
  <2>. DEFINE old == assetBalances[broker]
              list == liabilities[broker]
              x == old[asset] + amount
              y == bbal[ORN] - fromBalance
  <2>1. list \in Seq(Liability) /\ \A i \in 1 .. Len(list) : list[i].asset = list[i].asset
    BY <1>1
  <2>2. x \in Int /\ old[asset] < 0 /\ bbal[asset] = x
    BY <1>1, <1>2
  <2>3. ListOK(old, list) /\ bbal = [old EXCEPT ![asset] = x]
    BY <1>1
  <2>4. remaining = IF x >= 0 THEN removeLiability(list, asset) ELSE list
    BY <1>5, <2>2
  <2>. HIDE DEF remaining
  <2>5. ListOK(bbal, remaining)
    <3>. HIDE DEF old, list, x, bbal
    <3>1. CASE x >= 0
      <4>1. x \in Nat /\ remaining = removeLiability(list, asset)
        BY <2>2, <2>4, <3>1
      <4>. QED BY <2>3, <4>1, RemoveOK
    <3>2. CASE x < 0
      <4>1. remaining = list
        BY <2>2, <2>4, <3>2
      <4>. QED BY <2>1, <2>2, <2>3, <3>2, <4>1, SameAssetsOK
    <3>. QED BY <2>2, <3>1, <3>2
  <2>6. bbal[ORN] \in Int /\ y \in Int
        /\ \/ y >= 0 /\ bbal[ORN] >= 0
           \/ y >= bbal[ORN]
    BY <1>1, <1>6
  <2>7. liabilities'[broker] = remaining
    BY <1>1, <1>2
  <2>8. assetBalances'[broker] = [bbal EXCEPT ![ORN] = y]
    BY <1>7
  <2>9. remaining \in Seq(Liability)
        /\ \A i \in 1 .. Len(remaining) : remaining[i].asset = remaining[i].asset
    BY <2>5 DEF ListOK
  <2>. HIDE DEF bbal, y
  <2>. QED BY <2>5, <2>6, <2>7, <2>8, <2>9, SameAssetsOK
<1>10. ListsOK'
  <2>. SUFFICES ASSUME NEW u \in Users PROVE ListOK(assetBalances'[u], liabilities'[u])
    BY DEF ListsOK
  <2>1. CASE u \in Users \ {liquidator, broker}
    <3>1. assetBalances'[u] = assetBalances[u] /\ liabilities'[u] = liabilities[u]
      BY <1>1, <1>2, <1>7, <2>1
    <3>. QED BY <1>1, <3>1
  <2>. QED BY <1>8, <1>9, <2>1
<1>11. TypeOK'
  <2>1. stake \in Stake
    <3>1. fromStake \in Nat
      BY <1>3, <1>6
    <3>2. stakingData[broker] \in Stake /\ stakingData[broker].amount >= fromStake
      BY <1>1, <1>2
    <3>. HIDE DEF fromStake
    <3>3. stakingData[broker].amount - fromStake \in Nat
      BY <3>1, <3>2 DEF Stake
    <3>. QED BY <3>2, <3>3 DEF Stake
  <2>2. liabilities' \in [Users -> Seq(Liability)]
    <3>1. remaining \in Seq(Liability)
      BY <1>1, <1>2, <1>9 DEF ListOK
    <3>. HIDE DEF remaining
    <3>. QED BY <1>1, <1>2, <3>1
  <2>. HIDE DEF stake
  <2>. QED BY <1>1, <1>2, <1>7, <2>1, <2>2
           DEF IInv, TypeOK, StorageTypeOK, OracleTypeOK, VaultTypeOK
<1>12. BorrowersHaveStake'
  <2>. SUFFICES ASSUME NEW u \in Users, liabilities'[u] # <<>> PROVE StakeCounts(u)'
    BY DEF BorrowersHaveStake, StakeCounts
  <2>1. CASE u = broker
    BY <1>2, <1>11, <2>1, CheckedHasStake DEF TypeOK
  <2>2. CASE u # broker
    <3>1. liabilities'[u] = liabilities[u] /\ stakingData'[u] = stakingData[u]
      BY <1>1, <1>2, <2>2
    <3>. QED BY <3>1 DEF IInv, BorrowersHaveStake, StakeCounts
  <2>. QED BY <2>1, <2>2
<1>. QED BY <1>10, <1>11, <1>12 DEF IInv

-------------------------------------------------------------------------------
LEMMA OracleInv ==
    ASSUME IInv, OracleStep
    PROVE  IInv'
<1>1. /\ UNCHANGED <<assetBalances, liabilities, filledAmounts, settings, assetRisks,
                     wallet, allowance, held, stakingData>>
  BY DEF OracleStep, ledgerVars, settingsVars
<1>2. assetPrices \in [Assets -> PriceDataOut] /\ now \in Nat
  BY DEF IInv, TypeOK, OracleTypeOK
<1>3. OracleTypeOK'
  <2>1. ASSUME NEW feed \in Feeds, NEW t \in FeedTimes, ProvideData(feed, t)
        PROVE  OracleTypeOK'
    <3>1. t \in Nat /\ \A a \in DOMAIN feed : feed[a] \in Nat
      BY ExchangeAssumption, TimeAssumption DEF ExchangeAssumption, TimeAssumption
    <3>2. StoreFeed(feed, t) \in [Assets -> PriceDataOut]
      BY <1>2, <3>1 DEF StoreFeed, PriceDataOut
    <3>. QED BY <1>2, <2>1, <3>2 DEF ProvideData, OracleTypeOK
  <2>2. CASE Tick
    BY <1>2, <2>2 DEF Tick, OracleTypeOK
  <2>. QED BY <2>1, <2>2 DEF OracleStep
<1>4. TypeOK' /\ ListsOK' /\ BorrowersHaveStake'
  BY <1>1, <1>3 DEF IInv, TypeOK, StorageTypeOK, VaultTypeOK, ListsOK, BorrowersHaveStake
<1>. QED BY <1>4 DEF IInv

LEMMA SettingsInv ==
    ASSUME IInv,
           \/ \E s \in SettingsChoices : UpdateMarginalSettings(s)
           \/ \E r \in RiskChoices : UpdateAssetRisks(r)
    PROVE  IInv'
<1>1. /\ UNCHANGED <<assetBalances, liabilities, filledAmounts, wallet, allowance, held,
                     stakingData, assetPrices, now>>
      /\ settings' \in Settings /\ assetRisks' \in [Assets -> Nat]
  BY ExchangeAssumption
     DEF ExchangeAssumption, UpdateMarginalSettings, UpdateAssetRisks, ledgerVars,
         oracleVars, IInv, TypeOK, StorageTypeOK
<1>. QED BY <1>1 DEF IInv, TypeOK, StorageTypeOK, OracleTypeOK, VaultTypeOK, ListsOK,
                     BorrowersHaveStake

(* The inputs of the operations are natural numbers. *)
LEMMA InputsNat ==
    /\ \A u \in Users, a \in Assets :
          /\ DepositAmounts[u][a] \subseteq Nat /\ WithdrawAmounts[u][a] \subseteq Nat
          /\ ApproveAmounts[u][a] \subseteq Nat /\ LiquidationAmounts[u][a] \subseteq Nat
    /\ \A u \in Users : StakeAmounts[u] \subseteq Nat
<1>1. /\ DepositAmounts \in [Users -> [Assets -> SUBSET Nat]]
      /\ WithdrawAmounts \in [Users -> [Assets -> SUBSET Nat]]
      /\ ApproveAmounts \in [Users -> [Assets -> SUBSET Nat]]
      /\ LiquidationAmounts \in [Users -> [Assets -> SUBSET Nat]]
      /\ StakeAmounts \in [Users -> SUBSET Nat]
  BY ExchangeAssumption DEF ExchangeAssumption
<1>. QED BY <1>1

(* The invariant is inductive. *)
LEMMA NextInv == IInv /\ [Next]_vars => IInv'
<1>. SUFFICES ASSUME IInv, [Next]_vars PROVE IInv'
  OBVIOUS
<1>1. ORN \in Assets
  BY StorageAssumption DEF StorageAssumption
<1>2. CASE OracleStep
  BY <1>2, OracleInv
<1>3. CASE UserStep
  <2>1. PICK u \in Users :
           \/ \E a \in Assets : \E x \in DepositAmounts[u][a] : Deposit(u, a, x)
           \/ \E a \in Assets : \E x \in WithdrawAmounts[u][a] : Withdraw(u, a, x)
           \/ \E a \in Assets : \E x \in ApproveAmounts[u][a] : Approve(u, a, x)
           \/ \E x \in StakeAmounts[u] : LockStake(u, x)
           \/ RequestReleaseStake(u)
           \/ \E b \in Users, a \in Assets : \E x \in LiquidationAmounts[u][a] :
                 PartiallyLiquidate(u, b, a, x)
    BY <1>3 DEF UserStep
  <2>2. ASSUME NEW a \in Assets, NEW x \in DepositAmounts[u][a], Deposit(u, a, x)
        PROVE  IInv'
    BY <2>2, InputsNat, DepositInv
  <2>3. ASSUME NEW a \in Assets, NEW x \in WithdrawAmounts[u][a], Withdraw(u, a, x)
        PROVE  IInv'
    BY <2>3, InputsNat, WithdrawInv
  <2>4. ASSUME NEW a \in Assets, NEW x \in ApproveAmounts[u][a], Approve(u, a, x)
        PROVE  IInv'
    BY <2>4, InputsNat, ApproveInv
  <2>5. ASSUME NEW x \in StakeAmounts[u], LockStake(u, x)
        PROVE  IInv'
    BY <1>1, <2>5, InputsNat, LockStakeInv
  <2>6. CASE RequestReleaseStake(u)
    BY <1>1, <2>6, ReleaseStakeInv
  <2>7. ASSUME NEW b \in Users, NEW a \in Assets, NEW x \in LiquidationAmounts[u][a],
               PartiallyLiquidate(u, b, a, x)
        PROVE  IInv'
    BY <1>1, <2>7, InputsNat, LiquidationInv
  <2>. QED BY <2>1, <2>2, <2>3, <2>4, <2>5, <2>6, <2>7
<1>4. CASE MatcherStep
  <2>1. PICK m \in Users, buy \in Orders, sell \in Orders, p \in FillPrices, x \in FillAmounts :
           FillOrders(m, buy, sell, p, x)
    BY <1>4 DEF MatcherStep
  <2>2. p \in Nat /\ x \in Nat
    BY ExchangeAssumption DEF ExchangeAssumption
  <2>. QED BY <2>1, <2>2, FillOrdersInv
<1>5. CASE OwnerStep
  <2>1. CASE \/ \E s \in SettingsChoices : UpdateMarginalSettings(s)
             \/ \E r \in RiskChoices : UpdateAssetRisks(r)
    BY <2>1, SettingsInv
  <2>2. CASE \E u \in OwnerTargets : PostponeStakeRelease(u) \/ AllowStakeRelease(u)
    <3>1. PICK u \in OwnerTargets : PostponeStakeRelease(u) \/ AllowStakeRelease(u)
      BY <2>2
    <3>2. u \in Users
      BY ExchangeAssumption DEF ExchangeAssumption
    <3>. QED BY <3>1, <3>2, SetPhaseInv DEF PostponeStakeRelease, AllowStakeRelease
  <2>. QED BY <1>5, <2>1, <2>2 DEF OwnerStep
<1>6. CASE UNCHANGED vars
  BY <1>6 DEF vars, IInv, TypeOK, StorageTypeOK, OracleTypeOK, VaultTypeOK, ListsOK,
              BorrowersHaveStake
<1>. QED BY <1>2, <1>3, <1>4, <1>5, <1>6 DEF Next

(* Every reachable state satisfies the inductive invariant. *)
THEOREM Invariance == Spec => []IInv
<1>. QED BY InitInv, NextInv, PTL DEF Spec

(* Type correctness: only balances of users go below zero; wallets, approvals,
   the tokens held, stakes, fills and prices never do. *)
THEOREM TypeCorrect == Spec => []TypeOK
<1>1. IInv => TypeOK
  BY DEF IInv
<1>. QED BY <1>1, Invariance, PTL

LEMMA ListsShowDebts == IInv => NegativeIsListed
<1>. SUFFICES ASSUME IInv, NEW u \in Users, NEW a \in Assets, Owes(u, a)
              PROVE  a \in Listed(u)
  BY DEF NegativeIsListed
<1>1. ListOK(assetBalances[u], liabilities[u])
  BY DEF IInv, ListsOK
<1>2. PICK i \in 1 .. Len(liabilities[u]) : liabilities[u][i].asset = a
  BY <1>1 DEF ListOK, EveryDebtListed, Owes
<1>3. DOMAIN liabilities[u] = 1 .. Len(liabilities[u])
  BY <1>1, LenProperties DEF ListOK
<1>. QED BY <1>2, <1>3 DEF Listed

(* Every debt is on its owner's list of liabilities, which is what the position
   checks and the liquidations add up (calcLiabilities). *)
THEOREM DebtsAreListed == Spec => []NegativeIsListed
BY ListsShowDebts, Invariance, PTL

(* Every entry of a list is a debt and the only entry of its asset, except for
   ORN, which liquidation rewards are also paid in. *)
THEOREM EntriesAreDebts == Spec => []ListedIsOwed
<1>1. IInv => ListedIsOwed
  BY DEF IInv, ListsOK, ListOK, EntryIsDebt, ListedIsOwed, Owes
<1>. QED BY <1>1, Invariance, PTL

(* A user with a liability has a stake that is locked, frozen, or released by
   the owner, and it is not empty: release requests, seizures of stakes and
   trades on credit exclude each other. *)
THEOREM StakeBehindDebts == Spec => []BorrowersHaveStake
<1>1. IInv => BorrowersHaveStake
  BY DEF IInv
<1>. QED BY <1>1, Invariance, PTL

-------------------------------------------------------------------------------
(* The exchange gives a stake the life of StakeLifecycle, for every set of users,
   assets and orders and every history. *)

Borrowers == {u \in Users : liabilities[u] # <<>>}

LifecycleStep == Lifecycle!Next \/ UNCHANGED Lifecycle!stakeVars

LEMMA InitIsInit == Init => Lifecycle!Init
<1>. SUFFICES ASSUME Init PROVE Lifecycle!Init
  OBVIOUS
<1>1. /\ stakingData = [u \in Users |->
             [amount |-> 0, phase |-> "NOTSTAKED", lastActionTimestamp |-> 0]]
      /\ liabilities = [u \in Users |-> <<>>]
      /\ now \in Nat
  BY TimeAssumption DEF Init, VaultInit, StorageInit, OracleInit, TimeAssumption
<1>2. \A u \in Users : getStakePhase(u) = "NOTSTAKED"
  BY <1>1 DEF getStakePhase
<1>. QED BY <1>1, <1>2 DEF Lifecycle!Init

(* A step that leaves stakes and time alone only makes borrowers, of users with
   security, or frees them. *)
LEMMA SettlesDebts ==
    ASSUME UNCHANGED <<stakingData, now>>, NewDebtsSecured
    PROVE  LifecycleStep
<1>1. \A u \in Users : getStakePhase(u)' = getStakePhase(u)
  BY DEF getStakePhase
<1>2. \A u \in Users : u \in Borrowers' \ Borrowers =>
          stakingData[u].amount > 0 /\ getStakePhase(u) \in {"LOCKED", "FROZEN"}
  BY <1>1 DEF NewDebtsSecured, HasSecurity, Borrowers
<1>3. Lifecycle!Settle
  BY <1>1, <1>2 DEF Lifecycle!Settle, Lifecycle!IsSecurity, Borrowers
<1>. QED BY <1>3 DEF LifecycleStep, Lifecycle!Next

(* The passing of time makes stakes ready whose release began long enough ago. *)
LEMMA TickPasses ==
    ASSUME IInv, Tick, UNCHANGED <<stakingData, liabilities>>
    PROVE  LifecycleStep
<1>1. now \in Nat /\ now' = now + 1
  BY DEF Tick, IInv, TypeOK, OracleTypeOK
<1>2. ASSUME NEW u \in Users
      PROVE  getStakePhase(u)' =
                IF Lifecycle!Matured(u, now') THEN "READYTORELEASE" ELSE getStakePhase(u)
  <2>1. stakingData[u].lastActionTimestamp \in Nat
    BY DEF IInv, TypeOK, VaultTypeOK, Stake
  <2>. DEFINE began == stakingData[u].lastActionTimestamp
  <2>2. now - began > ReleasingDuration => now' - began > ReleasingDuration
    BY <1>1, <2>1, VaultAssumption DEF VaultAssumption
  <2>3. stakingData'[u] = stakingData[u] /\ began' = began
    OBVIOUS
  <2>4. Lifecycle!Matured(u, now')
           <=> getStakePhase(u) = "RELEASING" /\ now' - began > ReleasingDuration
    BY DEF Lifecycle!Matured
  <2>5. getStakePhase(u) = IF /\ stakingData[u].phase = "RELEASING"
                              /\ now - began > ReleasingDuration
                           THEN "READYTORELEASE" ELSE stakingData[u].phase
    BY DEF getStakePhase
  <2>6. getStakePhase(u)' = IF /\ stakingData[u].phase = "RELEASING"
                               /\ now' - began > ReleasingDuration
                            THEN "READYTORELEASE" ELSE stakingData[u].phase
    BY <2>3 DEF getStakePhase
  <2>. HIDE DEF began
  <2>. QED BY <2>2, <2>4, <2>5, <2>6
<1>3. Lifecycle!Pass
  BY <1>1, <1>2 DEF Lifecycle!Pass
<1>. QED BY <1>3 DEF LifecycleStep, Lifecycle!Next

(* One stake changes, and nothing else of the life cycle. *)
LEMMA OneStake ==
    ASSUME IInv, NEW user \in Users, NEW stake \in Stake,
           stakingData' = [stakingData EXCEPT ![user] = stake],
           UNCHANGED now
    PROVE  /\ stakingData'[user] = stake
           /\ \A u \in Users \ {user} : /\ stakingData'[u] = stakingData[u]
                                        /\ getStakePhase(u)' = getStakePhase(u)
BY DEF IInv, TypeOK, VaultTypeOK, getStakePhase

LEMMA LockIsLock ==
    ASSUME IInv, NEW user \in Users, NEW amount \in Nat, LockStake(user, amount)
    PROVE  LifecycleStep
<1>. DEFINE old == stakingData[user]
            stake == [amount |-> old.amount + amount,
                      phase |-> IF old.phase = "FROZEN" THEN "FROZEN" ELSE "LOCKED",
                      lastActionTimestamp |-> now]
<1>1. /\ stakingData' = [stakingData EXCEPT ![user] = stake]
      /\ UNCHANGED <<liabilities, now>>
  BY DEF LockStake, vaultUnchanged
<1>2. old \in Stake /\ now \in Nat
  BY DEF IInv, TypeOK, VaultTypeOK, OracleTypeOK
<1>3. stake \in Stake /\ stake.amount >= old.amount
  BY <1>2 DEF Stake, StakePhase
<1>4. getStakePhase(user)' = IF getStakePhase(user) = "FROZEN" THEN "FROZEN" ELSE "LOCKED"
  <2>1. stakingData'[user] = stake
    BY <1>1, <1>3, OneStake
  <2>. QED BY <2>1 DEF getStakePhase
<1>5. Lifecycle!Lock(user)
  <2>1. /\ stakingData'[user] = stake
        /\ \A u \in Users \ {user} : /\ stakingData'[u] = stakingData[u]
                                     /\ getStakePhase(u)' = getStakePhase(u)
    BY <1>1, <1>3, OneStake
  <2>2. stakingData'[user].lastActionTimestamp = now
    BY <2>1
  <2>3. stakingData'[user].amount >= stakingData[user].amount
    BY <2>1, <1>3
  <2>. HIDE DEF stake, old
  <2>. DEFINE Amounts == [u \in Users |-> stakingData[u].amount]
  <2>4. Amounts'[user] = stakingData'[user].amount
    OBVIOUS
  <2>5. Amounts' = [Amounts EXCEPT ![user] = stakingData'[user].amount]
    BY <2>1
  <2>6. [u \in Users |-> stakingData[u].lastActionTimestamp]'
           = [[u \in Users |-> stakingData[u].lastActionTimestamp] EXCEPT ![user] = now]
    BY <2>1, <2>2
  <2>7. [u \in Users |-> getStakePhase(u)]'
           = [[u \in Users |-> getStakePhase(u)] EXCEPT ![user] =
                 IF @ = "FROZEN" THEN @ ELSE "LOCKED"]
    BY <1>4, <2>1
  <2>. QED BY <1>1, <2>3, <2>4, <2>5, <2>6, <2>7 DEF Lifecycle!Lock
<1>. QED BY <1>5 DEF LifecycleStep, Lifecycle!Next

LEMMA ReleaseIsRelease ==
    ASSUME IInv, NEW user \in Users, RequestReleaseStake(user)
    PROVE  LifecycleStep
<1>. DEFINE old == stakingData[user]
<1>1. /\ liabilities[user] = <<>>
      /\ UNCHANGED <<liabilities, now>>
  BY DEF RequestReleaseStake, StartRelease, CollectStake, vaultUnchanged
<1>2. old \in Stake /\ now \in Nat
  BY DEF IInv, TypeOK, VaultTypeOK, OracleTypeOK
<1>3. CASE StartRelease(user)
  <2>. DEFINE stake == [old EXCEPT !.phase = "RELEASING", !.lastActionTimestamp = now]
  <2>1. stake \in Stake
    BY <1>2 DEF Stake, StakePhase
  <2>2. stakingData' = [stakingData EXCEPT ![user] = stake]
    BY <1>2, <1>3 DEF StartRelease, IInv, TypeOK, VaultTypeOK, Stake
  <2>3. /\ stakingData'[user] = stake
        /\ \A u \in Users \ {user} : /\ stakingData'[u] = stakingData[u]
                                     /\ getStakePhase(u)' = getStakePhase(u)
    BY <1>1, <2>1, <2>2, OneStake
  <2>4. /\ stakingData'[user].phase = "RELEASING"
        /\ stakingData'[user].lastActionTimestamp = now
        /\ stakingData'[user].amount = stakingData[user].amount
    BY <1>2, <2>3 DEF Stake
  <2>5. getStakePhase(user)' = "RELEASING"
    <3>1. ~(now - now > ReleasingDuration)
      BY <1>2, VaultAssumption DEF VaultAssumption
    <3>. QED BY <1>1, <2>4, <3>1 DEF getStakePhase
  <2>6. getStakePhase(user) = "LOCKED"
    BY <1>3 DEF StartRelease
  <2>. HIDE DEF stake, old
  <2>7. Lifecycle!CallBack(user)
    BY <1>1, <2>3, <2>4, <2>5, <2>6 DEF Lifecycle!CallBack
  <2>. QED BY <2>7 DEF LifecycleStep, Lifecycle!Next
<1>4. CASE CollectStake(user)
  <2>. DEFINE stake == [old EXCEPT !.amount = 0, !.phase = "NOTSTAKED"]
  <2>1. stake \in Stake
    BY <1>2 DEF Stake, StakePhase
  <2>2. stakingData' = [stakingData EXCEPT ![user] = stake]
    BY <1>2, <1>4 DEF CollectStake, IInv, TypeOK, VaultTypeOK, Stake
  <2>3. /\ stakingData'[user] = stake
        /\ \A u \in Users \ {user} : /\ stakingData'[u] = stakingData[u]
                                     /\ getStakePhase(u)' = getStakePhase(u)
    BY <1>1, <2>1, <2>2, OneStake
  <2>4. /\ stakingData'[user].phase = "NOTSTAKED"
        /\ stakingData'[user].lastActionTimestamp = stakingData[user].lastActionTimestamp
        /\ stakingData'[user].amount = 0
    BY <1>2, <2>3 DEF Stake
  <2>5. getStakePhase(user)' = "NOTSTAKED"
    BY <2>4 DEF getStakePhase
  <2>6. getStakePhase(user) = "READYTORELEASE"
    BY <1>4 DEF CollectStake
  <2>. HIDE DEF stake, old
  <2>7. Lifecycle!Collect(user)
    BY <1>1, <2>3, <2>4, <2>5, <2>6 DEF Lifecycle!Collect
  <2>. QED BY <2>7 DEF LifecycleStep, Lifecycle!Next
<1>. QED BY <1>3, <1>4 DEF RequestReleaseStake

LEMMA OverrideIsOverride ==
    ASSUME IInv, NEW user \in Users, NEW decision \in {"FROZEN", "READYTORELEASE"},
           SetPhase(user, decision)
    PROVE  LifecycleStep
<1>. DEFINE old == stakingData[user]
            stake == [old EXCEPT !.phase = decision]
<1>1. UNCHANGED <<liabilities, now>>
  BY DEF SetPhase, vaultUnchanged
<1>2. old \in Stake
  BY DEF IInv, TypeOK, VaultTypeOK
<1>3. stake \in Stake
  BY <1>2 DEF Stake, StakePhase
<1>4. stakingData' = [stakingData EXCEPT ![user] = stake]
  BY <1>2 DEF SetPhase, IInv, TypeOK, VaultTypeOK, Stake
<1>5. /\ stakingData'[user] = stake
      /\ \A u \in Users \ {user} : /\ stakingData'[u] = stakingData[u]
                                   /\ getStakePhase(u)' = getStakePhase(u)
  BY <1>1, <1>3, <1>4, OneStake
<1>6. /\ stakingData'[user].phase = decision
      /\ stakingData'[user].lastActionTimestamp = stakingData[user].lastActionTimestamp
      /\ stakingData'[user].amount = stakingData[user].amount
  BY <1>2, <1>5 DEF Stake
<1>7. getStakePhase(user)' = decision
  BY <1>6 DEF getStakePhase
<1>. HIDE DEF stake, old
<1>8. Lifecycle!Override(user, decision)
  BY <1>1, <1>5, <1>6, <1>7 DEF Lifecycle!Override
<1>. QED BY <1>8 DEF LifecycleStep, Lifecycle!Next

(* A liquidation takes from the stake of the borrower, who is on the list. *)
LEMMA LiquidationSeizes ==
    ASSUME IInv, NEW liquidator \in Users, NEW broker \in Users, NEW asset \in Assets,
           NEW amount \in Nat, PartiallyLiquidate(liquidator, broker, asset, amount)
    PROVE  LifecycleStep
<1>. DEFINE old == stakingData[broker]
            redeemed == BalancesAfterRedemption(broker, liquidator, asset, amount)
            reward == LiquidationReward(asset, amount)
            fromStake == reward - RewardFromBalance(redeemed[broker][ORN], reward)
            stake == [old EXCEPT !.amount = old.amount - fromStake]
<1>1. /\ old \in Stake /\ liabilities \in [Users -> Seq(Liability)]
      /\ \A u \in Users : u = broker \/ u # broker
  BY DEF IInv, TypeOK, VaultTypeOK, StorageTypeOK
<1>2. /\ UNCHANGED now
      /\ stakingData' = [stakingData EXCEPT ![broker] = stake]
      /\ old.amount >= fromStake
      /\ assetBalances[broker][asset] < 0
      /\ \A u \in Users \ {broker} : liabilities'[u] = liabilities[u]
  BY <1>1 DEF PartiallyLiquidate, IInv, TypeOK, VaultTypeOK, Stake
<1>3. fromStake \in Nat
  <2>1. reward \in Nat
    BY RewardNat
  <2>. HIDE DEF reward, redeemed
  <2>2. redeemed[broker][ORN] \in Int
    <3>1. assetBalances \in [Users -> [Assets -> Int]] /\ ORN \in Assets
      BY StorageAssumption DEF StorageAssumption, IInv, TypeOK, StorageTypeOK
    <3>. QED BY <3>1 DEF redeemed, BalancesAfterRedemption
  <2>. QED BY <2>1, <2>2 DEF RewardFromBalance
<1>. HIDE DEF fromStake
<1>4. stake \in Stake /\ stake.amount <= old.amount
      /\ stake.phase = old.phase /\ stake.lastActionTimestamp = old.lastActionTimestamp
  <2>1. old \in Stake /\ old.amount >= fromStake
    BY <1>1, <1>2
  <2>. HIDE DEF old
  <2>2. old.amount - fromStake \in Nat /\ old.amount - fromStake <= old.amount
    BY <1>3, <2>1 DEF Stake
  <2>. QED BY <2>1, <2>2 DEF Stake
<1>. HIDE DEF stake, old
<1>5. /\ stakingData'[broker] = stake
      /\ \A u \in Users \ {broker} : /\ stakingData'[u] = stakingData[u]
                                     /\ getStakePhase(u)' = getStakePhase(u)
  BY <1>2, <1>4, OneStake
<1>6. getStakePhase(broker)' = getStakePhase(broker)
  BY <1>2, <1>4, <1>5 DEF getStakePhase, old
<1>7. broker \in Borrowers
  <2>1. asset \in Listed(broker)
    BY <1>2, ListsShowDebts DEF NegativeIsListed, Owes
  <2>. QED BY <2>1 DEF Listed, Borrowers
<1>8. Borrowers' \in {Borrowers, Borrowers \ {broker}}
  BY <1>2, <1>7 DEF Borrowers
<1>9. Lifecycle!Seize(broker)
  <2>. DEFINE Amounts == [u \in Users |-> stakingData[u].amount]
  <2>1. Amounts'[broker] <= Amounts[broker]
    BY <1>4, <1>5 DEF old
  <2>2. Amounts' = [Amounts EXCEPT ![broker] = Amounts'[broker]]
    BY <1>5
  <2>3. UNCHANGED [u \in Users |-> stakingData[u].lastActionTimestamp]
    BY <1>4, <1>5 DEF old
  <2>4. UNCHANGED [u \in Users |-> getStakePhase(u)]
    BY <1>5, <1>6
  <2>. QED BY <1>2, <1>7, <1>8, <2>1, <2>2, <2>3, <2>4 DEF Lifecycle!Seize, Borrowers
<1>. QED BY <1>9 DEF LifecycleStep, Lifecycle!Next

-------------------------------------------------------------------------------
(* Every step of the exchange is a step of the life cycle, or leaves it as it is. *)
LEMMA StepIsStep ==
    ASSUME IInv, [Next]_vars
    PROVE  LifecycleStep
<1>1. CASE OracleStep
  <2>1. UNCHANGED <<stakingData, liabilities>>
    BY <1>1 DEF OracleStep, ledgerVars
  <2>2. CASE Tick
    BY <2>1, <2>2, TickPasses
  <2>3. CASE UNCHANGED now
    BY <2>1, <2>3, SettlesDebts DEF NewDebtsSecured
  <2>. QED BY <1>1, <2>2, <2>3 DEF OracleStep, ProvideData
<1>2. CASE UserStep
  <2>1. PICK u \in Users :
           \/ \E a \in Assets : \E x \in DepositAmounts[u][a] : Deposit(u, a, x)
           \/ \E a \in Assets : \E x \in WithdrawAmounts[u][a] : Withdraw(u, a, x)
           \/ \E a \in Assets : \E x \in ApproveAmounts[u][a] : Approve(u, a, x)
           \/ \E x \in StakeAmounts[u] : LockStake(u, x)
           \/ RequestReleaseStake(u)
           \/ \E b \in Users, a \in Assets : \E x \in LiquidationAmounts[u][a] :
                 PartiallyLiquidate(u, b, a, x)
    BY <1>2 DEF UserStep
  <2>2. ASSUME NEW a \in Assets, NEW x \in DepositAmounts[u][a], Deposit(u, a, x)
        PROVE  LifecycleStep
    <3>1. NewDebtsSecured
      BY <2>2, InputsNat, DepositInv
    <3>2. UNCHANGED <<stakingData, now>>
      BY <2>2 DEF Deposit, oracleVars
    <3>. QED BY <3>1, <3>2, SettlesDebts
  <2>3. ASSUME NEW a \in Assets, NEW x \in WithdrawAmounts[u][a], Withdraw(u, a, x)
        PROVE  LifecycleStep
    <3>1. NewDebtsSecured
      BY <2>3, InputsNat, WithdrawInv
    <3>2. UNCHANGED <<stakingData, now>>
      BY <2>3 DEF Withdraw, oracleVars
    <3>. QED BY <3>1, <3>2, SettlesDebts
  <2>4. ASSUME NEW a \in Assets, NEW x \in ApproveAmounts[u][a], Approve(u, a, x)
        PROVE  LifecycleStep
    <3>1. UNCHANGED <<stakingData, now, liabilities>>
      BY <2>4 DEF Approve, oracleVars
    <3>. QED BY <3>1, SettlesDebts DEF NewDebtsSecured
  <2>5. ASSUME NEW x \in StakeAmounts[u], LockStake(u, x)
        PROVE  LifecycleStep
    BY <2>5, InputsNat, LockIsLock
  <2>6. CASE RequestReleaseStake(u)
    BY <2>6, ReleaseIsRelease
  <2>7. ASSUME NEW b \in Users, NEW a \in Assets, NEW x \in LiquidationAmounts[u][a],
               PartiallyLiquidate(u, b, a, x)
        PROVE  LifecycleStep
    BY <2>7, InputsNat, LiquidationSeizes
  <2>. QED BY <2>1, <2>2, <2>3, <2>4, <2>5, <2>6, <2>7
<1>3. CASE MatcherStep
  <2>1. PICK m \in Users, buy \in Orders, sell \in Orders, p \in FillPrices, x \in FillAmounts :
           FillOrders(m, buy, sell, p, x)
    BY <1>3 DEF MatcherStep
  <2>2. p \in Nat /\ x \in Nat
    BY ExchangeAssumption DEF ExchangeAssumption
  <2>3. NewDebtsSecured
    BY <2>1, <2>2, FillOrdersInv
  <2>4. UNCHANGED <<stakingData, now>>
    BY <2>1 DEF FillOrders, oracleVars
  <2>. QED BY <2>3, <2>4, SettlesDebts
<1>4. CASE OwnerStep
  <2>1. CASE \/ \E s \in SettingsChoices : UpdateMarginalSettings(s)
             \/ \E r \in RiskChoices : UpdateAssetRisks(r)
    <3>1. UNCHANGED <<stakingData, now, liabilities>>
      BY <2>1 DEF UpdateMarginalSettings, UpdateAssetRisks, ledgerVars, oracleVars
    <3>. QED BY <3>1, SettlesDebts DEF NewDebtsSecured
  <2>2. CASE \E u \in OwnerTargets : PostponeStakeRelease(u) \/ AllowStakeRelease(u)
    <3>1. PICK u \in OwnerTargets : PostponeStakeRelease(u) \/ AllowStakeRelease(u)
      BY <2>2
    <3>2. u \in Users
      BY ExchangeAssumption DEF ExchangeAssumption
    <3>. QED BY <3>1, <3>2, OverrideIsOverride DEF PostponeStakeRelease, AllowStakeRelease
  <2>. QED BY <1>4, <2>1, <2>2 DEF OwnerStep
<1>5. CASE UNCHANGED vars
  <2>1. UNCHANGED <<stakingData, now, liabilities>>
    BY <1>5 DEF vars
  <2>. QED BY <2>1, SettlesDebts DEF NewDebtsSecured
<1>. QED BY <1>1, <1>2, <1>3, <1>4, <1>5 DEF Next

(* The vault, the trades on credit and the liquidations of the exchange together
   implement the life cycle of a stake: a stake leaves only after the releasing
   time or by the owner's word, never while anything is owed, only a liquidation
   takes from it, and whoever starts to owe has one. *)
THEOREM StakeImplementsLifecycle == Spec => ImplementsLifecycle
<1>1. Init => Lifecycle!Init
  BY InitIsInit
<1>2. IInv /\ [Next]_vars => [Lifecycle!Next]_(Lifecycle!stakeVars)
  BY StepIsStep DEF LifecycleStep
<1>. QED BY <1>1, <1>2, Invariance, PTL DEF Spec, ImplementsLifecycle, Lifecycle!Spec
===============================================================================
