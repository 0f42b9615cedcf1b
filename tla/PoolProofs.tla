------------------------------ MODULE PoolProofs ------------------------------
(***************************************************************************)
(* The inductive invariant of the exchange, and what follows from it, with *)
(* the pool as a counterparty: for every set of pairs, paths and requests. *)
(***************************************************************************)
EXTENDS ExchangeWithOrionPoolProperties, ExchangeProofs

PoolIInv == IInv /\ reserves \in ReservesType

(* M has the balances and the lists of L, and its type. *)
OnlyTokens(L, M) ==
    /\ M \in LedgerType
    /\ M.assetBalances = L.assetBalances
    /\ M.liabilities = L.liabilities

LEMMA OnlyTokensOK ==
    ASSUME NEW L, LedgerOK(L), NEW M, OnlyTokens(L, M)
    PROVE  LedgerOK(M) /\ \A S : NoNewBorrower(L, M, S)
BY DEF OnlyTokens, LedgerOK, NoNewBorrower

LEMMA PayFields ==
    ASSUME NEW L \in LedgerType, NEW user \in Users, NEW asset \in Assets, NEW base \in Nat,
           NEW fromExchange \in BOOLEAN, CanPay(L, user, fromExchange, asset, base)
    PROVE  OnlyTokens(L, Pay(L, user, fromExchange, asset, base))
<1>1. CASE fromExchange
  <2>. DEFINE hld == [L.held EXCEPT ![asset] = L.held[asset] - base]
  <2>1. Pay(L, user, fromExchange, asset, base) = [L EXCEPT !.held = hld]
    BY <1>1 DEF Pay, LedgerType
  <2>2. L.held[asset] - base \in Nat
    BY <1>1 DEF CanPay, LedgerType
  <2>3. hld \in [Assets -> Nat]
    BY <2>2 DEF LedgerType
  <2>. HIDE DEF hld
  <2>. QED BY <2>1, <2>3 DEF LedgerType, OnlyTokens
<1>2. CASE ~fromExchange
  <2>. DEFINE wal == [L.wallet EXCEPT ![user] =
                        [L.wallet[user] EXCEPT ![asset] = L.wallet[user][asset] - base]]
              allow == [L.allowance EXCEPT ![user] =
                        [L.allowance[user] EXCEPT ![asset] = L.allowance[user][asset] - base]]
  <2>1. Pay(L, user, fromExchange, asset, base) =
           [L EXCEPT !.wallet = wal, !.allowance = allow]
    BY <1>2 DEF Pay, LedgerType
  <2>2. /\ L.wallet[user][asset] - base \in Nat
        /\ L.allowance[user][asset] - base \in Nat
    BY <1>2 DEF CanPay, CanReceive, LedgerType
  <2>3. wal \in [Users -> [Assets -> Nat]] /\ allow \in [Users -> [Assets -> Nat]]
    BY <2>2 DEF LedgerType
  <2>. HIDE DEF wal, allow
  <2>. QED BY <2>1, <2>3 DEF LedgerType, OnlyTokens
<1>. QED BY <1>1, <1>2

LEMMA CollectFields ==
    ASSUME NEW L \in LedgerType, NEW user \in Users, NEW asset \in Assets, NEW base \in Nat,
           NEW toExchange \in BOOLEAN
    PROVE  OnlyTokens(L, Collect(L, user, toExchange, asset, base))
<1>1. CASE toExchange
  <2>. DEFINE hld == [L.held EXCEPT ![asset] = L.held[asset] + base]
  <2>1. Collect(L, user, toExchange, asset, base) = [L EXCEPT !.held = hld]
    BY <1>1 DEF Collect, LedgerType
  <2>2. L.held[asset] + base \in Nat
    BY DEF LedgerType
  <2>3. hld \in [Assets -> Nat]
    BY <2>2 DEF LedgerType
  <2>. HIDE DEF hld
  <2>. QED BY <2>1, <2>3 DEF LedgerType, OnlyTokens
<1>2. CASE ~toExchange
  <2>. DEFINE wal == [L.wallet EXCEPT ![user] =
                        [L.wallet[user] EXCEPT ![asset] = L.wallet[user][asset] + base]]
  <2>1. Collect(L, user, toExchange, asset, base) = [L EXCEPT !.wallet = wal]
    BY <1>2 DEF Collect, LedgerType
  <2>2. L.wallet[user][asset] + base \in Nat
    BY DEF LedgerType
  <2>3. wal \in [Users -> [Assets -> Nat]]
    BY <2>2 DEF LedgerType
  <2>. HIDE DEF wal
  <2>. QED BY <2>1, <2>3 DEF LedgerType, OnlyTokens
<1>. QED BY <1>1, <1>2

LEMMA PathEnds ==
    ASSUME NEW path \in Paths
    PROVE  /\ 1 \in DOMAIN path /\ Len(path) \in DOMAIN path
           /\ First(path) \in Assets /\ Last(path) \in Assets
<1>1. path \in Seq(Assets) /\ Len(path) >= 2
  BY PoolAssumption DEF PoolAssumption
<1>2. Len(path) \in Nat /\ DOMAIN path = 1 .. Len(path)
  BY <1>1, LenProperties
<1>3. 1 \in DOMAIN path /\ Len(path) \in DOMAIN path
  BY <1>1, <1>2
<1>4. path[1] \in Assets /\ path[Len(path)] \in Assets
  BY <1>1, <1>2, <1>3, ElementOfSeq
<1>. QED BY <1>3, <1>4 DEF First, Last

(* A swap that does not revert moves tokens, keeps the types, and reports
   natural numbers. *)
LEMMA SwapOK ==
    ASSUME NEW L \in LedgerType, NEW user \in Users, NEW path \in Paths,
           NEW fromExchange \in BOOLEAN, NEW toExchange \in BOOLEAN,
           NEW spend, NEW receive, NEW exact,
           doSwapThroughOrionPool(L, user, fromExchange, spend, receive, path, exact,
                                  toExchange).ok
    PROVE  LET swap == doSwapThroughOrionPool(L, user, fromExchange, spend, receive, path,
                                              exact, toExchange)
           IN /\ OnlyTokens(L, swap.ledger)
              /\ swap.reserves \in ReservesType
              /\ swap.amountOut \in Nat /\ swap.amountIn \in Nat
<1>. DEFINE amounts == Quote(spend, receive, path, exact)
            paid == amounts[1]
            received == amounts[Len(path)]
            payed == Pay(L, user, fromExchange, First(path), paid)
            final == Collect(payed, user, toExchange, Last(path), received)
            next == Swapped(amounts, path)
            swap == doSwapThroughOrionPool(L, user, fromExchange, spend, receive, path,
                                           exact, toExchange)
<1>1. /\ \A i \in DOMAIN path : amounts[i] \in Nat \ {0}
      /\ CanPay(L, user, fromExchange, First(path), paid)
      /\ next \in [Pools -> [Assets -> 0 .. Uint112Max]]
      /\ swap.ledger = final
      /\ swap.reserves = next
      /\ swap.amountOut = BaseUnitToDecimal(First(path), paid)
      /\ swap.amountIn = BaseUnitToDecimal(Last(path), received)
  BY DEF doSwapThroughOrionPool
<1>2. paid \in Nat /\ received \in Nat
  BY <1>1, PathEnds
<1>. HIDE DEF amounts, paid, received, next, swap
<1>3. OnlyTokens(L, payed)
  BY <1>1, <1>2, PathEnds, PayFields
<1>4. OnlyTokens(payed, final)
  <2>1. payed \in LedgerType
    BY <1>3 DEF OnlyTokens
  <2>. HIDE DEF payed
  <2>. QED BY <1>2, <2>1, PathEnds, CollectFields
<1>5. OnlyTokens(L, final)
  BY <1>3, <1>4 DEF OnlyTokens
<1>6. next \in ReservesType
  <2>1. Uint112Max \in Nat
    BY ExchangeAssumption DEF ExchangeAssumption
  <2>2. \A f \in [Assets -> 0 .. Uint112Max] : f \in [Assets -> Nat]
    BY <2>1
  <2>. QED BY <1>1, <2>2 DEF ReservesType
<1>7. swap.amountOut \in Nat /\ swap.amountIn \in Nat
  <2>1. /\ BaseUnitToDecimal(First(path), paid) \in Nat
        /\ BaseUnitToDecimal(Last(path), received) \in Nat
    BY <1>2, PathEnds, ConversionNat
  <2>. QED BY <1>1, <2>1
<1>. QED BY <1>1, <1>5, <1>6, <1>7 DEF swap

(* The fee of a matcher makes a borrower of the payer only. *)
LEMMA PayFeeOK ==
    ASSUME NEW L, LedgerOK(L), NEW order \in OrderType, NEW fee \in Nat, now \in Nat
    PROVE  /\ LedgerOK(_payMatcherFee(L, order, fee))
           /\ NoNewBorrower(L, _payMatcherFee(L, order, fee), {order.senderAddress})
<1>. DEFINE user == order.senderAddress
            charged == _updateBalance(L, user, order.matcherFeeAsset, -fee)
            M == _updateBalance(charged.ledger, order.matcherAddress,
                                order.matcherFeeAsset, fee).ledger
<1>1. /\ user \in Users /\ order.matcherAddress \in Users /\ order.matcherFeeAsset \in Assets
      /\ -fee \in Int /\ fee \in Int /\ fee >= 0
  BY DEF OrderType
<1>. HIDE DEF user
<1>2. LedgerOK(charged.ledger) /\ NoNewBorrower(L, charged.ledger, {user})
  BY <1>1, UpdateBalanceOK
<1>. HIDE DEF charged
<1>3. LedgerOK(M) /\ NoNewBorrower(charged.ledger, M, {})
  BY <1>1, <1>2, UpdateBalanceOK
<1>4. M = _payMatcherFee(L, order, fee)
  BY DEF _payMatcherFee, charged, user
<1>. HIDE DEF M
<1>. QED BY <1>2, <1>3, <1>4 DEF NoNewBorrower, user

LEMMA SettleSwapOK ==
    ASSUME NEW swap, LedgerOK(swap.ledger), swap.amountIn \in Nat,
           NEW order \in OrderType, NEW isSeller \in BOOLEAN, NEW inContract \in BOOLEAN,
           NEW filledBase \in Nat, NEW filledQuote \in Nat, NEW path \in Paths, now \in Nat
    PROVE  LET M == SettleSwap(swap, order, isSeller, inContract, filledBase, filledQuote, path)
           IN LedgerOK(M) /\ NoNewBorrower(swap.ledger, M, {order.senderAddress})
<1>. DEFINE user == order.senderAddress
            debited == updateOrderBalanceDebit(swap.ledger, order, isSeller,
                           filledBase, filledQuote, order.matcherFee)
            feePaid == _payMatcherFee(swap.ledger, order, order.matcherFee)
            M == SettleSwap(swap, order, isSeller, inContract, filledBase, filledQuote, path)
<1>1. user \in Users /\ order.matcherFee \in Nat /\ Last(path) \in Assets
  BY PathEnds DEF OrderType
<1>2. M = IF inContract
          THEN creditUserAssets(debited.ledger, debited.fromWallet, user,
                                debited.actualIn, Last(path))
          ELSE IF RetainsFee(order, inContract, path)
          THEN creditUserAssets(feePaid, TRUE, user, swap.amountIn, Last(path))
          ELSE feePaid
  BY DEF SettleSwap
<1>3. /\ LedgerOK(debited.ledger) /\ debited.actualIn \in Int
      /\ NoNewBorrower(swap.ledger, debited.ledger, {user})
  BY <1>1, DebitOK
<1>4. LedgerOK(feePaid) /\ NoNewBorrower(swap.ledger, feePaid, {user})
  BY <1>1, PayFeeOK
<1>. HIDE DEF user, debited, feePaid, M
<1>5. LedgerOK(M) /\ NoNewBorrower(swap.ledger, M, {user})
  <2>1. CASE inContract
    <3>1. M = creditUserAssets(debited.ledger, debited.fromWallet, user,
                               debited.actualIn, Last(path))
      BY <1>2, <2>1
    <3>2. LedgerOK(M) /\ NoNewBorrower(debited.ledger, M, {user})
      BY <1>1, <1>3, <3>1, CreditOK
    <3>. QED BY <1>3, <3>2 DEF NoNewBorrower
  <2>2. CASE ~inContract /\ RetainsFee(order, inContract, path)
    <3>1. M = creditUserAssets(feePaid, TRUE, user, swap.amountIn, Last(path))
      BY <1>2, <2>2
    <3>2. swap.amountIn \in Int
      OBVIOUS
    <3>3. LedgerOK(M) /\ NoNewBorrower(feePaid, M, {user})
      BY <1>1, <1>4, <3>1, <3>2, CreditOK
    <3>. QED BY <1>4, <3>3 DEF NoNewBorrower
  <2>3. CASE ~inContract /\ ~RetainsFee(order, inContract, path)
    BY <1>2, <1>4, <2>3
  <2>. QED BY <2>1, <2>2, <2>3
<1>. QED BY <1>5 DEF M, user

-------------------------------------------------------------------------------
(* A transaction after which only users of S may be new borrowers, each of
   them with a position that has been checked. *)
LEMMA CheckedCommitOK ==
    ASSUME IInv, NEW L, LedgerOK(L), Commit(L), NEW S \in SUBSET Users,
           NoNewBorrower(Ledger, L, S), \A u \in S : checkPosition(u)',
           filledAmounts' \in [OrderHashes -> Nat],
           UNCHANGED <<stakingData, settingsVars, oracleVars>>
    PROVE  IInv'
<1>1. TypeOK' /\ ListsOK'
  BY CommitOK
<1>2. BorrowersHaveStake'
  <2>1. \A u \in Users \ S : liabilities[u] = <<>> => liabilities'[u] = <<>>
    BY DEF NoNewBorrower, Ledger, Commit
  <2>2. \A u \in S : liabilities'[u] # <<>> => StakeCounts(u)'
    <3>. SUFFICES ASSUME NEW u \in S, liabilities'[u] # <<>> PROVE StakeCounts(u)'
      OBVIOUS
    <3>1. u \in Users /\ VaultTypeOK'
      BY <1>1 DEF TypeOK
    <3>2. calcPosition(u)'.state # "INCORRECT"
      BY DEF checkPosition
    <3>. QED BY <3>1, <3>2, CheckedHasStake
  <2>3. UNCHANGED stakingData
    OBVIOUS
  <2>. QED BY <2>1, <2>2, <2>3, StakesUnchanged
<1>. QED BY <1>1, <1>2 DEF IInv

(* An order with a lower fee is hashed to one of the hashes of the order. *)
LEMMA HashOfLowered ==
    ASSUME NEW order \in Orders, NEW fee \in 0 .. order.matcherFee,
           NEW charged, charged = [order EXCEPT !.matcherFee = fee]
    PROVE  /\ charged \in OrderType
           /\ charged.senderAddress = order.senderAddress
           /\ getTypeValueHash(charged) \in OrderHashes
<1>1. order \in OrderType
  BY StorageAssumption DEF StorageAssumption
<1>2. fee \in Nat
  BY <1>1 DEF OrderType
<1>3. /\ charged \in OrderType /\ charged.matcherFee = fee
      /\ charged.senderAddress = order.senderAddress /\ charged.nonce = order.nonce
  BY <1>1, <1>2 DEF OrderType
<1>4. getTypeValueHash(charged) \in OrderHashes
  BY <1>3 DEF getTypeValueHash, OrderHashes
<1>. QED BY <1>3, <1>4

LEMMA FillThroughOrionPoolInv ==
    ASSUME PoolIInv, NEW sender \in Users, NEW order \in Orders, NEW filledAmount \in Nat,
           NEW blockchainFee \in Nat, NEW path \in Paths,
           FillThroughOrionPool(sender, order, filledAmount, blockchainFee, path)
    PROVE  PoolIInv'
<1>. DEFINE user == order.senderAddress
            isSeller == order.buySide = kSell
            amountQuote == (filledAmount * order.price) \div Unit
            spend == IF isSeller THEN filledAmount ELSE amountQuote
            receive == IF isSeller THEN amountQuote ELSE filledAmount
            inContract == First(path) = ETH \/ assetBalances[user][First(path)] > 0
            retains == inContract \/ RetainsFee(order, inContract, path)
            swap == doSwapThroughOrionPool(Ledger, user, inContract, spend, receive, path,
                        isSeller, retains)
            filledBase == IF isSeller THEN swap.amountOut ELSE swap.amountIn
            filledQuote == IF isSeller THEN swap.amountIn ELSE swap.amountOut
            charged == IF swap.ok /\ LowersFee(order, blockchainFee)
                       THEN [order EXCEPT !.matcherFee = blockchainFee] ELSE order
            hash == getTypeValueHash(charged)
            filled == IF swap.ok THEN filledBase ELSE 0
            L == IF swap.ok
                 THEN SettleSwap(swap, charged, isSeller, inContract,
                                 filledBase, filledQuote, path)
                 ELSE _payMatcherFee(Ledger, order, order.matcherFee)
<1>1. /\ filledAmounts' = [filledAmounts EXCEPT ![hash] = filledAmounts[hash] + filled]
      /\ Commit(L)
      /\ reserves' = IF swap.ok THEN swap.reserves ELSE reserves
      /\ UNCHANGED <<stakingData, settingsVars, oracleVars>>
      /\ checkPosition(user)'
  BY DEF FillThroughOrionPool, PositionChecked
<1>2. order \in OrderType /\ user \in Users /\ IInv /\ now \in Nat
  BY StorageAssumption
     DEF StorageAssumption, OrderType, PoolIInv, IInv, TypeOK, OracleTypeOK
<1>3. isSeller \in BOOLEAN /\ inContract \in BOOLEAN /\ retains \in BOOLEAN
  BY DEF RetainsFee
<1>4. LedgerOK(Ledger) /\ Ledger \in LedgerType
  BY <1>2, LedgerIsOK
<1>5. swap.ok => /\ OnlyTokens(Ledger, swap.ledger)
                 /\ swap.reserves \in ReservesType
                 /\ swap.amountOut \in Nat /\ swap.amountIn \in Nat
  <2>. HIDE DEF user, isSeller, spend, receive, inContract, retains
  <2>. QED BY <1>2, <1>3, <1>4, SwapOK
<1>6. charged \in OrderType /\ charged.senderAddress = user /\ hash \in OrderHashes
  <2>. HIDE DEF swap
  <2>1. CASE swap.ok /\ LowersFee(order, blockchainFee)
    <3>1. blockchainFee \in 0 .. order.matcherFee
      BY <1>2, <2>1 DEF OrderType, LowersFee
    <3>. QED BY <2>1, <3>1, HashOfLowered
  <2>2. CASE ~(swap.ok /\ LowersFee(order, blockchainFee))
    BY <1>2, <2>2, HashOfOrder
  <2>. QED BY <2>1, <2>2
<1>. HIDE DEF swap, charged, hash, inContract, isSeller
<1>7. LedgerOK(L) /\ NoNewBorrower(Ledger, L, {user})
  <2>1. CASE swap.ok
    <3>1. LedgerOK(swap.ledger) /\ NoNewBorrower(Ledger, swap.ledger, {user})
      BY <1>4, <1>5, <2>1, OnlyTokensOK
    <3>2. filledBase \in Nat /\ filledQuote \in Nat
      BY <1>5, <2>1
    <3>3. L = SettleSwap(swap, charged, isSeller, inContract, filledBase, filledQuote, path)
      BY <2>1
    <3>. HIDE DEF filledBase, filledQuote, L, user
    <3>4. LedgerOK(L) /\ NoNewBorrower(swap.ledger, L, {user})
      BY <1>2, <1>3, <1>5, <1>6, <2>1, <3>1, <3>2, <3>3, SettleSwapOK
    <3>. QED BY <3>1, <3>4 DEF NoNewBorrower
  <2>2. CASE ~swap.ok
    <3>1. L = _payMatcherFee(Ledger, order, order.matcherFee) /\ order.matcherFee \in Nat
      BY <1>2, <2>2 DEF OrderType
    <3>. HIDE DEF L
    <3>. QED BY <1>2, <1>4, <3>1, PayFeeOK
  <2>. QED BY <2>1, <2>2
<1>8. filledAmounts' \in [OrderHashes -> Nat]
  <2>1. filled \in Nat
    BY <1>5
  <2>2. filledAmounts \in [OrderHashes -> Nat]
    BY <1>2 DEF IInv, TypeOK, StorageTypeOK
  <2>3. filledAmounts[hash] + filled \in Nat
    BY <1>6, <2>1, <2>2
  <2>. HIDE DEF filled
  <2>. QED BY <1>1, <1>6, <2>2, <2>3
<1>9. reserves' \in ReservesType
  BY <1>1, <1>5 DEF PoolIInv
<1>10. IInv'
  <2>1. {user} \in SUBSET Users /\ \A u \in {user} : checkPosition(u)'
    BY <1>1, <1>2
  <2>. HIDE DEF user, L
  <2>. QED BY <1>1, <1>2, <1>7, <1>8, <2>1, CheckedCommitOK
<1>. QED BY <1>9, <1>10 DEF PoolIInv

(* Nothing is owed to a user who is sent no ether. *)
LEMMA SendOrNothing ==
    ASSUME NEW L \in LedgerType, NEW user \in Users, NEW base \in Nat,
           base > 0 => L.held[ETH] >= base, ETH \in Assets
    PROVE  OnlyTokens(L, Send(L, user, ETH, base))
<1>1. L.held[ETH] >= base
  BY DEF LedgerType
<1>. QED BY <1>1, SendFields DEF OnlyTokens

LEMMA SwapThroughOrionPoolInv ==
    ASSUME PoolIInv, NEW user \in Users, NEW request \in PoolSwaps,
           SwapThroughOrionPool(user, request)
    PROVE  PoolIInv'
<1>. DEFINE path == request.path
            ethSent == BaseUnitToDecimal(ETH, request.value)
            sentEnough == request.value > 0 /\ First(path) = ETH /\ ethSent >= request.spend
            deposited == request.value > 0 /\ ~sentEnough
            inContract == assetBalances[user][First(path)] > 0 /\ ~sentEnough
            withEther == Receive(Ledger, user, ETH, request.value)
            before == IF deposited THEN _updateBalance(withEther, user, ETH, ethSent).ledger
                      ELSE withEther
            fromExchange == inContract \/ sentEnough
            swap == doSwapThroughOrionPool(before, user, fromExchange,
                        request.spend, request.receive, path, request.exact, inContract)
            spent == DecimalToBaseUnit(ETH, swap.amountOut)
            refund == Refund(sentEnough, request.value, spent)
            debited == _updateBalance(swap.ledger, user, First(path), -swap.amountOut).ledger
            credited == _updateBalance(debited, user, Last(path), swap.amountIn).ledger
            sent == Send(swap.ledger, user, ETH, refund)
            L == IF inContract THEN credited ELSE sent
<1>1. /\ wallet[user][ETH] >= request.value
      /\ swap.ok
      /\ sentEnough => swap.ledger.held[ETH] >= refund
      /\ Commit(L)
      /\ reserves' = swap.reserves
      /\ UNCHANGED <<filledAmounts, stakingData, settingsVars, oracleVars>>
      /\ inContract => checkPosition(user)'
  BY DEF SwapThroughOrionPool, PositionChecked
<1>2. /\ ETH \in Assets /\ path \in Paths /\ request.value \in Nat /\ ethSent \in Nat
      /\ First(path) \in Assets /\ Last(path) \in Assets
  <2>1. ETH \in Assets /\ path \in Paths /\ request.value \in Nat
    BY PoolAssumption DEF PoolAssumption
  <2>. QED BY <2>1, PathEnds, ConversionNat
<1>3. IInv /\ now \in Nat /\ LedgerOK(Ledger) /\ Ledger \in LedgerType
  BY LedgerIsOK DEF PoolIInv, IInv, TypeOK, OracleTypeOK
<1>4. sentEnough \in BOOLEAN /\ inContract \in BOOLEAN /\ fromExchange \in BOOLEAN
      /\ deposited \in BOOLEAN
  OBVIOUS
<1>. HIDE DEF path, ethSent, sentEnough, inContract
<1>5. LedgerOK(withEther) /\ NoNewBorrower(Ledger, withEther, {})
  <2>1. CanReceive(Ledger, user, ETH, request.value)
    BY <1>1 DEF CanReceive, Ledger
  <2>2. OnlyTokens(Ledger, withEther)
    BY <1>2, <1>3, <2>1, ReceiveFields DEF OnlyTokens
  <2>. QED BY <1>3, <2>2, OnlyTokensOK
<1>. HIDE DEF withEther
<1>6. LedgerOK(before) /\ NoNewBorrower(Ledger, before, {}) /\ before \in LedgerType
  <2>1. CASE deposited
    <3>1. ethSent \in Int /\ ethSent >= 0
      BY <1>2
    <3>2. before = _updateBalance(withEther, user, ETH, ethSent).ledger
      BY <2>1
    <3>. HIDE DEF before
    <3>3. LedgerOK(before) /\ NoNewBorrower(withEther, before, {})
      BY <1>2, <1>3, <1>5, <3>1, <3>2, UpdateBalanceOK
    <3>. QED BY <1>5, <3>3 DEF NoNewBorrower, LedgerOK
  <2>2. CASE ~deposited
    BY <1>5, <2>2 DEF LedgerOK
  <2>. QED BY <2>1, <2>2
<1>. HIDE DEF before
<1>7. /\ OnlyTokens(before, swap.ledger)
      /\ swap.reserves \in ReservesType
      /\ swap.amountOut \in Nat /\ swap.amountIn \in Nat
  <2>. HIDE DEF fromExchange
  <2>. QED BY <1>1, <1>2, <1>4, <1>6, SwapOK
<1>. HIDE DEF swap
<1>8. /\ LedgerOK(swap.ledger) /\ NoNewBorrower(Ledger, swap.ledger, {})
      /\ swap.ledger \in LedgerType
  <2>1. LedgerOK(swap.ledger) /\ NoNewBorrower(before, swap.ledger, {})
    BY <1>6, <1>7, OnlyTokensOK
  <2>. QED BY <1>6, <2>1 DEF NoNewBorrower, LedgerOK
<1>9. reserves' \in ReservesType
  BY <1>1, <1>7
<1>10. filledAmounts' \in [OrderHashes -> Nat]
  BY <1>1, <1>3 DEF IInv, TypeOK, StorageTypeOK
<1>11. CASE inContract
  <2>1. -swap.amountOut \in Int /\ swap.amountIn \in Int
    BY <1>7
  <2>2. LedgerOK(debited) /\ NoNewBorrower(swap.ledger, debited, {user})
    BY <1>2, <1>3, <1>8, <2>1, UpdateBalanceOK
  <2>. HIDE DEF debited
  <2>3. LedgerOK(credited) /\ NoNewBorrower(debited, credited, {user})
    BY <1>2, <1>3, <2>1, <2>2, UpdateBalanceOK
  <2>4. L = credited
    BY <1>11
  <2>. HIDE DEF credited, L
  <2>5. LedgerOK(L) /\ NoNewBorrower(Ledger, L, {user})
    BY <1>8, <2>2, <2>3, <2>4 DEF NoNewBorrower
  <2>6. {user} \in SUBSET Users /\ \A u \in {user} : checkPosition(u)'
    BY <1>1, <1>11
  <2>7. IInv'
    BY <1>1, <1>3, <1>10, <2>5, <2>6, CheckedCommitOK
  <2>. QED BY <1>9, <2>7 DEF PoolIInv
<1>12. CASE ~inContract
  <2>1. spent \in Nat /\ refund \in Nat
    <3>1. spent \in Nat
      BY <1>2, <1>7, ConversionNat
    <3>. HIDE DEF spent
    <3>. QED BY <1>2, <3>1 DEF Refund
  <2>2. refund > 0 => swap.ledger.held[ETH] >= refund
    BY <1>1, <2>1 DEF Refund
  <2>. HIDE DEF spent, refund
  <2>3. LedgerOK(sent) /\ NoNewBorrower(swap.ledger, sent, {})
    <3>1. OnlyTokens(swap.ledger, sent)
      BY <1>2, <1>8, <2>1, <2>2, SendOrNothing
    <3>. QED BY <1>8, <3>1, OnlyTokensOK
  <2>4. L = sent
    BY <1>12
  <2>. HIDE DEF sent, L
  <2>5. LedgerOK(L) /\ NoNewBorrower(Ledger, L, {})
    BY <1>8, <2>3, <2>4 DEF NoNewBorrower
  <2>6. {} \in SUBSET Users /\ \A u \in {} : checkPosition(u)'
    OBVIOUS
  <2>7. IInv'
    BY <1>1, <1>3, <1>10, <2>5, <2>6, CheckedCommitOK
  <2>. QED BY <1>9, <2>7 DEF PoolIInv
<1>. QED BY <1>11, <1>12

(* The invariant is inductive, the pool included. *)
LEMMA PoolNextInv == PoolIInv /\ [PoolNext]_poolVars => PoolIInv'
<1>. SUFFICES ASSUME PoolIInv, [PoolNext]_poolVars PROVE PoolIInv'
  OBVIOUS
<1>1. CASE Next /\ UNCHANGED reserves
  BY <1>1, NextInv DEF PoolIInv
<1>2. CASE PoolStep
  <2>1. ASSUME NEW m \in Users, NEW order \in Orders, NEW x \in PoolFillAmounts,
               NEW fee \in BlockchainFees, NEW path \in Paths,
               FillThroughOrionPool(m, order, x, fee, path)
        PROVE  PoolIInv'
    <3>1. x \in Nat /\ fee \in Nat
      BY PoolAssumption DEF PoolAssumption
    <3>. QED BY <2>1, <3>1, FillThroughOrionPoolInv
  <2>2. ASSUME NEW u \in Users, NEW request \in PoolSwaps, SwapThroughOrionPool(u, request)
        PROVE  PoolIInv'
    BY <2>2, SwapThroughOrionPoolInv
  <2>3. CASE MarketStep
    <3>1. IInv'
      <4>1. IInv /\ UNCHANGED vars
        BY <2>3 DEF MarketStep, PoolIInv
      <4>. QED BY <4>1, NextInv
    <3>. QED BY <2>3, <3>1, PoolAssumption DEF MarketStep, PoolAssumption, PoolIInv
  <2>. QED BY <1>2, <2>1, <2>2, <2>3 DEF PoolStep
<1>3. CASE UNCHANGED poolVars
  <2>1. UNCHANGED vars /\ UNCHANGED reserves
    BY <1>3 DEF poolVars
  <2>. QED BY <2>1, NextInv DEF PoolIInv
<1>. QED BY <1>1, <1>2, <1>3 DEF PoolNext

THEOREM PoolInvariance == PoolSpec => []PoolIInv
<1>1. PoolInit => PoolIInv
  BY InitInv, PoolAssumption DEF PoolInit, PoolIInv, PoolAssumption
<1>. QED BY <1>1, PoolNextInv, PTL DEF PoolSpec

(* Type correctness with the pool as a counterparty. *)
THEOREM PoolTypeCorrect == PoolSpec => []PoolTypeOK
<1>1. PoolIInv => PoolTypeOK
  BY DEF PoolIInv, IInv, PoolTypeOK
<1>. QED BY <1>1, PoolInvariance, PTL

(* Whoever sells to the pool on credit is listed as a debtor, ... *)
THEOREM PoolDebtsAreListed == PoolSpec => []NegativeIsListed
<1>1. PoolIInv => NegativeIsListed
  BY ListsShowDebts DEF PoolIInv
<1>. QED BY <1>1, PoolInvariance, PTL

(* ... and has a stake that is not on its way out: also after a fee that a
   failed swap has charged. *)
THEOREM PoolStakeBehindDebts == PoolSpec => []BorrowersHaveStake
<1>1. PoolIInv => BorrowersHaveStake
  BY DEF PoolIInv, IInv
<1>. QED BY <1>1, PoolInvariance, PTL
===============================================================================
