------------------------------ MODULE RiskProofs ------------------------------
(***************************************************************************)
(* Nobody is put at risk unchecked: what a transaction sends to a wallet,  *)
(* and every debt it deepens, belongs to a user whose position it checks   *)
(* at its end.  Then the debts themselves: what is still outstanding of    *)
(* one, and when its clock restarts.  For every set of users, assets,      *)
(* orders, pairs and paths.                                                *)
(***************************************************************************)
EXTENDS PoolProofs

(* From L to M only the users of S may have got tokens, or be deeper in debt. *)
NoNewRisk(L, M, S) ==
    \A u \in Users \ S, a \in Assets :
        /\ M.wallet[u][a] <= L.wallet[u][a]
        /\ \/ M.assetBalances[u][a] >= L.assetBalances[u][a]
           \/ M.assetBalances[u][a] >= 0

(* The actions of NewRiskIsCovered and of PoolRiskIsCovered. *)
RiskCovered ==
    \A u \in Users, a \in Assets :
        \/ wallet'[u][a] > wallet[u][a]
        \/ assetBalances'[u][a] < 0 /\ assetBalances'[u][a] < assetBalances[u][a]
        => checkPosition(u)'

OutflowCovered ==
    \A u \in Users, a \in Assets :
        \/ wallet'[u][a] > wallet[u][a] /\ held'[a] < held[a]
        \/ assetBalances'[u][a] < 0 /\ assetBalances'[u][a] < assetBalances[u][a]
        => checkPosition(u)'

-------------------------------------------------------------------------------
(* The relation: it chains, and holds when one user is touched. *)

LEMMA RiskChains ==
    ASSUME NEW L \in LedgerType, NEW M \in LedgerType, NEW N \in LedgerType,
           NEW S, NEW T, NEW R, S \subseteq R, T \subseteq R,
           NoNewRisk(L, M, S), NoNewRisk(M, N, T)
    PROVE  NoNewRisk(L, N, R)
<1>. SUFFICES ASSUME NEW u \in Users \ R, NEW a \in Assets
              PROVE  /\ N.wallet[u][a] <= L.wallet[u][a]
                     /\ \/ N.assetBalances[u][a] >= L.assetBalances[u][a]
                        \/ N.assetBalances[u][a] >= 0
  BY DEF NoNewRisk
<1>1. \A K \in LedgerType : K.wallet[u][a] \in Int /\ K.assetBalances[u][a] \in Int
  BY DEF LedgerType
<1>2. u \in Users \ S /\ u \in Users \ T
  OBVIOUS
<1>3. /\ M.wallet[u][a] <= L.wallet[u][a]
      /\ \/ M.assetBalances[u][a] >= L.assetBalances[u][a]
         \/ M.assetBalances[u][a] >= 0
  BY <1>2 DEF NoNewRisk
<1>4. /\ N.wallet[u][a] <= M.wallet[u][a]
      /\ \/ N.assetBalances[u][a] >= M.assetBalances[u][a]
         \/ N.assetBalances[u][a] >= 0
  BY <1>2 DEF NoNewRisk
<1>. QED BY <1>1, <1>3, <1>4

LEMMA OneUserAtRisk ==
    ASSUME NEW L \in LedgerType, NEW M, NEW user,
           \A u \in Users \ {user}, a \in Assets :
              /\ M.assetBalances[u][a] = L.assetBalances[u][a]
              /\ M.wallet[u][a] = L.wallet[u][a]
    PROVE  NoNewRisk(L, M, {user})
<1>1. \A u \in Users, a \in Assets : L.wallet[u][a] \in Int /\ L.assetBalances[u][a] \in Int
  BY DEF LedgerType
<1>. QED BY <1>1 DEF NoNewRisk

(* A balance that rises, and wallets that do not, put nobody at risk. *)
LEMMA CreditNoRisk ==
    ASSUME NEW L \in LedgerType, NEW M, NEW user \in Users, NEW asset \in Assets,
           NEW amount \in Int, amount >= 0,
           M.wallet = L.wallet,
           M.assetBalances = [L.assetBalances EXCEPT ![user] =
              [L.assetBalances[user] EXCEPT ![asset] = L.assetBalances[user][asset] + amount]]
    PROVE  NoNewRisk(L, M, {})
<1>. SUFFICES ASSUME NEW u \in Users, NEW a \in Assets
              PROVE  /\ M.wallet[u][a] <= L.wallet[u][a]
                     /\ M.assetBalances[u][a] >= L.assetBalances[u][a]
  BY DEF NoNewRisk
<1>1. /\ L.wallet[u][a] \in Int /\ L.assetBalances \in [Users -> [Assets -> Int]]
  BY DEF LedgerType
<1>2. M.assetBalances[u][a] = L.assetBalances[u][a] + (IF u = user /\ a = asset THEN amount ELSE 0)
  BY <1>1
<1>. QED BY <1>1, <1>2

-------------------------------------------------------------------------------
(* Tokens that change hands. *)

LEMMA ReceiveRisk ==
    ASSUME NEW L \in LedgerType, NEW user \in Users, NEW asset \in Assets, NEW base \in Nat
    PROVE  LET M == Receive(L, user, asset, base)
           IN /\ NoNewRisk(L, M, {})
              /\ M.assetBalances = L.assetBalances
              /\ \A u \in Users, a \in Assets :
                    M.wallet[u][a] = L.wallet[u][a] - (IF u = user /\ a = asset THEN base ELSE 0)
              /\ \A a \in Assets : M.held[a] = L.held[a] + (IF a = asset THEN base ELSE 0)
<1>. DEFINE M == Receive(L, user, asset, base)
<1>1. /\ M.wallet = [L.wallet EXCEPT ![user] =
            [L.wallet[user] EXCEPT ![asset] = L.wallet[user][asset] - base]]
      /\ M.held = [L.held EXCEPT ![asset] = L.held[asset] + base]
      /\ M.assetBalances = L.assetBalances
  BY DEF Receive, LedgerType
<1>. HIDE DEF M
<1>2. /\ L.wallet \in [Users -> [Assets -> Nat]] /\ L.held \in [Assets -> Nat]
      /\ \A u \in Users, a \in Assets : L.wallet[u][a] \in Int /\ L.assetBalances[u][a] \in Int
  BY DEF LedgerType
<1>3. \A u \in Users, a \in Assets :
         M.wallet[u][a] = L.wallet[u][a] - (IF u = user /\ a = asset THEN base ELSE 0)
  BY <1>1, <1>2
<1>4. \A a \in Assets : M.held[a] = L.held[a] + (IF a = asset THEN base ELSE 0)
  BY <1>1, <1>2
<1>5. NoNewRisk(L, M, {})
  BY <1>1, <1>2, <1>3 DEF NoNewRisk
<1>. QED BY <1>1, <1>3, <1>4, <1>5 DEF M

(* In M the exchange has sent the base units of the asset to the user. *)
HasSent(L, M, user, asset, base) ==
    /\ M.assetBalances = L.assetBalances
    /\ \A a \in Assets :
          /\ M.wallet[user][a] = L.wallet[user][a] + (IF a = asset THEN base ELSE 0)
          /\ M.held[a] = L.held[a] - (IF a = asset THEN base ELSE 0)

LEMMA SendRisk ==
    ASSUME NEW L \in LedgerType, NEW user \in Users, NEW asset \in Assets, NEW base \in Nat
    PROVE  /\ NoNewRisk(L, Send(L, user, asset, base), {user})
           /\ HasSent(L, Send(L, user, asset, base), user, asset, base)
<1>. DEFINE M == Send(L, user, asset, base)
<1>1. /\ M.wallet = [L.wallet EXCEPT ![user] =
            [L.wallet[user] EXCEPT ![asset] = L.wallet[user][asset] + base]]
      /\ M.held = [L.held EXCEPT ![asset] = L.held[asset] - base]
      /\ M.assetBalances = L.assetBalances
  BY DEF Send, LedgerType
<1>. HIDE DEF M
<1>2. L.wallet \in [Users -> [Assets -> Nat]] /\ L.held \in [Assets -> Nat]
  BY DEF LedgerType
<1>3. \A u \in Users, a \in Assets :
         M.wallet[u][a] = L.wallet[u][a] + (IF u = user /\ a = asset THEN base ELSE 0)
  BY <1>1, <1>2
<1>4. \A a \in Assets : M.held[a] = L.held[a] - (IF a = asset THEN base ELSE 0)
  BY <1>1, <1>2
<1>5. NoNewRisk(L, M, {user})
  <2>1. \A u \in Users \ {user}, a \in Assets : M.wallet[u][a] = L.wallet[u][a]
    BY <1>2, <1>3
  <2>. QED BY <1>1, <2>1, OneUserAtRisk
<1>6. HasSent(L, M, user, asset, base)
  BY <1>1, <1>3, <1>4 DEF HasSent
<1>. QED BY <1>5, <1>6 DEF M

(* The wallet pays for a swap, or the exchange does. *)
LEMMA PayRisk ==
    ASSUME NEW L \in LedgerType, NEW user \in Users, NEW asset \in Assets, NEW base \in Nat,
           NEW fromExchange \in BOOLEAN
    PROVE  LET M == Pay(L, user, fromExchange, asset, base)
           IN /\ NoNewRisk(L, M, {})
              /\ M.assetBalances = L.assetBalances
              /\ \A u \in Users, a \in Assets : M.wallet[u][a] <= L.wallet[u][a]
              /\ \A a \in Assets : M.held[a] = L.held[a]
                    - (IF fromExchange /\ a = asset THEN base ELSE 0)
<1>. DEFINE M == Pay(L, user, fromExchange, asset, base)
<1>1. /\ M.wallet = IF fromExchange THEN L.wallet
                    ELSE [L.wallet EXCEPT ![user] =
                            [L.wallet[user] EXCEPT ![asset] = L.wallet[user][asset] - base]]
      /\ M.held = IF fromExchange
                  THEN [L.held EXCEPT ![asset] = L.held[asset] - base] ELSE L.held
      /\ M.assetBalances = L.assetBalances
  <2>1. CASE fromExchange
    BY <2>1 DEF Pay, LedgerType
  <2>2. CASE ~fromExchange
    BY <2>2 DEF Pay, LedgerType
  <2>. QED BY <2>1, <2>2
<1>. HIDE DEF M
<1>2. \A u \in Users, a \in Assets : L.wallet[u][a] \in Int /\ L.assetBalances[u][a] \in Int
  BY DEF LedgerType
<1>3. L.wallet \in [Users -> [Assets -> Nat]] /\ L.held \in [Assets -> Nat]
  BY DEF LedgerType
<1>4. \A u \in Users, a \in Assets :
         M.wallet[u][a] = L.wallet[u][a]
                          - (IF ~fromExchange /\ u = user /\ a = asset THEN base ELSE 0)
  BY <1>1, <1>2, <1>3
<1>5. NoNewRisk(L, M, {}) /\ \A u \in Users, a \in Assets : M.wallet[u][a] <= L.wallet[u][a]
  BY <1>1, <1>2, <1>4 DEF NoNewRisk
<1>6. \A a \in Assets : M.held[a] = L.held[a] - (IF fromExchange /\ a = asset THEN base ELSE 0)
  BY <1>1, <1>3
<1>. QED BY <1>1, <1>5, <1>6 DEF M

LEMMA CollectRisk ==
    ASSUME NEW L \in LedgerType, NEW user \in Users, NEW asset \in Assets, NEW base \in Nat,
           NEW toExchange \in BOOLEAN
    PROVE  LET M == Collect(L, user, toExchange, asset, base)
           IN /\ NoNewRisk(L, M, {user})
              /\ M.assetBalances = L.assetBalances
              /\ \A a \in Assets \ {asset} : M.wallet[user][a] = L.wallet[user][a]
              /\ ~toExchange => M.held = L.held
<1>. DEFINE M == Collect(L, user, toExchange, asset, base)
<1>1. /\ M.wallet = IF toExchange THEN L.wallet
                    ELSE [L.wallet EXCEPT ![user] =
                            [L.wallet[user] EXCEPT ![asset] = L.wallet[user][asset] + base]]
      /\ ~toExchange => M.held = L.held
      /\ M.assetBalances = L.assetBalances
  <2>1. CASE toExchange
    BY <2>1 DEF Collect, LedgerType
  <2>2. CASE ~toExchange
    BY <2>2 DEF Collect, LedgerType
  <2>. QED BY <2>1, <2>2
<1>. HIDE DEF M
<1>2. /\ \A u \in Users \ {user}, a \in Assets : M.wallet[u][a] = L.wallet[u][a]
      /\ \A a \in Assets \ {asset} : M.wallet[user][a] = L.wallet[user][a]
  BY <1>1 DEF LedgerType
<1>3. NoNewRisk(L, M, {user})
  BY <1>1, <1>2, OneUserAtRisk
<1>. QED BY <1>1, <1>2, <1>3 DEF M

-------------------------------------------------------------------------------
(* Balances. *)

(* Whoever is debited may be put at risk, and a credit takes nothing out. *)
LEMMA UpdateBalanceRisk ==
    ASSUME NEW L \in LedgerType, NEW user \in Users, NEW asset \in Assets, NEW amount \in Int
    PROVE  LET M == _updateBalance(L, user, asset, amount).ledger
           IN /\ NoNewRisk(L, M, {user})
              /\ amount >= 0 => /\ NoNewRisk(L, M, {})
                                /\ M.wallet = L.wallet /\ M.held = L.held
                                /\ \A a \in Assets :
                                      M.assetBalances[user][a] >= L.assetBalances[user][a]
<1>. DEFINE before == L.assetBalances[user][asset]
            after == before + amount
            short == before >= 0 /\ after < 0
            updated == AddBalance(L, user, asset, amount)
            checked == Require(L, asset = ETH \/ FitsInt112(DecimalToBaseUnit(asset, -after)))
            result == _updateBalance(L, user, asset, amount)
            M == result.ledger
<1>1. before \in Int /\ after \in Int
  BY DEF LedgerType
<1>2. /\ checked \in LedgerType
      /\ checked.assetBalances = L.assetBalances
      /\ checked.wallet = L.wallet /\ checked.allowance = L.allowance
  <2>1. (asset = ETH \/ FitsInt112(DecimalToBaseUnit(asset, -after))) \in BOOLEAN
    BY DEF FitsInt112
  <2>. QED BY <2>1, RequireFields
<1>3. /\ updated \in LedgerType
      /\ updated.wallet = L.wallet /\ updated.held = L.held
      /\ updated.assetBalances = [L.assetBalances EXCEPT ![user] =
                                    [L.assetBalances[user] EXCEPT ![asset] = after]]
  BY AddBalanceFields
<1>4. ASSUME amount >= 0, NEW N, N.wallet = L.wallet, N.held = L.held,
             N.assetBalances = updated.assetBalances
      PROVE  /\ NoNewRisk(L, N, {}) /\ NoNewRisk(L, N, {user})
             /\ \A a \in Assets : N.assetBalances[user][a] >= L.assetBalances[user][a]
  <2>1. NoNewRisk(L, N, {})
    BY <1>3, <1>4, CreditNoRisk
  <2>2. NoNewRisk(L, N, {user})
    BY <2>1 DEF NoNewRisk
  <2>3. L.assetBalances \in [Users -> [Assets -> Int]]
    BY DEF LedgerType
  <2>4. \A a \in Assets : N.assetBalances[user][a]
                          = IF a = asset THEN after ELSE L.assetBalances[user][a]
    BY <1>3, <1>4, <2>3
  <2>5. \A a \in Assets : N.assetBalances[user][a] >= L.assetBalances[user][a]
    BY <1>1, <1>4, <2>3, <2>4
  <2>. QED BY <2>1, <2>2, <2>5
<1>5. ASSUME NEW N, N.wallet = L.wallet, N.assetBalances = updated.assetBalances
      PROVE  NoNewRisk(L, N, {user})
  <2>1. \A u \in Users \ {user}, a \in Assets :
           /\ N.assetBalances[u][a] = L.assetBalances[u][a]
           /\ N.wallet[u][a] = L.wallet[u][a]
    BY <1>3, <1>5 DEF LedgerType
  <2>. QED BY <2>1, OneUserAtRisk
<1>6. CASE amount > 0 /\ before < 0
  <2>1. result = [ledger |-> coverLiability(updated, user, asset, amount, after),
                  fromWallet |-> FALSE]
    BY <1>1, <1>6, UpdateBalanceCases
  <2>2. M = coverLiability(updated, user, asset, amount, after) /\ amount >= 0
    BY <1>6, <2>1
  <2>. HIDE DEF M, updated
  <2>3. /\ M.assetBalances = updated.assetBalances
        /\ M.wallet = L.wallet /\ M.held = L.held
    BY <1>3, <2>2, ListsKeepTokens
  <2>4. NoNewRisk(L, M, {}) /\ NoNewRisk(L, M, {user})
        /\ \A a \in Assets : M.assetBalances[user][a] >= L.assetBalances[user][a]
    BY <1>4, <2>2, <2>3
  <2>. QED BY <2>3, <2>4 DEF M
<1>7. CASE short /\ CanPull(L, user, asset, -after)
  <2>. DEFINE base == DecimalToBaseUnit(asset, -after)
              pulled == Receive(checked, user, asset, base)
  <2>1. result = [ledger |-> AddBalance(pulled, user, asset, -before),
                  fromWallet |-> before = 0]
    BY <1>1, <1>7, UpdateBalanceCases DEF _tryDeposit
  <2>2. M = AddBalance(pulled, user, asset, -before)
    BY <2>1
  <2>3. base \in Nat /\ -before \in Int /\ ~(amount >= 0)
    BY <1>1, <1>7, ConversionNat
  <2>4. CanReceive(checked, user, asset, base)
    BY <1>2, <1>7 DEF CanPull, CanReceive
  <2>. HIDE DEF base, checked
  <2>5. pulled \in LedgerType /\ pulled.assetBalances = L.assetBalances
    BY <1>2, <2>3, <2>4, ReceiveFields
  <2>6. \A u \in Users \ {user}, a \in Assets : pulled.wallet[u][a] = L.wallet[u][a]
    <3>1. \A u \in Users, a \in Assets :
             pulled.wallet[u][a] = checked.wallet[u][a]
                                   - (IF u = user /\ a = asset THEN base ELSE 0)
      BY <1>2, <2>3, ReceiveRisk
    <3>2. checked.wallet = L.wallet
          /\ \A u \in Users, a \in Assets : L.wallet[u][a] \in Int
      BY <1>2 DEF LedgerType
    <3>. HIDE DEF pulled
    <3>. QED BY <3>1, <3>2
  <2>. HIDE DEF pulled, M
  <2>7. /\ M.wallet = pulled.wallet
        /\ M.assetBalances = [pulled.assetBalances EXCEPT ![user] =
              [pulled.assetBalances[user] EXCEPT
                  ![asset] = pulled.assetBalances[user][asset] + (-before)]]
    BY <2>2, <2>3, <2>5, AddBalanceFields
  <2>8. \A u \in Users \ {user}, a \in Assets :
           /\ M.assetBalances[u][a] = L.assetBalances[u][a]
           /\ M.wallet[u][a] = L.wallet[u][a]
    BY <2>5, <2>6, <2>7 DEF LedgerType
  <2>. QED BY <2>3, <2>8, OneUserAtRisk DEF M
<1>8. CASE short /\ ~CanPull(L, user, asset, -after)
  <2>. DEFINE added == AddBalance(checked, user, asset, amount)
  <2>1. result = [ledger |-> setLiability(added, user, asset, after), fromWallet |-> FALSE]
    BY <1>1, <1>8, UpdateBalanceCases
  <2>2. M = setLiability(added, user, asset, after) /\ ~(amount >= 0)
    BY <1>1, <1>8, <2>1
  <2>3. /\ added \in LedgerType
        /\ added.wallet = L.wallet
        /\ added.assetBalances = updated.assetBalances
    <3>. HIDE DEF checked, updated
    <3>. QED BY <1>2, <1>3, AddBalanceFields
  <2>. HIDE DEF M, added, updated
  <2>4. M.wallet = L.wallet /\ M.assetBalances = updated.assetBalances
    BY <2>2, <2>3, ListsKeepTokens
  <2>. QED BY <1>5, <2>2, <2>4 DEF M
<1>9. CASE ~short /\ ~(amount > 0 /\ before < 0)
  <2>1. result = [ledger |-> updated, fromWallet |-> FALSE]
    BY <1>1, <1>9, UpdateBalanceCases
  <2>2. M = updated
    BY <2>1
  <2>. HIDE DEF M, updated
  <2>3. /\ M.wallet = L.wallet /\ M.held = L.held
        /\ M.assetBalances = updated.assetBalances
    BY <1>3, <2>2
  <2>4. NoNewRisk(L, M, {user})
    BY <1>5, <2>3
  <2>5. amount >= 0 => /\ NoNewRisk(L, M, {})
                       /\ \A a \in Assets : M.assetBalances[user][a] >= L.assetBalances[user][a]
    BY <1>4, <2>3
  <2>. QED BY <2>3, <2>4, <2>5 DEF M
<1>. QED BY <1>6, <1>7, <1>8, <1>9

-------------------------------------------------------------------------------
(* The operations that make up a deposit and a fill. *)

LEMMA DepositRisk ==
    ASSUME NEW L \in LedgerType, NEW user \in Users, NEW asset \in Assets, NEW amount \in Nat
    PROVE  NoNewRisk(L, generalDeposit(L, user, asset, amount), {})
<1>. DEFINE decimal == BaseUnitToDecimal(asset, amount)
            plain == AddBalance(L, user, asset, decimal)
            added == Require(plain, FitsInt112(decimal))
            M == generalDeposit(L, user, asset, amount)
<1>1. decimal \in Int /\ decimal >= 0 /\ FitsInt112(decimal) \in BOOLEAN
  BY ConversionNat DEF FitsInt112
<1>. HIDE DEF decimal
<1>2. /\ plain \in LedgerType /\ plain.wallet = L.wallet
      /\ plain.assetBalances = [L.assetBalances EXCEPT ![user] =
            [L.assetBalances[user] EXCEPT ![asset] = L.assetBalances[user][asset] + decimal]]
  BY <1>1, AddBalanceFields
<1>. HIDE DEF plain
<1>3. /\ added \in LedgerType /\ added.wallet = plain.wallet
      /\ added.assetBalances = plain.assetBalances
  BY <1>1, <1>2, RequireFields
<1>. HIDE DEF added
<1>4. M = IF L.assetBalances[user][asset] < 0
          THEN coverLiability(added, user, asset, decimal, added.assetBalances[user][asset])
          ELSE added
  BY Zenon DEF generalDeposit, added, plain, decimal
<1>. HIDE DEF M
<1>5. M.wallet = added.wallet /\ M.assetBalances = added.assetBalances
  <2>1. CASE L.assetBalances[user][asset] < 0
    BY <1>3, <1>4, <2>1, ListsKeepTokens
  <2>2. CASE ~(L.assetBalances[user][asset] < 0)
    BY <1>4, <2>2
  <2>. QED BY <2>1, <2>2
<1>6. NoNewRisk(L, M, {})
  BY <1>1, <1>2, <1>3, <1>5, CreditNoRisk
<1>. QED BY <1>6 DEF M

(* The maker of an order is debited, its matcher is paid. *)
LEMMA DebitRisk ==
    ASSUME NEW L, LedgerOK(L), NEW order \in OrderType, NEW isSeller \in BOOLEAN,
           NEW amountBase \in Nat, NEW amountQuote \in Nat, NEW fee \in Nat, now \in Nat
    PROVE  NoNewRisk(L, updateOrderBalanceDebit(L, order, isSeller, amountBase,
                                                amountQuote, fee).ledger,
                     {order.senderAddress})
<1>. DEFINE user == order.senderAddress
            assetOut == IF isSeller THEN order.baseAsset ELSE order.quoteAsset
            assetIn == IF isSeller THEN order.quoteAsset ELSE order.baseAsset
            amountOut == IF isSeller THEN amountBase ELSE amountQuote
            amountIn == IF isSeller THEN amountQuote ELSE amountBase
            feeOut == order.matcherFeeAsset = assetOut
            feeIn == ~feeOut /\ order.matcherFeeAsset = assetIn
            paid == IF feeOut \/ feeIn THEN [ledger |-> L, fromWallet |-> TRUE]
                    ELSE _updateBalance(L, user, order.matcherFeeAsset, -fee)
            debit == -amountOut - (IF feeOut THEN fee ELSE 0)
            debited == _updateBalance(paid.ledger, user, assetOut, debit)
            matched == _updateBalance(debited.ledger, order.matcherAddress,
                                      order.matcherFeeAsset, fee)
            D == updateOrderBalanceDebit(L, order, isSeller, amountBase, amountQuote, fee)
<1>1. /\ user \in Users /\ order.matcherAddress \in Users
      /\ order.matcherFeeAsset \in Assets /\ assetOut \in Assets
      /\ debit \in Int /\ -fee \in Int /\ fee \in Int /\ fee >= 0
  BY DEF OrderType
<1>2. D = IF amountBase = 0 THEN [ledger |-> L, fromWallet |-> FALSE, actualIn |-> 0]
          ELSE [ledger |-> matched.ledger,
                fromWallet |-> paid.fromWallet /\ debited.fromWallet,
                actualIn |-> amountIn - (IF feeIn THEN fee ELSE 0)]
  BY DEF updateOrderBalanceDebit
<1>3. L \in LedgerType /\ NoNewRisk(L, L, {user})
  <2>1. L \in LedgerType
    BY DEF LedgerOK
  <2>. QED BY <2>1, OneUserAtRisk
<1>. HIDE DEF user, assetOut, amountOut, amountIn, debit, D
<1>4. LedgerOK(paid.ledger) /\ NoNewRisk(L, paid.ledger, {user})
  <2>1. CASE feeOut \/ feeIn
    BY <1>3, <2>1
  <2>2. CASE ~ (feeOut \/ feeIn)
    <3>1. paid = _updateBalance(L, user, order.matcherFeeAsset, -fee)
      BY <2>2
    <3>. HIDE DEF paid
    <3>2. LedgerOK(paid.ledger)
      BY <1>1, <3>1, UpdateBalanceOK
    <3>3. NoNewRisk(L, paid.ledger, {user})
      BY <1>1, <1>3, <3>1, UpdateBalanceRisk
    <3>. QED BY <3>2, <3>3
  <2>. QED BY <2>1, <2>2
<1>. HIDE DEF paid
<1>5. LedgerOK(debited.ledger) /\ NoNewRisk(paid.ledger, debited.ledger, {user})
  <2>1. paid.ledger \in LedgerType
    BY <1>4 DEF LedgerOK
  <2>2. LedgerOK(debited.ledger)
    BY <1>1, <1>4, UpdateBalanceOK
  <2>. QED BY <1>1, <2>1, <2>2, UpdateBalanceRisk
<1>. HIDE DEF debited
<1>6. LedgerOK(matched.ledger) /\ NoNewRisk(debited.ledger, matched.ledger, {})
  <2>1. debited.ledger \in LedgerType
    BY <1>5 DEF LedgerOK
  <2>2. LedgerOK(matched.ledger)
    BY <1>1, <1>5, UpdateBalanceOK
  <2>. QED BY <1>1, <2>1, <2>2, UpdateBalanceRisk
<1>. HIDE DEF matched
<1>7. NoNewRisk(L, matched.ledger, {user})
  <2>1. /\ paid.ledger \in LedgerType /\ debited.ledger \in LedgerType
        /\ matched.ledger \in LedgerType
    BY <1>4, <1>5, <1>6 DEF LedgerOK
  <2>2. NoNewRisk(L, debited.ledger, {user})
    BY <1>3, <1>4, <1>5, <2>1, RiskChains
  <2>. QED BY <1>3, <1>6, <2>1, <2>2, RiskChains
<1>8. NoNewRisk(L, D.ledger, {user})
  <2>1. CASE amountBase = 0
    BY <1>2, <1>3, <2>1
  <2>2. CASE amountBase # 0
    BY <1>2, <1>7, <2>2
  <2>. QED BY <2>1, <2>2
<1>. QED BY <1>8 DEF D, user

LEMMA CreditRisk ==
    ASSUME NEW L, LedgerOK(L), NEW fromWallet, NEW user \in Users,
           NEW amount \in Int, NEW asset \in Assets, now \in Nat
    PROVE  NoNewRisk(L, creditUserAssets(L, fromWallet, user, amount, asset), {user})
<1>. DEFINE before == L.assetBalances[user][asset]
            remaining == amount + before
            base == DecimalToBaseUnit(asset, remaining)
            toWallet == fromWallet /\ remaining > 0 /\ before <= 0
            checked == Require(L, toWallet => FitsInt112(base))
            sent == toWallet /\ L.held[asset] >= base
            toUpdate == IF sent THEN -before ELSE amount
            paid == IF sent THEN Send(checked, user, asset, base) ELSE checked
            M == creditUserAssets(L, fromWallet, user, amount, asset)
<1>1. L \in LedgerType /\ before \in Int /\ toUpdate \in Int
  BY DEF LedgerOK, LedgerType
<1>2. /\ checked \in LedgerType
      /\ checked.assetBalances = L.assetBalances
      /\ checked.wallet = L.wallet
      /\ checked.held = L.held
  <2>1. (toWallet => FitsInt112(base)) \in BOOLEAN
    OBVIOUS
  <2>. QED BY <1>1, <2>1, RequireFields
<1>3. NoNewRisk(L, checked, {user})
  <2>. HIDE DEF checked
  <2>. QED BY <1>1, <1>2, OneUserAtRisk
<1>4. paid \in LedgerType /\ NoNewRisk(L, paid, {user})
  <2>1. CASE sent
    <3>1. base \in Nat
      BY <1>1, <2>1, ConversionNat
    <3>2. paid = Send(checked, user, asset, base) /\ checked.held[asset] >= base
      BY <1>2, <2>1
    <3>. HIDE DEF checked, paid, base
    <3>3. paid \in LedgerType /\ NoNewRisk(checked, paid, {user})
      BY <1>2, <3>1, <3>2, SendFields, SendRisk
    <3>. QED BY <1>1, <1>2, <1>3, <3>3, RiskChains
  <2>2. CASE ~sent
    BY <1>2, <1>3, <2>2
  <2>. QED BY <2>1, <2>2
<1>5. M = IF toUpdate = 0 THEN paid ELSE _updateBalance(paid, user, asset, toUpdate).ledger
  BY DEF creditUserAssets
<1>6. M \in LedgerType
  BY CreditOK DEF LedgerOK
<1>. HIDE DEF paid, toUpdate, M
<1>7. NoNewRisk(L, M, {user})
  <2>1. CASE toUpdate = 0
    BY <1>4, <1>5, <2>1
  <2>2. CASE toUpdate # 0
    <3>1. M = _updateBalance(paid, user, asset, toUpdate).ledger
      BY <1>5, <2>2
    <3>2. NoNewRisk(paid, M, {user})
      BY <1>1, <1>4, <3>1, UpdateBalanceRisk
    <3>. QED BY <1>1, <1>4, <1>6, <3>2, RiskChains
  <2>. QED BY <2>1, <2>2
<1>. QED BY <1>7 DEF M

LEMMA SettleRisk ==
    ASSUME LedgerOK(Ledger), now \in Nat,
           NEW buy \in OrderType, NEW sell \in OrderType, buy.amount > 0, sell.amount > 0,
           NEW filledAmount \in Nat, NEW amountQuote \in Nat
    PROVE  NoNewRisk(Ledger, Settle(buy, sell, filledAmount, amountQuote),
                     {buy.senderAddress, sell.senderAddress})
<1>. DEFINE buyer == buy.senderAddress
            seller == sell.senderAddress
            buyFee == MatcherFee(buy, filledAmount)
            sellFee == MatcherFee(sell, filledAmount)
            bought == updateOrderBalanceDebit(Ledger, buy, FALSE, filledAmount,
                                              amountQuote, buyFee)
            sold == updateOrderBalanceDebit(bought.ledger, sell, TRUE, filledAmount,
                                            amountQuote, sellFee)
            buyerCredited == creditUserAssets(sold.ledger, bought.fromWallet, buyer,
                                              bought.actualIn, buy.baseAsset)
            M == creditUserAssets(buyerCredited, sold.fromWallet, seller,
                                  sold.actualIn, sell.quoteAsset)
            traders == {buyer, seller}
<1>1. /\ buyer \in Users /\ seller \in Users
      /\ buy.baseAsset \in Assets /\ sell.quoteAsset \in Assets
  BY DEF OrderType
<1>2. buyFee \in Nat /\ sellFee \in Nat
  BY MatcherFeeNat
<1>. HIDE DEF buyer, seller, buyFee, sellFee
<1>3. /\ LedgerOK(bought.ledger) /\ bought.actualIn \in Int
      /\ NoNewRisk(Ledger, bought.ledger, {buyer})
  BY <1>2, DebitOK, DebitRisk DEF buyer
<1>. HIDE DEF bought
<1>4. /\ LedgerOK(sold.ledger) /\ sold.actualIn \in Int
      /\ NoNewRisk(bought.ledger, sold.ledger, {seller})
  BY <1>2, <1>3, DebitOK, DebitRisk DEF seller
<1>. HIDE DEF sold
<1>5. LedgerOK(buyerCredited) /\ NoNewRisk(sold.ledger, buyerCredited, {buyer})
  BY <1>1, <1>3, <1>4, CreditOK, CreditRisk
<1>. HIDE DEF buyerCredited
<1>6. LedgerOK(M) /\ NoNewRisk(buyerCredited, M, {seller})
  BY <1>1, <1>4, <1>5, CreditOK, CreditRisk
<1>7. M = Settle(buy, sell, filledAmount, amountQuote)
  BY Zenon DEF Settle, bought, sold, buyerCredited, buyer, seller, buyFee, sellFee
<1>. HIDE DEF M
<1>8. NoNewRisk(Ledger, M, traders)
  <2>1. /\ Ledger \in LedgerType /\ bought.ledger \in LedgerType
        /\ sold.ledger \in LedgerType /\ buyerCredited \in LedgerType /\ M \in LedgerType
    BY <1>3, <1>4, <1>5, <1>6 DEF LedgerOK
  <2>2. {buyer} \subseteq traders /\ {seller} \subseteq traders
    OBVIOUS
  <2>. HIDE DEF traders
  <2>3. NoNewRisk(Ledger, sold.ledger, traders)
    BY <1>3, <1>4, <2>1, <2>2, RiskChains
  <2>4. NoNewRisk(Ledger, buyerCredited, traders)
    BY <1>5, <2>1, <2>2, <2>3, RiskChains
  <2>. QED BY <1>6, <2>1, <2>2, <2>4, RiskChains
<1>. QED BY <1>7, <1>8 DEF buyer, seller

-------------------------------------------------------------------------------
(* Transactions. *)

LEMMA CommitRisk ==
    ASSUME NEW L, Commit(L), NEW S, NoNewRisk(Ledger, L, S), \A u \in S : checkPosition(u)',
           IInv, L \in LedgerType
    PROVE  RiskCovered
<1>1. \A u \in Users, a \in Assets : /\ wallet[u][a] \in Int /\ assetBalances[u][a] \in Int
                                     /\ wallet'[u][a] \in Int /\ assetBalances'[u][a] \in Int
  BY DEF IInv, TypeOK, StorageTypeOK, Commit, LedgerType
<1>2. \A u \in Users \ S, a \in Assets :
         /\ wallet'[u][a] <= wallet[u][a]
         /\ assetBalances'[u][a] >= assetBalances[u][a] \/ assetBalances'[u][a] >= 0
  BY DEF NoNewRisk, Ledger, Commit
<1>3. \A u \in Users \ S, a \in Assets :
         /\ ~(wallet'[u][a] > wallet[u][a])
         /\ ~(assetBalances'[u][a] < 0 /\ assetBalances'[u][a] < assetBalances[u][a])
  BY <1>1, <1>2
<1>. QED BY <1>3, Zenon DEF RiskCovered

(* What touches no balance and no wallet puts nobody at risk. *)
LEMMA UntouchedRisk ==
    ASSUME IInv, UNCHANGED <<assetBalances, wallet>>
    PROVE  RiskCovered
<1>1. \A u \in Users, a \in Assets : wallet[u][a] \in Int /\ assetBalances[u][a] \in Int
  BY DEF IInv, TypeOK, StorageTypeOK
<1>2. \A u \in Users, a \in Assets :
         /\ ~(wallet'[u][a] > wallet[u][a])
         /\ ~(assetBalances'[u][a] < 0 /\ assetBalances'[u][a] < assetBalances[u][a])
  BY <1>1
<1>. QED BY <1>2, Zenon DEF RiskCovered

(* Balances that only rise, or stay above zero, are no debts that deepen. *)
LEMMA BalancesRisk ==
    ASSUME IInv, UNCHANGED wallet, assetBalances' \in [Users -> [Assets -> Int]],
           \A u \in Users, a \in Assets :
              assetBalances'[u][a] >= assetBalances[u][a] \/ assetBalances'[u][a] >= 0
    PROVE  RiskCovered
<1>1. \A u \in Users, a \in Assets : /\ wallet[u][a] \in Int /\ assetBalances[u][a] \in Int
                                     /\ assetBalances'[u][a] \in Int
  BY DEF IInv, TypeOK, StorageTypeOK
<1>2. \A u \in Users, a \in Assets :
         /\ ~(wallet'[u][a] > wallet[u][a])
         /\ ~(assetBalances'[u][a] < 0 /\ assetBalances'[u][a] < assetBalances[u][a])
  BY <1>1
<1>. QED BY <1>2, Zenon DEF RiskCovered

LEMMA UserRisk ==
    ASSUME IInv, NEW user \in Users, NEW asset \in Assets, NEW amount \in Nat,
           Deposit(user, asset, amount) \/ Withdraw(user, asset, amount)
    PROVE  RiskCovered
<1>1. Ledger \in LedgerType /\ LedgerOK(Ledger) /\ now \in Nat
  BY LedgerIsOK DEF IInv, TypeOK, OracleTypeOK
<1>2. CASE Deposit(user, asset, amount)
  <2>. DEFINE received == Receive(Ledger, user, asset, amount)
              L == generalDeposit(received, user, asset, amount)
  <2>1. CanReceive(Ledger, user, asset, amount) /\ Commit(L)
    BY <1>2 DEF Deposit
  <2>2. received \in LedgerType /\ NoNewRisk(Ledger, received, {})
        /\ received.assetBalances = Ledger.assetBalances
        /\ received.liabilities = Ledger.liabilities
    BY <1>1, <2>1, ReceiveFields, ReceiveRisk
  <2>. HIDE DEF received
  <2>3. L \in LedgerType /\ NoNewRisk(received, L, {})
    <3>1. LedgerOK(received)
      BY <1>1, <2>2 DEF LedgerOK
    <3>. QED BY <1>1, <2>2, <3>1, GeneralDepositOK, DepositRisk DEF LedgerOK
  <2>. HIDE DEF L
  <2>4. NoNewRisk(Ledger, L, {})
    BY <1>1, <2>2, <2>3, RiskChains
  <2>. QED BY <2>1, <2>3, <2>4, CommitRisk
<1>3. CASE Withdraw(user, asset, amount)
  <2>. DEFINE decimal == BaseUnitToDecimal(asset, amount)
              taken == AddBalance(Ledger, user, asset, -decimal)
              L == Send(taken, user, asset, amount)
  <2>1. held[asset] >= amount /\ Commit(L) /\ checkPosition(user)'
    BY <1>3 DEF Withdraw
  <2>2. -decimal \in Int
    BY ConversionNat
  <2>. HIDE DEF decimal
  <2>3. /\ taken \in LedgerType
        /\ taken.wallet = Ledger.wallet /\ taken.held = Ledger.held
        /\ taken.assetBalances = [Ledger.assetBalances EXCEPT ![user] =
              [Ledger.assetBalances[user] EXCEPT
                  ![asset] = Ledger.assetBalances[user][asset] + (-decimal)]]
    BY <1>1, <2>2, AddBalanceFields
  <2>. HIDE DEF taken
  <2>4. NoNewRisk(Ledger, taken, {user})
    <3>1. \A u \in Users \ {user}, a \in Assets :
             /\ taken.assetBalances[u][a] = Ledger.assetBalances[u][a]
             /\ taken.wallet[u][a] = Ledger.wallet[u][a]
      BY <1>1, <2>3 DEF LedgerType
    <3>. QED BY <1>1, <3>1, OneUserAtRisk
  <2>5. L \in LedgerType /\ NoNewRisk(taken, L, {user})
    <3>1. taken.held[asset] >= amount
      BY <2>1, <2>3 DEF Ledger
    <3>. QED BY <2>3, <3>1, SendFields, SendRisk
  <2>. HIDE DEF L
  <2>6. NoNewRisk(Ledger, L, {user})
    BY <1>1, <2>3, <2>4, <2>5, RiskChains
  <2>. QED BY <2>1, <2>5, <2>6, CommitRisk
<1>. QED BY <1>2, <1>3

LEMMA FillRisk ==
    ASSUME IInv, NEW sender \in Users, NEW buy \in Orders, NEW sell \in Orders,
           NEW filledPrice \in Nat, NEW filledAmount \in Nat,
           FillOrders(sender, buy, sell, filledPrice, filledAmount)
    PROVE  RiskCovered
<1>. DEFINE amountQuote == (filledAmount * filledPrice) \div Unit
            L == Settle(buy, sell, filledAmount, amountQuote)
            traders == {buy.senderAddress, sell.senderAddress}
<1>1. buy \in OrderType /\ sell \in OrderType
  BY StorageAssumption DEF StorageAssumption
<1>2. amountQuote \in Nat
  BY UnitAssumption, ProductNat, DivNat DEF UnitAssumption
<1>3. /\ buy.amount > 0 /\ sell.amount > 0
      /\ Commit(L)
      /\ \A u \in traders : checkPosition(u)'
  BY DEF FillOrders
<1>. HIDE DEF amountQuote
<1>4. LedgerOK(L) /\ NoNewRisk(Ledger, L, traders)
  <2>1. now \in Nat /\ LedgerOK(Ledger)
    BY LedgerIsOK DEF IInv, TypeOK, OracleTypeOK
  <2>2. LedgerOK(L)
    BY <1>1, <1>2, <1>3, <2>1, SettleOK
  <2>3. NoNewRisk(Ledger, L, traders)
    BY <1>1, <1>2, <1>3, <2>1, SettleRisk
  <2>. QED BY <2>2, <2>3
<1>. HIDE DEF L, traders
<1>. QED BY <1>3, <1>4, CommitRisk DEF LedgerOK

(* What is locked was more than covered; what is collected is added. *)
LEMMA StakeRisk ==
    ASSUME IInv, NEW user \in Users, NEW amount \in Nat,
           LockStake(user, amount) \/ RequestReleaseStake(user)
    PROVE  RiskCovered
<1>1. /\ assetBalances \in [Users -> [Assets -> Int]] /\ stakingData[user].amount \in Nat
      /\ ORN \in Assets
  BY StorageAssumption
     DEF StorageAssumption, IInv, TypeOK, StorageTypeOK, VaultTypeOK, Stake
<1>2. CASE StartRelease(user)
  <2>1. UNCHANGED <<assetBalances, wallet>>
    BY <1>2 DEF StartRelease, vaultUnchanged
  <2>. QED BY <2>1, UntouchedRisk
<1>3. ASSUME NEW x \in Int, UNCHANGED wallet,
             x >= assetBalances[user][ORN] \/ x >= 0,
             assetBalances' = [assetBalances EXCEPT ![user] =
                                 [assetBalances[user] EXCEPT ![ORN] = x]]
      PROVE  RiskCovered
  <2>1. assetBalances' \in [Users -> [Assets -> Int]]
    BY <1>1, <1>3
  <2>2. \A u \in Users, a \in Assets :
           assetBalances'[u][a] >= assetBalances[u][a] \/ assetBalances'[u][a] >= 0
    BY <1>1, <1>3
  <2>. QED BY <1>3, <2>1, <2>2, BalancesRisk
<1>4. CASE CollectStake(user)
  <2>. DEFINE x == assetBalances[user][ORN] + stakingData[user].amount
  <2>1. /\ assetBalances' = [assetBalances EXCEPT ![user] =
                               [assetBalances[user] EXCEPT ![ORN] = x]]
        /\ UNCHANGED wallet
    BY <1>1, <1>4 DEF CollectStake, vaultUnchanged
  <2>2. x \in Int /\ x >= assetBalances[user][ORN]
    BY <1>1
  <2>. HIDE DEF x
  <2>. QED BY <1>3, <2>1, <2>2
<1>5. CASE LockStake(user, amount)
  <2>. DEFINE x == assetBalances[user][ORN] - amount
  <2>1. /\ assetBalances' = [assetBalances EXCEPT ![user] =
                               [assetBalances[user] EXCEPT ![ORN] = x]]
        /\ UNCHANGED wallet
        /\ assetBalances[user][ORN] > amount
    BY <1>1, <1>5 DEF LockStake, vaultUnchanged
  <2>2. x \in Int /\ x >= 0
    BY <1>1, <2>1
  <2>. HIDE DEF x
  <2>. QED BY <1>3, <2>1, <2>2
<1>. QED BY <1>2, <1>4, <1>5 DEF RequestReleaseStake

(* A liquidator pays with a balance; a broker is charged no more than the ORN
   of its balance, and for the rest with its stake. *)
LEMMA LiquidationRisk ==
    ASSUME IInv, NEW liquidator \in Users, NEW broker \in Users, NEW asset \in Assets,
           NEW amount \in Nat,
           PartiallyLiquidate(liquidator, broker, asset, amount)
    PROVE  RiskCovered
<1>. DEFINE reward == LiquidationReward(asset, amount)
            redeemed == BalancesAfterRedemption(broker, liquidator, asset, amount)
            fromBalance == RewardFromBalance(redeemed[broker][ORN], reward)
            charged == [redeemed EXCEPT ![broker][ORN] = @ - fromBalance]
            lbal == [assetBalances[liquidator] EXCEPT
                        ![asset] = assetBalances[liquidator][asset] - amount]
            bbal == [assetBalances[broker] EXCEPT
                        ![asset] = assetBalances[broker][asset] + amount]
<1>1. assetBalances \in [Users -> [Assets -> Int]] /\ ORN \in Assets
  BY StorageAssumption DEF StorageAssumption, IInv, TypeOK, StorageTypeOK
<1>2. /\ assetBalances[liquidator][asset] >= amount
      /\ assetBalances[broker][asset] < 0
      /\ assetBalances' = [charged EXCEPT ![liquidator][ORN] = @ + reward]
      /\ UNCHANGED wallet
  BY DEF PartiallyLiquidate
<1>3. reward \in Nat
  BY RewardNat
<1>4. liquidator # broker
  BY <1>1, <1>2
<1>5. /\ lbal \in [Assets -> Int] /\ bbal \in [Assets -> Int]
      /\ \A a \in Assets : lbal[a] >= assetBalances[liquidator][a] \/ lbal[a] >= 0
      /\ \A a \in Assets : bbal[a] >= assetBalances[broker][a]
  BY <1>1, <1>2
<1>6. /\ redeemed \in [Users -> [Assets -> Int]]
      /\ redeemed[liquidator] = lbal /\ redeemed[broker] = bbal
      /\ \A u \in Users \ {liquidator, broker} : redeemed[u] = assetBalances[u]
  <2>. DEFINE debited == [assetBalances EXCEPT ![liquidator] = lbal]
  <2>1. redeemed = [debited EXCEPT ![broker] = bbal]
    BY <1>1, <1>4 DEF BalancesAfterRedemption
  <2>. HIDE DEF redeemed, lbal, bbal
  <2>. QED BY <1>1, <1>4, <1>5, <2>1
<1>. HIDE DEF redeemed, reward, lbal, bbal
<1>7. fromBalance \in Nat /\ (bbal[ORN] - fromBalance >= 0 \/ fromBalance = 0)
  BY <1>1, <1>3, <1>5, <1>6 DEF RewardFromBalance
<1>. HIDE DEF fromBalance
<1>. DEFINE lfinal == [lbal EXCEPT ![ORN] = lbal[ORN] + reward]
            bfinal == [bbal EXCEPT ![ORN] = bbal[ORN] - fromBalance]
<1>8. /\ lfinal \in [Assets -> Int] /\ bfinal \in [Assets -> Int]
      /\ \A a \in Assets : lfinal[a] >= assetBalances[liquidator][a] \/ lfinal[a] >= 0
      /\ \A a \in Assets : bfinal[a] >= assetBalances[broker][a] \/ bfinal[a] >= 0
  <2>1. /\ \A a \in Assets : assetBalances[liquidator][a] \in Int
        /\ \A a \in Assets : assetBalances[broker][a] \in Int
        /\ lbal[ORN] + reward \in Int /\ lbal[ORN] + reward >= lbal[ORN]
        /\ bbal[ORN] - fromBalance \in Int
    BY <1>1, <1>3, <1>5, <1>7
  <2>. QED BY <1>1, <1>5, <1>7, <2>1
<1>9. assetBalances' = [[redeemed EXCEPT ![broker] = bfinal] EXCEPT ![liquidator] = lfinal]
  <2>1. charged = [redeemed EXCEPT ![broker] = bfinal]
    BY <1>6
  <2>2. charged[liquidator] = lbal
    <3>. HIDE DEF bfinal, charged
    <3>. QED BY <1>4, <1>6, <2>1
  <2>3. assetBalances' = [charged EXCEPT ![liquidator] = lfinal]
    <3>. HIDE DEF charged
    <3>. QED BY <1>2, <2>2
  <2>. HIDE DEF charged
  <2>. QED BY <2>1, <2>3
<1>. HIDE DEF lfinal, bfinal
<1>10. /\ assetBalances' \in [Users -> [Assets -> Int]]
       /\ assetBalances'[liquidator] = lfinal /\ assetBalances'[broker] = bfinal
       /\ \A u \in Users \ {liquidator, broker} : assetBalances'[u] = assetBalances[u]
  BY <1>4, <1>6, <1>8, <1>9
<1>11. ASSUME NEW u \in Users, NEW a \in Assets
       PROVE  assetBalances'[u][a] >= assetBalances[u][a] \/ assetBalances'[u][a] >= 0
  <2>1. CASE u \in {liquidator, broker}
    BY <1>8, <1>10, <2>1
  <2>2. CASE u \notin {liquidator, broker}
    BY <1>1, <1>10, <2>2
  <2>. QED BY <2>1, <2>2
<1>. QED BY <1>2, <1>10, <1>11, BalancesRisk

LEMMA NextRisk == IInv /\ Next => RiskCovered
<1>. SUFFICES ASSUME IInv, Next PROVE RiskCovered
  OBVIOUS
<1>1. CASE OracleStep \/ OwnerStep
  <2>1. UNCHANGED <<assetBalances, wallet>>
    BY <1>1 DEF OracleStep, OwnerStep, ledgerVars, UpdateMarginalSettings, UpdateAssetRisks,
                PostponeStakeRelease, AllowStakeRelease, SetPhase, vaultUnchanged
  <2>. QED BY <2>1, UntouchedRisk
<1>2. CASE UserStep
  <2>1. PICK u \in Users :
           \/ \E a \in Assets : \E x \in DepositAmounts[u][a] : Deposit(u, a, x)
           \/ \E a \in Assets : \E x \in WithdrawAmounts[u][a] : Withdraw(u, a, x)
           \/ \E a \in Assets : \E x \in ApproveAmounts[u][a] : Approve(u, a, x)
           \/ \E x \in StakeAmounts[u] : LockStake(u, x)
           \/ RequestReleaseStake(u)
           \/ \E b \in Users, a \in Assets : \E x \in LiquidationAmounts[u][a] :
                 PartiallyLiquidate(u, b, a, x)
    BY <1>2 DEF UserStep
  <2>2. ASSUME NEW a \in Assets, NEW x \in DepositAmounts[u][a], Deposit(u, a, x)
        PROVE  RiskCovered
    BY <2>2, InputsNat, UserRisk
  <2>3. ASSUME NEW a \in Assets, NEW x \in WithdrawAmounts[u][a], Withdraw(u, a, x)
        PROVE  RiskCovered
    BY <2>3, InputsNat, UserRisk
  <2>4. ASSUME NEW a \in Assets, NEW x \in ApproveAmounts[u][a], Approve(u, a, x)
        PROVE  RiskCovered
    BY <2>4, UntouchedRisk DEF Approve
  <2>5. ASSUME NEW x \in StakeAmounts[u], LockStake(u, x)
        PROVE  RiskCovered
    BY <2>5, InputsNat, StakeRisk
  <2>6. CASE RequestReleaseStake(u)
    <3>1. 0 \in Nat
      OBVIOUS
    <3>. QED BY <2>6, <3>1, StakeRisk
  <2>7. ASSUME NEW b \in Users, NEW a \in Assets, NEW x \in LiquidationAmounts[u][a],
               PartiallyLiquidate(u, b, a, x)
        PROVE  RiskCovered
    BY <2>7, InputsNat, LiquidationRisk
  <2>. QED BY <2>1, <2>2, <2>3, <2>4, <2>5, <2>6, <2>7
<1>3. CASE MatcherStep
  <2>1. PICK m \in Users, buy \in Orders, sell \in Orders, p \in FillPrices, x \in FillAmounts :
           FillOrders(m, buy, sell, p, x)
    BY <1>3 DEF MatcherStep
  <2>2. p \in Nat /\ x \in Nat
    BY ExchangeAssumption DEF ExchangeAssumption
  <2>. QED BY <2>1, <2>2, FillRisk
<1>. QED BY <1>1, <1>2, <1>3 DEF Next

(* Whoever the matcher, the liquidator or the owner is and whatever prices are
   fed: tokens leave to a wallet, and a debt deepens, only in a transaction that
   leaves the position of that user positive (Exchange.sol:178, 334-335). *)
THEOREM RiskIsCovered == Spec => NewRiskIsCovered
<1>1. IInv /\ [Next]_vars => [RiskCovered]_vars
  BY NextRisk
<1>2. Spec => [][RiskCovered]_vars
  BY <1>1, Invariance, PTL DEF Spec
<1>. QED BY <1>2 DEF NewRiskIsCovered, RiskCovered

-------------------------------------------------------------------------------
(* The pool as a counterparty. *)

(* From L to M the exchange has paid at most the first asset of the path, and the
   user has got at most the last one. *)
OnlyEnds(L, M, user, path, fromExchange) ==
    \A a \in Assets :
        /\ a # Last(path) => M.wallet[user][a] <= L.wallet[user][a]
        /\ ~fromExchange \/ a # First(path) => M.held[a] = L.held[a]

(* What a swap gives goes to the wallet of the user who asked for it. *)
LEMMA SwapRisk ==
    ASSUME NEW L \in LedgerType, NEW user \in Users, NEW path \in Paths,
           NEW fromExchange \in BOOLEAN, NEW toExchange \in BOOLEAN,
           NEW spend, NEW receive, NEW exact,
           doSwapThroughOrionPool(L, user, fromExchange, spend, receive, path, exact,
                                  toExchange).ok
    PROVE  LET swap == doSwapThroughOrionPool(L, user, fromExchange, spend, receive, path,
                                              exact, toExchange)
           IN /\ NoNewRisk(L, swap.ledger, {user})
              /\ toExchange \/ OnlyEnds(L, swap.ledger, user, path, fromExchange)
<1>. DEFINE amounts == Quote(spend, receive, path, exact)
            paid == amounts[1]
            received == amounts[Len(path)]
            payed == Pay(L, user, fromExchange, First(path), paid)
            final == Collect(payed, user, toExchange, Last(path), received)
            swap == doSwapThroughOrionPool(L, user, fromExchange, spend, receive, path,
                                           exact, toExchange)
<1>1. /\ \A i \in DOMAIN path : amounts[i] \in Nat \ {0}
      /\ CanPay(L, user, fromExchange, First(path), paid)
      /\ swap.ledger = final
  BY DEF doSwapThroughOrionPool
<1>2. paid \in Nat /\ received \in Nat /\ First(path) \in Assets /\ Last(path) \in Assets
  BY <1>1, PathEnds
<1>. HIDE DEF amounts, paid, received, swap
<1>3. OnlyTokens(L, payed)
  BY <1>1, <1>2, PayFields
<1>4. /\ NoNewRisk(L, payed, {})
      /\ \A u \in Users, a \in Assets : payed.wallet[u][a] <= L.wallet[u][a]
      /\ \A a \in Assets : payed.held[a] = L.held[a]
            - (IF fromExchange /\ a = First(path) THEN paid ELSE 0)
  BY <1>2, PayRisk
<1>5. payed \in LedgerType /\ payed.assetBalances = L.assetBalances
  BY <1>3 DEF OnlyTokens
<1>. HIDE DEF payed
<1>6. OnlyTokens(payed, final)
  BY <1>2, <1>5, CollectFields
<1>7. /\ NoNewRisk(payed, final, {user})
      /\ \A a \in Assets \ {Last(path)} : final.wallet[user][a] = payed.wallet[user][a]
      /\ ~toExchange => final.held = payed.held
  BY <1>2, <1>5, CollectRisk
<1>. HIDE DEF final
<1>8. final \in LedgerType /\ final.assetBalances = L.assetBalances
  BY <1>5, <1>6 DEF OnlyTokens
<1>9. NoNewRisk(L, final, {user})
  BY <1>4, <1>5, <1>7, <1>8, RiskChains
<1>10. CASE ~toExchange
  <2>1. \A a \in Assets : L.held[a] \in Int
    BY DEF LedgerType
  <2>2. \A a \in Assets : ~fromExchange \/ a # First(path) => payed.held[a] = L.held[a]
    BY <1>4, <2>1
  <2>3. OnlyEnds(L, final, user, path, fromExchange)
    BY <1>4, <1>7, <1>10, <2>2 DEF OnlyEnds
  <2>. QED BY <1>1, <1>9, <2>3 DEF swap
<1>11. CASE toExchange
  BY <1>1, <1>9, <1>11 DEF swap
<1>. QED BY <1>10, <1>11

LEMMA PayFeeRisk ==
    ASSUME NEW L, LedgerOK(L), NEW order \in OrderType, NEW fee \in Nat, now \in Nat
    PROVE  NoNewRisk(L, _payMatcherFee(L, order, fee), {order.senderAddress})
<1>. DEFINE user == order.senderAddress
            charged == _updateBalance(L, user, order.matcherFeeAsset, -fee)
            M == _updateBalance(charged.ledger, order.matcherAddress,
                                order.matcherFeeAsset, fee).ledger
<1>1. /\ user \in Users /\ order.matcherAddress \in Users /\ order.matcherFeeAsset \in Assets
      /\ -fee \in Int /\ fee \in Int /\ fee >= 0 /\ L \in LedgerType
  BY DEF OrderType, LedgerOK
<1>. HIDE DEF user
<1>2. LedgerOK(charged.ledger) /\ NoNewRisk(L, charged.ledger, {user})
  BY <1>1, UpdateBalanceOK, UpdateBalanceRisk
<1>. HIDE DEF charged
<1>3. LedgerOK(M) /\ NoNewRisk(charged.ledger, M, {})
  <2>1. charged.ledger \in LedgerType
    BY <1>2 DEF LedgerOK
  <2>. QED BY <1>1, <1>2, <2>1, UpdateBalanceOK, UpdateBalanceRisk
<1>4. M = _payMatcherFee(L, order, fee)
  BY DEF _payMatcherFee, charged, user
<1>. HIDE DEF M
<1>5. NoNewRisk(L, M, {user})
  BY <1>1, <1>2, <1>3, RiskChains DEF LedgerOK
<1>. QED BY <1>4, <1>5 DEF user

LEMMA SettleSwapRisk ==
    ASSUME NEW swap, LedgerOK(swap.ledger), swap.amountIn \in Nat,
           NEW order \in OrderType, NEW isSeller \in BOOLEAN, NEW inContract \in BOOLEAN,
           NEW filledBase \in Nat, NEW filledQuote \in Nat, NEW path \in Paths, now \in Nat
    PROVE  NoNewRisk(swap.ledger,
                     SettleSwap(swap, order, isSeller, inContract, filledBase, filledQuote, path),
                     {order.senderAddress})
<1>. DEFINE user == order.senderAddress
            debited == updateOrderBalanceDebit(swap.ledger, order, isSeller,
                           filledBase, filledQuote, order.matcherFee)
            feePaid == _payMatcherFee(swap.ledger, order, order.matcherFee)
            M == SettleSwap(swap, order, isSeller, inContract, filledBase, filledQuote, path)
<1>1. /\ user \in Users /\ order.matcherFee \in Nat /\ Last(path) \in Assets
      /\ swap.ledger \in LedgerType /\ swap.amountIn \in Int
  BY PathEnds DEF OrderType, LedgerOK
<1>2. M = IF inContract
          THEN creditUserAssets(debited.ledger, debited.fromWallet, user,
                                debited.actualIn, Last(path))
          ELSE IF RetainsFee(order, inContract, path)
          THEN creditUserAssets(feePaid, TRUE, user, swap.amountIn, Last(path))
          ELSE feePaid
  BY DEF SettleSwap
<1>3. /\ LedgerOK(debited.ledger) /\ debited.actualIn \in Int
      /\ debited.ledger \in LedgerType
      /\ NoNewRisk(swap.ledger, debited.ledger, {user})
  BY <1>1, DebitOK, DebitRisk DEF LedgerOK
<1>4. LedgerOK(feePaid) /\ feePaid \in LedgerType /\ NoNewRisk(swap.ledger, feePaid, {user})
  BY <1>1, PayFeeOK, PayFeeRisk DEF LedgerOK
<1>. HIDE DEF user, debited, feePaid, M
<1>5. NoNewRisk(swap.ledger, M, {user})
  <2>1. CASE inContract
    <3>1. M = creditUserAssets(debited.ledger, debited.fromWallet, user,
                               debited.actualIn, Last(path))
      BY <1>2, <2>1
    <3>2. M \in LedgerType
      BY <1>1, <1>3, <3>1, CreditOK DEF LedgerOK
    <3>3. NoNewRisk(debited.ledger, M, {user})
      BY <1>1, <1>3, <3>1, CreditRisk
    <3>. QED BY <1>1, <1>3, <3>2, <3>3, RiskChains
  <2>2. CASE ~inContract /\ RetainsFee(order, inContract, path)
    <3>1. M = creditUserAssets(feePaid, TRUE, user, swap.amountIn, Last(path))
      BY <1>2, <2>2
    <3>2. M \in LedgerType
      BY <1>1, <1>4, <3>1, CreditOK DEF LedgerOK
    <3>3. NoNewRisk(feePaid, M, {user})
      BY <1>1, <1>4, <3>1, CreditRisk
    <3>. QED BY <1>1, <1>4, <3>2, <3>3, RiskChains
  <2>3. CASE ~inContract /\ ~RetainsFee(order, inContract, path)
    BY <1>2, <1>4, <2>3
  <2>. QED BY <2>1, <2>2, <2>3
<1>. QED BY <1>5 DEF M, user

LEMMA FillThroughOrionPoolRisk ==
    ASSUME PoolIInv, NEW sender \in Users, NEW order \in Orders, NEW filledAmount \in Nat,
           NEW blockchainFee \in Nat, NEW path \in Paths,
           FillThroughOrionPool(sender, order, filledAmount, blockchainFee, path)
    PROVE  RiskCovered
<1>. DEFINE user == order.senderAddress
            isSeller == order.buySide = kSell
            amountQuote == (filledAmount * order.price) \div Unit
            spend == IF isSeller THEN filledAmount ELSE amountQuote
            receive == IF isSeller THEN amountQuote ELSE filledAmount
            inContract == First(path) = ETH \/ assetBalances[user][First(path)] > 0
            retains == inContract \/ RetainsFee(order, inContract, path)
            swap == doSwapThroughOrionPool(Ledger, user, inContract, spend, receive, path,
                        isSeller, retains)
            filledBase == IF isSeller THEN swap.amountOut ELSE swap.amountIn
            filledQuote == IF isSeller THEN swap.amountIn ELSE swap.amountOut
            charged == IF swap.ok /\ LowersFee(order, blockchainFee)
                       THEN [order EXCEPT !.matcherFee = blockchainFee] ELSE order
            L == IF swap.ok
                 THEN SettleSwap(swap, charged, isSeller, inContract,
                                 filledBase, filledQuote, path)
                 ELSE _payMatcherFee(Ledger, order, order.matcherFee)
<1>1. Commit(L) /\ checkPosition(user)'
  BY DEF FillThroughOrionPool, PositionChecked
<1>2. order \in OrderType /\ user \in Users /\ IInv /\ now \in Nat
  BY StorageAssumption
     DEF StorageAssumption, OrderType, PoolIInv, IInv, TypeOK, OracleTypeOK
<1>3. isSeller \in BOOLEAN /\ inContract \in BOOLEAN /\ retains \in BOOLEAN
  BY DEF RetainsFee
<1>4. LedgerOK(Ledger) /\ Ledger \in LedgerType
  BY <1>2, LedgerIsOK
<1>5. swap.ok => /\ OnlyTokens(Ledger, swap.ledger)
                 /\ NoNewRisk(Ledger, swap.ledger, {user})
                 /\ swap.amountOut \in Nat /\ swap.amountIn \in Nat
  <2>. HIDE DEF user, isSeller, spend, receive, inContract, retains
  <2>1. swap.ok => /\ OnlyTokens(Ledger, swap.ledger)
                   /\ swap.amountOut \in Nat /\ swap.amountIn \in Nat
    BY <1>2, <1>3, <1>4, SwapOK
  <2>2. swap.ok => NoNewRisk(Ledger, swap.ledger, {user})
    BY <1>2, <1>3, <1>4, SwapRisk
  <2>. QED BY <2>1, <2>2
<1>6. charged \in OrderType /\ charged.senderAddress = user
  <2>. HIDE DEF swap
  <2>1. CASE swap.ok /\ LowersFee(order, blockchainFee)
    <3>1. blockchainFee \in 0 .. order.matcherFee
      BY <1>2, <2>1 DEF OrderType, LowersFee
    <3>. QED BY <2>1, <3>1, HashOfLowered
  <2>2. CASE ~(swap.ok /\ LowersFee(order, blockchainFee))
    BY <1>2, <2>2
  <2>. QED BY <2>1, <2>2
<1>. HIDE DEF swap, charged, inContract, isSeller
<1>7. L \in LedgerType /\ NoNewRisk(Ledger, L, {user})
  <2>1. CASE swap.ok
    <3>1. LedgerOK(swap.ledger) /\ swap.ledger \in LedgerType
      BY <1>4, <1>5, <2>1, OnlyTokensOK DEF OnlyTokens
    <3>2. filledBase \in Nat /\ filledQuote \in Nat
      BY <1>5, <2>1
    <3>3. L = SettleSwap(swap, charged, isSeller, inContract, filledBase, filledQuote, path)
      BY <2>1
    <3>. HIDE DEF filledBase, filledQuote, L, user
    <3>4. L \in LedgerType
      BY <1>2, <1>3, <1>5, <1>6, <2>1, <3>1, <3>2, <3>3, SettleSwapOK DEF LedgerOK
    <3>5. NoNewRisk(swap.ledger, L, {user})
      BY <1>2, <1>3, <1>5, <1>6, <2>1, <3>1, <3>2, <3>3, SettleSwapRisk
    <3>. QED BY <1>4, <1>5, <2>1, <3>1, <3>4, <3>5, RiskChains
  <2>2. CASE ~swap.ok
    <3>1. L = _payMatcherFee(Ledger, order, order.matcherFee) /\ order.matcherFee \in Nat
      BY <1>2, <2>2 DEF OrderType
    <3>. HIDE DEF L
    <3>. QED BY <1>2, <1>4, <3>1, PayFeeOK, PayFeeRisk DEF LedgerOK
  <2>. QED BY <2>1, <2>2
<1>8. \A u \in {user} : checkPosition(u)'
  BY <1>1
<1>. HIDE DEF user, L
<1>. QED BY <1>1, <1>2, <1>7, <1>8, CommitRisk

(* No request starts and ends with ether.  Such a round trip is sent, with its
   output, the units of ether that are too small for the ledger: the refund is
   what was sent less what was spent rounded down (ExchangeWithOrionPool.sol:
   202-206), so that the exchange may end with less ether and the wallet with
   more. *)
NoEtherRoundTrip == \A path \in Paths : First(path) = ETH => Last(path) # ETH

LEMMA SwapThroughOrionPoolRisk ==
    ASSUME PoolIInv, NoEtherRoundTrip, NEW user \in Users, NEW request \in PoolSwaps,
           SwapThroughOrionPool(user, request)
    PROVE  OutflowCovered
<1>. DEFINE path == request.path
            ethSent == BaseUnitToDecimal(ETH, request.value)
            sentEnough == request.value > 0 /\ First(path) = ETH /\ ethSent >= request.spend
            deposited == request.value > 0 /\ ~sentEnough
            inContract == assetBalances[user][First(path)] > 0 /\ ~sentEnough
            withEther == Receive(Ledger, user, ETH, request.value)
            before == IF deposited THEN _updateBalance(withEther, user, ETH, ethSent).ledger
                      ELSE withEther
            fromExchange == inContract \/ sentEnough
            swap == doSwapThroughOrionPool(before, user, fromExchange,
                        request.spend, request.receive, path, request.exact, inContract)
            spent == DecimalToBaseUnit(ETH, swap.amountOut)
            refund == Refund(sentEnough, request.value, spent)
            debited == _updateBalance(swap.ledger, user, First(path), -swap.amountOut).ledger
            credited == _updateBalance(debited, user, Last(path), swap.amountIn).ledger
            sent == Send(swap.ledger, user, ETH, refund)
            L == IF inContract THEN credited ELSE sent
<1>1. /\ wallet[user][ETH] >= request.value
      /\ swap.ok
      /\ sentEnough => swap.ledger.held[ETH] >= refund
      /\ Commit(L)
      /\ inContract => checkPosition(user)'
  BY DEF SwapThroughOrionPool, PositionChecked
<1>2. /\ ETH \in Assets /\ path \in Paths /\ request.value \in Nat /\ ethSent \in Nat
      /\ First(path) \in Assets /\ Last(path) \in Assets
  <2>1. ETH \in Assets /\ path \in Paths /\ request.value \in Nat
    BY PoolAssumption DEF PoolAssumption
  <2>. QED BY <2>1, PathEnds, ConversionNat
<1>3. IInv /\ now \in Nat /\ LedgerOK(Ledger) /\ Ledger \in LedgerType
  BY LedgerIsOK DEF PoolIInv, IInv, TypeOK, OracleTypeOK
<1>4. /\ sentEnough \in BOOLEAN /\ inContract \in BOOLEAN /\ fromExchange \in BOOLEAN
      /\ sentEnough => First(path) = ETH /\ Last(path) # ETH /\ ~deposited
  BY <1>2 DEF NoEtherRoundTrip
<1>. HIDE DEF path, ethSent, sentEnough, inContract
<1>5. /\ LedgerOK(withEther) /\ withEther \in LedgerType
      /\ NoNewRisk(Ledger, withEther, {})
      /\ withEther.assetBalances = Ledger.assetBalances
      /\ withEther.wallet[user][ETH] = Ledger.wallet[user][ETH] - request.value
      /\ \A a \in Assets : withEther.held[a] >= Ledger.held[a]
  <2>1. CanReceive(Ledger, user, ETH, request.value)
    BY <1>1 DEF CanReceive, Ledger
  <2>2. OnlyTokens(Ledger, withEther)
    BY <1>2, <1>3, <2>1, ReceiveFields DEF OnlyTokens
  <2>3. LedgerOK(withEther) /\ withEther \in LedgerType
    BY <1>3, <2>2, OnlyTokensOK DEF OnlyTokens
  <2>4. /\ NoNewRisk(Ledger, withEther, {})
        /\ withEther.assetBalances = Ledger.assetBalances
        /\ withEther.wallet[user][ETH] = Ledger.wallet[user][ETH] - request.value
        /\ \A a \in Assets : withEther.held[a] = Ledger.held[a]
                                + (IF a = ETH THEN request.value ELSE 0)
    BY <1>2, <1>3, ReceiveRisk
  <2>5. \A a \in Assets : Ledger.held[a] \in Int
    BY <1>3 DEF LedgerType
  <2>6. \A a \in Assets : withEther.held[a] >= Ledger.held[a]
    BY <1>2, <2>4, <2>5
  <2>. QED BY <2>3, <2>4, <2>6
<1>. HIDE DEF withEther
<1>6. /\ LedgerOK(before) /\ before \in LedgerType
      /\ NoNewRisk(Ledger, before, {})
      /\ before.wallet = withEther.wallet /\ before.held = withEther.held
      /\ \A a \in Assets : before.assetBalances[user][a] >= Ledger.assetBalances[user][a]
  <2>1. CASE deposited
    <3>1. ethSent \in Int /\ ethSent >= 0
      BY <1>2
    <3>2. before = _updateBalance(withEther, user, ETH, ethSent).ledger
      BY <2>1
    <3>. HIDE DEF before
    <3>3. LedgerOK(before) /\ before \in LedgerType
      BY <1>2, <1>3, <1>5, <3>1, <3>2, UpdateBalanceOK DEF LedgerOK
    <3>4. /\ NoNewRisk(withEther, before, {})
          /\ before.wallet = withEther.wallet /\ before.held = withEther.held
          /\ \A a \in Assets :
                before.assetBalances[user][a] >= withEther.assetBalances[user][a]
      BY <1>2, <1>5, <3>1, <3>2, UpdateBalanceRisk
    <3>5. NoNewRisk(Ledger, before, {})
      BY <1>3, <1>5, <3>3, <3>4, RiskChains
    <3>. QED BY <1>5, <3>3, <3>4, <3>5
  <2>2. CASE ~deposited
    <3>1. \A a \in Assets : Ledger.assetBalances[user][a] \in Int
      BY <1>3 DEF LedgerType
    <3>. QED BY <1>5, <2>2, <3>1
  <2>. QED BY <2>1, <2>2
<1>7. sentEnough => before = withEther
  BY <1>4
<1>. HIDE DEF before, deposited
<1>8. /\ OnlyTokens(before, swap.ledger)
      /\ swap.amountOut \in Nat /\ swap.amountIn \in Nat
  <2>. HIDE DEF fromExchange
  <2>. QED BY <1>1, <1>2, <1>4, <1>6, SwapOK
<1>9. /\ swap.ledger \in LedgerType
      /\ swap.ledger.assetBalances = before.assetBalances
      /\ NoNewRisk(before, swap.ledger, {user})
      /\ inContract \/ OnlyEnds(before, swap.ledger, user, path, fromExchange)
  <2>. HIDE DEF fromExchange
  <2>1. /\ NoNewRisk(before, swap.ledger, {user})
        /\ inContract \/ OnlyEnds(before, swap.ledger, user, path, fromExchange)
    BY <1>1, <1>2, <1>4, <1>6, SwapRisk
  <2>2. /\ swap.ledger \in LedgerType
        /\ swap.ledger.assetBalances = before.assetBalances
    BY <1>8 DEF OnlyTokens
  <2>. QED BY <2>1, <2>2
<1>. HIDE DEF swap
<1>10. LedgerOK(swap.ledger) /\ NoNewRisk(Ledger, swap.ledger, {user})
  <2>1. LedgerOK(swap.ledger)
    BY <1>6, <1>8, OnlyTokensOK
  <2>2. {} \subseteq {user} /\ {user} \subseteq {user}
    OBVIOUS
  <2>. QED BY <1>3, <1>6, <1>9, <2>1, <2>2, RiskChains
<1>11. CASE inContract
  <2>1. -swap.amountOut \in Int /\ swap.amountIn \in Int
    BY <1>8
  <2>2. LedgerOK(debited) /\ debited \in LedgerType /\ NoNewRisk(swap.ledger, debited, {user})
    BY <1>2, <1>3, <1>9, <1>10, <2>1, UpdateBalanceOK, UpdateBalanceRisk DEF LedgerOK
  <2>. HIDE DEF debited
  <2>3. credited \in LedgerType /\ NoNewRisk(debited, credited, {user})
    BY <1>2, <1>3, <2>1, <2>2, UpdateBalanceOK, UpdateBalanceRisk DEF LedgerOK
  <2>4. L = credited
    BY <1>11
  <2>. HIDE DEF credited, L
  <2>5. NoNewRisk(Ledger, debited, {user})
    BY <1>3, <1>9, <1>10, <2>2, RiskChains
  <2>6. L \in LedgerType /\ NoNewRisk(Ledger, L, {user})
    BY <1>3, <2>2, <2>3, <2>4, <2>5, RiskChains
  <2>7. RiskCovered
    BY <1>1, <1>3, <1>11, <2>6, CommitRisk
  <2>. QED BY <2>7, Zenon DEF RiskCovered, OutflowCovered
<1>12. CASE ~inContract
  <2>1. spent \in Nat
    BY <1>2, <1>8, ConversionNat
  <2>. HIDE DEF spent
  <2>2. refund \in Nat /\ refund <= request.value /\ (~sentEnough => refund = 0)
    BY <1>2, <2>1 DEF Refund
  <2>3. refund > 0 => swap.ledger.held[ETH] >= refund
    BY <1>1, <2>2
  <2>. HIDE DEF refund
  <2>4. sent \in LedgerType
    <3>1. OnlyTokens(swap.ledger, sent)
      BY <1>2, <1>9, <2>2, <2>3, SendOrNothing
    <3>. QED BY <3>1 DEF OnlyTokens
  <2>5. /\ NoNewRisk(swap.ledger, sent, {user})
        /\ sent.assetBalances = swap.ledger.assetBalances
        /\ \A a \in Assets : sent.wallet[user][a] = swap.ledger.wallet[user][a]
                                + (IF a = ETH THEN refund ELSE 0)
        /\ \A a \in Assets : sent.held[a] = swap.ledger.held[a]
                                - (IF a = ETH THEN refund ELSE 0)
    <3>1. sent = Send(swap.ledger, user, ETH, refund)
      OBVIOUS
    <3>. HIDE DEF sent
    <3>2. NoNewRisk(swap.ledger, sent, {user}) /\ HasSent(swap.ledger, sent, user, ETH, refund)
      BY <1>2, <1>9, <2>2, <3>1, SendRisk
    <3>. QED BY <3>2 DEF HasSent
  <2>. HIDE DEF sent
  <2>6. NoNewRisk(Ledger, sent, {user})
    BY <1>3, <1>9, <1>10, <2>4, <2>5, RiskChains
  <2>7. \A a \in Assets :
           /\ Ledger.wallet[user][a] \in Int /\ Ledger.held[a] \in Int
           /\ swap.ledger.wallet[user][a] \in Int /\ swap.ledger.held[a] \in Int
           /\ withEther.wallet[user][a] \in Int /\ withEther.held[a] \in Int
           /\ sent.wallet[user][a] \in Int /\ sent.held[a] \in Int
    <3>1. \A K \in LedgerType : \A a \in Assets : K.wallet[user][a] \in Int /\ K.held[a] \in Int
      BY DEF LedgerType
    <3>. QED BY <1>3, <1>5, <1>9, <2>4, <3>1
  <2>8. \A a \in Assets : sent.wallet[user][a] <= Ledger.wallet[user][a]
                          \/ sent.held[a] >= Ledger.held[a]
    <3>. SUFFICES ASSUME NEW a \in Assets
                  PROVE  sent.wallet[user][a] <= Ledger.wallet[user][a]
                         \/ sent.held[a] >= Ledger.held[a]
      OBVIOUS
    <3>1. CASE ~sentEnough
      <4>1. ~fromExchange
        BY <1>12, <3>1
      <4>2. swap.ledger.held[a] = withEther.held[a]
        BY <1>6, <1>9, <1>12, <4>1 DEF OnlyEnds
      <4>. QED BY <1>5, <2>2, <2>5, <2>7, <3>1, <4>2
    <3>2. CASE sentEnough /\ a = ETH
      <4>1. swap.ledger.wallet[user][a] <= Ledger.wallet[user][a] - request.value
        BY <1>2, <1>4, <1>5, <1>7, <1>9, <1>12, <3>2 DEF OnlyEnds
      <4>2. sent.wallet[user][a] = swap.ledger.wallet[user][a] + refund
        BY <2>5, <3>2
      <4>. QED BY <1>2, <2>2, <2>7, <4>1, <4>2
    <3>3. CASE sentEnough /\ a # ETH
      <4>1. swap.ledger.held[a] = withEther.held[a]
        BY <1>4, <1>7, <1>9, <1>12, <3>3 DEF OnlyEnds
      <4>. QED BY <1>5, <2>5, <2>7, <3>3, <4>1
    <3>. QED BY <3>1, <3>2, <3>3
  <2>9. Commit(sent)
    BY <1>1, <1>12
  <2>10. \A u \in Users, a \in Assets :
            /\ wallet[u][a] \in Int /\ wallet'[u][a] \in Int
            /\ held[a] \in Int /\ held'[a] \in Int
            /\ assetBalances[u][a] \in Int /\ assetBalances'[u][a] \in Int
    BY <1>3, <2>4, <2>9 DEF IInv, TypeOK, StorageTypeOK, Commit, LedgerType
  <2>11. \A u \in Users, a \in Assets :
            /\ wallet'[u][a] <= wallet[u][a] \/ held'[a] >= held[a]
            /\ assetBalances'[u][a] >= assetBalances[u][a] \/ assetBalances'[u][a] >= 0
    <3>1. \A a \in Assets : sent.assetBalances[user][a] >= Ledger.assetBalances[user][a]
      BY <1>6, <1>9, <2>5
    <3>2. \A u \in Users, a \in Assets :
             /\ sent.wallet[u][a] <= Ledger.wallet[u][a] \/ sent.held[a] >= Ledger.held[a]
             /\ \/ sent.assetBalances[u][a] >= Ledger.assetBalances[u][a]
                \/ sent.assetBalances[u][a] >= 0
      BY <2>6, <2>8, <3>1 DEF NoNewRisk
    <3>3. /\ Ledger.wallet = wallet /\ Ledger.held = held
          /\ Ledger.assetBalances = assetBalances
          /\ sent.wallet = wallet' /\ sent.held = held'
          /\ sent.assetBalances = assetBalances'
      BY <2>9 DEF Ledger, Commit
    <3>. QED BY <3>2, <3>3
  <2>12. \A u \in Users, a \in Assets :
            /\ ~(wallet'[u][a] > wallet[u][a] /\ held'[a] < held[a])
            /\ ~(assetBalances'[u][a] < 0 /\ assetBalances'[u][a] < assetBalances[u][a])
    BY <2>10, <2>11
  <2>. QED BY <2>12, Zenon DEF OutflowCovered
<1>. QED BY <1>11, <1>12

LEMMA PoolNextRisk == NoEtherRoundTrip /\ PoolIInv /\ PoolNext => OutflowCovered
<1>. SUFFICES ASSUME NoEtherRoundTrip, PoolIInv, PoolNext PROVE OutflowCovered
  OBVIOUS
<1>1. RiskCovered => OutflowCovered
  BY Zenon DEF RiskCovered, OutflowCovered
<1>2. CASE Next /\ UNCHANGED reserves
  BY <1>1, <1>2, NextRisk DEF PoolIInv
<1>3. CASE PoolStep
  <2>1. ASSUME NEW m \in Users, NEW order \in Orders, NEW x \in PoolFillAmounts,
               NEW fee \in BlockchainFees, NEW path \in Paths,
               FillThroughOrionPool(m, order, x, fee, path)
        PROVE  OutflowCovered
    <3>1. x \in Nat /\ fee \in Nat
      BY PoolAssumption DEF PoolAssumption
    <3>. QED BY <1>1, <2>1, <3>1, FillThroughOrionPoolRisk
  <2>2. ASSUME NEW u \in Users, NEW request \in PoolSwaps, SwapThroughOrionPool(u, request)
        PROVE  OutflowCovered
    BY <2>2, SwapThroughOrionPoolRisk
  <2>3. CASE MarketStep
    <3>1. UNCHANGED <<assetBalances, wallet>>
      BY <2>3 DEF MarketStep, vars
    <3>. QED BY <1>1, <3>1, UntouchedRisk DEF PoolIInv
  <2>. QED BY <1>3, <2>1, <2>2, <2>3 DEF PoolStep
<1>. QED BY <1>2, <1>3 DEF PoolNext

(* With the pool as a counterparty: what the exchange holds leaves to a wallet,
   and a debt deepens, only in a transaction that leaves the position of that
   user positive; a failed swap that still costs its fee included
   (ExchangeWithOrionPool.sol:132-139, 207-211). *)
THEOREM PoolOutflowIsCovered == NoEtherRoundTrip => (PoolSpec => PoolRiskIsCovered)
<1>. SUFFICES ASSUME NoEtherRoundTrip PROVE PoolSpec => PoolRiskIsCovered
  OBVIOUS
<1>1. PoolIInv /\ [PoolNext]_poolVars => [OutflowCovered]_poolVars
  BY PoolNextRisk
<1>2. PoolSpec => [][OutflowCovered]_poolVars
  BY <1>1, PoolInvariance, PTL DEF PoolSpec
<1>. QED BY <1>2 DEF PoolRiskIsCovered, OutflowCovered

-------------------------------------------------------------------------------
(***************************************************************************)
(* What is outstanding of a debt.  A cover subtracts from outstandingAmount *)
(* no more than what it adds to the balance, or sets it to the whole debt;  *)
(* a liquidation adds to the balance and leaves outstandingAmount alone, so *)
(* that the bound holds of an exchange nobody liquidates on.                *)
(***************************************************************************)
NoLiquidations == \A u \in Users, a \in Assets : LiquidationAmounts[u][a] = {}

OutWithin(bal, list) ==
    \A i \in 1 .. Len(list) :
        list[i].asset # ORN => list[i].outstandingAmount <= -bal[list[i].asset]

Outstanding(L) == \A u \in Users : OutWithin(L.assetBalances[u], L.liabilities[u])

(* The entry of a paid debt goes, and the others are of other assets. *)
LEMMA RemoveWithin ==
    ASSUME NEW bal, NEW list, ListOK(bal, list), OutWithin(bal, list),
           NEW asset \in Assets, NEW x \in Nat
    PROVE  OutWithin([bal EXCEPT ![asset] = x], removeLiability(list, asset))
<1>. DEFINE newBal == [bal EXCEPT ![asset] = x]
            newList == removeLiability(list, asset)
<1>1. /\ \A a \in Assets \ {asset} : newBal[a] = bal[a]
      /\ Len(list) \in Nat /\ DOMAIN list = 1 .. Len(list)
      /\ \A i \in 1 .. Len(list) : list[i] \in Liability
  BY LenProperties, ElementOfSeq DEF ListOK
<1>2. CASE Entries(list, asset) = {}
  <2>1. newList = list
    BY <1>2 DEF removeLiability
  <2>2. \A i \in 1 .. Len(list) : list[i].asset \in Assets \ {asset}
    BY <1>1, <1>2 DEF Entries, Liability
  <2>. HIDE DEF newBal, newList
  <2>3. OutWithin(newBal, newList)
    BY <1>1, <2>1, <2>2 DEF OutWithin
  <2>. QED BY <2>3 DEF newBal, newList
<1>3. CASE Entries(list, asset) # {}
  <2>1. PICK i \in 1 .. Len(list) :
             /\ list[i].asset = asset
             /\ newList \in Seq(Liability)
             /\ Len(newList) = Len(list) - 1
             /\ \A k \in 1 .. Len(list) - 1 :
                   newList[k] = IF k = i THEN list[Len(list)] ELSE list[k]
    BY <1>3, RemoveEntry DEF ListOK
  <2>. HIDE DEF newBal, newList
  <2>2. ASSUME NEW k \in 1 .. Len(newList)
        PROVE  \E j \in 1 .. Len(list) : j # i /\ newList[k] = list[j]
    <3>1. CASE k = i
      <4>0. Len(newList) = Len(list) - 1 /\ Len(list) \in Nat
        BY <1>1, <2>1
      <4>1. Len(list) \in 1 .. Len(list) /\ Len(list) # i
        BY <3>1, <4>0
      <4>2. newList[k] = list[Len(list)]
        BY <2>1, <3>1
      <4>. QED BY <4>1, <4>2
    <3>2. CASE k # i
      <4>1. k \in 1 .. Len(list)
        BY <1>1, <2>1
      <4>2. newList[k] = list[k]
        BY <2>1, <3>2
      <4>. QED BY <3>2, <4>1, <4>2
    <3>. QED BY <3>1, <3>2
  <2>3. ASSUME NEW k \in 1 .. Len(newList), newList[k].asset # ORN
        PROVE  newList[k].outstandingAmount <= -newBal[newList[k].asset]
    <3>1. PICK j \in 1 .. Len(list) : j # i /\ newList[k] = list[j]
      BY <2>2
    <3>2. list[j].asset # asset /\ list[j].asset \in Assets
      BY <1>1, <2>1, <2>3, <3>1 DEF ListOK, EntryIsDebt, Liability
    <3>3. list[j].outstandingAmount <= -bal[list[j].asset]
      BY <2>3, <3>1 DEF OutWithin
    <3>. QED BY <1>1, <3>1, <3>2, <3>3
  <2>. QED BY <2>3 DEF OutWithin, newBal, newList
<1>. QED BY <1>2, <1>3

(* The entry that updateLiability changes is that of the debt, if listed. *)
LEMMA EntryToUpdateOfDebt ==
    ASSUME NEW list \in Seq(Liability), NEW asset,
           NEW i \in 1 .. Len(list), list[i].asset = asset
    PROVE  /\ EntryToUpdate(list, asset) \in 1 .. Len(list)
           /\ list[EntryToUpdate(list, asset)].asset = asset
<1>. DEFINE found == {k \in 1 .. Len(list) - 1 : list[k].asset = asset}
<1>1. Len(list) \in Nat /\ list # <<>>
  BY LenProperties, EmptySeq
<1>2. EntryToUpdate(list, asset) \in 1 .. Len(list)
  BY <1>1, EntryToUpdateInList
<1>3. EntryToUpdate(list, asset) = IF found = {} THEN Len(list) ELSE MinIndex(found)
  BY DEF EntryToUpdate
<1>4. CASE found = {}
  <2>1. i = Len(list)
    BY <1>1, <1>4
  <2>. QED BY <1>2, <1>3, <1>4, <2>1
<1>5. CASE found # {}
  <2>1. found \in SUBSET Nat
    BY <1>1
  <2>2. \A k \in found : list[k].asset = asset
    OBVIOUS
  <2>. HIDE DEF found
  <2>3. MinIndex(found) \in found
    BY <1>5, <2>1, MinIndexInSet
  <2>. QED BY <1>2, <1>3, <1>5, <2>2, <2>3
<1>. QED BY <1>4, <1>5

(* One entry of the list is exchanged for another of the same asset. *)
LEMMA ReplaceWithin ==
    ASSUME NEW bal, NEW list, ListOK(bal, list), OutWithin(bal, list),
           NEW asset \in Assets, NEW x \in Int,
           NEW i \in 1 .. Len(list), list[i].asset = asset,
           NEW newEntry \in Liability, newEntry.asset = asset,
           newEntry.outstandingAmount <= -x
    PROVE  OutWithin([bal EXCEPT ![asset] = x], [list EXCEPT ![i] = newEntry])
<1>. DEFINE newBal == [bal EXCEPT ![asset] = x]
            newList == [list EXCEPT ![i] = newEntry]
<1>1. /\ newBal[asset] = x
      /\ \A a \in Assets \ {asset} : newBal[a] = bal[a]
      /\ \A j \in 1 .. Len(list) : list[j] \in Liability
      /\ list \in Seq(Liability)
  BY ElementOfSeq DEF ListOK
<1>2. /\ Len(newList) = Len(list)
      /\ \A j \in 1 .. Len(list) : newList[j] = IF j = i THEN newEntry ELSE list[j]
  BY <1>1, ExceptSeq
<1>. HIDE DEF newBal, newList
<1>3. ASSUME NEW k \in 1 .. Len(list), newList[k].asset # ORN
      PROVE  newList[k].outstandingAmount <= -newBal[newList[k].asset]
  <2>1. CASE k = i
    BY <1>1, <1>2, <2>1
  <2>2. CASE k # i
    <3>1. newList[k] = list[k]
      BY <1>2, <2>2
    <3>2. list[k].asset # asset /\ list[k].asset \in Assets
      BY <1>1, <1>3, <2>2, <3>1 DEF ListOK, EntryIsDebt, Liability
    <3>3. list[k].outstandingAmount <= -bal[list[k].asset]
      BY <1>3, <3>1 DEF OutWithin
    <3>. QED BY <1>1, <3>1, <3>2, <3>3
  <2>. QED BY <2>1, <2>2
<1>. QED BY <1>2, <1>3 DEF OutWithin, newBal, newList

(* A cover of a debt. *)
LEMMA UpdateWithin ==
    ASSUME NEW bal, NEW list, ListOK(bal, list), OutWithin(bal, list),
           NEW asset \in Assets, NEW amount \in Nat, NEW x \in Int, x = bal[asset] + amount,
           bal[asset] < 0, now \in Nat
    PROVE  OutWithin([bal EXCEPT ![asset] = x], updateLiability(list, asset, amount, x))
<1>1. CASE x >= 0
  <2>1. x \in Nat
    BY <1>1
  <2>2. updateLiability(list, asset, amount, x) = removeLiability(list, asset)
    BY <1>1 DEF updateLiability
  <2>. QED BY <2>1, <2>2, RemoveWithin
<1>2. CASE x < 0
  <2>. DEFINE i == EntryToUpdate(list, asset)
              entry == list[i]
              newEntry == IF amount >= entry.outstandingAmount
                          THEN [entry EXCEPT !.outstandingAmount = -x, !.timestamp = now]
                          ELSE [entry EXCEPT !.outstandingAmount =
                                                entry.outstandingAmount - amount]
  <2>1. PICK k \in 1 .. Len(list) : list[k].asset = asset
    BY DEF ListOK, EveryDebtListed
  <2>2. i \in 1 .. Len(list) /\ entry.asset = asset
    BY <2>1, EntryToUpdateOfDebt DEF ListOK
  <2>3. updateLiability(list, asset, amount, x) = [list EXCEPT ![i] = newEntry]
    <3>. ~ (x >= 0)
      BY <1>2
    <3>. QED BY Zenon DEF updateLiability
  <2>. HIDE DEF i
  <2>4. entry \in Liability
    BY <2>2, ElementOfSeq DEF ListOK
  <2>5. asset # ORN => entry.outstandingAmount <= -bal[asset]
    BY <2>2 DEF OutWithin
  <2>6. bal[asset] \in Int
    BY DEF ListOK
  <2>. HIDE DEF entry
  <2>7. /\ newEntry \in Liability /\ newEntry.asset = asset
        /\ asset # ORN => newEntry.outstandingAmount <= -x
    <3>1. CASE amount >= entry.outstandingAmount
      <4>1. newEntry = [entry EXCEPT !.outstandingAmount = -x, !.timestamp = now]
        BY <3>1
      <4>2. -x \in Nat
        BY <1>2
      <4>3. /\ newEntry \in Liability /\ newEntry.asset = entry.asset
            /\ newEntry.outstandingAmount = -x
        BY <2>4, <4>1, <4>2 DEF Liability
      <4>4. -x <= -x
        BY <4>2
      <4>. QED BY <2>2, <4>3, <4>4
    <3>2. CASE ~ (amount >= entry.outstandingAmount)
      <4>1. newEntry = [entry EXCEPT !.outstandingAmount =
                                           entry.outstandingAmount - amount]
        BY <3>2
      <4>2. entry.outstandingAmount - amount \in Nat
        BY <2>4, <3>2 DEF Liability
      <4>3. asset # ORN => entry.outstandingAmount - amount <= -x
        BY <2>4, <2>5, <2>6 DEF Liability
      <4>. QED BY <2>2, <2>4, <4>1, <4>2, <4>3 DEF Liability
    <3>. QED BY <3>1, <3>2
  <2>. HIDE DEF newEntry
  <2>8. CASE asset # ORN
    BY <2>2, <2>3, <2>7, <2>8, ReplaceWithin DEF entry
  <2>9. CASE asset = ORN
    <3>. DEFINE newList == [list EXCEPT ![i] = newEntry]
    <3>1. /\ Len(newList) = Len(list)
          /\ \A j \in 1 .. Len(list) : newList[j] = IF j = i THEN newEntry ELSE list[j]
      BY <2>2, <2>7, ExceptSeq DEF ListOK
    <3>. HIDE DEF newList
    <3>2. ASSUME NEW j \in 1 .. Len(list), newList[j].asset # ORN
          PROVE  newList[j].outstandingAmount <= -[bal EXCEPT ![asset] = x][newList[j].asset]
      <4>1. newList[j] = list[j] /\ list[j].asset # asset
        BY <2>7, <2>9, <3>1, <3>2
      <4>2. list[j].outstandingAmount <= -bal[list[j].asset]
        BY <3>2, <4>1 DEF OutWithin
      <4>. QED BY <4>1, <4>2 DEF ListOK
    <3>3. OutWithin([bal EXCEPT ![asset] = x], newList)
      BY <3>1, <3>2 DEF OutWithin
    <3>. QED BY <2>3, <3>3 DEF newList
  <2>. QED BY <2>8, <2>9
<1>. QED BY <1>1, <1>2

(* A new debt is outstanding as a whole. *)
LEMMA PushWithin ==
    ASSUME NEW bal, NEW list, ListOK(bal, list), OutWithin(bal, list),
           NEW asset \in Assets, NEW x \in Int, bal[asset] >= 0, x < 0,
           NEW entry \in Liability, entry.asset = asset, entry.outstandingAmount = -x
    PROVE  OutWithin([bal EXCEPT ![asset] = x], Append(list, entry))
<1>. DEFINE newBal == [bal EXCEPT ![asset] = x]
            newList == Append(list, entry)
            n == Len(list)
<1>1. /\ newBal[asset] = x
      /\ \A a \in Assets \ {asset} : newBal[a] = bal[a]
      /\ n \in Nat /\ \A i \in 1 .. Len(list) : list[i] \in Liability
  BY LenProperties, ElementOfSeq DEF ListOK
<1>2. /\ Len(newList) = n + 1
      /\ \A i \in 1 .. n : newList[i] = list[i]
      /\ newList[n + 1] = entry
  BY AppendProperties DEF ListOK
<1>. HIDE DEF newBal, newList
<1>3. ASSUME NEW k \in 1 .. n + 1, newList[k].asset # ORN
      PROVE  newList[k].outstandingAmount <= -newBal[newList[k].asset]
  <2>1. CASE k = n + 1
    BY <1>1, <1>2, <2>1
  <2>2. CASE k \in 1 .. n
    <3>1. newList[k] = list[k]
      BY <1>2, <2>2
    <3>2. list[k].asset # asset /\ list[k].asset \in Assets
      <4>1. bal[list[k].asset] < 0
        BY <1>3, <2>2, <3>1 DEF ListOK, EntryIsDebt
      <4>2. list[k].asset # asset
        BY <4>1 DEF ListOK
      <4>. QED BY <1>1, <2>2, <4>2 DEF Liability
    <3>3. list[k].outstandingAmount <= -bal[list[k].asset]
      BY <1>3, <2>2, <3>1 DEF OutWithin
    <3>. QED BY <1>1, <3>1, <3>2, <3>3
  <2>. QED BY <1>1, <2>1, <2>2
<1>. QED BY <1>2, <1>3 DEF OutWithin, newBal, newList

(* A debt that is deepened, or a balance that is no debt before and after. *)
LEMMA SameListWithin ==
    ASSUME NEW bal, NEW list, ListOK(bal, list), OutWithin(bal, list),
           NEW asset \in Assets, NEW x \in Int, bal[asset] < 0 => x <= bal[asset]
    PROVE  OutWithin([bal EXCEPT ![asset] = x], list)
<1>. DEFINE newBal == [bal EXCEPT ![asset] = x]
<1>1. /\ newBal[asset] = x /\ bal \in [Assets -> Int]
      /\ \A a \in Assets \ {asset} : newBal[a] = bal[a]
      /\ \A i \in 1 .. Len(list) : list[i] \in Liability
  BY ElementOfSeq DEF ListOK
<1>. HIDE DEF newBal
<1>2. ASSUME NEW k \in 1 .. Len(list), list[k].asset # ORN
      PROVE  list[k].outstandingAmount <= -newBal[list[k].asset]
  <2>1. bal[list[k].asset] < 0
    BY <1>2 DEF ListOK, EntryIsDebt
  <2>2. list[k].outstandingAmount <= -bal[list[k].asset]
    BY <1>2 DEF OutWithin
  <2>3. list[k].asset \in Assets /\ list[k].outstandingAmount \in Nat
    BY <1>1 DEF Liability
  <2>4. CASE list[k].asset = asset
    BY <1>1, <2>1, <2>2, <2>3, <2>4
  <2>5. CASE list[k].asset # asset
    BY <1>1, <2>2, <2>3, <2>5
  <2>. QED BY <2>4, <2>5
<1>. QED BY <1>2 DEF OutWithin, newBal

LEMMA UpdatesWithin ==
    ASSUME NEW L, LedgerOK(L), Outstanding(L), NEW M, NEW user \in Users, NEW bal, NEW list,
           Updates(L, M, user, bal, list), OutWithin(bal, list)
    PROVE  Outstanding(M)
<1>1. /\ L.assetBalances \in [Users -> [Assets -> Int]]
      /\ L.liabilities \in [Users -> Seq(Liability)]
  BY DEF LedgerOK, LedgerType
<1>2. /\ M.assetBalances[user] = bal
      /\ M.liabilities[user] = list
      /\ \A u \in Users \ {user} : /\ M.assetBalances[u] = L.assetBalances[u]
                                   /\ M.liabilities[u] = L.liabilities[u]
  BY <1>1 DEF Updates
<1>. QED BY <1>2, Zenon DEF Outstanding

LEMMA CoverWithin ==
    ASSUME NEW L, LedgerOK(L), Outstanding(L), NEW user \in Users, NEW asset \in Assets,
           NEW amount \in Nat, NEW M \in LedgerType, now \in Nat,
           L.assetBalances[user][asset] < 0,
           M.liabilities = L.liabilities,
           M.assetBalances = [L.assetBalances EXCEPT ![user] =
              [L.assetBalances[user] EXCEPT ![asset] = L.assetBalances[user][asset] + amount]],
           NEW x, x = L.assetBalances[user][asset] + amount
    PROVE  Outstanding(coverLiability(M, user, asset, amount, x))
<1>. DEFINE old == L.assetBalances[user]
            bal == [old EXCEPT ![asset] = x]
            list == updateLiability(L.liabilities[user], asset, amount, x)
            N == coverLiability(M, user, asset, amount, x)
<1>1. /\ ListOK(old, L.liabilities[user]) /\ OutWithin(old, L.liabilities[user])
      /\ L \in LedgerType
  BY DEF LedgerOK, Outstanding
<1>2. old[asset] \in Int /\ old[asset] < 0 /\ x = old[asset] + amount /\ x \in Int
  BY <1>1 DEF LedgerType
<1>3. ListOK(bal, list) /\ OutWithin(bal, list)
  <2>. HIDE DEF old
  <2>. QED BY <1>1, <1>2, UpdateOK, UpdateWithin
<1>4. list \in Seq(Liability)
  BY <1>3 DEF ListOK
<1>5. N = [M EXCEPT !.liabilities[user] = list]
  BY DEF coverLiability
<1>. HIDE DEF list
<1>6. Updates(L, N, user, bal, list)
  <2>1. /\ N \in LedgerType
        /\ N.assetBalances = M.assetBalances
        /\ N.liabilities = [M.liabilities EXCEPT ![user] = list]
    <3>. HIDE DEF N
    <3>. QED BY <1>4, <1>5, SetListFields
  <2>. HIDE DEF N
  <2>. QED BY <2>1 DEF Updates
<1>. HIDE DEF bal, N
<1>7. Outstanding(N)
  BY <1>3, <1>6, UpdatesWithin
<1>. QED BY <1>7 DEF N

LEMMA ShortWithin ==
    ASSUME NEW L, LedgerOK(L), Outstanding(L), NEW user \in Users, NEW asset \in Assets,
           NEW x \in Int, NEW M \in LedgerType, now \in Nat,
           L.assetBalances[user][asset] >= 0, x < 0,
           M.liabilities = L.liabilities,
           M.assetBalances = [L.assetBalances EXCEPT ![user] =
                                [L.assetBalances[user] EXCEPT ![asset] = x]]
    PROVE  Outstanding(setLiability(M, user, asset, x))
<1>. DEFINE old == L.assetBalances[user]
            bal == [old EXCEPT ![asset] = x]
            entry == [asset |-> asset, timestamp |-> now, outstandingAmount |-> -x]
            list == Append(L.liabilities[user], entry)
            N == setLiability(M, user, asset, x)
<1>1. /\ ListOK(old, L.liabilities[user]) /\ OutWithin(old, L.liabilities[user])
      /\ old[asset] >= 0
  BY DEF LedgerOK, Outstanding
<1>2. entry \in Liability /\ entry.asset = asset /\ entry.outstandingAmount = -x
  BY DEF Liability
<1>3. ListOK(bal, list) /\ OutWithin(bal, list)
  <2>. HIDE DEF old, entry
  <2>. QED BY <1>1, <1>2, PushOK, PushWithin
<1>4. list \in Seq(Liability)
  BY <1>3 DEF ListOK
<1>5. N = [M EXCEPT !.liabilities[user] = list]
  BY DEF setLiability
<1>6. /\ N \in LedgerType
      /\ N.assetBalances = M.assetBalances
      /\ N.liabilities = [M.liabilities EXCEPT ![user] = list]
  <2>. HIDE DEF N, list
  <2>. QED BY <1>4, <1>5, SetListFields
<1>7. Updates(L, N, user, bal, list)
  <2>. HIDE DEF N, list
  <2>. QED BY <1>6 DEF Updates
<1>. HIDE DEF bal, list, N
<1>8. Outstanding(N)
  BY <1>3, <1>7, UpdatesWithin
<1>. QED BY <1>8 DEF N

LEMMA SameWithin ==
    ASSUME NEW L, LedgerOK(L), Outstanding(L), NEW user \in Users, NEW asset \in Assets,
           NEW x \in Int, NEW M \in LedgerType,
           L.assetBalances[user][asset] < 0 => x <= L.assetBalances[user][asset],
           M.liabilities = L.liabilities,
           M.assetBalances = [L.assetBalances EXCEPT ![user] =
                                [L.assetBalances[user] EXCEPT ![asset] = x]]
    PROVE  Outstanding(M)
<1>. DEFINE old == L.assetBalances[user]
            bal == [old EXCEPT ![asset] = x]
            list == L.liabilities[user]
<1>1. /\ ListOK(old, list) /\ OutWithin(old, list) /\ L \in LedgerType
      /\ old[asset] < 0 => x <= old[asset]
  BY DEF LedgerOK, Outstanding
<1>2. OutWithin(bal, list)
  <2>. HIDE DEF old, list
  <2>. QED BY <1>1, SameListWithin
<1>3. M.liabilities = [L.liabilities EXCEPT ![user] = list]
  BY <1>1 DEF LedgerType
<1>4. Updates(L, M, user, bal, list)
  BY <1>3 DEF Updates
<1>. HIDE DEF bal, list
<1>. QED BY <1>2, <1>4, UpdatesWithin

(* A change of tokens only, or of nothing the bound is about. *)
LEMMA TokensWithin ==
    ASSUME NEW L, Outstanding(L), NEW M,
           M.assetBalances = L.assetBalances, M.liabilities = L.liabilities
    PROVE  Outstanding(M)
BY DEF Outstanding

LEMMA UpdateBalanceWithin ==
    ASSUME NEW L, LedgerOK(L), Outstanding(L), NEW user \in Users, NEW asset \in Assets,
           NEW amount \in Int, now \in Nat
    PROVE  Outstanding(_updateBalance(L, user, asset, amount).ledger)
<1>. DEFINE before == L.assetBalances[user][asset]
            after == before + amount
            short == before >= 0 /\ after < 0
            updated == AddBalance(L, user, asset, amount)
            checked == Require(L, asset = ETH \/ FitsInt112(DecimalToBaseUnit(asset, -after)))
            result == _updateBalance(L, user, asset, amount)
            M == result.ledger
<1>1. L \in LedgerType /\ before \in Int /\ after \in Int
  BY DEF LedgerOK, LedgerType
<1>2. /\ checked \in LedgerType
      /\ checked.assetBalances = L.assetBalances
      /\ checked.liabilities = L.liabilities
  <2>1. (asset = ETH \/ FitsInt112(DecimalToBaseUnit(asset, -after))) \in BOOLEAN
    BY DEF FitsInt112
  <2>. QED BY <1>1, <2>1, RequireFields
<1>3. /\ updated \in LedgerType
      /\ updated.liabilities = L.liabilities
      /\ updated.assetBalances = [L.assetBalances EXCEPT ![user] =
                                    [L.assetBalances[user] EXCEPT ![asset] = after]]
  <2>1. L \in LedgerType
    BY <1>1
  <2>. QED BY <2>1, AddBalanceFields
<1>4. CASE amount > 0 /\ before < 0
  <2>1. result = [ledger |-> coverLiability(updated, user, asset, amount, after),
                  fromWallet |-> FALSE]
    BY <1>1, <1>4, UpdateBalanceCases
  <2>2. M = coverLiability(updated, user, asset, amount, after)
    BY <2>1
  <2>3. amount \in Nat
    BY <1>4
  <2>4. Outstanding(M)
    <3>. HIDE DEF M, updated
    <3>. QED BY <1>3, <1>4, <2>2, <2>3, CoverWithin
  <2>. QED BY <2>4
<1>5. CASE short /\ CanPull(L, user, asset, -after)
  <2>. DEFINE pulled == _tryDeposit(checked, user, asset, -after)
              base == DecimalToBaseUnit(asset, -after)
  <2>1. result = [ledger |-> AddBalance(pulled, user, asset, -before),
                  fromWallet |-> before = 0]
    BY <1>1, <1>5, UpdateBalanceCases
  <2>2. M = AddBalance(pulled, user, asset, -before)
    BY <2>1
  <2>3. base \in Nat
    BY <1>1, <1>5, ConversionNat
  <2>4. CanReceive(checked, user, asset, base)
    BY <1>1, <1>5, RequireFields DEF CanPull, CanReceive, FitsInt112
  <2>5. /\ pulled \in LedgerType
        /\ pulled.assetBalances = L.assetBalances
        /\ pulled.liabilities = L.liabilities
    <3>1. pulled = Receive(checked, user, asset, base)
      BY DEF _tryDeposit
    <3>. HIDE DEF pulled, checked, base
    <3>. QED BY <1>2, <2>3, <2>4, <3>1, ReceiveFields
  <2>6. /\ M \in LedgerType
        /\ M.liabilities = L.liabilities
        /\ M.assetBalances = [L.assetBalances EXCEPT ![user] =
                                [L.assetBalances[user] EXCEPT ![asset] = 0]]
    <3>1. -before \in Int /\ before + (-before) = 0
      BY <1>1
    <3>. HIDE DEF pulled, M
    <3>. QED BY <2>2, <2>5, <3>1, AddBalanceFields
  <2>7. Outstanding(M)
    <3>1. before < 0 => 0 <= before
      BY <1>1, <1>5
    <3>. HIDE DEF M
    <3>. QED BY <2>6, <3>1, SameWithin
  <2>. QED BY <2>7
<1>6. CASE short /\ ~CanPull(L, user, asset, -after)
  <2>. DEFINE added == AddBalance(checked, user, asset, amount)
  <2>1. result = [ledger |-> setLiability(added, user, asset, after), fromWallet |-> FALSE]
    BY <1>1, <1>6, UpdateBalanceCases
  <2>2. M = setLiability(added, user, asset, after)
    BY <2>1
  <2>3. /\ added \in LedgerType
        /\ added.liabilities = L.liabilities
        /\ added.assetBalances = [L.assetBalances EXCEPT ![user] =
                                    [L.assetBalances[user] EXCEPT ![asset] = after]]
    <3>. HIDE DEF checked
    <3>. QED BY <1>2, AddBalanceFields
  <2>4. Outstanding(M)
    <3>. HIDE DEF M, added
    <3>. QED BY <1>1, <1>6, <2>2, <2>3, ShortWithin
  <2>. QED BY <2>4
<1>7. CASE ~short /\ ~(amount > 0 /\ before < 0)
  <2>1. result = [ledger |-> updated, fromWallet |-> FALSE]
    BY <1>1, <1>7, UpdateBalanceCases
  <2>2. M = updated
    BY <2>1
  <2>3. before < 0 => after <= before
    BY <1>1, <1>7
  <2>4. Outstanding(M)
    <3>1. after \in Int
      BY <1>1
    <3>. HIDE DEF updated, after, M
    <3>. QED BY <1>3, <2>2, <2>3, <3>1, SameWithin
  <2>. QED BY <2>4
<1>. QED BY <1>4, <1>5, <1>6, <1>7

LEMMA DebitWithin ==
    ASSUME NEW L, LedgerOK(L), Outstanding(L), NEW order \in OrderType,
           NEW isSeller \in BOOLEAN, NEW amountBase \in Nat, NEW amountQuote \in Nat,
           NEW fee \in Nat, now \in Nat
    PROVE  LET D == updateOrderBalanceDebit(L, order, isSeller, amountBase, amountQuote, fee)
           IN Outstanding(D.ledger)
<1>. DEFINE user == order.senderAddress
            assetOut == IF isSeller THEN order.baseAsset ELSE order.quoteAsset
            assetIn == IF isSeller THEN order.quoteAsset ELSE order.baseAsset
            amountOut == IF isSeller THEN amountBase ELSE amountQuote
            amountIn == IF isSeller THEN amountQuote ELSE amountBase
            feeOut == order.matcherFeeAsset = assetOut
            feeIn == ~feeOut /\ order.matcherFeeAsset = assetIn
            paid == IF feeOut \/ feeIn THEN [ledger |-> L, fromWallet |-> TRUE]
                    ELSE _updateBalance(L, user, order.matcherFeeAsset, -fee)
            debit == -amountOut - (IF feeOut THEN fee ELSE 0)
            debited == _updateBalance(paid.ledger, user, assetOut, debit)
            matched == _updateBalance(debited.ledger, order.matcherAddress,
                                      order.matcherFeeAsset, fee)
            D == updateOrderBalanceDebit(L, order, isSeller, amountBase, amountQuote, fee)
<1>1. /\ user \in Users /\ order.matcherAddress \in Users
      /\ order.matcherFeeAsset \in Assets /\ assetOut \in Assets
      /\ debit \in Int /\ -fee \in Int /\ fee \in Int
  BY DEF OrderType
<1>2. D = IF amountBase = 0 THEN [ledger |-> L, fromWallet |-> FALSE, actualIn |-> 0]
          ELSE [ledger |-> matched.ledger,
                fromWallet |-> paid.fromWallet /\ debited.fromWallet,
                actualIn |-> amountIn - (IF feeIn THEN fee ELSE 0)]
  BY DEF updateOrderBalanceDebit
<1>. HIDE DEF user, assetOut, amountOut, amountIn, debit, D
<1>3. LedgerOK(paid.ledger) /\ Outstanding(paid.ledger)
  <2>1. CASE feeOut \/ feeIn
    BY <2>1
  <2>2. CASE ~ (feeOut \/ feeIn)
    <3>1. paid = _updateBalance(L, user, order.matcherFeeAsset, -fee)
      BY <2>2
    <3>. HIDE DEF paid
    <3>. QED BY <1>1, <3>1, UpdateBalanceOK, UpdateBalanceWithin
  <2>. QED BY <2>1, <2>2
<1>. HIDE DEF paid
<1>4. LedgerOK(debited.ledger) /\ Outstanding(debited.ledger)
  BY <1>1, <1>3, UpdateBalanceOK, UpdateBalanceWithin
<1>. HIDE DEF debited
<1>5. Outstanding(matched.ledger)
  BY <1>1, <1>4, UpdateBalanceWithin
<1>. HIDE DEF matched
<1>6. Outstanding(D.ledger)
  <2>1. D.ledger = IF amountBase = 0 THEN L ELSE matched.ledger
    BY <1>2
  <2>. QED BY <1>5, <2>1
<1>. QED BY <1>6 DEF D

LEMMA CreditWithin ==
    ASSUME NEW L, LedgerOK(L), Outstanding(L), NEW fromWallet, NEW user \in Users,
           NEW amount \in Int, NEW asset \in Assets, now \in Nat
    PROVE  Outstanding(creditUserAssets(L, fromWallet, user, amount, asset))
<1>. DEFINE before == L.assetBalances[user][asset]
            remaining == amount + before
            base == DecimalToBaseUnit(asset, remaining)
            toWallet == fromWallet /\ remaining > 0 /\ before <= 0
            checked == Require(L, toWallet => FitsInt112(base))
            sent == toWallet /\ L.held[asset] >= base
            toUpdate == IF sent THEN -before ELSE amount
            paid == IF sent THEN Send(checked, user, asset, base) ELSE checked
            M == creditUserAssets(L, fromWallet, user, amount, asset)
<1>1. L \in LedgerType /\ before \in Int /\ toUpdate \in Int
  BY DEF LedgerOK, LedgerType
<1>2. /\ checked \in LedgerType
      /\ checked.assetBalances = L.assetBalances
      /\ checked.liabilities = L.liabilities
      /\ checked.held = L.held
  <2>1. (toWallet => FitsInt112(base)) \in BOOLEAN
    OBVIOUS
  <2>. QED BY <1>1, <2>1, RequireFields
<1>3. /\ paid \in LedgerType
      /\ paid.assetBalances = L.assetBalances
      /\ paid.liabilities = L.liabilities
  <2>1. CASE sent
    <3>1. base \in Nat
      BY <1>1, <2>1, ConversionNat
    <3>2. paid = Send(checked, user, asset, base) /\ checked.held[asset] >= base
      BY <1>2, <2>1
    <3>. HIDE DEF checked, paid, base
    <3>. QED BY <1>2, <3>1, <3>2, SendFields
  <2>2. CASE ~sent
    BY <1>2, <2>2
  <2>. QED BY <2>1, <2>2
<1>4. M = IF toUpdate = 0 THEN paid ELSE _updateBalance(paid, user, asset, toUpdate).ledger
  BY DEF creditUserAssets
<1>. HIDE DEF paid, toUpdate, M
<1>5. LedgerOK(paid) /\ Outstanding(paid)
  BY <1>3, TokensWithin DEF LedgerOK
<1>6. Outstanding(_updateBalance(paid, user, asset, toUpdate).ledger)
  BY <1>1, <1>5, UpdateBalanceWithin
<1>7. Outstanding(M)
  BY <1>4, <1>5, <1>6
<1>. QED BY <1>7 DEF M

LEMMA GeneralDepositWithin ==
    ASSUME NEW L, LedgerOK(L), Outstanding(L), NEW user \in Users, NEW asset \in Assets,
           NEW amount \in Nat, now \in Nat
    PROVE  Outstanding(generalDeposit(L, user, asset, amount))
<1>. DEFINE before == L.assetBalances[user][asset]
            decimal == BaseUnitToDecimal(asset, amount)
            plain == AddBalance(L, user, asset, decimal)
            added == Require(plain, FitsInt112(decimal))
            after == before + decimal
            M == generalDeposit(L, user, asset, amount)
<1>1. L \in LedgerType /\ before \in Int /\ decimal \in Nat
  BY ConversionNat DEF LedgerOK, LedgerType
<1>2. decimal \in Int /\ after \in Int /\ FitsInt112(decimal) \in BOOLEAN
  BY <1>1 DEF FitsInt112
<1>3. /\ added \in LedgerType
      /\ added.liabilities = L.liabilities
      /\ added.assetBalances = [L.assetBalances EXCEPT ![user] =
                                  [L.assetBalances[user] EXCEPT ![asset] = after]]
  <2>. HIDE DEF decimal
  <2>1. /\ plain \in LedgerType
        /\ plain.liabilities = L.liabilities
        /\ plain.assetBalances = [L.assetBalances EXCEPT ![user] =
                                    [L.assetBalances[user] EXCEPT ![asset] = after]]
    <3>. L \in LedgerType /\ decimal \in Int
      BY <1>1, <1>2
    <3>. QED BY AddBalanceFields
  <2>. HIDE DEF plain
  <2>2. /\ added \in LedgerType
        /\ added.liabilities = plain.liabilities
        /\ added.assetBalances = plain.assetBalances
    BY <1>2, <2>1, RequireFields
  <2>. QED BY <2>1, <2>2
<1>4. added.assetBalances[user][asset] = after
  BY <1>1, <1>3 DEF LedgerType
<1>5. M = IF before < 0 THEN coverLiability(added, user, asset, decimal, after) ELSE added
  BY <1>4, Zenon DEF generalDeposit
<1>. HIDE DEF added, after, M, decimal
<1>6. Outstanding(M)
  <2>1. CASE before < 0
    <3>1. M = coverLiability(added, user, asset, decimal, after)
      BY <1>5, <2>1
    <3>2. after = L.assetBalances[user][asset] + decimal
      BY DEF after
    <3>. QED BY <1>1, <1>3, <2>1, <3>1, <3>2, CoverWithin
  <2>2. CASE ~ (before < 0)
    <3>1. M = added
      BY <1>5, <2>2
    <3>2. Outstanding(added)
      BY <1>2, <1>3, <2>2, SameWithin
    <3>. QED BY <3>1, <3>2
  <2>. QED BY <2>1, <2>2
<1>. QED BY <1>6 DEF M

LEMMA SettleWithin ==
    ASSUME LedgerOK(Ledger), Outstanding(Ledger), now \in Nat,
           NEW buy \in OrderType, NEW sell \in OrderType, buy.amount > 0, sell.amount > 0,
           NEW filledAmount \in Nat, NEW amountQuote \in Nat
    PROVE  Outstanding(Settle(buy, sell, filledAmount, amountQuote))
<1>. DEFINE buyer == buy.senderAddress
            seller == sell.senderAddress
            buyFee == MatcherFee(buy, filledAmount)
            sellFee == MatcherFee(sell, filledAmount)
            bought == updateOrderBalanceDebit(Ledger, buy, FALSE, filledAmount,
                                              amountQuote, buyFee)
            sold == updateOrderBalanceDebit(bought.ledger, sell, TRUE, filledAmount,
                                            amountQuote, sellFee)
            buyerCredited == creditUserAssets(sold.ledger, bought.fromWallet, buyer,
                                              bought.actualIn, buy.baseAsset)
            M == creditUserAssets(buyerCredited, sold.fromWallet, seller,
                                  sold.actualIn, sell.quoteAsset)
<1>1. /\ buyer \in Users /\ seller \in Users
      /\ buy.baseAsset \in Assets /\ sell.quoteAsset \in Assets
  BY DEF OrderType
<1>2. buyFee \in Nat /\ sellFee \in Nat
  BY MatcherFeeNat
<1>. HIDE DEF buyer, seller, buyFee, sellFee
<1>3. LedgerOK(bought.ledger) /\ bought.actualIn \in Int /\ Outstanding(bought.ledger)
  BY <1>2, DebitOK, DebitWithin
<1>. HIDE DEF bought
<1>4. LedgerOK(sold.ledger) /\ sold.actualIn \in Int /\ Outstanding(sold.ledger)
  BY <1>2, <1>3, DebitOK, DebitWithin
<1>. HIDE DEF sold
<1>5. LedgerOK(buyerCredited) /\ Outstanding(buyerCredited)
  BY <1>1, <1>3, <1>4, CreditOK, CreditWithin
<1>. HIDE DEF buyerCredited
<1>6. Outstanding(M)
  BY <1>1, <1>4, <1>5, CreditWithin
<1>7. M = Settle(buy, sell, filledAmount, amountQuote)
  BY Zenon DEF Settle, bought, sold, buyerCredited, buyer, seller, buyFee, sellFee
<1>. HIDE DEF M
<1>. QED BY <1>6, <1>7

Bounded == \A u \in Users : OutWithin(assetBalances[u], liabilities[u])

LEMMA CommitWithin ==
    ASSUME NEW L, Outstanding(L), Commit(L)
    PROVE  Bounded'
BY DEF Outstanding, Commit, Bounded

(* Nothing moves but ORN. *)
LEMMA OrnWithin ==
    ASSUME IInv, Bounded, UNCHANGED liabilities,
           \A u \in Users, a \in Assets \ {ORN} : assetBalances'[u][a] = assetBalances[u][a]
    PROVE  Bounded'
<1>. SUFFICES ASSUME NEW u \in Users, NEW i \in 1 .. Len(liabilities[u]),
                     liabilities[u][i].asset # ORN
              PROVE  liabilities[u][i].outstandingAmount
                        <= -assetBalances'[u][liabilities[u][i].asset]
  BY DEF Bounded, OutWithin
<1>1. liabilities[u][i] \in Liability
  <2>1. liabilities[u] \in Seq(Liability)
    BY DEF IInv, TypeOK, StorageTypeOK
  <2>. QED BY <2>1, ElementOfSeq
<1>2. liabilities[u][i].asset \in Assets \ {ORN}
  BY <1>1 DEF Liability
<1>3. liabilities[u][i].outstandingAmount <= -assetBalances[u][liabilities[u][i].asset]
  BY DEF Bounded, OutWithin
<1>. QED BY <1>2, <1>3

LEMMA DepositBounded ==
    ASSUME IInv, Bounded, NEW user \in Users, NEW asset \in Assets, NEW amount \in Nat,
           Deposit(user, asset, amount)
    PROVE  Bounded'
<1>. DEFINE received == Receive(Ledger, user, asset, amount)
            L == generalDeposit(received, user, asset, amount)
<1>1. /\ received \in LedgerType
      /\ received.assetBalances = Ledger.assetBalances
      /\ received.liabilities = Ledger.liabilities
  BY LedgerIsOK, ReceiveFields DEF Deposit
<1>2. Outstanding(Ledger)
  BY DEF Bounded, Outstanding, Ledger
<1>3. LedgerOK(received) /\ Outstanding(received)
  BY <1>1, <1>2, LedgerIsOK, TokensWithin DEF LedgerOK
<1>4. Commit(L) /\ now \in Nat
  BY DEF Deposit, IInv, TypeOK, OracleTypeOK
<1>. HIDE DEF received
<1>5. Outstanding(L)
  BY <1>3, <1>4, GeneralDepositWithin
<1>. QED BY <1>4, <1>5, CommitWithin

(* A withdrawal leaves a balance that is no debt. *)
LEMMA WithdrawBounded ==
    ASSUME IInv, Bounded, NEW user \in Users, NEW asset \in Assets, NEW amount \in Nat,
           Withdraw(user, asset, amount)
    PROVE  Bounded'
<1>. DEFINE decimal == BaseUnitToDecimal(asset, amount)
            minus == -decimal
            x == Ledger.assetBalances[user][asset] + minus
            debited == AddBalance(Ledger, user, asset, minus)
            L == Send(debited, user, asset, amount)
<1>1. Commit(L) /\ Ledger.assetBalances[user][asset] >= decimal /\ Ledger.held[asset] >= amount
  BY DEF Withdraw, Ledger
<1>2. decimal \in Nat
  BY ConversionNat
<1>. HIDE DEF decimal
<1>3. Ledger \in LedgerType /\ LedgerOK(Ledger) /\ Outstanding(Ledger)
  BY LedgerIsOK DEF Bounded, Outstanding, Ledger
<1>4. Ledger.assetBalances[user][asset] \in Int
  BY <1>3 DEF LedgerType
<1>5. /\ minus \in Int /\ x \in Int
      /\ Ledger.assetBalances[user][asset] < 0 => x <= Ledger.assetBalances[user][asset]
  BY <1>1, <1>2, <1>4
<1>. HIDE DEF minus
<1>6. /\ debited \in LedgerType
      /\ debited.assetBalances = [Ledger.assetBalances EXCEPT ![user] =
                                    [Ledger.assetBalances[user] EXCEPT ![asset] = x]]
      /\ debited.liabilities = Ledger.liabilities
      /\ debited.held = Ledger.held
  BY <1>3, <1>5, AddBalanceFields
<1>. HIDE DEF debited, x
<1>7. Outstanding(debited)
  BY <1>3, <1>5, <1>6, SameWithin
<1>8. /\ L.assetBalances = debited.assetBalances
      /\ L.liabilities = debited.liabilities
  BY <1>1, <1>6, SendFields
<1>. HIDE DEF L
<1>. QED BY <1>1, <1>7, <1>8, TokensWithin, CommitWithin

LEMMA FillOrdersBounded ==
    ASSUME IInv, Bounded, NEW sender \in Users, NEW buy \in Orders, NEW sell \in Orders,
           NEW filledPrice \in Nat, NEW filledAmount \in Nat,
           FillOrders(sender, buy, sell, filledPrice, filledAmount)
    PROVE  Bounded'
<1>. DEFINE amountQuote == (filledAmount * filledPrice) \div Unit
            L == Settle(buy, sell, filledAmount, amountQuote)
<1>1. buy \in OrderType /\ sell \in OrderType
  BY StorageAssumption DEF StorageAssumption
<1>2. amountQuote \in Nat
  BY UnitAssumption, ProductNat, DivNat DEF UnitAssumption
<1>3. buy.amount > 0 /\ sell.amount > 0 /\ Commit(L)
  BY DEF FillOrders
<1>. HIDE DEF amountQuote
<1>4. LedgerOK(Ledger) /\ Outstanding(Ledger) /\ now \in Nat
  BY LedgerIsOK DEF Bounded, Outstanding, Ledger, IInv, TypeOK, OracleTypeOK
<1>5. Outstanding(L)
  BY <1>1, <1>2, <1>3, <1>4, SettleWithin
<1>. QED BY <1>3, <1>5, CommitWithin

LEMMA NextBounded ==
    ASSUME NoLiquidations, IInv, Bounded, [Next]_vars
    PROVE  Bounded'
<1>1. assetBalances \in [Users -> [Assets -> Int]] /\ ORN \in Assets
  BY StorageAssumption DEF StorageAssumption, IInv, TypeOK, StorageTypeOK
<1>2. CASE UNCHANGED <<assetBalances, liabilities>>
  BY <1>2 DEF Bounded
<1>3. CASE UserStep
  <2>1. PICK u \in Users :
           \/ \E a \in Assets : \E x \in DepositAmounts[u][a] : Deposit(u, a, x)
           \/ \E a \in Assets : \E x \in WithdrawAmounts[u][a] : Withdraw(u, a, x)
           \/ \E a \in Assets : \E x \in ApproveAmounts[u][a] : Approve(u, a, x)
           \/ \E x \in StakeAmounts[u] : LockStake(u, x)
           \/ RequestReleaseStake(u)
           \/ \E b \in Users, a \in Assets : \E x \in LiquidationAmounts[u][a] :
                 PartiallyLiquidate(u, b, a, x)
    BY <1>3 DEF UserStep
  <2>2. ASSUME NEW a \in Assets, NEW x \in DepositAmounts[u][a], Deposit(u, a, x)
        PROVE  Bounded'
    BY <2>2, InputsNat, DepositBounded
  <2>3. ASSUME NEW a \in Assets, NEW x \in WithdrawAmounts[u][a], Withdraw(u, a, x)
        PROVE  Bounded'
    BY <2>3, InputsNat, WithdrawBounded
  <2>4. ASSUME NEW a \in Assets, NEW x \in ApproveAmounts[u][a], Approve(u, a, x)
        PROVE  Bounded'
    BY <1>2, <2>4 DEF Approve
  <2>5. CASE (\E x \in StakeAmounts[u] : LockStake(u, x)) \/ CollectStake(u)
    <3>1. /\ UNCHANGED liabilities
          /\ \E y : assetBalances' = [assetBalances EXCEPT ![u][ORN] = y]
      BY <2>5 DEF LockStake, CollectStake, vaultUnchanged
    <3>. QED BY <1>1, <3>1, OrnWithin
  <2>6. CASE StartRelease(u)
    BY <1>2, <2>6 DEF StartRelease, vaultUnchanged
  <2>7. ~ \E b \in Users, a \in Assets : \E x \in LiquidationAmounts[u][a] :
              PartiallyLiquidate(u, b, a, x)
    BY DEF NoLiquidations
  <2>. QED BY <2>1, <2>2, <2>3, <2>4, <2>5, <2>6, <2>7 DEF RequestReleaseStake
<1>4. CASE MatcherStep
  <2>1. PICK m \in Users, buy \in Orders, sell \in Orders, p \in FillPrices, x \in FillAmounts :
           FillOrders(m, buy, sell, p, x)
    BY <1>4 DEF MatcherStep
  <2>2. p \in Nat /\ x \in Nat
    BY ExchangeAssumption DEF ExchangeAssumption
  <2>. QED BY <2>1, <2>2, FillOrdersBounded
<1>5. CASE OracleStep
  BY <1>2, <1>5 DEF OracleStep, ledgerVars
<1>6. CASE OwnerStep
  BY <1>2, <1>6 DEF OwnerStep, UpdateMarginalSettings, UpdateAssetRisks, ledgerVars,
                    PostponeStakeRelease, AllowStakeRelease, SetPhase, vaultUnchanged
<1>7. CASE UNCHANGED vars
  BY <1>2, <1>7 DEF vars
<1>. QED BY <1>3, <1>4, <1>5, <1>6, <1>7 DEF Next

LEMMA InitBounded == Init => Bounded
<1>. SUFFICES ASSUME Init, NEW u \in Users PROVE Len(liabilities[u]) = 0
  BY DEF Bounded, OutWithin
<1>. QED BY EmptySeq DEF Init, StorageInit

(* Where nobody is liquidated, what is still outstanding of the debt that a clock was
   started for is never more than the debt: each cover takes from outstandingAmount what
   it adds to the balance or restarts it at the whole debt, pulls from wallets leave no
   debt, and swapping entries on removal never gives an amount to another debt. *)
THEOREM OutstandingIsOwed == NoLiquidations => (Spec => []OutstandingWithinDebt)
<1>. SUFFICES ASSUME NoLiquidations PROVE Spec => []OutstandingWithinDebt
  OBVIOUS
<1>1. (IInv /\ Bounded) /\ [Next]_vars => (IInv /\ Bounded)'
  BY NextInv, NextBounded
<1>2. Init => IInv /\ Bounded
  BY InitInv, InitBounded
<1>3. IInv /\ Bounded => OutstandingWithinDebt
  <2>. SUFFICES ASSUME IInv, Bounded, NEW u \in Users, NEW i \in DOMAIN liabilities[u],
                       liabilities[u][i].asset # ORN
                PROVE  liabilities[u][i].outstandingAmount
                          <= -assetBalances[u][liabilities[u][i].asset]
    BY DEF OutstandingWithinDebt
  <2>1. liabilities[u] \in Seq(Liability)
    BY DEF IInv, TypeOK, StorageTypeOK
  <2>2. i \in 1 .. Len(liabilities[u])
    BY <2>1, LenProperties
  <2>. QED BY <2>2 DEF Bounded, OutWithin
<1>. QED BY <1>1, <1>2, <1>3, PTL DEF Spec

-------------------------------------------------------------------------------
(***************************************************************************)
(* The clock of a debt.  What a part of a transaction does to one balance  *)
(* and the entry of its debt: a credit takes from outstandingAmount what   *)
(* it adds, or, when that is all of it, restarts the clock; a debit leaves *)
(* the entry as it is.  Credits of one asset chain, so that the rule holds *)
(* of a transaction that does not both take and give the same asset.       *)
(***************************************************************************)

(* Orders that match are of two users, neither of them the matcher, who
   exchange two assets. *)
PlainTrades ==
    \A buy, sell \in SignedOrders :
        /\ buy.buySide = kBuy /\ sell.buySide = kSell
        /\ buy.baseAsset = sell.baseAsset /\ buy.quoteAsset = sell.quoteAsset
        /\ buy.matcherAddress = sell.matcherAddress
        /\ sell.price <= buy.price
        => /\ buy.senderAddress # sell.senderAddress
           /\ buy.matcherAddress \notin {buy.senderAddress, sell.senderAddress}
           /\ buy.baseAsset # buy.quoteAsset

(* The entries of an asset in a list. *)
EntriesOf(list, a) == {list[i] : i \in {j \in 1 .. Len(list) : list[j].asset = a}}

(* Every entry is the one entry of a debt, those of ORN included. *)
EntryOnce(bal, list) ==
    \A i \in 1 .. Len(list) :
        /\ bal[list[i].asset] < 0
        /\ \A j \in 1 .. Len(list) : list[j].asset = list[i].asset => i = j

EntriesOnce(L) == \A u \in Users : EntryOnce(L.assetBalances[u], L.liabilities[u])

(* The entry after a credit of so much. *)
Follows(old, new, change) ==
    \/ /\ new.timestamp = old.timestamp
       /\ new.outstandingAmount = old.outstandingAmount - change
       /\ change = 0 \/ new.outstandingAmount > 0
    \/ /\ new.timestamp = now
       /\ change >= old.outstandingAmount

Untouched(L, M, u, a) ==
    /\ M.assetBalances[u][a] = L.assetBalances[u][a]
    /\ EntriesOf(M.liabilities[u], a) = EntriesOf(L.liabilities[u], a)

Covers(L, M, u, a) ==
    /\ M.assetBalances[u][a] >= L.assetBalances[u][a]
    /\ \A old \in EntriesOf(L.liabilities[u], a), new \in EntriesOf(M.liabilities[u], a) :
          Follows(old, new, M.assetBalances[u][a] - L.assetBalances[u][a])

Deepens(L, M, u, a) ==
    /\ M.assetBalances[u][a] <= L.assetBalances[u][a]
    /\ \A old \in EntriesOf(L.liabilities[u], a), new \in EntriesOf(M.liabilities[u], a) :
          new = old

(* A list without duplicates has one entry of an asset. *)
LEMMA OneEntry ==
    ASSUME NEW bal, NEW list, EntryOnce(bal, list), NEW a,
           NEW old \in EntriesOf(list, a), NEW new \in EntriesOf(list, a)
    PROVE  new = old
<1>1. PICK i \in 1 .. Len(list) : list[i].asset = a /\ old = list[i]
  BY DEF EntriesOf
<1>2. PICK j \in 1 .. Len(list) : list[j].asset = a /\ new = list[j]
  BY DEF EntriesOf
<1>3. i = j
  BY <1>1, <1>2 DEF EntryOnce
<1>. QED BY <1>1, <1>2, <1>3

LEMMA NoEntry ==
    ASSUME NEW bal, NEW list, EntryOnce(bal, list), NEW a, bal[a] \in Int, bal[a] >= 0
    PROVE  EntriesOf(list, a) = {}
<1>. SUFFICES ASSUME NEW e \in EntriesOf(list, a) PROVE FALSE
  OBVIOUS
<1>1. PICK i \in 1 .. Len(list) : list[i].asset = a
  BY DEF EntriesOf
<1>2. bal[a] < 0
  BY <1>1 DEF EntryOnce
<1>. QED BY <1>2

LEMMA DebtEntry ==
    ASSUME NEW bal, NEW list, ListOK(bal, list), NEW a \in Assets, bal[a] < 0
    PROVE  \E e \in EntriesOf(list, a) : e \in Liability
<1>1. PICK i \in 1 .. Len(list) : list[i].asset = a
  BY DEF ListOK, EveryDebtListed
<1>2. list[i] \in Liability
  BY ElementOfSeq DEF ListOK
<1>. QED BY <1>1, <1>2 DEF EntriesOf

(* The entry of a paid debt goes, and the others stay, wherever they are moved. *)
LEMMA RemoveOnce ==
    ASSUME NEW bal, NEW list, ListOK(bal, list), EntryOnce(bal, list),
           NEW asset \in Assets, NEW x \in Nat
    PROVE  /\ EntryOnce([bal EXCEPT ![asset] = x], removeLiability(list, asset))
           /\ \A a \in Assets \ {asset} :
                 EntriesOf(removeLiability(list, asset), a) = EntriesOf(list, a)
<1>. DEFINE newBal == [bal EXCEPT ![asset] = x]
            newList == removeLiability(list, asset)
            n == Len(list)
<1>1. /\ \A a \in Assets \ {asset} : newBal[a] = bal[a]
      /\ n \in Nat /\ DOMAIN list = 1 .. n
      /\ \A i \in 1 .. n : list[i] \in Liability
  BY LenProperties, ElementOfSeq DEF ListOK
<1>2. \A i \in 1 .. n : list[i].asset \in Assets
  BY <1>1 DEF Liability
<1>3. CASE Entries(list, asset) = {}
  <2>1. newList = list
    BY <1>3 DEF removeLiability
  <2>2. \A i \in 1 .. n : list[i].asset \in Assets \ {asset}
    BY <1>1, <1>2, <1>3 DEF Entries
  <2>. HIDE DEF newBal, newList, n
  <2>3. EntryOnce(newBal, newList)
    BY <1>1, <2>1, <2>2 DEF EntryOnce, n
  <2>. QED BY <2>1, <2>3 DEF newBal, newList
<1>4. CASE Entries(list, asset) # {}
  <2>1. PICK i \in 1 .. Len(list) :
             /\ list[i].asset = asset
             /\ newList \in Seq(Liability)
             /\ Len(newList) = Len(list) - 1
             /\ \A k \in 1 .. Len(list) - 1 :
                   newList[k] = IF k = i THEN list[Len(list)] ELSE list[k]
    BY <1>4, RemoveEntry DEF ListOK
  <2>. DEFINE from(k) == IF k = i THEN n ELSE k
  <2>2. Len(newList) = n - 1 /\ n \in Nat /\ i \in 1 .. n
    BY <1>1, <2>1
  <2>3. ASSUME NEW k \in 1 .. n - 1
        PROVE  from(k) \in 1 .. n /\ from(k) # i /\ newList[k] = list[from(k)]
    <3>1. from(k) \in 1 .. n /\ from(k) # i
      BY <2>2
    <3>2. newList[k] = list[from(k)]
      BY <2>1
    <3>. QED BY <3>1, <3>2
  <2>4. \A j, k \in 1 .. n - 1 : from(j) = from(k) => j = k
    BY <2>2
  <2>5. ASSUME NEW j \in 1 .. n, j # i
        PROVE  \E k \in 1 .. n - 1 : from(k) = j
    <3>1. CASE j = n
      <4>1. i \in 1 .. n - 1 /\ from(i) = j
        BY <2>2, <2>5, <3>1
      <4>. QED BY <4>1
    <3>2. CASE j # n
      <4>1. j \in 1 .. n - 1 /\ from(j) = j
        BY <2>2, <2>5, <3>2
      <4>. QED BY <4>1
    <3>. QED BY <3>1, <3>2
  <2>. HIDE DEF newBal, newList, n, from
  <2>6. ASSUME NEW j \in 1 .. n, j # i
        PROVE  list[j].asset \in Assets \ {asset}
    BY <1>2, <2>1, <2>2, <2>6 DEF EntryOnce, n
  <2>7. EntryOnce(newBal, newList)
    <3>. SUFFICES ASSUME NEW k \in 1 .. n - 1
                  PROVE  /\ newBal[newList[k].asset] < 0
                         /\ \A j \in 1 .. n - 1 : newList[j].asset = newList[k].asset => k = j
      BY <2>2 DEF EntryOnce
    <3>1. /\ bal[list[from(k)].asset] < 0
          /\ \A j \in 1 .. n : list[j].asset = list[from(k)].asset => from(k) = j
      BY <2>3 DEF EntryOnce, n
    <3>2. list[from(k)].asset \in Assets \ {asset}
      BY <2>3, <2>6
    <3>. QED BY <1>1, <2>3, <2>4, <3>1, <3>2
  <2>8. ASSUME NEW a \in Assets \ {asset}
        PROVE  EntriesOf(newList, a) = EntriesOf(list, a)
    <3>1. ASSUME NEW k \in 1 .. n - 1, newList[k].asset = a
          PROVE  newList[k] \in EntriesOf(list, a)
      BY <2>3, <3>1 DEF EntriesOf, n
    <3>2. ASSUME NEW j \in 1 .. n, list[j].asset = a
          PROVE  list[j] \in EntriesOf(newList, a)
      <4>1. j # i
        BY <2>1, <3>2
      <4>2. PICK k \in 1 .. n - 1 : from(k) = j
        BY <2>5, <4>1
      <4>3. newList[k] = list[j] /\ k \in 1 .. Len(newList)
        BY <2>2, <2>3, <4>2
      <4>. QED BY <3>2, <4>3 DEF EntriesOf
    <3>. QED BY <2>2, <3>1, <3>2 DEF EntriesOf, n
  <2>. QED BY <2>7, <2>8 DEF newBal, newList
<1>. QED BY <1>3, <1>4

(* A cover of a debt follows the rule. *)
LEMMA UpdateOnce ==
    ASSUME NEW bal, NEW list, ListOK(bal, list), EntryOnce(bal, list),
           NEW asset \in Assets, NEW amount \in Nat, NEW x \in Int, x = bal[asset] + amount,
           bal[asset] < 0, now \in Nat
    PROVE  /\ EntryOnce([bal EXCEPT ![asset] = x], updateLiability(list, asset, amount, x))
           /\ \A a \in Assets \ {asset} :
                 EntriesOf(updateLiability(list, asset, amount, x), a) = EntriesOf(list, a)
           /\ \A old \in EntriesOf(list, asset),
                 new \in EntriesOf(updateLiability(list, asset, amount, x), asset) :
                    Follows(old, new, amount)
<1>. DEFINE newBal == [bal EXCEPT ![asset] = x]
<1>0. newBal[asset] = x /\ \A a \in Assets \ {asset} : newBal[a] = bal[a]
  BY DEF ListOK
<1>1. CASE x >= 0
  <2>1. x \in Nat
    BY <1>1
  <2>2. updateLiability(list, asset, amount, x) = removeLiability(list, asset)
    BY <1>1 DEF updateLiability
  <2>3. /\ EntryOnce(newBal, removeLiability(list, asset))
        /\ \A a \in Assets \ {asset} :
              EntriesOf(removeLiability(list, asset), a) = EntriesOf(list, a)
    BY <2>1, RemoveOnce
  <2>. HIDE DEF newBal
  <2>4. EntriesOf(removeLiability(list, asset), asset) = {}
    BY <1>0, <1>1, <2>3, NoEntry
  <2>. QED BY <2>2, <2>3, <2>4 DEF newBal
<1>2. CASE x < 0
  <2>. DEFINE i == EntryToUpdate(list, asset)
              entry == list[i]
              newEntry == IF amount >= entry.outstandingAmount
                          THEN [entry EXCEPT !.outstandingAmount = -x, !.timestamp = now]
                          ELSE [entry EXCEPT !.outstandingAmount =
                                                entry.outstandingAmount - amount]
              newList == [list EXCEPT ![i] = newEntry]
  <2>1. PICK k \in 1 .. Len(list) : list[k].asset = asset
    BY DEF ListOK, EveryDebtListed
  <2>2. i \in 1 .. Len(list) /\ entry.asset = asset
    BY <2>1, EntryToUpdateOfDebt DEF ListOK
  <2>3. updateLiability(list, asset, amount, x) = newList
    <3>. ~ (x >= 0)
      BY <1>2
    <3>. QED BY Zenon DEF updateLiability
  <2>. HIDE DEF i
  <2>4. entry \in Liability /\ \A j \in 1 .. Len(list) : list[j].asset \in Assets
    <3>1. \A j \in 1 .. Len(list) : list[j] \in Liability
      BY ElementOfSeq DEF ListOK
    <3>. QED BY <2>2, <3>1 DEF Liability
  <2>. HIDE DEF entry
  <2>5. /\ newEntry \in Liability /\ newEntry.asset = asset
        /\ Follows(entry, newEntry, amount)
    <3>1. CASE amount >= entry.outstandingAmount
      <4>1. newEntry = [entry EXCEPT !.outstandingAmount = -x, !.timestamp = now]
        BY <3>1
      <4>2. -x \in Nat
        BY <1>2
      <4>3. newEntry \in Liability /\ newEntry.asset = asset /\ newEntry.timestamp = now
        BY <2>2, <2>4, <4>1, <4>2 DEF Liability
      <4>. QED BY <3>1, <4>3 DEF Follows
    <3>2. CASE ~ (amount >= entry.outstandingAmount)
      <4>1. newEntry = [entry EXCEPT !.outstandingAmount =
                                           entry.outstandingAmount - amount]
        BY <3>2
      <4>2. entry.outstandingAmount - amount \in Nat /\ entry.outstandingAmount - amount > 0
        BY <2>4, <3>2 DEF Liability
      <4>3. /\ newEntry \in Liability /\ newEntry.asset = asset
            /\ newEntry.timestamp = entry.timestamp
            /\ newEntry.outstandingAmount = entry.outstandingAmount - amount
        BY <2>2, <2>4, <4>1, <4>2 DEF Liability
      <4>. QED BY <4>2, <4>3 DEF Follows
    <3>. QED BY <3>1, <3>2
  <2>. HIDE DEF newEntry
  <2>6. /\ newList \in Seq(Liability) /\ Len(newList) = Len(list)
        /\ \A j \in 1 .. Len(list) : newList[j] = IF j = i THEN newEntry ELSE list[j]
    BY <2>2, <2>5, ExceptSeq DEF ListOK
  <2>7. \A j \in 1 .. Len(list) : newList[j].asset = list[j].asset
    BY <2>2, <2>5, <2>6 DEF entry
  <2>. HIDE DEF newList, newBal
  <2>8. EntryOnce(newBal, newList)
    <3>. SUFFICES ASSUME NEW j \in 1 .. Len(list)
                  PROVE  /\ newBal[newList[j].asset] < 0
                         /\ \A m \in 1 .. Len(list) : newList[m].asset = newList[j].asset => j = m
      BY <2>6 DEF EntryOnce
    <3>1. newList[j].asset = list[j].asset /\ list[j].asset \in Assets
      BY <2>4, <2>7
    <3>2. newBal[list[j].asset] < 0
      BY <1>0, <1>2, <3>1 DEF EntryOnce
    <3>. QED BY <2>7, <3>1, <3>2 DEF EntryOnce
  <2>9. ASSUME NEW a \in Assets \ {asset} PROVE EntriesOf(newList, a) = EntriesOf(list, a)
    <3>1. \A j \in 1 .. Len(list) : list[j].asset = a => newList[j] = list[j]
      BY <2>2, <2>6, <2>9 DEF entry
    <3>. QED BY <2>6, <2>7, <3>1 DEF EntriesOf
  <2>10. ASSUME NEW old \in EntriesOf(list, asset), NEW new \in EntriesOf(newList, asset)
         PROVE  Follows(old, new, amount)
    <3>1. \A j \in 1 .. Len(list) : list[j].asset = asset => j = i
      BY <2>2 DEF EntryOnce, entry
    <3>2. old = entry
      BY <3>1 DEF EntriesOf, entry
    <3>3. new = newEntry
      BY <2>6, <2>7, <3>1 DEF EntriesOf
    <3>. QED BY <2>5, <3>2, <3>3
  <2>. QED BY <2>3, <2>8, <2>9, <2>10 DEF newBal
<1>. QED BY <1>1, <1>2

(* A new debt gets an entry, and no other is touched. *)
LEMMA PushOnce ==
    ASSUME NEW bal, NEW list, ListOK(bal, list), EntryOnce(bal, list),
           NEW asset \in Assets, NEW x \in Int, bal[asset] >= 0, x < 0,
           NEW entry \in Liability, entry.asset = asset
    PROVE  /\ EntryOnce([bal EXCEPT ![asset] = x], Append(list, entry))
           /\ \A a \in Assets \ {asset} : EntriesOf(Append(list, entry), a) = EntriesOf(list, a)
<1>. DEFINE newBal == [bal EXCEPT ![asset] = x]
            newList == Append(list, entry)
            n == Len(list)
<1>1. /\ newBal[asset] = x
      /\ \A a \in Assets \ {asset} : newBal[a] = bal[a]
      /\ n \in Nat /\ \A i \in 1 .. Len(list) : list[i] \in Liability
  BY LenProperties, ElementOfSeq DEF ListOK
<1>2. /\ Len(newList) = n + 1
      /\ \A i \in 1 .. n : newList[i] = list[i]
      /\ newList[n + 1] = entry
  BY AppendProperties DEF ListOK
<1>3. \A i \in 1 .. n : list[i].asset \in Assets /\ list[i].asset # asset
  <2>1. \A i \in 1 .. n : bal[list[i].asset] < 0
    BY DEF EntryOnce
  <2>2. bal[asset] \in Int
    BY DEF ListOK
  <2>. QED BY <1>1, <2>1, <2>2 DEF Liability
<1>. HIDE DEF newBal, newList, n
<1>4. \A k \in 1 .. n + 1 : k = n + 1 \/ k \in 1 .. n
  BY <1>1
<1>5. EntryOnce(newBal, newList)
  <2>. SUFFICES ASSUME NEW k \in 1 .. n + 1
                PROVE  /\ newBal[newList[k].asset] < 0
                       /\ \A j \in 1 .. n + 1 : newList[j].asset = newList[k].asset => k = j
    BY <1>2 DEF EntryOnce
  <2>1. CASE k = n + 1
    BY <1>1, <1>2, <1>3, <1>4, <2>1
  <2>2. CASE k \in 1 .. n
    <3>1. newList[k] = list[k] /\ newBal[list[k].asset] < 0
      BY <1>1, <1>2, <1>3, <2>2 DEF EntryOnce, n
    <3>2. \A j \in 1 .. n : list[j].asset = list[k].asset => k = j
      BY <2>2 DEF EntryOnce, n
    <3>. QED BY <1>2, <1>3, <1>4, <2>2, <3>1, <3>2
  <2>. QED BY <1>4, <2>1, <2>2
<1>6. ASSUME NEW a \in Assets \ {asset} PROVE EntriesOf(newList, a) = EntriesOf(list, a)
  <2>1. ASSUME NEW k \in 1 .. n + 1, newList[k].asset = a
        PROVE  newList[k] \in EntriesOf(list, a)
    <3>1. k \in 1 .. n
      BY <1>2, <1>4, <2>1
    <3>2. newList[k] = list[k] /\ k \in 1 .. Len(list)
      BY <1>2, <3>1 DEF n
    <3>. QED BY <2>1, <3>2 DEF EntriesOf
  <2>2. ASSUME NEW k \in 1 .. n, list[k].asset = a
        PROVE  list[k] \in EntriesOf(newList, a)
    <3>1. newList[k] = list[k] /\ k \in 1 .. Len(newList)
      BY <1>1, <1>2
    <3>. QED BY <2>2, <3>1 DEF EntriesOf
  <2>3. EntriesOf(newList, a) = {newList[k] : k \in {j \in 1 .. n + 1 : newList[j].asset = a}}
    BY <1>2 DEF EntriesOf
  <2>4. EntriesOf(list, a) = {list[k] : k \in {j \in 1 .. n : list[j].asset = a}}
    BY DEF EntriesOf, n
  <2>. QED BY <2>1, <2>2, <2>3, <2>4
<1>. QED BY <1>5, <1>6 DEF newBal, newList

(* A debt that is deepened, or a balance that is no debt before and after. *)
LEMMA SameListOnce ==
    ASSUME NEW bal, NEW list, ListOK(bal, list), EntryOnce(bal, list),
           NEW asset \in Assets, NEW x \in Int, bal[asset] < 0 => x < 0
    PROVE  EntryOnce([bal EXCEPT ![asset] = x], list)
<1>. DEFINE newBal == [bal EXCEPT ![asset] = x]
<1>1. /\ newBal[asset] = x /\ \A a \in Assets \ {asset} : newBal[a] = bal[a]
      /\ \A i \in 1 .. Len(list) : list[i] \in Liability
  BY ElementOfSeq DEF ListOK
<1>2. \A i \in 1 .. Len(list) : list[i].asset \in Assets
  BY <1>1 DEF Liability
<1>. HIDE DEF newBal
<1>3. \A i \in 1 .. Len(list) : newBal[list[i].asset] < 0
  BY <1>1, <1>2 DEF EntryOnce
<1>4. EntryOnce(newBal, list)
  BY <1>3 DEF EntryOnce
<1>. QED BY <1>4 DEF newBal

(* One balance of one user changes, and with it that user's list. *)
Moves(L, M, user, asset, bal, list) ==
    /\ LedgerOK(L) /\ EntriesOnce(L)
    /\ Updates(L, M, user, bal, list)
    /\ EntryOnce(bal, list)
    /\ \A a \in Assets \ {asset} : /\ bal[a] = L.assetBalances[user][a]
                                 /\ EntriesOf(list, a) = EntriesOf(L.liabilities[user], a)

UntouchedBut(L, M, user, asset) ==
    \A u \in Users, a \in Assets : u # user \/ a # asset => Untouched(L, M, u, a)

LEMMA MovedOnce ==
    ASSUME NEW L, NEW M, NEW user \in Users, NEW asset \in Assets, NEW bal, NEW list,
           Moves(L, M, user, asset, bal, list)
    PROVE  /\ EntriesOnce(M) /\ UntouchedBut(L, M, user, asset)
           /\ M.assetBalances[user] = bal /\ M.liabilities[user] = list
<1>. USE DEF Moves
<1>1. /\ L.assetBalances \in [Users -> [Assets -> Int]]
      /\ L.liabilities \in [Users -> Seq(Liability)]
  BY DEF LedgerOK, LedgerType
<1>2. /\ M.assetBalances[user] = bal
      /\ M.liabilities[user] = list
      /\ \A u \in Users \ {user} : /\ M.assetBalances[u] = L.assetBalances[u]
                                   /\ M.liabilities[u] = L.liabilities[u]
  BY <1>1 DEF Updates
<1>3. EntriesOnce(M)
  BY <1>2, Zenon DEF EntriesOnce
<1>4. ASSUME NEW u \in Users, NEW a \in Assets, u # user \/ a # asset
      PROVE  Untouched(L, M, u, a)
  <2>1. CASE u # user
    BY <1>2, <2>1 DEF Untouched
  <2>2. CASE u = user
    BY <1>2, <1>4, <2>2 DEF Untouched
  <2>. QED BY <2>1, <2>2
<1>. QED BY <1>2, <1>3, <1>4 DEF UntouchedBut

(* A cover: the balance of a debt is increased and its entry updated. *)
LEMMA CoverClock ==
    ASSUME NEW L, LedgerOK(L), EntriesOnce(L), NEW user \in Users, NEW asset \in Assets,
           NEW amount \in Nat, NEW M \in LedgerType, now \in Nat,
           L.assetBalances[user][asset] < 0,
           M.liabilities = L.liabilities,
           M.assetBalances = [L.assetBalances EXCEPT ![user] =
              [L.assetBalances[user] EXCEPT ![asset] = L.assetBalances[user][asset] + amount]],
           NEW x, x = L.assetBalances[user][asset] + amount
    PROVE  LET N == coverLiability(M, user, asset, amount, x)
           IN /\ EntriesOnce(N)
              /\ \A u \in Users, a \in Assets : u # user \/ a # asset => Untouched(L, N, u, a)
              /\ Covers(L, N, user, asset)
<1>. DEFINE old == L.assetBalances[user]
            bal == [old EXCEPT ![asset] = x]
            list == updateLiability(L.liabilities[user], asset, amount, x)
            N == coverLiability(M, user, asset, amount, x)
<1>1. /\ ListOK(old, L.liabilities[user]) /\ EntryOnce(old, L.liabilities[user])
      /\ L \in LedgerType
  BY DEF LedgerOK, EntriesOnce
<1>2. old[asset] \in Int /\ old[asset] < 0 /\ x = old[asset] + amount /\ x \in Int
  BY <1>1 DEF LedgerType
<1>3. /\ ListOK(bal, list) /\ EntryOnce(bal, list)
      /\ \A a \in Assets \ {asset} : EntriesOf(list, a) = EntriesOf(L.liabilities[user], a)
      /\ \A was \in EntriesOf(L.liabilities[user], asset), new \in EntriesOf(list, asset) :
            Follows(was, new, amount)
  <2>. HIDE DEF old
  <2>1. ListOK(bal, list)
    BY <1>1, <1>2, UpdateOK
  <2>2. /\ EntryOnce(bal, list)
        /\ \A a \in Assets \ {asset} : EntriesOf(list, a) = EntriesOf(L.liabilities[user], a)
        /\ \A was \in EntriesOf(L.liabilities[user], asset), new \in EntriesOf(list, asset) :
              Follows(was, new, amount)
    BY <1>1, <1>2, UpdateOnce
  <2>. QED BY <2>1, <2>2
<1>4. list \in Seq(Liability)
  BY <1>3 DEF ListOK
<1>5. N = [M EXCEPT !.liabilities[user] = list]
  BY DEF coverLiability
<1>. HIDE DEF list
<1>6. Updates(L, N, user, bal, list)
  <2>1. /\ N \in LedgerType
        /\ N.assetBalances = M.assetBalances
        /\ N.liabilities = [M.liabilities EXCEPT ![user] = list]
    <3>. HIDE DEF N
    <3>. QED BY <1>4, <1>5, SetListFields
  <2>. HIDE DEF N
  <2>. QED BY <2>1 DEF Updates
<1>. HIDE DEF N
<1>7. /\ EntriesOnce(N)
      /\ N.assetBalances[user][asset] = x /\ N.liabilities[user] = list
      /\ \A u \in Users, a \in Assets : u # user \/ a # asset => Untouched(L, N, u, a)
  <2>1. bal[asset] = x /\ \A a \in Assets \ {asset} : bal[a] = L.assetBalances[user][a]
    BY <1>1 DEF LedgerType
  <2>. HIDE DEF bal
  <2>2. Moves(L, N, user, asset, bal, list)
    BY <1>3, <1>6, <2>1 DEF Moves
  <2>3. /\ EntriesOnce(N) /\ UntouchedBut(L, N, user, asset)
        /\ N.assetBalances[user] = bal /\ N.liabilities[user] = list
    BY <2>2, MovedOnce
  <2>. QED BY <2>1, <2>3 DEF UntouchedBut
<1>8. Covers(L, N, user, asset)
  <2>1. N.assetBalances[user][asset] - L.assetBalances[user][asset] = amount
        /\ N.assetBalances[user][asset] >= L.assetBalances[user][asset]
    BY <1>2, <1>7
  <2>. QED BY <1>3, <1>7, <2>1 DEF Covers
<1>. QED BY <1>7, <1>8 DEF N

(* A new debt. *)
LEMMA ShortClock ==
    ASSUME NEW L, LedgerOK(L), EntriesOnce(L), NEW user \in Users, NEW asset \in Assets,
           NEW x \in Int, NEW M \in LedgerType, now \in Nat,
           L.assetBalances[user][asset] >= 0, x < 0,
           M.liabilities = L.liabilities,
           M.assetBalances = [L.assetBalances EXCEPT ![user] =
                                [L.assetBalances[user] EXCEPT ![asset] = x]]
    PROVE  LET N == setLiability(M, user, asset, x)
           IN /\ EntriesOnce(N)
              /\ \A u \in Users, a \in Assets : u # user \/ a # asset => Untouched(L, N, u, a)
              /\ Deepens(L, N, user, asset)
<1>. DEFINE old == L.assetBalances[user]
            bal == [old EXCEPT ![asset] = x]
            entry == [asset |-> asset, timestamp |-> now, outstandingAmount |-> -x]
            list == Append(L.liabilities[user], entry)
            N == setLiability(M, user, asset, x)
<1>1. /\ ListOK(old, L.liabilities[user]) /\ EntryOnce(old, L.liabilities[user])
      /\ old[asset] >= 0 /\ old[asset] \in Int
  BY DEF LedgerOK, LedgerType, EntriesOnce
<1>2. entry \in Liability /\ entry.asset = asset
  BY DEF Liability
<1>3. /\ ListOK(bal, list) /\ EntryOnce(bal, list)
      /\ \A a \in Assets \ {asset} : EntriesOf(list, a) = EntriesOf(L.liabilities[user], a)
      /\ EntriesOf(L.liabilities[user], asset) = {}
  <2>. HIDE DEF old, entry
  <2>. QED BY <1>1, <1>2, PushOK, PushOnce, NoEntry
<1>4. list \in Seq(Liability)
  BY <1>3 DEF ListOK
<1>5. N = [M EXCEPT !.liabilities[user] = list]
  BY DEF setLiability
<1>6. /\ N \in LedgerType
      /\ N.assetBalances = M.assetBalances
      /\ N.liabilities = [M.liabilities EXCEPT ![user] = list]
  <2>. HIDE DEF N, list
  <2>. QED BY <1>4, <1>5, SetListFields
<1>7. Updates(L, N, user, bal, list)
  <2>. HIDE DEF N, list
  <2>. QED BY <1>6 DEF Updates
<1>. HIDE DEF list, N
<1>8. /\ EntriesOnce(N)
      /\ N.assetBalances[user][asset] = x
      /\ \A u \in Users, a \in Assets : u # user \/ a # asset => Untouched(L, N, u, a)
  <2>1. bal[asset] = x /\ \A a \in Assets \ {asset} : bal[a] = L.assetBalances[user][a]
    BY <1>1 DEF LedgerOK, LedgerType
  <2>. HIDE DEF bal
  <2>2. Moves(L, N, user, asset, bal, list)
    BY <1>3, <1>7, <2>1 DEF Moves
  <2>3. /\ EntriesOnce(N) /\ UntouchedBut(L, N, user, asset)
        /\ N.assetBalances[user] = bal /\ N.liabilities[user] = list
    BY <2>2, MovedOnce
  <2>. QED BY <2>1, <2>3 DEF UntouchedBut
<1>9. Deepens(L, N, user, asset)
  BY <1>1, <1>3, <1>8 DEF Deepens
<1>. QED BY <1>8, <1>9 DEF N

(* A balance changes and the list does not. *)
DeepensDebt(L, user, asset, x) ==
    L.assetBalances[user][asset] < 0 => x < 0 /\ x <= L.assetBalances[user][asset]

SetsBalance(L, M, user, asset, x) ==
    /\ M \in LedgerType
    /\ M.liabilities = L.liabilities
    /\ M.assetBalances = [L.assetBalances EXCEPT ![user] =
                             [L.assetBalances[user] EXCEPT ![asset] = x]]

LEMMA SameListClock ==
    ASSUME NEW L, LedgerOK(L), EntriesOnce(L), NEW user \in Users, NEW asset \in Assets,
           NEW x \in Int, NEW M, DeepensDebt(L, user, asset, x),
           SetsBalance(L, M, user, asset, x)
    PROVE  /\ EntriesOnce(M)
           /\ \A u \in Users, a \in Assets : u # user \/ a # asset => Untouched(L, M, u, a)
           /\ x >= L.assetBalances[user][asset] => Covers(L, M, user, asset)
           /\ x <= L.assetBalances[user][asset] => Deepens(L, M, user, asset)
<1>. DEFINE old == L.assetBalances[user]
            bal == [old EXCEPT ![asset] = x]
            list == L.liabilities[user]
<1>1. /\ ListOK(old, list) /\ EntryOnce(old, list) /\ L \in LedgerType
      /\ old[asset] < 0 => x < 0 /\ x <= old[asset]
      /\ old[asset] \in Int
  BY DEF LedgerOK, LedgerType, EntriesOnce, DeepensDebt
<1>2. EntryOnce(bal, list)
  <2>. HIDE DEF old, list
  <2>. QED BY <1>1, SameListOnce
<1>3. [L.liabilities EXCEPT ![user] = list] = L.liabilities
  BY <1>1 DEF LedgerType
<1>4. Updates(L, M, user, bal, list)
  BY <1>3 DEF Updates, SetsBalance
<1>5. /\ EntriesOnce(M)
      /\ M.assetBalances[user][asset] = x /\ M.liabilities[user] = list
      /\ \A u \in Users, a \in Assets : u # user \/ a # asset => Untouched(L, M, u, a)
  <2>1. bal[asset] = x /\ \A a \in Assets \ {asset} : bal[a] = L.assetBalances[user][a]
    BY <1>1 DEF LedgerType
  <2>2. \A a \in Assets \ {asset} : EntriesOf(list, a) = EntriesOf(L.liabilities[user], a)
    OBVIOUS
  <2>. HIDE DEF bal, list
  <2>3. Moves(L, M, user, asset, bal, list)
    BY <1>2, <1>4, <2>1, <2>2 DEF Moves
  <2>4. /\ EntriesOnce(M) /\ UntouchedBut(L, M, user, asset)
        /\ M.assetBalances[user] = bal /\ M.liabilities[user] = list
    BY <2>3, MovedOnce
  <2>. QED BY <2>1, <2>4 DEF UntouchedBut
<1>6. \A e, f \in EntriesOf(list, asset) : f = e
  <2>. HIDE DEF old, list
  <2>. QED BY <1>1, OneEntry
<1>7. old[asset] >= 0 => EntriesOf(list, asset) = {}
  <2>. HIDE DEF old, list
  <2>. QED BY <1>1, NoEntry
<1>8. ASSUME x >= old[asset], NEW e \in EntriesOf(list, asset), NEW f \in EntriesOf(list, asset)
      PROVE  Follows(e, f, x - old[asset])
  <2>1. x - old[asset] = 0
    BY <1>1, <1>7, <1>8
  <2>2. e = f /\ e \in Liability
    <3>1. PICK i \in 1 .. Len(list) : e = list[i]
      BY DEF EntriesOf
    <3>2. list \in Seq(Liability)
      BY <1>1 DEF ListOK
    <3>. HIDE DEF list
    <3>. QED BY <1>6, <3>1, <3>2, ElementOfSeq
  <2>3. e.outstandingAmount - 0 = e.outstandingAmount
    BY <2>2 DEF Liability
  <2>. QED BY <2>1, <2>2, <2>3 DEF Follows
<1>9. x >= old[asset] => Covers(L, M, user, asset)
  BY <1>5, <1>8 DEF Covers
<1>10. x <= old[asset] => Deepens(L, M, user, asset)
  BY <1>5, <1>6 DEF Deepens
<1>. QED BY <1>5, <1>9, <1>10

(* A change of tokens only. *)
LEMMA TokensClock ==
    ASSUME NEW L, EntriesOnce(L), NEW M,
           M.assetBalances = L.assetBalances, M.liabilities = L.liabilities
    PROVE  /\ EntriesOnce(M)
           /\ \A u \in Users, a \in Assets : Untouched(L, M, u, a)
BY DEF EntriesOnce, Untouched

(* What _updateBalance does to the entry of the asset, and to no other. *)
LEMMA UpdateBalanceClock ==
    ASSUME NEW L, LedgerOK(L), EntriesOnce(L), NEW user \in Users, NEW asset \in Assets,
           NEW amount \in Int, now \in Nat
    PROVE  LET M == _updateBalance(L, user, asset, amount).ledger
           IN /\ EntriesOnce(M)
              /\ \A u \in Users, a \in Assets : u # user \/ a # asset => Untouched(L, M, u, a)
              /\ amount >= 0 => Covers(L, M, user, asset)
              /\ amount <= 0 => Deepens(L, M, user, asset)
<1>. DEFINE before == L.assetBalances[user][asset]
            after == before + amount
            short == before >= 0 /\ after < 0
            updated == AddBalance(L, user, asset, amount)
            checked == Require(L, asset = ETH \/ FitsInt112(DecimalToBaseUnit(asset, -after)))
            result == _updateBalance(L, user, asset, amount)
            M == result.ledger
<1>1. L \in LedgerType /\ before \in Int /\ after \in Int
  BY DEF LedgerOK, LedgerType
<1>2. /\ checked \in LedgerType
      /\ checked.assetBalances = L.assetBalances
      /\ checked.liabilities = L.liabilities
  <2>1. (asset = ETH \/ FitsInt112(DecimalToBaseUnit(asset, -after))) \in BOOLEAN
    BY DEF FitsInt112
  <2>. QED BY <1>1, <2>1, RequireFields
<1>3. /\ updated \in LedgerType
      /\ updated.liabilities = L.liabilities
      /\ updated.assetBalances = [L.assetBalances EXCEPT ![user] =
                                    [L.assetBalances[user] EXCEPT ![asset] = after]]
  <2>1. L \in LedgerType
    BY <1>1
  <2>. QED BY <2>1, AddBalanceFields
<1>4. CASE amount > 0 /\ before < 0
  <2>1. result = [ledger |-> coverLiability(updated, user, asset, amount, after),
                  fromWallet |-> FALSE]
    BY <1>1, <1>4, UpdateBalanceCases
  <2>2. M = coverLiability(updated, user, asset, amount, after)
    BY <2>1
  <2>3. amount \in Nat /\ ~ (amount <= 0)
    BY <1>4
  <2>4. /\ EntriesOnce(M)
        /\ \A u \in Users, a \in Assets : u # user \/ a # asset => Untouched(L, M, u, a)
        /\ Covers(L, M, user, asset)
    <3>. HIDE DEF M, updated
    <3>. QED BY <1>3, <1>4, <2>2, <2>3, CoverClock
  <2>. QED BY <2>3, <2>4
<1>5. CASE short /\ CanPull(L, user, asset, -after)
  <2>. DEFINE pulled == _tryDeposit(checked, user, asset, -after)
              base == DecimalToBaseUnit(asset, -after)
  <2>1. result = [ledger |-> AddBalance(pulled, user, asset, -before),
                  fromWallet |-> before = 0]
    BY <1>1, <1>5, UpdateBalanceCases
  <2>2. M = AddBalance(pulled, user, asset, -before)
    BY <2>1
  <2>3. base \in Nat
    BY <1>1, <1>5, ConversionNat
  <2>4. CanReceive(checked, user, asset, base)
    BY <1>1, <1>5, RequireFields DEF CanPull, CanReceive, FitsInt112
  <2>5. /\ pulled \in LedgerType
        /\ pulled.assetBalances = L.assetBalances
        /\ pulled.liabilities = L.liabilities
    <3>1. pulled = Receive(checked, user, asset, base)
      BY DEF _tryDeposit
    <3>. HIDE DEF pulled, checked, base
    <3>. QED BY <1>2, <2>3, <2>4, <3>1, ReceiveFields
  <2>6. /\ M \in LedgerType
        /\ M.liabilities = L.liabilities
        /\ M.assetBalances = [L.assetBalances EXCEPT ![user] =
                                [L.assetBalances[user] EXCEPT ![asset] = 0]]
    <3>1. -before \in Int /\ before + (-before) = 0
      BY <1>1
    <3>. HIDE DEF pulled, M
    <3>. QED BY <2>2, <2>5, <3>1, AddBalanceFields
  <2>7. ~ (amount >= 0) /\ 0 <= before /\ DeepensDebt(L, user, asset, 0)
    BY <1>1, <1>5 DEF DeepensDebt
  <2>8. /\ EntriesOnce(M)
        /\ \A u \in Users, a \in Assets : u # user \/ a # asset => Untouched(L, M, u, a)
        /\ Deepens(L, M, user, asset)
    <3>. HIDE DEF M
    <3>1. SetsBalance(L, M, user, asset, 0)
      BY <2>6 DEF SetsBalance
    <3>2. /\ EntriesOnce(M)
          /\ \A u \in Users, a \in Assets : u # user \/ a # asset => Untouched(L, M, u, a)
          /\ 0 <= L.assetBalances[user][asset] => Deepens(L, M, user, asset)
      BY <2>7, <3>1, SameListClock
    <3>. QED BY <2>7, <3>2
  <2>. QED BY <2>7, <2>8
<1>6. CASE short /\ ~CanPull(L, user, asset, -after)
  <2>. DEFINE added == AddBalance(checked, user, asset, amount)
  <2>1. result = [ledger |-> setLiability(added, user, asset, after), fromWallet |-> FALSE]
    BY <1>1, <1>6, UpdateBalanceCases
  <2>2. M = setLiability(added, user, asset, after)
    BY <2>1
  <2>3. /\ added \in LedgerType
        /\ added.liabilities = L.liabilities
        /\ added.assetBalances = [L.assetBalances EXCEPT ![user] =
                                    [L.assetBalances[user] EXCEPT ![asset] = after]]
    <3>. HIDE DEF checked
    <3>. QED BY <1>2, AddBalanceFields
  <2>4. /\ EntriesOnce(M)
        /\ \A u \in Users, a \in Assets : u # user \/ a # asset => Untouched(L, M, u, a)
        /\ Deepens(L, M, user, asset)
    <3>. HIDE DEF M, added
    <3>. QED BY <1>1, <1>6, <2>2, <2>3, ShortClock
  <2>5. ~ (amount >= 0)
    BY <1>1, <1>6
  <2>. QED BY <2>4, <2>5
<1>7. CASE ~short /\ ~(amount > 0 /\ before < 0)
  <2>1. result = [ledger |-> updated, fromWallet |-> FALSE]
    BY <1>1, <1>7, UpdateBalanceCases
  <2>2. M = updated
    BY <2>1
  <2>3. /\ before < 0 => after < 0 /\ after <= before
        /\ amount >= 0 => after >= before
        /\ amount <= 0 => after <= before
        /\ after \in Int
    BY <1>1, <1>7
  <2>4. /\ EntriesOnce(M)
        /\ \A u \in Users, a \in Assets : u # user \/ a # asset => Untouched(L, M, u, a)
        /\ amount >= 0 => Covers(L, M, user, asset)
        /\ amount <= 0 => Deepens(L, M, user, asset)
    <3>. HIDE DEF updated, after, M
    <3>1. SetsBalance(L, M, user, asset, after) /\ DeepensDebt(L, user, asset, after)
      BY <1>3, <2>2, <2>3 DEF SetsBalance, DeepensDebt
    <3>2. /\ EntriesOnce(M)
          /\ \A u \in Users, a \in Assets : u # user \/ a # asset => Untouched(L, M, u, a)
          /\ after >= L.assetBalances[user][asset] => Covers(L, M, user, asset)
          /\ after <= L.assetBalances[user][asset] => Deepens(L, M, user, asset)
      BY <2>3, <3>1, SameListClock
    <3>. QED BY <2>3, <3>2
  <2>. QED BY <2>4
<1>. QED BY <1>4, <1>5, <1>6, <1>7

-------------------------------------------------------------------------------
(* The parts of a transaction together. *)

ClockRule(L, M, u, a) == Covers(L, M, u, a) \/ Deepens(L, M, u, a)

LEMMA UntouchedFirst ==
    ASSUME NEW L, NEW M, NEW N, NEW u, NEW a, Untouched(L, M, u, a)
    PROVE  /\ Untouched(M, N, u, a) => Untouched(L, N, u, a)
           /\ Covers(M, N, u, a) => Covers(L, N, u, a)
           /\ Deepens(M, N, u, a) => Deepens(L, N, u, a)
           /\ ClockRule(M, N, u, a) => ClockRule(L, N, u, a)
BY DEF Untouched, Covers, Deepens, ClockRule

LEMMA UntouchedLast ==
    ASSUME NEW L, NEW M, NEW N, NEW u, NEW a, Untouched(M, N, u, a)
    PROVE  /\ Covers(L, M, u, a) => Covers(L, N, u, a)
           /\ Deepens(L, M, u, a) => Deepens(L, N, u, a)
           /\ ClockRule(L, M, u, a) => ClockRule(L, N, u, a)
BY DEF Untouched, Covers, Deepens, ClockRule

LEMMA UntouchedCovers ==
    ASSUME NEW L, LedgerOK(L), EntriesOnce(L), NEW M, NEW u \in Users, NEW a \in Assets,
           Untouched(L, M, u, a)
    PROVE  Covers(L, M, u, a)
<1>. DEFINE list == L.liabilities[u]
            change == M.assetBalances[u][a] - L.assetBalances[u][a]
<1>1. /\ L.assetBalances[u][a] \in Int
      /\ list \in Seq(Liability) /\ EntryOnce(L.assetBalances[u], list)
  BY DEF LedgerOK, LedgerType, EntriesOnce
<1>2. M.assetBalances[u][a] >= L.assetBalances[u][a] /\ change = 0
  BY <1>1 DEF Untouched
<1>3. ASSUME NEW e \in EntriesOf(list, a), NEW f \in EntriesOf(list, a)
      PROVE  Follows(e, f, change)
  <2>. HIDE DEF list, change
  <2>1. PICK i \in 1 .. Len(list) : e = list[i]
    BY DEF EntriesOf
  <2>2. e \in Liability
    BY <1>1, <2>1, ElementOfSeq
  <2>3. e.outstandingAmount - change = e.outstandingAmount
    BY <1>2, <2>2 DEF Liability
  <2>4. f = e
    BY <1>1, OneEntry
  <2>. QED BY <1>2, <2>3, <2>4 DEF Follows
<1>. QED BY <1>2, <1>3 DEF Covers, Untouched

(* Two credits are a credit of both: the first may restart the clock, the
   second may, or both together do not pay what was outstanding. *)
LEMMA CoversChain ==
    ASSUME NEW L, LedgerOK(L), NEW M, LedgerOK(M), NEW N, LedgerOK(N), EntriesOnce(N),
           NEW u \in Users, NEW a \in Assets, Covers(L, M, u, a), Covers(M, N, u, a)
    PROVE  Covers(L, N, u, a)
<1>. DEFINE x == L.assetBalances[u][a]
            y == M.assetBalances[u][a]
            z == N.assetBalances[u][a]
            first == L.liabilities[u]
            second == M.liabilities[u]
            third == N.liabilities[u]
<1>1. /\ x \in Int /\ y \in Int /\ z \in Int
      /\ ListOK(M.assetBalances[u], second) /\ EntryOnce(N.assetBalances[u], third)
      /\ first \in Seq(Liability) /\ third \in Seq(Liability)
  BY DEF LedgerOK, LedgerType, EntriesOnce
<1>2. x <= y /\ y <= z
  BY <1>1 DEF Covers
<1>3. ASSUME NEW old \in EntriesOf(first, a), NEW new \in EntriesOf(third, a)
      PROVE  Follows(old, new, z - x)
  <2>1. z < 0
    <3>. SUFFICES ASSUME z >= 0 PROVE FALSE
      BY <1>1
    <3>. HIDE DEF third
    <3>1. EntriesOf(third, a) = {}
      BY <1>1, NoEntry
    <3>. QED BY <3>1
  <2>2. y < 0
    BY <1>1, <1>2, <2>1
  <2>3. PICK mid \in EntriesOf(second, a) : mid \in Liability
    <3>. HIDE DEF second
    <3>. QED BY <1>1, <2>2, DebtEntry
  <2>4. Follows(old, mid, y - x) /\ Follows(mid, new, z - y)
    BY <2>3 DEF Covers
  <2>. HIDE DEF x, y, z, first, second, third
  <2>5. old \in Liability /\ new \in Liability
    <3>1. PICK i \in 1 .. Len(first) : old = first[i]
      BY DEF EntriesOf
    <3>2. PICK j \in 1 .. Len(third) : new = third[j]
      BY DEF EntriesOf
    <3>. QED BY <1>1, <3>1, <3>2, ElementOfSeq
  <2>6. /\ old.outstandingAmount \in Nat /\ mid.outstandingAmount \in Nat
        /\ new.outstandingAmount \in Nat
    BY <2>3, <2>5 DEF Liability
  <2>. QED BY <1>1, <1>2, <2>4, <2>6 DEF Follows
<1>. QED BY <1>1, <1>2, <1>3 DEF Covers

(* An order whose matcher is another user: the order gives one asset, is due
   another, and pays the fee in a third or within one of the two. *)
LEMMA DebitClock ==
    ASSUME NEW L, LedgerOK(L), EntriesOnce(L), NEW order \in OrderType,
           NEW isSeller \in BOOLEAN, NEW amountBase \in Nat, NEW amountQuote \in Nat,
           NEW fee \in Nat, now \in Nat,
           order.matcherAddress # order.senderAddress, order.baseAsset # order.quoteAsset
    PROVE  LET D == updateOrderBalanceDebit(L, order, isSeller, amountBase, amountQuote, fee)
               assetIn == IF isSeller THEN order.quoteAsset ELSE order.baseAsset
           IN /\ EntriesOnce(D.ledger)
              /\ \A a \in Assets : ClockRule(L, D.ledger, order.senderAddress, a)
              /\ Untouched(L, D.ledger, order.senderAddress, assetIn)
              /\ \A a \in Assets : Covers(L, D.ledger, order.matcherAddress, a)
              /\ \A u \in Users, a \in Assets :
                    u \notin {order.senderAddress, order.matcherAddress} =>
                        Untouched(L, D.ledger, u, a)
<1>. DEFINE user == order.senderAddress
            matcher == order.matcherAddress
            feeAsset == order.matcherFeeAsset
            assetOut == IF isSeller THEN order.baseAsset ELSE order.quoteAsset
            assetIn == IF isSeller THEN order.quoteAsset ELSE order.baseAsset
            amountOut == IF isSeller THEN amountBase ELSE amountQuote
            amountIn == IF isSeller THEN amountQuote ELSE amountBase
            feeOut == feeAsset = assetOut
            feeIn == ~feeOut /\ feeAsset = assetIn
            paid == IF feeOut \/ feeIn THEN [ledger |-> L, fromWallet |-> TRUE]
                    ELSE _updateBalance(L, user, feeAsset, -fee)
            debit == -amountOut - (IF feeOut THEN fee ELSE 0)
            debited == _updateBalance(paid.ledger, user, assetOut, debit)
            matched == _updateBalance(debited.ledger, matcher, feeAsset, fee)
            D == updateOrderBalanceDebit(L, order, isSeller, amountBase, amountQuote, fee)
<1>1. /\ user \in Users /\ matcher \in Users /\ matcher # user
      /\ feeAsset \in Assets /\ assetOut \in Assets /\ assetIn \in Assets
      /\ assetIn # assetOut
      /\ debit \in Int /\ debit <= 0 /\ -fee \in Int /\ -fee <= 0 /\ fee \in Int /\ fee >= 0
  BY DEF OrderType
<1>2. D = IF amountBase = 0 THEN [ledger |-> L, fromWallet |-> FALSE, actualIn |-> 0]
          ELSE [ledger |-> matched.ledger,
                fromWallet |-> paid.fromWallet /\ debited.fromWallet,
                actualIn |-> amountIn - (IF feeIn THEN fee ELSE 0)]
  BY DEF updateOrderBalanceDebit
<1>. HIDE DEF user, matcher, feeAsset, assetOut, assetIn, amountOut, amountIn, debit, D
<1>3. /\ LedgerOK(paid.ledger) /\ EntriesOnce(paid.ledger)
      /\ \A u \in Users, a \in Assets :
            u # user \/ a # feeAsset => Untouched(L, paid.ledger, u, a)
      /\ feeAsset \in {assetOut, assetIn} => Untouched(L, paid.ledger, user, feeAsset)
      /\ ClockRule(L, paid.ledger, user, feeAsset)
  <2>1. CASE feeOut \/ feeIn
    <3>1. paid.ledger = L
      BY <2>1
    <3>2. \A u \in Users, a \in Assets : Untouched(L, L, u, a)
      BY DEF Untouched
    <3>3. ClockRule(L, L, user, feeAsset)
      BY <1>1, <3>2, UntouchedCovers DEF ClockRule
    <3>. QED BY <1>1, <3>1, <3>2, <3>3
  <2>2. CASE ~ (feeOut \/ feeIn)
    <3>1. paid = _updateBalance(L, user, feeAsset, -fee) /\ feeAsset \notin {assetOut, assetIn}
      BY <2>2
    <3>. HIDE DEF paid
    <3>2. /\ LedgerOK(paid.ledger) /\ EntriesOnce(paid.ledger)
          /\ \A u \in Users, a \in Assets :
                u # user \/ a # feeAsset => Untouched(L, paid.ledger, u, a)
          /\ Deepens(L, paid.ledger, user, feeAsset)
      BY <1>1, <3>1, UpdateBalanceOK, UpdateBalanceClock
    <3>. QED BY <3>1, <3>2 DEF ClockRule
  <2>. QED BY <2>1, <2>2
<1>. HIDE DEF paid
<1>4. /\ LedgerOK(debited.ledger) /\ EntriesOnce(debited.ledger)
      /\ \A u \in Users, a \in Assets :
            u # user \/ a # assetOut => Untouched(paid.ledger, debited.ledger, u, a)
      /\ ClockRule(paid.ledger, debited.ledger, user, assetOut)
  BY <1>1, <1>3, UpdateBalanceOK, UpdateBalanceClock DEF ClockRule
<1>. HIDE DEF debited
<1>5. /\ EntriesOnce(matched.ledger)
      /\ \A u \in Users, a \in Assets :
            u # matcher \/ a # feeAsset => Untouched(debited.ledger, matched.ledger, u, a)
      /\ Covers(debited.ledger, matched.ledger, matcher, feeAsset)
  BY <1>1, <1>4, UpdateBalanceClock
<1>. HIDE DEF matched
<1>6. ASSUME NEW a \in Assets PROVE ClockRule(L, matched.ledger, user, a)
  <2>1. Untouched(debited.ledger, matched.ledger, user, a)
    BY <1>1, <1>5
  <2>2. ClockRule(L, debited.ledger, user, a)
    <3>1. CASE a = assetOut
      <4>1. Untouched(L, paid.ledger, user, a)
        BY <1>1, <1>3, <3>1
      <4>. QED BY <1>4, <3>1, <4>1, UntouchedFirst
    <3>2. CASE a # assetOut
      <4>1. Untouched(paid.ledger, debited.ledger, user, a)
        BY <1>1, <1>4, <3>2
      <4>2. ClockRule(L, paid.ledger, user, a)
        <5>1. CASE a = feeAsset
          BY <1>3, <5>1
        <5>2. CASE a # feeAsset
          <6>1. Untouched(L, paid.ledger, user, a)
            BY <1>1, <1>3, <5>2
          <6>. QED BY <1>1, <6>1, UntouchedCovers DEF ClockRule
        <5>. QED BY <5>1, <5>2
      <4>. QED BY <4>1, <4>2, UntouchedLast
    <3>. QED BY <3>1, <3>2
  <2>. QED BY <2>1, <2>2, UntouchedLast
<1>7. Untouched(L, matched.ledger, user, assetIn)
  <2>1. Untouched(L, paid.ledger, user, assetIn)
    BY <1>1, <1>3
  <2>2. Untouched(paid.ledger, debited.ledger, user, assetIn)
    BY <1>1, <1>4
  <2>3. Untouched(debited.ledger, matched.ledger, user, assetIn)
    BY <1>1, <1>5
  <2>. QED BY <2>1, <2>2, <2>3, UntouchedFirst
<1>8. ASSUME NEW u \in Users, NEW a \in Assets, u # user
      PROVE  Untouched(L, debited.ledger, u, a)
  <2>1. Untouched(L, paid.ledger, u, a) /\ Untouched(paid.ledger, debited.ledger, u, a)
    BY <1>3, <1>4, <1>8
  <2>. QED BY <2>1, UntouchedFirst
<1>9. ASSUME NEW a \in Assets PROVE Covers(L, matched.ledger, matcher, a)
  <2>1. Untouched(L, debited.ledger, matcher, a)
    BY <1>1, <1>8
  <2>2. Covers(debited.ledger, matched.ledger, matcher, a)
    <3>1. CASE a = feeAsset
      BY <1>5, <3>1
    <3>2. CASE a # feeAsset
      <4>1. Untouched(debited.ledger, matched.ledger, matcher, a)
        BY <1>1, <1>5, <3>2
      <4>. QED BY <1>1, <1>4, <4>1, UntouchedCovers
    <3>. QED BY <3>1, <3>2
  <2>. QED BY <2>1, <2>2, UntouchedFirst
<1>10. ASSUME NEW u \in Users, NEW a \in Assets, u \notin {user, matcher}
       PROVE  Untouched(L, matched.ledger, u, a)
  <2>1. Untouched(L, debited.ledger, u, a) /\ Untouched(debited.ledger, matched.ledger, u, a)
    BY <1>5, <1>8, <1>10
  <2>. QED BY <2>1, UntouchedFirst
<1>11. /\ EntriesOnce(D.ledger)
       /\ \A a \in Assets : ClockRule(L, D.ledger, user, a)
       /\ Untouched(L, D.ledger, user, assetIn)
       /\ \A a \in Assets : Covers(L, D.ledger, matcher, a)
       /\ \A u \in Users, a \in Assets :
             u \notin {user, matcher} => Untouched(L, D.ledger, u, a)
  <2>1. CASE amountBase = 0
    <3>1. D.ledger = L
      BY <1>2, <2>1
    <3>2. \A u \in Users, a \in Assets : Untouched(L, L, u, a)
      BY DEF Untouched
    <3>3. \A u \in Users, a \in Assets : Covers(L, L, u, a)
      BY <3>2, UntouchedCovers
    <3>. QED BY <1>1, <3>1, <3>2, <3>3 DEF ClockRule
  <2>2. CASE amountBase # 0
    <3>1. D.ledger = matched.ledger
      BY <1>2, <2>2
    <3>. QED BY <1>5, <1>6, <1>7, <1>9, <1>10, <3>1
  <2>. QED BY <2>1, <2>2
<1>. QED BY <1>11 DEF D, user, matcher, assetIn

(* What an order is due is one change of one balance. *)
LEMMA CreditClock ==
    ASSUME NEW L, LedgerOK(L), EntriesOnce(L), NEW fromWallet, NEW user \in Users,
           NEW amount \in Int, NEW asset \in Assets, now \in Nat
    PROVE  LET M == creditUserAssets(L, fromWallet, user, amount, asset)
           IN /\ EntriesOnce(M)
              /\ \A u \in Users, a \in Assets : u # user \/ a # asset => Untouched(L, M, u, a)
              /\ ClockRule(L, M, user, asset)
<1>. DEFINE before == L.assetBalances[user][asset]
            remaining == amount + before
            base == DecimalToBaseUnit(asset, remaining)
            toWallet == fromWallet /\ remaining > 0 /\ before <= 0
            checked == Require(L, toWallet => FitsInt112(base))
            sent == toWallet /\ L.held[asset] >= base
            toUpdate == IF sent THEN -before ELSE amount
            paid == IF sent THEN Send(checked, user, asset, base) ELSE checked
            M == creditUserAssets(L, fromWallet, user, amount, asset)
<1>1. L \in LedgerType /\ before \in Int /\ toUpdate \in Int
  BY DEF LedgerOK, LedgerType
<1>2. /\ checked \in LedgerType
      /\ checked.assetBalances = L.assetBalances
      /\ checked.liabilities = L.liabilities
      /\ checked.held = L.held
  <2>1. (toWallet => FitsInt112(base)) \in BOOLEAN
    OBVIOUS
  <2>. QED BY <1>1, <2>1, RequireFields
<1>3. /\ paid \in LedgerType
      /\ paid.assetBalances = L.assetBalances
      /\ paid.liabilities = L.liabilities
  <2>1. CASE sent
    <3>1. base \in Nat
      BY <1>1, <2>1, ConversionNat
    <3>2. paid = Send(checked, user, asset, base) /\ checked.held[asset] >= base
      BY <1>2, <2>1
    <3>. HIDE DEF checked, paid, base
    <3>. QED BY <1>2, <3>1, <3>2, SendFields
  <2>2. CASE ~sent
    BY <1>2, <2>2
  <2>. QED BY <2>1, <2>2
<1>4. M = IF toUpdate = 0 THEN paid ELSE _updateBalance(paid, user, asset, toUpdate).ledger
  BY DEF creditUserAssets
<1>. HIDE DEF paid, toUpdate, M
<1>5. /\ LedgerOK(paid) /\ EntriesOnce(paid)
      /\ \A u \in Users, a \in Assets : Untouched(L, paid, u, a)
  BY <1>3, TokensClock DEF LedgerOK
<1>. DEFINE N == _updateBalance(paid, user, asset, toUpdate).ledger
<1>6. /\ EntriesOnce(N)
      /\ \A u \in Users, a \in Assets : u # user \/ a # asset => Untouched(paid, N, u, a)
      /\ ClockRule(paid, N, user, asset)
  <2>1. toUpdate >= 0 \/ toUpdate <= 0
    BY <1>1
  <2>. QED BY <1>1, <1>5, <2>1, UpdateBalanceClock DEF ClockRule
<1>. HIDE DEF N
<1>7. /\ EntriesOnce(M)
      /\ \A u \in Users, a \in Assets : u # user \/ a # asset => Untouched(L, M, u, a)
      /\ ClockRule(L, M, user, asset)
  <2>1. CASE toUpdate = 0
    <3>1. M = paid
      BY <1>4, <2>1
    <3>2. Covers(L, paid, user, asset)
      BY <1>5, UntouchedCovers
    <3>. QED BY <1>5, <3>1, <3>2 DEF ClockRule
  <2>2. CASE toUpdate # 0
    <3>1. M = N
      BY <1>4, <2>2 DEF N
    <3>2. ASSUME NEW u \in Users, NEW a \in Assets, u # user \/ a # asset
          PROVE  Untouched(L, N, u, a)
      BY <1>5, <1>6, <3>2, UntouchedFirst
    <3>3. ClockRule(L, N, user, asset)
      BY <1>5, <1>6, UntouchedFirst
    <3>. QED BY <1>6, <3>1, <3>2, <3>3
  <2>. QED BY <2>1, <2>2
<1>. QED BY <1>7 DEF M

LEMMA GeneralDepositClock ==
    ASSUME NEW L, LedgerOK(L), EntriesOnce(L), NEW user \in Users, NEW asset \in Assets,
           NEW amount \in Nat, now \in Nat
    PROVE  /\ EntriesOnce(generalDeposit(L, user, asset, amount))
           /\ \A u \in Users, a \in Assets :
                 Covers(L, generalDeposit(L, user, asset, amount), u, a)
<1>. DEFINE before == L.assetBalances[user][asset]
            decimal == BaseUnitToDecimal(asset, amount)
            plain == AddBalance(L, user, asset, decimal)
            added == Require(plain, FitsInt112(decimal))
            after == before + decimal
            M == generalDeposit(L, user, asset, amount)
<1>1. L \in LedgerType /\ before \in Int /\ decimal \in Nat
  BY ConversionNat DEF LedgerOK, LedgerType
<1>2. /\ decimal \in Int /\ after \in Int /\ FitsInt112(decimal) \in BOOLEAN
      /\ after >= before
  BY <1>1 DEF FitsInt112
<1>3. /\ added \in LedgerType
      /\ added.liabilities = L.liabilities
      /\ added.assetBalances = [L.assetBalances EXCEPT ![user] =
                                  [L.assetBalances[user] EXCEPT ![asset] = after]]
  <2>. HIDE DEF decimal
  <2>1. /\ plain \in LedgerType
        /\ plain.liabilities = L.liabilities
        /\ plain.assetBalances = [L.assetBalances EXCEPT ![user] =
                                    [L.assetBalances[user] EXCEPT ![asset] = after]]
    <3>. L \in LedgerType /\ decimal \in Int
      BY <1>1, <1>2
    <3>. QED BY AddBalanceFields
  <2>. HIDE DEF plain
  <2>2. /\ added \in LedgerType
        /\ added.liabilities = plain.liabilities
        /\ added.assetBalances = plain.assetBalances
    BY <1>2, <2>1, RequireFields
  <2>. QED BY <2>1, <2>2
<1>4. added.assetBalances[user][asset] = after
  BY <1>1, <1>3 DEF LedgerType
<1>5. M = IF before < 0 THEN coverLiability(added, user, asset, decimal, after) ELSE added
  BY <1>4, Zenon DEF generalDeposit
<1>6. after = L.assetBalances[user][asset] + decimal
  OBVIOUS
<1>. HIDE DEF added, after, M, decimal
<1>7. /\ EntriesOnce(M)
      /\ \A u \in Users, a \in Assets : u # user \/ a # asset => Untouched(L, M, u, a)
      /\ Covers(L, M, user, asset)
  <2>1. CASE before < 0
    <3>1. M = coverLiability(added, user, asset, decimal, after)
      BY <1>5, <2>1
    <3>. QED BY <1>1, <1>3, <1>6, <2>1, <3>1, CoverClock
  <2>2. CASE ~ (before < 0)
    <3>1. M = added
      BY <1>5, <2>2
    <3>2. after \in Int /\ after >= before /\ DeepensDebt(L, user, asset, after)
      BY <1>1, <1>2, <1>6, <2>2 DEF DeepensDebt
    <3>3. /\ EntriesOnce(added)
          /\ \A u \in Users, a \in Assets : u # user \/ a # asset => Untouched(L, added, u, a)
          /\ after >= L.assetBalances[user][asset] => Covers(L, added, user, asset)
      <4>1. SetsBalance(L, added, user, asset, after)
        BY <1>3 DEF SetsBalance
      <4>. QED BY <3>2, <4>1, SameListClock
    <3>. QED BY <3>1, <3>2, <3>3
  <2>. QED BY <2>1, <2>2
<1>8. ASSUME NEW u \in Users, NEW a \in Assets PROVE Covers(L, M, u, a)
  <2>1. CASE u = user /\ a = asset
    BY <1>7, <2>1
  <2>2. CASE u # user \/ a # asset
    BY <1>7, <2>2, UntouchedCovers
  <2>. QED BY <2>1, <2>2
<1>. QED BY <1>7, <1>8 DEF M

(* A fill touches each balance of a trader once, and adds to those of the matcher. *)
LEMMA SettleClock ==
    ASSUME LedgerOK(Ledger), EntriesOnce(Ledger), now \in Nat,
           NEW buy \in OrderType, NEW sell \in OrderType, buy.amount > 0, sell.amount > 0,
           NEW filledAmount \in Nat, NEW amountQuote \in Nat,
           buy.baseAsset = sell.baseAsset, buy.quoteAsset = sell.quoteAsset,
           buy.baseAsset # buy.quoteAsset, buy.matcherAddress = sell.matcherAddress,
           buy.senderAddress # sell.senderAddress,
           buy.matcherAddress # buy.senderAddress, sell.matcherAddress # sell.senderAddress
    PROVE  /\ EntriesOnce(Settle(buy, sell, filledAmount, amountQuote))
           /\ \A u \in Users, a \in Assets :
                 ClockRule(Ledger, Settle(buy, sell, filledAmount, amountQuote), u, a)
<1>. DEFINE buyer == buy.senderAddress
            seller == sell.senderAddress
            matcher == buy.matcherAddress
            base == buy.baseAsset
            quote == sell.quoteAsset
            buyFee == MatcherFee(buy, filledAmount)
            sellFee == MatcherFee(sell, filledAmount)
            bought == updateOrderBalanceDebit(Ledger, buy, FALSE, filledAmount,
                                              amountQuote, buyFee)
            sold == updateOrderBalanceDebit(bought.ledger, sell, TRUE, filledAmount,
                                            amountQuote, sellFee)
            buyerCredited == creditUserAssets(sold.ledger, bought.fromWallet, buyer,
                                              bought.actualIn, base)
            M == creditUserAssets(buyerCredited, sold.fromWallet, seller,
                                  sold.actualIn, quote)
            A == Ledger
            B == bought.ledger
            C == sold.ledger
<1>1. /\ buyer \in Users /\ seller \in Users /\ matcher \in Users
      /\ base \in Assets /\ quote \in Assets
      /\ buyer # seller /\ matcher # buyer /\ matcher # seller
      /\ sell.matcherAddress = matcher
      /\ sell.baseAsset # sell.quoteAsset
  BY DEF OrderType
<1>2. buyFee \in Nat /\ sellFee \in Nat
  BY MatcherFeeNat
<1>3. M = Settle(buy, sell, filledAmount, amountQuote)
  BY Zenon DEF Settle
<1>. HIDE DEF buyFee, sellFee, M
<1>4. /\ LedgerOK(B) /\ bought.actualIn \in Int /\ EntriesOnce(B)
      /\ \A a \in Assets : ClockRule(A, B, buyer, a)
      /\ Untouched(A, B, buyer, base)
      /\ \A a \in Assets : Covers(A, B, matcher, a)
      /\ \A u \in Users, a \in Assets : u \notin {buyer, matcher} => Untouched(A, B, u, a)
  <2>1. LedgerOK(B) /\ bought.actualIn \in Int
    BY <1>2, DebitOK
  <2>. HIDE DEF bought
  <2>2. /\ EntriesOnce(B)
        /\ \A a \in Assets : ClockRule(A, B, buyer, a)
        /\ Untouched(A, B, buyer, IF FALSE THEN buy.quoteAsset ELSE buy.baseAsset)
        /\ \A a \in Assets : Covers(A, B, matcher, a)
        /\ \A u \in Users, a \in Assets : u \notin {buyer, matcher} => Untouched(A, B, u, a)
    BY <1>2, DebitClock DEF bought
  <2>. QED BY <2>1, <2>2
<1>5. /\ LedgerOK(C) /\ sold.actualIn \in Int /\ EntriesOnce(C)
      /\ \A a \in Assets : ClockRule(B, C, seller, a)
      /\ Untouched(B, C, seller, quote)
      /\ \A a \in Assets : Covers(B, C, matcher, a)
      /\ \A u \in Users, a \in Assets : u \notin {seller, matcher} => Untouched(B, C, u, a)
  <2>. HIDE DEF bought
  <2>1. LedgerOK(C) /\ sold.actualIn \in Int
    BY <1>2, <1>4, DebitOK
  <2>. HIDE DEF sold
  <2>2. /\ EntriesOnce(C)
        /\ \A a \in Assets : ClockRule(B, C, seller, a)
        /\ Untouched(B, C, seller, IF TRUE THEN sell.quoteAsset ELSE sell.baseAsset)
        /\ \A a \in Assets : Covers(B, C, matcher, a)
        /\ \A u \in Users, a \in Assets : u \notin {seller, matcher} => Untouched(B, C, u, a)
    BY <1>1, <1>2, <1>4, DebitClock DEF sold
  <2>. QED BY <2>1, <2>2
<1>. HIDE DEF bought, sold, B, C, buyer, seller, matcher, base, quote
<1>6. /\ LedgerOK(buyerCredited) /\ EntriesOnce(buyerCredited)
      /\ \A u \in Users, a \in Assets :
            u # buyer \/ a # base => Untouched(C, buyerCredited, u, a)
      /\ ClockRule(C, buyerCredited, buyer, base)
  BY <1>1, <1>4, <1>5, CreditOK, CreditClock DEF C
<1>. HIDE DEF buyerCredited
<1>7. /\ EntriesOnce(M)
      /\ \A u \in Users, a \in Assets :
            u # seller \/ a # quote => Untouched(buyerCredited, M, u, a)
      /\ ClockRule(buyerCredited, M, seller, quote)
  BY <1>1, <1>5, <1>6, CreditClock DEF M
<1>8. ASSUME NEW a \in Assets PROVE ClockRule(A, M, buyer, a)
  <2>1. Untouched(B, C, buyer, a) /\ Untouched(buyerCredited, M, buyer, a)
    BY <1>1, <1>5, <1>7
  <2>2. CASE a = base
    <3>1. Untouched(A, C, buyer, a)
      BY <1>4, <2>1, <2>2, UntouchedFirst
    <3>2. ClockRule(A, buyerCredited, buyer, a)
      BY <1>6, <2>2, <3>1, UntouchedFirst
    <3>. QED BY <2>1, <3>2, UntouchedLast
  <2>3. CASE a # base
    <3>1. ClockRule(A, C, buyer, a)
      BY <1>4, <2>1, UntouchedLast
    <3>2. Untouched(C, buyerCredited, buyer, a)
      BY <1>1, <1>6, <2>3
    <3>3. ClockRule(A, buyerCredited, buyer, a)
      BY <3>1, <3>2, UntouchedLast
    <3>. QED BY <2>1, <3>3, UntouchedLast
  <2>. QED BY <2>2, <2>3
<1>9. ASSUME NEW a \in Assets PROVE ClockRule(A, M, seller, a)
  <2>1. Untouched(A, B, seller, a) /\ Untouched(C, buyerCredited, seller, a)
    BY <1>1, <1>4, <1>6
  <2>2. CASE a = quote
    <3>1. Untouched(A, C, seller, a)
      BY <1>5, <2>1, <2>2, UntouchedFirst
    <3>2. Untouched(A, buyerCredited, seller, a)
      BY <2>1, <3>1, UntouchedFirst
    <3>. QED BY <1>7, <2>2, <3>2, UntouchedFirst
  <2>3. CASE a # quote
    <3>1. ClockRule(A, C, seller, a)
      BY <1>5, <2>1, UntouchedFirst
    <3>2. ClockRule(A, buyerCredited, seller, a)
      BY <2>1, <3>1, UntouchedLast
    <3>3. Untouched(buyerCredited, M, seller, a)
      BY <1>1, <1>7, <2>3
    <3>. QED BY <3>2, <3>3, UntouchedLast
  <2>. QED BY <2>2, <2>3
<1>10. ASSUME NEW u \in Users, NEW a \in Assets, u \notin {buyer, seller}
       PROVE  ClockRule(A, M, u, a)
  <2>1. Covers(A, B, u, a)
    <3>1. CASE u = matcher
      BY <1>4, <3>1
    <3>2. CASE u # matcher
      <4>1. Untouched(A, B, u, a)
        BY <1>4, <1>10, <3>2
      <4>. QED BY <4>1, UntouchedCovers
    <3>. QED BY <3>1, <3>2
  <2>2. Covers(B, C, u, a)
    <3>1. CASE u = matcher
      BY <1>5, <3>1
    <3>2. CASE u # matcher
      <4>1. Untouched(B, C, u, a)
        BY <1>5, <1>10, <3>2
      <4>. QED BY <1>4, <4>1, UntouchedCovers
    <3>. QED BY <3>1, <3>2
  <2>3. Covers(A, C, u, a)
    BY <1>4, <1>5, <2>1, <2>2, CoversChain
  <2>4. Untouched(C, buyerCredited, u, a) /\ Untouched(buyerCredited, M, u, a)
    BY <1>6, <1>7, <1>10
  <2>5. Covers(A, M, u, a)
    BY <2>3, <2>4, UntouchedLast
  <2>. QED BY <2>5 DEF ClockRule
<1>11. \A u \in Users, a \in Assets : ClockRule(A, M, u, a)
  BY <1>8, <1>9, <1>10
<1>. QED BY <1>3, <1>7, <1>11

-------------------------------------------------------------------------------
(* Every step. *)

OnceListed == \A u \in Users : EntryOnce(assetBalances[u], liabilities[u])

ClocksFollow ==
    \A u \in Users, a \in Assets :
        \A old \in EntriesOf(liabilities[u], a), new \in EntriesOf(liabilities'[u], a) :
            \/ BalanceChange(u, a) >= 0 /\ Follows(old, new, BalanceChange(u, a))
            \/ BalanceChange(u, a) <= 0 /\ new = old

LEMMA CommitClock ==
    ASSUME LedgerOK(Ledger), NEW L, LedgerOK(L), EntriesOnce(L), Commit(L),
           \A u \in Users, a \in Assets : ClockRule(Ledger, L, u, a)
    PROVE  OnceListed' /\ ClocksFollow
<1>1. /\ assetBalances' = L.assetBalances /\ liabilities' = L.liabilities
      /\ assetBalances = Ledger.assetBalances /\ liabilities = Ledger.liabilities
  BY DEF Commit, Ledger
<1>2. OnceListed'
  BY <1>1 DEF EntriesOnce, OnceListed
<1>3. ASSUME NEW u \in Users, NEW a \in Assets,
             NEW old \in EntriesOf(liabilities[u], a), NEW new \in EntriesOf(liabilities'[u], a)
      PROVE  \/ BalanceChange(u, a) >= 0 /\ Follows(old, new, BalanceChange(u, a))
             \/ BalanceChange(u, a) <= 0 /\ new = old
  <2>. DEFINE x == Ledger.assetBalances[u][a]
              y == L.assetBalances[u][a]
  <2>1. x \in Int /\ y \in Int
    BY DEF LedgerOK, LedgerType
  <2>2. BalanceChange(u, a) = y - x
    BY <1>1 DEF BalanceChange
  <2>3. CASE Covers(Ledger, L, u, a)
    <3>1. y >= x /\ Follows(old, new, y - x)
      BY <1>1, <2>3 DEF Covers
    <3>. HIDE DEF x, y
    <3>2. y - x >= 0
      BY <2>1, <3>1
    <3>. QED BY <2>2, <3>1, <3>2
  <2>4. CASE Deepens(Ledger, L, u, a)
    <3>1. y <= x /\ new = old
      BY <1>1, <2>4 DEF Deepens
    <3>. HIDE DEF x, y
    <3>2. y - x <= 0
      BY <2>1, <3>1
    <3>. QED BY <2>2, <3>1, <3>2
  <2>. QED BY <2>3, <2>4 DEF ClockRule
<1>. QED BY <1>2, <1>3 DEF ClocksFollow

(* No list changes, and no balance that is a debt. *)
LEMMA SameDebtsClock ==
    ASSUME IInv, OnceListed, UNCHANGED liabilities,
           \A u \in Users, a \in Assets : liabilities[u] # <<>> /\ assetBalances[u][a] < 0
              => assetBalances'[u][a] = assetBalances[u][a]
    PROVE  OnceListed' /\ ClocksFollow
<1>1. /\ assetBalances \in [Users -> [Assets -> Int]]
      /\ liabilities \in [Users -> Seq(Liability)]
  BY DEF IInv, TypeOK, StorageTypeOK
<1>2. ASSUME NEW u \in Users, NEW i \in 1 .. Len(liabilities[u])
      PROVE  /\ liabilities[u][i].asset \in Assets
             /\ assetBalances[u][liabilities[u][i].asset] < 0
             /\ assetBalances'[u][liabilities[u][i].asset] =
                   assetBalances[u][liabilities[u][i].asset]
  <2>1. liabilities[u] \in Seq(Liability) /\ liabilities[u] # <<>>
    BY <1>1, <1>2, EmptySeq
  <2>2. liabilities[u][i].asset \in Assets
    <3>1. liabilities[u][i] \in Liability
      BY <2>1, ElementOfSeq
    <3>. QED BY <3>1 DEF Liability
  <2>3. assetBalances[u][liabilities[u][i].asset] < 0
    BY DEF OnceListed, EntryOnce
  <2>. QED BY <2>1, <2>2, <2>3
<1>3. OnceListed'
  <2>. SUFFICES ASSUME NEW u \in Users
                PROVE  EntryOnce(assetBalances'[u], liabilities[u])
    BY DEF OnceListed
  <2>. QED BY <1>2 DEF OnceListed, EntryOnce
<1>4. ASSUME NEW u \in Users, NEW a \in Assets,
             NEW old \in EntriesOf(liabilities[u], a), NEW new \in EntriesOf(liabilities[u], a)
      PROVE  BalanceChange(u, a) <= 0 /\ new = old
  <2>1. new = old
    BY OneEntry DEF OnceListed
  <2>2. PICK i \in 1 .. Len(liabilities[u]) : liabilities[u][i].asset = a
    BY DEF EntriesOf
  <2>3. assetBalances'[u][a] = assetBalances[u][a] /\ assetBalances[u][a] \in Int
    BY <1>1, <1>2, <2>2
  <2>4. BalanceChange(u, a) = 0
    BY <2>3 DEF BalanceChange
  <2>. QED BY <2>1, <2>4
<1>. QED BY <1>3, <1>4 DEF ClocksFollow

LEMMA DepositClock ==
    ASSUME IInv, OnceListed, NEW user \in Users, NEW asset \in Assets, NEW amount \in Nat,
           Deposit(user, asset, amount)
    PROVE  OnceListed' /\ ClocksFollow
<1>. DEFINE received == Receive(Ledger, user, asset, amount)
            L == generalDeposit(received, user, asset, amount)
<1>1. /\ received \in LedgerType
      /\ received.assetBalances = Ledger.assetBalances
      /\ received.liabilities = Ledger.liabilities
  BY LedgerIsOK, ReceiveFields DEF Deposit
<1>2. EntriesOnce(Ledger) /\ LedgerOK(Ledger)
  BY LedgerIsOK DEF OnceListed, EntriesOnce, Ledger
<1>3. Commit(L) /\ now \in Nat
  BY DEF Deposit, IInv, TypeOK, OracleTypeOK
<1>. HIDE DEF received
<1>4. /\ LedgerOK(received) /\ EntriesOnce(received)
      /\ \A u \in Users, a \in Assets : Untouched(Ledger, received, u, a)
  BY <1>1, <1>2, TokensClock DEF LedgerOK
<1>5. /\ LedgerOK(L) /\ EntriesOnce(L)
      /\ \A u \in Users, a \in Assets : Covers(received, L, u, a)
  BY <1>3, <1>4, GeneralDepositOK, GeneralDepositClock
<1>. HIDE DEF L
<1>6. \A u \in Users, a \in Assets : ClockRule(Ledger, L, u, a)
  BY <1>4, <1>5, UntouchedFirst DEF ClockRule
<1>. QED BY <1>2, <1>3, <1>5, <1>6, CommitClock

(* A withdrawal leaves a balance that is no debt. *)
LEMMA WithdrawClock ==
    ASSUME IInv, OnceListed, NEW user \in Users, NEW asset \in Assets, NEW amount \in Nat,
           Withdraw(user, asset, amount)
    PROVE  OnceListed' /\ ClocksFollow
<1>. DEFINE decimal == BaseUnitToDecimal(asset, amount)
            minus == -decimal
            L == Send(AddBalance(Ledger, user, asset, minus), user, asset, amount)
<1>1. Commit(L) /\ assetBalances[user][asset] >= decimal
  BY DEF Withdraw
<1>2. decimal \in Nat /\ minus \in Int
  BY ConversionNat
<1>. HIDE DEF decimal, minus
<1>3. Ledger \in LedgerType
  BY LedgerIsOK DEF LedgerOK
<1>4. /\ liabilities' = liabilities
      /\ assetBalances' = [assetBalances EXCEPT ![user] =
            [assetBalances[user] EXCEPT ![asset] = assetBalances[user][asset] + minus]]
  BY <1>1, <1>2, <1>3, AddBalanceFields DEF Commit, Send, Ledger
<1>5. assetBalances \in [Users -> [Assets -> Int]]
  BY DEF IInv, TypeOK, StorageTypeOK
<1>6. ~ (assetBalances[user][asset] < 0)
  BY <1>1, <1>2, <1>5
<1>7. ASSUME NEW u \in Users, NEW a \in Assets, assetBalances[u][a] < 0
      PROVE  assetBalances'[u][a] = assetBalances[u][a]
  <2>1. u # user \/ a # asset
    BY <1>6, <1>7
  <2>. QED BY <1>4, <1>5, <2>1
<1>. QED BY <1>4, <1>7, SameDebtsClock

LEMMA FillOrdersClock ==
    ASSUME PlainTrades, IInv, OnceListed, NEW sender \in Users, NEW buy \in Orders,
           NEW sell \in Orders, NEW filledPrice \in Nat, NEW filledAmount \in Nat,
           FillOrders(sender, buy, sell, filledPrice, filledAmount)
    PROVE  OnceListed' /\ ClocksFollow
<1>. DEFINE amountQuote == (filledAmount * filledPrice) \div Unit
            L == Settle(buy, sell, filledAmount, amountQuote)
<1>1. buy \in OrderType /\ sell \in OrderType
  BY StorageAssumption DEF StorageAssumption
<1>2. amountQuote \in Nat
  BY UnitAssumption, ProductNat, DivNat DEF UnitAssumption
<1>3. /\ buy.amount > 0 /\ sell.amount > 0 /\ Commit(L)
      /\ checkOrdersInfo(buy, sell, sender, filledAmount, filledPrice)
  BY DEF FillOrders
<1>. HIDE DEF amountQuote
<1>4. /\ buy \in SignedOrders /\ sell \in SignedOrders
      /\ buy.buySide = kBuy /\ sell.buySide = kSell
      /\ buy.baseAsset = sell.baseAsset /\ buy.quoteAsset = sell.quoteAsset
      /\ buy.matcherAddress = sender /\ sell.matcherAddress = sender
      /\ filledPrice <= buy.price /\ filledPrice >= sell.price
  BY <1>3 DEF checkOrdersInfo, validateOrder
<1>5. sell.price <= buy.price
  BY <1>1, <1>4 DEF OrderType
<1>6. /\ buy.senderAddress # sell.senderAddress
      /\ buy.matcherAddress # buy.senderAddress /\ sell.matcherAddress # sell.senderAddress
      /\ buy.matcherAddress = sell.matcherAddress
      /\ buy.baseAsset # buy.quoteAsset
  BY <1>4, <1>5 DEF PlainTrades
<1>7. LedgerOK(Ledger) /\ EntriesOnce(Ledger) /\ now \in Nat
  BY LedgerIsOK DEF OnceListed, EntriesOnce, Ledger, IInv, TypeOK, OracleTypeOK
<1>8. /\ LedgerOK(L) /\ EntriesOnce(L)
      /\ \A u \in Users, a \in Assets : ClockRule(Ledger, L, u, a)
  BY <1>1, <1>2, <1>3, <1>4, <1>6, <1>7, SettleOK, SettleClock
<1>. HIDE DEF L
<1>. QED BY <1>3, <1>7, <1>8, CommitClock

LEMMA NextClock ==
    ASSUME NoLiquidations, PlainTrades, IInv, OnceListed, [Next]_vars
    PROVE  OnceListed' /\ ClocksFollow
<1>1. assetBalances \in [Users -> [Assets -> Int]] /\ ORN \in Assets
  BY StorageAssumption DEF StorageAssumption, IInv, TypeOK, StorageTypeOK
<1>2. CASE UNCHANGED <<assetBalances, liabilities>>
  BY <1>2, SameDebtsClock
<1>3. CASE UserStep
  <2>1. PICK u \in Users :
           \/ \E a \in Assets : \E x \in DepositAmounts[u][a] : Deposit(u, a, x)
           \/ \E a \in Assets : \E x \in WithdrawAmounts[u][a] : Withdraw(u, a, x)
           \/ \E a \in Assets : \E x \in ApproveAmounts[u][a] : Approve(u, a, x)
           \/ \E x \in StakeAmounts[u] : LockStake(u, x)
           \/ RequestReleaseStake(u)
           \/ \E b \in Users, a \in Assets : \E x \in LiquidationAmounts[u][a] :
                 PartiallyLiquidate(u, b, a, x)
    BY <1>3 DEF UserStep
  <2>2. ASSUME NEW a \in Assets, NEW x \in DepositAmounts[u][a], Deposit(u, a, x)
        PROVE  OnceListed' /\ ClocksFollow
    BY <2>2, InputsNat, DepositClock
  <2>3. ASSUME NEW a \in Assets, NEW x \in WithdrawAmounts[u][a], Withdraw(u, a, x)
        PROVE  OnceListed' /\ ClocksFollow
    BY <2>3, InputsNat, WithdrawClock
  <2>4. ASSUME NEW a \in Assets, NEW x \in ApproveAmounts[u][a], Approve(u, a, x)
        PROVE  OnceListed' /\ ClocksFollow
    BY <1>2, <2>4 DEF Approve
  <2>5. ASSUME NEW x \in StakeAmounts[u], LockStake(u, x)
        PROVE  OnceListed' /\ ClocksFollow
    <3>1. x \in Nat
      BY InputsNat
    <3>2. /\ UNCHANGED liabilities /\ assetBalances[u][ORN] > x
          /\ assetBalances' = [assetBalances EXCEPT ![u][ORN] = @ - x]
      BY <2>5 DEF LockStake, vaultUnchanged
    <3>3. ~ (assetBalances[u][ORN] < 0)
      BY <1>1, <3>1, <3>2
    <3>4. ASSUME NEW v \in Users, NEW a \in Assets, assetBalances[v][a] < 0
          PROVE  assetBalances'[v][a] = assetBalances[v][a]
      <4>1. v # u \/ a # ORN
        BY <3>3, <3>4
      <4>. QED BY <1>1, <3>2, <4>1
    <3>. QED BY <3>2, <3>4, SameDebtsClock
  <2>6. CASE CollectStake(u)
    <3>1. /\ UNCHANGED liabilities /\ liabilities[u] = <<>>
          /\ \A v \in Users \ {u} : assetBalances'[v] = assetBalances[v]
      BY <1>1, <2>6 DEF CollectStake, vaultUnchanged
    <3>. QED BY <3>1, SameDebtsClock
  <2>7. CASE StartRelease(u)
    BY <1>2, <2>7 DEF StartRelease, vaultUnchanged
  <2>8. ~ \E b \in Users, a \in Assets : \E x \in LiquidationAmounts[u][a] :
              PartiallyLiquidate(u, b, a, x)
    BY DEF NoLiquidations
  <2>. QED BY <2>1, <2>2, <2>3, <2>4, <2>5, <2>6, <2>7, <2>8 DEF RequestReleaseStake
<1>4. CASE MatcherStep
  <2>1. PICK m \in Users, buy \in Orders, sell \in Orders, p \in FillPrices, x \in FillAmounts :
           FillOrders(m, buy, sell, p, x)
    BY <1>4 DEF MatcherStep
  <2>2. p \in Nat /\ x \in Nat
    BY ExchangeAssumption DEF ExchangeAssumption
  <2>. QED BY <2>1, <2>2, FillOrdersClock
<1>5. CASE OracleStep
  BY <1>2, <1>5 DEF OracleStep, ledgerVars
<1>6. CASE OwnerStep
  BY <1>2, <1>6 DEF OwnerStep, UpdateMarginalSettings, UpdateAssetRisks, ledgerVars,
                    PostponeStakeRelease, AllowStakeRelease, SetPhase, vaultUnchanged
<1>7. CASE UNCHANGED vars
  BY <1>2, <1>7 DEF vars
<1>. QED BY <1>3, <1>4, <1>5, <1>6, <1>7 DEF Next

LEMMA InitOnceListed == Init => OnceListed
<1>. SUFFICES ASSUME Init, NEW u \in Users PROVE Len(liabilities[u]) = 0
  BY DEF OnceListed, EntryOnce
<1>. QED BY EmptySeq DEF Init, StorageInit

(* The entries of one asset before and after a step, as the properties pick them. *)
LEMMA EntryFollows ==
    ASSUME IInv, IInv', ClocksFollow, NEW u \in Users,
           NEW i \in DOMAIN liabilities[u], NEW j \in DOMAIN liabilities'[u],
           liabilities'[u][j].asset = liabilities[u][i].asset
    PROVE  LET old == liabilities[u][i]
               new == liabilities'[u][j]
               change == BalanceChange(u, old.asset)
           IN /\ old.outstandingAmount \in Nat /\ change \in Int
              /\ \/ change >= 0 /\ Follows(old, new, change)
                 \/ change <= 0 /\ new = old
<1>. DEFINE old == liabilities[u][i]
            new == liabilities'[u][j]
<1>1. /\ liabilities[u] \in Seq(Liability) /\ liabilities'[u] \in Seq(Liability)
      /\ assetBalances \in [Users -> [Assets -> Int]]
      /\ assetBalances' \in [Users -> [Assets -> Int]]
  BY DEF IInv, TypeOK, StorageTypeOK
<1>2. i \in 1 .. Len(liabilities[u]) /\ j \in 1 .. Len(liabilities'[u])
  BY <1>1, LenProperties
<1>3. old \in Liability
  BY <1>1, <1>2, ElementOfSeq
<1>4. old.asset \in Assets /\ old.outstandingAmount \in Nat
  BY <1>3 DEF Liability
<1>5. old \in EntriesOf(liabilities[u], old.asset) /\ new \in EntriesOf(liabilities'[u], old.asset)
  BY <1>2 DEF EntriesOf
<1>6. BalanceChange(u, old.asset) \in Int
  BY <1>1, <1>4 DEF BalanceChange
<1>. QED BY <1>4, <1>5, <1>6 DEF ClocksFollow

(* Where nobody is liquidated or trades with himself, the clock of a debt is never
   restarted by less than all that was outstanding of it when the step began, in whatever
   parts the step pays it (MarginalFunctionality.sol:10-15, :256). *)
THEOREM ClockNeedsCover == NoLiquidations /\ PlainTrades => (Spec => TimerNeedsCover)
<1>. SUFFICES ASSUME NoLiquidations, PlainTrades PROVE Spec => TimerNeedsCover
  OBVIOUS
<1>1. (IInv /\ OnceListed) /\ [Next]_vars => (IInv /\ OnceListed)'
  BY NextInv, NextClock
<1>2. Init => IInv /\ OnceListed
  BY InitInv, InitOnceListed
<1>3. ASSUME IInv, OnceListed, [Next]_vars
      PROVE  \A u \in Users :
                \A i \in DOMAIN liabilities[u], j \in DOMAIN liabilities'[u] :
                   LET old == liabilities[u][i]
                       new == liabilities'[u][j]
                   IN /\ new.asset = old.asset
                      /\ new.timestamp # old.timestamp
                      => BalanceChange(u, old.asset) >= old.outstandingAmount
  <2>1. IInv' /\ ClocksFollow
    BY <1>3, NextInv, NextClock
  <2>2. ASSUME NEW u \in Users, NEW i \in DOMAIN liabilities[u], NEW j \in DOMAIN liabilities'[u],
               liabilities'[u][j].asset = liabilities[u][i].asset,
               liabilities'[u][j].timestamp # liabilities[u][i].timestamp
        PROVE  BalanceChange(u, liabilities[u][i].asset) >= liabilities[u][i].outstandingAmount
    <3>. DEFINE old == liabilities[u][i]
                new == liabilities'[u][j]
                change == BalanceChange(u, old.asset)
    <3>1. \/ change >= 0 /\ Follows(old, new, change)
          \/ change <= 0 /\ new = old
      BY <1>3, <2>1, <2>2, EntryFollows
    <3>2. new.timestamp # old.timestamp
      BY <2>2
    <3>. HIDE DEF old, new, change
    <3>3. change >= old.outstandingAmount
      BY <3>1, <3>2 DEF Follows
    <3>. QED BY <3>3 DEF old, change
  <2>. QED BY <2>2
<1>4. (IInv /\ OnceListed) /\ [Next]_vars =>
        [\A u \in Users :
            \A i \in DOMAIN liabilities[u], j \in DOMAIN liabilities'[u] :
               LET old == liabilities[u][i]
                   new == liabilities'[u][j]
               IN /\ new.asset = old.asset
                  /\ new.timestamp # old.timestamp
                  => BalanceChange(u, old.asset) >= old.outstandingAmount]_vars
  BY <1>3
<1>. QED BY <1>1, <1>2, <1>4, PTL DEF Spec, TimerNeedsCover

(* And under the same conditions a step that covers all that was outstanding of a debt does
   restart its clock: the partial covers of a transaction do not add up to it unnoticed
   (same comment: "time counter is dropped and timestamp set to now"). *)
THEOREM CoverIsNoticed == NoLiquidations /\ PlainTrades => (Spec => CoverRestartsTimer)
<1>. SUFFICES ASSUME NoLiquidations, PlainTrades PROVE Spec => CoverRestartsTimer
  OBVIOUS
<1>1. (IInv /\ OnceListed) /\ [Next]_vars => (IInv /\ OnceListed)'
  BY NextInv, NextClock
<1>2. Init => IInv /\ OnceListed
  BY InitInv, InitOnceListed
<1>3. ASSUME IInv, OnceListed, [Next]_vars
      PROVE  \A u \in Users :
                \A i \in DOMAIN liabilities[u], j \in DOMAIN liabilities'[u] :
                   LET old == liabilities[u][i]
                       new == liabilities'[u][j]
                   IN /\ new.asset = old.asset
                      /\ BalanceChange(u, old.asset) > 0
                      /\ BalanceChange(u, old.asset) >= old.outstandingAmount
                      /\ assetBalances'[u][old.asset] < 0
                      => new.timestamp = now
  <2>1. IInv' /\ ClocksFollow
    BY <1>3, NextInv, NextClock
  <2>2. ASSUME NEW u \in Users, NEW i \in DOMAIN liabilities[u], NEW j \in DOMAIN liabilities'[u],
               liabilities'[u][j].asset = liabilities[u][i].asset,
               BalanceChange(u, liabilities[u][i].asset) > 0,
               BalanceChange(u, liabilities[u][i].asset) >= liabilities[u][i].outstandingAmount
        PROVE  liabilities'[u][j].timestamp = now
    <3>. DEFINE old == liabilities[u][i]
                new == liabilities'[u][j]
                change == BalanceChange(u, old.asset)
    <3>1. /\ old.outstandingAmount \in Nat /\ change \in Int
          /\ \/ change >= 0 /\ Follows(old, new, change)
             \/ change <= 0 /\ new = old
      BY <1>3, <2>1, <2>2, EntryFollows
    <3>2. change > 0 /\ change >= old.outstandingAmount
      BY <2>2
    <3>. HIDE DEF old, new, change
    <3>3. new.timestamp = now
      BY <3>1, <3>2 DEF Follows
    <3>. QED BY <3>3 DEF new
  <2>. QED BY <2>2
<1>4. (IInv /\ OnceListed) /\ [Next]_vars =>
        [\A u \in Users :
            \A i \in DOMAIN liabilities[u], j \in DOMAIN liabilities'[u] :
               LET old == liabilities[u][i]
                   new == liabilities'[u][j]
               IN /\ new.asset = old.asset
                  /\ BalanceChange(u, old.asset) > 0
                  /\ BalanceChange(u, old.asset) >= old.outstandingAmount
                  /\ assetBalances'[u][old.asset] < 0
                  => new.timestamp = now]_vars
  BY <1>3
<1>. QED BY <1>1, <1>2, <1>4, PTL DEF Spec, CoverRestartsTimer
===============================================================================
