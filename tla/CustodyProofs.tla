----------------------------- MODULE CustodyProofs -----------------------------
(***************************************************************************)
(* What the exchange holds is what it owes: for tokens with the decimals   *)
(* of the exchange exactly, for the others up to the rounding of a         *)
(* transaction, for every set of users, assets, orders and pairs.          *)
(***************************************************************************)
EXTENDS PoolProofs

(* What a ledger owes of an asset, and what it holds beyond that. *)
Owed(L, a) == SumFunction([u \in Users |-> L.assetBalances[u][a] + Staked(u, a)])

Backing(L, a) == L.held[a] * Unit - Owed(L, a) * BaseUnit[a]

(* From L to M the balances of asset a rise by x in all, besides what comes with
   tokens; rounding gives away at most loss, and nothing of a token whose base
   unit is the exchange's unit. *)
Rounds(L, M, a, x, loss) ==
    /\ Backing(M, a) + x * BaseUnit[a] + loss >= Backing(L, a)
    /\ BaseUnit[a] = Unit => Backing(M, a) + x * BaseUnit[a] = Backing(L, a)

(* M differs from L in the balance that one user has of one asset, which rises by
   x, and in h base units that went from the user's wallet to the exchange. *)
Moves(L, M, user, asset, x, h) ==
    /\ M \in LedgerType
    /\ M.assetBalances = [L.assetBalances EXCEPT ![user] =
          [L.assetBalances[user] EXCEPT ![asset] = L.assetBalances[user][asset] + x]]
    /\ M.wallet = [L.wallet EXCEPT ![user] =
          [L.wallet[user] EXCEPT ![asset] = L.wallet[user][asset] - h]]
    /\ M.held = [L.held EXCEPT ![asset] = L.held[asset] + h]

(* The user is given amount of an asset, or gives it if it is negative, on the
   exchange or from wallet to exchange, or back; rounding gives away at most loss. *)
Gives(L, M, user, asset, amount, loss) ==
    \E x, h \in Int :
        /\ Moves(L, M, user, asset, x, h)
        /\ h * Unit + (amount - x) * BaseUnit[asset] + loss >= 0
        /\ BaseUnit[asset] = Unit => h + amount = x

At(a, asset, x) == IF a = asset THEN x ELSE 0

(* What a pull from a wallet may round off; only a debit makes one. *)
Pulled(amount) == IF amount < 0 THEN Unit - 1 ELSE 0

-------------------------------------------------------------------------------
(* The sum of the balances. *)

LEMMA UnitsPositive ==
    /\ Unit \in Nat \ {0}
    /\ \A a \in Assets : BaseUnit[a] \in Nat \ {0}
    /\ IsFiniteSet(Users) /\ ORN \in Assets
BY UnitAssumption, StorageAssumption DEF UnitAssumption, StorageAssumption

LEMMA BackingInt ==
    ASSUME VaultTypeOK, NEW L \in LedgerType, NEW a \in Assets
    PROVE  Owed(L, a) \in Int /\ Backing(L, a) \in Int /\ L.held[a] \in Int
<1>. DEFINE f == [u \in Users |-> L.assetBalances[u][a] + Staked(u, a)]
<1>1. f \in [Users -> Int] /\ DOMAIN f = Users
  BY DEF VaultTypeOK, Stake, Staked, LedgerType
<1>2. Owed(L, a) = SumFunctionOnSet(f, Users)
  BY <1>1 DEF Owed, SumFunction
<1>. HIDE DEF f
<1>3. Owed(L, a) \in Int
  BY <1>1, <1>2, UnitsPositive, SumInt
<1>4. L.held[a] \in Int /\ Unit \in Int /\ BaseUnit[a] \in Int
  BY UnitsPositive DEF LedgerType
<1>. QED BY <1>3, <1>4 DEF Backing

LEMMA MoveBacking ==
    ASSUME VaultTypeOK, NEW L \in LedgerType, NEW M, NEW user \in Users, NEW asset \in Assets,
           NEW x \in Int, NEW h \in Int, Moves(L, M, user, asset, x, h), NEW a \in Assets
    PROVE  Backing(M, a) = Backing(L, a)
                           + (IF a = asset THEN h * Unit - x * BaseUnit[a] ELSE 0)
<1>. DEFINE f == [u \in Users |-> L.assetBalances[u][a] + Staked(u, a)]
            g == [u \in Users |-> M.assetBalances[u][a] + Staked(u, a)]
<1>1. M \in LedgerType
  BY DEF Moves
<1>2. f \in [Users -> Int] /\ DOMAIN f = Users /\ g \in [Users -> Int] /\ DOMAIN g = Users
  <2>1. \A u \in Users : Staked(u, a) \in Int
    BY DEF VaultTypeOK, Stake, Staked
  <2>2. \A u \in Users : L.assetBalances[u][a] \in Int /\ M.assetBalances[u][a] \in Int
    BY <1>1 DEF LedgerType
  <2>. QED BY <2>1, <2>2
<1>3. Owed(L, a) = SumFunctionOnSet(f, Users) /\ Owed(M, a) = SumFunctionOnSet(g, Users)
  BY <1>2 DEF Owed, SumFunction
<1>4. /\ \A u \in Users \ {user} : g[u] = f[u]
      /\ g[user] - f[user] = IF a = asset THEN x ELSE 0
  <2>0. L.assetBalances \in [Users -> [Assets -> Int]]
    BY DEF LedgerType
  <2>1. /\ \A u \in Users \ {user} : M.assetBalances[u][a] = L.assetBalances[u][a]
        /\ M.assetBalances[user][a] = L.assetBalances[user][a] + IF a = asset THEN x ELSE 0
        /\ L.assetBalances[user][a] \in Int
    BY <2>0 DEF Moves
  <2>2. Staked(user, a) \in Int
    BY DEF VaultTypeOK, Stake, Staked
  <2>. QED BY <2>1, <2>2
<1>. HIDE DEF f, g
<1>5. SumFunctionOnSet(g, Users) =
         SumFunctionOnSet(f, Users) + (IF user \in Users THEN g[user] - f[user] ELSE 0)
  BY <1>2, <1>4, UnitsPositive, SumChange
<1>6. Owed(M, a) = Owed(L, a) + (IF a = asset THEN x ELSE 0)
  BY <1>3, <1>4, <1>5
<1>7. M.held[a] = L.held[a] + (IF a = asset THEN h ELSE 0) /\ L.held[a] \in Int
  <2>1. L.held \in [Assets -> Nat]
    BY DEF LedgerType
  <2>. QED BY <2>1 DEF Moves
<1>8. Owed(L, a) \in Int /\ Unit \in Int /\ BaseUnit[a] \in Int
  BY BackingInt, UnitsPositive
<1>. QED BY <1>6, <1>7, <1>8 DEF Backing

LEMMA SameBacking ==
    ASSUME NEW L, NEW M, M.assetBalances = L.assetBalances, M.held = L.held, NEW a
    PROVE  Backing(M, a) = Backing(L, a)
BY DEF Backing, Owed

(* Two steps of a transaction. *)
LEMMA RoundsChain ==
    ASSUME VaultTypeOK, NEW K \in LedgerType, NEW L \in LedgerType, NEW M \in LedgerType,
           NEW a \in Assets, NEW x \in Int, NEW y \in Int, NEW lossX \in Int, NEW lossY \in Int,
           Rounds(K, L, a, x, lossX), Rounds(L, M, a, y, lossY)
    PROVE  Rounds(K, M, a, x + y, lossX + lossY)
<1>1. /\ Backing(K, a) \in Int /\ Backing(L, a) \in Int /\ Backing(M, a) \in Int
      /\ BaseUnit[a] \in Int
  BY BackingInt, UnitsPositive
<1>2. (x + y) * BaseUnit[a] = x * BaseUnit[a] + y * BaseUnit[a]
      /\ x * BaseUnit[a] \in Int /\ y * BaseUnit[a] \in Int
  BY <1>1
<1>. QED BY <1>1, <1>2 DEF Rounds

(* What is given to one user comes out of what backs the balances. *)
LEMMA GivesRounds ==
    ASSUME VaultTypeOK, NEW L \in LedgerType, NEW M, NEW user \in Users, NEW asset \in Assets,
           NEW y \in Int, NEW loss \in Int, Gives(L, M, user, asset, y, loss),
           NEW a \in Assets
    PROVE  Rounds(L, M, a, At(a, asset, y), At(a, asset, loss))
<1>. PICK x \in Int, h \in Int :
        /\ Moves(L, M, user, asset, x, h)
        /\ h * Unit + (y - x) * BaseUnit[asset] + loss >= 0
        /\ BaseUnit[asset] = Unit => h + y = x
  BY DEF Gives
<1>. USE DEF At
<1>1. Backing(M, a) = Backing(L, a) + (IF a = asset THEN h * Unit - x * BaseUnit[a] ELSE 0)
  BY MoveBacking
<1>2. Backing(L, a) \in Int /\ Unit \in Int /\ BaseUnit[a] \in Int
  BY BackingInt, UnitsPositive
<1>3. CASE a # asset
  <2>1. Backing(M, a) = Backing(L, a)
    BY <1>1, <1>2, <1>3
  <2>2. 0 * BaseUnit[a] = 0
    BY <1>2
  <2>. QED BY <1>2, <1>3, <2>1, <2>2 DEF Rounds
<1>4. CASE a = asset
  <2>1. Backing(M, a) = Backing(L, a) + (h * Unit - x * BaseUnit[a])
    BY <1>1, <1>4
  <2>2. (y - x) * BaseUnit[a] = y * BaseUnit[a] - x * BaseUnit[a]
        /\ y * BaseUnit[a] \in Int /\ x * BaseUnit[a] \in Int /\ h * Unit \in Int
    BY <1>2
  <2>3. Backing(M, a) + y * BaseUnit[a] + loss >= Backing(L, a)
    BY <1>2, <1>4, <2>1, <2>2
  <2>4. BaseUnit[a] = Unit => Backing(M, a) + y * BaseUnit[a] = Backing(L, a)
    <3>. SUFFICES ASSUME BaseUnit[a] = Unit
                  PROVE  Backing(M, a) + y * BaseUnit[a] = Backing(L, a)
      OBVIOUS
    <3>1. x = h + y
      BY <1>4
    <3>2. x * BaseUnit[a] = h * Unit + y * BaseUnit[a]
      BY <1>2, <3>1
    <3>. DEFINE b == Backing(L, a)
                p == h * Unit
                q == x * BaseUnit[a]
                r == y * BaseUnit[a]
    <3>3. b \in Int /\ p \in Int /\ q \in Int /\ r \in Int
      BY <1>2, <2>2
    <3>4. Backing(M, a) = b + (p - q) /\ q = p + r
      BY <2>1, <3>2
    <3>. HIDE DEF b, p, q, r
    <3>5. Backing(M, a) + r = b
      BY <3>3, <3>4
    <3>. QED BY <3>5 DEF b, r
  <2>. QED BY <1>4, <2>3, <2>4 DEF Rounds
<1>. QED BY <1>3, <1>4

-------------------------------------------------------------------------------
(* The rounding of conversions. *)

LEMMA DivBounds ==
    ASSUME NEW x \in Nat, NEW d \in Nat \ {0}
    PROVE  /\ (x \div d) * d <= x
           /\ x < (x \div d) * d + d
OBVIOUS

LEMMA DivExact ==
    ASSUME NEW x \in Nat, NEW d \in Nat \ {0}
    PROVE  (x * d) \div d = x
OBVIOUS

LEMMA ToBaseUnit ==
    ASSUME NEW asset \in Assets, NEW amount \in Nat
    PROVE  LET base == DecimalToBaseUnit(asset, amount) IN
           /\ base \in Nat
           /\ base * Unit <= amount * BaseUnit[asset]
           /\ amount * BaseUnit[asset] < base * Unit + Unit
           /\ BaseUnit[asset] = Unit => base = amount
<1>1. Unit \in Nat \ {0} /\ BaseUnit[asset] \in Nat \ {0}
  BY UnitsPositive
<1>2. amount * BaseUnit[asset] \in Nat
  BY <1>1, ProductNat
<1>3. DecimalToBaseUnit(asset, amount) \in Nat
  BY ConversionNat
<1>. QED BY <1>1, <1>2, <1>3, DivBounds, DivExact DEF DecimalToBaseUnit

LEMMA ToDecimal ==
    ASSUME NEW asset \in Assets, NEW amount \in Nat
    PROVE  LET decimal == BaseUnitToDecimal(asset, amount) IN
           /\ decimal \in Nat
           /\ decimal * BaseUnit[asset] <= amount * Unit
           /\ amount * Unit < decimal * BaseUnit[asset] + BaseUnit[asset]
           /\ BaseUnit[asset] = Unit => decimal = amount
<1>1. Unit \in Nat \ {0} /\ BaseUnit[asset] \in Nat \ {0}
  BY UnitsPositive
<1>2. amount * Unit \in Nat
  BY <1>1, ProductNat
<1>3. BaseUnitToDecimal(asset, amount) \in Nat
  BY ConversionNat
<1>. QED BY <1>1, <1>2, <1>3, DivBounds, DivExact DEF BaseUnitToDecimal

-------------------------------------------------------------------------------
(* The steps of a transaction, as moves. *)

LEMMA AddBalanceMoves ==
    ASSUME NEW L \in LedgerType, NEW user \in Users, NEW asset \in Assets, NEW amount \in Int
    PROVE  Moves(L, AddBalance(L, user, asset, amount), user, asset, amount, 0)
<1>. DEFINE M == AddBalance(L, user, asset, amount)
<1>1. /\ M \in LedgerType /\ M.wallet = L.wallet /\ M.held = L.held
      /\ M.assetBalances = [L.assetBalances EXCEPT ![user] =
            [L.assetBalances[user] EXCEPT ![asset] = L.assetBalances[user][asset] + amount]]
  BY AddBalanceFields
<1>2. /\ L.wallet = [L.wallet EXCEPT ![user] =
            [L.wallet[user] EXCEPT ![asset] = L.wallet[user][asset] - 0]]
      /\ L.held = [L.held EXCEPT ![asset] = L.held[asset] + 0]
  BY DEF LedgerType
<1>. HIDE DEF M
<1>3. Moves(L, M, user, asset, amount, 0)
  BY <1>1, <1>2 DEF Moves
<1>. QED BY <1>3 DEF M

LEMMA ReceiveMoves ==
    ASSUME NEW L \in LedgerType, NEW user \in Users, NEW asset \in Assets, NEW base \in Nat,
           CanReceive(L, user, asset, base)
    PROVE  Moves(L, Receive(L, user, asset, base), user, asset, 0, base)
<1>. DEFINE M == Receive(L, user, asset, base)
<1>1. M \in LedgerType /\ M.assetBalances = L.assetBalances
  BY ReceiveFields
<1>2. /\ M.wallet = [L.wallet EXCEPT ![user] =
            [L.wallet[user] EXCEPT ![asset] = L.wallet[user][asset] - base]]
      /\ M.held = [L.held EXCEPT ![asset] = L.held[asset] + base]
  BY DEF Receive, LedgerType
<1>3. L.assetBalances = [L.assetBalances EXCEPT ![user] =
         [L.assetBalances[user] EXCEPT ![asset] = L.assetBalances[user][asset] + 0]]
  BY DEF LedgerType
<1>. HIDE DEF M
<1>4. Moves(L, M, user, asset, 0, base)
  BY <1>1, <1>2, <1>3 DEF Moves
<1>. QED BY <1>4 DEF M

LEMMA SendMoves ==
    ASSUME NEW L \in LedgerType, NEW user \in Users, NEW asset \in Assets, NEW base \in Nat,
           L.held[asset] >= base
    PROVE  Moves(L, Send(L, user, asset, base), user, asset, 0, -base)
<1>. DEFINE M == Send(L, user, asset, base)
<1>1. M \in LedgerType /\ M.assetBalances = L.assetBalances
  BY SendFields
<1>2. /\ M.wallet = [L.wallet EXCEPT ![user] =
            [L.wallet[user] EXCEPT ![asset] = L.wallet[user][asset] + base]]
      /\ M.held = [L.held EXCEPT ![asset] = L.held[asset] - base]
  BY DEF Send, LedgerType
<1>3. L.assetBalances = [L.assetBalances EXCEPT ![user] =
         [L.assetBalances[user] EXCEPT ![asset] = L.assetBalances[user][asset] + 0]]
  BY DEF LedgerType
<1>4. /\ L.wallet[user][asset] - (-base) = L.wallet[user][asset] + base
      /\ L.held[asset] + (-base) = L.held[asset] - base
  BY DEF LedgerType
<1>. HIDE DEF M
<1>5. Moves(L, M, user, asset, 0, -base)
  BY <1>1, <1>2, <1>3, <1>4 DEF Moves
<1>. QED BY <1>5 DEF M

(* Two moves of one user and asset make one. *)
LEMMA MovesChain ==
    ASSUME NEW K \in LedgerType, NEW L, NEW M, NEW user \in Users, NEW asset \in Assets,
           NEW x \in Int, NEW h \in Int, NEW y \in Int, NEW k \in Int,
           Moves(K, L, user, asset, x, h), Moves(L, M, user, asset, y, k)
    PROVE  Moves(K, M, user, asset, x + y, h + k)
<1>1. M \in LedgerType /\ L \in LedgerType
  BY DEF Moves
<1>2. M.assetBalances = [K.assetBalances EXCEPT ![user] =
         [K.assetBalances[user] EXCEPT ![asset] = K.assetBalances[user][asset] + (x + y)]]
  <2>1. K.assetBalances \in [Users -> [Assets -> Int]]
    BY DEF LedgerType
  <2>2. L.assetBalances[user] =
           [K.assetBalances[user] EXCEPT ![asset] = K.assetBalances[user][asset] + x]
    BY <2>1 DEF Moves
  <2>3. L.assetBalances[user][asset] + y = K.assetBalances[user][asset] + (x + y)
    BY <2>1, <2>2
  <2>. QED BY <2>1, <2>2, <2>3 DEF Moves
<1>3. M.wallet = [K.wallet EXCEPT ![user] =
         [K.wallet[user] EXCEPT ![asset] = K.wallet[user][asset] - (h + k)]]
  <2>1. K.wallet \in [Users -> [Assets -> Nat]]
    BY DEF LedgerType
  <2>2. L.wallet[user] =
           [K.wallet[user] EXCEPT ![asset] = K.wallet[user][asset] - h]
    BY <2>1 DEF Moves
  <2>3. L.wallet[user][asset] - k = K.wallet[user][asset] - (h + k)
    BY <2>1, <2>2
  <2>. QED BY <2>1, <2>2, <2>3 DEF Moves
<1>4. M.held = [K.held EXCEPT ![asset] = K.held[asset] + (h + k)]
  <2>1. K.held \in [Assets -> Nat]
    BY DEF LedgerType
  <2>2. L.held[asset] + k = K.held[asset] + (h + k)
    BY <2>1 DEF Moves
  <2>. QED BY <2>1, <2>2 DEF Moves
<1>. QED BY <1>1, <1>2, <1>3, <1>4 DEF Moves

(* Another ledger with the same balances, wallets and tokens will do. *)
LEMMA MovesSame ==
    ASSUME NEW L, NEW M, NEW user, NEW asset, NEW x, NEW h, Moves(L, M, user, asset, x, h),
           NEW K, K.assetBalances = L.assetBalances, K.wallet = L.wallet, K.held = L.held,
           NEW N \in LedgerType, N.assetBalances = M.assetBalances, N.wallet = M.wallet,
           N.held = M.held
    PROVE  Moves(K, N, user, asset, x, h)
BY DEF Moves

LEMMA UpdateBalanceGives ==
    ASSUME NEW L, LedgerOK(L), now \in Nat, NEW user \in Users, NEW asset \in Assets,
           NEW amount \in Int
    PROVE  Gives(L, _updateBalance(L, user, asset, amount).ledger, user, asset, amount,
                 Pulled(amount))
<1>. DEFINE before == L.assetBalances[user][asset]
            after == before + amount
            short == before >= 0 /\ after < 0
            updated == AddBalance(L, user, asset, amount)
            checked == Require(L, asset = ETH \/ FitsInt112(DecimalToBaseUnit(asset, -after)))
            result == _updateBalance(L, user, asset, amount)
            M == result.ledger
<1>1. L \in LedgerType /\ before \in Int /\ after \in Int
  BY DEF LedgerOK, LedgerType
<1>2. M \in LedgerType
  BY UpdateBalanceOK DEF LedgerOK
<1>3. /\ checked \in LedgerType
      /\ checked.assetBalances = L.assetBalances /\ checked.held = L.held
      /\ checked.wallet = L.wallet /\ checked.allowance = L.allowance
  <2>1. (asset = ETH \/ FitsInt112(DecimalToBaseUnit(asset, -after))) \in BOOLEAN
    BY DEF FitsInt112
  <2>. QED BY <1>1, <2>1, RequireFields
<1>4. /\ Unit \in Int /\ Unit >= 1 /\ BaseUnit[asset] \in Int
      /\ Pulled(amount) \in Int /\ Pulled(amount) >= 0
  BY UnitsPositive DEF Pulled
<1>5. ASSUME NEW N, Moves(L, N, user, asset, amount, 0),
             M.assetBalances = N.assetBalances, M.wallet = N.wallet, M.held = N.held
      PROVE  Gives(L, M, user, asset, amount, Pulled(amount))
  <2>1. Moves(L, M, user, asset, amount, 0)
    BY <1>2, <1>5, MovesSame
  <2>2. 0 * Unit + (amount - amount) * BaseUnit[asset] + Pulled(amount) >= 0
    BY <1>4
  <2>3. 0 + amount = amount /\ 0 \in Int
    OBVIOUS
  <2>. HIDE DEF M
  <2>. QED BY <2>1, <2>2, <2>3 DEF Gives
<1>6. Moves(L, updated, user, asset, amount, 0)
  BY <1>1, AddBalanceMoves
<1>7. CASE amount > 0 /\ before < 0
  <2>1. result = [ledger |-> coverLiability(updated, user, asset, amount, after),
                  fromWallet |-> FALSE]
    BY <1>1, <1>7, UpdateBalanceCases
  <2>2. M = coverLiability(updated, user, asset, amount, after) /\ updated \in LedgerType
    BY <1>6, <2>1 DEF Moves
  <2>. HIDE DEF M, updated
  <2>3. /\ M.assetBalances = updated.assetBalances
        /\ M.wallet = updated.wallet /\ M.held = updated.held
    BY <2>2, ListsKeepTokens
  <2>. QED BY <1>5, <1>6, <2>3 DEF M
<1>8. CASE short /\ CanPull(L, user, asset, -after)
  <2>. DEFINE base == DecimalToBaseUnit(asset, -after)
              pulled == Receive(checked, user, asset, base)
  <2>1. result = [ledger |-> AddBalance(pulled, user, asset, -before),
                  fromWallet |-> before = 0]
    BY <1>1, <1>8, UpdateBalanceCases DEF _tryDeposit
  <2>2. M = AddBalance(pulled, user, asset, -before)
    BY <2>1
  <2>3. -after \in Nat /\ -before \in Int /\ amount < 0
    BY <1>1, <1>8
  <2>4. CanReceive(checked, user, asset, base)
    BY <1>3, <1>8 DEF CanPull, CanReceive
  <2>5. /\ base \in Nat
        /\ (-after) * BaseUnit[asset] < base * Unit + Unit
        /\ BaseUnit[asset] = Unit => base = -after
    BY <2>3, ToBaseUnit
  <2>. HIDE DEF base, checked, M, result
  <2>. HIDE DEF before, after
  <2>6. Moves(checked, pulled, user, asset, 0, base) /\ pulled \in LedgerType
    <3>1. Moves(checked, pulled, user, asset, 0, base)
      BY <1>3, <2>4, <2>5, ReceiveMoves
    <3>. HIDE DEF pulled
    <3>. QED BY <3>1 DEF Moves
  <2>. USE DEF before, after
  <2>. HIDE DEF pulled
  <2>7. Moves(pulled, M, user, asset, -before, 0)
    BY <2>2, <2>3, <2>6, AddBalanceMoves
  <2>8. Moves(checked, M, user, asset, 0 + (-before), base + 0)
    BY <1>3, <2>3, <2>5, <2>6, <2>7, MovesChain
  <2>9. Moves(checked, M, user, asset, -before, base)
    <3>1. 0 + (-before) = -before /\ base + 0 = base
      BY <2>3, <2>5
    <3>. QED BY <2>8, <3>1
  <2>10. Moves(L, M, user, asset, -before, base)
    BY <1>2, <1>3, <2>9, MovesSame DEF M, result
  <2>11. base * Unit + (amount - (-before)) * BaseUnit[asset] + Pulled(amount) >= 0
    <3>1. amount - (-before) = after /\ Pulled(amount) = Unit - 1
      BY <1>1, <2>3 DEF Pulled
    <3>2. (-after) * BaseUnit[asset] = -(after * BaseUnit[asset])
          /\ after * BaseUnit[asset] \in Int /\ base * Unit \in Int
      BY <1>1, <1>4, <2>5
    <3>. QED BY <1>4, <2>5, <3>1, <3>2
  <2>12. BaseUnit[asset] = Unit => base + amount = -before
    BY <1>1, <2>5
  <2>13. -before \in Int /\ base \in Int
    BY <2>3, <2>5
  <2>14. Gives(L, M, user, asset, amount, Pulled(amount))
    BY <2>10, <2>11, <2>12, <2>13 DEF Gives
  <2>. QED BY <2>14 DEF M, result
<1>9. CASE short /\ ~CanPull(L, user, asset, -after)
  <2>. DEFINE added == AddBalance(checked, user, asset, amount)
  <2>1. result = [ledger |-> setLiability(added, user, asset, after), fromWallet |-> FALSE]
    BY <1>1, <1>9, UpdateBalanceCases
  <2>2. M = setLiability(added, user, asset, after)
    BY <2>1
  <2>. HIDE DEF checked, M, result
  <2>3. Moves(checked, added, user, asset, amount, 0)
    BY <1>3, AddBalanceMoves
  <2>. HIDE DEF added
  <2>6. added \in LedgerType
    BY <2>3 DEF Moves
  <2>4. Moves(L, added, user, asset, amount, 0)
    BY <1>3, <2>3, <2>6, MovesSame
  <2>5. /\ M.assetBalances = added.assetBalances
        /\ M.wallet = added.wallet /\ M.held = added.held
    BY <2>2, <2>6, ListsKeepTokens
  <2>. QED BY <1>5, <2>4, <2>5 DEF M, result
<1>10. CASE ~short /\ ~(amount > 0 /\ before < 0)
  <2>1. result = [ledger |-> updated, fromWallet |-> FALSE]
    BY <1>1, <1>10, UpdateBalanceCases
  <2>2. M = updated
    BY <2>1
  <2>. HIDE DEF M, updated
  <2>. QED BY <1>5, <1>6, <2>2 DEF M
<1>. QED BY <1>7, <1>8, <1>9, <1>10

LEMMA GivesNothing ==
    ASSUME NEW L \in LedgerType, NEW user \in Users, NEW asset \in Assets
    PROVE  Gives(L, L, user, asset, 0, 0)
<1>1. /\ L.assetBalances = [L.assetBalances EXCEPT ![user] =
            [L.assetBalances[user] EXCEPT ![asset] = L.assetBalances[user][asset] + 0]]
  BY DEF LedgerType
<1>2. L.wallet = [L.wallet EXCEPT ![user] =
         [L.wallet[user] EXCEPT ![asset] = L.wallet[user][asset] - 0]]
  BY DEF LedgerType
<1>3. L.held = [L.held EXCEPT ![asset] = L.held[asset] + 0]
  BY DEF LedgerType
<1>4. Moves(L, L, user, asset, 0, 0)
  BY <1>1, <1>2, <1>3 DEF Moves
<1>5. 0 * Unit + (0 - 0) * BaseUnit[asset] + 0 >= 0
  BY UnitsPositive
<1>. QED BY <1>4, <1>5 DEF Gives

LEMMA GivesChain ==
    ASSUME NEW K \in LedgerType, NEW L, NEW M, NEW user \in Users, NEW asset \in Assets,
           NEW y \in Int, NEW z \in Int, NEW lossY \in Int, NEW lossZ \in Int,
           Gives(K, L, user, asset, y, lossY), Gives(L, M, user, asset, z, lossZ)
    PROVE  Gives(K, M, user, asset, y + z, lossY + lossZ)
<1>1. PICK x1 \in Int, h1 \in Int :
         /\ Moves(K, L, user, asset, x1, h1)
         /\ h1 * Unit + (y - x1) * BaseUnit[asset] + lossY >= 0
         /\ BaseUnit[asset] = Unit => h1 + y = x1
  BY DEF Gives
<1>2. PICK x2 \in Int, h2 \in Int :
         /\ Moves(L, M, user, asset, x2, h2)
         /\ h2 * Unit + (z - x2) * BaseUnit[asset] + lossZ >= 0
         /\ BaseUnit[asset] = Unit => h2 + z = x2
  BY DEF Gives
<1>3. Moves(K, M, user, asset, x1 + x2, h1 + h2)
  BY <1>1, <1>2, MovesChain
<1>4. (h1 + h2) * Unit + ((y + z) - (x1 + x2)) * BaseUnit[asset] + (lossY + lossZ) >= 0
  <2>1. Unit \in Int /\ BaseUnit[asset] \in Int
    BY UnitsPositive
  <2>2. ((y + z) - (x1 + x2)) * BaseUnit[asset]
           = (y - x1) * BaseUnit[asset] + (z - x2) * BaseUnit[asset]
        /\ (h1 + h2) * Unit = h1 * Unit + h2 * Unit
    BY <2>1
  <2>3. /\ (y - x1) * BaseUnit[asset] \in Int /\ (z - x2) * BaseUnit[asset] \in Int
        /\ h1 * Unit \in Int /\ h2 * Unit \in Int
    BY <2>1
  <2>. QED BY <1>1, <1>2, <2>2, <2>3
<1>5. BaseUnit[asset] = Unit => (h1 + h2) + (y + z) = x1 + x2
  BY <1>1, <1>2
<1>6. h1 + h2 \in Int /\ x1 + x2 \in Int
  OBVIOUS
<1>. QED BY <1>3, <1>4, <1>5, <1>6 DEF Gives

LEMMA CreditGives ==
    ASSUME NEW L, LedgerOK(L), now \in Nat, NEW fromWallet, NEW user \in Users,
           NEW amount \in Int, NEW asset \in Assets
    PROVE  Gives(L, creditUserAssets(L, fromWallet, user, amount, asset), user, asset, amount,
                 Pulled(amount))
<1>. DEFINE before == L.assetBalances[user][asset]
            remaining == amount + before
            base == DecimalToBaseUnit(asset, remaining)
            toWallet == fromWallet /\ remaining > 0 /\ before <= 0
            checked == Require(L, toWallet => FitsInt112(base))
            sent == toWallet /\ L.held[asset] >= base
            toUpdate == IF sent THEN -before ELSE amount
            paid == IF sent THEN Send(checked, user, asset, base) ELSE checked
            M == creditUserAssets(L, fromWallet, user, amount, asset)
<1>1. L \in LedgerType /\ before \in Int /\ remaining \in Int
  BY DEF LedgerOK, LedgerType
<1>2. /\ checked \in LedgerType
      /\ checked.assetBalances = L.assetBalances /\ checked.liabilities = L.liabilities
      /\ checked.wallet = L.wallet /\ checked.held = L.held
  <2>1. (toWallet => FitsInt112(base)) \in BOOLEAN
    OBVIOUS
  <2>. QED BY <1>1, <2>1, RequireFields
<1>3. LedgerOK(checked)
  BY <1>2 DEF LedgerOK
<1>4. M = IF toUpdate = 0 THEN paid ELSE _updateBalance(paid, user, asset, toUpdate).ledger
  BY DEF creditUserAssets
<1>5. ASSUME NEW N, LedgerOK(N), NEW x \in Int,
             M = IF x = 0 THEN N ELSE _updateBalance(N, user, asset, x).ledger
      PROVE  Gives(N, M, user, asset, x, Pulled(x))
  <2>. HIDE DEF M
  <2>1. CASE x = 0
    <3>1. M = N /\ N \in LedgerType /\ Pulled(x) = 0
      BY <1>5, <2>1 DEF Pulled, LedgerOK
    <3>. QED BY <2>1, <3>1, GivesNothing
  <2>2. CASE x # 0
    BY <1>5, <2>2, UpdateBalanceGives
  <2>. QED BY <2>1, <2>2
<1>6. CASE sent
  <2>1. base \in Nat /\ base * Unit <= remaining * BaseUnit[asset]
        /\ (BaseUnit[asset] = Unit => base = remaining)
    BY <1>1, <1>6, ToBaseUnit
  <2>2. checked.held[asset] >= base /\ paid = Send(checked, user, asset, base)
        /\ toUpdate = -before /\ amount >= 0 /\ -before >= 0
    BY <1>1, <1>2, <1>6
  <2>. HIDE DEF base, checked, paid, M
  <2>3. /\ paid \in LedgerType
        /\ paid.assetBalances = checked.assetBalances
        /\ paid.liabilities = checked.liabilities
    BY <1>2, <2>1, <2>2, SendFields
  <2>4. LedgerOK(paid)
    BY <1>3, <2>3 DEF LedgerOK
  <2>5. Gives(L, paid, user, asset, remaining, 0)
    <3>1. Moves(checked, paid, user, asset, 0, -base)
      BY <1>2, <2>1, <2>2, SendMoves
    <3>2. Moves(L, paid, user, asset, 0, -base)
      BY <1>2, <2>3, <3>1, MovesSame
    <3>3. (-base) * Unit + (remaining - 0) * BaseUnit[asset] + 0 >= 0
      <4>1. Unit \in Int /\ BaseUnit[asset] \in Int
        BY UnitsPositive
      <4>2. (-base) * Unit = -(base * Unit) /\ base * Unit \in Int
            /\ remaining - 0 = remaining /\ remaining * BaseUnit[asset] \in Int
        BY <1>1, <2>1, <4>1
      <4>. QED BY <2>1, <4>2
    <3>4. -base \in Int /\ (BaseUnit[asset] = Unit => (-base) + remaining = 0)
      BY <2>1
    <3>. QED BY <3>2, <3>3, <3>4 DEF Gives
  <2>6. Gives(paid, M, user, asset, -before, Pulled(-before))
    BY <1>1, <1>4, <1>5, <2>2, <2>4
  <2>7. Pulled(-before) = 0 /\ Pulled(amount) = 0 /\ remaining + (-before) = amount
        /\ -before \in Int /\ 0 + 0 = 0
    BY <1>1, <2>2 DEF Pulled
  <2>. HIDE DEF remaining, before
  <2>8. Gives(L, M, user, asset, remaining + (-before), 0 + 0)
    BY <1>1, <2>5, <2>6, <2>7, GivesChain
  <2>. QED BY <2>7, <2>8 DEF M
<1>7. CASE ~sent
  <2>1. paid = checked /\ toUpdate = amount
    BY <1>7
  <2>. HIDE DEF checked, paid, M
  <2>2. Gives(checked, M, user, asset, amount, Pulled(amount))
    BY <1>3, <1>4, <1>5, <2>1
  <2>3. Gives(L, M, user, asset, amount, Pulled(amount))
    <3>1. PICK x \in Int, h \in Int :
             /\ Moves(checked, M, user, asset, x, h)
             /\ h * Unit + (amount - x) * BaseUnit[asset] + Pulled(amount) >= 0
             /\ BaseUnit[asset] = Unit => h + amount = x
      BY <2>2 DEF Gives
    <3>2. M \in LedgerType
      BY <3>1 DEF Moves
    <3>3. Moves(L, M, user, asset, x, h)
      BY <1>2, <3>1, <3>2, MovesSame
    <3>. QED BY <3>1, <3>3 DEF Gives
  <2>. QED BY <2>3 DEF M
<1>. QED BY <1>6, <1>7

-------------------------------------------------------------------------------
(* The operations that make up a fill. *)

(* The assets that an order gives and takes, and in what amounts. *)
OutAsset(order, isSeller) == IF isSeller THEN order.baseAsset ELSE order.quoteAsset
InAsset(order, isSeller) == IF isSeller THEN order.quoteAsset ELSE order.baseAsset

FeeFromOut(order, isSeller) == order.matcherFeeAsset = OutAsset(order, isSeller)
FeeFromIn(order, isSeller) ==
    ~FeeFromOut(order, isSeller) /\ order.matcherFeeAsset = InAsset(order, isSeller)

(* The debit of an order: the fee if no other asset pays it, what is given, and
   what the matcher gets. *)
Debits(L, D, order, isSeller, amountOut, fee) ==
    LET user == order.senderAddress
        ownFee == IF FeeFromOut(order, isSeller) \/ FeeFromIn(order, isSeller)
                  THEN 0 ELSE -fee
        given == -amountOut - (IF FeeFromOut(order, isSeller) THEN fee ELSE 0)
    IN \E K, N \in LedgerType :
         /\ Gives(L, K, user, order.matcherFeeAsset, ownFee, Pulled(ownFee))
         /\ Gives(K, N, user, OutAsset(order, isSeller), given, Pulled(given))
         /\ Gives(N, D, order.matcherAddress, order.matcherFeeAsset, fee, 0)

LEMMA DebitGives ==
    ASSUME NEW L, LedgerOK(L), NEW order \in OrderType, NEW isSeller \in BOOLEAN,
           NEW amountBase \in Nat, NEW amountQuote \in Nat, NEW fee \in Nat, now \in Nat,
           amountBase # 0
    PROVE  LET D == updateOrderBalanceDebit(L, order, isSeller, amountBase, amountQuote, fee)
           IN /\ Debits(L, D.ledger, order, isSeller,
                        IF isSeller THEN amountBase ELSE amountQuote, fee)
              /\ D.actualIn = (IF isSeller THEN amountQuote ELSE amountBase)
                              - (IF FeeFromIn(order, isSeller) THEN fee ELSE 0)
<1>. DEFINE user == order.senderAddress
            assetOut == IF isSeller THEN order.baseAsset ELSE order.quoteAsset
            assetIn == IF isSeller THEN order.quoteAsset ELSE order.baseAsset
            amountOut == IF isSeller THEN amountBase ELSE amountQuote
            amountIn == IF isSeller THEN amountQuote ELSE amountBase
            feeOut == order.matcherFeeAsset = assetOut
            feeIn == ~feeOut /\ order.matcherFeeAsset = assetIn
            paid == IF feeOut \/ feeIn THEN [ledger |-> L, fromWallet |-> TRUE]
                    ELSE _updateBalance(L, user, order.matcherFeeAsset, -fee)
            ownFee == IF feeOut \/ feeIn THEN 0 ELSE -fee
            given == -amountOut - (IF feeOut THEN fee ELSE 0)
            debited == _updateBalance(paid.ledger, user, assetOut, given)
            matched == _updateBalance(debited.ledger, order.matcherAddress,
                                      order.matcherFeeAsset, fee)
            D == updateOrderBalanceDebit(L, order, isSeller, amountBase, amountQuote, fee)
<1>1. /\ user \in Users /\ order.matcherAddress \in Users
      /\ order.matcherFeeAsset \in Assets /\ assetOut \in Assets
      /\ amountOut \in Nat /\ amountIn \in Nat /\ given \in Int /\ -fee \in Int
      /\ fee \in Int /\ ~(fee < 0)
  BY DEF OrderType
<1>2. D = IF amountBase = 0 THEN [ledger |-> L, fromWallet |-> FALSE, actualIn |-> 0]
          ELSE [ledger |-> matched.ledger,
                fromWallet |-> paid.fromWallet /\ debited.fromWallet,
                actualIn |-> amountIn - (IF feeIn THEN fee ELSE 0)]
  BY DEF updateOrderBalanceDebit
<1>3. D.ledger = matched.ledger /\ D.actualIn = amountIn - (IF feeIn THEN fee ELSE 0)
  BY <1>2
<1>. HIDE DEF D, given
<1>4. /\ LedgerOK(paid.ledger)
      /\ Gives(L, paid.ledger, user, order.matcherFeeAsset, ownFee, Pulled(ownFee))
  <2>1. CASE feeOut \/ feeIn
    <3>1. paid.ledger = L /\ ownFee = 0 /\ Pulled(ownFee) = 0
      BY <2>1 DEF Pulled
    <3>2. L \in LedgerType
      BY DEF LedgerOK
    <3>. HIDE DEF paid, user, ownFee
    <3>. QED BY <1>1, <3>1, <3>2, GivesNothing
  <2>2. CASE ~ (feeOut \/ feeIn)
    <3>1. paid = _updateBalance(L, user, order.matcherFeeAsset, -fee) /\ ownFee = -fee
      BY <2>2
    <3>. HIDE DEF paid, user, ownFee
    <3>. QED BY <1>1, <3>1, UpdateBalanceOK, UpdateBalanceGives
  <2>. QED BY <2>1, <2>2
<1>. HIDE DEF paid, ownFee, user, assetOut
<1>5. /\ LedgerOK(debited.ledger)
      /\ Gives(paid.ledger, debited.ledger, user, assetOut, given, Pulled(given))
  BY <1>1, <1>4, UpdateBalanceOK, UpdateBalanceGives
<1>. HIDE DEF debited
<1>6. /\ LedgerOK(matched.ledger)
      /\ Gives(debited.ledger, matched.ledger, order.matcherAddress, order.matcherFeeAsset,
               fee, Pulled(fee))
  BY <1>1, <1>5, UpdateBalanceOK, UpdateBalanceGives
<1>7. Pulled(fee) = 0
  BY <1>1 DEF Pulled
<1>. HIDE DEF matched
<1>8. paid.ledger \in LedgerType /\ debited.ledger \in LedgerType
  BY <1>4, <1>5 DEF LedgerOK
<1>9. /\ assetOut = OutAsset(order, isSeller) /\ feeOut = FeeFromOut(order, isSeller)
      /\ feeIn = FeeFromIn(order, isSeller)
      /\ user = order.senderAddress
      /\ ownFee = IF FeeFromOut(order, isSeller) \/ FeeFromIn(order, isSeller)
                  THEN 0 ELSE -fee
      /\ given = -amountOut - (IF FeeFromOut(order, isSeller) THEN fee ELSE 0)
  BY DEF assetOut, OutAsset, InAsset, FeeFromOut, FeeFromIn, user, ownFee, given
<1>. HIDE DEF feeIn, feeOut, amountOut, amountIn
<1>10. Debits(L, D.ledger, order, isSeller, amountOut, fee)
  BY <1>3, <1>4, <1>5, <1>6, <1>7, <1>8, <1>9 DEF Debits
<1>. QED BY <1>3, <1>9, <1>10 DEF D, amountOut, amountIn

(* What an order exchanges of an asset. *)
Exchanged(order, isSeller, amountOut, amountIn, a) ==
    At(a, InAsset(order, isSeller), amountIn) - At(a, OutAsset(order, isSeller), amountOut)

(* Together with the credit that follows, the debit of an order adds to all
   balances of an asset what the order exchanges, and rounds off at most once:
   only one of the fee, the debit and the credit can be pulled in one asset. *)
DebitRound(L, order, isSeller, amountBase, amountQuote, fee, a) ==
    LET D == updateOrderBalanceDebit(L, order, isSeller, amountBase, amountQuote, fee)
        amountOut == IF isSeller THEN amountBase ELSE amountQuote
        amountIn == IF isSeller THEN amountQuote ELSE amountBase
    IN \E x, loss \in Int :
          /\ Rounds(L, D.ledger, a, x, loss)
          /\ x + At(a, InAsset(order, isSeller), D.actualIn)
                = Exchanged(order, isSeller, amountOut, amountIn, a)
          /\ loss + At(a, InAsset(order, isSeller), Pulled(D.actualIn)) <= Unit - 1

LEMMA DebitRounds ==
    ASSUME VaultTypeOK, NEW L, LedgerOK(L), NEW order \in OrderType, NEW isSeller \in BOOLEAN,
           NEW amountBase \in Nat, NEW amountQuote \in Nat, NEW fee \in Nat, now \in Nat,
           amountBase = 0 => amountQuote = 0, NEW a \in Assets
    PROVE  DebitRound(L, order, isSeller, amountBase, amountQuote, fee, a)
<1>. DEFINE D == updateOrderBalanceDebit(L, order, isSeller, amountBase, amountQuote, fee)
            amountOut == IF isSeller THEN amountBase ELSE amountQuote
            amountIn == IF isSeller THEN amountQuote ELSE amountBase
            out == OutAsset(order, isSeller)
            in == InAsset(order, isSeller)
            feeAsset == order.matcherFeeAsset
            feeOut == FeeFromOut(order, isSeller)
            feeIn == FeeFromIn(order, isSeller)
            ownFee == IF feeOut \/ feeIn THEN 0 ELSE -fee
            given == -amountOut - (IF feeOut THEN fee ELSE 0)
<1>1. /\ order.senderAddress \in Users /\ order.matcherAddress \in Users
      /\ feeAsset \in Assets /\ out \in Assets /\ in \in Assets
      /\ amountOut \in Nat /\ amountIn \in Nat /\ L \in LedgerType
      /\ Unit \in Int /\ Unit >= 1
  BY UnitsPositive DEF OrderType, OutAsset, InAsset, LedgerOK
<1>2. CASE amountBase = 0
  <2>1. D.ledger = L /\ D.actualIn = 0 /\ amountOut = 0 /\ amountIn = 0
    BY <1>2 DEF updateOrderBalanceDebit
  <2>2. Rounds(L, L, a, 0, 0)
    <3>1. Backing(L, a) \in Int /\ 0 * BaseUnit[a] = 0
      BY <1>1, BackingInt, UnitsPositive
    <3>. QED BY <3>1 DEF Rounds
  <2>3. /\ 0 + At(a, in, 0) = Exchanged(order, isSeller, 0, 0, a)
        /\ 0 + At(a, in, Pulled(0)) <= Unit - 1
    BY <1>1 DEF Exchanged, At, Pulled
  <2>. HIDE DEF D, amountOut, amountIn, in
  <2>4. \E x, loss \in Int :
           /\ Rounds(L, D.ledger, a, x, loss)
           /\ x + At(a, in, D.actualIn) = Exchanged(order, isSeller, amountOut, amountIn, a)
           /\ loss + At(a, in, Pulled(D.actualIn)) <= Unit - 1
    BY <2>1, <2>2, <2>3
  <2>. QED BY <2>4 DEF DebitRound, D, amountOut, amountIn, in
<1>3. CASE amountBase # 0
  <2>1. /\ Debits(L, D.ledger, order, isSeller, amountOut, fee)
        /\ D.actualIn = amountIn - (IF feeIn THEN fee ELSE 0)
    BY <1>3, DebitGives
  <2>. HIDE DEF D
  <2>2. PICK K \in LedgerType, N \in LedgerType :
           /\ Gives(L, K, order.senderAddress, feeAsset, ownFee, Pulled(ownFee))
           /\ Gives(K, N, order.senderAddress, out, given, Pulled(given))
           /\ Gives(N, D.ledger, order.matcherAddress, feeAsset, fee, 0)
    BY <2>1 DEF Debits
  <2>3. /\ ownFee \in Int /\ given \in Int /\ fee \in Int
        /\ Pulled(ownFee) \in Int /\ Pulled(given) \in Int
    BY <1>1 DEF Pulled
  <2>. DEFINE total == At(a, feeAsset, ownFee) + At(a, out, given) + At(a, feeAsset, fee)
              lost == At(a, feeAsset, Pulled(ownFee)) + At(a, out, Pulled(given))
                      + At(a, feeAsset, 0)
  <2>4. total \in Int /\ lost \in Int
    BY <2>3 DEF At
  <2>5. /\ total + At(a, in, D.actualIn) = Exchanged(order, isSeller, amountOut, amountIn, a)
        /\ lost + At(a, in, Pulled(D.actualIn)) <= Unit - 1
    <3>. HIDE DEF amountOut, amountIn
    <3>1. feeOut <=> feeAsset = out
      BY DEF FeeFromOut
    <3>2. feeIn <=> ~feeOut /\ feeAsset = in
      BY DEF FeeFromIn
    <3>. HIDE DEF out, in, feeOut, feeIn, feeAsset
    <3>. QED BY <1>1, <2>1, <3>1, <3>2 DEF Exchanged, At, Pulled, out, in
  <2>6. Rounds(L, D.ledger, a, total, lost)
    <3>1. D.ledger \in LedgerType
      BY <2>2 DEF Gives, Moves
    <3>2. /\ At(a, feeAsset, ownFee) \in Int /\ At(a, out, given) \in Int
          /\ At(a, feeAsset, fee) \in Int /\ At(a, feeAsset, Pulled(ownFee)) \in Int
          /\ At(a, out, Pulled(given)) \in Int /\ At(a, feeAsset, 0) \in Int
      BY <2>3 DEF At
    <3>. HIDE DEF ownFee, given, out, feeAsset
    <3>3. /\ Rounds(L, K, a, At(a, feeAsset, ownFee), At(a, feeAsset, Pulled(ownFee)))
          /\ Rounds(K, N, a, At(a, out, given), At(a, out, Pulled(given)))
          /\ Rounds(N, D.ledger, a, At(a, feeAsset, fee), At(a, feeAsset, 0))
      BY <1>1, <2>2, <2>3, GivesRounds
    <3>4. Rounds(L, N, a, At(a, feeAsset, ownFee) + At(a, out, given),
                 At(a, feeAsset, Pulled(ownFee)) + At(a, out, Pulled(given)))
      BY <1>1, <3>2, <3>3, RoundsChain
    <3>. QED BY <1>1, <3>1, <3>2, <3>3, <3>4, RoundsChain
  <2>. HIDE DEF total, lost, amountOut, amountIn, in
  <2>7. \E x, loss \in Int :
           /\ Rounds(L, D.ledger, a, x, loss)
           /\ x + At(a, in, D.actualIn) = Exchanged(order, isSeller, amountOut, amountIn, a)
           /\ loss + At(a, in, Pulled(D.actualIn)) <= Unit - 1
    BY <2>4, <2>5, <2>6
  <2>. QED BY <2>7 DEF DebitRound, D, amountOut, amountIn, in
<1>. QED BY <1>2, <1>3

LEMMA CreditRounds ==
    ASSUME VaultTypeOK, NEW L, LedgerOK(L), now \in Nat, NEW fromWallet, NEW user \in Users,
           NEW amount \in Int, NEW asset \in Assets, NEW a \in Assets
    PROVE  Rounds(L, creditUserAssets(L, fromWallet, user, amount, asset), a,
                  At(a, asset, amount), At(a, asset, Pulled(amount)))
<1>1. L \in LedgerType /\ Pulled(amount) \in Int
  BY UnitsPositive DEF LedgerOK, Pulled
<1>2. Gives(L, creditUserAssets(L, fromWallet, user, amount, asset), user, asset, amount,
            Pulled(amount))
  BY CreditGives
<1>. QED BY <1>1, <1>2, GivesRounds

LEMMA OppositeExchanges ==
    ASSUME NEW buy \in OrderType, NEW sell \in OrderType,
           buy.baseAsset = sell.baseAsset, buy.quoteAsset = sell.quoteAsset,
           NEW base \in Nat, NEW quote \in Nat, NEW a
    PROVE  /\ Exchanged(buy, FALSE, quote, base, a) \in Int
           /\ Exchanged(sell, TRUE, base, quote, a) \in Int
           /\ Exchanged(buy, FALSE, quote, base, a) + Exchanged(sell, TRUE, base, quote, a) = 0
BY DEF Exchanged, At, InAsset, OutAsset

(* Two orders that exchange the same amounts leave the balances of an asset what
   they were in all, up to one rounding for each order. *)
LEMMA SettleRounds ==
    ASSUME VaultTypeOK, LedgerOK(Ledger), now \in Nat,
           NEW buy \in OrderType, NEW sell \in OrderType, buy.amount > 0, sell.amount > 0,
           buy.baseAsset = sell.baseAsset, buy.quoteAsset = sell.quoteAsset,
           NEW filledAmount \in Nat, NEW amountQuote \in Nat,
           filledAmount = 0 => amountQuote = 0, NEW a \in Assets
    PROVE  \E loss \in Int :
              /\ Rounds(Ledger, Settle(buy, sell, filledAmount, amountQuote), a, 0, loss)
              /\ loss <= 2 * (Unit - 1)
<1>. DEFINE base == buy.baseAsset
            quote == buy.quoteAsset
            bought == updateOrderBalanceDebit(Ledger, buy, FALSE, filledAmount, amountQuote,
                                              MatcherFee(buy, filledAmount))
            sold == updateOrderBalanceDebit(bought.ledger, sell, TRUE, filledAmount,
                                            amountQuote, MatcherFee(sell, filledAmount))
            buyerCredited == creditUserAssets(sold.ledger, bought.fromWallet,
                                              buy.senderAddress, bought.actualIn, base)
            M == creditUserAssets(buyerCredited, sold.fromWallet, sell.senderAddress,
                                  sold.actualIn, quote)
            given == Exchanged(buy, FALSE, amountQuote, filledAmount, a)
            taken == Exchanged(sell, TRUE, filledAmount, amountQuote, a)
<1>1. /\ buy.senderAddress \in Users /\ sell.senderAddress \in Users
      /\ base \in Assets /\ quote \in Assets
      /\ MatcherFee(buy, filledAmount) \in Nat /\ MatcherFee(sell, filledAmount) \in Nat
  BY MatcherFeeNat DEF OrderType
<1>2. M = Settle(buy, sell, filledAmount, amountQuote)
  BY Zenon DEF Settle
<1>3. /\ InAsset(buy, FALSE) = base /\ OutAsset(buy, FALSE) = quote
      /\ InAsset(sell, TRUE) = quote /\ OutAsset(sell, TRUE) = base
  BY DEF InAsset, OutAsset
<1>4. LedgerOK(bought.ledger) /\ bought.actualIn \in Int
  BY <1>1, DebitOK
<1>5. LedgerOK(sold.ledger) /\ sold.actualIn \in Int
  <2>. HIDE DEF bought
  <2>. QED BY <1>1, <1>4, DebitOK
<1>. DEFINE fee1 == MatcherFee(buy, filledAmount)
            fee2 == MatcherFee(sell, filledAmount)
<1>6. DebitRound(Ledger, buy, FALSE, filledAmount, amountQuote, fee1, a)
  BY <1>1, DebitRounds
<1>7. DebitRound(bought.ledger, sell, TRUE, filledAmount, amountQuote, fee2, a)
  <2>. HIDE DEF bought
  <2>. QED BY <1>1, <1>4, DebitRounds
<1>8. PICK x1 \in Int, loss1 \in Int :
         /\ Rounds(Ledger, bought.ledger, a, x1, loss1)
         /\ x1 + At(a, base, bought.actualIn) = Exchanged(buy, FALSE, amountQuote, filledAmount, a)
         /\ loss1 + At(a, base, Pulled(bought.actualIn)) <= Unit - 1
  BY <1>3, <1>6 DEF DebitRound
<1>. HIDE DEF bought
<1>9. PICK x2 \in Int, loss2 \in Int :
         /\ Rounds(bought.ledger, sold.ledger, a, x2, loss2)
         /\ x2 + At(a, quote, sold.actualIn) = Exchanged(sell, TRUE, filledAmount, amountQuote, a)
         /\ loss2 + At(a, quote, Pulled(sold.actualIn)) <= Unit - 1
  BY <1>3, <1>7 DEF DebitRound
<1>. HIDE DEF sold
<1>10. /\ LedgerOK(buyerCredited)
      /\ Rounds(sold.ledger, buyerCredited, a, At(a, base, bought.actualIn),
                At(a, base, Pulled(bought.actualIn)))
  BY <1>1, <1>4, <1>5, CreditOK, CreditRounds
<1>. HIDE DEF buyerCredited
<1>11. /\ LedgerOK(M)
      /\ Rounds(buyerCredited, M, a, At(a, quote, sold.actualIn),
                At(a, quote, Pulled(sold.actualIn)))
  BY <1>1, <1>5, <1>10, CreditOK, CreditRounds
<1>. HIDE DEF M
<1>. DEFINE y1 == At(a, base, bought.actualIn)
            y2 == At(a, quote, sold.actualIn)
            pull1 == At(a, base, Pulled(bought.actualIn))
            pull2 == At(a, quote, Pulled(sold.actualIn))
<1>12. /\ y1 \in Int /\ y2 \in Int /\ pull1 \in Int /\ pull2 \in Int /\ Unit \in Int
  BY <1>4, <1>5, UnitsPositive DEF At, Pulled
<1>13. given \in Int /\ taken \in Int /\ given + taken = 0
  BY OppositeExchanges
<1>14. x1 + y1 = given /\ x2 + y2 = taken
  BY <1>8, <1>9
<1>15. loss1 + pull1 <= Unit - 1 /\ loss2 + pull2 <= Unit - 1
  BY <1>8, <1>9
<1>16. /\ Rounds(sold.ledger, buyerCredited, a, y1, pull1)
       /\ Rounds(buyerCredited, M, a, y2, pull2)
  BY <1>10, <1>11
<1>17. /\ Ledger \in LedgerType /\ bought.ledger \in LedgerType /\ sold.ledger \in LedgerType
       /\ buyerCredited \in LedgerType /\ M \in LedgerType
  BY <1>4, <1>5, <1>10, <1>11 DEF LedgerOK
<1>. HIDE DEF y1, y2, pull1, pull2, given, taken, base, quote
<1>18. x1 + x2 \in Int /\ loss1 + loss2 \in Int /\ (x1 + x2) + y1 \in Int
       /\ (loss1 + loss2) + pull1 \in Int
  BY <1>12
<1>19. Rounds(Ledger, sold.ledger, a, x1 + x2, loss1 + loss2)
  BY <1>8, <1>9, <1>17, RoundsChain
<1>20. Rounds(Ledger, buyerCredited, a, (x1 + x2) + y1, (loss1 + loss2) + pull1)
  BY <1>12, <1>18, <1>16, <1>17, <1>19, RoundsChain
<1>21. Rounds(Ledger, M, a, ((x1 + x2) + y1) + y2, ((loss1 + loss2) + pull1) + pull2)
  BY <1>12, <1>18, <1>16, <1>17, <1>20, RoundsChain
<1>22. /\ ((x1 + x2) + y1) + y2 = 0
       /\ ((loss1 + loss2) + pull1) + pull2 <= 2 * (Unit - 1)
       /\ ((loss1 + loss2) + pull1) + pull2 \in Int
  BY <1>12, <1>14, <1>15, <1>13
<1>. QED BY <1>2, <1>21, <1>22

-------------------------------------------------------------------------------
(* The steps of the exchange. *)

(* A step takes less than two units from what backs the balances of an asset,
   and nothing from an asset whose base unit is the exchange's unit. *)
CustodyKept ==
    \A a \in Assets :
        /\ Surplus(a)' > Surplus(a) - 2 * Max({Unit, BaseUnit[a]})
        /\ BaseUnit[a] = Unit => Surplus(a)' = Surplus(a)

LEMMA LargerUnit ==
    ASSUME NEW a \in Assets
    PROVE  /\ Max({Unit, BaseUnit[a]}) \in Nat \ {0}
           /\ Max({Unit, BaseUnit[a]}) >= Unit /\ Max({Unit, BaseUnit[a]}) >= BaseUnit[a]
<1>. DEFINE S == {Unit, BaseUnit[a]}
<1>1. Unit \in Nat \ {0} /\ BaseUnit[a] \in Nat \ {0}
  BY UnitsPositive
<1>2. \E x \in S : \A y \in S : x >= y
  BY <1>1
<1>3. Max(S) \in S /\ \A y \in S : Max(S) >= y
  BY <1>2 DEF Max
<1>. QED BY <1>1, <1>3

LEMMA SurplusIsBacking ==
    ASSUME NEW a
    PROVE  Surplus(a) = Backing(Ledger, a)
BY DEF Surplus, OwedToUsers, Backing, Owed, Ledger

LEMMA UnchangedCustody ==
    ASSUME IInv,
           \A a \in Assets : Surplus(a)' = Surplus(a)
    PROVE  CustodyKept
<1>. SUFFICES ASSUME NEW a \in Assets
              PROVE  Surplus(a)' > Surplus(a) - 2 * Max({Unit, BaseUnit[a]})
  BY DEF CustodyKept
<1>1. Max({Unit, BaseUnit[a]}) \in Nat \ {0}
  BY LargerUnit
<1>2. Surplus(a) \in Int
  BY SurplusIsBacking, LedgerIsOK, BackingInt DEF IInv, TypeOK
<1>. QED BY <1>1, <1>2

LEMMA CommitKeeps ==
    ASSUME IInv, NEW L \in LedgerType, Commit(L), UNCHANGED stakingData,
           \A a \in Assets : \E loss \in Int :
              /\ Rounds(Ledger, L, a, 0, loss)
              /\ loss < 2 * Max({Unit, BaseUnit[a]})
    PROVE  CustodyKept
<1>. SUFFICES ASSUME NEW a \in Assets
              PROVE  /\ Surplus(a)' > Surplus(a) - 2 * Max({Unit, BaseUnit[a]})
                     /\ BaseUnit[a] = Unit => Surplus(a)' = Surplus(a)
  BY DEF CustodyKept
<1>1. PICK loss \in Int :
         Rounds(Ledger, L, a, 0, loss) /\ loss < 2 * Max({Unit, BaseUnit[a]})
  OBVIOUS
<1>2. Surplus(a) = Backing(Ledger, a)
  BY SurplusIsBacking
<1>3. Surplus(a)' = Backing(L, a)
  BY DEF Surplus, OwedToUsers, Staked, Backing, Owed, Commit
<1>4. Backing(Ledger, a) \in Int /\ Backing(L, a) \in Int
  BY LedgerIsOK, BackingInt DEF IInv, TypeOK
<1>5. Max({Unit, BaseUnit[a]}) \in Int /\ BaseUnit[a] \in Int
  BY LargerUnit, UnitsPositive
<1>6. 0 * BaseUnit[a] = 0
  BY <1>5
<1>7. /\ Backing(L, a) + loss >= Backing(Ledger, a)
      /\ BaseUnit[a] = Unit => Backing(L, a) = Backing(Ledger, a)
  BY <1>1, <1>4, <1>6 DEF Rounds
<1>. DEFINE max == Max({Unit, BaseUnit[a]})
            before == Backing(Ledger, a)
            after == Backing(L, a)
<1>8. /\ before \in Int /\ after \in Int /\ max \in Int /\ loss < 2 * max
      /\ after + loss >= before
  BY <1>1, <1>4, <1>5, <1>7
<1>. HIDE DEF max, before, after
<1>9. after > before - 2 * max
  BY <1>8
<1>. QED BY <1>2, <1>3, <1>7, <1>9 DEF max, before, after

(* A transaction that gives a user nothing but what comes and goes as tokens. *)
LEMMA GivesKeeps ==
    ASSUME IInv, NEW L \in LedgerType, Commit(L), UNCHANGED stakingData,
           NEW user \in Users, NEW asset \in Assets, NEW loss \in Int,
           Gives(Ledger, L, user, asset, 0, loss),
           0 <= loss, loss < 2 * Max({Unit, BaseUnit[asset]})
    PROVE  CustodyKept
<1>. SUFFICES ASSUME NEW a \in Assets
              PROVE  \E rounded \in Int : /\ Rounds(Ledger, L, a, 0, rounded)
                                          /\ rounded < 2 * Max({Unit, BaseUnit[a]})
  BY CommitKeeps, Zenon
<1>1. Rounds(Ledger, L, a, At(a, asset, 0), At(a, asset, loss))
  BY LedgerIsOK, GivesRounds DEF IInv, TypeOK
<1>2. At(a, asset, 0) = 0 /\ At(a, asset, loss) \in Int
  BY DEF At
<1>3. At(a, asset, loss) < 2 * Max({Unit, BaseUnit[a]})
  BY LargerUnit DEF At
<1>. QED BY <1>1, <1>2, <1>3

LEMMA DepositMoves ==
    ASSUME NEW L, LedgerOK(L), NEW user \in Users, NEW asset \in Assets, NEW amount \in Nat,
           now \in Nat
    PROVE  Moves(L, generalDeposit(L, user, asset, amount), user, asset,
                 BaseUnitToDecimal(asset, amount), 0)
<1>. DEFINE decimal == BaseUnitToDecimal(asset, amount)
            moved == AddBalance(L, user, asset, decimal)
            added == Require(moved, FitsInt112(decimal))
            M == generalDeposit(L, user, asset, amount)
<1>1. decimal \in Nat /\ M \in LedgerType /\ L \in LedgerType
  BY ConversionNat, GeneralDepositOK DEF LedgerOK
<1>2. M = IF L.assetBalances[user][asset] < 0
          THEN coverLiability(added, user, asset, decimal, added.assetBalances[user][asset])
          ELSE added
  BY DEF generalDeposit
<1>. HIDE DEF decimal, M
<1>3. Moves(L, moved, user, asset, decimal, 0) /\ moved \in LedgerType
  BY <1>1, AddBalanceMoves DEF Moves
<1>4. FitsInt112(decimal) \in BOOLEAN
  BY DEF FitsInt112
<1>. HIDE DEF moved
<1>5. /\ added \in LedgerType /\ added.assetBalances = moved.assetBalances
      /\ added.wallet = moved.wallet /\ added.held = moved.held
  BY <1>3, <1>4, RequireFields
<1>. HIDE DEF added
<1>6. M.assetBalances = added.assetBalances /\ M.wallet = added.wallet /\ M.held = added.held
  <2>1. CASE L.assetBalances[user][asset] < 0
    <3>1. M = coverLiability(added, user, asset, decimal, added.assetBalances[user][asset])
      BY <1>2, <2>1
    <3>. QED BY <1>5, <3>1, ListsKeepTokens
  <2>2. CASE ~(L.assetBalances[user][asset] < 0)
    BY <1>2, <2>2
  <2>. QED BY <2>1, <2>2
<1>7. Moves(L, M, user, asset, decimal, 0)
  BY <1>1, <1>3, <1>5, <1>6, MovesSame
<1>. QED BY <1>7 DEF M, decimal

LEMMA DepositGives ==
    ASSUME IInv, NEW user \in Users, NEW asset \in Assets, NEW amount \in Nat,
           Deposit(user, asset, amount)
    PROVE  \E L \in LedgerType : Commit(L) /\ Gives(Ledger, L, user, asset, 0, 0)
<1>. DEFINE received == Receive(Ledger, user, asset, amount)
            L == generalDeposit(received, user, asset, amount)
            decimal == BaseUnitToDecimal(asset, amount)
<1>1. Commit(L) /\ CanReceive(Ledger, user, asset, amount)
  BY DEF Deposit
<1>2. Ledger \in LedgerType /\ LedgerOK(Ledger) /\ now \in Nat
  BY LedgerIsOK DEF IInv, TypeOK, OracleTypeOK
<1>3. Moves(Ledger, received, user, asset, 0, amount) /\ LedgerOK(received)
  BY <1>1, <1>2, ReceiveMoves, ReceiveFields DEF LedgerOK
<1>. HIDE DEF received, Deposit
<1>4. Moves(received, L, user, asset, decimal, 0)
  BY <1>2, <1>3, DepositMoves
<1>. HIDE DEF L
<1>5. /\ decimal \in Nat /\ decimal * BaseUnit[asset] <= amount * Unit
      /\ BaseUnit[asset] = Unit => decimal = amount
  BY ToDecimal
<1>. HIDE DEF decimal
<1>6. Moves(Ledger, L, user, asset, decimal, amount)
  <2>1. Moves(Ledger, L, user, asset, 0 + decimal, amount + 0)
    BY <1>2, <1>3, <1>4, <1>5, MovesChain
  <2>2. 0 + decimal = decimal /\ amount + 0 = amount
    BY <1>5
  <2>. QED BY <2>1, <2>2
<1>7. amount * Unit + (0 - decimal) * BaseUnit[asset] + 0 >= 0
  <2>1. Unit \in Int /\ BaseUnit[asset] \in Int
    BY UnitsPositive
  <2>2. (0 - decimal) * BaseUnit[asset] = -(decimal * BaseUnit[asset])
        /\ decimal * BaseUnit[asset] \in Int /\ amount * Unit \in Int
    BY <1>5, <2>1
  <2>. QED BY <1>5, <2>2
<1>8. BaseUnit[asset] = Unit => amount + 0 = decimal
  BY <1>5
<1>9. Gives(Ledger, L, user, asset, 0, 0)
  BY <1>5, <1>6, <1>7, <1>8 DEF Gives
<1>10. L \in LedgerType
  BY <1>6 DEF Moves
<1>. QED BY <1>1, <1>9, <1>10

LEMMA DepositCustody ==
    ASSUME IInv, NEW user \in Users, NEW asset \in Assets, NEW amount \in Nat,
           Deposit(user, asset, amount)
    PROVE  CustodyKept
<1>1. PICK L \in LedgerType : Commit(L) /\ Gives(Ledger, L, user, asset, 0, 0)
  BY DepositGives
<1>2. UNCHANGED stakingData /\ 0 < 2 * Max({Unit, BaseUnit[asset]}) /\ 0 <= 0 /\ 0 \in Int
  BY LargerUnit DEF Deposit
<1>. QED BY <1>1, <1>2, GivesKeeps

LEMMA WithdrawGives ==
    ASSUME IInv, NEW user \in Users, NEW asset \in Assets, NEW amount \in Nat,
           Withdraw(user, asset, amount)
    PROVE  \E L \in LedgerType :
              Commit(L) /\ Gives(Ledger, L, user, asset, 0, BaseUnit[asset] - 1)
<1>. DEFINE decimal == BaseUnitToDecimal(asset, amount)
            minus == -decimal
            debited == AddBalance(Ledger, user, asset, minus)
            L == Send(debited, user, asset, amount)
<1>1. Commit(L) /\ Ledger.held[asset] >= amount
  BY DEF Withdraw, Ledger
<1>2. Ledger \in LedgerType
  BY LedgerIsOK
<1>3. /\ decimal \in Nat
      /\ amount * Unit < decimal * BaseUnit[asset] + BaseUnit[asset]
      /\ BaseUnit[asset] = Unit => decimal = amount
  BY ToDecimal
<1>. HIDE DEF decimal
<1>4. minus \in Int
  BY <1>3
<1>. HIDE DEF minus
<1>5. Moves(Ledger, debited, user, asset, minus, 0) /\ debited \in LedgerType
      /\ debited.held = Ledger.held
  <2>1. Moves(Ledger, debited, user, asset, minus, 0)
    BY <1>2, <1>4, AddBalanceMoves
  <2>2. debited \in LedgerType /\ debited.held = Ledger.held
    <3>1. Ledger.held \in [Assets -> Nat]
      BY <1>2 DEF LedgerType
    <3>. HIDE DEF debited
    <3>2. debited.held = [Ledger.held EXCEPT ![asset] = Ledger.held[asset] + 0]
          /\ debited \in LedgerType
      BY <2>1 DEF Moves
    <3>. QED BY <3>1, <3>2
  <2>. QED BY <2>1, <2>2
<1>. HIDE DEF debited
<1>6. Moves(debited, L, user, asset, 0, -amount)
  BY <1>1, <1>5, SendMoves
<1>. HIDE DEF L
<1>7. Moves(Ledger, L, user, asset, minus, -amount)
  <2>1. Moves(Ledger, L, user, asset, minus + 0, 0 + (-amount))
    BY <1>2, <1>4, <1>5, <1>6, MovesChain
  <2>2. minus + 0 = minus /\ 0 + (-amount) = -amount
    BY <1>4
  <2>. QED BY <2>1, <2>2
<1>. DEFINE loss == BaseUnit[asset] - 1
<1>8. loss \in Int /\ Unit \in Int /\ BaseUnit[asset] \in Int
  BY UnitsPositive
<1>9. (-amount) * Unit + (0 - minus) * BaseUnit[asset] + loss >= 0
  <2>1. (-amount) * Unit = -(amount * Unit) /\ 0 - minus = decimal
        /\ decimal * BaseUnit[asset] \in Int /\ amount * Unit \in Int
    BY <1>3, <1>8 DEF minus
  <2>. QED BY <1>3, <1>8, <2>1
<1>10. BaseUnit[asset] = Unit => (-amount) + 0 = minus
  BY <1>3 DEF minus
<1>. HIDE DEF loss
<1>11. Gives(Ledger, L, user, asset, 0, loss)
  <2>1. -amount \in Int
    OBVIOUS
  <2>. QED BY <1>4, <1>7, <1>9, <1>10, <2>1 DEF Gives
<1>12. L \in LedgerType
  BY <1>7 DEF Moves
<1>. QED BY <1>1, <1>11, <1>12 DEF loss

LEMMA WithdrawCustody ==
    ASSUME IInv, NEW user \in Users, NEW asset \in Assets, NEW amount \in Nat,
           Withdraw(user, asset, amount)
    PROVE  CustodyKept
<1>. DEFINE loss == BaseUnit[asset] - 1
<1>1. PICK L \in LedgerType : Commit(L) /\ Gives(Ledger, L, user, asset, 0, loss)
  BY WithdrawGives
<1>2. /\ UNCHANGED stakingData
      /\ loss \in Int /\ 0 <= loss /\ loss < 2 * Max({Unit, BaseUnit[asset]})
  BY UnitsPositive, LargerUnit DEF Withdraw
<1>. HIDE DEF loss
<1>. QED BY <1>1, <1>2, GivesKeeps

LEMMA FillOrdersCustody ==
    ASSUME IInv, NEW sender \in Users, NEW buy \in Orders, NEW sell \in Orders,
           NEW filledPrice \in Nat, NEW filledAmount \in Nat,
           FillOrders(sender, buy, sell, filledPrice, filledAmount)
    PROVE  CustodyKept
<1>. DEFINE amountQuote == (filledAmount * filledPrice) \div Unit
            L == Settle(buy, sell, filledAmount, amountQuote)
<1>1. /\ buy \in OrderType /\ sell \in OrderType
      /\ buy.senderAddress \in Users /\ sell.senderAddress \in Users
  BY StorageAssumption DEF StorageAssumption, OrderType
<1>2. /\ buy.amount > 0 /\ sell.amount > 0
      /\ buy.baseAsset = sell.baseAsset /\ buy.quoteAsset = sell.quoteAsset
      /\ Commit(L) /\ UNCHANGED stakingData
  BY DEF FillOrders, checkOrdersInfo
<1>3. amountQuote \in Nat /\ (filledAmount = 0 => amountQuote = 0)
  <2>1. Unit \in Nat \ {0} /\ filledAmount * filledPrice \in Nat
    BY UnitsPositive, ProductNat
  <2>2. filledAmount = 0 => filledAmount * filledPrice = 0
    OBVIOUS
  <2>. QED BY <2>1, <2>2, DivNat
<1>4. now \in Nat /\ VaultTypeOK /\ LedgerOK(Ledger)
  BY LedgerIsOK DEF IInv, TypeOK, OracleTypeOK
<1>. HIDE DEF amountQuote
<1>5. LedgerOK(L) /\ L \in LedgerType
  BY <1>1, <1>2, <1>3, <1>4, SettleOK DEF LedgerOK
<1>6. ASSUME NEW a \in Assets
      PROVE  \E loss \in Int : Rounds(Ledger, L, a, 0, loss) /\ loss < 2 * Max({Unit, BaseUnit[a]})
  <2>1. PICK loss \in Int : Rounds(Ledger, L, a, 0, loss) /\ loss <= 2 * (Unit - 1)
    BY <1>1, <1>2, <1>3, <1>4, SettleRounds
  <2>2. loss < 2 * Max({Unit, BaseUnit[a]})
    BY <2>1, LargerUnit, UnitsPositive
  <2>. QED BY <2>1, <2>2
<1>. HIDE DEF L
<1>. QED BY <1>2, <1>5, <1>6, CommitKeeps


(* Balance and stake of one user are worth d more, and d less to another user. *)
LEMMA TransferCustody ==
    ASSUME IInv, TypeOK', UNCHANGED held, NEW a \in Assets, NEW d \in Int,
           NEW u \in Users, NEW v \in Users, u # v,
           assetBalances'[u][a] + Staked(u, a)' = assetBalances[u][a] + Staked(u, a) + d,
           assetBalances'[v][a] + Staked(v, a)' + d = assetBalances[v][a] + Staked(v, a),
           \A x \in Users \ {u, v} :
              assetBalances'[x][a] + Staked(x, a)' = assetBalances[x][a] + Staked(x, a)
    PROVE  Surplus(a)' = Surplus(a)
<1>. DEFINE f == [x \in Users |-> assetBalances[x][a] + Staked(x, a)]
            g == [x \in Users |-> assetBalances'[x][a] + Staked(x, a)']
<1>1. f \in [Users -> Int] /\ g \in [Users -> Int]
  <2>1. \A x \in Users : assetBalances[x][a] \in Int /\ assetBalances'[x][a] \in Int
    BY DEF IInv, TypeOK, StorageTypeOK
  <2>2. \A x \in Users : Staked(x, a) \in Int /\ Staked(x, a)' \in Int
    BY DEF IInv, TypeOK, VaultTypeOK, Stake, Staked
  <2>. QED BY <2>1, <2>2
<1>2. g[u] = f[u] + d /\ g[v] + d = f[v] /\ \A x \in Users \ {u, v} : g[x] = f[x]
  <2>1. /\ \A x \in Users : f[x] = assetBalances[x][a] + Staked(x, a)
        /\ \A x \in Users : g[x] = assetBalances'[x][a] + Staked(x, a)'
    OBVIOUS
  <2>. HIDE DEF f, g
  <2>2. g[u] = f[u] + d
    BY <2>1
  <2>3. g[v] + d = f[v]
    BY <2>1
  <2>4. \A x \in Users \ {u, v} : g[x] = f[x]
    BY <2>1
  <2>. QED BY <2>2, <2>3, <2>4
<1>3. OwedToUsers(a) = SumFunction(f) /\ OwedToUsers(a)' = SumFunction(g)
  BY DEF OwedToUsers
<1>. HIDE DEF f, g
<1>4. SumFunction(g) = SumFunction(f)
  BY <1>1, <1>2, UnitsPositive, SumTransfer
<1>. QED BY <1>3, <1>4 DEF Surplus

LEMMA SameCustody ==
    ASSUME IInv, UNCHANGED held, NEW a \in Assets,
           \A x \in Users :
              assetBalances'[x][a] + Staked(x, a)' = assetBalances[x][a] + Staked(x, a)
    PROVE  Surplus(a)' = Surplus(a)
<1>1. [x \in Users |-> assetBalances'[x][a] + Staked(x, a)']
         = [x \in Users |-> assetBalances[x][a] + Staked(x, a)]
  OBVIOUS
<1>2. OwedToUsers(a)' = OwedToUsers(a)
  BY <1>1 DEF OwedToUsers
<1>. QED BY <1>2 DEF Surplus

LEMMA StakeMoves ==
    ASSUME IInv, NEW user \in Users, NEW amount \in Nat,
           \/ LockStake(user, amount)
           \/ RequestReleaseStake(user)
           \/ \E phase \in StakePhase : SetPhase(user, phase)
    PROVE  /\ UNCHANGED held
           /\ \A x \in Users, a \in Assets :
                 assetBalances'[x][a] + Staked(x, a)' = assetBalances[x][a] + Staked(x, a)
<1>. DEFINE old == stakingData[user]
            new == stakingData'[user]
<1>1. /\ stakingData \in [Users -> Stake] /\ assetBalances \in [Users -> [Assets -> Int]]
      /\ old.amount \in Nat
  BY DEF IInv, TypeOK, VaultTypeOK, StorageTypeOK, Stake
<1>. DEFINE moved == assetBalances[user][ORN] - (new.amount - old.amount)
<1>2. /\ UNCHANGED held
      /\ assetBalances' = [assetBalances EXCEPT ![user] =
                              [assetBalances[user] EXCEPT ![ORN] = moved]]
      /\ new.amount \in Int
      /\ \A x \in Users \ {user} : stakingData'[x].amount = stakingData[x].amount
  <2>1. ASSUME NEW k \in Int, new.amount = old.amount + k, UNCHANGED held,
               assetBalances' = [assetBalances EXCEPT ![user] =
                  [assetBalances[user] EXCEPT ![ORN] = assetBalances[user][ORN] - k]],
               \A x \in Users \ {user} : stakingData'[x] = stakingData[x]
        PROVE  /\ assetBalances' = [assetBalances EXCEPT ![user] =
                                       [assetBalances[user] EXCEPT ![ORN] = moved]]
               /\ new.amount \in Int
               /\ \A x \in Users \ {user} : stakingData'[x].amount = stakingData[x].amount
    <3>1. moved = assetBalances[user][ORN] - k /\ new.amount \in Int
      BY <1>1, <2>1, UnitsPositive
    <3>. HIDE DEF moved
    <3>. QED BY <2>1, <3>1
  <2>2. assetBalances = [assetBalances EXCEPT ![user] =
           [assetBalances[user] EXCEPT ![ORN] = assetBalances[user][ORN] - 0]]
    BY <1>1, UnitsPositive
  <2>3. CASE LockStake(user, amount)
    <3>1. new.amount = old.amount + amount
          /\ \A x \in Users \ {user} : stakingData'[x] = stakingData[x]
      BY <1>1, <2>3 DEF LockStake
    <3>2. assetBalances' = [assetBalances EXCEPT ![user] =
             [assetBalances[user] EXCEPT ![ORN] = assetBalances[user][ORN] - amount]]
      BY <1>1, <2>3 DEF LockStake
    <3>3. UNCHANGED held /\ amount \in Int
      BY <2>3 DEF LockStake, vaultUnchanged
    <3>. HIDE DEF moved, new, old
    <3>. QED BY <2>1, <3>1, <3>2, <3>3
  <2>4. CASE StartRelease(user) \/ \E phase \in StakePhase : SetPhase(user, phase)
    <3>1. new.amount = old.amount + 0 /\ UNCHANGED assetBalances
          /\ \A x \in Users \ {user} : stakingData'[x] = stakingData[x]
      BY <1>1, <2>4 DEF StartRelease, SetPhase, Stake
    <3>2. UNCHANGED held /\ 0 \in Int
      BY <2>4 DEF StartRelease, SetPhase, vaultUnchanged
    <3>. HIDE DEF moved, new, old
    <3>. QED BY <2>1, <2>2, <3>1, <3>2
  <2>5. CASE CollectStake(user)
    <3>. DEFINE k == -old.amount
    <3>1. new.amount = old.amount + k /\ k \in Int
          /\ \A x \in Users \ {user} : stakingData'[x] = stakingData[x]
      BY <1>1, <2>5 DEF CollectStake, Stake
    <3>2. assetBalances' = [assetBalances EXCEPT ![user] =
             [assetBalances[user] EXCEPT ![ORN] = assetBalances[user][ORN] + old.amount]]
      BY <1>1, <2>5 DEF CollectStake
    <3>3. assetBalances[user][ORN] + old.amount = assetBalances[user][ORN] - k
      BY <1>1, UnitsPositive
    <3>4. UNCHANGED held
      BY <2>5 DEF CollectStake, vaultUnchanged
    <3>. HIDE DEF moved, new, old, k
    <3>. QED BY <2>1, <3>1, <3>2, <3>3, <3>4
  <2>. QED BY <2>3, <2>4, <2>5
           DEF RequestReleaseStake, LockStake, StartRelease, CollectStake, SetPhase,
               vaultUnchanged
<1>3. ASSUME NEW x \in Users, NEW a \in Assets
      PROVE  assetBalances'[x][a] + Staked(x, a)' = assetBalances[x][a] + Staked(x, a)
  <2>1. assetBalances[x][a] \in Int /\ assetBalances[user][ORN] \in Int
    BY <1>1, UnitsPositive
  <2>2. CASE x = user /\ a = ORN
    <3>1. assetBalances'[x][a] = assetBalances[x][a] - (new.amount - old.amount)
      BY <1>1, <1>2, <2>2
    <3>. QED BY <1>1, <1>2, <2>1, <2>2, <3>1 DEF Staked
  <2>3. CASE x = user /\ a # ORN
    BY <1>1, <1>2, <2>1, <2>3 DEF Staked
  <2>4. CASE x # user
    BY <1>1, <1>2, <2>1, <2>4 DEF Staked
  <2>. QED BY <2>2, <2>3, <2>4
<1>. QED BY <1>2, <1>3

LEMMA StakeCustody ==
    ASSUME IInv, NEW user \in Users, NEW amount \in Nat,
           \/ LockStake(user, amount)
           \/ RequestReleaseStake(user)
           \/ \E phase \in StakePhase : SetPhase(user, phase)
    PROVE  CustodyKept
<1>1. \A a \in Assets : Surplus(a)' = Surplus(a)
  BY StakeMoves, SameCustody
<1>. QED BY <1>1, UnchangedCustody

(* What a liquidator earns of an asset. *)
Traded(asset, amount, a) ==
    (IF a = ORN THEN LiquidationReward(asset, amount) ELSE 0)
    - (IF a = asset THEN amount ELSE 0)

(* A liquidation hands the redeemed amount to the broker, and the reward to the
   liquidator, from the broker's balance and stake. *)
Liquidates(liquidator, broker, asset, amount, fromBalance, fromStake) ==
    /\ liquidator # broker
    /\ \A a \in Assets :
          /\ assetBalances'[liquidator][a]
                = assetBalances[liquidator][a] + Traded(asset, amount, a)
          /\ assetBalances'[broker][a] + Traded(asset, amount, a)
                = assetBalances[broker][a] + (IF a = ORN THEN fromStake ELSE 0)
          /\ \A u \in Users \ {liquidator, broker} :
                assetBalances'[u][a] = assetBalances[u][a]
    /\ \A u \in Users \ {broker} : stakingData'[u].amount = stakingData[u].amount
    /\ stakingData'[broker].amount + fromStake = stakingData[broker].amount
    /\ fromBalance = RewardFromBalance(
          assetBalances[broker][ORN] + (IF asset = ORN THEN amount ELSE 0),
          LiquidationReward(asset, amount))
    /\ fromStake + fromBalance = LiquidationReward(asset, amount)

LEMMA LiquidationMoves ==
    ASSUME IInv, NEW liquidator \in Users, NEW broker \in Users, NEW asset \in Assets,
           NEW amount \in Nat, PartiallyLiquidate(liquidator, broker, asset, amount)
    PROVE  \E fromBalance \in Nat, fromStake \in Int :
              Liquidates(liquidator, broker, asset, amount, fromBalance, fromStake)
<1>. DEFINE reward == LiquidationReward(asset, amount)
            redeemed == BalancesAfterRedemption(broker, liquidator, asset, amount)
            fromBalance == RewardFromBalance(redeemed[broker][ORN], reward)
            charged == [redeemed EXCEPT ![broker][ORN] = @ - fromBalance]
            lbal == [assetBalances[liquidator] EXCEPT
                        ![asset] = assetBalances[liquidator][asset] - amount]
            bbal == [assetBalances[broker] EXCEPT
                        ![asset] = assetBalances[broker][asset] + amount]
            fromStake == reward - fromBalance
<1>1. assetBalances \in [Users -> [Assets -> Int]] /\ ORN \in Assets
  BY UnitsPositive DEF IInv, TypeOK, StorageTypeOK
<1>2. /\ assetBalances[liquidator][asset] >= amount
      /\ assetBalances[broker][asset] < 0
      /\ assetBalances' = [charged EXCEPT ![liquidator][ORN] = @ + reward]
      /\ stakingData' = [stakingData EXCEPT ![broker].amount = @ - fromStake]
      /\ UNCHANGED held
  BY DEF PartiallyLiquidate
<1>3. reward \in Nat /\ TypeOK'
  BY <1>1, RewardNat, LiquidationInv DEF IInv
<1>. HIDE DEF PartiallyLiquidate
<1>4. liquidator # broker
  BY <1>1, <1>2
<1>5. lbal \in [Assets -> Int] /\ bbal \in [Assets -> Int]
  BY <1>1
<1>6. /\ redeemed \in [Users -> [Assets -> Int]]
      /\ redeemed[liquidator] = lbal /\ redeemed[broker] = bbal
      /\ \A u \in Users \ {liquidator, broker} : redeemed[u] = assetBalances[u]
  <2>. DEFINE debited == [assetBalances EXCEPT ![liquidator] = lbal]
  <2>1. redeemed = [debited EXCEPT ![broker] = bbal]
    BY <1>1, <1>4 DEF BalancesAfterRedemption
  <2>. HIDE DEF redeemed, lbal, bbal
  <2>. QED BY <1>1, <1>4, <1>5, <2>1
<1>. HIDE DEF redeemed, reward
<1>7. fromBalance \in Nat
  BY <1>1, <1>3, <1>5, <1>6 DEF RewardFromBalance
<1>. HIDE DEF fromBalance, lbal, bbal
<1>8. fromStake \in Int /\ fromStake + fromBalance = reward
  BY <1>3, <1>7
<1>. HIDE DEF fromStake
<1>. DEFINE lfinal == [lbal EXCEPT ![ORN] = lbal[ORN] + reward]
            bfinal == [bbal EXCEPT ![ORN] = bbal[ORN] - fromBalance]
<1>9. /\ assetBalances'[liquidator] = lfinal /\ assetBalances'[broker] = bfinal
      /\ \A u \in Users \ {liquidator, broker} : assetBalances'[u] = assetBalances[u]
  <2>1. charged = [redeemed EXCEPT ![broker] = bfinal]
    BY <1>6
  <2>2. charged[liquidator] = lbal
    <3>. HIDE DEF bfinal, charged
    <3>. QED BY <1>4, <1>6, <2>1
  <2>3. assetBalances' = [charged EXCEPT ![liquidator] = lfinal]
    <3>. HIDE DEF charged
    <3>. QED BY <1>2, <2>2
  <2>. HIDE DEF charged, lfinal, bfinal
  <2>. QED BY <1>4, <1>6, <2>1, <2>3
<1>10. /\ \A u \in Users \ {broker} : stakingData'[u].amount = stakingData[u].amount
       /\ stakingData'[broker].amount + fromStake = stakingData[broker].amount
       /\ \A u \in Users : stakingData[u].amount \in Int /\ stakingData'[u].amount \in Int
  <2>1. stakingData \in [Users -> Stake] /\ stakingData' \in [Users -> Stake]
    BY <1>3 DEF IInv, TypeOK, VaultTypeOK
  <2>2. \A u \in Users : stakingData[u].amount \in Int /\ stakingData'[u].amount \in Int
    BY <2>1 DEF Stake
  <2>3. stakingData'[broker].amount = stakingData[broker].amount - fromStake
    BY <1>2, <2>1 DEF Stake
  <2>4. \A u \in Users \ {broker} : stakingData'[u] = stakingData[u]
    BY <1>2, <2>1
  <2>. QED BY <1>8, <2>2, <2>3, <2>4
<1>11. ASSUME NEW a \in Assets
       PROVE  /\ assetBalances'[liquidator][a]
                    = assetBalances[liquidator][a] + Traded(asset, amount, a)
              /\ assetBalances'[broker][a] + Traded(asset, amount, a)
                    = assetBalances[broker][a] + (IF a = ORN THEN fromStake ELSE 0)
  <2>. DEFINE d == (IF a = ORN THEN reward ELSE 0) - (IF a = asset THEN amount ELSE 0)
  <2>1. /\ assetBalances[liquidator][a] \in Int /\ assetBalances[broker][a] \in Int
        /\ lbal[a] \in Int /\ bbal[a] \in Int /\ d \in Int
    BY <1>1, <1>3, <1>5
  <2>2. assetBalances'[liquidator][a] = assetBalances[liquidator][a] + d
    <3>1. lbal[a] + (IF a = asset THEN amount ELSE 0) = assetBalances[liquidator][a]
      BY <1>1, <2>1 DEF lbal
    <3>2. lfinal[a] = lbal[a] + (IF a = ORN THEN reward ELSE 0)
      BY <1>5, <2>1
    <3>. HIDE DEF lfinal
    <3>. QED BY <1>3, <1>9, <2>1, <3>1, <3>2
  <2>3. assetBalances'[broker][a] + d
           = assetBalances[broker][a] + (IF a = ORN THEN fromStake ELSE 0)
    <3>1. bbal[a] = assetBalances[broker][a] + (IF a = asset THEN amount ELSE 0)
      BY <1>1, <2>1 DEF bbal
    <3>2. bfinal[a] + (IF a = ORN THEN fromBalance ELSE 0) = bbal[a]
      BY <1>5, <1>7, <2>1
    <3>3. bfinal[a] \in Int
      BY <1>5, <1>7, <2>1
    <3>. HIDE DEF bfinal
    <3>. QED BY <1>3, <1>7, <1>8, <1>9, <2>1, <3>1, <3>2, <3>3
  <2>. QED BY <2>2, <2>3 DEF Traded, reward
<1>12. fromBalance = RewardFromBalance(
          assetBalances[broker][ORN] + (IF asset = ORN THEN amount ELSE 0), reward)
  <2>1. bbal[ORN] = assetBalances[broker][ORN] + (IF asset = ORN THEN amount ELSE 0)
    BY <1>1 DEF bbal
  <2>. QED BY <1>6, <2>1 DEF fromBalance
<1>13. \A u \in Users \ {liquidator, broker}, a \in Assets :
          assetBalances'[u][a] = assetBalances[u][a]
  BY <1>9
<1>. HIDE DEF bfinal, lfinal
<1>14. Liquidates(liquidator, broker, asset, amount, fromBalance, fromStake)
  BY <1>4, <1>8, <1>10, <1>11, <1>12, <1>13 DEF Liquidates, reward
<1>. QED BY <1>7, <1>8, <1>14

LEMMA LiquidationCustody ==
    ASSUME IInv, NEW liquidator \in Users, NEW broker \in Users, NEW asset \in Assets,
           NEW amount \in Nat, PartiallyLiquidate(liquidator, broker, asset, amount)
    PROVE  CustodyKept
<1>1. PICK fromBalance \in Nat, fromStake \in Int :
         Liquidates(liquidator, broker, asset, amount, fromBalance, fromStake)
  BY LiquidationMoves
<1>2. TypeOK' /\ UNCHANGED held /\ LiquidationReward(asset, amount) \in Nat
  <2>1. IInv'
    BY UnitsPositive, LiquidationInv
  <2>2. UNCHANGED held
    BY DEF PartiallyLiquidate
  <2>3. LiquidationReward(asset, amount) \in Nat
    BY RewardNat
  <2>. QED BY <2>1, <2>2, <2>3 DEF IInv
<1>3. ASSUME NEW a \in Assets PROVE Surplus(a)' = Surplus(a)
  <2>. DEFINE d == Traded(asset, amount, a)
  <2>1. /\ liquidator # broker /\ d \in Int
        /\ assetBalances[liquidator][a] \in Int /\ assetBalances[broker][a] \in Int
        /\ assetBalances'[broker][a] \in Int
    <3>1. assetBalances \in [Users -> [Assets -> Int]] /\ assetBalances' \in [Users -> [Assets -> Int]]
      BY <1>2 DEF IInv, TypeOK, StorageTypeOK
    <3>2. liquidator # broker /\ d \in Int
      BY <1>1, <1>2 DEF Liquidates, Traded
    <3>. QED BY <3>1, <3>2
  <2>2. /\ assetBalances'[liquidator][a] = assetBalances[liquidator][a] + d
        /\ assetBalances'[broker][a] + d
              = assetBalances[broker][a] + (IF a = ORN THEN fromStake ELSE 0)
        /\ \A x \in Users \ {liquidator, broker} :
              assetBalances'[x][a] = assetBalances[x][a]
    BY <1>1 DEF Liquidates
  <2>3. /\ \A x \in Users \ {broker} : stakingData'[x].amount = stakingData[x].amount
        /\ stakingData'[broker].amount + fromStake = stakingData[broker].amount
    BY <1>1 DEF Liquidates
  <2>4. /\ stakingData[broker].amount \in Int /\ stakingData'[broker].amount \in Int
        /\ stakingData[liquidator].amount \in Int
    BY <1>2 DEF IInv, TypeOK, VaultTypeOK, Stake
  <2>. HIDE DEF d
  <2>5. assetBalances'[liquidator][a] + Staked(liquidator, a)'
           = assetBalances[liquidator][a] + Staked(liquidator, a) + d
    BY <2>1, <2>2, <2>3, <2>4 DEF Staked
  <2>6. assetBalances'[broker][a] + Staked(broker, a)' + d
           = assetBalances[broker][a] + Staked(broker, a)
    BY <2>1, <2>2, <2>3, <2>4 DEF Staked
  <2>7. \A x \in Users \ {liquidator, broker} :
           assetBalances'[x][a] + Staked(x, a)' = assetBalances[x][a] + Staked(x, a)
    BY <2>2, <2>3 DEF Staked
  <2>. QED BY <1>2, <2>1, <2>5, <2>6, <2>7, TransferCustody
<1>. QED BY <1>3, UnchangedCustody

LEMMA NextCustody ==
    ASSUME IInv, Next
    PROVE  CustodyKept
<1>1. ORN \in Assets
  BY UnitsPositive
<1>2. CASE /\ UNCHANGED <<assetBalances, stakingData, held>>
  <2>1. \A a \in Assets : Surplus(a)' = Surplus(a)
    BY <1>2, SameCustody DEF Staked
  <2>. QED BY <2>1, UnchangedCustody
<1>3. CASE UserStep
  <2>1. PICK u \in Users :
           \/ \E a \in Assets : \E x \in DepositAmounts[u][a] : Deposit(u, a, x)
           \/ \E a \in Assets : \E x \in WithdrawAmounts[u][a] : Withdraw(u, a, x)
           \/ \E a \in Assets : \E x \in ApproveAmounts[u][a] : Approve(u, a, x)
           \/ \E x \in StakeAmounts[u] : LockStake(u, x)
           \/ RequestReleaseStake(u)
           \/ \E b \in Users, a \in Assets : \E x \in LiquidationAmounts[u][a] :
                 PartiallyLiquidate(u, b, a, x)
    BY <1>3 DEF UserStep
  <2>2. ASSUME NEW a \in Assets, NEW x \in DepositAmounts[u][a], Deposit(u, a, x)
        PROVE  CustodyKept
    BY <2>2, InputsNat, DepositCustody
  <2>3. ASSUME NEW a \in Assets, NEW x \in WithdrawAmounts[u][a], Withdraw(u, a, x)
        PROVE  CustodyKept
    BY <2>3, InputsNat, WithdrawCustody
  <2>4. ASSUME NEW a \in Assets, NEW x \in ApproveAmounts[u][a], Approve(u, a, x)
        PROVE  CustodyKept
    BY <1>2, <2>4 DEF Approve
  <2>5. ASSUME NEW x \in StakeAmounts[u], LockStake(u, x)
        PROVE  CustodyKept
    BY <2>5, InputsNat, StakeCustody
  <2>6. CASE RequestReleaseStake(u)
    <3>1. 0 \in Nat
      OBVIOUS
    <3>. QED BY <2>6, <3>1, StakeCustody
  <2>7. ASSUME NEW b \in Users, NEW a \in Assets, NEW x \in LiquidationAmounts[u][a],
               PartiallyLiquidate(u, b, a, x)
        PROVE  CustodyKept
    BY <2>7, InputsNat, LiquidationCustody
  <2>. QED BY <2>1, <2>2, <2>3, <2>4, <2>5, <2>6, <2>7
<1>4. CASE MatcherStep
  <2>1. PICK m \in Users, buy \in Orders, sell \in Orders, p \in FillPrices, x \in FillAmounts :
           FillOrders(m, buy, sell, p, x)
    BY <1>4 DEF MatcherStep
  <2>2. p \in Nat /\ x \in Nat
    BY ExchangeAssumption DEF ExchangeAssumption
  <2>. QED BY <2>1, <2>2, FillOrdersCustody
<1>5. CASE OracleStep
  BY <1>2, <1>5 DEF OracleStep, ledgerVars
<1>6. CASE OwnerStep
  <2>1. CASE \/ \E s \in SettingsChoices : UpdateMarginalSettings(s)
             \/ \E r \in RiskChoices : UpdateAssetRisks(r)
    BY <1>2, <2>1 DEF UpdateMarginalSettings, UpdateAssetRisks, ledgerVars
  <2>2. CASE \E u \in OwnerTargets : PostponeStakeRelease(u) \/ AllowStakeRelease(u)
    <3>1. PICK u \in OwnerTargets : PostponeStakeRelease(u) \/ AllowStakeRelease(u)
      BY <2>2
    <3>2. \E phase \in StakePhase : SetPhase(u, phase)
      BY <3>1 DEF PostponeStakeRelease, AllowStakeRelease, StakePhase
    <3>3. u \in Users /\ 0 \in Nat
      BY ExchangeAssumption DEF ExchangeAssumption
    <3>. QED BY <3>2, <3>3, StakeCustody
  <2>. QED BY <1>6, <2>1, <2>2 DEF OwnerStep
<1>. QED BY <1>3, <1>4, <1>5, <1>6 DEF Next

LEMMA SurplusInt ==
    ASSUME IInv, NEW a \in Assets
    PROVE  Surplus(a) \in Int
BY SurplusIsBacking, LedgerIsOK, BackingInt DEF IInv, TypeOK

(* Nothing is held and nothing is owed at the start. *)
LEMMA InitSurplus ==
    ASSUME Init, NEW a \in Assets
    PROVE  Surplus(a) = 0
<1>. DEFINE f == [u \in Users |-> assetBalances[u][a] + Staked(u, a)]
<1>1. \A u \in Users : f[u] = 0
  BY DEF Init, StorageInit, VaultInit, Staked
<1>2. OwedToUsers(a) = SumFunctionOnSet(f, Users)
  BY DEF OwedToUsers, SumFunction
<1>. HIDE DEF f
<1>3. OwedToUsers(a) = 0
  BY <1>1, <1>2, UnitsPositive, SumZero
<1>4. held[a] = 0 /\ Unit \in Int /\ BaseUnit[a] \in Int
  BY UnitsPositive DEF Init, StorageInit
<1>. QED BY <1>3, <1>4 DEF Surplus

(* Full backing: of a token that the exchange keeps in the token's own unit, the
   contract holds exactly what it owes its users in balances and stakes, less what
   they owe it, in every reachable state. *)
THEOREM FullyBacked == Spec => []Backed
<1>. DEFINE CInv == IInv /\ Backed
<1>1. Init => CInv
  BY InitInv, InitSurplus DEF Backed
<1>2. CInv /\ [Next]_vars => CInv'
  <2>. SUFFICES ASSUME CInv, [Next]_vars PROVE CInv'
    OBVIOUS
  <2>1. IInv'
    BY NextInv
  <2>2. CASE Next
    <3>1. CustodyKept
      BY <2>2, NextCustody
    <3>. QED BY <2>1, <3>1 DEF Backed, CustodyKept
  <2>3. CASE UNCHANGED vars
    <3>1. Backed' = Backed
      BY <2>3 DEF vars, Backed, Surplus, OwedToUsers, Staked
    <3>. QED BY <2>1, <3>1
  <2>. QED BY <2>2, <2>3
<1>. QED BY <1>1, <1>2, PTL DEF Spec

(* Bounded dust: one transaction, whatever it converts and rounds, takes less than
   two units of an asset from what backs the balances of its users. *)
THEOREM DustIsBounded == Spec => DustBounded
<1>1. IInv /\ [Next]_vars => [CustodyKept]_vars
  BY NextCustody
<1>2. CustodyKept => \A a \in Assets :
         Surplus(a)' > Surplus(a) - 2 * Max({Unit, BaseUnit[a]})
  BY DEF CustodyKept
<1>3. IInv /\ [Next]_vars =>
         [\A a \in Assets : Surplus(a)' > Surplus(a) - 2 * Max({Unit, BaseUnit[a]})]_vars
  BY <1>1, <1>2
<1>. QED BY <1>3, Invariance, PTL DEF Spec, DustBounded

-------------------------------------------------------------------------------
(* The pool as the counterparty. *)

(* The tokens of asset that M holds are h more than those that L holds, and
   balances are the same. *)
LEMMA HeldBacking ==
    ASSUME NEW L \in LedgerType, NEW M \in LedgerType, M.assetBalances = L.assetBalances,
           NEW asset, NEW h \in Int,
           M.held = [L.held EXCEPT ![asset] = L.held[asset] + h], NEW a \in Assets, VaultTypeOK
    PROVE  Backing(M, a) = Backing(L, a) + At(a, asset, h) * Unit
<1>1. Owed(M, a) = Owed(L, a)
  BY DEF Owed
<1>2. M.held[a] = L.held[a] + At(a, asset, h)
  <2>1. L.held \in [Assets -> Nat]
    BY DEF LedgerType
  <2>. QED BY <2>1 DEF At
<1>3. /\ Owed(L, a) \in Int /\ L.held[a] \in Int /\ At(a, asset, h) \in Int
      /\ Unit \in Int /\ BaseUnit[a] \in Int
  BY BackingInt, UnitsPositive DEF At
<1>4. (L.held[a] + At(a, asset, h)) * Unit = L.held[a] * Unit + At(a, asset, h) * Unit
      /\ L.held[a] * Unit \in Int /\ At(a, asset, h) * Unit \in Int
      /\ Owed(L, a) * BaseUnit[a] \in Int
  BY <1>3
<1>. DEFINE p == L.held[a] * Unit
            q == At(a, asset, h) * Unit
            r == Owed(L, a) * BaseUnit[a]
<1>5. /\ Backing(M, a) = (p + q) - r /\ Backing(L, a) = p - r
      /\ p \in Int /\ q \in Int /\ r \in Int
  BY <1>1, <1>2, <1>4 DEF Backing
<1>. HIDE DEF p, q, r
<1>6. Backing(M, a) = Backing(L, a) + q
  BY <1>5
<1>. QED BY <1>6 DEF q

(* What the exchange pays to a pair, and receives from one. *)
Paid(fromExchange, base) == IF fromExchange THEN base ELSE 0

LEMMA PayBacking ==
    ASSUME VaultTypeOK, NEW L \in LedgerType, NEW user \in Users, NEW asset \in Assets,
           NEW base \in Nat, NEW fromExchange \in BOOLEAN,
           CanPay(L, user, fromExchange, asset, base), NEW a \in Assets
    PROVE  LET M == Pay(L, user, fromExchange, asset, base)
           IN Backing(M, a) + At(a, asset, Paid(fromExchange, base)) * Unit = Backing(L, a)
<1>. DEFINE M == Pay(L, user, fromExchange, asset, base)
            h == -Paid(fromExchange, base)
<1>1. M \in LedgerType /\ M.assetBalances = L.assetBalances
  BY PayFields DEF OnlyTokens
<1>2. L.held \in [Assets -> Nat] /\ h \in Int
  BY DEF LedgerType, Paid
<1>3. M.held = [L.held EXCEPT ![asset] = L.held[asset] + h]
  <2>1. CASE fromExchange
    <3>1. M.held = [L.held EXCEPT ![asset] = L.held[asset] - base]
      BY <2>1 DEF Pay, LedgerType
    <3>2. L.held[asset] - base = L.held[asset] + h
      BY <1>2, <2>1 DEF Paid
    <3>. QED BY <3>1, <3>2
  <2>2. CASE ~fromExchange
    <3>1. M.held = L.held
      BY <2>2 DEF Pay, LedgerType
    <3>2. L.held[asset] + h = L.held[asset]
      BY <1>2, <2>2 DEF Paid
    <3>. HIDE DEF M, h
    <3>. QED BY <1>2, <3>1, <3>2
  <2>. QED BY <2>1, <2>2
<1>. HIDE DEF M
<1>4. Backing(M, a) = Backing(L, a) + At(a, asset, h) * Unit
  <2>. HIDE DEF h
  <2>. QED BY <1>1, <1>2, <1>3, HeldBacking
<1>5. /\ Backing(L, a) \in Int /\ Unit \in Int /\ Paid(fromExchange, base) \in Int
  BY BackingInt, UnitsPositive DEF Paid
<1>6. At(a, asset, h) * Unit + At(a, asset, Paid(fromExchange, base)) * Unit = 0
      /\ At(a, asset, h) * Unit \in Int
      /\ At(a, asset, Paid(fromExchange, base)) * Unit \in Int
  BY <1>5 DEF At
<1>. DEFINE p == At(a, asset, h) * Unit
            q == At(a, asset, Paid(fromExchange, base)) * Unit
            before == Backing(L, a)
<1>7. Backing(M, a) = before + p /\ p + q = 0 /\ p \in Int /\ q \in Int /\ before \in Int
  BY <1>4, <1>5, <1>6
<1>. HIDE DEF p, q, before
<1>8. Backing(M, a) + q = before
  BY <1>7
<1>. QED BY <1>8 DEF M, q, before

LEMMA CollectBacking ==
    ASSUME VaultTypeOK, NEW L \in LedgerType, NEW user \in Users, NEW asset \in Assets,
           NEW base \in Nat, NEW toExchange \in BOOLEAN, NEW a \in Assets
    PROVE  LET M == Collect(L, user, toExchange, asset, base)
           IN Backing(M, a) = Backing(L, a) + At(a, asset, Paid(toExchange, base)) * Unit
<1>. DEFINE M == Collect(L, user, toExchange, asset, base)
            h == Paid(toExchange, base)
<1>1. M \in LedgerType /\ M.assetBalances = L.assetBalances
  BY CollectFields DEF OnlyTokens
<1>2. L.held \in [Assets -> Nat] /\ h \in Int
  BY DEF LedgerType, Paid
<1>3. M.held = [L.held EXCEPT ![asset] = L.held[asset] + h]
  <2>1. CASE toExchange
    BY <2>1 DEF Collect, LedgerType, Paid
  <2>2. CASE ~toExchange
    <3>1. M.held = L.held
      BY <2>2 DEF Collect, LedgerType
    <3>2. L.held[asset] + h = L.held[asset]
      BY <1>2, <2>2 DEF Paid
    <3>. HIDE DEF M, h
    <3>. QED BY <1>2, <3>1, <3>2
  <2>. QED BY <2>1, <2>2
<1>. HIDE DEF M, h
<1>4. Backing(M, a) = Backing(L, a) + At(a, asset, h) * Unit
  BY <1>1, <1>2, <1>3, HeldBacking
<1>. QED BY <1>4 DEF M, h

LEMMA PayRounds ==
    ASSUME VaultTypeOK, NEW L \in LedgerType, NEW user \in Users, NEW asset \in Assets,
           NEW base \in Nat, NEW fromExchange \in BOOLEAN,
           CanPay(L, user, fromExchange, asset, base), NEW a \in Assets
    PROVE  Rounds(L, Pay(L, user, fromExchange, asset, base), a,
                  At(a, asset, Paid(fromExchange, BaseUnitToDecimal(asset, base))),
                  At(a, asset, Paid(fromExchange, BaseUnit[a] - 1)))
<1>. DEFINE M == Pay(L, user, fromExchange, asset, base)
            decimal == BaseUnitToDecimal(asset, base)
            p == At(a, asset, Paid(fromExchange, base)) * Unit
            q == At(a, asset, Paid(fromExchange, decimal)) * BaseUnit[a]
            loss == At(a, asset, Paid(fromExchange, BaseUnit[a] - 1))
<1>1. M \in LedgerType
  BY PayFields DEF OnlyTokens
<1>2. Backing(M, a) + p = Backing(L, a)
  BY PayBacking
<1>. HIDE DEF M
<1>3. /\ decimal \in Nat /\ Unit \in Int /\ BaseUnit[a] \in Nat \ {0}
      /\ base * Unit < decimal * BaseUnit[asset] + BaseUnit[asset]
      /\ BaseUnit[asset] = Unit => decimal = base
  BY ToDecimal, UnitsPositive
<1>. HIDE DEF decimal
<1>4. p \in Int /\ q \in Int /\ loss \in Int
  BY <1>3 DEF At, Paid
<1>5. q + loss >= p
  <2>1. CASE a = asset /\ fromExchange
    BY <1>3, <2>1 DEF At, Paid
  <2>2. CASE ~(a = asset /\ fromExchange)
    <3>1. p = 0 /\ q = 0 /\ loss = 0
      BY <1>3, <2>2 DEF At, Paid
    <3>. QED BY <3>1
  <2>. QED BY <2>1, <2>2
<1>6. BaseUnit[a] = Unit => p = q
  BY <1>3 DEF At, Paid
<1>7. Backing(M, a) \in Int /\ Backing(L, a) \in Int
  BY <1>1, BackingInt
<1>. HIDE DEF p, loss
<1>8. Backing(M, a) + q + loss >= Backing(L, a)
      /\ (BaseUnit[a] = Unit => Backing(M, a) + q = Backing(L, a))
  <2>. HIDE DEF q
  <2>. QED BY <1>2, <1>4, <1>5, <1>6, <1>7
<1>. QED BY <1>8 DEF Rounds, M, decimal, loss

LEMMA CollectRounds ==
    ASSUME VaultTypeOK, NEW L \in LedgerType, NEW user \in Users, NEW asset \in Assets,
           NEW base \in Nat, NEW toExchange \in BOOLEAN, NEW a \in Assets
    PROVE  Rounds(L, Collect(L, user, toExchange, asset, base), a,
                  -At(a, asset, Paid(toExchange, BaseUnitToDecimal(asset, base))), 0)
<1>. DEFINE M == Collect(L, user, toExchange, asset, base)
            decimal == BaseUnitToDecimal(asset, base)
            p == At(a, asset, Paid(toExchange, base)) * Unit
            x == -At(a, asset, Paid(toExchange, decimal))
            q == x * BaseUnit[a]
<1>1. M \in LedgerType
  BY CollectFields DEF OnlyTokens
<1>2. Backing(M, a) = Backing(L, a) + p
  BY CollectBacking
<1>. HIDE DEF M
<1>3. /\ decimal \in Nat /\ Unit \in Int /\ BaseUnit[a] \in Nat \ {0}
      /\ decimal * BaseUnit[asset] <= base * Unit
      /\ BaseUnit[asset] = Unit => decimal = base
  BY ToDecimal, UnitsPositive
<1>. HIDE DEF decimal
<1>4. p \in Int /\ q \in Int
  BY <1>3 DEF At, Paid
<1>5. p + q >= 0 /\ (BaseUnit[a] = Unit => p + q = 0)
  <2>1. CASE a = asset /\ toExchange
    <3>1. p = base * Unit /\ x = -decimal
      BY <2>1 DEF At, Paid
    <3>2. q = -(decimal * BaseUnit[a]) /\ decimal * BaseUnit[a] \in Int /\ base * Unit \in Int
      BY <1>3, <3>1
    <3>. HIDE DEF p, q
    <3>. QED BY <1>3, <2>1, <3>1, <3>2
  <2>2. CASE ~(a = asset /\ toExchange)
    <3>1. p = 0 /\ q = 0
      BY <1>3, <2>2 DEF At, Paid
    <3>. QED BY <3>1
  <2>. QED BY <2>1, <2>2
<1>7. Backing(M, a) \in Int /\ Backing(L, a) \in Int
  BY <1>1, BackingInt
<1>. HIDE DEF p
<1>8. Backing(M, a) + q + 0 >= Backing(L, a)
      /\ (BaseUnit[a] = Unit => Backing(M, a) + q = Backing(L, a))
  <2>. HIDE DEF q
  <2>. QED BY <1>2, <1>4, <1>5, <1>7
<1>. QED BY <1>8 DEF Rounds, M, decimal

(* What a swap brings to the exchange, less what it takes from it, in units of the
   exchange; it is not yet in any balance. *)
Taken(swap, path, fromExchange, toExchange, a) ==
    At(a, First(path), Paid(fromExchange, swap.amountOut))
    - At(a, Last(path), Paid(toExchange, swap.amountIn))

LEMMA SwapRounds ==
    ASSUME VaultTypeOK, NEW L \in LedgerType, NEW user \in Users, NEW path \in Paths,
           NEW fromExchange \in BOOLEAN, NEW toExchange \in BOOLEAN,
           NEW spend, NEW receive, NEW exact, NEW swap,
           swap = doSwapThroughOrionPool(L, user, fromExchange, spend, receive, path, exact,
                                         toExchange),
           swap.ok, NEW a \in Assets
    PROVE  Rounds(L, swap.ledger, a, Taken(swap, path, fromExchange, toExchange, a),
                  At(a, First(path), Paid(fromExchange, BaseUnit[a] - 1)))
<1>. DEFINE amounts == Quote(spend, receive, path, exact)
            paid == amounts[1]
            received == amounts[Len(path)]
            payed == Pay(L, user, fromExchange, First(path), paid)
            final == Collect(payed, user, toExchange, Last(path), received)
            x == At(a, First(path), Paid(fromExchange, swap.amountOut))
            y == At(a, Last(path), Paid(toExchange, swap.amountIn))
            loss == At(a, First(path), Paid(fromExchange, BaseUnit[a] - 1))
<1>1. /\ \A i \in DOMAIN path : amounts[i] \in Nat \ {0}
      /\ CanPay(L, user, fromExchange, First(path), paid)
      /\ swap.ledger = final
      /\ swap.amountOut = BaseUnitToDecimal(First(path), paid)
      /\ swap.amountIn = BaseUnitToDecimal(Last(path), received)
  BY DEF doSwapThroughOrionPool
<1>2. /\ paid \in Nat /\ received \in Nat
      /\ First(path) \in Assets /\ Last(path) \in Assets
  BY <1>1, PathEnds
<1>. HIDE DEF amounts, paid, received
<1>3. payed \in LedgerType
  BY <1>1, <1>2, PayFields DEF OnlyTokens
<1>4. Rounds(L, payed, a, x, loss)
  BY <1>1, <1>2, PayRounds
<1>. HIDE DEF payed
<1>5. final \in LedgerType /\ Rounds(payed, final, a, -y, 0)
  BY <1>1, <1>2, <1>3, CollectFields, CollectRounds DEF OnlyTokens
<1>6. swap.amountOut \in Int /\ swap.amountIn \in Int /\ BaseUnit[a] \in Int
  <2>1. /\ BaseUnitToDecimal(First(path), paid) \in Nat
        /\ BaseUnitToDecimal(Last(path), received) \in Nat
    BY <1>2, ConversionNat
  <2>. QED BY <1>1, <2>1, UnitsPositive
<1>7. x \in Int /\ y \in Int /\ loss \in Int /\ -y \in Int
  BY <1>6 DEF At, Paid
<1>. HIDE DEF final, x, y, loss
<1>8. Rounds(L, final, a, x + (-y), loss + 0)
  BY <1>3, <1>4, <1>5, <1>7, RoundsChain
<1>9. x + (-y) = x - y /\ loss + 0 = loss
  BY <1>7
<1>. QED BY <1>1, <1>8, <1>9 DEF Taken, x, y, loss

(* The fee of a matcher. *)
LEMMA PayFeeRounds ==
    ASSUME VaultTypeOK, NEW L, LedgerOK(L), NEW order \in OrderType, NEW fee \in Nat,
           now \in Nat, NEW a \in Assets
    PROVE  \E loss \in Int : /\ Rounds(L, _payMatcherFee(L, order, fee), a, 0, loss)
                             /\ loss <= Unit - 1
<1>. DEFINE user == order.senderAddress
            feeAsset == order.matcherFeeAsset
            charged == _updateBalance(L, user, feeAsset, -fee).ledger
            M == _updateBalance(charged, order.matcherAddress, feeAsset, fee).ledger
            x == At(a, feeAsset, -fee)
            y == At(a, feeAsset, fee)
            lossX == At(a, feeAsset, Pulled(-fee))
            lossY == At(a, feeAsset, Pulled(fee))
<1>1. /\ user \in Users /\ order.matcherAddress \in Users /\ feeAsset \in Assets
      /\ -fee \in Int /\ fee \in Int /\ L \in LedgerType /\ Unit \in Int /\ Unit >= 1
      /\ Pulled(-fee) \in Int /\ Pulled(fee) \in Int
  BY UnitsPositive DEF OrderType, LedgerOK, Pulled
<1>2. M = _payMatcherFee(L, order, fee)
  BY DEF _payMatcherFee
<1>. HIDE DEF user, feeAsset
<1>3. LedgerOK(charged) /\ Gives(L, charged, user, feeAsset, -fee, Pulled(-fee))
  BY <1>1, UpdateBalanceOK, UpdateBalanceGives
<1>. HIDE DEF charged
<1>4. /\ LedgerOK(M)
      /\ Gives(charged, M, order.matcherAddress, feeAsset, fee, Pulled(fee))
  BY <1>1, <1>3, UpdateBalanceOK, UpdateBalanceGives
<1>. HIDE DEF M
<1>5. charged \in LedgerType /\ M \in LedgerType
  BY <1>3, <1>4 DEF LedgerOK
<1>6. Rounds(L, charged, a, x, lossX) /\ Rounds(charged, M, a, y, lossY)
  BY <1>1, <1>3, <1>4, <1>5, GivesRounds
<1>7. /\ x \in Int /\ y \in Int /\ lossX \in Int /\ lossY \in Int
      /\ x + y = 0 /\ lossX + lossY <= Unit - 1 /\ lossX + lossY \in Int
  BY <1>1 DEF At, Pulled
<1>. HIDE DEF x, y, lossX, lossY
<1>8. Rounds(L, M, a, x + y, lossX + lossY)
  BY <1>1, <1>5, <1>6, <1>7, RoundsChain
<1>. QED BY <1>2, <1>7, <1>8

(* The code takes an order of any side but kBuy for a sale when it checks the path,
   and for a purchase when it moves balances: an order of a third side would have
   the asset that it does not give taken from the balance
   (LibValidator.sol:182-188, ExchangeWithOrionPool.sol:88-91). *)
SidesAreKnown == \A order \in SignedOrders : order.buySide \in {kSell, kBuy}

LEMMA PathOfOrder ==
    ASSUME SidesAreKnown, NEW order, NEW sender, NEW filledAmount, NEW path,
           checkOrderSingleMatch(order, sender, filledAmount, path)
    PROVE  /\ OutAsset(order, order.buySide = kSell) = First(path)
           /\ InAsset(order, order.buySide = kSell) = Last(path)
BY DEF SidesAreKnown, checkOrderSingleMatch, validateOrder, OutAsset, InAsset, First, Last,
       kSell, kBuy

(* The order is settled with what the swap has paid and brought: no balance is left
   without its tokens, but for the units lost in the two roundings. *)
LEMMA SettleSwapRounds ==
    ASSUME VaultTypeOK, NEW L, LedgerOK(L), NEW user \in Users, NEW path \in Paths,
           NEW order \in OrderType, NEW isSeller \in BOOLEAN, NEW inContract \in BOOLEAN,
           OutAsset(order, isSeller) = First(path), InAsset(order, isSeller) = Last(path),
           NEW swap, LedgerOK(swap.ledger),
           swap.amountOut \in Nat, swap.amountIn \in Nat, now \in Nat, NEW a \in Assets,
           NEW retained \in BOOLEAN, retained <=> inContract \/ RetainsFee(order, inContract, path),
           Rounds(L, swap.ledger, a, Taken(swap, path, inContract, retained, a),
                  At(a, First(path), Paid(inContract, BaseUnit[a] - 1))),
           NEW filledBase \in Nat, NEW filledQuote \in Nat, filledBase > 0,
           isSeller => filledBase = swap.amountOut /\ filledQuote = swap.amountIn,
           ~isSeller => filledBase = swap.amountIn /\ filledQuote = swap.amountOut
    PROVE  \E loss \in Int :
              /\ Rounds(L, SettleSwap(swap, order, isSeller, inContract, filledBase,
                                      filledQuote, path), a, 0, loss)
              /\ loss < 2 * Max({Unit, BaseUnit[a]})
<1>. DEFINE sender == order.senderAddress
            debited == updateOrderBalanceDebit(swap.ledger, order, isSeller,
                           filledBase, filledQuote, order.matcherFee)
            feePaid == _payMatcherFee(swap.ledger, order, order.matcherFee)
            M == SettleSwap(swap, order, isSeller, inContract, filledBase, filledQuote, path)
            x == Taken(swap, path, inContract, retained, a)
            lossX == At(a, First(path), Paid(inContract, BaseUnit[a] - 1))
            most == 2 * Max({Unit, BaseUnit[a]})
<1>1. /\ sender \in Users /\ order.matcherFee \in Nat
      /\ Last(path) \in Assets /\ First(path) \in Assets
      /\ filledBase \in Nat /\ filledQuote \in Nat
  BY PathEnds DEF OrderType
<1>2. M = IF inContract
          THEN creditUserAssets(debited.ledger, debited.fromWallet, sender,
                                debited.actualIn, Last(path))
          ELSE IF RetainsFee(order, inContract, path)
          THEN creditUserAssets(feePaid, TRUE, sender, swap.amountIn, Last(path))
          ELSE feePaid
  BY DEF SettleSwap
<1>3. /\ L \in LedgerType /\ swap.ledger \in LedgerType /\ Unit \in Int /\ Unit >= 1
      /\ BaseUnit[a] \in Int /\ BaseUnit[a] >= 1 /\ most \in Int
      /\ most >= Unit + BaseUnit[a]
  BY UnitsPositive, LargerUnit DEF LedgerOK
<1>4. x \in Int /\ lossX \in Int /\ lossX <= BaseUnit[a] - 1
  BY <1>3 DEF Taken, At, Paid
<1>5. Rounds(L, swap.ledger, a, x, lossX)
  OBVIOUS
<1>. HIDE DEF sender, debited, feePaid, M, most
<1>6. CASE inContract
  <2>1. M = creditUserAssets(debited.ledger, debited.fromWallet, sender,
                             debited.actualIn, Last(path))
    BY <1>2, <1>6
  <2>2. LedgerOK(debited.ledger) /\ debited.actualIn \in Int
    BY <1>1, DebitOK DEF debited
  <2>3. DebitRound(swap.ledger, order, isSeller, filledBase, filledQuote, order.matcherFee, a)
    <3>1. filledBase = 0 => filledQuote = 0
      BY <1>1
    <3>. QED BY <1>1, <3>1, DebitRounds
  <2>4. PICK y \in Int, lossY \in Int :
           /\ Rounds(swap.ledger, debited.ledger, a, y, lossY)
           /\ y + At(a, Last(path), debited.actualIn)
                 = Exchanged(order, isSeller, swap.amountOut, swap.amountIn, a)
           /\ lossY + At(a, Last(path), Pulled(debited.actualIn)) <= Unit - 1
    BY <2>3 DEF DebitRound, debited
  <2>. DEFINE z == At(a, Last(path), debited.actualIn)
              lossZ == At(a, Last(path), Pulled(debited.actualIn))
  <2>5. LedgerOK(M) /\ Rounds(debited.ledger, M, a, z, lossZ)
    BY <1>1, <2>1, <2>2, CreditOK, CreditRounds
  <2>6. z \in Int /\ lossZ \in Int
    BY <1>3, <2>2 DEF At, Pulled
  <2>7. x + y + z = 0
    <3>1. retained
      BY <1>6
    <3>. QED BY <1>6, <2>4, <2>6, <3>1 DEF Taken, Exchanged, Paid, At
  <2>8. debited.ledger \in LedgerType /\ M \in LedgerType
    BY <2>2, <2>5 DEF LedgerOK
  <2>9. lossY + lossZ <= Unit - 1
    BY <2>4
  <2>. HIDE DEF x, lossX, z, lossZ
  <2>10. Rounds(L, debited.ledger, a, x + y, lossX + lossY)
    BY <1>3, <1>4, <1>5, <2>4, <2>8, RoundsChain
  <2>11. x + y \in Int /\ lossX + lossY \in Int
    BY <1>4
  <2>12. Rounds(L, M, a, (x + y) + z, (lossX + lossY) + lossZ)
    BY <1>3, <2>5, <2>6, <2>8, <2>10, <2>11, RoundsChain
  <2>13. (x + y) + z = 0 /\ (lossX + lossY) + lossZ < most /\ (lossX + lossY) + lossZ \in Int
    BY <1>3, <1>4, <2>6, <2>7, <2>9
  <2>. QED BY <2>12, <2>13 DEF M, most
<1>7. CASE ~inContract
  <2>0. lossX = 0
    BY <1>7 DEF At, Paid
  <2>. HIDE DEF lossX
  <2>1. PICK lossY \in Int :
           Rounds(swap.ledger, feePaid, a, 0, lossY) /\ lossY <= Unit - 1
    BY <1>1, PayFeeRounds DEF feePaid
  <2>2. LedgerOK(feePaid) /\ feePaid \in LedgerType
    BY <1>1, PayFeeOK DEF feePaid, LedgerOK
  <2>3. Rounds(L, feePaid, a, x + 0, lossX + lossY)
    <3>1. 0 \in Int
      OBVIOUS
    <3>. HIDE DEF x
    <3>. QED BY <1>3, <1>4, <1>5, <2>1, <2>2, <3>1, RoundsChain
  <2>4. x + 0 = x /\ lossX + lossY = lossY
    BY <1>4, <2>0
  <2>5. CASE RetainsFee(order, inContract, path)
    <3>. DEFINE z == At(a, Last(path), swap.amountIn)
                lossZ == At(a, Last(path), Pulled(swap.amountIn))
    <3>1. M = creditUserAssets(feePaid, TRUE, sender, swap.amountIn, Last(path))
          /\ swap.amountIn \in Int
      BY <1>2, <1>7, <2>5
    <3>2. LedgerOK(M) /\ Rounds(feePaid, M, a, z, lossZ)
      BY <1>1, <2>2, <3>1, CreditOK, CreditRounds
    <3>3. M \in LedgerType
      BY <3>2 DEF LedgerOK
    <3>4. z \in Int /\ lossZ = 0 /\ x + z = 0
      <4>1. retained
        BY <2>5
      <4>. QED BY <1>7, <4>1 DEF At, Pulled, Taken, Paid
    <3>. HIDE DEF x, z, lossZ
    <3>5. Rounds(L, M, a, x + z, lossY + lossZ)
      <4>1. lossZ \in Int
        BY <3>4
      <4>. QED BY <1>3, <1>4, <2>2, <2>3, <2>4, <3>2, <3>3, <3>4, <4>1, RoundsChain
    <3>6. x + z = 0 /\ lossY + lossZ < most /\ lossY + lossZ \in Int
      BY <1>3, <2>1, <3>4
    <3>. QED BY <3>5, <3>6 DEF M, most
  <2>6. CASE ~RetainsFee(order, inContract, path)
    <3>1. M = feePaid
      BY <1>2, <1>7, <2>6
    <3>2. x = 0
      BY <1>7, <2>6 DEF At, Taken, Paid
    <3>3. Rounds(L, M, a, 0, lossY)
      BY <2>3, <2>4, <3>1, <3>2
    <3>4. lossY < most
      BY <1>3, <2>1
    <3>. QED BY <3>3, <3>4 DEF M, most
  <2>. QED BY <2>5, <2>6
<1>. QED BY <1>6, <1>7

LEMMA FillThroughOrionPoolCustody ==
    ASSUME PoolIInv, SidesAreKnown, NEW sender \in Users, NEW order \in Orders,
           NEW filledAmount \in Nat, NEW blockchainFee \in Nat, NEW path \in Paths,
           FillThroughOrionPool(sender, order, filledAmount, blockchainFee, path)
    PROVE  CustodyKept
<1>. DEFINE user == order.senderAddress
            isSeller == order.buySide = kSell
            amountQuote == (filledAmount * order.price) \div Unit
            spend == IF isSeller THEN filledAmount ELSE amountQuote
            receive == IF isSeller THEN amountQuote ELSE filledAmount
            inContract == First(path) = ETH \/ assetBalances[user][First(path)] > 0
            retained == inContract \/ RetainsFee(order, inContract, path)
            swap == doSwapThroughOrionPool(Ledger, user, inContract, spend, receive, path,
                        isSeller, retained)
            filledBase == IF isSeller THEN swap.amountOut ELSE swap.amountIn
            filledQuote == IF isSeller THEN swap.amountIn ELSE swap.amountOut
            charged == IF swap.ok /\ LowersFee(order, blockchainFee)
                       THEN [order EXCEPT !.matcherFee = blockchainFee] ELSE order
            L == IF swap.ok
                 THEN SettleSwap(swap, charged, isSeller, inContract,
                                 filledBase, filledQuote, path)
                 ELSE _payMatcherFee(Ledger, order, order.matcherFee)
<1>1. /\ Commit(L) /\ UNCHANGED stakingData
      /\ checkOrderSingleMatch(order, sender, filledAmount, path)
      /\ swap.ok => filledBase > 0
  BY DEF FillThroughOrionPool, PriceHonoured
<1>2. /\ order \in OrderType /\ user \in Users /\ IInv /\ now \in Nat /\ VaultTypeOK
      /\ order.matcherFee \in Nat
  BY StorageAssumption
     DEF StorageAssumption, OrderType, PoolIInv, IInv, TypeOK, OracleTypeOK
<1>3. isSeller \in BOOLEAN /\ inContract \in BOOLEAN /\ retained \in BOOLEAN
  BY DEF RetainsFee
<1>4. LedgerOK(Ledger) /\ Ledger \in LedgerType
  BY <1>2, LedgerIsOK
<1>5. CASE swap.ok
  <2>1. /\ OnlyTokens(Ledger, swap.ledger)
        /\ swap.amountOut \in Nat /\ swap.amountIn \in Nat
    <3>. HIDE DEF user, isSeller, spend, receive, inContract, retained
    <3>. QED BY <1>2, <1>3, <1>4, <1>5, SwapOK
  <2>2. LedgerOK(swap.ledger)
    BY <1>4, <2>1, OnlyTokensOK
  <2>3. charged \in OrderType
    <3>. HIDE DEF swap
    <3>1. CASE LowersFee(order, blockchainFee)
      <4>1. blockchainFee \in 0 .. order.matcherFee
        BY <1>2, <3>1 DEF LowersFee
      <4>. QED BY <1>5, <3>1, <4>1, HashOfLowered
    <3>2. CASE ~LowersFee(order, blockchainFee)
      BY <1>2, <3>2
    <3>. QED BY <3>1, <3>2
  <2>4. /\ charged.baseAsset = order.baseAsset /\ charged.quoteAsset = order.quoteAsset
        /\ charged.matcherFeeAsset = order.matcherFeeAsset
        /\ charged.senderAddress = order.senderAddress
    <3>. HIDE DEF swap
    <3>. QED BY <1>2 DEF OrderType
  <2>5. /\ OutAsset(charged, isSeller) = First(path)
        /\ InAsset(charged, isSeller) = Last(path)
    BY <1>1, <2>4, PathOfOrder DEF OutAsset, InAsset
  <2>6. retained <=> inContract \/ RetainsFee(charged, inContract, path)
    BY <2>4 DEF RetainsFee
  <2>7. L = SettleSwap(swap, charged, isSeller, inContract, filledBase, filledQuote, path)
    BY <1>5
  <2>8. ASSUME NEW a \in Assets
        PROVE  Rounds(Ledger, swap.ledger, a, Taken(swap, path, inContract, retained, a),
                      At(a, First(path), Paid(inContract, BaseUnit[a] - 1)))
    <3>1. swap = doSwapThroughOrionPool(Ledger, user, inContract, spend, receive, path,
                     isSeller, retained)
      OBVIOUS
    <3>. HIDE DEF user, isSeller, spend, receive, inContract, retained, swap
    <3>. QED BY <1>2, <1>3, <1>4, <1>5, <3>1, SwapRounds
  <2>9. filledBase > 0 /\ filledBase \in Nat /\ filledQuote \in Nat
    BY <1>1, <1>5, <2>1
  <2>10. LedgerOK(L)
    <3>. HIDE DEF user, isSeller, inContract, retained, swap, charged, filledBase,
                  filledQuote, L
    <3>. QED BY <1>2, <1>3, <2>1, <2>2, <2>3, <2>7, <2>9, SettleSwapOK
  <2>11. ASSUME NEW a \in Assets
         PROVE  \E loss \in Int : /\ Rounds(Ledger, L, a, 0, loss)
                                  /\ loss < 2 * Max({Unit, BaseUnit[a]})
    <3>1. /\ isSeller => filledBase = swap.amountOut /\ filledQuote = swap.amountIn
          /\ ~isSeller => filledBase = swap.amountIn /\ filledQuote = swap.amountOut
      OBVIOUS
    <3>2. Rounds(Ledger, swap.ledger, a, Taken(swap, path, inContract, retained, a),
                 At(a, First(path), Paid(inContract, BaseUnit[a] - 1)))
      BY <2>8
    <3>3. /\ VaultTypeOK /\ LedgerOK(Ledger) /\ user \in Users /\ now \in Nat
          /\ swap.amountOut \in Nat /\ swap.amountIn \in Nat
          /\ filledBase > 0 /\ filledBase \in Nat /\ filledQuote \in Nat
      BY <1>2, <1>4, <2>1, <2>9
    <3>. HIDE DEF user, isSeller, inContract, retained, swap, charged, filledBase,
                  filledQuote, L
    <3>. QED BY <1>3, <2>2, <2>3, <2>5, <2>6, <2>7, <3>1, <3>2, <3>3, SettleSwapRounds
  <2>12. L \in LedgerType
    BY <2>10 DEF LedgerOK
  <2>. HIDE DEF L
  <2>. QED BY <1>1, <1>2, <2>11, <2>12, CommitKeeps
<1>6. CASE ~swap.ok
  <2>1. L = _payMatcherFee(Ledger, order, order.matcherFee)
    BY <1>6
  <2>. HIDE DEF L
  <2>2. L \in LedgerType
    BY <1>2, <1>4, <2>1, PayFeeOK DEF LedgerOK
  <2>3. ASSUME NEW a \in Assets
        PROVE  \E loss \in Int : /\ Rounds(Ledger, L, a, 0, loss)
                                 /\ loss < 2 * Max({Unit, BaseUnit[a]})
    <3>1. PICK loss \in Int : Rounds(Ledger, L, a, 0, loss) /\ loss <= Unit - 1
      BY <1>2, <1>4, <2>1, PayFeeRounds
    <3>2. loss < 2 * Max({Unit, BaseUnit[a]})
      BY <3>1, LargerUnit, UnitsPositive
    <3>. QED BY <3>1, <3>2
  <2>. QED BY <1>1, <1>2, <2>2, <2>3, CommitKeeps
<1>. QED BY <1>5, <1>6

(* The quotes of a path, hop after hop. *)
OutAfter(pairs, amountIn, path, i, previous) ==
    IF i = 1 THEN amountIn
    ELSE getAmountOut(previous, pairs[PairOf(path, i - 1)][path[i - 1]],
                      pairs[PairOf(path, i - 1)][path[i]])

OutsUpTo(pairs, amountIn, path, n, g) ==
    g = [i \in 1 .. n |-> OutAfter(pairs, amountIn, path, i, g[i - 1])]

(* The recursive definition of the quotes has a solution, and starts with what is
   paid in: for every path and all reserves. *)
LEMMA QuotesStartWithInput ==
    ASSUME NEW pairs, NEW amountIn, NEW path, NEW length \in Nat \ {0},
           DOMAIN path = 1 .. length
    PROVE  getAmountsOut(pairs, amountIn, path)[1] = amountIn
<1>. DEFINE T == {n \in Nat : \E g : OutsUpTo(pairs, amountIn, path, n, g)}
<1>1. 0 \in T
  <2>1. OutsUpTo(pairs, amountIn, path, 0, [i \in 1 .. 0 |-> 0])
    BY DEF OutsUpTo
  <2>. QED BY <2>1
<1>2. ASSUME NEW n \in T PROVE n + 1 \in T
  <2>1. PICK g : OutsUpTo(pairs, amountIn, path, n, g)
    OBVIOUS
  <2>. DEFINE h == [i \in 1 .. n + 1 |-> OutAfter(pairs, amountIn, path, i, g[i - 1])]
  <2>2. n \in Nat
    OBVIOUS
  <2>3. \A i \in 1 .. n : h[i] = g[i]
    BY <2>1, <2>2 DEF OutsUpTo
  <2>4. ASSUME NEW i \in 1 .. n + 1
        PROVE  OutAfter(pairs, amountIn, path, i, g[i - 1])
                  = OutAfter(pairs, amountIn, path, i, h[i - 1])
    <3>1. CASE i = 1
      BY <3>1 DEF OutAfter
    <3>2. CASE i # 1
      <4>1. i - 1 \in 1 .. n
        BY <2>2, <3>2
      <4>. QED BY <2>3, <4>1
    <3>. QED BY <3>1, <3>2
  <2>5. OutsUpTo(pairs, amountIn, path, n + 1, h)
    BY <2>4 DEF OutsUpTo
  <2>. HIDE DEF h
  <2>. QED BY <2>2, <2>5
<1>3. length \in T
  <2>. HIDE DEF T
  <2>1. T \in SUBSET Nat
    BY DEF T
  <2>. QED BY <1>1, <1>2, <2>1, Induction
<1>. DEFINE quotes == CHOOSE g : OutsUpTo(pairs, amountIn, path, length, g)
<1>4. OutsUpTo(pairs, amountIn, path, length, quotes)
  BY <1>3
<1>5. getAmountsOut(pairs, amountIn, path) = quotes
  BY DEF getAmountsOut, OutsUpTo, OutAfter
<1>. HIDE DEF quotes
<1>6. quotes[1] = OutAfter(pairs, amountIn, path, 1, quotes[1 - 1])
  <2>1. 1 \in 1 .. length
    OBVIOUS
  <2>. QED BY <1>4, <2>1 DEF OutsUpTo
<1>. QED BY <1>5, <1>6 DEF OutAfter

LEMMA Cancel ==
    ASSUME NEW x \in Nat, NEW y \in Nat, NEW d \in Nat \ {0}, x * d <= y * d
    PROVE  x <= y
<1>. SUFFICES ASSUME x >= y + 1 PROVE FALSE
  OBVIOUS
<1>1. x * d >= (y + 1) * d /\ (y + 1) * d = y * d + d /\ y * d \in Nat /\ x * d \in Nat
  OBVIOUS
<1>. QED BY <1>1

(* Ether that was sent for a swap and is sent back, up to the rounding of what was
   spent to the units of the ledger and back. *)
LEMMA RefundRounds ==
    ASSUME ETH \in Assets, NEW value \in Nat, NEW paid \in Nat, NEW spend \in Nat,
           paid <= DecimalToBaseUnit(ETH, spend), spend <= BaseUnitToDecimal(ETH, value),
           NEW spent, spent = DecimalToBaseUnit(ETH, BaseUnitToDecimal(ETH, paid)),
           NEW refund, value > spent => refund = value - spent, value <= spent => refund = 0
    PROVE  /\ refund \in Nat
           /\ (paid + refund) * Unit <= value * Unit + (BaseUnit[ETH] - 1) + (Unit - 1)
           /\ BaseUnit[ETH] = Unit => paid + refund = value
<1>. DEFINE decimal == BaseUnitToDecimal(ETH, paid)
            sent == BaseUnitToDecimal(ETH, value)
            most == DecimalToBaseUnit(ETH, spend)
            b == BaseUnit[ETH]
<1>1. Unit \in Nat \ {0} /\ b \in Nat \ {0}
  BY UnitsPositive
<1>2. /\ decimal \in Nat /\ decimal * b <= paid * Unit /\ paid * Unit < decimal * b + b
      /\ b = Unit => decimal = paid
  BY ToDecimal
<1>3. sent \in Nat /\ sent * b <= value * Unit
  BY ToDecimal
<1>4. most \in Nat /\ most * Unit <= spend * b
  BY ToBaseUnit
<1>5. /\ spent \in Nat /\ decimal * b < spent * Unit + Unit
      /\ b = Unit => spent = decimal
  BY <1>2, ToBaseUnit
<1>6. paid <= most /\ spend <= sent
  OBVIOUS
<1>7. refund = IF value > spent THEN value - spent ELSE 0
  BY <1>5
<1>. HIDE DEF decimal, sent, most, b
<1>8. paid <= value
  <2>1. paid * Unit <= most * Unit /\ spend * b <= sent * b
    BY <1>1, <1>3, <1>4, <1>6
  <2>2. /\ paid * Unit \in Nat /\ most * Unit \in Nat /\ spend * b \in Nat
        /\ sent * b \in Nat /\ value * Unit \in Nat
    BY <1>1, <1>3, <1>4
  <2>3. paid * Unit <= value * Unit
    BY <1>3, <1>4, <2>1, <2>2
  <2>. QED BY <1>1, <2>3, Cancel
<1>9. refund \in Nat /\ (b = Unit => paid + refund = value)
  BY <1>2, <1>5, <1>7, <1>8
<1>10. (paid + refund) * Unit <= value * Unit + (b - 1) + (Unit - 1)
  <2>1. CASE value > spent
    <3>1. (paid + refund) * Unit = paid * Unit + value * Unit - spent * Unit
      BY <1>1, <1>5, <1>7, <2>1
    <3>. DEFINE p == paid * Unit
                v == value * Unit
                s == spent * Unit
                e == decimal * b
    <3>2. p \in Int /\ v \in Int /\ s \in Int /\ e \in Int
      BY <1>1, <1>2, <1>5
    <3>3. p < e + b /\ e < s + Unit /\ (paid + refund) * Unit = p + v - s
      BY <1>2, <1>5, <3>1
    <3>. HIDE DEF p, v, s, e
    <3>4. (paid + refund) * Unit <= v + (b - 1) + (Unit - 1)
      BY <1>1, <3>2, <3>3
    <3>. QED BY <3>4 DEF v
  <2>2. CASE ~(value > spent)
    <3>1. paid + refund = paid
      BY <1>7, <2>2
    <3>2. paid * Unit <= value * Unit /\ paid * Unit \in Int /\ value * Unit \in Int
      BY <1>1, <1>8
    <3>. QED BY <1>1, <3>1, <3>2
  <2>. QED BY <2>1, <2>2
<1>. QED BY <1>9, <1>10 DEF b

(* From L, a swap takes no more ether than the request offers, and nothing else. *)
PaysEther(L, swap, fromExchange, spend) ==
    \E paid \in Nat :
        /\ swap.amountOut = BaseUnitToDecimal(ETH, paid)
        /\ paid <= DecimalToBaseUnit(ETH, spend)
        /\ \A a \in Assets :
              Backing(swap.ledger, a) + At(a, ETH, Paid(fromExchange, paid)) * Unit
                 = Backing(L, a)

LEMMA EtherSwapBacking ==
    ASSUME VaultTypeOK, NEW L \in LedgerType, NEW user \in Users, NEW path \in Paths,
           First(path) = ETH, NEW spend \in Nat, NEW receive \in Nat, NEW exact \in BOOLEAN,
           NEW fromExchange \in BOOLEAN, NEW toExchange \in BOOLEAN, ~toExchange,
           NEW swap,
           swap = doSwapThroughOrionPool(L, user, fromExchange, spend, receive, path, exact,
                                         toExchange),
           swap.ok
    PROVE  PaysEther(L, swap, fromExchange, spend)
<1>. DEFINE amounts == Quote(spend, receive, path, exact)
            paid == amounts[1]
            received == amounts[Len(path)]
            payed == Pay(L, user, fromExchange, First(path), paid)
            final == Collect(payed, user, toExchange, Last(path), received)
            offered == DecimalToBaseUnit(First(path), spend)
<1>1. /\ \A i \in DOMAIN path : amounts[i] \in Nat \ {0}
      /\ CanPay(L, user, fromExchange, First(path), paid)
      /\ WithinLimits(amounts, spend, receive, path, exact)
      /\ swap.ledger = final
      /\ swap.amountOut = BaseUnitToDecimal(First(path), paid)
  BY DEF doSwapThroughOrionPool
<1>2. /\ paid \in Nat /\ received \in Nat
      /\ First(path) \in Assets /\ Last(path) \in Assets
  BY <1>1, PathEnds
<1>3. paid <= offered
  <2>1. CASE exact
    <3>1. amounts = getAmountsOut(reserves, offered, path)
      BY <2>1 DEF Quote
    <3>2. Len(path) \in Nat \ {0} /\ DOMAIN path = 1 .. Len(path)
      BY PoolAssumption, LenProperties DEF PoolAssumption
    <3>. HIDE DEF amounts, offered
    <3>3. paid = offered
      BY <3>1, <3>2, QuotesStartWithInput
    <3>. QED BY <1>2, <3>3
  <2>2. CASE ~exact
    BY <1>1, <2>2 DEF WithinLimits
  <2>. QED BY <2>1, <2>2
<1>. HIDE DEF amounts, paid, received
<1>4. payed \in LedgerType
  BY <1>1, <1>2, PayFields DEF OnlyTokens
<1>5. ASSUME NEW a \in Assets
      PROVE  Backing(swap.ledger, a) + At(a, ETH, Paid(fromExchange, paid)) * Unit
                = Backing(L, a)
  <2>1. Backing(payed, a) + At(a, First(path), Paid(fromExchange, paid)) * Unit = Backing(L, a)
    BY <1>1, <1>2, PayBacking
  <2>. HIDE DEF payed
  <2>2. Backing(final, a)
           = Backing(payed, a) + At(a, Last(path), Paid(toExchange, received)) * Unit
    BY <1>2, <1>4, CollectBacking
  <2>3. At(a, Last(path), Paid(toExchange, received)) * Unit = 0
    BY UnitsPositive DEF At, Paid
  <2>4. Backing(payed, a) \in Int
    BY <1>4, BackingInt
  <2>5. Backing(final, a) = Backing(payed, a)
    <3>. DEFINE q == At(a, Last(path), Paid(toExchange, received)) * Unit
    <3>1. Backing(final, a) = Backing(payed, a) + q /\ q = 0
      BY <2>2, <2>3
    <3>. HIDE DEF q, final
    <3>. QED BY <2>4, <3>1
  <2>. QED BY <1>1, <2>1, <2>5
<1>. QED BY <1>1, <1>2, <1>3, <1>5 DEF PaysEther

(* Ether that is sent with a call but does not pay its swap is deposited: what it is
   credited as comes with it. *)
LEMMA EtherGives ==
    ASSUME IInv, ETH \in Assets, NEW user \in Users, NEW value \in Nat,
           wallet[user][ETH] >= value,
           NEW withEther, withEther = Receive(Ledger, user, ETH, value),
           NEW before,
           value > 0 => before = _updateBalance(withEther, user, ETH,
                                                BaseUnitToDecimal(ETH, value)).ledger,
           value = 0 => before = withEther
    PROVE  Gives(Ledger, before, user, ETH, 0, 0)
<1>. DEFINE decimal == BaseUnitToDecimal(ETH, value)
            minus == -decimal
<1>1. Ledger \in LedgerType /\ LedgerOK(Ledger) /\ now \in Nat
  BY LedgerIsOK DEF IInv, TypeOK, OracleTypeOK
<1>2. Moves(Ledger, withEther, user, ETH, 0, value) /\ LedgerOK(withEther)
  <2>1. CanReceive(Ledger, user, ETH, value)
    BY DEF CanReceive, Ledger
  <2>. QED BY <1>1, <2>1, ReceiveMoves, ReceiveFields DEF LedgerOK
<1>3. /\ decimal \in Nat /\ decimal * BaseUnit[ETH] <= value * Unit
      /\ BaseUnit[ETH] = Unit => decimal = value
  BY ToDecimal
<1>4. Gives(Ledger, withEther, user, ETH, minus, 0)
  <2>1. value * Unit + (minus - 0) * BaseUnit[ETH] + 0 >= 0
    <3>1. Unit \in Int /\ BaseUnit[ETH] \in Int
      BY UnitsPositive
    <3>2. (minus - 0) * BaseUnit[ETH] = -(decimal * BaseUnit[ETH])
          /\ decimal * BaseUnit[ETH] \in Int /\ value * Unit \in Int
      BY <1>3, <3>1
    <3>. QED BY <1>3, <3>2
  <2>2. BaseUnit[ETH] = Unit => value + minus = 0
    BY <1>3
  <2>. HIDE DEF decimal
  <2>. QED BY <1>2, <2>1, <2>2 DEF Gives
<1>. HIDE DEF minus
<1>5. minus \in Int /\ minus + decimal = 0
  BY <1>3 DEF minus
<1>6. Gives(withEther, before, user, ETH, decimal, 0)
  <2>1. Pulled(decimal) = 0 /\ decimal \in Int
    BY <1>3 DEF Pulled
  <2>2. CASE value > 0
    <3>1. before = _updateBalance(withEther, user, ETH, decimal).ledger
      BY <2>2
    <3>. HIDE DEF decimal
    <3>. QED BY <1>1, <1>2, <2>1, <3>1, UpdateBalanceGives
  <2>3. CASE value = 0
    <3>1. before = withEther /\ decimal = 0
      <4>1. decimal = 0
        BY <2>3, UnitsPositive DEF BaseUnitToDecimal
      <4>. QED BY <2>3, <4>1
    <3>2. withEther \in LedgerType
      BY <1>2 DEF LedgerOK
    <3>. HIDE DEF decimal
    <3>. QED BY <3>1, <3>2, GivesNothing
  <2>. QED BY <2>2, <2>3
<1>. HIDE DEF decimal
<1>7. decimal \in Int /\ 0 \in Int /\ 0 + 0 = 0
  BY <1>3
<1>8. Gives(Ledger, before, user, ETH, minus + decimal, 0 + 0)
  BY <1>1, <1>4, <1>5, <1>6, <1>7, GivesChain
<1>. QED BY <1>5, <1>7, <1>8

LEMMA EtherDeposited ==
    ASSUME IInv, ETH \in Assets, NEW user \in Users, NEW value \in Nat,
           wallet[user][ETH] >= value,
           NEW withEther, withEther = Receive(Ledger, user, ETH, value),
           NEW before,
           value > 0 => before = _updateBalance(withEther, user, ETH,
                                                BaseUnitToDecimal(ETH, value)).ledger,
           value = 0 => before = withEther, NEW a \in Assets
    PROVE  before \in LedgerType /\ Rounds(Ledger, before, a, 0, 0)
<1>1. Ledger \in LedgerType /\ VaultTypeOK
  BY LedgerIsOK DEF IInv, TypeOK
<1>2. Gives(Ledger, before, user, ETH, 0, 0)
  BY EtherGives
<1>3. before \in LedgerType
  BY <1>2 DEF Gives, Moves
<1>4. Rounds(Ledger, before, a, At(a, ETH, 0), At(a, ETH, 0))
  BY <1>1, <1>2, GivesRounds
<1>5. At(a, ETH, 0) = 0
  BY DEF At
<1>. QED BY <1>3, <1>4, <1>5

(* A swap between balances: both are moved by what the swap paid and brought. *)
LEMMA BalanceSwapRounds ==
    ASSUME VaultTypeOK, NEW L \in LedgerType, NEW user \in Users, NEW path \in Paths,
           NEW swap, LedgerOK(swap.ledger), swap.amountOut \in Nat, swap.amountIn \in Nat,
           now \in Nat, NEW a \in Assets, NEW inContract \in BOOLEAN, inContract,
           Rounds(L, swap.ledger, a, Taken(swap, path, inContract, inContract, a),
                  At(a, First(path), Paid(inContract, BaseUnit[a] - 1))),
           NEW D, D = _updateBalance(swap.ledger, user, First(path), -swap.amountOut).ledger,
           NEW M, M = _updateBalance(D, user, Last(path), swap.amountIn).ledger
    PROVE  /\ M \in LedgerType
           /\ \E loss \in Int : Rounds(L, M, a, 0, loss) /\ loss < 2 * Max({Unit, BaseUnit[a]})
<1>. DEFINE out == -swap.amountOut
            in == swap.amountIn
            x == Taken(swap, path, inContract, inContract, a)
            y == At(a, First(path), out)
            z == At(a, Last(path), in)
            lossX == At(a, First(path), Paid(inContract, BaseUnit[a] - 1))
            lossY == At(a, First(path), Pulled(out))
            lossZ == At(a, Last(path), Pulled(in))
            most == 2 * Max({Unit, BaseUnit[a]})
<1>1. /\ First(path) \in Assets /\ Last(path) \in Assets /\ out \in Int /\ in \in Int
      /\ Unit \in Int /\ Unit >= 1 /\ BaseUnit[a] \in Int /\ BaseUnit[a] >= 1
      /\ most \in Int /\ most >= Unit + BaseUnit[a]
  <2>1. First(path) \in Assets /\ Last(path) \in Assets /\ out \in Int /\ in \in Int
    BY PathEnds
  <2>. QED BY <2>1, UnitsPositive, LargerUnit
<1>2. LedgerOK(D) /\ Gives(swap.ledger, D, user, First(path), out, Pulled(out))
  BY <1>1, UpdateBalanceOK, UpdateBalanceGives
<1>3. LedgerOK(M) /\ Gives(D, M, user, Last(path), in, Pulled(in))
  BY <1>1, <1>2, UpdateBalanceOK, UpdateBalanceGives
<1>4. swap.ledger \in LedgerType /\ D \in LedgerType /\ M \in LedgerType
  BY <1>2, <1>3 DEF LedgerOK
<1>5. Pulled(out) \in Int /\ Pulled(in) \in Int
  BY <1>1 DEF Pulled
<1>6. Rounds(swap.ledger, D, a, y, lossY) /\ Rounds(D, M, a, z, lossZ)
  <2>. HIDE DEF out, in
  <2>. QED BY <1>1, <1>2, <1>3, <1>4, <1>5, GivesRounds
<1>7. /\ x \in Int /\ y \in Int /\ z \in Int /\ lossX \in Int /\ lossY \in Int /\ lossZ \in Int
      /\ lossX <= BaseUnit[a] - 1 /\ lossY <= Unit - 1 /\ lossZ = 0
  BY <1>1 DEF Taken, At, Paid, Pulled
<1>8. (x + y) + z = 0
  BY <1>1 DEF Taken, At, Paid
<1>9. Rounds(L, swap.ledger, a, x, lossX)
  OBVIOUS
<1>. HIDE DEF x, y, z, lossX, lossY, lossZ, most
<1>10. Rounds(L, D, a, x + y, lossX + lossY)
  BY <1>4, <1>6, <1>7, <1>9, RoundsChain
<1>11. x + y \in Int /\ lossX + lossY \in Int
  BY <1>7
<1>12. Rounds(L, M, a, (x + y) + z, (lossX + lossY) + lossZ)
  BY <1>4, <1>6, <1>7, <1>10, <1>11, RoundsChain
<1>13. (lossX + lossY) + lossZ < most /\ (lossX + lossY) + lossZ \in Int
  BY <1>1, <1>7
<1>. QED BY <1>4, <1>8, <1>12, <1>13 DEF most

(* From K: ether comes with a call, a swap takes what it needs of it, and the rest
   is sent back. *)
LEMMA EtherSwapRounds ==
    ASSUME VaultTypeOK, ETH \in Assets, NEW user \in Users,
           NEW K \in LedgerType, NEW L \in LedgerType, NEW N \in LedgerType,
           NEW value \in Nat, NEW paid \in Nat, NEW refund \in Nat,
           Moves(K, L, user, ETH, 0, value),
           \A b \in Assets : Backing(N, b) + At(b, ETH, paid) * Unit = Backing(L, b),
           (paid + refund) * Unit <= value * Unit + (BaseUnit[ETH] - 1) + (Unit - 1),
           BaseUnit[ETH] = Unit => paid + refund = value,
           N.held[ETH] >= refund, NEW a \in Assets
    PROVE  /\ Send(N, user, ETH, refund) \in LedgerType
           /\ \E loss \in Int : /\ Rounds(K, Send(N, user, ETH, refund), a, 0, loss)
                                /\ loss < 2 * Max({Unit, BaseUnit[a]})
<1>. DEFINE M == Send(N, user, ETH, refund)
            most == 2 * Max({Unit, BaseUnit[a]})
            loss == (BaseUnit[a] - 1) + (Unit - 1)
            back == -refund
<1>5. Moves(N, M, user, ETH, 0, back) /\ M \in LedgerType /\ back \in Int
  <2>1. Moves(N, M, user, ETH, 0, -refund)
    BY SendMoves
  <2>. HIDE DEF M
  <2>. QED BY <2>1 DEF Moves
<1>. HIDE DEF M, back
<1>6. /\ Unit \in Int /\ Unit >= 1 /\ BaseUnit[a] \in Int /\ BaseUnit[a] >= 1
      /\ most \in Int /\ most >= Unit + BaseUnit[a]
  BY UnitsPositive, LargerUnit
<1>7. /\ Backing(K, a) \in Int /\ Backing(L, a) \in Int
      /\ Backing(N, a) \in Int /\ Backing(M, a) \in Int
  BY <1>5, BackingInt
<1>8. Backing(L, a) = Backing(K, a)
                      + (IF a = ETH THEN value * Unit - 0 * BaseUnit[a] ELSE 0)
  BY MoveBacking
<1>9. Backing(M, a) = Backing(N, a)
                      + (IF a = ETH THEN back * Unit - 0 * BaseUnit[a] ELSE 0)
  BY <1>5, MoveBacking
<1>10. 0 * BaseUnit[a] = 0
  BY <1>6
<1>11. CASE a = ETH
  <2>. DEFINE v == value * Unit
              p == paid * Unit
              r == refund * Unit
              start == Backing(K, a)
              bare == Backing(N, a)
              end == Backing(M, a)
  <2>1. At(a, ETH, paid) = paid
    BY <1>11 DEF At
  <2>2. bare + p = Backing(L, a)
    BY <2>1
  <2>3. v \in Int /\ p \in Int /\ r \in Int /\ back * Unit = -r
        /\ (paid + refund) * Unit = p + r
    BY <1>6 DEF back
  <2>4. Backing(L, a) = start + v /\ end = bare + (-r)
    BY <1>7, <1>8, <1>9, <1>10, <1>11, <2>3
  <2>5. start \in Int /\ bare \in Int /\ end \in Int
    BY <1>7
  <2>6. p + r <= v + (BaseUnit[a] - 1) + (Unit - 1)
    BY <1>11, <2>3
  <2>7. BaseUnit[a] = Unit => p + r = v
    BY <1>11, <2>3
  <2>. HIDE DEF v, p, r, start, bare, end
  <2>8. end + loss >= start /\ (BaseUnit[a] = Unit => end = start)
    BY <1>6, <2>2, <2>3, <2>4, <2>5, <2>6, <2>7
  <2>9. end + 0 * BaseUnit[a] = end
    BY <1>10, <2>5
  <2>10. Rounds(K, M, a, 0, loss)
    BY <2>8, <2>9 DEF Rounds, start, end
  <2>11. loss \in Int /\ loss < most
    BY <1>6
  <2>. QED BY <1>5, <2>10, <2>11 DEF M, most
<1>12. CASE a # ETH
  <2>1. At(a, ETH, paid) * Unit = 0
    BY <1>6, <1>12 DEF At
  <2>2. Backing(N, a) + 0 = Backing(L, a)
    BY <2>1
  <2>3. Backing(M, a) = Backing(K, a)
    BY <1>7, <1>8, <1>9, <1>12, <2>2
  <2>4. Rounds(K, M, a, 0, 0)
    BY <1>7, <1>10, <2>3 DEF Rounds
  <2>5. 0 \in Int /\ 0 < most
    BY <1>6
  <2>. QED BY <1>5, <2>4, <2>5 DEF M, most
<1>. QED BY <1>11, <1>12

LEMMA SwapThroughOrionPoolCustody ==
    ASSUME PoolIInv, NEW user \in Users, NEW request \in PoolSwaps,
           SwapThroughOrionPool(user, request)
    PROVE  CustodyKept
<1>. DEFINE path == request.path
            value == request.value
            spend == request.spend
            ethSent == BaseUnitToDecimal(ETH, value)
            sentEnough == value > 0 /\ First(path) = ETH /\ ethSent >= spend
            deposited == value > 0 /\ ~sentEnough
            inContract == assetBalances[user][First(path)] > 0 /\ ~sentEnough
            withEther == Receive(Ledger, user, ETH, value)
            before == IF deposited THEN _updateBalance(withEther, user, ETH, ethSent).ledger
                      ELSE withEther
            fromExchange == inContract \/ sentEnough
            swap == doSwapThroughOrionPool(before, user, fromExchange,
                        spend, request.receive, path, request.exact, inContract)
            spent == DecimalToBaseUnit(ETH, swap.amountOut)
            refund == Refund(sentEnough, value, spent)
            debited == _updateBalance(swap.ledger, user, First(path), -swap.amountOut).ledger
            credited == _updateBalance(debited, user, Last(path), swap.amountIn).ledger
            sent == Send(swap.ledger, user, ETH, refund)
            L == IF inContract THEN credited ELSE sent
<1>1. /\ wallet[user][ETH] >= value
      /\ swap.ok
      /\ sentEnough => swap.ledger.held[ETH] >= refund
      /\ Commit(L) /\ UNCHANGED stakingData
  BY DEF SwapThroughOrionPool
<1>2. /\ ETH \in Assets /\ path \in Paths /\ value \in Nat /\ ethSent \in Nat
      /\ spend \in Nat /\ request.receive \in Nat /\ request.exact \in BOOLEAN
      /\ First(path) \in Assets /\ Last(path) \in Assets
  <2>1. /\ ETH \in Assets /\ path \in Paths /\ value \in Nat
        /\ spend \in Nat /\ request.receive \in Nat /\ request.exact \in BOOLEAN
    BY PoolAssumption DEF PoolAssumption
  <2>. QED BY <2>1, PathEnds, ConversionNat
<1>3. IInv /\ now \in Nat /\ VaultTypeOK /\ LedgerOK(Ledger) /\ Ledger \in LedgerType
  BY LedgerIsOK DEF PoolIInv, IInv, TypeOK, OracleTypeOK
<1>4. /\ inContract \in BOOLEAN /\ fromExchange \in BOOLEAN
      /\ sentEnough => First(path) = ETH /\ spend <= ethSent
  BY <1>2
<1>. HIDE DEF path, value, spend
<1>5. LedgerOK(withEther) /\ withEther \in LedgerType
      /\ Moves(Ledger, withEther, user, ETH, 0, value)
  <2>1. CanReceive(Ledger, user, ETH, value)
    BY <1>1 DEF CanReceive, Ledger
  <2>. QED BY <1>2, <1>3, <2>1, ReceiveFields, ReceiveMoves DEF LedgerOK
<1>6. LedgerOK(before) /\ before \in LedgerType
  <2>1. CASE deposited
    <3>1. ethSent \in Int
      BY <1>2
    <3>2. before = _updateBalance(withEther, user, ETH, ethSent).ledger
      BY <2>1
    <3>. HIDE DEF before, withEther, ethSent
    <3>. QED BY <1>2, <1>3, <1>5, <3>1, <3>2, UpdateBalanceOK DEF LedgerOK
  <2>2. CASE ~deposited
    BY <1>5, <2>2
  <2>. QED BY <2>1, <2>2
<1>7. ASSUME ~sentEnough, NEW a \in Assets
      PROVE  Rounds(Ledger, before, a, 0, 0)
  <2>1. /\ value > 0 => before = _updateBalance(withEther, user, ETH,
                                                BaseUnitToDecimal(ETH, value)).ledger
        /\ value = 0 => before = withEther
    BY <1>2, <1>7
  <2>2. withEther = Receive(Ledger, user, ETH, value)
    OBVIOUS
  <2>. HIDE DEF before, withEther
  <2>. QED BY <1>1, <1>2, <1>3, <2>1, <2>2, EtherDeposited
<1>. HIDE DEF inContract, fromExchange
<1>8. /\ OnlyTokens(before, swap.ledger)
      /\ swap.amountOut \in Nat /\ swap.amountIn \in Nat
  <2>. HIDE DEF before
  <2>. QED BY <1>1, <1>2, <1>4, <1>6, SwapOK
<1>9. LedgerOK(swap.ledger) /\ swap.ledger \in LedgerType
  <2>. HIDE DEF before, swap
  <2>. QED BY <1>6, <1>8, OnlyTokensOK DEF LedgerOK
<1>10. ASSUME NEW a \in Assets
       PROVE  Rounds(before, swap.ledger, a, Taken(swap, path, fromExchange, inContract, a),
                     At(a, First(path), Paid(fromExchange, BaseUnit[a] - 1)))
  <2>1. swap = doSwapThroughOrionPool(before, user, fromExchange,
                   spend, request.receive, path, request.exact, inContract)
    OBVIOUS
  <2>. HIDE DEF before, swap
  <2>. QED BY <1>1, <1>2, <1>3, <1>4, <1>6, <2>1, SwapRounds
<1>11. CASE inContract
  <2>1. ~sentEnough /\ fromExchange = inContract
    BY <1>11 DEF inContract, fromExchange
  <2>2. L = credited
    BY <1>11
  <2>3. ASSUME NEW a \in Assets
        PROVE  /\ L \in LedgerType
               /\ \E loss \in Int : /\ Rounds(Ledger, L, a, 0, loss)
                                    /\ loss < 2 * Max({Unit, BaseUnit[a]})
    <3>1. Rounds(before, swap.ledger, a, Taken(swap, path, inContract, inContract, a),
                 At(a, First(path), Paid(inContract, BaseUnit[a] - 1)))
      BY <1>10, <2>1
    <3>2. debited = _updateBalance(swap.ledger, user, First(path), -swap.amountOut).ledger
          /\ credited = _updateBalance(debited, user, Last(path), swap.amountIn).ledger
      OBVIOUS
    <3>3. Rounds(Ledger, before, a, 0, 0)
      BY <1>7, <2>1
    <3>. HIDE DEF before, swap, debited, credited, L
    <3>4. /\ credited \in LedgerType
          /\ \E loss \in Int : /\ Rounds(before, credited, a, 0, loss)
                               /\ loss < 2 * Max({Unit, BaseUnit[a]})
      BY <1>2, <1>3, <1>4, <1>6, <1>8, <1>9, <1>11, <3>1, <3>2, BalanceSwapRounds
    <3>5. PICK loss \in Int : /\ Rounds(before, credited, a, 0, loss)
                              /\ loss < 2 * Max({Unit, BaseUnit[a]})
      BY <3>4
    <3>6. Rounds(Ledger, credited, a, 0 + 0, 0 + loss)
      <4>1. 0 \in Int
        OBVIOUS
      <4>. QED BY <1>3, <1>6, <3>3, <3>4, <3>5, <4>1, RoundsChain
    <3>7. 0 + 0 = 0 /\ 0 + loss = loss
      OBVIOUS
    <3>. QED BY <2>2, <3>4, <3>5, <3>6, <3>7
  <2>4. L \in LedgerType
    BY <1>2, <2>3
  <2>. HIDE DEF L
  <2>. QED BY <1>1, <1>3, <2>3, <2>4, CommitKeeps
<1>12. CASE ~inContract /\ ~sentEnough
  <2>1. ~fromExchange /\ refund = 0 /\ L = Send(swap.ledger, user, ETH, refund)
    BY <1>12 DEF fromExchange, Refund
  <2>. HIDE DEF L, refund
  <2>2. swap.ledger.held[ETH] >= 0
    <3>. HIDE DEF swap
    <3>1. swap.ledger.held \in [Assets -> Nat]
      BY <1>9 DEF LedgerType
    <3>. QED BY <1>2, <3>1
  <2>3. L \in LedgerType /\ L.assetBalances = swap.ledger.assetBalances
        /\ L.held = swap.ledger.held
    <3>. HIDE DEF swap
    <3>1. Moves(swap.ledger, L, user, ETH, 0, -0) /\ L = Send(swap.ledger, user, ETH, 0)
      BY <1>2, <1>9, <2>1, <2>2, SendMoves
    <3>2. L \in LedgerType /\ L.assetBalances = swap.ledger.assetBalances
      BY <1>2, <1>9, <2>2, <3>1, SendFields
    <3>3. swap.ledger.held \in [Assets -> Nat]
      BY <1>9 DEF LedgerType
    <3>4. L.held = [swap.ledger.held EXCEPT ![ETH] = swap.ledger.held[ETH] - 0]
      BY <1>2, <1>9, <3>1 DEF Send, LedgerType
    <3>. QED BY <3>2, <3>3, <3>4
  <2>4. ASSUME NEW a \in Assets
        PROVE  \E loss \in Int : /\ Rounds(Ledger, L, a, 0, loss)
                                 /\ loss < 2 * Max({Unit, BaseUnit[a]})
    <3>1. Taken(swap, path, fromExchange, inContract, a) = 0
          /\ At(a, First(path), Paid(fromExchange, BaseUnit[a] - 1)) = 0
      BY <1>12, <2>1 DEF Taken, At, Paid
    <3>2. Rounds(before, swap.ledger, a, 0, 0)
      BY <1>10, <3>1
    <3>3. Rounds(Ledger, before, a, 0, 0)
      BY <1>7, <1>12
    <3>. HIDE DEF before, swap
    <3>4. Rounds(Ledger, swap.ledger, a, 0 + 0, 0 + 0)
      <4>1. 0 \in Int
        OBVIOUS
      <4>. QED BY <1>3, <1>6, <1>9, <3>2, <3>3, <4>1, RoundsChain
    <3>5. Backing(L, a) = Backing(swap.ledger, a)
      BY <2>3, SameBacking
    <3>6. Rounds(Ledger, L, a, 0, 0)
      BY <3>4, <3>5 DEF Rounds
    <3>7. 0 < 2 * Max({Unit, BaseUnit[a]})
      BY LargerUnit
    <3>. QED BY <3>6, <3>7
  <2>. QED BY <1>1, <1>3, <2>3, <2>4, CommitKeeps
<1>13. CASE ~inContract /\ sentEnough
  <2>1. fromExchange /\ before = withEther /\ First(path) = ETH /\ spend <= ethSent
    BY <1>4, <1>13 DEF fromExchange
  <2>2. PICK paid \in Nat :
           /\ swap.amountOut = BaseUnitToDecimal(ETH, paid)
           /\ paid <= DecimalToBaseUnit(ETH, spend)
           /\ \A a \in Assets :
                 Backing(swap.ledger, a) + At(a, ETH, Paid(fromExchange, paid)) * Unit
                    = Backing(before, a)
    <3>1. swap = doSwapThroughOrionPool(before, user, fromExchange,
                     spend, request.receive, path, request.exact, inContract)
      OBVIOUS
    <3>2. First(path) = ETH /\ ~inContract
      BY <1>13, <2>1
    <3>3. swap.ok
      BY <1>1
    <3>. HIDE DEF before, swap, sentEnough
    <3>4. PaysEther(before, swap, fromExchange, spend)
      BY <1>2, <1>3, <1>4, <1>6, <3>1, <3>2, <3>3, EtherSwapBacking
    <3>. QED BY <3>4 DEF PaysEther
  <2>3. Paid(fromExchange, paid) = paid
    BY <2>1 DEF Paid
  <2>4. \A b \in Assets :
           Backing(swap.ledger, b) + At(b, ETH, paid) * Unit = Backing(withEther, b)
    BY <2>1, <2>2, <2>3
  <2>5. /\ refund = IF value > spent THEN value - spent ELSE 0
        /\ spent = DecimalToBaseUnit(ETH, BaseUnitToDecimal(ETH, paid))
        /\ spent \in Nat
    <3>1. DecimalToBaseUnit(ETH, BaseUnitToDecimal(ETH, paid)) \in Nat
      BY <1>2, ConversionNat
    <3>. QED BY <1>13, <2>2, <3>1 DEF Refund
  <2>. HIDE DEF before, withEther, swap, refund, spent
  <2>6. /\ refund \in Nat
        /\ (paid + refund) * Unit <= value * Unit + (BaseUnit[ETH] - 1) + (Unit - 1)
        /\ BaseUnit[ETH] = Unit => paid + refund = value
    <3>1. /\ value > spent => refund = value - spent
          /\ value <= spent => refund = 0
      BY <1>2, <2>5
    <3>. QED BY <1>2, <2>1, <2>2, <2>5, <3>1, RefundRounds
  <2>7. L = Send(swap.ledger, user, ETH, refund) /\ swap.ledger.held[ETH] >= refund
    BY <1>1, <1>13
  <2>. HIDE DEF L, sentEnough
  <2>8. ASSUME NEW a \in Assets
        PROVE  /\ L \in LedgerType
               /\ \E loss \in Int : /\ Rounds(Ledger, L, a, 0, loss)
                                    /\ loss < 2 * Max({Unit, BaseUnit[a]})
    BY <1>2, <1>3, <1>5, <1>9, <2>4, <2>6, <2>7, EtherSwapRounds
  <2>9. L \in LedgerType
    BY <1>2, <2>8
  <2>. QED BY <1>1, <1>3, <2>8, <2>9, CommitKeeps
<1>. QED BY <1>11, <1>12, <1>13

LEMMA PoolNextCustody == SidesAreKnown /\ PoolIInv /\ PoolNext => CustodyKept
<1>. SUFFICES ASSUME SidesAreKnown, PoolIInv, PoolNext PROVE CustodyKept
  OBVIOUS
<1>1. IInv
  BY DEF PoolIInv
<1>2. CASE Next /\ UNCHANGED reserves
  BY <1>1, <1>2, NextCustody
<1>3. ASSUME NEW m \in Users, NEW order \in Orders, NEW x \in PoolFillAmounts,
             NEW fee \in BlockchainFees, NEW path \in Paths,
             FillThroughOrionPool(m, order, x, fee, path)
      PROVE  CustodyKept
  <2>1. x \in Nat /\ fee \in Nat
    BY PoolAssumption DEF PoolAssumption
  <2>. QED BY <1>3, <2>1, FillThroughOrionPoolCustody
<1>4. ASSUME NEW u \in Users, NEW request \in PoolSwaps, SwapThroughOrionPool(u, request)
      PROVE  CustodyKept
  BY <1>4, SwapThroughOrionPoolCustody
<1>5. CASE MarketStep
  <2>1. UNCHANGED <<held, assetBalances, stakingData>>
    BY <1>5 DEF MarketStep, vars
  <2>2. \A a \in Assets : Surplus(a)' = Surplus(a)
    BY <1>1, <2>1, SameCustody DEF Staked
  <2>. QED BY <1>1, <2>2, UnchangedCustody
<1>. QED BY <1>2, <1>3, <1>4, <1>5 DEF PoolNext, PoolStep

(* Full backing with the pool as a counterparty: what a swap pays out of the custody
   is debited to the user it is made for, and what it brings is credited, along any
   path, whether balances, the wallet or ether sent with the call pays, and also
   after a swap that failed. *)
THEOREM PoolFullyBacked == SidesAreKnown => (PoolSpec => []Backed)
<1>. SUFFICES ASSUME SidesAreKnown PROVE PoolSpec => []Backed
  OBVIOUS
<1>. DEFINE CInv == PoolIInv /\ Backed
<1>1. PoolInit => CInv
  <2>1. PoolInit => PoolIInv
    BY InitInv, PoolAssumption DEF PoolInit, PoolIInv, PoolAssumption
  <2>2. PoolInit => Backed
    BY InitSurplus DEF Backed, PoolInit
  <2>. QED BY <2>1, <2>2
<1>2. CInv /\ [PoolNext]_poolVars => CInv'
  <2>. SUFFICES ASSUME CInv, [PoolNext]_poolVars PROVE CInv'
    OBVIOUS
  <2>1. PoolIInv'
    BY PoolNextInv
  <2>2. CASE PoolNext
    <3>1. CustodyKept
      BY <2>2, PoolNextCustody
    <3>. QED BY <2>1, <3>1 DEF Backed, CustodyKept
  <2>3. CASE UNCHANGED poolVars
    <3>1. Backed' = Backed
      BY <2>3 DEF poolVars, vars, Backed, Surplus, OwedToUsers, Staked
    <3>. QED BY <2>1, <3>1
  <2>. QED BY <2>2, <2>3
<1>. QED BY <1>1, <1>2, PTL DEF PoolSpec

(* Bounded dust with the pool as a counterparty: the swap of a transaction, which
   converts what the pairs paid and gave, and the settlement after it take less than
   two units of an asset together. *)
THEOREM PoolDustIsBounded == SidesAreKnown => (PoolSpec => DustBounded)
<1>. SUFFICES ASSUME SidesAreKnown PROVE PoolSpec => DustBounded
  OBVIOUS
<1>1. PoolIInv /\ [PoolNext]_poolVars => [CustodyKept]_vars
  BY PoolNextCustody DEF poolVars
<1>2. CustodyKept => \A a \in Assets :
         Surplus(a)' > Surplus(a) - 2 * Max({Unit, BaseUnit[a]})
  BY DEF CustodyKept
<1>3. PoolIInv /\ [PoolNext]_poolVars =>
         [\A a \in Assets : Surplus(a)' > Surplus(a) - 2 * Max({Unit, BaseUnit[a]})]_vars
  BY <1>1, <1>2
<1>. QED BY <1>3, PoolInvariance, PTL DEF PoolSpec, DustBounded
===============================================================================
