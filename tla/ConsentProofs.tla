---------------------------- MODULE ConsentProofs ----------------------------
(***************************************************************************)
(* Nobody loses what they did not sign for: what a step takes from a user, *)
(* on the exchange, in the wallet and in the stake together, is what the   *)
(* user's own orders grant, or the price of a redeemed debt.  The second   *)
(* part is about orders and swaps through the pool.                        *)
(***************************************************************************)
EXTENDS CustodyProofs

(* What a user has of an asset, for assets in the exchange's own unit. *)
Own(L, u, a) == L.assetBalances[u][a] + L.wallet[u][a]

(* The user u gets at least x more of asset a. *)
Earns(L, M, u, a, x) == Own(M, u, a) >= Own(L, u, a) + x

Part(user, asset, amount, u, a) == IF u = user /\ a = asset THEN amount ELSE 0

(* What an order and its fee bring the user u of asset a. *)
Gain(order, isSeller, amountOut, amountIn, fee, u, a) ==
    Part(order.senderAddress, InAsset(order, isSeller), amountIn, u, a)
    - Part(order.senderAddress, OutAsset(order, isSeller), amountOut, u, a)
    - Part(order.senderAddress, order.matcherFeeAsset, fee, u, a)

-------------------------------------------------------------------------------
(* What the parts of a fill bring each user. *)

LEMMA OwnInt ==
    ASSUME NEW L \in LedgerType, NEW u \in Users, NEW a \in Assets
    PROVE  Own(L, u, a) \in Int /\ L.assetBalances[u][a] \in Int /\ L.wallet[u][a] \in Int
BY DEF Own, LedgerType

LEMMA EarnsChain ==
    ASSUME NEW K \in LedgerType, NEW L \in LedgerType, NEW M \in LedgerType,
           NEW u \in Users, NEW a \in Assets, NEW x \in Int, NEW y \in Int,
           Earns(K, L, u, a, x), Earns(L, M, u, a, y)
    PROVE  Earns(K, M, u, a, x + y)
<1>1. Own(K, u, a) \in Int /\ Own(L, u, a) \in Int /\ Own(M, u, a) \in Int
  BY OwnInt
<1>. QED BY <1>1 DEF Earns

LEMMA MovesOwn ==
    ASSUME NEW L \in LedgerType, NEW M, NEW user \in Users, NEW asset \in Assets,
           NEW x \in Int, NEW h \in Int, Moves(L, M, user, asset, x, h),
           NEW u \in Users, NEW a \in Assets
    PROVE  /\ M \in LedgerType
           /\ Own(M, u, a) = Own(L, u, a) + Part(user, asset, x - h, u, a)
<1>1. /\ M \in LedgerType
      /\ M.assetBalances = [L.assetBalances EXCEPT ![user] =
            [L.assetBalances[user] EXCEPT ![asset] = L.assetBalances[user][asset] + x]]
      /\ M.wallet = [L.wallet EXCEPT ![user] =
            [L.wallet[user] EXCEPT ![asset] = L.wallet[user][asset] - h]]
  BY DEF Moves
<1>2. /\ L.assetBalances \in [Users -> [Assets -> Int]]
      /\ L.wallet \in [Users -> [Assets -> Nat]]
  BY DEF LedgerType
<1>3. Own(L, u, a) \in Int /\ L.assetBalances[u][a] \in Int /\ L.wallet[u][a] \in Int
  BY OwnInt
<1>4. CASE u = user /\ a = asset
  <2>1. M.assetBalances[u][a] = L.assetBalances[u][a] + x /\ M.wallet[u][a] = L.wallet[u][a] - h
    BY <1>1, <1>2, <1>4
  <2>2. Own(M, u, a) = Own(L, u, a) + (x - h)
    BY <1>3, <2>1 DEF Own
  <2>. QED BY <1>1, <1>4, <2>2 DEF Part
<1>5. CASE ~(u = user /\ a = asset)
  <2>1. M.assetBalances[u][a] = L.assetBalances[u][a] /\ M.wallet[u][a] = L.wallet[u][a]
    BY <1>1, <1>2, <1>5
  <2>2. Own(M, u, a) = Own(L, u, a)
    BY <2>1 DEF Own
  <2>. QED BY <1>1, <1>3, <1>5, <2>2 DEF Part
<1>. QED BY <1>4, <1>5

(* In the exchange's own unit nothing is rounded: what is given is what is got. *)
LEMMA GivesEarns ==
    ASSUME NEW L \in LedgerType, NEW M, NEW user \in Users, NEW asset \in Assets,
           NEW amount \in Int, NEW loss, Gives(L, M, user, asset, amount, loss),
           NEW u \in Users, NEW a \in Assets, BaseUnit[a] = Unit
    PROVE  /\ M \in LedgerType
           /\ Own(M, u, a) = Own(L, u, a) + Part(user, asset, amount, u, a)
           /\ Earns(L, M, u, a, Part(user, asset, amount, u, a))
<1>1. PICK x \in Int, h \in Int :
         Moves(L, M, user, asset, x, h) /\ (BaseUnit[asset] = Unit => h + amount = x)
  BY DEF Gives
<1>2. M \in LedgerType /\ Own(M, u, a) = Own(L, u, a) + Part(user, asset, x - h, u, a)
  BY <1>1, MovesOwn
<1>3. Part(user, asset, x - h, u, a) = Part(user, asset, amount, u, a)
  BY <1>1 DEF Part
<1>4. /\ Own(M, u, a) \in Int /\ Own(L, u, a) \in Int
      /\ Own(M, u, a) = Own(L, u, a) + Part(user, asset, amount, u, a)
  BY <1>2, <1>3, OwnInt
<1>. QED BY <1>2, <1>4 DEF Earns

(* The debit of an order, with what is credited for it later. *)
Earned(L, order, isSeller, amountBase, amountQuote, fee, u, a) ==
    LET D == updateOrderBalanceDebit(L, order, isSeller, amountBase, amountQuote, fee)
        amountOut == IF isSeller THEN amountBase ELSE amountQuote
        amountIn == IF isSeller THEN amountQuote ELSE amountBase
    IN \E x \in Int :
          /\ Earns(L, D.ledger, u, a, x)
          /\ x + Part(order.senderAddress, InAsset(order, isSeller), D.actualIn, u, a)
                >= Gain(order, isSeller, amountOut, amountIn, fee, u, a)

LEMMA DebitEarns ==
    ASSUME NEW L, LedgerOK(L), NEW order \in OrderType, NEW isSeller \in BOOLEAN,
           NEW amountBase \in Nat, NEW amountQuote \in Nat, NEW fee \in Nat, now \in Nat,
           amountBase = 0 => amountQuote = 0,
           NEW u \in Users, NEW a \in Assets, BaseUnit[a] = Unit
    PROVE  Earned(L, order, isSeller, amountBase, amountQuote, fee, u, a)
<1>. DEFINE D == updateOrderBalanceDebit(L, order, isSeller, amountBase, amountQuote, fee)
            amountOut == IF isSeller THEN amountBase ELSE amountQuote
            amountIn == IF isSeller THEN amountQuote ELSE amountBase
            out == OutAsset(order, isSeller)
            in == InAsset(order, isSeller)
            feeAsset == order.matcherFeeAsset
            feeOut == FeeFromOut(order, isSeller)
            feeIn == FeeFromIn(order, isSeller)
            ownFee == IF feeOut \/ feeIn THEN 0 ELSE -fee
            given == -amountOut - (IF feeOut THEN fee ELSE 0)
            user == order.senderAddress
            matcher == order.matcherAddress
<1>1. /\ user \in Users /\ matcher \in Users
      /\ feeAsset \in Assets /\ out \in Assets /\ in \in Assets
      /\ amountOut \in Nat /\ amountIn \in Nat /\ L \in LedgerType
  BY UnitsPositive DEF OrderType, OutAsset, InAsset, LedgerOK
<1>2. CASE amountBase = 0
  <2>1. D.ledger = L /\ D.actualIn = 0 /\ amountOut = 0 /\ amountIn = 0
    BY <1>2 DEF updateOrderBalanceDebit
  <2>2. Earns(L, L, u, a, 0)
    BY <1>1, OwnInt DEF Earns
  <2>3. 0 + Part(user, in, 0, u, a) >= Gain(order, isSeller, 0, 0, fee, u, a)
    BY DEF Gain, Part
  <2>. HIDE DEF Earned, D, amountOut, amountIn, in, user
  <2>4. \E x \in Int :
           /\ Earns(L, D.ledger, u, a, x)
           /\ x + Part(user, in, D.actualIn, u, a)
                 >= Gain(order, isSeller, amountOut, amountIn, fee, u, a)
    BY <2>1, <2>2, <2>3
  <2>. QED BY <2>4 DEF Earned, D, amountOut, amountIn, in, user
<1>3. CASE amountBase # 0
  <2>1. /\ Debits(L, D.ledger, order, isSeller, amountOut, fee)
        /\ D.actualIn = amountIn - (IF feeIn THEN fee ELSE 0)
    BY <1>3, DebitGives
  <2>. HIDE DEF D
  <2>2. PICK K \in LedgerType, N \in LedgerType :
           /\ Gives(L, K, user, feeAsset, ownFee, Pulled(ownFee))
           /\ Gives(K, N, user, out, given, Pulled(given))
           /\ Gives(N, D.ledger, matcher, feeAsset, fee, 0)
    BY <2>1 DEF Debits
  <2>3. ownFee \in Int /\ given \in Int /\ fee \in Int
    BY <1>1
  <2>. DEFINE p1 == Part(user, feeAsset, ownFee, u, a)
              p2 == Part(user, out, given, u, a)
              p3 == Part(matcher, feeAsset, fee, u, a)
  <2>4. p1 \in Int /\ p2 \in Int /\ p3 \in Int /\ p3 >= 0
    BY <2>3 DEF Part
  <2>5. (p1 + p2) + p3 + Part(user, in, D.actualIn, u, a)
           >= Gain(order, isSeller, amountOut, amountIn, fee, u, a)
    <3>1. p1 + p2 + Part(user, in, D.actualIn, u, a)
            = Gain(order, isSeller, amountOut, amountIn, fee, u, a)
      <4>. HIDE DEF amountOut, amountIn
      <4>1. feeOut <=> feeAsset = out
        BY DEF FeeFromOut
      <4>2. feeIn <=> ~feeOut /\ feeAsset = in
        BY DEF FeeFromIn
      <4>. HIDE DEF out, in, feeOut, feeIn, feeAsset, user
      <4>. QED BY <1>1, <2>1, <4>1, <4>2 DEF Gain, Part, out, in, feeAsset, user
    <3>2. Part(user, in, D.actualIn, u, a) \in Int
      BY <1>1, <2>1 DEF Part
    <3>. HIDE DEF p1, p2, p3
    <3>. QED BY <2>4, <3>1, <3>2
  <2>6. Earns(L, D.ledger, u, a, (p1 + p2) + p3)
    <3>1. D.ledger \in LedgerType
      BY <2>2 DEF Gives, Moves
    <3>. HIDE DEF ownFee, given, out, feeAsset, user, matcher
    <3>2. Earns(L, K, u, a, p1) /\ Earns(K, N, u, a, p2) /\ Earns(N, D.ledger, u, a, p3)
      BY <1>1, <2>2, <2>3, GivesEarns
    <3>. HIDE DEF p1, p2, p3
    <3>3. Earns(L, N, u, a, p1 + p2)
      BY <1>1, <2>4, <3>2, EarnsChain
    <3>4. p1 + p2 \in Int
      BY <2>4
    <3>. QED BY <1>1, <2>4, <3>1, <3>2, <3>3, <3>4, EarnsChain
  <2>7. (p1 + p2) + p3 \in Int
    BY <2>4
  <2>. HIDE DEF p1, p2, p3, amountOut, amountIn, in, user
  <2>8. \E x \in Int :
           /\ Earns(L, D.ledger, u, a, x)
           /\ x + Part(user, in, D.actualIn, u, a)
                 >= Gain(order, isSeller, amountOut, amountIn, fee, u, a)
    BY <2>5, <2>6, <2>7
  <2>. QED BY <2>8 DEF Earned, D, amountOut, amountIn, in, user
<1>. QED BY <1>2, <1>3

LEMMA GainInt ==
    ASSUME NEW order, NEW isSeller, NEW amountOut \in Int, NEW amountIn \in Int,
           NEW fee \in Int, NEW u, NEW a
    PROVE  Gain(order, isSeller, amountOut, amountIn, fee, u, a) \in Int
BY DEF Gain, Part

LEMMA GainOfOthers ==
    ASSUME NEW order, NEW isSeller, NEW amountOut, NEW amountIn, NEW fee,
           NEW u, u # order.senderAddress, NEW a
    PROVE  Gain(order, isSeller, amountOut, amountIn, fee, u, a) = 0
BY DEF Gain, Part

LEMMA NoGain ==
    ASSUME NEW order, NEW isSeller, NEW u, NEW a
    PROVE  Gain(order, isSeller, 0, 0, 0, u, a) = 0
BY DEF Gain, Part

LEMMA CreditEarns ==
    ASSUME NEW L, LedgerOK(L), now \in Nat, NEW fromWallet, NEW user \in Users,
           NEW amount \in Int, NEW asset \in Assets,
           NEW u \in Users, NEW a \in Assets, BaseUnit[a] = Unit
    PROVE  Earns(L, creditUserAssets(L, fromWallet, user, amount, asset), u, a,
                 Part(user, asset, amount, u, a))
<1>1. L \in LedgerType
  BY DEF LedgerOK
<1>2. Gives(L, creditUserAssets(L, fromWallet, user, amount, asset), user, asset, amount,
            Pulled(amount))
  BY CreditGives
<1>. QED BY <1>1, <1>2, GivesEarns

(* A fill brings each user what the user's orders exchange at the fill's price. *)
LEMMA SettleEarns ==
    ASSUME LedgerOK(Ledger), now \in Nat,
           NEW buy \in OrderType, NEW sell \in OrderType, buy.amount > 0, sell.amount > 0,
           buy.baseAsset = sell.baseAsset, buy.quoteAsset = sell.quoteAsset,
           NEW d \in Nat, NEW amountQuote \in Nat, d = 0 => amountQuote = 0,
           NEW u \in Users, NEW a \in Assets, BaseUnit[a] = Unit
    PROVE  Earns(Ledger, Settle(buy, sell, d, amountQuote), u, a,
                 Gain(buy, FALSE, amountQuote, d, MatcherFee(buy, d), u, a)
                 + Gain(sell, TRUE, d, amountQuote, MatcherFee(sell, d), u, a))
<1>. DEFINE base == buy.baseAsset
            quote == buy.quoteAsset
            fee1 == MatcherFee(buy, d)
            fee2 == MatcherFee(sell, d)
            bought == updateOrderBalanceDebit(Ledger, buy, FALSE, d, amountQuote, fee1)
            sold == updateOrderBalanceDebit(bought.ledger, sell, TRUE, d, amountQuote, fee2)
            buyer == buy.senderAddress
            seller == sell.senderAddress
            buyerCredited == creditUserAssets(sold.ledger, bought.fromWallet, buyer,
                                              bought.actualIn, base)
            M == creditUserAssets(buyerCredited, sold.fromWallet, seller,
                                  sold.actualIn, quote)
            gain1 == Gain(buy, FALSE, amountQuote, d, fee1, u, a)
            gain2 == Gain(sell, TRUE, d, amountQuote, fee2, u, a)
<1>1. /\ buyer \in Users /\ seller \in Users /\ base \in Assets /\ quote \in Assets
      /\ fee1 \in Nat /\ fee2 \in Nat
  BY MatcherFeeNat DEF OrderType
<1>2. M = Settle(buy, sell, d, amountQuote)
  BY Zenon DEF Settle
<1>3. InAsset(buy, FALSE) = base /\ InAsset(sell, TRUE) = quote
  BY DEF InAsset
<1>4. LedgerOK(bought.ledger) /\ bought.actualIn \in Int
  BY <1>1, DebitOK
<1>5. LedgerOK(sold.ledger) /\ sold.actualIn \in Int
  <2>. HIDE DEF bought, fee2
  <2>. QED BY <1>1, <1>4, DebitOK
<1>6. Earned(Ledger, buy, FALSE, d, amountQuote, fee1, u, a)
  BY <1>1, DebitEarns
<1>7. Earned(bought.ledger, sell, TRUE, d, amountQuote, fee2, u, a)
  <2>. HIDE DEF bought, fee2
  <2>. QED BY <1>1, <1>4, DebitEarns
<1>8. PICK x1 \in Int :
         /\ Earns(Ledger, bought.ledger, u, a, x1)
         /\ x1 + Part(buyer, base, bought.actualIn, u, a) >= gain1
  BY <1>3, <1>6 DEF Earned
<1>. HIDE DEF bought
<1>9. PICK x2 \in Int :
         /\ Earns(bought.ledger, sold.ledger, u, a, x2)
         /\ x2 + Part(seller, quote, sold.actualIn, u, a) >= gain2
  BY <1>3, <1>7 DEF Earned
<1>. HIDE DEF sold
<1>. DEFINE y1 == Part(buyer, base, bought.actualIn, u, a)
            y2 == Part(seller, quote, sold.actualIn, u, a)
<1>10. LedgerOK(buyerCredited) /\ Earns(sold.ledger, buyerCredited, u, a, y1)
  BY <1>1, <1>4, <1>5, CreditOK, CreditEarns
<1>. HIDE DEF buyerCredited
<1>11. LedgerOK(M) /\ Earns(buyerCredited, M, u, a, y2)
  BY <1>1, <1>5, <1>10, CreditOK, CreditEarns
<1>. HIDE DEF M
<1>12. y1 \in Int /\ y2 \in Int /\ gain1 \in Int /\ gain2 \in Int
  <2>1. y1 \in Int /\ y2 \in Int
    BY <1>4, <1>5 DEF Part
  <2>2. gain1 \in Int /\ gain2 \in Int
    <3>1. d \in Int /\ amountQuote \in Int /\ fee1 \in Int /\ fee2 \in Int
      BY <1>1
    <3>. QED BY <3>1, GainInt, Zenon
  <2>. QED BY <2>1, <2>2
<1>13. /\ Ledger \in LedgerType /\ bought.ledger \in LedgerType /\ sold.ledger \in LedgerType
       /\ buyerCredited \in LedgerType /\ M \in LedgerType
  BY <1>4, <1>5, <1>10, <1>11 DEF LedgerOK
<1>14. x1 + y1 >= gain1 /\ x2 + y2 >= gain2
  BY <1>8, <1>9
<1>15. Earns(Ledger, bought.ledger, u, a, x1) /\ Earns(bought.ledger, sold.ledger, u, a, x2)
  BY <1>8, <1>9
<1>. HIDE DEF y1, y2, gain1, gain2, base, quote, buyer, seller
<1>16. Earns(Ledger, sold.ledger, u, a, x1 + x2) /\ x1 + x2 \in Int /\ (x1 + x2) + y1 \in Int
  BY <1>12, <1>13, <1>15, EarnsChain
<1>17. Earns(Ledger, buyerCredited, u, a, (x1 + x2) + y1)
  BY <1>10, <1>12, <1>13, <1>16, EarnsChain
<1>18. Earns(Ledger, M, u, a, ((x1 + x2) + y1) + y2)
  BY <1>11, <1>12, <1>13, <1>16, <1>17, EarnsChain
<1>19. Earns(Ledger, M, u, a, gain1 + gain2)
  <2>1. Own(Ledger, u, a) \in Int /\ Own(M, u, a) \in Int
    BY <1>13, OwnInt
  <2>. QED BY <1>12, <1>14, <1>18, <2>1 DEF Earns
<1>. QED BY <1>2, <1>19 DEF gain1, gain2

-------------------------------------------------------------------------------
(* What is due. *)

(* A sum with at most two summands that are not zero. *)
LEMMA SumOfTwo ==
    ASSUME NEW S, IsFiniteSet(S), NEW f, \A z \in S : f[z] \in Int, NEW x, NEW y, x # y,
           \A z \in S \ {x, y} : f[z] = 0
    PROVE  SumFunctionOnSet(f, S) =
              (IF x \in S THEN f[x] ELSE 0) + (IF y \in S THEN f[y] ELSE 0)
<1>. DEFINE g == [z \in S |-> IF z = x THEN 0 ELSE f[z]]
            h == [z \in S |-> 0]
<1>1. /\ \A z \in S : g[z] \in Int /\ h[z] \in Int /\ h[z] = 0
      /\ \A z \in S \ {x} : f[z] = g[z]
      /\ \A z \in S \ {y} : g[z] = h[z]
      /\ x \in S => g[x] = 0
      /\ y \in S => g[y] = f[y] /\ h[y] = 0
  OBVIOUS
<1>. HIDE DEF g, h
<1>2. SumFunctionOnSet(h, S) = 0
  BY <1>1, SumZero
<1>3. SumFunctionOnSet(g, S) = SumFunctionOnSet(h, S) + (IF y \in S THEN g[y] - h[y] ELSE 0)
  BY <1>1, SumChange
<1>4. SumFunctionOnSet(f, S) = SumFunctionOnSet(g, S) + (IF x \in S THEN f[x] - g[x] ELSE 0)
  BY <1>1, SumChange
<1>. QED BY <1>1, <1>2, <1>3, <1>4

LEMMA UnfilledIsNotDue ==
    ASSUME NEW u, NEW a, Filled(u) = {}
    PROVE  Due(u, a) = 0
<1>1. SumFunctionOnSet([o \in {} |-> Terms(o, FillOf(o)' - FillOf(o), a)], {}) = 0
  BY SumZero, FS_EmptySet
<1>2. Due(u, a) = SumFunction([o \in {} |-> Terms(o, FillOf(o)' - FillOf(o), a)])
  BY DEF Due
<1>. QED BY <1>1, <1>2 DEF SumFunction

LEMMA NothingDue ==
    ASSUME UNCHANGED filledAmounts, NEW u, NEW a
    PROVE  Due(u, a) = 0
<1>1. Filled(u) = {}
  BY DEF Filled, FillOf
<1>. QED BY <1>1, UnfilledIsNotDue

LEMMA DivMonotone ==
    ASSUME NEW x \in Nat, NEW y \in Nat, NEW k \in Nat \ {0}, x <= y
    PROVE  x \div k <= y \div k
OBVIOUS

LEMMA QuoteMonotone ==
    ASSUME NEW d \in Nat, NEW p \in Nat, NEW q \in Nat, p <= q
    PROVE  /\ (d * p) \div Unit \in Nat /\ (d * q) \div Unit \in Nat
           /\ (d * p) \div Unit <= (d * q) \div Unit
<1>1. d * p \in Nat /\ d * q \in Nat /\ Unit \in Nat \ {0}
  BY UnitsPositive, ProductNat
<1>2. d * p <= d * q
  <2>1. q - p \in Nat /\ d * (q - p) \in Nat
    BY ProductNat
  <2>2. d * q = d * p + d * (q - p)
    OBVIOUS
  <2>. QED BY <1>1, <2>1, <2>2
<1>. QED BY <1>1, <1>2, DivNat, DivMonotone

(* An order that is filled at its limit price or a better one brings its sender what
   its terms say. *)
LEMMA TermsOfBuy ==
    ASSUME NEW order \in OrderType, order.amount > 0, order.buySide = kBuy,
           NEW d \in Nat, NEW p \in Nat, p <= order.price, NEW a
    PROVE  Terms(order, d, a) <= Gain(order, FALSE, (d * p) \div Unit, d,
                                      MatcherFee(order, d), order.senderAddress, a)
<1>. DEFINE fee == MatcherFee(order, d)
            paid == (d * p) \div Unit
            limit == (d * order.price) \div Unit
<1>1. fee \in Nat /\ order.price \in Nat
  BY MatcherFeeNat DEF OrderType
<1>2. paid \in Nat /\ limit \in Nat /\ paid <= limit
  BY <1>1, QuoteMonotone
<1>3. Terms(order, d, a) = (IF a = order.baseAsset THEN d ELSE 0)
                           - (IF a = order.quoteAsset THEN limit ELSE 0)
                           - (IF a = order.matcherFeeAsset THEN fee ELSE 0)
  <2>1. fee = (order.matcherFee * d) \div order.amount
    BY DEF MatcherFee
  <2>2. 1 * d = d /\ 1 * limit = limit
    BY <1>2
  <2>. HIDE DEF fee, limit
  <2>3. limit = (d * order.price) \div Unit
    BY DEF limit
  <2>. QED BY <2>1, <2>2, <2>3 DEF Terms
<1>4. Gain(order, FALSE, paid, d, fee, order.senderAddress, a)
         = (IF a = order.baseAsset THEN d ELSE 0)
           - (IF a = order.quoteAsset THEN paid ELSE 0)
           - (IF a = order.matcherFeeAsset THEN fee ELSE 0)
  <2>1. InAsset(order, FALSE) = order.baseAsset /\ OutAsset(order, FALSE) = order.quoteAsset
    BY DEF InAsset, OutAsset
  <2>. HIDE DEF fee, paid
  <2>. QED BY <2>1 DEF Gain, Part
<1>. HIDE DEF fee, paid, limit
<1>. DEFINE in == IF a = order.baseAsset THEN d ELSE 0
            least == IF a = order.quoteAsset THEN paid ELSE 0
            most == IF a = order.quoteAsset THEN limit ELSE 0
            charged == IF a = order.matcherFeeAsset THEN fee ELSE 0
<1>5. in \in Int /\ least \in Int /\ most \in Int /\ charged \in Int /\ least <= most
  BY <1>1, <1>2
<1>6. in - most - charged <= in - least - charged
  <2>. HIDE DEF in, least, most, charged
  <2>. QED BY <1>5
<1>7. Terms(order, d, a) <= Gain(order, FALSE, paid, d, fee, order.senderAddress, a)
  BY <1>3, <1>4, <1>6, Zenon
<1>. QED BY <1>7 DEF fee, paid

LEMMA TermsOfSale ==
    ASSUME NEW order \in OrderType, order.amount > 0, order.buySide = kSell,
           NEW d \in Nat, NEW p \in Nat, p >= order.price, NEW a
    PROVE  Terms(order, d, a) <= Gain(order, TRUE, d, (d * p) \div Unit,
                                      MatcherFee(order, d), order.senderAddress, a)
<1>. DEFINE fee == MatcherFee(order, d)
            got == (d * p) \div Unit
            limit == (d * order.price) \div Unit
<1>1. fee \in Nat /\ order.price \in Nat
  BY MatcherFeeNat DEF OrderType
<1>2. got \in Nat /\ limit \in Nat /\ limit <= got
  BY <1>1, QuoteMonotone
<1>3. Terms(order, d, a) = (IF a = order.quoteAsset THEN limit ELSE 0)
                           - (IF a = order.baseAsset THEN d ELSE 0)
                           - (IF a = order.matcherFeeAsset THEN fee ELSE 0)
  <2>1. fee = (order.matcherFee * d) \div order.amount
    BY DEF MatcherFee
  <2>2. (-1) * d = -d /\ (-1) * limit = -limit /\ limit \in Int /\ fee \in Int
    BY <1>1, <1>2
  <2>. HIDE DEF fee, limit
  <2>3. limit = (d * order.price) \div Unit /\ order.buySide # kBuy
    BY DEF limit, kSell, kBuy
  <2>4. Terms(order, d, a) = (IF a = order.baseAsset THEN -d ELSE 0)
                             - (IF a = order.quoteAsset THEN -limit ELSE 0)
                             - (IF a = order.matcherFeeAsset THEN fee ELSE 0)
    BY <2>1, <2>2, <2>3 DEF Terms
  <2>. QED BY <2>2, <2>4
<1>4. Gain(order, TRUE, d, got, fee, order.senderAddress, a)
         = (IF a = order.quoteAsset THEN got ELSE 0)
           - (IF a = order.baseAsset THEN d ELSE 0)
           - (IF a = order.matcherFeeAsset THEN fee ELSE 0)
  <2>1. InAsset(order, TRUE) = order.quoteAsset /\ OutAsset(order, TRUE) = order.baseAsset
    BY DEF InAsset, OutAsset
  <2>. HIDE DEF fee, got
  <2>. QED BY <2>1 DEF Gain, Part
<1>. HIDE DEF fee, got, limit
<1>. DEFINE out == IF a = order.baseAsset THEN d ELSE 0
            least == IF a = order.quoteAsset THEN limit ELSE 0
            most == IF a = order.quoteAsset THEN got ELSE 0
            charged == IF a = order.matcherFeeAsset THEN fee ELSE 0
<1>5. out \in Int /\ least \in Int /\ most \in Int /\ charged \in Int /\ least <= most
  BY <1>1, <1>2
<1>6. least - out - charged <= most - out - charged
  <2>. HIDE DEF out, least, most, charged
  <2>. QED BY <1>5
<1>7. Terms(order, d, a) <= Gain(order, TRUE, d, got, fee, order.senderAddress, a)
  BY <1>3, <1>4, <1>6, Zenon
<1>. QED BY <1>7 DEF fee, got

(* Only the two orders of a fill are filled, each by the amount of the fill. *)
LEMMA FilledByFill ==
    ASSUME IInv, NEW sender, NEW buy \in Orders, NEW sell \in Orders,
           NEW p, NEW d \in Nat, FillOrders(sender, buy, sell, p, d),
           NEW u
    PROVE  /\ buy # sell
           /\ Filled(u) \subseteq {buy, sell}
           /\ buy \in Filled(u) => u = buy.senderAddress
           /\ sell \in Filled(u) => u = sell.senderAddress
           /\ u = buy.senderAddress /\ d # 0 => buy \in Filled(u)
           /\ u = sell.senderAddress /\ d # 0 => sell \in Filled(u)
           /\ FillOf(buy)' - FillOf(buy) = d /\ FillOf(sell)' - FillOf(sell) = d
<1>. DEFINE hb == getTypeValueHash(buy)
            hs == getTypeValueHash(sell)
<1>1. buy \in SignedOrders /\ sell \in SignedOrders /\ buy # sell
  BY DEF FillOrders, checkOrdersInfo, validateOrder, kBuy, kSell
<1>2. \A o1, o2 \in Orders : getTypeValueHash(o1) = getTypeValueHash(o2) => o1 = o2
  BY StorageAssumption DEF StorageAssumption, getTypeValueHash
<1>3. filledAmounts \in [OrderHashes -> Nat] /\ hb \in OrderHashes /\ hs \in OrderHashes
      /\ hb # hs
  BY <1>1, <1>2, HashOfOrder DEF IInv, TypeOK, StorageTypeOK
<1>4. filledAmounts' = [[filledAmounts EXCEPT ![hb] = @ + d] EXCEPT ![hs] = @ + d]
  BY DEF FillOrders
<1>. HIDE DEF hb, hs
<1>5. /\ filledAmounts'[hb] = filledAmounts[hb] + d /\ filledAmounts'[hs] = filledAmounts[hs] + d
      /\ filledAmounts[hb] \in Nat /\ filledAmounts[hs] \in Nat
      /\ \A h \in OrderHashes \ {hb, hs} : filledAmounts'[h] = filledAmounts[h]
  BY <1>3, <1>4
<1>6. /\ FillOf(buy)' = FillOf(buy) + d /\ FillOf(sell)' = FillOf(sell) + d
      /\ FillOf(buy) \in Nat /\ FillOf(sell) \in Nat
  BY <1>5 DEF FillOf, hb, hs
<1>7. \A o \in SignedOrders \ {buy, sell} : FillOf(o)' = FillOf(o)
  <2>1. \A o \in SignedOrders \ {buy, sell} : getTypeValueHash(o) \in OrderHashes \ {hb, hs}
    BY <1>2, HashOfOrder, ValidatorAssumption DEF ValidatorAssumption, hb, hs
  <2>. QED BY <1>5, <2>1 DEF FillOf
<1>8. Filled(u) \subseteq {buy, sell}
  BY <1>7 DEF Filled
<1>9. /\ buy \in Filled(u) => u = buy.senderAddress
      /\ sell \in Filled(u) => u = sell.senderAddress
  BY DEF Filled
<1>10. /\ u = buy.senderAddress /\ d # 0 => buy \in Filled(u)
       /\ u = sell.senderAddress /\ d # 0 => sell \in Filled(u)
  BY <1>1, <1>6 DEF Filled
<1>. QED BY <1>1, <1>6, <1>8, <1>9, <1>10

LEMMA TermsInt ==
    ASSUME NEW order \in OrderType, order.amount > 0, NEW d \in Nat, NEW a
    PROVE  Terms(order, d, a) \in Int
<1>. DEFINE quote == (d * order.price) \div Unit
            fee == (order.matcherFee * d) \div order.amount
            sign == IF order.buySide = kBuy THEN 1 ELSE -1
<1>1. order.price \in Nat /\ order.matcherFee \in Nat /\ order.amount \in Nat \ {0}
  BY DEF OrderType
<1>2. d * order.price \in Nat /\ order.matcherFee * d \in Nat /\ Unit \in Nat \ {0}
  BY <1>1, ProductNat, UnitsPositive
<1>3. quote \in Nat /\ fee \in Nat
  BY <1>1, <1>2, DivNat
<1>. HIDE DEF quote, fee
<1>4. sign * d \in Int /\ sign * quote \in Int
  BY <1>3
<1>. HIDE DEF sign
<1>5. Terms(order, d, a) = (IF a = order.baseAsset THEN sign * d ELSE 0)
                           - (IF a = order.quoteAsset THEN sign * quote ELSE 0)
                           - (IF a = order.matcherFeeAsset THEN fee ELSE 0)
  BY Zenon DEF Terms, quote, fee, sign
<1>. QED BY <1>3, <1>4, <1>5

(* The orders of a fill grant each user no more than the fill brings. *)
LEMMA FillPaysDue ==
    ASSUME IInv, NEW sender, NEW buy \in Orders, NEW sell \in Orders,
           NEW p \in Nat, NEW d \in Nat, FillOrders(sender, buy, sell, p, d),
           NEW u \in Users, NEW a \in Assets
    PROVE  Due(u, a) <= Gain(buy, FALSE, (d * p) \div Unit, d, MatcherFee(buy, d), u, a)
                        + Gain(sell, TRUE, d, (d * p) \div Unit, MatcherFee(sell, d), u, a)
           /\ Due(u, a) \in Int
<1>. DEFINE quote == (d * p) \div Unit
            feeB == MatcherFee(buy, d)
            feeS == MatcherFee(sell, d)
            gainB == Gain(buy, FALSE, quote, d, feeB, u, a)
            gainS == Gain(sell, TRUE, d, quote, feeS, u, a)
            S == Filled(u)
            f == [o \in S |-> Terms(o, FillOf(o)' - FillOf(o), a)]
            dueB == IF buy \in S THEN Terms(buy, d, a) ELSE 0
            dueS == IF sell \in S THEN Terms(sell, d, a) ELSE 0
<1>1. /\ buy \in OrderType /\ sell \in OrderType
      /\ buy.amount > 0 /\ sell.amount > 0
      /\ buy.buySide = kBuy /\ sell.buySide = kSell
      /\ p <= buy.price /\ p >= sell.price
  BY StorageAssumption DEF StorageAssumption, FillOrders, checkOrdersInfo
<1>2. /\ buy # sell /\ S \subseteq {buy, sell}
      /\ (buy \in S => u = buy.senderAddress) /\ (sell \in S => u = sell.senderAddress)
      /\ (u = buy.senderAddress /\ d # 0 => buy \in S)
      /\ (u = sell.senderAddress /\ d # 0 => sell \in S)
      /\ FillOf(buy)' - FillOf(buy) = d /\ FillOf(sell)' - FillOf(sell) = d
  BY FilledByFill
<1>. HIDE DEF FillOrders
<1>3. /\ buy \in S => f[buy] = Terms(buy, d, a)
      /\ sell \in S => f[sell] = Terms(sell, d, a)
  BY <1>2
<1>4. feeB \in Nat /\ feeS \in Nat /\ quote \in Nat
  <2>1. d * p \in Nat /\ Unit \in Nat \ {0}
    BY ProductNat, UnitsPositive
  <2>. QED BY <1>1, <2>1, MatcherFeeNat, DivNat
<1>5. d = 0 => feeB = 0 /\ feeS = 0 /\ quote = 0
  <2>. SUFFICES ASSUME d = 0 PROVE feeB = 0 /\ feeS = 0 /\ quote = 0
    OBVIOUS
  <2>1. Unit \in Nat \ {0} /\ 0 * p = 0
    BY UnitsPositive
  <2>2. \A k \in Nat \ {0} : 0 \div k = 0
    OBVIOUS
  <2>3. quote = 0
    BY <2>1, <2>2
  <2>4. buy.matcherFee * 0 = 0 /\ sell.matcherFee * 0 = 0
        /\ buy.amount \in Nat \ {0} /\ sell.amount \in Nat \ {0}
    BY <1>1 DEF OrderType
  <2>. QED BY <2>2, <2>3, <2>4 DEF MatcherFee
<1>6. /\ Terms(buy, d, a) \in Int /\ Terms(sell, d, a) \in Int
  BY <1>1, TermsInt
<1>7. /\ Terms(buy, d, a) <= Gain(buy, FALSE, quote, d, feeB, buy.senderAddress, a)
      /\ Terms(sell, d, a) <= Gain(sell, TRUE, d, quote, feeS, sell.senderAddress, a)
  BY <1>1, TermsOfBuy, TermsOfSale
<1>8. /\ u # buy.senderAddress \/ d = 0 => gainB = 0
      /\ u # sell.senderAddress \/ d = 0 => gainS = 0
  <2>. HIDE DEF quote, feeB, feeS
  <2>1. (u # buy.senderAddress => gainB = 0) /\ (u # sell.senderAddress => gainS = 0)
    BY GainOfOthers, Zenon
  <2>2. d = 0 => gainB = 0 /\ gainS = 0
    BY <1>5, NoGain, Zenon
  <2>. HIDE DEF gainB, gainS
  <2>. QED BY <2>1, <2>2, Zenon
<1>. HIDE DEF f, quote, feeB, feeS, S
<1>9. gainB \in Int /\ gainS \in Int
  <2>1. d \in Int /\ quote \in Int /\ feeB \in Int /\ feeS \in Int
    BY <1>4
  <2>. QED BY <2>1, GainInt, Zenon
<1>10. dueB <= gainB /\ dueS <= gainS /\ dueB \in Int /\ dueS \in Int
  <2>1. buy \in S => Terms(buy, d, a) <= gainB
    BY <1>2, <1>7, Zenon
  <2>2. sell \in S => Terms(sell, d, a) <= gainS
    BY <1>2, <1>7, Zenon
  <2>3. (buy \notin S => gainB = 0) /\ (sell \notin S => gainS = 0)
    BY <1>2, <1>8, Zenon
  <2>. HIDE DEF gainB, gainS
  <2>. QED BY <1>6, <1>9, <2>1, <2>2, <2>3
<1>11. SumFunctionOnSet(f, S) = dueB + dueS
  <2>1. IsFiniteSet(S)
    <3>1. IsFiniteSet({buy})
      BY FS_Singleton
    <3>2. IsFiniteSet({buy} \cup {sell})
      BY <3>1, FS_AddElement
    <3>3. S \in SUBSET ({buy} \cup {sell})
      BY <1>2
    <3>. QED BY <3>2, <3>3, FS_Subset
  <2>2. \A o \in S : f[o] \in Int
    BY <1>2, <1>3, <1>6
  <2>3. \A o \in S \ {buy, sell} : f[o] = 0
    BY <1>2
  <2>4. SumFunctionOnSet(f, S) = (IF buy \in S THEN f[buy] ELSE 0)
                                 + (IF sell \in S THEN f[sell] ELSE 0)
    BY <1>2, <2>1, <2>2, <2>3, SumOfTwo
  <2>. QED BY <1>3, <2>4
<1>12. Due(u, a) = SumFunctionOnSet(f, S)
  BY DEF Due, SumFunction, f, S
<1>. HIDE DEF dueB, dueS, gainB, gainS
<1>13. Due(u, a) <= gainB + gainS /\ Due(u, a) \in Int
  BY <1>9, <1>10, <1>11, <1>12
<1>. QED BY <1>13 DEF gainB, gainS, quote, feeB, feeS

-------------------------------------------------------------------------------
(* The steps of the exchange. *)

ConsentKept ==
    \A u \in Users, a \in Assets : BaseUnit[a] = Unit =>
        WealthChange(u, a) >= Due(u, a) \/ LiquidationPayment(u, a)

LEMMA CommitWealth ==
    ASSUME IInv, NEW L \in LedgerType, Commit(L), UNCHANGED stakingData,
           NEW u \in Users, NEW a \in Assets, NEW x \in Int, Earns(Ledger, L, u, a, x)
    PROVE  WealthChange(u, a) >= x
<1>1. /\ Own(Ledger, u, a) \in Int /\ Own(L, u, a) \in Int
  BY LedgerIsOK, OwnInt DEF IInv, TypeOK
<1>2. Staked(u, a) \in Int
  BY DEF Staked, IInv, TypeOK, VaultTypeOK, Stake
<1>3. Wealth(u, a) = Own(Ledger, u, a) + Staked(u, a)
  BY DEF Wealth, Own, Ledger
<1>4. Wealth(u, a)' = Own(L, u, a) + Staked(u, a)
  BY DEF Wealth, Own, Commit, Staked
<1>. QED BY <1>1, <1>2, <1>3, <1>4 DEF WealthChange, Earns

LEMMA WealthInt ==
    ASSUME IInv, NEW L \in LedgerType, Commit(L), UNCHANGED stakingData,
           NEW u \in Users, NEW a \in Assets
    PROVE  WealthChange(u, a) \in Int
<1>1. L.assetBalances[u][a] \in Int /\ L.wallet[u][a] \in Int
  BY OwnInt
<1>2. assetBalances[u][a] \in Int /\ wallet[u][a] \in Int /\ Staked(u, a) \in Int
  BY DEF Staked, IInv, TypeOK, VaultTypeOK, StorageTypeOK, Stake
<1>3. /\ assetBalances'[u][a] = L.assetBalances[u][a] /\ wallet'[u][a] = L.wallet[u][a]
      /\ Staked(u, a)' = Staked(u, a)
  BY DEF Commit, Staked
<1>. QED BY <1>1, <1>2, <1>3 DEF WealthChange, Wealth

LEMMA NoChangeIsConsent ==
    ASSUME UNCHANGED filledAmounts, TypeOK,
           \A u \in Users, a \in Assets : Wealth(u, a)' = Wealth(u, a)
    PROVE  ConsentKept
<1>. SUFFICES ASSUME NEW u \in Users, NEW a \in Assets
              PROVE  WealthChange(u, a) >= Due(u, a)
  BY DEF ConsentKept
<1>1. Wealth(u, a) \in Int
  BY DEF Wealth, Staked, TypeOK, StorageTypeOK, VaultTypeOK, Stake
<1>. QED BY <1>1, NothingDue DEF WealthChange

(* Nothing is given but what comes from the wallet or goes to it. *)
LEMMA GivesConsent ==
    ASSUME IInv, NEW L \in LedgerType, Commit(L), UNCHANGED <<stakingData, filledAmounts>>,
           NEW user \in Users, NEW asset \in Assets, NEW loss,
           Gives(Ledger, L, user, asset, 0, loss)
    PROVE  ConsentKept
<1>. SUFFICES ASSUME NEW u \in Users, NEW a \in Assets, BaseUnit[a] = Unit
              PROVE  WealthChange(u, a) >= 0
  BY NothingDue DEF ConsentKept
<1>1. Earns(Ledger, L, u, a, Part(user, asset, 0, u, a))
  BY LedgerIsOK, GivesEarns DEF IInv, TypeOK
<1>2. Part(user, asset, 0, u, a) = 0
  BY DEF Part
<1>. QED BY <1>1, <1>2, CommitWealth

LEMMA FillOrdersConsent ==
    ASSUME IInv, NEW sender \in Users, NEW buy \in Orders, NEW sell \in Orders,
           NEW p \in Nat, NEW d \in Nat, FillOrders(sender, buy, sell, p, d)
    PROVE  ConsentKept
<1>. DEFINE quote == (d * p) \div Unit
            L == Settle(buy, sell, d, quote)
<1>1. buy \in OrderType /\ sell \in OrderType
  BY StorageAssumption DEF StorageAssumption
<1>2. /\ buy.amount > 0 /\ sell.amount > 0
      /\ buy.baseAsset = sell.baseAsset /\ buy.quoteAsset = sell.quoteAsset
      /\ Commit(L) /\ UNCHANGED stakingData
  BY DEF FillOrders, checkOrdersInfo
<1>3. quote \in Nat /\ (d = 0 => quote = 0)
  <2>1. Unit \in Nat \ {0} /\ d * p \in Nat
    BY UnitsPositive, ProductNat
  <2>2. d = 0 => d * p = 0
    OBVIOUS
  <2>. QED BY <2>1, <2>2, DivNat
<1>4. now \in Nat /\ LedgerOK(Ledger)
  BY LedgerIsOK DEF IInv, TypeOK, OracleTypeOK
<1>. SUFFICES ASSUME NEW u \in Users, NEW a \in Assets, BaseUnit[a] = Unit
              PROVE  WealthChange(u, a) >= Due(u, a)
  BY DEF ConsentKept
<1>. DEFINE gain == Gain(buy, FALSE, quote, d, MatcherFee(buy, d), u, a)
                    + Gain(sell, TRUE, d, quote, MatcherFee(sell, d), u, a)
<1>5. Due(u, a) <= gain /\ Due(u, a) \in Int
  BY FillPaysDue
<1>. HIDE DEF quote
<1>6. L \in LedgerType /\ Earns(Ledger, L, u, a, gain)
  <2>1. L \in LedgerType
    <3>1. /\ buy.senderAddress \in Users /\ sell.senderAddress \in Users
      BY <1>1 DEF OrderType
    <3>. QED BY <1>1, <1>2, <1>3, <1>4, <3>1, SettleOK DEF LedgerOK
  <2>2. Earns(Ledger, L, u, a, gain)
    BY <1>1, <1>2, <1>3, <1>4, SettleEarns
  <2>. QED BY <2>1, <2>2
<1>7. gain \in Int
  <2>1. /\ d \in Int /\ quote \in Int
        /\ MatcherFee(buy, d) \in Int /\ MatcherFee(sell, d) \in Int
    BY <1>1, <1>2, <1>3, MatcherFeeNat
  <2>2. /\ Gain(buy, FALSE, quote, d, MatcherFee(buy, d), u, a) \in Int
        /\ Gain(sell, TRUE, d, quote, MatcherFee(sell, d), u, a) \in Int
    BY <2>1, GainInt, Zenon
  <2>3. \A x, y \in Int : x + y \in Int
    OBVIOUS
  <2>. QED BY <2>2, <2>3, Zenon
<1>. HIDE DEF L, gain
<1>8. WealthChange(u, a) >= gain /\ WealthChange(u, a) \in Int
  <2>1. WealthChange(u, a) >= gain
    BY <1>2, <1>6, <1>7, CommitWealth
  <2>. QED BY <1>2, <1>6, <2>1, WealthInt
<1>. QED BY <1>5, <1>7, <1>8

LEMMA StakeConsent ==
    ASSUME IInv, IInv', NEW user \in Users, NEW amount \in Nat,
           \/ LockStake(user, amount)
           \/ RequestReleaseStake(user)
           \/ \E phase \in StakePhase : SetPhase(user, phase)
    PROVE  ConsentKept
<1>1. /\ \A x \in Users, a \in Assets :
            assetBalances'[x][a] + Staked(x, a)' = assetBalances[x][a] + Staked(x, a)
  BY StakeMoves
<1>2. UNCHANGED <<wallet, filledAmounts>>
  BY DEF LockStake, RequestReleaseStake, StartRelease, CollectStake, SetPhase,
         vaultUnchanged
<1>3. ASSUME NEW x \in Users, NEW a \in Assets PROVE Wealth(x, a)' = Wealth(x, a)
  <2>1. /\ assetBalances[x][a] \in Int /\ wallet[x][a] \in Int /\ Staked(x, a) \in Int
    BY DEF IInv, TypeOK, StorageTypeOK, VaultTypeOK, Stake, Staked
  <2>2. assetBalances'[x][a] \in Int /\ Staked(x, a)' \in Int
    BY DEF IInv, TypeOK, StorageTypeOK, VaultTypeOK, Stake, Staked
  <2>3. assetBalances'[x][a] + Staked(x, a)' = assetBalances[x][a] + Staked(x, a)
    BY <1>1
  <2>. QED BY <1>2, <2>1, <2>2, <2>3 DEF Wealth
<1>. QED BY <1>2, <1>3, NoChangeIsConsent DEF IInv

-------------------------------------------------------------------------------
(* Liquidation. *)

(* The reward is at most the price of what is redeemed and the premium on it. *)
LEMMA RewardBound ==
    ASSUME IInv, NEW asset \in Assets, NEW amount \in Nat
    PROVE  LiquidationReward(asset, amount) * Unit * 255
              <= (amount * assetPrices[asset].price) * (255 + settings.liquidationPremium)
<1>. DEFINE v == amount * assetPrices[asset].price
            w == PerUnit(v)
            b == settings.liquidationPremium
            q == uint8Percent(w, b)
<1>1. assetPrices[asset].price \in Nat /\ b \in Nat /\ Unit \in Nat \ {0}
  BY UnitsPositive DEF IInv, TypeOK, OracleTypeOK, PriceDataOut, StorageTypeOK, Settings
<1>2. v \in Nat
  BY <1>1, ProductNat
<1>3. LiquidationReward(asset, amount) = w + q
  BY DEF LiquidationReward
<1>. HIDE DEF v, b
<1>4. w \in Nat /\ w * Unit <= v
  BY <1>1, <1>2, DivBounds, PerUnitNat DEF PerUnit
<1>. HIDE DEF w
<1>5. q \in Nat /\ q * 255 <= w * b
  <2>1. w * b \in Nat /\ q \in Nat /\ (w \div 255) \in Nat /\ (w \div 255) * 255 <= w
        /\ ((w * b) \div 255) * 255 <= w * b
    <3>1. w * b \in Nat /\ q \in Nat
      BY <1>1, <1>4, ProductNat, PercentNat
    <3>2. (w \div 255) \in Nat /\ (w \div 255) * 255 <= w
      BY <1>4
    <3>3. \A x \in Nat : (x \div 255) * 255 <= x
      OBVIOUS
    <3>. QED BY <3>1, <3>2, <3>3
  <2>2. CASE w > 65536
    <3>. DEFINE k == w \div 255
    <3>1. q = k * b /\ k \in Nat /\ k * 255 <= w
      BY <2>1, <2>2 DEF uint8Percent
    <3>. HIDE DEF k, q
    <3>2. (k * 255) * b <= w * b
      <4>1. w - k * 255 \in Nat
        BY <1>4, <3>1
      <4>2. (w - k * 255) * b \in Nat
        BY <1>1, <4>1, ProductNat
      <4>3. w * b = (k * 255) * b + (w - k * 255) * b
        BY <1>1, <1>4, <3>1
      <4>4. (k * 255) * b \in Int
        BY <1>1, <3>1
      <4>. QED BY <2>1, <4>2, <4>3, <4>4
    <3>3. q * 255 = (k * 255) * b
      BY <1>1, <3>1
    <3>. QED BY <2>1, <3>2, <3>3
  <2>3. CASE ~(w > 65536)
    <3>1. q = (w * b) \div 255
      BY <2>3 DEF uint8Percent
    <3>. HIDE DEF q
    <3>. QED BY <2>1, <3>1
  <2>. QED BY <2>2, <2>3
<1>. HIDE DEF q
<1>6. (w + q) * Unit * 255 <= (w * Unit) * (255 + b)
  <2>1. (w * b - q * 255) * Unit \in Nat
    <3>1. w * b - q * 255 \in Nat
      BY <1>1, <1>4, <1>5, ProductNat
    <3>. QED BY <1>1, <3>1, ProductNat
  <2>2. (w * Unit) * (255 + b) = (w + q) * Unit * 255 + (w * b - q * 255) * Unit
    BY <1>1, <1>4, <1>5
  <2>3. (w + q) * Unit * 255 \in Int
    BY <1>1, <1>4, <1>5
  <2>. QED BY <2>1, <2>2, <2>3
<1>7. (w * Unit) * (255 + b) <= v * (255 + b)
  <2>1. (v - w * Unit) * (255 + b) \in Nat
    <3>1. v - w * Unit \in Nat /\ 255 + b \in Nat
      BY <1>1, <1>2, <1>4
    <3>. QED BY <3>1, ProductNat
  <2>2. v * (255 + b) = (w * Unit) * (255 + b) + (v - w * Unit) * (255 + b)
    BY <1>1, <1>2, <1>4
  <2>3. (w * Unit) * (255 + b) \in Int
    BY <1>1, <1>4
  <2>. QED BY <2>1, <2>2, <2>3
<1>8. /\ (w + q) * Unit * 255 \in Int /\ (w * Unit) * (255 + b) \in Int /\ v * (255 + b) \in Int
  BY <1>1, <1>2, <1>4, <1>5
<1>9. (w + q) * Unit * 255 <= v * (255 + b)
  BY <1>6, <1>7, <1>8
<1>. QED BY <1>3, <1>9 DEF v, b

(* A user's debts are finitely many, because they are listed. *)
LEMMA DebtsFinite ==
    ASSUME IInv, NEW u \in Users
    PROVE  IsFiniteSet({x \in Assets : Owes(u, x)})
<1>. DEFINE D == DOMAIN liabilities[u]
            g == [i \in D |-> liabilities[u][i].asset]
            T == {liabilities[u][i].asset : i \in D}
<1>1. liabilities[u] \in Seq(Liability)
  BY DEF IInv, TypeOK, StorageTypeOK
<1>2. IsFiniteSet(D)
  <2>1. D = 1 .. Len(liabilities[u]) /\ Len(liabilities[u]) \in Nat
    BY <1>1
  <2>. QED BY <2>1, FS_Interval
<1>3. g \in Surjection(D, T)
  BY DEF Surjection
<1>4. IsFiniteSet(T)
  BY <1>2, <1>3, FS_Surjection
<1>5. {x \in Assets : Owes(u, x)} \in SUBSET T
  <2>1. NegativeIsListed
    BY ListsShowDebts
  <2>. QED BY <2>1 DEF NegativeIsListed, Listed
<1>. QED BY <1>4, <1>5, FS_Subset

(* A sum with at most one summand that is not zero. *)
LEMMA SumOfOne ==
    ASSUME NEW S, IsFiniteSet(S), NEW f, NEW x \in S, f[x] \in Int,
           \A z \in S \ {x} : f[z] = 0
    PROVE  SumFunctionOnSet(f, S) = f[x]
<1>. DEFINE h == [z \in S |-> 0]
<1>1. /\ \A z \in S : f[z] \in Int /\ h[z] \in Int /\ h[z] = 0
      /\ \A z \in S \ {x} : f[z] = h[z]
  OBVIOUS
<1>. HIDE DEF h
<1>2. SumFunctionOnSet(h, S) = 0
  BY <1>1, SumZero
<1>3. SumFunctionOnSet(f, S) = SumFunctionOnSet(h, S) + (IF x \in S THEN f[x] - h[x] ELSE 0)
  BY <1>1, SumChange
<1>. QED BY <1>1, <1>2, <1>3

(* What a liquidation changes of what its two users have. *)
LEMMA LiquidationWealth ==
    ASSUME IInv, IInv', UNCHANGED wallet,
           NEW liquidator \in Users, NEW broker \in Users, NEW asset \in Assets,
           NEW amount \in Nat, NEW fromBalance \in Nat, NEW fromStake \in Int,
           Liquidates(liquidator, broker, asset, amount, fromBalance, fromStake),
           NEW a \in Assets
    PROVE  /\ Traded(asset, amount, a) \in Int
           /\ WealthChange(liquidator, a) = Traded(asset, amount, a)
           /\ WealthChange(broker, a) = -Traded(asset, amount, a)
           /\ BalanceChange(broker, a)
                 = (IF a = ORN THEN fromStake ELSE 0) - Traded(asset, amount, a)
           /\ \A u \in Users \ {liquidator, broker} : WealthChange(u, a) = 0
<1>. DEFINE d == Traded(asset, amount, a)
<1>1. d \in Int
  BY RewardNat DEF Traded
<1>2. /\ liquidator # broker
      /\ assetBalances'[liquidator][a] = assetBalances[liquidator][a] + d
      /\ assetBalances'[broker][a] + d
            = assetBalances[broker][a] + (IF a = ORN THEN fromStake ELSE 0)
      /\ \A u \in Users \ {liquidator, broker} :
            assetBalances'[u][a] = assetBalances[u][a]
      /\ \A u \in Users \ {broker} : stakingData'[u].amount = stakingData[u].amount
      /\ stakingData'[broker].amount + fromStake = stakingData[broker].amount
  BY DEF Liquidates
<1>. HIDE DEF d
<1>3. \A u \in Users :
         /\ assetBalances[u][a] \in Int /\ assetBalances'[u][a] \in Int /\ wallet[u][a] \in Int
         /\ stakingData[u].amount \in Int /\ stakingData'[u].amount \in Int
  <2>1. /\ assetBalances \in [Users -> [Assets -> Int]]
        /\ assetBalances' \in [Users -> [Assets -> Int]]
        /\ wallet \in [Users -> [Assets -> Nat]]
    BY DEF IInv, TypeOK, StorageTypeOK
  <2>2. stakingData \in [Users -> Stake] /\ stakingData' \in [Users -> Stake]
    BY DEF IInv, TypeOK, VaultTypeOK
  <2>3. \A u \in Users : stakingData[u].amount \in Int /\ stakingData'[u].amount \in Int
    BY <2>2 DEF Stake
  <2>. QED BY <2>1, <2>3
<1>4. \A u \in Users :
         WealthChange(u, a) = (assetBalances'[u][a] + wallet[u][a] + Staked(u, a)')
                              - (assetBalances[u][a] + wallet[u][a] + Staked(u, a))
  BY DEF WealthChange, Wealth
<1>5. WealthChange(liquidator, a) = d
  <2>1. Staked(liquidator, a)' = Staked(liquidator, a) /\ Staked(liquidator, a) \in Int
    BY <1>2, <1>3 DEF Staked
  <2>. QED BY <1>1, <1>2, <1>3, <1>4, <2>1
<1>6. WealthChange(broker, a) = -d
  <2>1. /\ Staked(broker, a)' + (IF a = ORN THEN fromStake ELSE 0) = Staked(broker, a)
        /\ Staked(broker, a)' \in Int /\ Staked(broker, a) \in Int
    BY <1>2, <1>3 DEF Staked
  <2>. QED BY <1>1, <1>2, <1>3, <1>4, <2>1
<1>7. BalanceChange(broker, a) = (IF a = ORN THEN fromStake ELSE 0) - d
  BY <1>1, <1>2, <1>3 DEF BalanceChange
<1>8. ASSUME NEW u \in Users \ {liquidator, broker} PROVE WealthChange(u, a) = 0
  <2>1. Staked(u, a)' = Staked(u, a) /\ Staked(u, a) \in Int
    BY <1>2, <1>3 DEF Staked
  <2>. QED BY <1>2, <1>3, <1>4, <2>1
<1>. QED BY <1>1, <1>5, <1>6, <1>7, <1>8 DEF d

(* What a broker's debts go down by is valued at the price of the redeemed amount,
   unless it is a debt in ORN that is paid in full. *)
LEMMA RedeemedIsPriced ==
    ASSUME IInv, IInv', UNCHANGED wallet,
           NEW liquidator \in Users, NEW broker \in Users, NEW asset \in Assets,
           NEW amount \in Nat, NEW fromBalance \in Nat, NEW fromStake \in Int,
           Liquidates(liquidator, broker, asset, amount, fromBalance, fromStake),
           Owes(broker, asset), ~(asset = ORN /\ assetBalances'[broker][ORN] >= 0)
    PROVE  RedeemedValue(broker) = amount * assetPrices[asset].price
<1>0. \A x \in Assets :
         BalanceChange(broker, x) = (IF x = ORN THEN fromStake ELSE 0) - Traded(asset, amount, x)
  <2>. TAKE x \in Assets
  <2>. QED BY LiquidationWealth
<1>. DEFINE S == {x \in Assets : Owes(broker, x)}
            f == [x \in S |-> BalanceChange(broker, x) * assetPrices[x].price]
            reward == LiquidationReward(asset, amount)
            available == assetBalances[broker][ORN] + (IF asset = ORN THEN amount ELSE 0)
<1>1. /\ reward \in Nat /\ ORN \in Assets /\ available \in Int
      /\ assetBalances[broker][ORN] \in Int /\ assetBalances'[broker][ORN] \in Int
  <2>1. reward \in Nat /\ ORN \in Assets
    BY RewardNat, UnitsPositive
  <2>2. assetBalances \in [Users -> [Assets -> Int]] /\ assetBalances' \in [Users -> [Assets -> Int]]
    BY DEF IInv, TypeOK, StorageTypeOK
  <2>. QED BY <2>1, <2>2
<1>2. /\ fromBalance = RewardFromBalance(available, reward)
      /\ fromStake + fromBalance = reward
      /\ assetBalances'[broker][ORN] + Traded(asset, amount, ORN)
            = assetBalances[broker][ORN] + fromStake
  BY <1>1 DEF Liquidates
<1>3. Owes(broker, ORN) => fromStake = reward
  <2>1. CASE available <= 0
    <3>1. fromBalance = 0
      BY <1>1, <1>2, <2>1 DEF RewardFromBalance
    <3>. QED BY <1>1, <1>2, <3>1
  <2>2. CASE available > 0 /\ asset = ORN
    <3>1. fromBalance <= available
      BY <1>1, <1>2, <2>2 DEF RewardFromBalance
    <3>2. Traded(asset, amount, ORN) = reward - amount
      BY <2>2 DEF Traded
    <3>3. assetBalances'[broker][ORN] = available - fromBalance
      <4>. HIDE DEF reward
      <4>. QED BY <1>1, <1>2, <2>2, <3>2
    <3>. QED BY <1>1, <2>2, <3>1, <3>3
  <2>3. CASE available > 0 /\ asset # ORN
    BY <1>1, <2>3 DEF Owes
  <2>. QED BY <1>1, <2>1, <2>2, <2>3
<1>4. BalanceChange(broker, asset) = amount
  <2>1. BalanceChange(broker, asset)
           = (IF asset = ORN THEN fromStake ELSE 0) - Traded(asset, amount, asset)
    BY <1>0
  <2>2. Traded(asset, amount, asset) = (IF asset = ORN THEN reward ELSE 0) - amount
    BY DEF Traded
  <2>. HIDE DEF reward
  <2>. QED BY <1>1, <1>3, <2>1, <2>2
<1>5. \A x \in S \ {asset} : BalanceChange(broker, x) = 0
  <2>. SUFFICES ASSUME NEW x \in S \ {asset} PROVE BalanceChange(broker, x) = 0
    OBVIOUS
  <2>1. BalanceChange(broker, x) = (IF x = ORN THEN fromStake ELSE 0) - Traded(asset, amount, x)
    BY <1>0
  <2>2. Traded(asset, amount, x) = (IF x = ORN THEN reward ELSE 0) - 0
    BY DEF Traded
  <2>. HIDE DEF reward
  <2>. QED BY <1>1, <1>3, <2>1, <2>2
<1>6. \A x \in Assets : assetPrices[x].price \in Nat
  BY DEF IInv, TypeOK, OracleTypeOK, PriceDataOut
<1>7. /\ asset \in S /\ f[asset] = amount * assetPrices[asset].price /\ f[asset] \in Int
      /\ \A x \in S \ {asset} : f[x] = 0
  <2>1. asset \in S
    OBVIOUS
  <2>2. f[asset] = amount * assetPrices[asset].price
    BY <1>4, <2>1
  <2>3. amount * assetPrices[asset].price \in Int
    BY <1>6
  <2>4. \A x \in S \ {asset} : f[x] = 0
    <3>1. \A x \in S \ {asset} : f[x] = 0 * assetPrices[x].price
      BY <1>5
    <3>. HIDE DEF f
    <3>. QED BY <1>6, <3>1
  <2>. QED BY <2>1, <2>2, <2>3, <2>4
<1>8. IsFiniteSet(S)
  BY DebtsFinite
<1>9. RedeemedValue(broker) = SumFunctionOnSet(f, S)
  BY DEF RedeemedValue, SumFunction
<1>. HIDE DEF f, S
<1>10. SumFunctionOnSet(f, S) = f[asset]
  BY <1>7, <1>8, SumOfOne
<1>. QED BY <1>7, <1>9, <1>10

LEMMA LiquidationConsent ==
    ASSUME IInv, IInv', NEW liquidator \in Users, NEW broker \in Users, NEW asset \in Assets,
           NEW amount \in Nat, PartiallyLiquidate(liquidator, broker, asset, amount)
    PROVE  ConsentKept
<1>1. PICK fromBalance \in Nat, fromStake \in Int :
         Liquidates(liquidator, broker, asset, amount, fromBalance, fromStake)
  BY LiquidationMoves
<1>2. /\ calcPosition(broker).state \in {"NEGATIVE", "OVERDUE"}
      /\ Owes(broker, asset)
      /\ UNCHANGED <<filledAmounts, wallet>>
  BY DEF PartiallyLiquidate, Owes
<1>. HIDE DEF PartiallyLiquidate
<1>3. LiquidationReward(asset, amount) \in Nat /\ liquidator # broker
  BY <1>1, RewardNat DEF Liquidates
<1>. SUFFICES ASSUME NEW u \in Users, NEW a \in Assets
              PROVE  WealthChange(u, a) >= 0 \/ LiquidationPayment(u, a)
  BY <1>2, NothingDue DEF ConsentKept
<1>. DEFINE d == Traded(asset, amount, a)
<1>4. /\ d \in Int
      /\ WealthChange(liquidator, a) = d /\ WealthChange(broker, a) = -d
      /\ BalanceChange(broker, a) = (IF a = ORN THEN fromStake ELSE 0) - d
      /\ u \notin {liquidator, broker} => WealthChange(u, a) = 0
  BY <1>1, <1>2, LiquidationWealth
<1>5. fromStake >= 0
  <2>1. /\ fromBalance <= LiquidationReward(asset, amount)
    <3>1. fromBalance = RewardFromBalance(
             assetBalances[broker][ORN] + (IF asset = ORN THEN amount ELSE 0),
             LiquidationReward(asset, amount))
      BY <1>1 DEF Liquidates
    <3>2. assetBalances[broker][ORN] + (IF asset = ORN THEN amount ELSE 0) \in Int
      <4>1. assetBalances \in [Users -> [Assets -> Int]] /\ ORN \in Assets
        BY UnitsPositive DEF IInv, TypeOK, StorageTypeOK
      <4>. QED BY <4>1
    <3>. QED BY <1>3, <3>1, <3>2 DEF RewardFromBalance
  <2>2. fromStake + fromBalance = LiquidationReward(asset, amount)
    BY <1>1 DEF Liquidates
  <2>. QED BY <1>3, <2>1, <2>2
<1>6. CASE u = liquidator /\ d < 0
  <2>1. a = asset
    BY <1>3, <1>6 DEF Traded
  <2>2. BalanceChange(broker, a) >= -WealthChange(liquidator, a)
    <3>. HIDE DEF d
    <3>. QED BY <1>4, <1>5
  <2>3. broker \in Users \ {u} /\ Owes(broker, a)
    BY <1>2, <1>3, <1>6, <2>1
  <2>. QED BY <1>2, <1>6, <2>2, <2>3 DEF LiquidationPayment
<1>7. CASE u = broker /\ d > 0
  <2>1. a = ORN /\ d <= LiquidationReward(asset, amount)
    BY <1>3, <1>7 DEF Traded
  <2>2. CASE asset = ORN /\ assetBalances'[broker][ORN] >= 0
    BY <1>2, <1>7, <2>1, <2>2 DEF LiquidationPayment
  <2>3. CASE ~(asset = ORN /\ assetBalances'[broker][ORN] >= 0)
    <3>1. RedeemedValue(broker) = amount * assetPrices[asset].price
      BY <1>1, <1>2, <2>3, RedeemedIsPriced
    <3>2. LiquidationReward(asset, amount) * Unit * 255
             <= RedeemedValue(broker) * (255 + settings.liquidationPremium)
      BY <3>1, RewardBound
    <3>3. WealthChange(broker, ORN) = -d
      BY <1>4, <2>1
    <3>4. d * Unit * 255 <= RedeemedValue(broker) * (255 + settings.liquidationPremium)
      <4>. DEFINE r == LiquidationReward(asset, amount)
                  most == RedeemedValue(broker) * (255 + settings.liquidationPremium)
      <4>1. r \in Nat /\ d \in Int /\ Unit \in Nat /\ d <= r
        BY <1>3, <1>4, <2>1, UnitsPositive
      <4>2. most \in Int
        <5>1. assetPrices[asset].price \in Nat /\ settings.liquidationPremium \in Nat
          BY DEF IInv, TypeOK, OracleTypeOK, PriceDataOut, StorageTypeOK, Settings
        <5>. QED BY <3>1, <5>1
      <4>3. r * Unit * 255 <= most
        BY <3>2
      <4>. HIDE DEF r, d, most
      <4>4. (r - d) * Unit \in Nat
        BY <4>1, ProductNat
      <4>5. r * Unit * 255 = d * Unit * 255 + ((r - d) * Unit) * 255
        BY <4>1
      <4>6. d * Unit * 255 \in Int
        BY <4>1
      <4>7. d * Unit * 255 <= most
        BY <4>2, <4>3, <4>4, <4>5, <4>6
      <4>. QED BY <4>7 DEF most
    <3>5. -WealthChange(broker, ORN) * Unit * 255
             <= RedeemedValue(broker) * (255 + settings.liquidationPremium)
      <4>1. -((-d) * Unit * 255) = d * Unit * 255
        BY <1>4, UnitsPositive
      <4>. QED BY <3>3, <3>4, <4>1
    <3>. HIDE DEF d
    <3>. QED BY <1>2, <1>7, <2>1, <3>5, Zenon DEF LiquidationPayment
  <2>. QED BY <2>2, <2>3
<1>8. CASE ~(u = liquidator /\ d < 0) /\ ~(u = broker /\ d > 0)
  <2>. HIDE DEF d
  <2>. QED BY <1>4, <1>8
<1>. QED BY <1>6, <1>7, <1>8

-------------------------------------------------------------------------------
(* Every step. *)

LEMMA NextConsent ==
    ASSUME IInv, Next
    PROVE  ConsentKept
<1>1. IInv' /\ TypeOK
  BY NextInv DEF IInv
<1>2. CASE UNCHANGED <<assetBalances, stakingData, wallet, filledAmounts>>
  <2>1. \A u \in Users, a \in Assets : Wealth(u, a)' = Wealth(u, a)
    BY <1>2 DEF Wealth, Staked
  <2>. QED BY <1>1, <1>2, <2>1, NoChangeIsConsent
<1>3. CASE UserStep
  <2>1. PICK u \in Users :
           \/ \E a \in Assets : \E x \in DepositAmounts[u][a] : Deposit(u, a, x)
           \/ \E a \in Assets : \E x \in WithdrawAmounts[u][a] : Withdraw(u, a, x)
           \/ \E a \in Assets : \E x \in ApproveAmounts[u][a] : Approve(u, a, x)
           \/ \E x \in StakeAmounts[u] : LockStake(u, x)
           \/ RequestReleaseStake(u)
           \/ \E b \in Users, a \in Assets : \E x \in LiquidationAmounts[u][a] :
                 PartiallyLiquidate(u, b, a, x)
    BY <1>3 DEF UserStep
  <2>2. ASSUME NEW a \in Assets, NEW x \in DepositAmounts[u][a], Deposit(u, a, x)
        PROVE  ConsentKept
    <3>1. x \in Nat
      BY InputsNat
    <3>2. PICK L \in LedgerType : Commit(L) /\ Gives(Ledger, L, u, a, 0, 0)
      BY <2>2, <3>1, DepositGives
    <3>3. UNCHANGED <<stakingData, filledAmounts>>
      BY <2>2 DEF Deposit
    <3>. QED BY <3>2, <3>3, GivesConsent
  <2>3. ASSUME NEW a \in Assets, NEW x \in WithdrawAmounts[u][a], Withdraw(u, a, x)
        PROVE  ConsentKept
    <3>1. x \in Nat
      BY InputsNat
    <3>2. PICK L \in LedgerType : Commit(L) /\ Gives(Ledger, L, u, a, 0, BaseUnit[a] - 1)
      BY <2>3, <3>1, WithdrawGives
    <3>3. UNCHANGED <<stakingData, filledAmounts>>
      BY <2>3 DEF Withdraw
    <3>. QED BY <3>2, <3>3, GivesConsent
  <2>4. ASSUME NEW a \in Assets, NEW x \in ApproveAmounts[u][a], Approve(u, a, x)
        PROVE  ConsentKept
    BY <1>2, <2>4 DEF Approve
  <2>5. ASSUME NEW x \in StakeAmounts[u], LockStake(u, x)
        PROVE  ConsentKept
    BY <1>1, <2>5, InputsNat, StakeConsent
  <2>6. CASE RequestReleaseStake(u)
    <3>1. 0 \in Nat
      OBVIOUS
    <3>. QED BY <1>1, <2>6, <3>1, StakeConsent
  <2>7. ASSUME NEW b \in Users, NEW a \in Assets, NEW x \in LiquidationAmounts[u][a],
               PartiallyLiquidate(u, b, a, x)
        PROVE  ConsentKept
    BY <1>1, <2>7, InputsNat, LiquidationConsent
  <2>. QED BY <2>1, <2>2, <2>3, <2>4, <2>5, <2>6, <2>7
<1>4. CASE MatcherStep
  <2>1. PICK m \in Users, buy \in Orders, sell \in Orders, p \in FillPrices, x \in FillAmounts :
           FillOrders(m, buy, sell, p, x)
    BY <1>4 DEF MatcherStep
  <2>2. p \in Nat /\ x \in Nat
    BY ExchangeAssumption DEF ExchangeAssumption
  <2>. QED BY <2>1, <2>2, FillOrdersConsent
<1>5. CASE OracleStep
  BY <1>2, <1>5 DEF OracleStep, ledgerVars
<1>6. CASE OwnerStep
  <2>1. CASE \/ \E s \in SettingsChoices : UpdateMarginalSettings(s)
             \/ \E r \in RiskChoices : UpdateAssetRisks(r)
    BY <1>2, <2>1 DEF UpdateMarginalSettings, UpdateAssetRisks, ledgerVars
  <2>2. CASE \E u \in OwnerTargets : PostponeStakeRelease(u) \/ AllowStakeRelease(u)
    <3>1. PICK u \in OwnerTargets : PostponeStakeRelease(u) \/ AllowStakeRelease(u)
      BY <2>2
    <3>2. \E phase \in StakePhase : SetPhase(u, phase)
      BY <3>1 DEF PostponeStakeRelease, AllowStakeRelease, StakePhase
    <3>3. u \in Users /\ 0 \in Nat
      BY ExchangeAssumption DEF ExchangeAssumption
    <3>. QED BY <1>1, <3>2, <3>3, StakeConsent
  <2>. QED BY <1>6, <2>1, <2>2 DEF OwnerStep
<1>. QED BY <1>3, <1>4, <1>5, <1>6 DEF Next

(* Consent: over balance, wallet and stake together no step takes more from a user
   than the terms of the orders the user signed, for the amounts they are filled by;
   a liquidation takes the redeemed amount from the liquidator, and from a broker in
   a bad position no more than its price and the premium. *)
THEOREM OrdersAreHonoured == Spec => TermsHonoured
<1>1. IInv /\ [Next]_vars => [ConsentKept]_vars
  BY NextConsent
<1>2. ConsentKept => \A u \in Users, a \in Assets : BaseUnit[a] = Unit =>
         WealthChange(u, a) >= Due(u, a) \/ LiquidationPayment(u, a)
  BY DEF ConsentKept
<1>3. IInv /\ [Next]_vars =>
         [\A u \in Users, a \in Assets : BaseUnit[a] = Unit =>
             WealthChange(u, a) >= Due(u, a) \/ LiquidationPayment(u, a)]_vars
  BY <1>1, <1>2
<1>. QED BY <1>3, Invariance, PTL DEF Spec, TermsHonoured

-------------------------------------------------------------------------------
(***************************************************************************)
(* The pool as the counterparty.  A swap takes no more and brings no less  *)
(* than the limits it was asked with; what it paid and brought is settled  *)
(* to the user it was made for; and the limits, asked by an order or by a  *)
(* request, are its terms.                                                 *)
(***************************************************************************)

(* What a wallet pays or gets, when the exchange does not in its place. *)
ByWallet(byExchange, amount) == IF byExchange THEN 0 ELSE amount

LEMMA PayOwn ==
    ASSUME NEW L \in LedgerType, NEW user \in Users, NEW asset \in Assets, NEW base \in Nat,
           NEW fromExchange \in BOOLEAN, CanPay(L, user, fromExchange, asset, base),
           NEW u \in Users, NEW a \in Assets
    PROVE  Own(Pay(L, user, fromExchange, asset, base), u, a)
              = Own(L, u, a) - Part(user, asset, ByWallet(fromExchange, base), u, a)
<1>. DEFINE M == Pay(L, user, fromExchange, asset, base)
<1>1. Own(L, u, a) \in Int /\ L.assetBalances[u][a] \in Int /\ L.wallet[u][a] \in Int
  BY OwnInt
<1>2. M.assetBalances = L.assetBalances
  BY PayFields DEF OnlyTokens
<1>3. CASE fromExchange
  <2>1. M.wallet = L.wallet
    BY <1>3 DEF Pay, LedgerType
  <2>2. ByWallet(fromExchange, base) = 0
    BY <1>3 DEF ByWallet
  <2>. HIDE DEF M
  <2>3. Own(M, u, a) = Own(L, u, a) - Part(user, asset, ByWallet(fromExchange, base), u, a)
    BY <1>1, <1>2, <2>1, <2>2 DEF Own, Part
  <2>. QED BY <2>3 DEF M
<1>4. CASE ~fromExchange
  <2>1. M.wallet = [L.wallet EXCEPT ![user] =
           [L.wallet[user] EXCEPT ![asset] = L.wallet[user][asset] - base]]
    BY <1>4 DEF Pay, LedgerType
  <2>2. ByWallet(fromExchange, base) = base
    BY <1>4 DEF ByWallet
  <2>. HIDE DEF M
  <2>3. L.wallet \in [Users -> [Assets -> Nat]]
    BY DEF LedgerType
  <2>4. M.wallet[u][a] = L.wallet[u][a] - Part(user, asset, base, u, a)
    BY <1>1, <2>1, <2>3 DEF Part
  <2>5. Part(user, asset, base, u, a) \in Int
    BY DEF Part
  <2>6. Own(M, u, a) = Own(L, u, a) - Part(user, asset, ByWallet(fromExchange, base), u, a)
    BY <1>1, <1>2, <2>2, <2>4, <2>5 DEF Own
  <2>. QED BY <2>6 DEF M
<1>. QED BY <1>3, <1>4

LEMMA CollectOwn ==
    ASSUME NEW L \in LedgerType, NEW user \in Users, NEW asset \in Assets, NEW base \in Nat,
           NEW toExchange \in BOOLEAN, NEW u \in Users, NEW a \in Assets
    PROVE  Own(Collect(L, user, toExchange, asset, base), u, a)
              = Own(L, u, a) + Part(user, asset, ByWallet(toExchange, base), u, a)
<1>. DEFINE M == Collect(L, user, toExchange, asset, base)
<1>1. Own(L, u, a) \in Int /\ L.assetBalances[u][a] \in Int /\ L.wallet[u][a] \in Int
  BY OwnInt
<1>2. M.assetBalances = L.assetBalances
  BY CollectFields DEF OnlyTokens
<1>3. CASE toExchange
  <2>1. M.wallet = L.wallet
    BY <1>3 DEF Collect, LedgerType
  <2>2. ByWallet(toExchange, base) = 0
    BY <1>3 DEF ByWallet
  <2>. HIDE DEF M
  <2>3. Own(M, u, a) = Own(L, u, a) + Part(user, asset, ByWallet(toExchange, base), u, a)
    BY <1>1, <1>2, <2>1, <2>2 DEF Own, Part
  <2>. QED BY <2>3 DEF M
<1>4. CASE ~toExchange
  <2>1. M.wallet = [L.wallet EXCEPT ![user] =
           [L.wallet[user] EXCEPT ![asset] = L.wallet[user][asset] + base]]
    BY <1>4 DEF Collect, LedgerType
  <2>2. ByWallet(toExchange, base) = base
    BY <1>4 DEF ByWallet
  <2>. HIDE DEF M
  <2>3. L.wallet \in [Users -> [Assets -> Nat]]
    BY DEF LedgerType
  <2>4. M.wallet[u][a] = L.wallet[u][a] + Part(user, asset, base, u, a)
    BY <1>1, <2>1, <2>3 DEF Part
  <2>5. Part(user, asset, base, u, a) \in Int
    BY DEF Part
  <2>6. Own(M, u, a) = Own(L, u, a) + Part(user, asset, ByWallet(toExchange, base), u, a)
    BY <1>1, <1>2, <2>2, <2>4, <2>5 DEF Own
  <2>. QED BY <2>6 DEF M
<1>. QED BY <1>3, <1>4

(* What a swap brings each user, where nothing is rounded. *)
Brought(swap, user, path, fromExchange, toExchange, u, a) ==
    Part(user, Last(path), ByWallet(toExchange, swap.amountIn), u, a)
    - Part(user, First(path), ByWallet(fromExchange, swap.amountOut), u, a)

LEMMA SwapEarns ==
    ASSUME NEW L \in LedgerType, NEW user \in Users, NEW path \in Paths,
           NEW spend, NEW receive, NEW exact,
           NEW fromExchange \in BOOLEAN, NEW toExchange \in BOOLEAN, NEW swap,
           swap = doSwapThroughOrionPool(L, user, fromExchange, spend, receive, path, exact,
                                         toExchange),
           swap.ok, NEW u \in Users, NEW a \in Assets, BaseUnit[a] = Unit
    PROVE  /\ Brought(swap, user, path, fromExchange, toExchange, u, a) \in Int
           /\ Earns(L, swap.ledger, u, a,
                    Brought(swap, user, path, fromExchange, toExchange, u, a))
<1>. DEFINE amounts == Quote(spend, receive, path, exact)
            paid == amounts[1]
            received == amounts[Len(path)]
            payed == Pay(L, user, fromExchange, First(path), paid)
            final == Collect(payed, user, toExchange, Last(path), received)
            out == Part(user, First(path), ByWallet(fromExchange, paid), u, a)
            in == Part(user, Last(path), ByWallet(toExchange, received), u, a)
<1>1. /\ \A i \in DOMAIN path : amounts[i] \in Nat \ {0}
      /\ CanPay(L, user, fromExchange, First(path), paid)
      /\ swap.ledger = final
      /\ swap.amountOut = BaseUnitToDecimal(First(path), paid)
      /\ swap.amountIn = BaseUnitToDecimal(Last(path), received)
  BY DEF doSwapThroughOrionPool
<1>2. /\ paid \in Nat /\ received \in Nat
      /\ First(path) \in Assets /\ Last(path) \in Assets
  BY <1>1, PathEnds
<1>. HIDE DEF amounts, paid, received
<1>3. payed \in LedgerType
  BY <1>1, <1>2, PayFields DEF OnlyTokens
<1>4. Own(payed, u, a) = Own(L, u, a) - out
  BY <1>1, <1>2, PayOwn
<1>. HIDE DEF payed
<1>5. Own(final, u, a) = Own(payed, u, a) + in
  BY <1>2, <1>3, CollectOwn
<1>6. in \in Int /\ out \in Int /\ Own(L, u, a) \in Int
  BY <1>2, OwnInt DEF Part, ByWallet
<1>7. /\ First(path) = a => swap.amountOut = paid
      /\ Last(path) = a => swap.amountIn = received
  BY <1>1, <1>2, ToDecimal
<1>8. Brought(swap, user, path, fromExchange, toExchange, u, a) = in - out
  BY <1>7 DEF Brought, Part, ByWallet
<1>. HIDE DEF in, out, final
<1>9. Own(final, u, a) = Own(L, u, a) + (in - out)
  BY <1>4, <1>5, <1>6
<1>. QED BY <1>1, <1>6, <1>8, <1>9 DEF Earns

(* The fee is taken from the sender and from nobody else. *)
LEMMA PayFeeEarns ==
    ASSUME NEW L, LedgerOK(L), NEW order \in OrderType, NEW fee \in Nat, now \in Nat,
           NEW u \in Users, NEW a \in Assets, BaseUnit[a] = Unit
    PROVE  Earns(L, _payMatcherFee(L, order, fee), u, a,
                 -Part(order.senderAddress, order.matcherFeeAsset, fee, u, a))
<1>. DEFINE user == order.senderAddress
            matcher == order.matcherAddress
            asset == order.matcherFeeAsset
            minus == -fee
            charged == _updateBalance(L, user, asset, minus).ledger
            M == _updateBalance(charged, matcher, asset, fee).ledger
            p == Part(user, asset, minus, u, a)
            q == Part(matcher, asset, fee, u, a)
<1>1. /\ user \in Users /\ matcher \in Users /\ asset \in Assets
      /\ minus \in Int /\ fee \in Int
  BY DEF OrderType
<1>2. /\ p \in Int /\ q \in Int /\ q >= 0
      /\ p = -Part(user, asset, fee, u, a)
  BY DEF Part
<1>3. M = _payMatcherFee(L, order, fee)
  BY DEF _payMatcherFee
<1>. HIDE DEF user, matcher, asset, minus, p, q
<1>4. LedgerOK(charged) /\ Gives(L, charged, user, asset, minus, Pulled(minus))
  BY <1>1, UpdateBalanceOK, UpdateBalanceGives
<1>. HIDE DEF charged
<1>5. LedgerOK(M) /\ Gives(charged, M, matcher, asset, fee, Pulled(fee))
  BY <1>1, <1>4, UpdateBalanceOK, UpdateBalanceGives
<1>. HIDE DEF M
<1>6. L \in LedgerType /\ charged \in LedgerType /\ M \in LedgerType
  BY <1>4, <1>5 DEF LedgerOK
<1>7. Earns(L, charged, u, a, p) /\ Earns(charged, M, u, a, q)
  BY <1>1, <1>4, <1>5, <1>6, GivesEarns DEF p, q
<1>8. Earns(L, M, u, a, p + q)
  BY <1>2, <1>6, <1>7, EarnsChain
<1>9. Own(L, u, a) \in Int /\ Own(M, u, a) \in Int
  BY <1>6, OwnInt
<1>10. Earns(L, M, u, a, p)
  BY <1>2, <1>8, <1>9 DEF Earns
<1>. QED BY <1>2, <1>3, <1>10 DEF user, asset

LEMMA EarnsWeaker ==
    ASSUME NEW L \in LedgerType, NEW M \in LedgerType, NEW u \in Users, NEW a \in Assets,
           NEW x \in Int, NEW y \in Int, Earns(L, M, u, a, x), x >= y
    PROVE  Earns(L, M, u, a, y)
<1>1. Own(L, u, a) \in Int /\ Own(M, u, a) \in Int
  BY OwnInt
<1>. QED BY <1>1 DEF Earns

(* A swap that is settled brings each user what the order exchanges. *)
LEMMA SettleSwapEarns ==
    ASSUME NEW L \in LedgerType, NEW swap, LedgerOK(swap.ledger),
           swap.amountOut \in Nat, swap.amountIn \in Nat, now \in Nat,
           NEW path \in Paths, NEW order \in OrderType, NEW isSeller \in BOOLEAN,
           NEW inContract \in BOOLEAN, NEW retained \in BOOLEAN,
           retained <=> inContract \/ RetainsFee(order, inContract, path),
           OutAsset(order, isSeller) = First(path), InAsset(order, isSeller) = Last(path),
           NEW filledBase \in Nat, NEW filledQuote \in Nat, filledBase > 0,
           isSeller => filledBase = swap.amountOut /\ filledQuote = swap.amountIn,
           ~isSeller => filledBase = swap.amountIn /\ filledQuote = swap.amountOut,
           NEW u \in Users, NEW a \in Assets, BaseUnit[a] = Unit,
           NEW x \in Int, x = Brought(swap, order.senderAddress, path, inContract, retained, u, a),
           Earns(L, swap.ledger, u, a, x)
    PROVE  Earns(L, SettleSwap(swap, order, isSeller, inContract, filledBase, filledQuote, path),
                 u, a, Gain(order, isSeller, swap.amountOut, swap.amountIn, order.matcherFee, u, a))
<1>. DEFINE user == order.senderAddress
            fee == order.matcherFee
            D == updateOrderBalanceDebit(swap.ledger, order, isSeller,
                     filledBase, filledQuote, fee)
            feePaid == _payMatcherFee(swap.ledger, order, fee)
            M == SettleSwap(swap, order, isSeller, inContract, filledBase, filledQuote, path)
            gain == Gain(order, isSeller, swap.amountOut, swap.amountIn, fee, u, a)
            in == Part(user, Last(path), swap.amountIn, u, a)
            out == Part(user, First(path), swap.amountOut, u, a)
            paidFee == Part(user, order.matcherFeeAsset, fee, u, a)
<1>1. /\ user \in Users /\ fee \in Nat /\ Last(path) \in Assets
      /\ swap.ledger \in LedgerType
  BY PathEnds DEF OrderType, LedgerOK
<1>2. M = IF inContract
          THEN creditUserAssets(D.ledger, D.fromWallet, user, D.actualIn, Last(path))
          ELSE IF RetainsFee(order, inContract, path)
          THEN creditUserAssets(feePaid, TRUE, user, swap.amountIn, Last(path))
          ELSE feePaid
  BY DEF SettleSwap
<1>3. in \in Int /\ out \in Int /\ paidFee \in Int /\ gain = in - out - paidFee
  <2>1. in \in Int /\ out \in Int /\ paidFee \in Int
    BY <1>1 DEF Part
  <2>2. gain = in - out - paidFee
    BY Zenon DEF Gain
  <2>. QED BY <2>1, <2>2
<1>4. CASE inContract
  <2>1. x = 0
    BY <1>4 DEF Brought, ByWallet, Part
  <2>2. LedgerOK(D.ledger) /\ D.actualIn \in Int
    BY <1>1, DebitOK
  <2>3. Earned(swap.ledger, order, isSeller, filledBase, filledQuote, fee, u, a)
    <3>. HIDE DEF fee
    <3>1. filledBase # 0
      OBVIOUS
    <3>. QED BY <1>1, <3>1, DebitEarns
  <2>. DEFINE y == Part(user, Last(path), D.actualIn, u, a)
  <2>4. PICK z \in Int : Earns(swap.ledger, D.ledger, u, a, z) /\ z + y >= gain
    <3>1. (IF isSeller THEN filledBase ELSE filledQuote) = swap.amountOut
          /\ (IF isSeller THEN filledQuote ELSE filledBase) = swap.amountIn
      OBVIOUS
    <3>. HIDE DEF fee, user
    <3>2. \E z \in Int :
             /\ Earns(swap.ledger, D.ledger, u, a, z)
             /\ z + Part(order.senderAddress, Last(path), D.actualIn, u, a)
                   >= Gain(order, isSeller, swap.amountOut, swap.amountIn, fee, u, a)
      BY <2>3, <3>1 DEF Earned
    <3>. QED BY <3>2 DEF user
  <2>5. M = creditUserAssets(D.ledger, D.fromWallet, user, D.actualIn, Last(path))
    BY <1>2, <1>4
  <2>. HIDE DEF D, M, user, gain, in, out, paidFee
  <2>6. LedgerOK(M) /\ Earns(D.ledger, M, u, a, y)
    BY <1>1, <2>2, <2>5, CreditOK, CreditEarns
  <2>7. D.ledger \in LedgerType /\ M \in LedgerType
    BY <2>2, <2>6 DEF LedgerOK
  <2>8. y \in Int /\ gain \in Int
    BY <1>3, <2>2 DEF Part
  <2>. HIDE DEF y
  <2>9. Earns(L, D.ledger, u, a, x + z)
    BY <1>1, <2>4, <2>7, EarnsChain
  <2>10. x + z \in Int /\ (x + z) + y \in Int /\ (x + z) + y >= gain
    BY <2>1, <2>4, <2>8
  <2>11. Earns(L, M, u, a, (x + z) + y)
    BY <2>6, <2>7, <2>8, <2>9, <2>10, EarnsChain
  <2>12. Earns(L, M, u, a, gain)
    BY <2>7, <2>8, <2>10, <2>11, EarnsWeaker
  <2>. QED BY <2>12 DEF M, gain
<1>5. CASE ~inContract
  <2>1. LedgerOK(feePaid)
    BY <1>1, PayFeeOK
  <2>2. Earns(swap.ledger, feePaid, u, a, -paidFee)
    <3>. HIDE DEF fee
    <3>. QED BY <1>1, PayFeeEarns
  <2>3. feePaid \in LedgerType
    BY <2>1 DEF LedgerOK
  <2>4. -paidFee \in Int
    BY <1>3
  <2>. HIDE DEF feePaid, paidFee
  <2>5. Earns(L, feePaid, u, a, x + (-paidFee))
    BY <1>1, <2>2, <2>3, <2>4, EarnsChain
  <2>6. CASE RetainsFee(order, inContract, path)
    <3>1. M = creditUserAssets(feePaid, TRUE, user, swap.amountIn, Last(path))
      BY <1>2, <1>5, <2>6
    <3>2. x + out = 0
      <4>1. retained
        BY <2>6
      <4>2. x = 0 - out
        BY <1>5, <4>1 DEF Brought, ByWallet, Part
      <4>. QED BY <1>3, <4>2
    <3>. HIDE DEF M, user, in, out, gain
    <3>3. LedgerOK(M) /\ Earns(feePaid, M, u, a, in)
      <4>1. swap.amountIn \in Int
        OBVIOUS
      <4>. QED BY <1>1, <2>1, <3>1, <4>1, CreditOK, CreditEarns DEF in
    <3>4. M \in LedgerType /\ x + (-paidFee) \in Int
      BY <1>3, <3>3 DEF LedgerOK
    <3>5. Earns(L, M, u, a, (x + (-paidFee)) + in)
      BY <1>3, <2>3, <2>5, <3>3, <3>4, EarnsChain
    <3>6. (x + (-paidFee)) + in = gain
      BY <1>3, <3>2
    <3>. QED BY <3>5, <3>6 DEF M, gain
  <2>7. CASE ~RetainsFee(order, inContract, path)
    <3>1. M = feePaid
      BY <1>2, <1>5, <2>7
    <3>2. x = in - out
      <4>1. ~retained
        BY <1>5, <2>7
      <4>. QED BY <1>5, <4>1 DEF Brought, ByWallet
    <3>. HIDE DEF M, in, out, gain
    <3>3. x + (-paidFee) = gain
      BY <1>3, <3>2
    <3>. QED BY <2>5, <3>1, <3>3 DEF M, gain
  <2>. QED BY <2>6, <2>7
<1>. QED BY <1>4, <1>5

-------------------------------------------------------------------------------
(* What a swap pays and brings is within the limits it was asked with. *)

InBefore(pairs, amountOut, path, length, i, next) ==
    IF i = length THEN amountOut
    ELSE getAmountIn(next, pairs[PairOf(path, i)][path[i]], pairs[PairOf(path, i)][path[i + 1]])

InsFrom(pairs, amountOut, path, length, first, g) ==
    g = [i \in first .. length |-> InBefore(pairs, amountOut, path, length, i, g[i + 1])]

(* The quotes backwards along a path have a solution as well, and end with what is
   paid out. *)
LEMMA QuotesEndWithOutput ==
    ASSUME NEW pairs, NEW amountOut, NEW path, Len(path) \in Nat \ {0},
           DOMAIN path = 1 .. Len(path)
    PROVE  getAmountsIn(pairs, amountOut, path)[Len(path)] = amountOut
<1>. DEFINE length == Len(path)
            T == {n \in Nat : \E g : InsFrom(pairs, amountOut, path, length, length - n, g)}
<1>0. length \in Nat \ {0} /\ DOMAIN path = 1 .. length
  OBVIOUS
<1>1. 0 \in T
  <2>. DEFINE h == [i \in length - 0 .. length |-> amountOut]
  <2>2. ASSUME NEW i \in length - 0 .. length
        PROVE  InBefore(pairs, amountOut, path, length, i, h[i + 1]) = amountOut
    <3>. HIDE DEF length, h
    <3>1. i = length
      BY <1>0
    <3>. QED BY <3>1 DEF InBefore
  <2>3. InsFrom(pairs, amountOut, path, length, length - 0, h)
    <3>. HIDE DEF length
    <3>. QED BY <2>2 DEF InsFrom
  <2>. HIDE DEF h, length
  <2>. QED BY <2>3
<1>2. ASSUME NEW n \in T PROVE n + 1 \in T
  <2>1. PICK g : InsFrom(pairs, amountOut, path, length, length - n, g)
    OBVIOUS
  <2>. HIDE DEF length
  <2>. DEFINE first == length - (n + 1)
              h == [i \in first .. length |->
                       InBefore(pairs, amountOut, path, length, i, g[i + 1])]
  <2>2. n \in Nat /\ first \in Int /\ first + 1 = length - n
    BY <1>0
  <2>3. \A i \in length - n .. length : h[i] = g[i]
    <3>1. \A i \in length - n .. length : i \in first .. length
      BY <1>0, <2>2
    <3>. QED BY <2>1, <3>1 DEF InsFrom
  <2>4. ASSUME NEW i \in first .. length
        PROVE  InBefore(pairs, amountOut, path, length, i, g[i + 1])
                  = InBefore(pairs, amountOut, path, length, i, h[i + 1])
    <3>1. CASE i = length
      BY <3>1 DEF InBefore
    <3>2. CASE i # length
      <4>1. i + 1 \in length - n .. length
        BY <1>0, <2>2, <3>2
      <4>. QED BY <2>3, <4>1
    <3>. QED BY <3>1, <3>2
  <2>5. InsFrom(pairs, amountOut, path, length, first, h)
    BY <2>4 DEF InsFrom
  <2>. HIDE DEF h
  <2>. QED BY <2>2, <2>5
<1>3. length - 1 \in T
  <2>1. length - 1 \in Nat
    BY <1>0
  <2>. HIDE DEF T, length
  <2>2. T \in SUBSET Nat
    BY DEF T
  <2>. QED BY <1>1, <1>2, <2>1, <2>2, Induction
<1>. DEFINE quotes == CHOOSE g : InsFrom(pairs, amountOut, path, length, 1, g)
<1>4. InsFrom(pairs, amountOut, path, length, 1, quotes)
  <2>1. length - (length - 1) = 1
    BY <1>0
  <2>. HIDE DEF length
  <2>2. PICK g : InsFrom(pairs, amountOut, path, length, 1, g)
    BY <1>3, <2>1
  <2>. QED BY <2>2
<1>5. getAmountsIn(pairs, amountOut, path) = quotes
  BY DEF getAmountsIn, InsFrom, InBefore
<1>. HIDE DEF quotes, length
<1>6. quotes[length] = InBefore(pairs, amountOut, path, length, length, quotes[length + 1])
  <2>1. length \in 1 .. length
    BY <1>0
  <2>. QED BY <1>4, <2>1 DEF InsFrom
<1>. QED BY <1>5, <1>6 DEF InBefore, length

LEMMA SwapLimits ==
    ASSUME NEW L, NEW user, NEW path \in Paths, NEW fromExchange, NEW toExchange,
           NEW spend \in Nat, NEW receive \in Nat, NEW exact \in BOOLEAN, NEW swap,
           swap = doSwapThroughOrionPool(L, user, fromExchange, spend, receive, path, exact,
                                         toExchange),
           swap.ok
    PROVE  /\ swap.amountOut \in Nat /\ swap.amountIn \in Nat
           /\ BaseUnit[First(path)] = Unit => swap.amountOut <= spend
           /\ BaseUnit[Last(path)] = Unit => swap.amountIn >= receive
<1>. DEFINE amounts == Quote(spend, receive, path, exact)
            paid == amounts[1]
            received == amounts[Len(path)]
            offered == DecimalToBaseUnit(First(path), spend)
            asked == DecimalToBaseUnit(Last(path), receive)
<1>1. /\ \A i \in DOMAIN path : amounts[i] \in Nat \ {0}
      /\ WithinLimits(amounts, spend, receive, path, exact)
      /\ swap.amountOut = BaseUnitToDecimal(First(path), paid)
      /\ swap.amountIn = BaseUnitToDecimal(Last(path), received)
  BY DEF doSwapThroughOrionPool
<1>2. /\ paid \in Nat /\ received \in Nat
      /\ First(path) \in Assets /\ Last(path) \in Assets
  BY <1>1, PathEnds
<1>3. Len(path) \in Nat \ {0} /\ DOMAIN path = 1 .. Len(path)
  BY PoolAssumption, LenProperties DEF PoolAssumption
<1>4. /\ offered \in Nat /\ (BaseUnit[First(path)] = Unit => offered = spend)
      /\ asked \in Nat /\ (BaseUnit[Last(path)] = Unit => asked = receive)
  BY <1>2, ToBaseUnit
<1>5. paid <= offered /\ received >= asked
  <2>1. CASE exact
    <3>1. amounts = getAmountsOut(reserves, offered, path) /\ received >= asked
      BY <1>1, <2>1 DEF Quote, WithinLimits
    <3>. HIDE DEF amounts, offered, asked
    <3>2. paid = offered
      BY <1>3, <3>1, QuotesStartWithInput
    <3>. QED BY <1>4, <3>1, <3>2
  <2>2. CASE ~exact
    <3>1. amounts = getAmountsIn(reserves, asked, path) /\ paid <= offered
      BY <1>1, <2>2 DEF Quote, WithinLimits
    <3>. HIDE DEF amounts, offered, asked
    <3>2. received = asked
      BY <1>3, <3>1, QuotesEndWithOutput
    <3>. QED BY <1>4, <3>1, <3>2
  <2>. QED BY <2>1, <2>2
<1>. HIDE DEF amounts, paid, received, offered, asked
<1>6. /\ swap.amountOut \in Nat /\ swap.amountIn \in Nat
      /\ BaseUnit[First(path)] = Unit => swap.amountOut = paid
      /\ BaseUnit[Last(path)] = Unit => swap.amountIn = received
  BY <1>1, <1>2, ToDecimal
<1>. QED BY <1>4, <1>5, <1>6

(* The first pair of the path keeps what is paid in. *)
LEMMA SwapMovesReserves ==
    ASSUME reserves \in ReservesType, NEW L, NEW user, NEW path \in Paths,
           NEW fromExchange, NEW toExchange, NEW spend, NEW receive, NEW exact, NEW swap,
           swap = doSwapThroughOrionPool(L, user, fromExchange, spend, receive, path, exact,
                                         toExchange),
           swap.ok
    PROVE  swap.reserves # reserves
<1>. DEFINE amounts == Quote(spend, receive, path, exact)
            pool == PairOf(path, 1)
            hops == {i \in 1 .. Len(path) - 1 : PairOf(path, i) = pool}
            asset == path[1]
<1>1. /\ \A i \in DOMAIN path : amounts[i] \in Nat \ {0}
      /\ swap.reserves = Swapped(amounts, path)
  BY DEF doSwapThroughOrionPool
<1>2. amounts[1] \in Nat \ {0} /\ asset \in Assets
  BY <1>1, PathEnds DEF First
<1>3. /\ Len(path) \in Nat /\ Len(path) >= 2
      /\ \A i \in 1 .. Len(path) - 1 :
            /\ path[i] # path[i + 1] /\ PairOf(path, i) \in Pools
            /\ \A j \in 1 .. i - 1 : PairOf(path, i) # PairOf(path, j)
  BY PoolAssumption, LenProperties DEF PoolAssumption
<1>4. asset # path[1 + 1] /\ pool \in Pools /\ 1 \in 1 .. Len(path) - 1
  <2>1. 1 \in 1 .. Len(path) - 1
    BY <1>3
  <2>. QED BY <1>3, <2>1
<1>5. hops = {1}
  <2>1. ASSUME NEW i \in 1 .. Len(path) - 1, i # 1 PROVE PairOf(path, i) # pool
    <3>1. 1 \in 1 .. i - 1
      BY <1>3, <2>1
    <3>. QED BY <1>3, <3>1
  <2>. QED BY <1>4, <2>1
<1>6. (CHOOSE i \in hops : TRUE) = 1
  BY <1>5
<1>7. reserves[pool][asset] \in Nat
  BY <1>2, <1>4 DEF ReservesType
<1>. HIDE DEF amounts
<1>8. Swapped(amounts, path)[pool][asset]
         = reserves[pool][asset] + amounts[1] - 0
  BY <1>2, <1>4, <1>5, <1>6 DEF Swapped
<1>9. Swapped(amounts, path)[pool][asset] # reserves[pool][asset]
  BY <1>2, <1>7, <1>8
<1>. QED BY <1>1, <1>9

-------------------------------------------------------------------------------
(* What an order grants for a fill through the pool. *)

LEMMA PoolTermsWithinGain ==
    ASSUME NEW order \in OrderType, order.buySide \in {kSell, kBuy},
           NEW isSeller \in BOOLEAN, isSeller <=> order.buySide = kSell,
           NEW amountOut \in Nat, NEW amountIn \in Nat, NEW d \in Nat, NEW limit \in Nat,
           limit = (d * order.price) \div Unit, NEW a,
           isSeller => d = amountOut /\ amountIn >= limit,
           ~isSeller => d = amountIn /\ (a = order.quoteAsset => amountOut <= limit),
           NEW fee \in Nat, fee <= order.matcherFee
    PROVE  PoolTerms(order, d, a)
              <= Gain(order, isSeller, amountOut, amountIn, fee, order.senderAddress, a)
<1>. DEFINE most == IF a = order.matcherFeeAsset THEN order.matcherFee ELSE 0
            charged == IF a = order.matcherFeeAsset THEN fee ELSE 0
<1>1. most \in Int /\ charged \in Int /\ charged <= most
  BY DEF OrderType
<1>2. CASE isSeller
  <2>. DEFINE out == IF a = order.baseAsset THEN d ELSE 0
              least == IF a = order.quoteAsset THEN limit ELSE 0
              in == IF a = order.quoteAsset THEN amountIn ELSE 0
  <2>1. order.buySide # kBuy
    <3>1. order.buySide = kSell
      BY <1>2
    <3>. QED BY <3>1 DEF kSell, kBuy
  <2>2. PoolTerms(order, d, a) = (IF a = order.baseAsset THEN (-1) * d ELSE 0)
                                 - (IF a = order.quoteAsset THEN (-1) * limit ELSE 0)
                                 - most
    BY <2>1, Zenon DEF PoolTerms
  <2>3. (-1) * d = -d /\ (-1) * limit = -limit
    OBVIOUS
  <2>4. PoolTerms(order, d, a) = least - out - most
    <3>. HIDE DEF most
    <3>. QED BY <1>1, <2>2, <2>3
  <2>5. InAsset(order, isSeller) = order.quoteAsset /\ OutAsset(order, isSeller) = order.baseAsset
    BY <1>2 DEF InAsset, OutAsset
  <2>6. Gain(order, isSeller, amountOut, amountIn, fee, order.senderAddress, a)
           = in - out - charged
    BY <1>2, <2>5 DEF Gain, Part
  <2>7. out \in Int /\ least \in Int /\ in \in Int /\ least <= in
    BY <1>2
  <2>. HIDE DEF out, least, in, most, charged
  <2>8. least - out - most <= in - out - charged
    BY <1>1, <2>7
  <2>. QED BY <2>4, <2>6, <2>8, Zenon
<1>3. CASE ~isSeller
  <2>. DEFINE in == IF a = order.baseAsset THEN d ELSE 0
              greatest == IF a = order.quoteAsset THEN limit ELSE 0
              out == IF a = order.quoteAsset THEN amountOut ELSE 0
  <2>1. order.buySide = kBuy
    BY <1>3
  <2>2. PoolTerms(order, d, a) = (IF a = order.baseAsset THEN 1 * d ELSE 0)
                                 - (IF a = order.quoteAsset THEN 1 * limit ELSE 0)
                                 - most
    BY <2>1, Zenon DEF PoolTerms
  <2>3. 1 * d = d /\ 1 * limit = limit
    OBVIOUS
  <2>4. PoolTerms(order, d, a) = in - greatest - most
    <3>. HIDE DEF most
    <3>. QED BY <1>1, <2>2, <2>3
  <2>5. InAsset(order, isSeller) = order.baseAsset /\ OutAsset(order, isSeller) = order.quoteAsset
    BY <1>3 DEF InAsset, OutAsset
  <2>6. Gain(order, isSeller, amountOut, amountIn, fee, order.senderAddress, a)
           = in - out - charged
    BY <1>3, <2>5 DEF Gain, Part
  <2>7. in \in Int /\ greatest \in Int /\ out \in Int /\ out <= greatest
    BY <1>3
  <2>. HIDE DEF in, greatest, out, most, charged
  <2>8. in - greatest - most <= in - out - charged
    BY <1>1, <2>7
  <2>. QED BY <2>4, <2>6, <2>8, Zenon
<1>. QED BY <1>2, <1>3

(* A sale at the price of the order, or better, brings what the order asks. *)
LEMMA PriceOfSale ==
    ASSUME NEW filledBase \in Nat \ {0}, NEW filledQuote \in Nat, NEW price \in Nat,
           (filledQuote * Unit) \div filledBase >= price
    PROVE  filledQuote >= (filledBase * price) \div Unit
<1>. DEFINE q == (filledQuote * Unit) \div filledBase
            r == (filledBase * price) \div Unit
<1>1. Unit \in Nat \ {0}
  BY UnitsPositive
<1>2. filledQuote * Unit \in Nat /\ filledBase * price \in Nat
  BY <1>1, ProductNat
<1>3. q \in Nat /\ q * filledBase <= filledQuote * Unit
  BY <1>2, DivNat, DivBounds
<1>4. r \in Nat /\ r * Unit <= filledBase * price
  BY <1>1, <1>2, DivNat, DivBounds
<1>. HIDE DEF q, r
<1>5. q - price \in Nat
  BY <1>3 DEF q
<1>6. (q - price) * filledBase \in Nat
  BY <1>5, ProductNat
<1>7. q * filledBase = filledBase * price + (q - price) * filledBase
  BY <1>3
<1>8. r * Unit <= filledQuote * Unit
  <2>1. r * Unit \in Nat /\ q * filledBase \in Nat
    BY <1>1, <1>3, <1>4, ProductNat
  <2>. QED BY <1>2, <1>3, <1>4, <1>6, <1>7, <2>1
<1>9. r <= filledQuote
  BY <1>1, <1>4, <1>8, Cancel
<1>. QED BY <1>4, <1>9 DEF r

(* The fills of an order grow by what is recorded under one of its hashes. *)
LEMMA FilledTotalMoves ==
    ASSUME filledAmounts \in [OrderHashes -> Nat], NEW order \in Orders,
           NEW fee \in 0 .. order.matcherFee, NEW filled \in Nat,
           filledAmounts' = [filledAmounts EXCEPT ![<<order.nonce, fee>>] =
                                filledAmounts[<<order.nonce, fee>>] + filled]
    PROVE  FilledTotal(order)' - FilledTotal(order) = filled
<1>. DEFINE S == 0 .. order.matcherFee
            f == [x \in S |-> filledAmounts[<<order.nonce, x>>]]
            g == [x \in S |-> filledAmounts'[<<order.nonce, x>>]]
<1>1. order.matcherFee \in Nat
  BY StorageAssumption DEF StorageAssumption, OrderType
<1>2. IsFiniteSet(S)
  BY <1>1, FS_Interval
<1>3. \A x \in S : <<order.nonce, x>> \in OrderHashes
  BY DEF OrderHashes
<1>4. /\ \A x \in S : filledAmounts[<<order.nonce, x>>] \in Nat
      /\ \A x \in S \ {fee} :
            filledAmounts'[<<order.nonce, x>>] = filledAmounts[<<order.nonce, x>>]
      /\ filledAmounts'[<<order.nonce, fee>>] = filledAmounts[<<order.nonce, fee>>] + filled
  <2>. HIDE DEF S
  <2>1. \A x \in S \ {fee} : <<order.nonce, x>> # <<order.nonce, fee>>
    OBVIOUS
  <2>2. fee \in S
    BY DEF S
  <2>. QED BY <1>3, <2>1, <2>2
<1>. HIDE DEF S
<1>5. fee \in S
  BY DEF S
<1>6. /\ \A x \in S : f[x] \in Int /\ g[x] \in Int
      /\ \A x \in S \ {fee} : g[x] = f[x]
      /\ g[fee] = f[fee] + filled
  BY <1>4, <1>5
<1>7. FilledTotal(order) = SumFunctionOnSet(f, S) /\ FilledTotal(order)' = SumFunctionOnSet(g, S)
  BY DEF FilledTotal, SumFunction, S
<1>. HIDE DEF f, g
<1>8. SumFunctionOnSet(g, S) = SumFunctionOnSet(f, S) + (IF fee \in S THEN g[fee] - f[fee] ELSE 0)
  BY <1>2, <1>6, SumChange
<1>9. SumFunctionOnSet(f, S) \in Int /\ f[fee] \in Int
  BY <1>2, <1>5, <1>6, SumInt
<1>. QED BY <1>5, <1>6, <1>7, <1>8, <1>9

(* An order that is filled through the pool is not due to anybody but its sender. *)
LEMMA OthersUnfilled ==
    ASSUME filledAmounts \in [OrderHashes -> Nat], NEW order \in Orders,
           NEW fee \in 0 .. order.matcherFee, NEW filled,
           filledAmounts' = [filledAmounts EXCEPT ![<<order.nonce, fee>>] = filled],
           NEW u, u # order.senderAddress
    PROVE  Filled(u) = {}
<1>1. ASSUME NEW o \in SignedOrders, o.senderAddress = u PROVE FillOf(o)' = FillOf(o)
  <2>1. o \in Orders /\ o # order
    BY <1>1, ValidatorAssumption DEF ValidatorAssumption
  <2>2. o.nonce # order.nonce
    BY <2>1, StorageAssumption DEF StorageAssumption
  <2>3. getTypeValueHash(o) \in OrderHashes /\ getTypeValueHash(o) # <<order.nonce, fee>>
    BY <2>1, <2>2, HashOfOrder DEF getTypeValueHash
  <2>. HIDE DEF OrderHashes
  <2>. QED BY <2>3 DEF FillOf
<1>. QED BY <1>1 DEF Filled

(* The step fills the order by an exchange with the pool of out for in, at the price
   of the order, and takes a fee no larger than that of the order. *)
PoolFill(order, isSeller, L, out, in, fee, filled) ==
    /\ Commit(L)
    /\ filledAmounts' = [filledAmounts EXCEPT ![<<order.nonce, fee>>] =
                            filledAmounts[<<order.nonce, fee>>] + filled]
    /\ reserves' # reserves \/ filled = 0
    /\ \A u \in Users, a \in Assets : BaseUnit[a] = Unit =>
          Earns(Ledger, L, u, a, Gain(order, isSeller, out, in, fee, u, a))
    /\ isSeller => filled = out /\ in >= (filled * order.price) \div Unit
    /\ ~isSeller =>
          /\ filled = in
          /\ BaseUnit[order.baseAsset] = Unit /\ BaseUnit[order.quoteAsset] = Unit =>
                out <= (filled * order.price) \div Unit

PoolConsent ==
    \A u \in Users :
       \/ \A a \in Assets : BaseUnit[a] = Unit =>
             WealthChange(u, a) >= Due(u, a) \/ LiquidationPayment(u, a)
       \/ FilledByPool(u)
       \/ SwappedByUser(u)

LEMMA PoolFillIsConsent ==
    ASSUME PoolIInv, SidesAreKnown, NEW order \in SignedOrders, UNCHANGED stakingData,
           NEW isSeller \in BOOLEAN, isSeller <=> order.buySide = kSell,
           NEW L \in LedgerType, NEW out \in Nat, NEW in \in Nat,
           NEW fee \in 0 .. order.matcherFee, NEW filled \in Nat,
           PoolFill(order, isSeller, L, out, in, fee, filled)
    PROVE  PoolConsent
<1>. SUFFICES ASSUME NEW u \in Users
              PROVE  \/ \A a \in Assets : BaseUnit[a] = Unit => WealthChange(u, a) >= Due(u, a)
                     \/ FilledByPool(u)
  BY DEF PoolConsent
<1>1. /\ order \in Orders /\ order \in OrderType /\ order.buySide \in {kSell, kBuy}
  BY ValidatorAssumption, StorageAssumption
     DEF ValidatorAssumption, StorageAssumption, SidesAreKnown
<1>2. IInv /\ filledAmounts \in [OrderHashes -> Nat]
  BY DEF PoolIInv, IInv, TypeOK, StorageTypeOK
<1>3. fee \in Nat /\ fee <= order.matcherFee
  BY <1>1 DEF OrderType
<1>4. /\ Commit(L)
      /\ filledAmounts' = [filledAmounts EXCEPT ![<<order.nonce, fee>>] =
                              filledAmounts[<<order.nonce, fee>>] + filled]
      /\ reserves' # reserves \/ filled = 0
  BY DEF PoolFill
<1>5. ASSUME NEW a \in Assets, BaseUnit[a] = Unit
      PROVE  /\ WealthChange(u, a) >= Gain(order, isSeller, out, in, fee, u, a)
             /\ WealthChange(u, a) \in Int
             /\ Gain(order, isSeller, out, in, fee, u, a) \in Int
  <2>1. Gain(order, isSeller, out, in, fee, u, a) \in Int
    BY <1>3, GainInt
  <2>2. Earns(Ledger, L, u, a, Gain(order, isSeller, out, in, fee, u, a))
    BY <1>5 DEF PoolFill
  <2>3. WealthChange(u, a) >= Gain(order, isSeller, out, in, fee, u, a)
    BY <1>2, <1>4, <2>1, <2>2, CommitWealth
  <2>. QED BY <1>2, <1>4, <2>1, <2>3, WealthInt
<1>6. CASE u # order.senderAddress
  <2>1. Filled(u) = {}
    BY <1>1, <1>2, <1>4, <1>6, OthersUnfilled
  <2>2. ASSUME NEW a \in Assets, BaseUnit[a] = Unit PROVE WealthChange(u, a) >= Due(u, a)
    <3>1. Gain(order, isSeller, out, in, fee, u, a) = 0
      BY <1>6, GainOfOthers
    <3>2. Due(u, a) = 0
      BY <2>1, UnfilledIsNotDue
    <3>. QED BY <1>5, <2>2, <3>1, <3>2
  <2>. QED BY <2>2
<1>7. CASE u = order.senderAddress
  <2>1. FilledTotal(order)' - FilledTotal(order) = filled
    BY <1>1, <1>2, <1>4, FilledTotalMoves
  <2>2. reserves' # reserves \/ UNCHANGED filledAmounts
    <3>1. ASSUME filled = 0 PROVE filledAmounts' = filledAmounts
      <4>1. <<order.nonce, fee>> \in OrderHashes
        BY <1>1 DEF OrderHashes
      <4>2. filledAmounts[<<order.nonce, fee>>] + filled = filledAmounts[<<order.nonce, fee>>]
        BY <1>2, <3>1, <4>1
      <4>. QED BY <1>2, <1>4, <4>2
    <3>. QED BY <1>4, <3>1
  <2>. DEFINE limit == (filled * order.price) \div Unit
  <2>3. limit \in Nat
    <3>1. Unit \in Nat \ {0} /\ filled * order.price \in Nat
      BY <1>1, UnitsPositive, ProductNat DEF OrderType
    <3>. QED BY <3>1, DivNat
  <2>4. ASSUME NEW a \in Assets, BaseUnit[a] = Unit,
               order.buySide = kBuy => BaseUnit[order.baseAsset] = Unit
        PROVE  WealthChange(u, a) >= PoolTerms(order, filled, a)
    <3>1. isSeller => filled = out /\ in >= limit
      BY DEF PoolFill
    <3>2. ~isSeller => filled = in /\ (a = order.quoteAsset => out <= limit)
      <4>1. ~isSeller => order.buySide = kBuy
        BY <1>1
      <4>. QED BY <2>4, <4>1 DEF PoolFill
    <3>3. PoolTerms(order, filled, a) <= Gain(order, isSeller, out, in, fee, u, a)
      <4>1. limit = (filled * order.price) \div Unit
        OBVIOUS
      <4>. HIDE DEF limit
      <4>2. PoolTerms(order, filled, a)
               <= Gain(order, isSeller, out, in, fee, order.senderAddress, a)
        BY <1>1, <1>3, <2>3, <3>1, <3>2, <4>1, PoolTermsWithinGain
      <4>. QED BY <1>7, <4>2
    <3>4. PoolTerms(order, filled, a) \in Int
      <4>1. PoolTerms(order, filled, a)
              = (IF a = order.baseAsset
                 THEN (IF order.buySide = kBuy THEN 1 ELSE -1) * filled ELSE 0)
                - (IF a = order.quoteAsset
                   THEN (IF order.buySide = kBuy THEN 1 ELSE -1) * limit ELSE 0)
                - (IF a = order.matcherFeeAsset THEN order.matcherFee ELSE 0)
        BY Zenon DEF PoolTerms
      <4>2. order.matcherFee \in Int
        BY <1>1 DEF OrderType
      <4>. HIDE DEF limit
      <4>. QED BY <2>3, <4>1, <4>2
    <3>. QED BY <1>5, <2>4, <3>3, <3>4
  <2>. QED BY <1>7, <2>1, <2>2, <2>4 DEF FilledByPool
<1>. QED BY <1>6, <1>7

(* What was asked of the swap is at least the order's terms for what it made. *)
LEMMA SwapWithinTerms ==
    ASSUME NEW order \in OrderType, order.buySide \in {kSell, kBuy},
           NEW isSeller \in BOOLEAN, isSeller <=> order.buySide = kSell,
           NEW asked \in Nat, NEW limit, limit = (asked * order.price) \div Unit,
           NEW out \in Nat, NEW in \in Nat, NEW filled \in Nat \ {0},
           isSeller => filled = out /\ (in * Unit) \div filled >= order.price,
           ~isSeller => filled = in,
           ~isSeller /\ BaseUnit[order.quoteAsset] = Unit => out <= limit,
           ~isSeller /\ BaseUnit[order.baseAsset] = Unit => in >= asked
    PROVE  /\ isSeller => filled = out /\ in >= (filled * order.price) \div Unit
           /\ ~isSeller =>
                 /\ filled = in
                 /\ BaseUnit[order.baseAsset] = Unit /\ BaseUnit[order.quoteAsset] = Unit =>
                       out <= (filled * order.price) \div Unit
<1>1. order.price \in Nat
  BY DEF OrderType
<1>2. ASSUME isSeller PROVE filled = out /\ in >= (filled * order.price) \div Unit
  BY <1>1, <1>2, PriceOfSale
<1>3. ASSUME ~isSeller, BaseUnit[order.baseAsset] = Unit, BaseUnit[order.quoteAsset] = Unit
      PROVE  out <= (filled * order.price) \div Unit
  <2>. DEFINE x == asked * order.price
              y == filled * order.price
  <2>1. x \in Nat /\ y \in Nat
    BY <1>1, ProductNat
  <2>2. x <= y
    <3>1. filled - asked \in Nat
      BY <1>3
    <3>2. (filled - asked) * order.price \in Nat
      BY <1>1, <3>1, ProductNat
    <3>3. y = x + (filled - asked) * order.price
      BY <1>1
    <3>. HIDE DEF x, y
    <3>. QED BY <2>1, <3>2, <3>3
  <2>3. Unit \in Nat \ {0}
    BY UnitsPositive
  <2>4. out <= limit /\ limit = x \div Unit
    BY <1>3
  <2>. HIDE DEF x, y
  <2>5. x \div Unit <= y \div Unit /\ x \div Unit \in Nat /\ y \div Unit \in Nat
    BY <2>1, <2>2, <2>3, DivMonotone, DivNat
  <2>6. out <= y \div Unit
    BY <2>4, <2>5
  <2>. QED BY <2>6 DEF y
<1>. QED BY <1>2, <1>3

LEMMA FillThroughOrionPoolConsent ==
    ASSUME PoolIInv, SidesAreKnown, NEW sender \in Users, NEW order \in Orders,
           NEW filledAmount \in Nat, NEW blockchainFee \in Nat, NEW path \in Paths,
           FillThroughOrionPool(sender, order, filledAmount, blockchainFee, path)
    PROVE  PoolConsent
<1>. DEFINE user == order.senderAddress
            isSeller == order.buySide = kSell
            amountQuote == (filledAmount * order.price) \div Unit
            spend == IF isSeller THEN filledAmount ELSE amountQuote
            receive == IF isSeller THEN amountQuote ELSE filledAmount
            inContract == First(path) = ETH \/ assetBalances[user][First(path)] > 0
            retained == inContract \/ RetainsFee(order, inContract, path)
            swap == doSwapThroughOrionPool(Ledger, user, inContract, spend, receive, path,
                        isSeller, retained)
            filledBase == IF isSeller THEN swap.amountOut ELSE swap.amountIn
            filledQuote == IF isSeller THEN swap.amountIn ELSE swap.amountOut
            charged == IF swap.ok /\ LowersFee(order, blockchainFee)
                       THEN [order EXCEPT !.matcherFee = blockchainFee] ELSE order
            filled == IF swap.ok THEN filledBase ELSE 0
            hash == getTypeValueHash(charged)
            L == IF swap.ok
                 THEN SettleSwap(swap, charged, isSeller, inContract,
                                 filledBase, filledQuote, path)
                 ELSE _payMatcherFee(Ledger, order, order.matcherFee)
<1>1. /\ Commit(L) /\ UNCHANGED stakingData
      /\ checkOrderSingleMatch(order, sender, filledAmount, path)
      /\ swap.ok => PriceHonoured(order, isSeller, filledBase, filledQuote)
      /\ filledAmounts' = [filledAmounts EXCEPT ![hash] = filledAmounts[hash] + filled]
      /\ reserves' = IF swap.ok THEN swap.reserves ELSE reserves
  <2>1. /\ Commit(L) /\ UNCHANGED stakingData
        /\ checkOrderSingleMatch(order, sender, filledAmount, path)
        /\ swap.ok => PriceHonoured(order, isSeller, filledBase, filledQuote)
        /\ filledAmounts' = [filledAmounts EXCEPT ![hash] = @ + filled]
        /\ reserves' = IF swap.ok THEN swap.reserves ELSE reserves
    BY DEF FillThroughOrionPool
  <2>. HIDE DEF swap, hash, filled, L
  <2>. QED BY <2>1
<1>2. /\ order \in OrderType /\ user \in Users /\ IInv /\ now \in Nat
      /\ order.matcherFee \in Nat /\ order.price \in Nat
      /\ reserves \in ReservesType
  BY StorageAssumption
     DEF StorageAssumption, OrderType, PoolIInv, IInv, TypeOK, OracleTypeOK
<1>3. isSeller \in BOOLEAN /\ inContract \in BOOLEAN /\ retained \in BOOLEAN
  BY DEF RetainsFee
<1>4. LedgerOK(Ledger) /\ Ledger \in LedgerType
  BY <1>2, LedgerIsOK
<1>5. order \in SignedOrders /\ order.buySide \in {kSell, kBuy}
  BY <1>1 DEF checkOrderSingleMatch, validateOrder, SidesAreKnown
<1>6. /\ OutAsset(order, isSeller) = First(path)
      /\ InAsset(order, isSeller) = Last(path)
  BY <1>1, PathOfOrder
<1>7. CASE swap.ok
  <2>1. /\ OnlyTokens(Ledger, swap.ledger)
        /\ swap.amountOut \in Nat /\ swap.amountIn \in Nat
    <3>. HIDE DEF user, isSeller, spend, receive, inContract, retained
    <3>. QED BY <1>2, <1>3, <1>4, <1>7, SwapOK
  <2>2. LedgerOK(swap.ledger)
    BY <1>4, <2>1, OnlyTokensOK
  <2>3. /\ charged \in OrderType
        /\ charged.matcherFee \in 0 .. order.matcherFee
        /\ hash = <<order.nonce, charged.matcherFee>>
    <3>. HIDE DEF swap
    <3>1. CASE LowersFee(order, blockchainFee)
      <4>1. blockchainFee \in 0 .. order.matcherFee
        BY <1>2, <3>1 DEF LowersFee
      <4>2. charged = [order EXCEPT !.matcherFee = blockchainFee]
        BY <1>7, <3>1
      <4>3. charged \in OrderType
        BY <4>1, <4>2, HashOfLowered
      <4>4. charged.nonce = order.nonce /\ charged.matcherFee = blockchainFee
        BY <1>2, <4>2 DEF OrderType
      <4>. QED BY <4>1, <4>3, <4>4 DEF getTypeValueHash
    <3>2. CASE ~LowersFee(order, blockchainFee)
      BY <1>2, <3>2 DEF getTypeValueHash
    <3>. QED BY <3>1, <3>2
  <2>4. /\ charged.baseAsset = order.baseAsset /\ charged.quoteAsset = order.quoteAsset
        /\ charged.matcherFeeAsset = order.matcherFeeAsset
        /\ charged.senderAddress = order.senderAddress
    <3>. HIDE DEF swap
    <3>. QED BY <1>2 DEF OrderType
  <2>5. /\ OutAsset(charged, isSeller) = First(path)
        /\ InAsset(charged, isSeller) = Last(path)
    BY <1>6, <2>4 DEF OutAsset, InAsset
  <2>6. retained <=> inContract \/ RetainsFee(charged, inContract, path)
    BY <2>4 DEF RetainsFee
  <2>7. L = SettleSwap(swap, charged, isSeller, inContract, filledBase, filledQuote, path)
        /\ filled = filledBase
    BY <1>7
  <2>8. /\ filledBase > 0 /\ filledBase \in Nat /\ filledQuote \in Nat
        /\ isSeller => (filledQuote * Unit) \div filledBase >= order.price
    BY <1>1, <1>7, <2>1 DEF PriceHonoured
  <2>9. LedgerOK(L) /\ L \in LedgerType
    <3>. HIDE DEF user, isSeller, inContract, retained, swap, charged, filledBase,
                  filledQuote, L
    <3>. QED BY <1>2, <1>3, <2>1, <2>2, <2>3, <2>7, <2>8, SettleSwapOK DEF LedgerOK
  <2>10. /\ isSeller => filledBase = swap.amountOut /\ filledQuote = swap.amountIn
         /\ ~isSeller => filledBase = swap.amountIn /\ filledQuote = swap.amountOut
         /\ isSeller => spend = filledAmount
         /\ ~isSeller => spend = amountQuote /\ receive = filledAmount
    OBVIOUS
  <2>11. swap = doSwapThroughOrionPool(Ledger, user, inContract, spend, receive, path,
                    isSeller, retained)
    OBVIOUS
  <2>12. amountQuote \in Nat /\ spend \in Nat /\ receive \in Nat
    <3>1. Unit \in Nat \ {0} /\ filledAmount * order.price \in Nat
      BY <1>2, UnitsPositive, ProductNat
    <3>2. amountQuote \in Nat
      BY <3>1, DivNat
    <3>. HIDE DEF amountQuote
    <3>. QED BY <3>2
  <2>13. ASSUME NEW u \in Users, NEW a \in Assets, BaseUnit[a] = Unit
         PROVE  Earns(Ledger, L, u, a, Gain(order, isSeller, swap.amountOut, swap.amountIn,
                                            charged.matcherFee, u, a))
    <3>. DEFINE x == Brought(swap, user, path, inContract, retained, u, a)
    <3>1. x \in Int /\ Earns(Ledger, swap.ledger, u, a, x)
      <4>. HIDE DEF user, isSeller, spend, receive, inContract, retained, swap
      <4>. QED BY <1>2, <1>3, <1>4, <1>7, <2>11, <2>13, SwapEarns
    <3>2. x = Brought(swap, charged.senderAddress, path, inContract, retained, u, a)
      BY <2>4
    <3>3. Gain(charged, isSeller, swap.amountOut, swap.amountIn, charged.matcherFee, u, a)
             = Gain(order, isSeller, swap.amountOut, swap.amountIn, charged.matcherFee, u, a)
      BY <2>4, Zenon DEF Gain, InAsset, OutAsset
    <3>. HIDE DEF x, user, isSeller, inContract, retained, swap, charged, filledBase,
                  filledQuote, L
    <3>4. Earns(Ledger,
                SettleSwap(swap, charged, isSeller, inContract, filledBase, filledQuote, path),
                u, a, Gain(charged, isSeller, swap.amountOut, swap.amountIn,
                           charged.matcherFee, u, a))
      BY <1>2, <1>3, <1>4, <2>1, <2>2, <2>3, <2>5, <2>6, <2>8, <2>10, <2>13, <3>1, <3>2,
         SettleSwapEarns
    <3>. QED BY <2>7, <3>3, <3>4
  <2>14. reserves' # reserves
    <3>. HIDE DEF user, isSeller, spend, receive, inContract, retained, swap
    <3>. QED BY <1>1, <1>2, <1>7, <2>11, SwapMovesReserves
  <2>15. /\ BaseUnit[First(path)] = Unit => swap.amountOut <= spend
         /\ BaseUnit[Last(path)] = Unit => swap.amountIn >= receive
    <3>. HIDE DEF user, isSeller, spend, receive, inContract, retained, swap
    <3>. QED BY <1>3, <1>7, <2>11, <2>12, SwapLimits
  <2>16. amountQuote = (filledAmount * order.price) \div Unit
         /\ (isSeller <=> order.buySide = kSell)
    OBVIOUS
  <2>. HIDE DEF user, isSeller, amountQuote, spend, receive, inContract, retained, swap,
                filledBase, filledQuote, charged, filled, hash, L
  <2>17. /\ ~isSeller => First(path) = order.quoteAsset /\ Last(path) = order.baseAsset
    BY <1>6 DEF OutAsset, InAsset
  <2>18. /\ filled \in Nat \ {0}
         /\ isSeller => filled = swap.amountOut
                        /\ (swap.amountIn * Unit) \div filled >= order.price
         /\ ~isSeller => filled = swap.amountIn
         /\ ~isSeller /\ BaseUnit[order.quoteAsset] = Unit => swap.amountOut <= amountQuote
         /\ ~isSeller /\ BaseUnit[order.baseAsset] = Unit => swap.amountIn >= filledAmount
    BY <2>7, <2>8, <2>10, <2>15, <2>17
  <2>19. /\ isSeller => filled = swap.amountOut
                        /\ swap.amountIn >= (filled * order.price) \div Unit
         /\ ~isSeller =>
               /\ filled = swap.amountIn
               /\ BaseUnit[order.baseAsset] = Unit /\ BaseUnit[order.quoteAsset] = Unit =>
                     swap.amountOut <= (filled * order.price) \div Unit
    BY <1>2, <1>3, <1>5, <2>1, <2>16, <2>18, SwapWithinTerms
  <2>20. PoolFill(order, isSeller, L, swap.amountOut, swap.amountIn, charged.matcherFee, filled)
    BY <1>1, <2>3, <2>13, <2>14, <2>19 DEF PoolFill
  <2>. QED BY <1>1, <1>3, <1>5, <2>1, <2>3, <2>9, <2>16, <2>18, <2>20, PoolFillIsConsent
<1>8. CASE ~swap.ok
  <2>1. /\ L = _payMatcherFee(Ledger, order, order.matcherFee)
        /\ filled = 0 /\ hash = <<order.nonce, order.matcherFee>>
        /\ (isSeller <=> order.buySide = kSell)
    BY <1>8 DEF getTypeValueHash
  <2>. HIDE DEF user, isSeller, inContract, swap, charged, filled, hash, L
  <2>2. L \in LedgerType
    BY <1>2, <1>4, <2>1, PayFeeOK DEF LedgerOK
  <2>3. ASSUME NEW u \in Users, NEW a \in Assets, BaseUnit[a] = Unit
        PROVE  Earns(Ledger, L, u, a, Gain(order, isSeller, 0, 0, order.matcherFee, u, a))
    <3>1. Earns(Ledger, L, u, a, -Part(order.senderAddress, order.matcherFeeAsset,
                                       order.matcherFee, u, a))
      BY <1>2, <1>4, <2>1, <2>3, PayFeeEarns
    <3>2. Gain(order, isSeller, 0, 0, order.matcherFee, u, a)
             = -Part(order.senderAddress, order.matcherFeeAsset, order.matcherFee, u, a)
      BY <1>2 DEF Gain, Part
    <3>. QED BY <3>1, <3>2
  <2>4. (0 * order.price) \div Unit = 0
    BY <1>2, UnitsPositive
  <2>5. PoolFill(order, isSeller, L, 0, 0, order.matcherFee, 0)
    BY <1>1, <2>1, <2>3, <2>4 DEF PoolFill
  <2>6. order.matcherFee \in 0 .. order.matcherFee /\ 0 \in Nat
    BY <1>2
  <2>. QED BY <1>1, <1>3, <1>5, <2>1, <2>2, <2>5, <2>6, PoolFillIsConsent
<1>. QED BY <1>7, <1>8

LEMMA SendOwn ==
    ASSUME NEW L \in LedgerType, NEW user \in Users, NEW asset \in Assets, NEW base \in Nat,
           L.held[asset] >= base, NEW u \in Users, NEW a \in Assets
    PROVE  /\ Send(L, user, asset, base) \in LedgerType
           /\ Own(Send(L, user, asset, base), u, a)
                 = Own(L, u, a) + Part(user, asset, base, u, a)
<1>. DEFINE M == Send(L, user, asset, base)
            minus == -base
<1>1. Moves(L, M, user, asset, 0, minus)
  BY SendMoves
<1>2. minus \in Int /\ 0 \in Int /\ 0 - minus = base
  OBVIOUS
<1>. HIDE DEF M, minus
<1>3. M \in LedgerType /\ Own(M, u, a) = Own(L, u, a) + Part(user, asset, 0 - minus, u, a)
  BY <1>1, <1>2, MovesOwn
<1>. QED BY <1>2, <1>3 DEF M

(* What a request brings a user, whether balances, the wallet or ether pays. *)
ExchangedFor(request, out, in, user, u, a) ==
    Part(user, Last(request.path), in, u, a) - Part(user, First(request.path), out, u, a)

(* The step brings the user no less than the request grants. *)
PoolSwap(user, request, L, out, in) ==
    /\ \A u \in Users, a \in Assets : BaseUnit[a] = Unit =>
          Earns(Ledger, L, u, a, ExchangedFor(request, out, in, user, u, a))
    /\ BaseUnit[First(request.path)] = Unit => out <= request.spend
    /\ BaseUnit[Last(request.path)] = Unit => in >= request.receive

LEMMA PoolSwapIsConsent ==
    ASSUME PoolIInv, NEW user \in Users, NEW request \in PoolSwaps,
           SwapThroughOrionPool(user, request),
           NEW L \in LedgerType, Commit(L), UNCHANGED <<stakingData, filledAmounts>>,
           NEW out \in Nat, NEW in \in Nat, PoolSwap(user, request, L, out, in)
    PROVE  PoolConsent
<1>. SUFFICES ASSUME NEW u \in Users
              PROVE  \/ \A a \in Assets : BaseUnit[a] = Unit => WealthChange(u, a) >= Due(u, a)
                     \/ SwappedByUser(u)
  BY DEF PoolConsent
<1>1. IInv /\ request.spend \in Nat /\ request.receive \in Nat
  BY PoolAssumption DEF PoolIInv, PoolAssumption
<1>2. ASSUME NEW a \in Assets, BaseUnit[a] = Unit
      PROVE  /\ WealthChange(u, a) >= ExchangedFor(request, out, in, user, u, a)
             /\ WealthChange(u, a) \in Int
  <2>1. ExchangedFor(request, out, in, user, u, a) \in Int
    BY DEF ExchangedFor, Part
  <2>2. Earns(Ledger, L, u, a, ExchangedFor(request, out, in, user, u, a))
    BY <1>2 DEF PoolSwap
  <2>. QED BY <1>1, <2>1, <2>2, CommitWealth, WealthInt
<1>3. CASE u # user
  <2>1. ASSUME NEW a \in Assets, BaseUnit[a] = Unit PROVE WealthChange(u, a) >= Due(u, a)
    <3>1. ExchangedFor(request, out, in, user, u, a) = 0
      BY <1>3 DEF ExchangedFor, Part
    <3>2. Due(u, a) = 0
      BY NothingDue
    <3>. QED BY <1>2, <2>1, <3>1, <3>2
  <2>. QED BY <2>1
<1>4. CASE u = user
  <2>1. ASSUME NEW a \in Assets, BaseUnit[a] = Unit
        PROVE  WealthChange(u, a) >= RequestTerms(request, a)
    <3>1. /\ Last(request.path) = a => in >= request.receive
          /\ First(request.path) = a => out <= request.spend
      BY <2>1 DEF PoolSwap
    <3>2. /\ RequestTerms(request, a) <= ExchangedFor(request, out, in, user, u, a)
          /\ RequestTerms(request, a) \in Int /\ ExchangedFor(request, out, in, user, u, a) \in Int
      BY <1>1, <1>4, <3>1 DEF RequestTerms, ExchangedFor, Part
    <3>. QED BY <1>2, <2>1, <3>2
  <2>. QED BY <1>4, <2>1 DEF SwappedByUser
<1>. QED BY <1>3, <1>4

(* Ether that pays the swap: what is not needed is sent back, all of it. *)
LEMMA EtherSwapEarns ==
    ASSUME ETH \in Assets, NEW L \in LedgerType, NEW user \in Users, NEW value \in Nat,
           NEW withEther \in LedgerType, Moves(L, withEther, user, ETH, 0, value),
           NEW swapped \in LedgerType, NEW refund \in Nat, swapped.held[ETH] >= refund,
           NEW path \in Paths, First(path) = ETH, NEW out \in Nat, NEW in \in Nat,
           NEW u \in Users, NEW a \in Assets,
           Earns(withEther, swapped, u, a, Part(user, Last(path), in, u, a)),
           a = ETH => out + refund = value
    PROVE  Earns(L, Send(swapped, user, ETH, refund), u, a,
                 Part(user, Last(path), in, u, a) - Part(user, First(path), out, u, a))
<1>. DEFINE M == Send(swapped, user, ETH, refund)
            sent == Part(user, ETH, 0 - value, u, a)
            back == Part(user, ETH, refund, u, a)
            brought == Part(user, Last(path), in, u, a)
            paid == Part(user, First(path), out, u, a)
<1>1. Own(withEther, u, a) = Own(L, u, a) + sent
  BY MovesOwn
<1>2. Own(M, u, a) = Own(swapped, u, a) + back
  BY SendOwn
<1>3. Own(L, u, a) \in Int /\ Own(withEther, u, a) \in Int /\ Own(swapped, u, a) \in Int
  BY OwnInt
<1>4. Own(swapped, u, a) >= Own(withEther, u, a) + brought
  BY DEF Earns
<1>5. /\ sent \in Int /\ back \in Int /\ brought \in Int /\ paid \in Int
      /\ sent + back = 0 - paid
  BY DEF Part
<1>. HIDE DEF M, sent, back, brought, paid
<1>6. Own(M, u, a) >= Own(L, u, a) + (brought - paid)
  BY <1>1, <1>2, <1>3, <1>4, <1>5
<1>. QED BY <1>6 DEF Earns, M, brought, paid

(* Balances that pay it: both are moved by what the swap paid and brought. *)
LEMMA BalanceSwapEarns ==
    ASSUME NEW L \in LedgerType, NEW swapped, LedgerOK(swapped), now \in Nat,
           NEW user \in Users, NEW path \in Paths, NEW out \in Nat, NEW in \in Nat,
           NEW debited, debited = _updateBalance(swapped, user, First(path), -out).ledger,
           NEW credited, credited = _updateBalance(debited, user, Last(path), in).ledger,
           NEW u \in Users, NEW a \in Assets, BaseUnit[a] = Unit,
           Earns(L, swapped, u, a, 0)
    PROVE  /\ credited \in LedgerType
           /\ Earns(L, credited, u, a,
                    Part(user, Last(path), in, u, a) - Part(user, First(path), out, u, a))
<1>. DEFINE minus == -out
            p == Part(user, First(path), minus, u, a)
            q == Part(user, Last(path), in, u, a)
<1>1. /\ First(path) \in Assets /\ Last(path) \in Assets
      /\ minus \in Int /\ in \in Int /\ swapped \in LedgerType
  BY PathEnds DEF LedgerOK
<1>2. p \in Int /\ q \in Int /\ p = -Part(user, First(path), out, u, a)
  BY DEF Part
<1>3. debited = _updateBalance(swapped, user, First(path), minus).ledger
  OBVIOUS
<1>. HIDE DEF minus
<1>4. LedgerOK(debited) /\ Gives(swapped, debited, user, First(path), minus, Pulled(minus))
  BY <1>1, <1>3, UpdateBalanceOK, UpdateBalanceGives
<1>5. LedgerOK(credited) /\ Gives(debited, credited, user, Last(path), in, Pulled(in))
  BY <1>1, <1>4, UpdateBalanceOK, UpdateBalanceGives
<1>6. debited \in LedgerType /\ credited \in LedgerType
  BY <1>4, <1>5 DEF LedgerOK
<1>7. Earns(swapped, debited, u, a, p) /\ Earns(debited, credited, u, a, q)
  BY <1>1, <1>4, <1>5, <1>6, GivesEarns
<1>. HIDE DEF p, q
<1>8. Own(L, u, a) \in Int /\ Own(swapped, u, a) \in Int
      /\ Own(debited, u, a) \in Int /\ Own(credited, u, a) \in Int
  BY <1>1, <1>6, OwnInt
<1>9. Own(credited, u, a) >= Own(L, u, a) + (q + p)
  BY <1>2, <1>7, <1>8 DEF Earns
<1>10. q + p = q - Part(user, First(path), out, u, a)
  <2>1. Part(user, First(path), out, u, a) \in Int
    BY DEF Part
  <2>. QED BY <1>2, <2>1
<1>. QED BY <1>6, <1>9, <1>10 DEF Earns, q

LEMMA SwapThroughOrionPoolConsent ==
    ASSUME PoolIInv, NEW user \in Users, NEW request \in PoolSwaps,
           SwapThroughOrionPool(user, request)
    PROVE  PoolConsent
<1>. DEFINE path == request.path
            value == request.value
            spend == request.spend
            receive == request.receive
            ethSent == BaseUnitToDecimal(ETH, value)
            sentEnough == value > 0 /\ First(path) = ETH /\ ethSent >= spend
            deposited == value > 0 /\ ~sentEnough
            inContract == assetBalances[user][First(path)] > 0 /\ ~sentEnough
            withEther == Receive(Ledger, user, ETH, value)
            before == IF deposited THEN _updateBalance(withEther, user, ETH, ethSent).ledger
                      ELSE withEther
            fromExchange == inContract \/ sentEnough
            swap == doSwapThroughOrionPool(before, user, fromExchange,
                        spend, receive, path, request.exact, inContract)
            spent == DecimalToBaseUnit(ETH, swap.amountOut)
            refund == Refund(sentEnough, value, spent)
            debited == _updateBalance(swap.ledger, user, First(path), -swap.amountOut).ledger
            credited == _updateBalance(debited, user, Last(path), swap.amountIn).ledger
            sent == Send(swap.ledger, user, ETH, refund)
            L == IF inContract THEN credited ELSE sent
<1>1. /\ wallet[user][ETH] >= value
      /\ swap.ok
      /\ sentEnough => swap.ledger.held[ETH] >= refund
      /\ Commit(L) /\ UNCHANGED <<stakingData, filledAmounts>>
  BY DEF SwapThroughOrionPool
<1>2. /\ ETH \in Assets /\ path \in Paths /\ value \in Nat /\ ethSent \in Nat
      /\ spend \in Nat /\ receive \in Nat /\ request.exact \in BOOLEAN
      /\ First(path) \in Assets /\ Last(path) \in Assets
      /\ BaseUnit[ETH] = Unit => ethSent = value
  <2>1. /\ ETH \in Assets /\ path \in Paths /\ value \in Nat
        /\ spend \in Nat /\ receive \in Nat /\ request.exact \in BOOLEAN
    BY PoolAssumption DEF PoolAssumption
  <2>. QED BY <2>1, PathEnds, ToDecimal
<1>3. IInv /\ now \in Nat /\ LedgerOK(Ledger) /\ Ledger \in LedgerType
  BY LedgerIsOK DEF PoolIInv, IInv, TypeOK, OracleTypeOK
<1>4. /\ inContract \in BOOLEAN /\ fromExchange \in BOOLEAN
      /\ sentEnough => First(path) = ETH /\ spend <= ethSent
  BY <1>2
<1>5. swap = doSwapThroughOrionPool(before, user, fromExchange,
                 spend, receive, path, request.exact, inContract)
  OBVIOUS
<1>6. path = request.path /\ spend = request.spend /\ receive = request.receive
  OBVIOUS
<1>. HIDE DEF path, value, spend, receive
<1>7. LedgerOK(withEther) /\ withEther \in LedgerType
      /\ Moves(Ledger, withEther, user, ETH, 0, value)
  <2>1. CanReceive(Ledger, user, ETH, value)
    BY <1>1 DEF CanReceive, Ledger
  <2>. QED BY <1>2, <1>3, <2>1, ReceiveFields, ReceiveMoves DEF LedgerOK
<1>8. LedgerOK(before) /\ before \in LedgerType
  <2>1. CASE deposited
    <3>1. ethSent \in Int
      BY <1>2
    <3>2. before = _updateBalance(withEther, user, ETH, ethSent).ledger
      BY <2>1
    <3>. HIDE DEF before, withEther, ethSent
    <3>. QED BY <1>2, <1>3, <1>7, <3>1, <3>2, UpdateBalanceOK DEF LedgerOK
  <2>2. CASE ~deposited
    BY <1>7, <2>2
  <2>. QED BY <2>1, <2>2
<1>9. ASSUME ~sentEnough, NEW u \in Users, NEW a \in Assets, BaseUnit[a] = Unit
      PROVE  Earns(Ledger, before, u, a, 0)
  <2>1. /\ value > 0 => before = _updateBalance(withEther, user, ETH,
                                                BaseUnitToDecimal(ETH, value)).ledger
        /\ value = 0 => before = withEther
    BY <1>2, <1>9
  <2>2. withEther = Receive(Ledger, user, ETH, value)
    OBVIOUS
  <2>. HIDE DEF before, withEther
  <2>3. Gives(Ledger, before, user, ETH, 0, 0)
    BY <1>1, <1>2, <1>3, <2>1, <2>2, EtherGives
  <2>4. Earns(Ledger, before, u, a, Part(user, ETH, 0, u, a)) /\ Part(user, ETH, 0, u, a) = 0
    <3>1. 0 \in Int
      OBVIOUS
    <3>. QED BY <1>2, <1>3, <1>9, <2>3, <3>1, GivesEarns DEF Part
  <2>. QED BY <2>4
<1>. HIDE DEF inContract, fromExchange
<1>10. /\ OnlyTokens(before, swap.ledger)
       /\ swap.amountOut \in Nat /\ swap.amountIn \in Nat
  <2>. HIDE DEF before
  <2>. QED BY <1>1, <1>2, <1>4, <1>8, SwapOK
<1>11. LedgerOK(swap.ledger) /\ swap.ledger \in LedgerType
  <2>. HIDE DEF before, swap
  <2>. QED BY <1>8, <1>10, OnlyTokensOK DEF LedgerOK
<1>12. /\ BaseUnit[First(path)] = Unit => swap.amountOut <= spend
       /\ BaseUnit[Last(path)] = Unit => swap.amountIn >= receive
  <2>. HIDE DEF before, swap
  <2>. QED BY <1>1, <1>2, <1>5, SwapLimits
<1>13. ASSUME NEW u \in Users, NEW a \in Assets, BaseUnit[a] = Unit
       PROVE  /\ Brought(swap, user, path, fromExchange, inContract, u, a) \in Int
              /\ Earns(before, swap.ledger, u, a,
                       Brought(swap, user, path, fromExchange, inContract, u, a))
  <2>. HIDE DEF before, swap
  <2>. QED BY <1>1, <1>2, <1>4, <1>5, <1>8, <1>13, SwapEarns
<1>14. ASSUME NEW u \in Users, NEW a \in Assets, BaseUnit[a] = Unit
       PROVE  Earns(Ledger, L, u, a,
                    Part(user, Last(path), swap.amountIn, u, a)
                    - Part(user, First(path), swap.amountOut, u, a))
  <2>1. CASE inContract
    <3>1. ~sentEnough /\ fromExchange = inContract
      BY <2>1 DEF inContract, fromExchange
    <3>2. L = credited
      BY <2>1
    <3>3. Brought(swap, user, path, fromExchange, inContract, u, a) = 0
      BY <2>1, <3>1 DEF Brought, ByWallet, Part
    <3>4. Earns(Ledger, before, u, a, 0)
      BY <1>9, <1>14, <3>1
    <3>5. debited = _updateBalance(swap.ledger, user, First(path), -swap.amountOut).ledger
          /\ credited = _updateBalance(debited, user, Last(path), swap.amountIn).ledger
      OBVIOUS
    <3>. HIDE DEF before, swap, debited, credited, L
    <3>6. Earns(before, swap.ledger, u, a, 0)
      BY <1>13, <1>14, <3>3
    <3>7. Earns(Ledger, swap.ledger, u, a, 0)
      <4>1. 0 \in Int /\ 0 + 0 = 0
        OBVIOUS
      <4>2. Earns(Ledger, swap.ledger, u, a, 0 + 0)
        BY <1>3, <1>8, <1>11, <3>4, <3>6, <4>1, EarnsChain
      <4>. QED BY <4>1, <4>2
    <3>. QED BY <1>2, <1>3, <1>10, <1>11, <1>14, <3>2, <3>5, <3>7, BalanceSwapEarns
  <2>2. CASE ~inContract /\ ~sentEnough
    <3>1. refund = 0 /\ L = Send(swap.ledger, user, ETH, refund) /\ ~fromExchange
      BY <2>2 DEF Refund, fromExchange
    <3>2. Earns(Ledger, before, u, a, 0)
      BY <1>9, <1>14, <2>2
    <3>3. Brought(swap, user, path, fromExchange, inContract, u, a)
            = Part(user, Last(path), swap.amountIn, u, a)
              - Part(user, First(path), swap.amountOut, u, a)
      BY <2>2, <3>1 DEF Brought, ByWallet
    <3>. HIDE DEF before, swap, refund, L
    <3>. DEFINE x == Brought(swap, user, path, fromExchange, inContract, u, a)
    <3>4. x \in Int /\ Earns(before, swap.ledger, u, a, x)
      BY <1>13, <1>14
    <3>5. swap.ledger.held[ETH] >= refund /\ refund \in Nat
      <4>1. swap.ledger.held \in [Assets -> Nat]
        BY <1>11 DEF LedgerType
      <4>. QED BY <1>2, <3>1, <4>1
    <3>6. /\ L \in LedgerType
          /\ Own(L, u, a) = Own(swap.ledger, u, a) + Part(user, ETH, refund, u, a)
      BY <1>2, <1>11, <3>1, <3>5, SendOwn
    <3>7. Part(user, ETH, refund, u, a) = 0
      BY <3>1 DEF Part
    <3>8. /\ Own(Ledger, u, a) \in Int /\ Own(before, u, a) \in Int
          /\ Own(swap.ledger, u, a) \in Int
      BY <1>3, <1>8, <1>11, OwnInt
    <3>. HIDE DEF x
    <3>9. Earns(Ledger, L, u, a, x)
      BY <3>2, <3>4, <3>6, <3>7, <3>8 DEF Earns
    <3>. QED BY <3>3, <3>9 DEF x
  <2>3. CASE ~inContract /\ sentEnough
    <3>1. fromExchange /\ before = withEther /\ First(path) = ETH /\ spend <= ethSent
      BY <1>4, <2>3 DEF fromExchange
    <3>2. L = Send(swap.ledger, user, ETH, refund) /\ swap.ledger.held[ETH] >= refund
      BY <1>1, <2>3
    <3>3. Brought(swap, user, path, fromExchange, inContract, u, a)
             = Part(user, Last(path), swap.amountIn, u, a)
      <4>1. Part(user, Last(path), swap.amountIn, u, a) \in Int
        BY <1>10 DEF Part
      <4>2. Brought(swap, user, path, fromExchange, inContract, u, a)
               = Part(user, Last(path), swap.amountIn, u, a) - 0
        BY <2>3, <3>1 DEF Brought, ByWallet, Part
      <4>. QED BY <4>1, <4>2
    <3>4. Earns(withEther, swap.ledger, u, a, Part(user, Last(path), swap.amountIn, u, a))
      BY <1>13, <1>14, <3>1, <3>3
    <3>5. spent \in Nat /\ (BaseUnit[ETH] = Unit => spent = swap.amountOut)
      BY <1>2, <1>10, ToBaseUnit
    <3>6. refund = IF value > spent THEN value - spent ELSE 0
      BY <2>3 DEF Refund
    <3>. HIDE DEF spent, swap, ethSent
    <3>7. refund \in Nat /\ (a = ETH => swap.amountOut + refund = value)
      <4>1. refund \in Nat
        BY <1>2, <3>5, <3>6
      <4>2. ASSUME a = ETH PROVE swap.amountOut + refund = value
        <5>1. spent = swap.amountOut /\ swap.amountOut <= value
          BY <1>2, <1>10, <1>12, <1>14, <3>1, <3>5, <4>2
        <5>. QED BY <1>2, <1>10, <3>6, <5>1
      <4>. QED BY <4>1, <4>2
    <3>. HIDE DEF withEther, refund, L
    <3>8. Earns(Ledger, Send(swap.ledger, user, ETH, refund), u, a,
                Part(user, Last(path), swap.amountIn, u, a)
                - Part(user, First(path), swap.amountOut, u, a))
      BY <1>2, <1>3, <1>7, <1>10, <1>11, <3>1, <3>2, <3>4, <3>7, EtherSwapEarns
    <3>. QED BY <3>2, <3>8
  <2>. QED BY <2>1, <2>2, <2>3
<1>15. L \in LedgerType
  <2>1. CASE inContract
    <3>1. debited = _updateBalance(swap.ledger, user, First(path), -swap.amountOut).ledger
          /\ credited = _updateBalance(debited, user, Last(path), swap.amountIn).ledger
          /\ L = credited
      BY <2>1
    <3>. HIDE DEF swap, debited, credited, L
    <3>2. -swap.amountOut \in Int /\ swap.amountIn \in Int
      BY <1>10
    <3>3. LedgerOK(debited)
      BY <1>2, <1>3, <1>11, <3>1, <3>2, UpdateBalanceOK
    <3>. QED BY <1>2, <1>3, <3>1, <3>2, <3>3, UpdateBalanceOK DEF LedgerOK
  <2>2. CASE ~inContract
    <3>1. L = Send(swap.ledger, user, ETH, refund)
      BY <2>2
    <3>2. refund \in Nat
      <4>1. spent \in Nat
        BY <1>2, <1>10, ToBaseUnit
      <4>. HIDE DEF spent, sentEnough
      <4>. QED BY <1>2, <4>1 DEF Refund
    <3>3. swap.ledger.held[ETH] >= refund
      <4>1. CASE sentEnough
        BY <1>1, <4>1
      <4>2. CASE ~sentEnough
        <5>1. refund = 0
          BY <4>2 DEF Refund
        <5>. HIDE DEF refund, swap
        <5>2. swap.ledger.held \in [Assets -> Nat]
          BY <1>11 DEF LedgerType
        <5>. QED BY <1>2, <5>1, <5>2
      <4>. QED BY <4>1, <4>2
    <3>. HIDE DEF swap, refund, L
    <3>. QED BY <1>2, <1>11, <3>1, <3>2, <3>3, SendFields
  <2>. QED BY <2>1, <2>2
<1>. HIDE DEF swap, L
<1>16. PoolSwap(user, request, L, swap.amountOut, swap.amountIn)
  BY <1>6, <1>12, <1>14 DEF PoolSwap, ExchangedFor
<1>. QED BY <1>1, <1>10, <1>15, <1>16, PoolSwapIsConsent

LEMMA PoolNextConsent == SidesAreKnown /\ PoolIInv /\ [PoolNext]_poolVars => [PoolConsent]_poolVars
<1>. SUFFICES ASSUME SidesAreKnown, PoolIInv, PoolNext PROVE PoolConsent \/ UNCHANGED poolVars
  OBVIOUS
<1>1. IInv
  BY DEF PoolIInv
<1>2. ConsentKept => PoolConsent
  BY DEF ConsentKept, PoolConsent
<1>3. CASE Next /\ UNCHANGED reserves
  BY <1>1, <1>2, <1>3, NextConsent
<1>4. ASSUME NEW m \in Users, NEW order \in Orders, NEW x \in PoolFillAmounts,
             NEW fee \in BlockchainFees, NEW path \in Paths,
             FillThroughOrionPool(m, order, x, fee, path)
      PROVE  PoolConsent
  <2>1. x \in Nat /\ fee \in Nat
    BY PoolAssumption DEF PoolAssumption
  <2>. QED BY <1>4, <2>1, FillThroughOrionPoolConsent
<1>5. ASSUME NEW u \in Users, NEW request \in PoolSwaps, SwapThroughOrionPool(u, request)
      PROVE  PoolConsent
  BY <1>5, SwapThroughOrionPoolConsent
<1>6. CASE MarketStep
  <2>1. UNCHANGED <<assetBalances, wallet, stakingData, filledAmounts>>
    BY <1>6 DEF MarketStep, vars
  <2>2. \A u \in Users, a \in Assets : Wealth(u, a)' = Wealth(u, a)
    BY <2>1 DEF Wealth, Staked
  <2>. QED BY <1>1, <1>2, <2>1, <2>2, NoChangeIsConsent DEF IInv
<1>. QED BY <1>3, <1>4, <1>5, <1>6 DEF PoolNext, PoolStep

(* Consent with the pool as the counterparty, for every path, all reserves and prices:
   a fill takes from its sender no more than the order grants for what it fills, under
   whatever fee it is recorded, a failed attempt no more than the fee, a swap no more
   than the request grants, and neither takes anything from anybody else. *)
THEOREM PoolOrdersAreHonoured == SidesAreKnown => (PoolSpec => PoolTermsHonoured)
<1>. SUFFICES ASSUME SidesAreKnown PROVE PoolSpec => PoolTermsHonoured
  OBVIOUS
<1>1. PoolIInv /\ [PoolNext]_poolVars =>
         [\A u \in Users :
             \/ \A a \in Assets : BaseUnit[a] = Unit =>
                   WealthChange(u, a) >= Due(u, a) \/ LiquidationPayment(u, a)
             \/ FilledByPool(u)
             \/ SwappedByUser(u)]_poolVars
  BY PoolNextConsent DEF PoolConsent
<1>. QED BY <1>1, PoolInvariance, PTL DEF PoolSpec, PoolTermsHonoured
===============================================================================
