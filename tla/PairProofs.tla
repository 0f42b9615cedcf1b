------------------------------ MODULE PairProofs ------------------------------
(***************************************************************************)
(* For every pair, fee and history: the quotes of the library are accepted *)
(* by the pair, the pair always has its reserves, no step takes value from *)
(* the shares of liquidity, and the fee of the protocol is within its      *)
(* bound.                                                                  *)
(***************************************************************************)
EXTENDS OrionPoolV2PairProperties, TLAPS, WellFoundedInduction

-------------------------------------------------------------------------------
(* Arithmetic. *)

LEMMA Quotient ==
    ASSUME NEW x \in Nat, NEW d \in Nat \ {0}
    PROVE  /\ x \div d \in Nat
           /\ (x \div d) * d <= x
           /\ x < (x \div d + 1) * d
OBVIOUS

LEMMA TimesNat ==
    ASSUME NEW x \in Nat, NEW y \in Nat
    PROVE  x * y \in Nat
OBVIOUS

LEMMA TimesMonotone ==
    ASSUME NEW x \in Nat, NEW y \in Nat, NEW u \in Nat, NEW v \in Nat, x <= u, y <= v
    PROVE  x * y <= u * v
<1>1. x * y <= u * y
  OBVIOUS
<1>2. u * y <= u * v
  OBVIOUS
<1>. QED BY <1>1, <1>2

LEMMA CancelFactor ==
    ASSUME NEW x \in Int, NEW y \in Int, NEW c \in Nat \ {0}, x * c <= y * c
    PROVE  x <= y
<1>1. SUFFICES ASSUME x > y PROVE FALSE
  OBVIOUS
<1>2. (x - y) * c > 0
  BY <1>1
<1>3. (x - y) * c = x * c - y * c
  OBVIOUS
<1>. QED BY <1>2, <1>3

LEMMA LeastOfNat ==
    ASSUME NEW T \in SUBSET Nat, T # {}
    PROVE  \E x \in T : \A y \in T : x <= y
<1>. DEFINE R == {pair \in Nat \X Nat : pair[1] < pair[2]}
<1>1. IsWellFoundedOn(R, Nat)
  BY NatLessThanWellFounded, Zenon DEF OpToRel
<1>2. PICK x \in T : \A y \in T : ~ (<<y, x>> \in R)
  BY <1>1, WFMin, Zenon
<1>3. \A y \in T : ~(y < x)
  BY <1>2
<1>. QED BY <1>3

-------------------------------------------------------------------------------
(* The loop of Math.sqrt (Math.sol:9-20). *)

IsRoot(y, r) == r * r <= y /\ y < (r + 1) * (r + 1)

Root(y) == CHOOSE r \in Nat : IsRoot(y, r)

(* Every number has a root, rounded down. *)
LEMMA RootExists ==
    ASSUME NEW y \in Nat
    PROVE  Root(y) \in Nat /\ IsRoot(y, Root(y))
<1>. DEFINE T == {z \in Nat : y < (z + 1) * (z + 1)}
<1>1. y \in T
  <2>1. (y + 1) * (y + 1) = y * y + y + y + 1
    OBVIOUS
  <2>2. y * y \in Nat
    OBVIOUS
  <2>. QED BY <2>1, <2>2
<1>2. PICK z \in T : \A w \in T : z <= w
  BY <1>1, LeastOfNat
<1>3. z * z <= y
  <2>1. CASE z = 0
    BY <2>1
  <2>2. CASE z > 0
    <3>1. z - 1 \in Nat /\ z - 1 \notin T
      BY <2>2, <1>2
    <3>2. ~(y < (z - 1 + 1) * (z - 1 + 1))
      BY <3>1
    <3>3. z - 1 + 1 = z
      OBVIOUS
    <3>. QED BY <3>2, <3>3
  <2>. QED BY <2>1, <2>2
<1>4. \E r \in Nat : IsRoot(y, r)
  BY <1>2, <1>3 DEF IsRoot
<1>. QED BY <1>4, Zenon DEF Root

(* A turn never goes below the root: the mean of x and y \div x. *)
LEMMA BetterIsEnough ==
    ASSUME NEW y \in Nat, NEW r \in Nat, IsRoot(y, r), NEW x \in Nat \ {0}
    PROVE  r <= (y \div x + x) \div 2
<1>. DEFINE q == y \div x
            d == r - x
<1>1. q \in Nat /\ y < (q + 1) * x
  BY Quotient
<1>2. r * r <= y
  BY DEF IsRoot
<1>3. d \in Int /\ x = r - d /\ d * d \in Nat
  <2>1. \A n \in Int : n * n \in Nat
    OBVIOUS
  <2>. QED BY <2>1
<1>. HIDE DEF q, d
<1>4. 2 * r <= q + x
  <2>1. SUFFICES ASSUME q + 1 <= r + d PROVE FALSE
    BY <1>1, <1>3
  <2>2. (q + 1) * x <= (r + d) * x
    BY <2>1, <1>1, <1>3
  <2>3. (r + d) * (r - d) = r * r - d * d
    BY <1>3
  <2>. DEFINE a == (q + 1) * x
              b == r * r
              c == d * d
  <2>4. a <= b - c
    BY <2>2, <2>3, <1>3
  <2>5. a \in Nat /\ b \in Nat /\ c \in Nat /\ b <= y /\ y < a
    BY <1>1, <1>2, <1>3, TimesNat
  <2>. HIDE DEF a, b, c
  <2>. QED BY <2>4, <2>5
<1>5. r <= (q + x) \div 2
  BY <1>1, <1>4
<1>. QED BY <1>5 DEF q

(* Above the root a turn makes the guess smaller, at the root it does not. *)
LEMMA BetterIsSmaller ==
    ASSUME NEW y \in Nat, NEW r \in Nat, IsRoot(y, r), NEW x \in Nat \ {0}, r < x
    PROVE  (y \div x + x) \div 2 < x
<1>1. y \div x \in Nat /\ (y \div x) * x <= y
  BY Quotient
<1>2. y < x * x
  <2>1. (r + 1) * (r + 1) <= x * x
    BY TimesMonotone
  <2>2. y < (r + 1) * (r + 1) /\ (r + 1) * (r + 1) \in Nat /\ x * x \in Nat
    BY TimesNat DEF IsRoot
  <2>. QED BY <2>1, <2>2
<1>. DEFINE q == y \div x
<1>3. q \in Nat /\ q * x < x * x
  <2>1. q * x \in Nat /\ x * x \in Nat
    BY <1>1, TimesNat
  <2>. QED BY <1>1, <1>2, <2>1
<1>. HIDE DEF q
<1>4. q < x
  <2>1. SUFFICES ASSUME x <= q PROVE FALSE
    BY <1>3
  <2>2. x * x <= q * x
    BY <2>1, <1>3, TimesMonotone
  <2>. QED BY <2>2, <1>3, TimesNat
<1>5. (q + x) \div 2 < x
  BY <1>3, <1>4
<1>. QED BY <1>5 DEF q

LEMMA RootIsKept ==
    ASSUME NEW y \in Nat, NEW r \in Nat, IsRoot(y, r), NEW x \in Nat \ {0}, x <= r
    PROVE  x <= (y \div x + x) \div 2
<1>. DEFINE q == y \div x
<1>1. q \in Nat /\ y < (q + 1) * x
  BY Quotient
<1>. HIDE DEF q
<1>2. x * x < (q + 1) * x
  <2>1. x * x <= r * r
    BY TimesMonotone
  <2>2. r * r <= y /\ r * r \in Nat /\ x * x \in Nat /\ (q + 1) * x \in Nat
    BY <1>1, TimesNat DEF IsRoot
  <2>. QED BY <1>1, <2>1, <2>2
<1>3. x < q + 1
  <2>1. SUFFICES ASSUME q + 1 <= x PROVE FALSE
    BY <1>1
  <2>2. (q + 1) * x <= x * x
    BY <2>1, <1>1, TimesMonotone
  <2>. QED BY <2>2, <1>1, <1>2, TimesNat
<1>4. x <= (q + x) \div 2
  BY <1>1, <1>3
<1>. QED BY <1>4 DEF q

LEMMA BetterGuessType ==
    ASSUME NEW guess \in SqrtGuess
    PROVE  /\ BetterGuess(guess) \in SqrtGuess
           /\ BetterGuess(guess).y = guess.y
           /\ BetterGuess(guess).x = (guess.y \div guess.x + guess.x) \div 2
           /\ BetterGuess(guess).z = guess.x
<1>. DEFINE y == guess.y
            x == guess.x
            better == (y \div x + x) \div 2
<1>1. y \in Nat \ {0} /\ x \in Nat \ {0} /\ guess.z \in Nat
  BY DEF SqrtGuess
<1>. HIDE DEF y, x
<1>2. y \div x \in Nat /\ y < (y \div x + 1) * x
  BY <1>1, Quotient
<1>3. better \in Nat \ {0}
  <2>1. CASE x = 1
    BY <2>1, <1>1, <1>2
  <2>2. CASE x # 1
    BY <2>2, <1>1, <1>2
  <2>. QED BY <2>1, <2>2
<1>. HIDE DEF better
<1>4. BetterGuess(guess) = [guess EXCEPT !.x = better, !.z = x]
  BY DEF BetterGuess, better, x, y
<1>5. guess = [y |-> y, x |-> x, z |-> guess.z]
  BY DEF SqrtGuess, x, y
<1>. QED BY <1>1, <1>3, <1>4, <1>5 DEF SqrtGuess, better, x, y

(* One turn of the loop, and a function that is what all its turns end with:
   there is one, so that SqrtLoop is one. *)
LoopOf(f) == [guess \in SqrtGuess |-> IF guess.x < guess.z THEN f[BetterGuess(guess)] ELSE guess.z]

LoopEnd(guess) ==
    IF guess.x < guess.z THEN (IF guess.x <= Root(guess.y) THEN guess.x ELSE Root(guess.y))
    ELSE guess.z

LEMMA SqrtLoopTurns == SqrtLoop = LoopOf(SqrtLoop)
<1>. DEFINE f == [guess \in SqrtGuess |-> LoopEnd(guess)]
<1>1. ASSUME NEW guess \in SqrtGuess
      PROVE  LoopEnd(guess) = IF guess.x < guess.z THEN LoopEnd(BetterGuess(guess)) ELSE guess.z
  <2>1. CASE ~(guess.x < guess.z)
    BY <2>1 DEF LoopEnd
  <2>2. CASE guess.x < guess.z
    <3>. DEFINE y == guess.y
                x == guess.x
                r == Root(y)
                better == (y \div x + x) \div 2
    <3>1. y \in Nat /\ x \in Nat \ {0} /\ r \in Nat /\ IsRoot(y, r)
      BY RootExists DEF SqrtGuess
    <3>2. better \in Nat /\ LoopEnd(BetterGuess(guess))
            = IF better < x THEN (IF better <= r THEN better ELSE r) ELSE x
      BY BetterGuessType DEF LoopEnd, SqrtGuess
    <3>3. LoopEnd(guess) = IF x <= r THEN x ELSE r
      BY <2>2 DEF LoopEnd
    <3>4. CASE x <= r
      <4>1. x <= better
        BY <3>1, <3>4, RootIsKept
      <4>. HIDE DEF better, x, r
      <4>. QED BY <2>2, <3>1, <3>2, <3>3, <3>4, <4>1 DEF x
    <3>5. CASE r < x
      <4>1. better < x
        BY <3>1, <3>5, BetterIsSmaller
      <4>2. r <= better
        BY <3>1, BetterIsEnough
      <4>. HIDE DEF better, x, r
      <4>. QED BY <2>2, <3>1, <3>2, <3>3, <3>5, <4>1, <4>2 DEF x
    <3>. HIDE DEF x, r
    <3>. QED BY <3>1, <3>4, <3>5
  <2>. QED BY <2>1, <2>2
<1>2. \A guess \in SqrtGuess :
         f[guess] = IF guess.x < guess.z THEN f[BetterGuess(guess)] ELSE guess.z
  BY <1>1, BetterGuessType
<1>3. f = LoopOf(f)
  BY <1>2 DEF LoopOf
<1>. HIDE DEF f
<1>4. SqrtLoop = CHOOSE g : g = LoopOf(g)
  BY DEF SqrtLoop, LoopOf
<1>. QED BY <1>3, <1>4, Zenon

(* What holds before every turn: neither guess is below the root, and the loop
   does not end before it is there. *)
AboveRoot(guess) ==
    /\ Root(guess.y) <= guess.x
    /\ Root(guess.y) <= guess.z
    /\ guess.z <= guess.x => guess.z = Root(guess.y)

LEMMA TurnKeepsAbove ==
    ASSUME NEW guess \in SqrtGuess, AboveRoot(guess)
    PROVE  AboveRoot(BetterGuess(guess))
<1>. DEFINE y == guess.y
            x == guess.x
            r == Root(y)
            better == (y \div x + x) \div 2
<1>1. y \in Nat /\ x \in Nat \ {0} /\ r \in Nat /\ IsRoot(y, r)
  BY RootExists DEF SqrtGuess
<1>2. r <= x
  BY DEF AboveRoot
<1>3. r <= better
  BY <1>1, BetterIsEnough
<1>4. r < x => better < x
  BY <1>1, BetterIsSmaller
<1>5. BetterGuess(guess).x = better /\ BetterGuess(guess).z = x /\ BetterGuess(guess).y = y
      /\ better \in Nat
  BY BetterGuessType DEF SqrtGuess
<1>6. x <= better => x = r
  <2>. HIDE DEF better, x, r
  <2>. QED BY <1>1, <1>2, <1>4, <1>5
<1>. QED BY <1>2, <1>3, <1>5, <1>6 DEF AboveRoot

(* z gets smaller in every turn: there is no least one from which the loop
   does not end at the root. *)
LEMMA SqrtLoopEndsAtRoot ==
    ASSUME NEW guess \in SqrtGuess, AboveRoot(guess)
    PROVE  SqrtLoop[guess] = Root(guess.y)
<1>. DEFINE Wrong(g) == g \in SqrtGuess /\ AboveRoot(g) /\ SqrtLoop[g] # Root(g.y)
            T == {z \in Nat : \E g \in SqrtGuess : Wrong(g) /\ g.z = z}
<1>1. SUFFICES ASSUME Wrong(guess) PROVE FALSE
  OBVIOUS
<1>2. guess.z \in T
  BY <1>1 DEF SqrtGuess
<1>3. PICK z \in T : \A w \in T : z <= w
  <2>. HIDE DEF T
  <2>1. T \in SUBSET Nat
    BY DEF T
  <2>. QED BY <1>2, <2>1, LeastOfNat
<1>4. PICK g \in SqrtGuess : Wrong(g) /\ g.z = z
  BY <1>3
<1>5. SqrtLoop[g] = IF g.x < g.z THEN SqrtLoop[BetterGuess(g)] ELSE g.z
  BY SqrtLoopTurns DEF LoopOf
<1>6. g.x \in Nat /\ g.z \in Nat /\ g.y \in Nat
  BY DEF SqrtGuess
<1>7. CASE ~(g.x < g.z)
  <2>1. g.z = Root(g.y)
    BY <1>4, <1>6, <1>7 DEF AboveRoot
  <2>. QED BY <1>4, <1>5, <1>7, <2>1
<1>8. CASE g.x < g.z
  <2>. DEFINE next == BetterGuess(g)
  <2>1. next \in SqrtGuess /\ next.y = g.y /\ next.z = g.x /\ AboveRoot(next)
    BY <1>4, BetterGuessType, TurnKeepsAbove
  <2>2. SqrtLoop[next] # Root(next.y)
    BY <1>4, <1>5, <1>8, <2>1
  <2>. HIDE DEF next
  <2>3. g.x \in T
    BY <1>6, <2>1, <2>2
  <2>. QED BY <1>3, <1>4, <1>6, <1>8, <2>3
<1>. QED BY <1>7, <1>8

(* For every number the loop of Math.sqrt comes to an end, with its root
   rounded down. *)
THEOREM SqrtIsRoot ==
    ASSUME NEW y \in Nat
    PROVE  /\ sqrt(y) \in Nat
           /\ sqrt(y) * sqrt(y) <= y
           /\ y < (sqrt(y) + 1) * (sqrt(y) + 1)
<1>1. CASE y > 3
  <2>. DEFINE guess == [y |-> y, x |-> y \div 2 + 1, z |-> y]
              r == Root(y)
  <2>1. r \in Nat /\ IsRoot(y, r)
    BY RootExists
  <2>2. guess \in SqrtGuess /\ guess.y = y /\ guess.x = y \div 2 + 1 /\ guess.z = y
    BY <1>1 DEF SqrtGuess
  <2>3. r <= y \div 2 + 1
    <3>. DEFINE q == y \div 2
    <3>1. q \in Nat /\ y <= 2 * q + 1
      OBVIOUS
    <3>2. r * r <= y
      BY <2>1 DEF IsRoot
    <3>. HIDE DEF q, r
    <3>3. SUFFICES ASSUME q + 2 <= r PROVE FALSE
      BY <2>1, <3>1 DEF q
    <3>4. (q + 2) * (q + 2) <= r * r
      BY <2>1, <3>1, <3>3, TimesMonotone
    <3>5. (q + 2) * (q + 2) = q * q + 4 * q + 4 /\ q * q \in Nat /\ r * r \in Nat
      BY <2>1, <3>1, TimesNat
    <3>. QED BY <3>1, <3>2, <3>4, <3>5
  <2>4. r <= y /\ y \div 2 + 1 < y
    BY <1>1, <2>1, <2>3
  <2>5. AboveRoot(guess)
    BY <2>2, <2>3, <2>4 DEF AboveRoot
  <2>6. SqrtLoop[guess] = r
    BY <2>2, <2>5, SqrtLoopEndsAtRoot
  <2>7. sqrt(y) = SqrtLoop[guess]
    BY <1>1 DEF sqrt
  <2>. HIDE DEF r, guess
  <2>. QED BY <2>1, <2>6, <2>7 DEF IsRoot
<1>2. CASE y \in 1..3
  <2>1. sqrt(y) = 1
    BY <1>2 DEF sqrt
  <2>. QED BY <1>2, <2>1
<1>3. CASE y = 0
  <2>1. sqrt(y) = 0
    BY <1>3 DEF sqrt
  <2>. QED BY <1>3, <2>1
<1>. QED BY <1>1, <1>2, <1>3

-------------------------------------------------------------------------------
(* The quotes. *)

LEMMA FeeFacts == FeeBase \in Nat \ {0} /\ SwapFee \in Nat /\ FeeBase - SwapFee \in Nat \ {0}
BY FeeAssumption DEF FeeAssumption

(* getAmountOut never empties a reserve: what the pair requires of a swap
   (OrionPoolV2Pair.sol:160). *)
THEOREM OutputBelowReserve ==
    ASSUME NEW amountIn \in Nat, NEW reserveIn \in Nat, NEW reserveOut \in Nat \ {0}
    PROVE  getAmountOut(amountIn, reserveIn, reserveOut) \in 0 .. reserveOut - 1
<1>1. CASE ~(amountIn > 0 /\ reserveIn > 0)
  BY <1>1 DEF getAmountOut
<1>2. CASE amountIn > 0 /\ reserveIn > 0
  <2>. DEFINE W == AmountWithFee(amountIn)
              D == reserveIn * FeeBase + W
              out == (W * reserveOut) \div D
  <2>1. W \in Nat /\ reserveIn * FeeBase \in Nat \ {0}
    BY <1>2, FeeFacts, TimesNat DEF AmountWithFee
  <2>2. D \in Nat \ {0} /\ W < D
    BY <2>1
  <2>. HIDE DEF W, D
  <2>3. W * reserveOut \in Nat
    BY <2>1, TimesNat
  <2>4. out \in Nat /\ out * D <= W * reserveOut
    BY <2>2, <2>3, Quotient
  <2>5. W * reserveOut < D * reserveOut
    BY <2>1, <2>2
  <2>. HIDE DEF out
  <2>6. out < reserveOut
    <3>1. SUFFICES ASSUME reserveOut <= out PROVE FALSE
      BY <2>4
    <3>2. reserveOut * D <= out * D
      BY <3>1, <2>2, <2>4
    <3>3. reserveOut * D = D * reserveOut
      BY <2>2
    <3>. QED BY <3>2, <3>3, <2>4, <2>5, <2>2, <2>3
  <2>7. getAmountOut(amountIn, reserveIn, reserveOut) = out
    BY <1>2 DEF getAmountOut, out, W, D
  <2>. QED BY <2>4, <2>6, <2>7
<1>. QED BY <1>1, <1>2

(* A swap for what getAmountOut quotes passes the check of the pair. *)
THEOREM QuoteKeepsProduct ==
    ASSUME NEW amountIn \in Nat, NEW reserveIn \in Nat, NEW reserveOut \in Nat \ {0}
    PROVE  LET quote == getAmountOut(amountIn, reserveIn, reserveOut)
           IN KeepsProduct(reserveIn + amountIn, reserveOut - quote, amountIn, 0,
                           reserveIn, reserveOut)
<1>. DEFINE W == AmountWithFee(amountIn)
            D == reserveIn * FeeBase + W
            R == reserveIn * FeeBase
            out == getAmountOut(amountIn, reserveIn, reserveOut)
<1>1. W \in Nat /\ R \in Nat /\ D \in Nat /\ D = R + W
  BY FeeFacts, TimesNat DEF AmountWithFee
<1>2. out \in Nat /\ out < reserveOut
  BY OutputBelowReserve
<1>3. (reserveIn + amountIn) * FeeBase - amountIn * SwapFee = D
  BY FeeFacts DEF AmountWithFee
<1>4. out * D <= W * reserveOut
  <2>1. CASE out = 0
    BY <2>1, <1>1, TimesNat
  <2>2. CASE out # 0
    <3>1. amountIn > 0 /\ reserveIn > 0
      BY <2>2 DEF getAmountOut
    <3>2. out = (W * reserveOut) \div D
      BY <3>1 DEF getAmountOut
    <3>3. D \in Nat \ {0}
      BY <3>1, <1>1, FeeFacts, TimesNat
    <3>4. W * reserveOut \in Nat
      BY <1>1, TimesNat
    <3>. HIDE DEF W, D, R, out
    <3>. QED BY <3>2, <3>3, <3>4, Quotient
  <2>. QED BY <2>1, <2>2
<1>. HIDE DEF W, D, out
<1>5. D * (reserveOut - out) = D * reserveOut - out * D
  BY <1>1, <1>2
<1>6. D * reserveOut = R * reserveOut + W * reserveOut
  BY <1>1
<1>7. R * reserveOut <= D * (reserveOut - out)
  <2>1. {D * reserveOut, out * D, R * reserveOut, W * reserveOut} \subseteq Nat
    BY <1>1, <1>2, TimesNat
  <2>. QED BY <2>1, <1>4, <1>5, <1>6
<1>8. (R * reserveOut) * FeeBase <= (D * (reserveOut - out)) * FeeBase
  <2>1. R * reserveOut \in Nat /\ D * (reserveOut - out) \in Nat
    BY <1>1, <1>2, TimesNat
  <2>. QED BY <2>1, <1>7, FeeFacts, TimesMonotone
<1>9. (R * reserveOut) * FeeBase = reserveIn * reserveOut * FeeBase * FeeBase
  BY FeeFacts
<1>10. (D * (reserveOut - out)) * FeeBase = D * ((reserveOut - out) * FeeBase - 0 * SwapFee)
  BY <1>1, <1>2, FeeFacts
<1>. QED BY <1>3, <1>8, <1>9, <1>10 DEF KeepsProduct, out

(* A swap for what getAmountIn quotes passes it as well. *)
THEOREM QuotedInputKeepsProduct ==
    ASSUME NEW amountOut \in Nat, NEW reserveIn \in Nat, NEW reserveOut \in Nat,
           getAmountIn(amountOut, reserveIn, reserveOut) > 0
    PROVE  LET quote == getAmountIn(amountOut, reserveIn, reserveOut)
           IN KeepsProduct(reserveIn + quote, reserveOut - amountOut, quote, 0,
                           reserveIn, reserveOut)
<1>. DEFINE F == FeeBase - SwapFee
            S == reserveOut - amountOut
            num == reserveIn * amountOut * FeeBase
            den == S * F
            quote == getAmountIn(amountOut, reserveIn, reserveOut)
            R == reserveIn * FeeBase
            E == R + quote * F
<1>1. amountOut > 0 /\ reserveIn > 0 /\ amountOut < reserveOut
  BY DEF getAmountIn
<1>2. F \in Nat \ {0} /\ S \in Nat \ {0} /\ num \in Nat /\ den \in Nat \ {0} /\ R \in Nat
  <2>1. F \in Nat \ {0} /\ S \in Nat \ {0}
    BY <1>1, FeeFacts
  <2>2. num \in Nat /\ R \in Nat
    BY FeeFacts, TimesNat
  <2>3. den \in Nat \ {0}
    BY <2>1
  <2>. QED BY <2>1, <2>2, <2>3
<1>3. quote = num \div den + 1
  BY <1>1 DEF getAmountIn
<1>4. quote \in Nat /\ num < quote * den
  <2>. HIDE DEF num, den, quote
  <2>1. num \div den \in Nat /\ num < (num \div den + 1) * den
    BY <1>2, Quotient
  <2>. QED BY <2>1, <1>3
<1>5. (reserveIn + quote) * FeeBase - quote * SwapFee = E
  <2>. HIDE DEF quote
  <2>. QED BY <1>4, FeeFacts
<1>. HIDE DEF quote
<1>6. E * S = R * S + quote * den
  <2>. HIDE DEF R, S, F
  <2>1. E * S = R * S + (quote * F) * S
    BY <1>2, <1>4
  <2>2. (quote * F) * S = quote * (S * F)
    BY <1>2, <1>4
  <2>. QED BY <2>1, <2>2
<1>7. R * S + num = R * reserveOut
  <2>1. num = R * amountOut
    BY FeeFacts
  <2>. HIDE DEF R, num
  <2>2. R * S + R * amountOut = R * reserveOut
    BY <1>2
  <2>. QED BY <2>1, <2>2
<1>8. R * reserveOut <= E * S /\ E \in Nat
  <2>1. {R * S, quote * den, num, R * reserveOut} \subseteq Nat
    BY <1>2, <1>4, TimesNat
  <2>2. E \in Nat
    BY <1>2, <1>4, TimesNat
  <2>. HIDE DEF R, S, num, den, E
  <2>. QED BY <2>1, <2>2, <1>4, <1>6, <1>7
<1>9. (R * reserveOut) * FeeBase <= (E * S) * FeeBase
  <2>1. R * reserveOut \in Nat /\ E * S \in Nat
    BY <1>2, <1>8, TimesNat
  <2>. HIDE DEF R, E, S
  <2>. QED BY <2>1, <1>8, FeeFacts, TimesMonotone
<1>10. (R * reserveOut) * FeeBase = reserveIn * reserveOut * FeeBase * FeeBase
  BY FeeFacts
<1>11. (E * S) * FeeBase = E * (S * FeeBase - 0 * SwapFee)
  <2>. HIDE DEF E, S
  <2>. QED BY <1>2, <1>8, FeeFacts
<1>. QED BY <1>5, <1>9, <1>10, <1>11 DEF KeepsProduct, quote

-------------------------------------------------------------------------------
(* The invariant: the types, and a swap in progress remembers reserves that
   the pair had, and that it still records. *)

SwapRecords ==
    [amountOut : [Tokens -> Nat], reserve : [Tokens -> Nat], balance : [Tokens -> Nat],
     balanceOf : [Holders -> Nat], holdings : [Accounts -> [Tokens -> Nat]]]

SwapOK ==
    unlocked \/ /\ inSwap \in SwapRecords
                /\ inSwap.reserve = reserve
                /\ \A t \in Tokens : /\ inSwap.amountOut[t] < reserve[t]
                                      /\ reserve[t] <= inSwap.balance[t]

PairInv == PairTypeOK /\ SwapOK /\ ReservesCovered

LEMMA InitPairInv == PairInit => PairInv
BY PairAssumption DEF PairAssumption, PairInit, PairInv, PairTypeOK, SwapOK, ReservesCovered,
   Holders, unlocked

LEMMA ProductType ==
    ASSUME NEW amounts \in [Tokens -> Nat]
    PROVE  Product(amounts) \in Nat
BY TimesNat DEF Product, Tokens

(* The fee of the protocol is a number of shares. *)
LEMMA FeeType ==
    ASSUME PairTypeOK
    PROVE  /\ FeeLiquidity \in Nat
           /\ SupplyWithFee \in Nat
           /\ WithFeeMinted \in [Holders -> Nat]
           /\ feeTo = NoOne => FeeLiquidity = 0
<1>1. FeeLiquidity \in Nat
  <2>. DEFINE rootK == sqrt(Product(reserve))
              rootKLast == sqrt(kLast)
  <2>1. rootK \in Nat /\ rootKLast \in Nat
    BY ProductType, SqrtIsRoot DEF PairTypeOK
  <2>. HIDE DEF rootK, rootKLast
  <2>2. CASE rootK <= rootKLast
    BY <2>2 DEF FeeLiquidity, rootK, rootKLast
  <2>3. CASE rootK > rootKLast
    <3>1. rootK - rootKLast \in Nat /\ 2 * rootK + rootKLast \in Nat \ {0}
      BY <2>1, <2>3
    <3>2. totalSupply * (rootK - rootKLast) \in Nat
      BY <3>1, TimesNat DEF PairTypeOK
    <3>3. (totalSupply * (rootK - rootKLast)) \div (2 * rootK + rootKLast) \in Nat
      BY <3>1, <3>2, Quotient
    <3>. QED BY <3>3 DEF FeeLiquidity, rootK, rootKLast
  <2>. QED BY <2>1, <2>2, <2>3
<1>2. SupplyWithFee \in Nat
  BY <1>1 DEF SupplyWithFee, PairTypeOK
<1>3. WithFeeMinted \in [Holders -> Nat]
  BY <1>1 DEF WithFeeMinted, PairTypeOK, Holders
<1>. QED BY <1>1, <1>2, <1>3 DEF FeeLiquidity

LEMMA SharesType ==
    ASSUME PairTypeOK, NEW amount \in [Tokens -> Nat], \A t \in Tokens : reserve[t] > 0
    PROVE  /\ Shares(amount) \in Nat
           /\ \A t \in Tokens : Shares(amount) * reserve[t] <= amount[t] * SupplyWithFee
<1>. DEFINE share(t) == (amount[t] * SupplyWithFee) \div reserve[t]
<1>1. \A t \in Tokens : share(t) \in Nat /\ share(t) * reserve[t] <= amount[t] * SupplyWithFee
  <2>. SUFFICES ASSUME NEW t \in Tokens
                PROVE  share(t) \in Nat /\ share(t) * reserve[t] <= amount[t] * SupplyWithFee
    OBVIOUS
  <2>1. amount[t] * SupplyWithFee \in Nat /\ reserve[t] \in Nat \ {0}
    BY FeeType, TimesNat DEF PairTypeOK
  <2>. QED BY <2>1, Quotient
<1>. HIDE DEF share
<1>2. Shares(amount) = Lesser(share(token0), share(token1))
  BY DEF Shares, share
<1>3. \A t \in Tokens : Shares(amount) \in Nat /\ Shares(amount) <= share(t)
  BY <1>1, <1>2 DEF Lesser, Tokens
<1>4. \A t \in Tokens : Shares(amount) * reserve[t] <= share(t) * reserve[t]
  BY <1>1, <1>3, TimesMonotone DEF PairTypeOK
<1>5. \A t \in Tokens : Shares(amount) * reserve[t] \in Nat /\ share(t) * reserve[t] \in Nat
                         /\ amount[t] * SupplyWithFee \in Nat
  BY <1>1, <1>3, FeeType, TimesNat DEF PairTypeOK
<1>6. Shares(amount) \in Nat
  BY <1>3 DEF Tokens
<1>. QED BY <1>1, <1>4, <1>5, <1>6

-------------------------------------------------------------------------------
(* One lemma per operation. *)

LEMMA MintInv ==
    ASSUME PairInv, NEW to \in Accounts, mint(to)
    PROVE  PairInv'
<1>. USE DEF PairInv
<1>1. Sent \in [Tokens -> Nat]
  BY DEF Sent, mint, PairTypeOK
<1>2. balanceOf' \in [Holders -> Nat] /\ totalSupply' \in Nat
  <2>1. CASE mintFirst(to)
    <3>1. sqrt(Product(Sent)) \in Nat
      BY <1>1, ProductType, SqrtIsRoot
    <3>. QED BY <3>1, <2>1, PairAssumption DEF mintFirst, PairAssumption, PairTypeOK, Holders
  <2>2. CASE mintMore(to)
    <3>1. Shares(Sent) \in Nat
      BY <2>2, <1>1, SharesType DEF mintMore
    <3>. QED BY <3>1, <2>2, FeeType DEF mintMore, Holders
  <2>. QED BY <2>1, <2>2 DEF mint
<1>3. kLast' \in Nat
  BY ProductType DEF mint, UpdateKLast, PairTypeOK
<1>4. PairTypeOK'
  BY <1>2, <1>3 DEF mint, Update, PairTypeOK
<1>5. SwapOK' /\ ReservesCovered'
  BY DEF mint, Update, SwapOK, ReservesCovered, PairTypeOK, unlocked
<1>. QED BY <1>4, <1>5

(* What is left in a pair after liquidity has been burnt. *)
LEMMA BurnShare ==
    ASSUME NEW liquidity \in Nat, NEW supply \in Nat \ {0}, liquidity <= supply,
           NEW b \in Nat
    PROVE  LET amount == (liquidity * b) \div supply
           IN /\ amount \in Nat
              /\ amount <= b
              /\ b * (supply - liquidity) <= (b - amount) * supply
<1>. DEFINE amount == (liquidity * b) \div supply
<1>1. liquidity * b \in Nat
  BY TimesNat
<1>2. amount \in Nat /\ amount * supply <= liquidity * b
  BY <1>1, Quotient
<1>. HIDE DEF amount
<1>3. liquidity * b <= supply * b
  BY TimesMonotone
<1>4. amount <= b
  <2>1. supply * b = b * supply
    OBVIOUS
  <2>2. amount * supply <= b * supply
    BY <1>1, <1>2, <1>3, <2>1, TimesNat
  <2>. QED BY <2>2, <1>2, CancelFactor
<1>5. b * (supply - liquidity) = b * supply - liquidity * b
  OBVIOUS
<1>6. (b - amount) * supply = b * supply - amount * supply
  BY <1>2
<1>7. b * supply \in Nat /\ amount * supply \in Nat
  BY <1>2, TimesNat
<1>8. b * (supply - liquidity) <= (b - amount) * supply
  BY <1>1, <1>2, <1>5, <1>6, <1>7
<1>. QED BY <1>2, <1>4, <1>8 DEF amount

LEMMA BurnLeft ==
    ASSUME PairInv, NEW to \in Accounts, burn(to)
    PROVE  /\ balance' \in [Tokens -> Nat]
           /\ \A t \in Tokens :
                 balance[t] * (SupplyWithFee - balanceOf[Pair]) <= balance'[t] * SupplyWithFee
           /\ SupplyWithFee \in Nat \ {0}
           /\ balanceOf[Pair] \in Nat /\ balanceOf[Pair] <= SupplyWithFee
           /\ totalSupply' = SupplyWithFee - balanceOf[Pair]
           /\ reserve' = balance'
           /\ \A t \in Tokens :
                 (balanceOf[Pair] * balance[t]) \div SupplyWithFee \in Nat
<1>. DEFINE amount == [t \in Tokens |-> (balanceOf[Pair] * balance[t]) \div SupplyWithFee]
<1>1. SupplyWithFee \in Nat \ {0}
  BY FeeType DEF PairInv, burn, SupplyWithFee, PairTypeOK
<1>2. balanceOf[Pair] \in Nat /\ balanceOf[Pair] <= SupplyWithFee
  BY DEF PairInv, burn, PairTypeOK, Holders
<1>3. \A t \in Tokens :
        /\ amount[t] \in Nat
        /\ amount[t] <= balance[t]
        /\ balance[t] * (SupplyWithFee - balanceOf[Pair]) <= (balance[t] - amount[t]) * SupplyWithFee
  BY <1>1, <1>2, BurnShare DEF PairInv, PairTypeOK
<1>. HIDE DEF amount
<1>4. balance' = [t \in Tokens |-> balance[t] - amount[t]] /\ reserve' = balance'
  BY DEF burn, Update, amount
<1>5. balance' \in [Tokens -> Nat]
  BY <1>3, <1>4 DEF PairInv, PairTypeOK
<1>6. totalSupply' = SupplyWithFee - balanceOf[Pair]
  BY DEF burn
<1>. QED BY <1>1, <1>2, <1>3, <1>4, <1>5, <1>6 DEF amount

LEMMA BurnInv ==
    ASSUME PairInv, NEW to \in Accounts, burn(to)
    PROVE  PairInv'
<1>. USE DEF PairInv
<1>. DEFINE amount == [t \in Tokens |-> (balanceOf[Pair] * balance[t]) \div SupplyWithFee]
<1>1. balance' \in [Tokens -> Nat] /\ reserve' = balance' /\ amount \in [Tokens -> Nat]
  BY BurnLeft
<1>2. holdings' \in [Accounts -> [Tokens -> Nat]]
  <2>1. holdings' = [holdings EXCEPT ![to] = [t \in Tokens |-> @[t] + amount[t]]]
    BY DEF burn
  <2>. HIDE DEF amount
  <2>. QED BY <1>1, <2>1 DEF PairTypeOK
<1>3. balanceOf' \in [Holders -> Nat]
  <2>1. WithFeeMinted \in [Holders -> Nat] /\ WithFeeMinted[Pair] = balanceOf[Pair]
    BY FeeType, PairAssumption DEF WithFeeMinted, PairTypeOK, PairAssumption, Holders
  <2>2. balanceOf' = [WithFeeMinted EXCEPT ![Pair] = @ - balanceOf[Pair]]
    BY DEF burn
  <2>. QED BY <2>1, <2>2 DEF PairTypeOK, Holders
<1>4. totalSupply' \in Nat
  BY BurnLeft
<1>5. kLast' \in Nat
  <2>1. kLast' = IF feeTo = NoOne THEN 0 ELSE Product(balance')
    BY DEF burn, UpdateKLast, Update
  <2>. QED BY <1>1, <2>1, ProductType
<1>6. PairTypeOK'
  BY <1>1, <1>2, <1>3, <1>4, <1>5 DEF burn, PairTypeOK
<1>7. SwapOK' /\ ReservesCovered'
  BY <1>1 DEF burn, SwapOK, ReservesCovered, unlocked
<1>. QED BY <1>6, <1>7

LEMMA SwapStartInv ==
    ASSUME PairInv, NEW out \in [Tokens -> SwapAmounts], NEW to \in Accounts,
           SwapStart(out, to)
    PROVE  PairInv'
<1>. USE DEF PairInv
<1>1. out \in [Tokens -> Nat]
  BY PairAssumption DEF PairAssumption
<1>2. inSwap' = [amountOut |-> out, reserve |-> reserve, balance |-> balance,
                 balanceOf |-> balanceOf, holdings |-> holdings]
  BY DEF SwapStart
<1>3. ~unlocked'
  <2>1. PICK t \in Tokens : out[t] > 0
    BY DEF SwapStart
  <2>2. inSwap'.amountOut[t] # NotInSwap.amountOut[t]
    BY <1>2, <2>1 DEF NotInSwap
  <2>. QED BY <2>2 DEF unlocked
<1>4. SwapOK'
  BY <1>1, <1>2, <1>3 DEF SwapStart, SwapOK, SwapRecords, ReservesCovered, PairTypeOK, unlocked
<1>5. PairTypeOK'
  BY <1>1 DEF SwapStart, PairTypeOK
<1>. QED BY <1>3, <1>4, <1>5 DEF ReservesCovered

LEMMA SwapEndInv ==
    ASSUME PairInv, SwapEnd
    PROVE  PairInv'
<1>. USE DEF PairInv
<1>1. PairTypeOK'
  BY DEF SwapEnd, Update, PairTypeOK
<1>. QED BY <1>1 DEF SwapEnd, Update, SwapOK, ReservesCovered, PairTypeOK, unlocked, NotInSwap

LEMMA SwapRevertInv ==
    ASSUME PairInv, SwapRevert
    PROVE  PairInv'
<1>. USE DEF PairInv
<1>1. inSwap \in SwapRecords /\ \A t \in Tokens : reserve[t] <= inSwap.balance[t]
  BY DEF SwapRevert, SwapOK
<1>2. PairTypeOK'
  BY <1>1 DEF SwapRevert, SwapRecords, PairTypeOK
<1>. QED BY <1>1, <1>2 DEF SwapRevert, SwapOK, ReservesCovered, PairTypeOK, unlocked, NotInSwap

LEMMA SyncInv ==
    ASSUME PairInv, sync
    PROVE  PairInv'
BY DEF PairInv, sync, Update, PairTypeOK, SwapOK, ReservesCovered, unlocked

LEMMA SkimInv ==
    ASSUME PairInv, NEW to \in Accounts, skim(to)
    PROVE  PairInv'
<1>. USE DEF PairInv
<1>1. Sent \in [Tokens -> Nat]
  BY DEF Sent, skim, PairTypeOK
<1>2. PairTypeOK'
  BY <1>1 DEF skim, PairTypeOK
<1>. QED BY <1>2 DEF skim, SwapOK, ReservesCovered, PairTypeOK, unlocked

LEMMA TransferInv ==
    ASSUME PairInv, NEW account \in Accounts, NEW t \in Tokens, NEW x \in TransferAmounts,
           TransferToPair(account, t, x)
    PROVE  PairInv'
<1>. USE DEF PairInv
<1>1. x \in Nat
  BY PairAssumption DEF PairAssumption
<1>2. PairTypeOK'
  BY <1>1 DEF TransferToPair, PairTypeOK
<1>3. \A s \in Tokens : balance[s] <= balance'[s]
  BY <1>1 DEF TransferToPair, PairTypeOK
<1>4. ReservesCovered'
  BY <1>2, <1>3 DEF TransferToPair, ReservesCovered, PairTypeOK, unlocked
<1>. QED BY <1>2, <1>4 DEF TransferToPair, SwapOK, unlocked

LEMMA TransferLiquidityInv ==
    ASSUME PairInv, NEW account \in Accounts, NEW x \in LiquidityAmounts,
           TransferLiquidity(account, Pair, x)
    PROVE  PairInv'
<1>. USE DEF PairInv
<1>1. x \in Nat /\ account # Pair
  BY PairAssumption DEF PairAssumption
<1>2. PairTypeOK'
  BY <1>1 DEF TransferLiquidity, PairTypeOK, Holders
<1>. QED BY <1>2 DEF TransferLiquidity, SwapOK, ReservesCovered, unlocked

LEMMA SetFeeInv ==
    ASSUME PairInv, NEW receiver \in FeeReceivers, setFeeTo(receiver)
    PROVE  PairInv'
BY PairAssumption DEF PairInv, PairAssumption, setFeeTo, PairTypeOK, SwapOK, ReservesCovered, unlocked

LEMMA StepPairInv == PairInv /\ [PairNext]_pairVars => PairInv'
<1>. SUFFICES ASSUME PairInv, [PairNext]_pairVars PROVE PairInv'
  OBVIOUS
<1>1. ASSUME NEW to \in Accounts, mint(to) \/ burn(to) \/ skim(to) PROVE PairInv'
  BY <1>1, MintInv, BurnInv, SkimInv
<1>2. ASSUME NEW account \in Accounts, NEW out \in [Tokens -> SwapAmounts], SwapStart(out, account)
      PROVE  PairInv'
  BY <1>2, SwapStartInv
<1>3. ASSUME NEW account \in Accounts, NEW t \in Tokens, NEW x \in TransferAmounts,
             TransferToPair(account, t, x)
      PROVE  PairInv'
  BY <1>3, TransferInv
<1>4. ASSUME NEW account \in Accounts, NEW x \in LiquidityAmounts,
             TransferLiquidity(account, Pair, x)
      PROVE  PairInv'
  BY <1>4, TransferLiquidityInv
<1>5. CASE SwapEnd \/ SwapRevert \/ sync
  BY <1>5, SwapEndInv, SwapRevertInv, SyncInv
<1>6. ASSUME NEW receiver \in FeeReceivers, setFeeTo(receiver) PROVE PairInv'
  BY <1>6, SetFeeInv
<1>7. CASE UNCHANGED pairVars
  BY <1>7 DEF pairVars, PairInv, PairTypeOK, SwapOK, ReservesCovered, unlocked
<1>. QED BY <1>1, <1>2, <1>3, <1>4, <1>5, <1>6, <1>7 DEF PairNext

(* The state of a pair keeps its type: no balance, share or fee is negative. *)
THEOREM PairTypeCorrect == PairSpec => []PairTypeOK
<1>1. PairInv => PairTypeOK
  BY DEF PairInv
<1>. QED BY <1>1, InitPairInv, StepPairInv, PTL DEF PairSpec

(* After every transaction, of whatever callbacks, the pair has its reserves. *)
THEOREM ReservesAlwaysCovered == PairSpec => []ReservesCovered
<1>1. PairInv => ReservesCovered
  BY DEF PairInv
<1>. QED BY <1>1, InitPairInv, StepPairInv, PTL DEF PairSpec

-------------------------------------------------------------------------------
(* No step takes value from the shares: the product of the reserves per
   squared share never falls while the protocol takes no fee. *)

ValueKept ==
    Product(reserve) * totalSupply' * totalSupply'
        <= Product(reserve)' * totalSupply * totalSupply

LEMMA ValueOfRatios ==
    ASSUME NEW a \in Nat, NEW b \in Nat, NEW c \in Nat, NEW d \in Nat,
           NEW s \in Nat, NEW t \in Nat,
           a * t <= c * s, b * t <= d * s
    PROVE  (a * b) * t * t <= (c * d) * s * s
<1>1. {a * t, b * t, c * s, d * s} \subseteq Nat
  BY TimesNat
<1>2. (a * t) * (b * t) <= (c * s) * (d * s)
  BY <1>1, TimesMonotone
<1>3. (a * t) * (b * t) = (a * b) * t * t /\ (c * s) * (d * s) = (c * d) * s * s
  OBVIOUS
<1>. QED BY <1>2, <1>3

(* It is enough to compare the two reserves one by one. *)
LEMMA ValueByReserve ==
    ASSUME PairTypeOK, PairTypeOK',
           \A t \in Tokens : reserve[t] * totalSupply' <= reserve'[t] * totalSupply
    PROVE  ValueKept
<1>1. reserve \in [Tokens -> Nat] /\ reserve' \in [Tokens -> Nat]
      /\ totalSupply \in Nat /\ totalSupply' \in Nat
  BY DEF PairTypeOK
<1>2. {token0, token1} = Tokens
  BY DEF Tokens
<1>. DEFINE a == reserve[token0]
            b == reserve[token1]
            c == reserve'[token0]
            d == reserve'[token1]
<1>3. {a, b, c, d} \subseteq Nat
  BY <1>1, <1>2
<1>4. a * totalSupply' <= c * totalSupply /\ b * totalSupply' <= d * totalSupply
  BY <1>2
<1>5. Product(reserve) = a * b /\ Product(reserve)' = c * d
  BY DEF Product
<1>. HIDE DEF a, b, c, d
<1>6. (a * b) * totalSupply' * totalSupply' <= (c * d) * totalSupply * totalSupply
  BY <1>1, <1>3, <1>4, ValueOfRatios
<1>. QED BY <1>5, <1>6 DEF ValueKept

LEMMA ReservesKeepValue ==
    ASSUME PairTypeOK, PairTypeOK', totalSupply' = totalSupply,
           \A t \in Tokens : reserve[t] <= reserve'[t]
    PROVE  ValueKept
<1>1. \A t \in Tokens : reserve[t] * totalSupply' <= reserve'[t] * totalSupply
  BY TimesMonotone DEF PairTypeOK
<1>. QED BY <1>1, ValueByReserve

LEMMA MintKeepsValue ==
    ASSUME PairInv, PairInv', NEW to \in Accounts, mint(to), feeTo = NoOne, totalSupply > 0
    PROVE  ValueKept
<1>. USE DEF PairInv
<1>1. mintMore(to)
  BY DEF mint, mintFirst
<1>2. Sent \in [Tokens -> Nat] /\ \A t \in Tokens : Sent[t] = balance[t] - reserve[t]
  BY DEF Sent, mint, PairTypeOK
<1>3. SupplyWithFee = totalSupply
  BY FeeType DEF SupplyWithFee, PairTypeOK
<1>. DEFINE L == Shares(Sent)
<1>4. L \in Nat /\ \A t \in Tokens : L * reserve[t] <= Sent[t] * totalSupply
  BY <1>1, <1>2, <1>3, SharesType DEF mintMore
<1>5. totalSupply' = totalSupply + L
  BY <1>1, <1>3 DEF mintMore
<1>6. reserve' = balance
  BY DEF mint, Update
<1>. HIDE DEF L
<1>7. ASSUME NEW t \in Tokens
      PROVE  reserve[t] * totalSupply' <= reserve'[t] * totalSupply
  <2>1. reserve[t] \in Nat /\ balance[t] \in Nat /\ Sent[t] \in Nat /\ totalSupply \in Nat
    BY <1>2 DEF PairTypeOK
  <2>2. reserve[t] * (totalSupply + L) = reserve[t] * totalSupply + L * reserve[t]
    BY <2>1, <1>4
  <2>3. balance[t] * totalSupply = reserve[t] * totalSupply + Sent[t] * totalSupply
    BY <2>1, <1>2
  <2>4. {reserve[t] * totalSupply, L * reserve[t], Sent[t] * totalSupply} \subseteq Nat
    BY <2>1, <1>4, TimesNat
  <2>. QED BY <2>2, <2>3, <2>4, <1>4, <1>5, <1>6
<1>. QED BY <1>7, ValueByReserve

LEMMA BurnKeepsValue ==
    ASSUME PairInv, PairInv', NEW to \in Accounts, burn(to), feeTo = NoOne
    PROVE  ValueKept
<1>. USE DEF PairInv
<1>. DEFINE L == balanceOf[Pair]
<1>1. SupplyWithFee = totalSupply
  BY FeeType DEF SupplyWithFee, PairTypeOK
<1>2. /\ L \in Nat /\ L <= totalSupply
      /\ totalSupply' = totalSupply - L
      /\ reserve' = balance'
      /\ \A t \in Tokens : balance[t] * (totalSupply - L) <= balance'[t] * totalSupply
  BY <1>1, BurnLeft
<1>. HIDE DEF L
<1>3. ASSUME NEW t \in Tokens
      PROVE  reserve[t] * totalSupply' <= reserve'[t] * totalSupply
  <2>1. reserve[t] <= balance[t]
    BY DEF burn, ReservesCovered
  <2>2. reserve[t] * totalSupply' <= balance[t] * totalSupply'
    BY <1>2, <2>1, TimesMonotone DEF PairTypeOK
  <2>3. {reserve[t] * totalSupply', balance[t] * totalSupply', balance'[t] * totalSupply}
           \subseteq Nat
    BY TimesNat DEF PairTypeOK
  <2>. QED BY <1>2, <2>2, <2>3
<1>. QED BY <1>3, ValueByReserve

LEMMA SwapKeepsValue ==
    ASSUME PairInv, PairInv', SwapEnd
    PROVE  ValueKept
<1>. USE DEF PairInv
<1>. DEFINE expected(t) == inSwap.reserve[t] - inSwap.amountOut[t]
            amountIn == [t \in Tokens |->
                          IF balance[t] > expected(t) THEN balance[t] - expected(t) ELSE 0]
            taxed(t) == balance[t] * FeeBase - amountIn[t] * SwapFee
<1>1. inSwap \in SwapRecords /\ inSwap.reserve = reserve
      /\ \A t \in Tokens : inSwap.amountOut[t] < reserve[t]
  BY DEF SwapEnd, SwapOK
<1>2. PaidFor(amountIn) /\ reserve' = balance /\ totalSupply' = totalSupply
  BY DEF SwapEnd, Update
<1>3. ASSUME NEW t \in Tokens
      PROVE  taxed(t) \in Nat /\ taxed(t) <= balance[t] * FeeBase
  <2>1. amountIn[t] \in Nat /\ balance[t] \in Nat /\ amountIn[t] <= balance[t]
    BY <1>1 DEF SwapRecords, PairTypeOK
  <2>. HIDE DEF amountIn
  <2>2. SwapFee \in Nat /\ FeeBase \in Nat /\ SwapFee <= FeeBase
    BY FeeFacts
  <2>3. amountIn[t] * SwapFee <= balance[t] * FeeBase
    BY <2>1, <2>2, TimesMonotone
  <2>4. amountIn[t] * SwapFee \in Nat /\ balance[t] * FeeBase \in Nat
    BY <2>1, <2>2, TimesNat
  <2>. QED BY <2>3, <2>4
<1>. DEFINE a == reserve[token0]
            b == reserve[token1]
            c == balance[token0]
            d == balance[token1]
<1>4. {a, b, c, d} \subseteq Nat /\ totalSupply \in Nat
  BY DEF PairTypeOK, Tokens
<1>5. a * b * FeeBase * FeeBase <= taxed(token0) * taxed(token1)
  <2>1. taxed(token0) * taxed(token1) >= a * b * FeeBase * FeeBase
    BY <1>1, <1>2 DEF PaidFor, KeepsProduct
  <2>2. taxed(token0) * taxed(token1) \in Nat
    BY <1>3, TimesNat DEF Tokens
  <2>3. a * b * FeeBase * FeeBase \in Nat
    <3>1. a * b \in Nat
      BY <1>4, TimesNat
    <3>2. (a * b) * FeeBase \in Nat
      BY <3>1, FeeFacts, TimesNat
    <3>. QED BY <3>2, FeeFacts, TimesNat
  <2>. HIDE DEF taxed, a, b
  <2>. QED BY <2>1, <2>2, <2>3
<1>6. taxed(token0) \in Nat /\ taxed(token1) \in Nat
      /\ taxed(token0) <= c * FeeBase /\ taxed(token1) <= d * FeeBase
  BY <1>3 DEF Tokens
<1>7. Product(reserve) = a * b /\ Product(reserve)' = c * d
  BY <1>2 DEF Product
<1>. HIDE DEF a, b, c, d, taxed, amountIn
<1>8. taxed(token0) * taxed(token1) <= (c * FeeBase) * (d * FeeBase)
  <2>1. c * FeeBase \in Nat /\ d * FeeBase \in Nat
    BY <1>4, FeeFacts, TimesNat
  <2>. QED BY <1>6, <2>1, TimesMonotone
<1>9. a * b <= c * d
  <2>1. (c * FeeBase) * (d * FeeBase) = c * d * FeeBase * FeeBase
    BY <1>4, FeeFacts
  <2>2. a * b \in Nat /\ c * d \in Nat
    BY <1>4, TimesNat
  <2>3. (a * b) * FeeBase \in Nat /\ (c * d) * FeeBase \in Nat
    BY <2>2, FeeFacts, TimesNat
  <2>4. taxed(token0) * taxed(token1) \in Nat
    BY <1>6, TimesNat
  <2>5. a * b * FeeBase * FeeBase \in Nat /\ c * d * FeeBase * FeeBase \in Nat
    BY <2>3, FeeFacts, TimesNat
  <2>6. a * b * FeeBase * FeeBase <= c * d * FeeBase * FeeBase
    BY <1>5, <1>8, <2>1, <2>4, <2>5
  <2>7. (a * b) * FeeBase <= (c * d) * FeeBase
    BY <2>3, <2>6, FeeFacts, CancelFactor
  <2>. QED BY <2>2, <2>7, FeeFacts, CancelFactor
<1>10. (a * b) * totalSupply * totalSupply <= (c * d) * totalSupply * totalSupply
  <2>1. a * b \in Nat /\ c * d \in Nat
    BY <1>4, TimesNat
  <2>2. (a * b) * totalSupply <= (c * d) * totalSupply
    BY <2>1, <1>4, <1>9, TimesMonotone
  <2>3. (a * b) * totalSupply \in Nat /\ (c * d) * totalSupply \in Nat
    BY <2>1, <1>4, TimesNat
  <2>. QED BY <2>2, <2>3, <1>4, TimesMonotone
<1>. QED BY <1>2, <1>7, <1>10 DEF ValueKept

LEMMA StepKeepsValue ==
    ASSUME PairInv, PairInv', [PairNext]_pairVars, feeTo = NoOne, totalSupply > 0
    PROVE  ValueKept
<1>. USE DEF PairInv
<1>1. CASE \E to \in Accounts : mint(to)
  BY <1>1, MintKeepsValue
<1>2. CASE \E to \in Accounts : burn(to)
  BY <1>2, BurnKeepsValue
<1>3. CASE SwapEnd
  BY <1>3, SwapKeepsValue
<1>4. CASE sync
  BY <1>4, ReservesKeepValue DEF sync, Update, ReservesCovered
<1>5. CASE UNCHANGED <<reserve, totalSupply>>
  BY <1>5, ReservesKeepValue DEF PairTypeOK
<1>6. (\E to \in Accounts : mint(to)) \/ (\E to \in Accounts : burn(to)) \/ SwapEnd \/ sync
      \/ UNCHANGED <<reserve, totalSupply>>
  BY DEF PairNext, pairVars, skim, SwapStart, SwapRevert, TransferToPair, TransferLiquidity, setFeeTo
<1>. QED BY <1>1, <1>2, <1>3, <1>4, <1>5, <1>6

(* No swap, callback, mint or burn takes from the other liquidity providers. *)
THEOREM SharesKeepValue == PairSpec => ShareNeverLosesValue
<1>1. PairInv /\ PairInv' /\ [PairNext]_pairVars =>
         [feeTo = NoOne /\ totalSupply > 0 =>
             Product(reserve)' * totalSupply * totalSupply
                >= Product(reserve) * totalSupply' * totalSupply']_pairVars
  <2>1. SUFFICES ASSUME PairInv, PairInv', [PairNext]_pairVars, feeTo = NoOne, totalSupply > 0
                 PROVE  Product(reserve)' * totalSupply * totalSupply
                          >= Product(reserve) * totalSupply' * totalSupply'
    OBVIOUS
  <2>2. ValueKept
    BY <2>1, StepKeepsValue
  <2>3. /\ reserve \in [Tokens -> Nat] /\ reserve' \in [Tokens -> Nat]
        /\ totalSupply \in Nat /\ totalSupply' \in Nat
    BY <2>1 DEF PairInv, PairTypeOK
  <2>4. Product(reserve) \in Nat /\ Product(reserve') \in Nat /\ Product(reserve)' = Product(reserve')
    BY <2>3, ProductType DEF Product
  <2>. QED BY <2>2, <2>3, <2>4 DEF ValueKept
<1>. QED BY <1>1, InitPairInv, StepPairInv, PTL DEF PairSpec, ShareNeverLosesValue

-------------------------------------------------------------------------------
(* The protocol's part of the growth. *)

LEMMA FeeIsThird ==
    ASSUME PairTypeOK, FeeLiquidity > 0, NEW rootK, rootK = sqrt(Product(reserve))
    PROVE  3 * FeeLiquidity * rootK <= (rootK - sqrt(kLast)) * (totalSupply + FeeLiquidity)
<1>. DEFINE last == sqrt(kLast)
            fee == FeeLiquidity
            growth == rootK - last
            base == 2 * rootK + last
            minted == totalSupply * growth
<1>1. rootK \in Nat /\ last \in Nat /\ totalSupply \in Nat
  BY ProductType, SqrtIsRoot DEF PairTypeOK
<1>2. rootK > last /\ fee = minted \div base
  <2>1. rootK > last
    BY <1>1 DEF FeeLiquidity
  <2>. QED BY <2>1 DEF FeeLiquidity
<1>. HIDE DEF last
<1>3. growth \in Nat /\ base \in Nat \ {0} /\ minted \in Nat
  <2>1. growth \in Nat /\ base \in Nat \ {0}
    BY <1>1, <1>2
  <2>. QED BY <1>1, <2>1, TimesNat
<1>4. fee \in Nat /\ fee * base <= minted
  <2>. HIDE DEF fee, minted, base
  <2>. QED BY <1>2, <1>3, Quotient
<1>. HIDE DEF fee
<1>5. fee * base = 2 * (fee * rootK) + fee * last
  BY <1>1, <1>4
<1>6. growth * (totalSupply + fee) = minted + (fee * rootK - fee * last)
  BY <1>1, <1>4
<1>7. 3 * fee * rootK = 3 * (fee * rootK)
  BY <1>1, <1>4
<1>8. fee * rootK \in Nat /\ fee * last \in Nat
  BY <1>1, <1>4, TimesNat
<1>9. 3 * fee * rootK <= growth * (totalSupply + fee)
  <2>. DEFINE r == fee * rootK
              l == fee * last
              b == fee * base
  <2>1. /\ r \in Nat /\ l \in Nat /\ b = 2 * r + l /\ b <= minted
        /\ 3 * fee * rootK = 3 * r
        /\ growth * (totalSupply + fee) = minted + (r - l)
    BY <1>4, <1>5, <1>6, <1>7, <1>8
  <2>. HIDE DEF r, l, b, minted
  <2>2. minted \in Nat
    BY <1>3 DEF minted
  <2>. QED BY <2>1, <2>2
<1>. QED BY <1>9 DEF fee, last

(* A pair whose fee was off at the last liquidity event mints none. *)
LEMMA FeeNeedsKLast ==
    ASSUME PairTypeOK, FeeLiquidity > 0
    PROVE  kLast > 0
BY DEF FeeLiquidity, PairTypeOK

(* Only with a mint or a burn for somebody else does the receiver get shares that
   are not a mint of its own, and they are the fee. *)
LEMMA EventMintsFee ==
    ASSUME PairInv, [PairNext]_pairVars, feeTo # NoOne, LiquidityEvent, FeeMinted > 0
    PROVE  FeeMinted = FeeLiquidity
<1>1. /\ balanceOf \in [Holders -> Nat] /\ feeTo \in Accounts /\ feeTo # Pair
      /\ feeTo \in Holders /\ Pair \in Holders /\ balanceOf[feeTo] \in Nat
  <2>1. balanceOf \in [Holders -> Nat] /\ feeTo \in Accounts \cup {NoOne}
    BY DEF PairInv, PairTypeOK
  <2>. QED BY <2>1, PairAssumption DEF PairAssumption, Holders
<1>2. balanceOf' # balanceOf
  BY <1>1 DEF FeeMinted
<1>3. FeeLiquidity \in Nat /\ WithFeeMinted \in [Holders -> Nat]
      /\ WithFeeMinted[feeTo] = balanceOf[feeTo] + FeeLiquidity
      /\ \A h \in Holders \ {feeTo} : WithFeeMinted[h] = balanceOf[h]
  <2>1. FeeLiquidity \in Nat
    BY FeeType DEF PairInv
  <2>2. WithFeeMinted = [balanceOf EXCEPT ![feeTo] = balanceOf[feeTo] + FeeLiquidity]
    BY DEF WithFeeMinted
  <2>. QED BY <1>1, <2>1, <2>2
<1>4. ASSUME NEW to \in Accounts, mint(to) PROVE FeeMinted = FeeLiquidity
  <2>1. PICK liquidity \in Nat, lowest \in Nat :
           \/ balanceOf' = [balanceOf EXCEPT ![NoOne] = balanceOf[NoOne] + lowest,
                                             ![to] = balanceOf[to] + liquidity]
           \/ balanceOf' = [WithFeeMinted EXCEPT ![to] = WithFeeMinted[to] + liquidity]
    <3>1. CASE mintFirst(to)
      <4>. DEFINE liquidity == sqrt(Product(Sent)) - MINIMUM_LIQUIDITY
      <4>1. Sent \in [Tokens -> Nat]
        BY <1>4 DEF mint, Sent, PairInv, PairTypeOK
      <4>2. liquidity \in Nat /\ MINIMUM_LIQUIDITY \in Nat
        <5>1. sqrt(Product(Sent)) \in Nat
          BY <4>1, ProductType, SqrtIsRoot
        <5>2. liquidity > 0
          BY <3>1 DEF mintFirst
        <5>. QED BY <5>1, <5>2, PairAssumption DEF PairAssumption
      <4>3. balanceOf' = [balanceOf EXCEPT ![NoOne] = balanceOf[NoOne] + MINIMUM_LIQUIDITY,
                                           ![to] = balanceOf[to] + liquidity]
        <5>. HIDE DEF liquidity
        <5>1. NoOne # to
          BY PairAssumption DEF PairAssumption
        <5>2. balanceOf' = [balanceOf EXCEPT ![NoOne] = @ + MINIMUM_LIQUIDITY,
                                             ![to] = @ + liquidity]
          BY <3>1 DEF mintFirst, liquidity
        <5>. QED BY <5>1, <5>2
      <4>. QED BY <4>2, <4>3
    <3>2. CASE mintMore(to)
      <4>1. Sent \in [Tokens -> Nat] /\ \A t \in Tokens : reserve[t] > 0
        BY <1>4, <3>2 DEF mint, mintMore, Sent, PairInv, PairTypeOK
      <4>2. Shares(Sent) \in Nat /\ 0 \in Nat
        BY <4>1, SharesType DEF PairInv
      <4>3. balanceOf' = [WithFeeMinted EXCEPT ![to] = WithFeeMinted[to] + Shares(Sent)]
        BY <3>2 DEF mintMore
      <4>. QED BY <4>2, <4>3
    <3>. QED BY <1>4, <3>1, <3>2 DEF mint
  <2>2. to # feeTo
    <3>1. SUFFICES ASSUME to = feeTo PROVE FALSE
      OBVIOUS
    <3>2. \A h \in Accounts \ {feeTo} : balanceOf'[h] = balanceOf[h]
      BY <1>1, <1>3, <2>1, <3>1, PairAssumption DEF PairAssumption, Holders
    <3>3. balanceOf'[Pair] = balanceOf[Pair]
      BY <1>1, <1>3, <2>1, <3>1, PairAssumption DEF PairAssumption, Holders
    <3>4. \A h \in Holders : balanceOf[h] \in Nat
      BY <1>1
    <3>. QED BY <3>2, <3>3, <3>4, <1>1 DEF LiquidityEvent, Holders
  <2>3. balanceOf'[feeTo] \in {balanceOf[feeTo], WithFeeMinted[feeTo]}
    BY <1>1, <1>3, <2>1, <2>2, PairAssumption DEF PairAssumption, Holders
  <2>. QED BY <1>1, <1>3, <2>3 DEF FeeMinted
<1>5. ASSUME NEW to \in Accounts, burn(to) PROVE FeeMinted = FeeLiquidity
  <2>1. balanceOf' = [WithFeeMinted EXCEPT ![Pair] = WithFeeMinted[Pair] - balanceOf[Pair]]
    BY <1>5 DEF burn
  <2>2. balanceOf'[feeTo] = WithFeeMinted[feeTo]
    BY <1>1, <1>3, <2>1
  <2>. QED BY <1>1, <1>3, <2>2 DEF FeeMinted
<1>6. ASSUME NEW account \in Accounts, NEW x \in LiquidityAmounts,
             TransferLiquidity(account, Pair, x)
      PROVE  FALSE
  <2>1. x \in Nat /\ account # Pair /\ account \in Holders
    BY PairAssumption DEF PairAssumption, Holders
  <2>2. balanceOf' = [balanceOf EXCEPT ![account] = balanceOf[account] - x,
                                       ![Pair] = balanceOf[Pair] + x]
    <3>1. balanceOf' = [balanceOf EXCEPT ![account] = @ - x, ![Pair] = @ + x]
      BY <1>6 DEF TransferLiquidity
    <3>. QED BY <2>1, <3>1
  <2>3. balanceOf'[feeTo] <= balanceOf[feeTo] /\ balanceOf'[feeTo] \in Int
    BY <1>1, <2>1, <2>2
  <2>. QED BY <1>1, <2>3 DEF FeeMinted
<1>7. CASE SwapRevert
  BY <1>7 DEF LiquidityEvent, SwapRevert
<1>8. CASE SwapEnd \/ sync
  BY <1>2, <1>8 DEF SwapEnd, sync
<1>9. ASSUME NEW account \in Accounts,
             \/ skim(account)
             \/ \E out \in [Tokens -> SwapAmounts] : SwapStart(out, account)
             \/ \E t \in Tokens, x \in TransferAmounts : TransferToPair(account, t, x)
      PROVE  FALSE
  BY <1>2, <1>9 DEF skim, SwapStart, TransferToPair
<1>10. ASSUME NEW receiver \in FeeReceivers, setFeeTo(receiver) PROVE FALSE
  BY <1>2, <1>10 DEF setFeeTo
<1>11. CASE UNCHANGED pairVars
  BY <1>2, <1>11 DEF pairVars
<1>. QED BY <1>4, <1>5, <1>6, <1>7, <1>8, <1>9, <1>10, <1>11 DEF PairNext

(* The protocol's fee: for all reserves and supplies, whoever mints or burns, no
   shares are minted to the receiver if the fee was off at the last liquidity
   event, and else they are worth no more than a third of the growth of the root
   of the product since that event. *)
THEOREM FeeIsWithinThird == PairSpec => FeeWithinThird
<1>1. PairInv /\ [PairNext]_pairVars => [FeeAtMost(3)]_pairVars
  <2>1. SUFFICES ASSUME PairInv, [PairNext]_pairVars PROVE FeeAtMost(3)
    OBVIOUS
  <2>2. SUFFICES ASSUME feeTo # NoOne, LiquidityEvent, FeeMinted > 0,
                        NEW rootK, rootK = sqrt(Product(reserve))
                 PROVE  /\ kLast > 0
                        /\ 3 * FeeMinted * rootK
                             <= (rootK - sqrt(kLast)) * (totalSupply + FeeMinted)
    BY DEF FeeAtMost
  <2>3. FeeMinted = FeeLiquidity /\ PairTypeOK
    BY <2>1, <2>2, EventMintsFee DEF PairInv
  <2>4. kLast > 0
    BY <2>2, <2>3, FeeNeedsKLast
  <2>. QED BY <2>2, <2>3, <2>4, FeeIsThird
<1>. QED BY <1>1, InitPairInv, StepPairInv, PTL DEF PairSpec, FeeWithinThird

-------------------------------------------------------------------------------
(* What is better than a quote is refused. *)

(* The check of the pair, with one factor FeeBase taken off both sides. *)
LEMMA KeepsProductMeans ==
    ASSUME NEW amountIn \in Nat, NEW reserveIn \in Nat, NEW reserveOut \in Nat,
           NEW amountOut \in 0 .. reserveOut,
           KeepsProduct(reserveIn + amountIn, reserveOut - amountOut, amountIn, 0,
                        reserveIn, reserveOut)
    PROVE  (reserveIn * FeeBase) * reserveOut
             <= (reserveIn * FeeBase + AmountWithFee(amountIn)) * (reserveOut - amountOut)
<1>. DEFINE R == reserveIn * FeeBase
            W == AmountWithFee(amountIn)
            S == reserveOut - amountOut
<1>1. R \in Nat /\ W \in Nat /\ S \in Nat
  BY FeeFacts, TimesNat DEF AmountWithFee
<1>2. (reserveIn + amountIn) * FeeBase - amountIn * SwapFee = R + W
  BY FeeFacts DEF AmountWithFee
<1>3. reserveIn * reserveOut * FeeBase * FeeBase = (R * reserveOut) * FeeBase
  BY FeeFacts
<1>. HIDE DEF R, W
<1>4. (R + W) * (S * FeeBase - 0 * SwapFee) = ((R + W) * S) * FeeBase
  <2>. HIDE DEF S
  <2>. QED BY <1>1, FeeFacts
<1>5. (R + W) * (S * FeeBase - 0 * SwapFee) >= reserveIn * reserveOut * FeeBase * FeeBase
  BY <1>2 DEF KeepsProduct
<1>6. R * reserveOut \in Nat /\ (R + W) * S \in Nat
  BY <1>1, TimesNat
<1>. DEFINE p == R * reserveOut
            q == (R + W) * S
<1>7. p * FeeBase <= q * FeeBase
  <2>1. p \in Nat /\ q \in Nat /\ q * FeeBase >= p * FeeBase
    BY <1>3, <1>4, <1>5, <1>6
  <2>. HIDE DEF p, q
  <2>. QED BY <2>1, FeeFacts, TimesNat
<1>8. p <= q
  <2>1. p \in Int /\ q \in Int
    BY <1>6
  <2>. HIDE DEF p, q
  <2>. QED BY <2>1, <1>7, FeeFacts, CancelFactor
<1>. QED BY <1>8 DEF R, W

(* One more than what getAmountOut quotes does not pass the check. *)
LEMMA MoreThanQuoteRefused ==
    ASSUME NEW amountIn \in Nat \ {0}, NEW reserveIn \in Nat \ {0},
           NEW reserveOut \in Nat \ {0}, NEW more,
           more = getAmountOut(amountIn, reserveIn, reserveOut) + 1
    PROVE  ~KeepsProduct(reserveIn + amountIn, reserveOut - more, amountIn, 0,
                         reserveIn, reserveOut)
<1>. DEFINE R == reserveIn * FeeBase
            W == AmountWithFee(amountIn)
            D == R + W
<1>1. R \in Nat \ {0} /\ W \in Nat
  BY FeeFacts, TimesNat DEF AmountWithFee
<1>2. D \in Nat \ {0} /\ W * reserveOut \in Nat
  BY <1>1, TimesNat
<1>3. more = (W * reserveOut) \div D + 1
  BY DEF getAmountOut
<1>4. more \in 1 .. reserveOut
  <2>1. getAmountOut(amountIn, reserveIn, reserveOut) \in 0 .. reserveOut - 1
    BY OutputBelowReserve
  <2>. QED BY <2>1
<1>. HIDE DEF R, W
<1>5. W * reserveOut < more * D
  <2>. HIDE DEF D
  <2>. QED BY <1>2, <1>3, Quotient
<1>. SUFFICES ASSUME KeepsProduct(reserveIn + amountIn, reserveOut - more, amountIn, 0,
                                  reserveIn, reserveOut)
              PROVE  FALSE
  OBVIOUS
<1>6. R * reserveOut <= D * (reserveOut - more)
  <2>1. (reserveIn * FeeBase) * reserveOut
          <= (reserveIn * FeeBase + AmountWithFee(amountIn)) * (reserveOut - more)
    <3>1. amountIn \in Nat /\ reserveIn \in Nat /\ reserveOut \in Nat /\ more \in 0 .. reserveOut
      BY <1>4
    <3>. QED BY <3>1, KeepsProductMeans, Zenon
  <2>. QED BY <2>1 DEF R, W
<1>7. D * (reserveOut - more) = D * reserveOut - more * D
  BY <1>2, <1>4
<1>8. D * reserveOut = R * reserveOut + W * reserveOut
  BY <1>1
<1>9. {R * reserveOut, D * reserveOut, more * D} \subseteq Nat
  BY <1>1, <1>2, <1>4, TimesNat
<1>. QED BY <1>2, <1>5, <1>6, <1>7, <1>8, <1>9

(* Two less than what getAmountIn quotes does not pass it either: the quote is
   the quotient rounded up, or one more when it divides. *)
LEMMA LessThanQuoteRefused ==
    ASSUME NEW amountOut \in Nat, NEW reserveIn \in Nat, NEW reserveOut \in Nat, NEW less,
           less = getAmountIn(amountOut, reserveIn, reserveOut) - 2, less \in Nat
    PROVE  ~KeepsProduct(reserveIn + less, reserveOut - amountOut, less, 0,
                         reserveIn, reserveOut)
<1>. DEFINE F == FeeBase - SwapFee
            S == reserveOut - amountOut
            num == reserveIn * amountOut * FeeBase
            den == S * F
            R == reserveIn * FeeBase
            E == R + less * F
<1>1. amountOut > 0 /\ reserveIn > 0 /\ amountOut < reserveOut
  BY DEF getAmountIn
<1>2. F \in Nat \ {0} /\ S \in Nat \ {0} /\ num \in Nat /\ den \in Nat \ {0} /\ R \in Nat
  <2>1. F \in Nat \ {0} /\ S \in Nat \ {0}
    BY <1>1, FeeFacts
  <2>2. num \in Nat /\ R \in Nat
    BY FeeFacts, TimesNat
  <2>3. den \in Nat \ {0}
    BY <2>1
  <2>. QED BY <2>1, <2>2, <2>3
<1>3. less = num \div den - 1
  <2>1. getAmountIn(amountOut, reserveIn, reserveOut) = num \div den + 1
    BY <1>1 DEF getAmountIn
  <2>. HIDE DEF num, den
  <2>2. num \div den \in Nat
    BY <1>2, Quotient
  <2>. QED BY <2>1, <2>2
<1>4. less * den + den <= num
  <2>. HIDE DEF num, den
  <2>1. num \div den \in Nat /\ (num \div den) * den <= num
    BY <1>2, Quotient
  <2>2. num \div den = less + 1
    BY <1>3, <2>1
  <2>3. (less + 1) * den = less * den + den
    BY <1>2
  <2>. QED BY <2>1, <2>2, <2>3
<1>. SUFFICES ASSUME KeepsProduct(reserveIn + less, reserveOut - amountOut, less, 0,
                                  reserveIn, reserveOut)
              PROVE  FALSE
  OBVIOUS
<1>5. R * reserveOut <= E * S
  <2>1. amountOut \in 0 .. reserveOut
    BY <1>1
  <2>. QED BY <2>1, KeepsProductMeans DEF AmountWithFee
<1>6. E * S = R * S + less * den
  <2>. HIDE DEF R, S, F
  <2>1. E * S = R * S + (less * F) * S
    BY <1>2
  <2>2. (less * F) * S = less * (S * F)
    BY <1>2
  <2>. QED BY <2>1, <2>2
<1>7. R * S + num = R * reserveOut
  <2>1. num = R * amountOut
    BY FeeFacts
  <2>. HIDE DEF R, num
  <2>2. R * S + R * amountOut = R * reserveOut
    BY <1>2
  <2>. QED BY <2>1, <2>2
<1>8. {R * S, less * den, R * reserveOut} \subseteq Nat
  BY <1>2, TimesNat
<1>. HIDE DEF R, S, F, num, den, E
<1>. QED BY <1>2, <1>4, <1>5, <1>6, <1>7, <1>8

(* On any reserves a pair can have, the library quotes the largest output that
   the pair accepts for an input, however large. *)
THEOREM LibraryQuotesBest == PairSpec => []QuoteIsBest
<1>1. PairTypeOK => QuoteIsBest
  <2>. SUFFICES ASSUME PairTypeOK, \A t \in Tokens : reserve[t] > 0,
                       NEW amountIn \in 1 .. Uint112Max \div 2,
                       NEW quote, quote = getAmountOut(amountIn, reserve[token0], reserve[token1])
                PROVE  (quote > 0 => Accepts(amountIn, quote)) /\ ~Accepts(amountIn, quote + 1)
    BY DEF QuoteIsBest
  <2>1. reserve[token0] \in Nat \ {0} /\ reserve[token1] \in Nat \ {0}
    BY DEF PairTypeOK, Tokens
  <2>2. amountIn \in Nat \ {0}
    OBVIOUS
  <2>3. quote \in 0 .. reserve[token1] - 1
    BY <2>1, <2>2, OutputBelowReserve
  <2>4. quote > 0 => Accepts(amountIn, quote)
    <3>1. KeepsProduct(reserve[token0] + amountIn, reserve[token1] - quote, amountIn, 0,
                       reserve[token0], reserve[token1])
      BY <2>1, <2>2, QuoteKeepsProduct
    <3>. QED BY <2>3, <3>1 DEF Accepts
  <2>5. ~Accepts(amountIn, quote + 1)
    BY <2>1, <2>2, MoreThanQuoteRefused DEF Accepts
  <2>. QED BY <2>4, <2>5
<1>2. PairInv => QuoteIsBest
  BY <1>1 DEF PairInv
<1>. QED BY <1>2, InitPairInv, StepPairInv, PTL DEF PairSpec

(* And the input it quotes for an output is accepted, with at most one unit to
   spare. *)
THEOREM LibraryInputSuffices == PairSpec => []QuotedInputSuffices
<1>1. PairTypeOK => QuotedInputSuffices
  <2>. SUFFICES ASSUME PairTypeOK, NEW amountOut \in 1 .. Uint112Max \div 2,
                       NEW quote, quote = getAmountIn(amountOut, reserve[token0], reserve[token1]),
                       quote > 0
                PROVE  Accepts(quote, amountOut) /\ (quote > 1 => ~Accepts(quote - 2, amountOut))
    BY DEF QuotedInputSuffices
  <2>1. reserve[token0] \in Nat /\ reserve[token1] \in Nat /\ amountOut \in Nat
    BY DEF PairTypeOK, Tokens
  <2>2. amountOut \in 1 .. reserve[token1] - 1
    BY <2>1 DEF getAmountIn
  <2>3. Accepts(quote, amountOut)
    BY <2>1, <2>2, QuotedInputKeepsProduct DEF Accepts
  <2>4. quote \in Nat
    <3>. DEFINE num == reserve[token0] * amountOut * FeeBase
                den == (reserve[token1] - amountOut) * (FeeBase - SwapFee)
    <3>1. quote = num \div den + 1
      BY DEF getAmountIn
    <3>2. num \in Nat
      <4>1. reserve[token0] * amountOut \in Nat
        BY <2>1, TimesNat
      <4>. QED BY <4>1, FeeFacts, TimesNat
    <3>3. den \in Nat \ {0}
      <4>1. reserve[token1] - amountOut \in Nat \ {0}
        BY <2>1, <2>2
      <4>. QED BY <4>1, FeeFacts
    <3>. HIDE DEF num, den
    <3>. QED BY <3>1, <3>2, <3>3, Quotient
  <2>5. ASSUME quote > 1 PROVE ~Accepts(quote - 2, amountOut)
    <3>. DEFINE less == quote - 2
    <3>1. less = getAmountIn(amountOut, reserve[token0], reserve[token1]) - 2 /\ less \in Nat
      BY <2>4, <2>5
    <3>. HIDE DEF less
    <3>2. ~KeepsProduct(reserve[token0] + less, reserve[token1] - amountOut, less, 0,
                        reserve[token0], reserve[token1])
      BY <2>1, <3>1, LessThanQuoteRefused
    <3>. QED BY <3>2 DEF less, Accepts
  <2>. QED BY <2>3, <2>5
<1>2. PairInv => QuotedInputSuffices
  BY <1>1 DEF PairInv
<1>. QED BY <1>2, InitPairInv, StepPairInv, PTL DEF PairSpec
===============================================================================
