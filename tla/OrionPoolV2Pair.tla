---------------------------- MODULE OrionPoolV2Pair ----------------------------
(***************************************************************************)
(* One pair of the pool: liquidity is minted and burnt, tokens are swapped *)
(* (the output is sent first and the receiver may be called back), and the *)
(* reserves are brought in line with the balances.  The callback is open:  *)
(* between SwapStart and its end the pair is locked, and anybody the       *)
(* receiver calls may move tokens.                                         *)
(***************************************************************************)
EXTENDS OrionPoolV2Library

CONSTANTS
    token0, token1,
    Accounts,           \* liquidity providers, traders, fee receivers
    Pair,               \* the address of the pair itself
    NoOne,              \* address(0)
    MINIMUM_LIQUIDITY,  \* 1000 in the code
    Uint112Max,         \* what a reserve can hold
    InitialHoldings,    \* account -> token -> amount
    TransferAmounts, LiquidityAmounts, SwapAmounts, FeeReceivers

Tokens == {token0, token1}
Holders == Accounts \cup {Pair, NoOne}

ASSUME PairAssumption ==
    /\ token0 # token1
    /\ Pair # NoOne /\ {Pair, NoOne} \cap Accounts = {}
    /\ MINIMUM_LIQUIDITY \in Nat /\ Uint112Max \in Nat
    /\ InitialHoldings \in [Accounts -> [Tokens -> Nat]]
    /\ {TransferAmounts, LiquidityAmounts, SwapAmounts} \subseteq SUBSET Nat
    /\ FeeReceivers \subseteq Accounts \cup {NoOne}

VARIABLES
    reserve,     \* token -> reserve as of the last update
    balance,     \* token -> what the pair holds
    balanceOf,   \* holder -> liquidity tokens
    totalSupply, \* of liquidity tokens
    kLast,       \* product of the reserves after the last liquidity event
    feeTo,       \* the factory's receiver of the protocol fee, or NoOne
    holdings,    \* account -> token -> amount
    inSwap       \* the swap that is being called back, or NotInSwap

pairVars == <<reserve, balance, balanceOf, totalSupply, kLast, feeTo, holdings, inSwap>>

NotInSwap == [amountOut |-> [t \in Tokens |-> 0]]

unlocked == inSwap = NotInSwap

PairInit ==
    /\ reserve = [t \in Tokens |-> 0]
    /\ balance = [t \in Tokens |-> 0]
    /\ balanceOf = [h \in Holders |-> 0]
    /\ totalSupply = 0
    /\ kLast = 0
    /\ feeTo = NoOne
    /\ holdings = InitialHoldings
    /\ inSwap = NotInSwap

-------------------------------------------------------------------------------
(* The values of the loop of Math.sqrt, and what a turn of it makes of them. *)
SqrtGuess == [y : Nat \ {0}, x : Nat \ {0}, z : Nat]

BetterGuess(guess) ==
    [guess EXCEPT !.x = (guess.y \div guess.x + guess.x) \div 2, !.z = guess.x]

(* The z the loop ends with. *)
SqrtLoop[guess \in SqrtGuess] ==
    IF guess.x < guess.z THEN SqrtLoop[BetterGuess(guess)] ELSE guess.z

sqrt(y) ==
    CASE y > 3 -> SqrtLoop[[y |-> y, x |-> y \div 2 + 1, z |-> y]]
      [] y \in 1..3 -> 1
      [] OTHER -> 0

Lesser(x, y) == IF x < y THEN x ELSE y

Product(amounts) == amounts[token0] * amounts[token1]

(* Slip: kLast is not compared with zero, so that all there was before the fee
   was switched on counts as growth. *)
FeeLiquidityFromTheStart ==
    LET rootK == sqrt(Product(reserve))
        rootKLast == sqrt(kLast)
    IN IF feeTo = NoOne \/ rootK <= rootKLast THEN 0
       ELSE (totalSupply * (rootK - rootKLast)) \div (2 * rootK + rootKLast)

(* _mintFee: liquidity for a part of the growth of sqrt(k). *)
FeeLiquidity ==
    LET rootK == sqrt(Product(reserve))
        rootKLast == sqrt(kLast)
    IN IF feeTo = NoOne \/ kLast = 0 \/ rootK <= rootKLast THEN 0
       ELSE (totalSupply * (rootK - rootKLast)) \div (2 * rootK + rootKLast)

WithFeeMinted ==
    IF feeTo = NoOne THEN balanceOf
    ELSE [balanceOf EXCEPT ![feeTo] = @ + FeeLiquidity]

SupplyWithFee == totalSupply + FeeLiquidity

(* The reserves follow the balances; kLast is kept while there is a fee. *)
Update(newBalance) ==
    /\ \A t \in Tokens : newBalance[t] <= Uint112Max
    /\ balance' = newBalance
    /\ reserve' = newBalance

UpdateKLast(newBalance) == kLast' = IF feeTo = NoOne THEN 0 ELSE Product(newBalance)

-------------------------------------------------------------------------------
Shares(amount) ==
    Lesser((amount[token0] * SupplyWithFee) \div reserve[token0],
           (amount[token1] * SupplyWithFee) \div reserve[token1])

(* What was sent to the pair since its last update becomes liquidity. *)
Sent == [t \in Tokens |-> balance[t] - reserve[t]]

mintFirst(to) ==
    LET liquidity == sqrt(Product(Sent)) - MINIMUM_LIQUIDITY
    IN
    /\ totalSupply = 0
    /\ liquidity > 0
    /\ balanceOf' = [balanceOf EXCEPT ![NoOne] = @ + MINIMUM_LIQUIDITY,
                                      ![to] = @ + liquidity]
    /\ totalSupply' = MINIMUM_LIQUIDITY + liquidity

mintMore(to) ==
    /\ totalSupply > 0
    /\ \A t \in Tokens : reserve[t] > 0
    /\ Shares(Sent) > 0
    /\ balanceOf' = [WithFeeMinted EXCEPT ![to] = @ + Shares(Sent)]
    /\ totalSupply' = SupplyWithFee + Shares(Sent)

mint(to) ==
    /\ unlocked
    /\ \A t \in Tokens : balance[t] >= reserve[t]
    /\ mintFirst(to) \/ mintMore(to)
    /\ Update(balance)
    /\ UpdateKLast(balance)
    /\ UNCHANGED <<feeTo, holdings, inSwap>>

(* Slip: the reserves become the balances read before the transfers. *)
burnStale(to) ==
    LET liquidity == balanceOf[Pair]
        amount == [t \in Tokens |-> (liquidity * balance[t]) \div SupplyWithFee]
    IN
    /\ unlocked
    /\ totalSupply > 0 /\ liquidity <= SupplyWithFee
    /\ \A t \in Tokens : amount[t] > 0
    /\ balanceOf' = [WithFeeMinted EXCEPT ![Pair] = @ - liquidity]
    /\ totalSupply' = SupplyWithFee - liquidity
    /\ holdings' = [holdings EXCEPT ![to] = [t \in Tokens |-> @[t] + amount[t]]]
    /\ reserve' = balance
    /\ balance' = [t \in Tokens |-> balance[t] - amount[t]]
    /\ UpdateKLast(balance)
    /\ UNCHANGED <<feeTo, inSwap>>

(* The liquidity sent to the pair is burnt for its share of the balances. *)
burn(to) ==
    LET liquidity == balanceOf[Pair]
        amount == [t \in Tokens |-> (liquidity * balance[t]) \div SupplyWithFee]
        left == [t \in Tokens |-> balance[t] - amount[t]]
    IN
    /\ unlocked
    /\ totalSupply > 0 /\ liquidity <= SupplyWithFee
    /\ \A t \in Tokens : amount[t] > 0
    /\ balanceOf' = [WithFeeMinted EXCEPT ![Pair] = @ - liquidity]
    /\ totalSupply' = SupplyWithFee - liquidity
    /\ holdings' = [holdings EXCEPT ![to] = [t \in Tokens |-> @[t] + amount[t]]]
    /\ Update(left)
    /\ UpdateKLast(left)
    /\ UNCHANGED <<feeTo, inSwap>>

(***************************************************************************)
(* A swap: the first part sends the output, the second compares what came  *)
(* in with the reserves read by the first.                                 *)
(***************************************************************************)
SwapStart(amountOut, to) ==
    /\ unlocked
    /\ \E t \in Tokens : amountOut[t] > 0
    /\ \A t \in Tokens : amountOut[t] < reserve[t] /\ amountOut[t] <= balance[t]
    /\ inSwap' = [amountOut |-> amountOut, reserve |-> reserve, balance |-> balance,
                  balanceOf |-> balanceOf, holdings |-> holdings]
    /\ balance' = [t \in Tokens |-> balance[t] - amountOut[t]]
    /\ holdings' = [holdings EXCEPT ![to] = [t \in Tokens |-> @[t] + amountOut[t]]]
    /\ UNCHANGED <<reserve, balanceOf, totalSupply, kLast, feeTo>>

PaidFor(amountIn) ==
    KeepsProduct(balance[token0], balance[token1], amountIn[token0], amountIn[token1],
                 inSwap.reserve[token0], inSwap.reserve[token1])

SwapEnd ==
    LET expected == [t \in Tokens |-> inSwap.reserve[t] - inSwap.amountOut[t]]
        amountIn == [t \in Tokens |->
                        IF balance[t] > expected[t] THEN balance[t] - expected[t] ELSE 0]
    IN
    /\ ~unlocked
    /\ \E t \in Tokens : amountIn[t] > 0
    /\ PaidFor(amountIn)
    /\ Update(balance)
    /\ inSwap' = NotInSwap
    /\ UNCHANGED <<balanceOf, totalSupply, kLast, feeTo, holdings>>

(* A swap that is not paid for is as if it had not happened. *)
SwapRevert ==
    /\ ~unlocked
    /\ balance' = inSwap.balance
    /\ balanceOf' = inSwap.balanceOf
    /\ holdings' = inSwap.holdings
    /\ inSwap' = NotInSwap
    /\ UNCHANGED <<reserve, totalSupply, kLast, feeTo>>

(* Slip: sync does not look at the lock. *)
syncUnlocked ==
    /\ Update(balance)
    /\ UNCHANGED <<balanceOf, totalSupply, kLast, feeTo, holdings, inSwap>>

sync ==
    /\ unlocked
    /\ Update(balance)
    /\ UNCHANGED <<balanceOf, totalSupply, kLast, feeTo, holdings, inSwap>>

skim(to) ==
    /\ unlocked
    /\ \A t \in Tokens : balance[t] >= reserve[t]
    /\ balance' = reserve
    /\ holdings' = [holdings EXCEPT ![to] = [t \in Tokens |-> @[t] + Sent[t]]]
    /\ UNCHANGED <<reserve, balanceOf, totalSupply, kLast, feeTo, inSwap>>

-------------------------------------------------------------------------------
(* Transfers to the pair, of tokens and of liquidity, at any moment. *)
TransferToPair(account, token, amount) ==
    /\ holdings[account][token] >= amount
    /\ holdings' = [holdings EXCEPT ![account][token] = @ - amount]
    /\ balance' = [balance EXCEPT ![token] = @ + amount]
    /\ UNCHANGED <<reserve, balanceOf, totalSupply, kLast, feeTo, inSwap>>

(* Slip: the balance of the sender is not looked at. *)
TransferLiquidityUnchecked(account, to, amount) ==
    /\ balanceOf' = [balanceOf EXCEPT ![account] = @ - amount, ![to] = @ + amount]
    /\ UNCHANGED <<reserve, balance, totalSupply, kLast, feeTo, holdings, inSwap>>

TransferLiquidity(account, to, amount) ==
    /\ balanceOf[account] >= amount
    /\ balanceOf' = [balanceOf EXCEPT ![account] = @ - amount, ![to] = @ + amount]
    /\ UNCHANGED <<reserve, balance, totalSupply, kLast, feeTo, holdings, inSwap>>

(* The setter of the factory, in a transaction of its own. *)
setFeeTo(receiver) ==
    /\ unlocked
    /\ feeTo' = receiver
    /\ UNCHANGED <<reserve, balance, balanceOf, totalSupply, kLast, holdings, inSwap>>

PairNext ==
    \/ \E account \in Accounts :
          \/ mint(account) \/ burn(account) \/ skim(account)
          \/ \E out \in [Tokens -> SwapAmounts] : SwapStart(out, account)
          \/ \E t \in Tokens, x \in TransferAmounts : TransferToPair(account, t, x)
          \/ \E x \in LiquidityAmounts : TransferLiquidity(account, Pair, x)
    \/ SwapEnd \/ SwapRevert \/ sync
    \/ \E receiver \in FeeReceivers : setFeeTo(receiver)

PairSpec == PairInit /\ [][PairNext]_pairVars
================================================================================
