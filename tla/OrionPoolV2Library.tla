-------------------------- MODULE OrionPoolV2Library --------------------------
(***************************************************************************)
(* Amounts of a constant-product swap with a fee on what is paid in.  A    *)
(* quote of zero stands for a revert: the library refuses amounts of zero, *)
(* empty reserves, and outputs that a reserve does not have.               *)
(***************************************************************************)
EXTENDS Integers, Sequences

CONSTANTS SwapFee, FeeBase   \* 3 and 1000 in the code

ASSUME FeeAssumption == FeeBase \in Nat \ {0} /\ SwapFee \in 0 .. FeeBase - 1

AmountWithFee(amountIn) == amountIn * (FeeBase - SwapFee)

(* Slip: the fee is taken from the numerator only. *)
getAmountOutHalfFee(amountIn, reserveIn, reserveOut) ==
    IF amountIn > 0 /\ reserveIn > 0 /\ reserveOut > 0
    THEN (amountIn * FeeBase * reserveOut)
            \div (reserveIn * FeeBase + AmountWithFee(amountIn))
    ELSE 0

(* Rounded down, in favour of the pair. *)
getAmountOut(amountIn, reserveIn, reserveOut) ==
    IF amountIn > 0 /\ reserveIn > 0 /\ reserveOut > 0
    THEN (AmountWithFee(amountIn) * reserveOut)
            \div (reserveIn * FeeBase + AmountWithFee(amountIn))
    ELSE 0

(* Slip: the quotient is rounded down, in favour of the trader. *)
getAmountInRoundedDown(amountOut, reserveIn, reserveOut) ==
    IF amountOut > 0 /\ reserveIn > 0 /\ amountOut < reserveOut
    THEN (reserveIn * amountOut * FeeBase)
            \div ((reserveOut - amountOut) * (FeeBase - SwapFee))
    ELSE 0

(* One more than the quotient rounded down. *)
getAmountIn(amountOut, reserveIn, reserveOut) ==
    IF amountOut > 0 /\ reserveIn > 0 /\ amountOut < reserveOut
    THEN (reserveIn * amountOut * FeeBase)
            \div ((reserveOut - amountOut) * (FeeBase - SwapFee)) + 1
    ELSE 0

-------------------------------------------------------------------------------
(* Along a path every hop is quoted on the reserves before the first one;  *)
(* reserves maps a pair of tokens to what it has of each.                  *)
PairOf(path, i) == {path[i], path[i + 1]}

getAmountsOut(reserves, amountIn, path) ==
    LET amounts[i \in DOMAIN path] ==
            IF i = 1 THEN amountIn
            ELSE getAmountOut(amounts[i - 1], reserves[PairOf(path, i - 1)][path[i - 1]],
                              reserves[PairOf(path, i - 1)][path[i]])
    IN amounts

getAmountsIn(reserves, amountOut, path) ==
    LET amounts[i \in DOMAIN path] ==
            IF i = Len(path) THEN amountOut
            ELSE getAmountIn(amounts[i + 1], reserves[PairOf(path, i)][path[i]],
                             reserves[PairOf(path, i)][path[i + 1]])
    IN amounts

-------------------------------------------------------------------------------
(* The check of a pair after a swap: with the fee taken off what came in,  *)
(* the product of what it has is no less than the product of its reserves. *)
KeepsProduct(balanceA, balanceB, inA, inB, reserveA, reserveB) ==
    (balanceA * FeeBase - inA * SwapFee) * (balanceB * FeeBase - inB * SwapFee)
        >= reserveA * reserveB * FeeBase * FeeBase
===============================================================================
