----------------------- MODULE OrionPoolV2PairProperties -----------------------
(* What a pair promises its liquidity providers and its traders. *)
EXTENDS OrionPoolV2Pair, FiniteSetsExt

PairTypeOK ==
    /\ {reserve, balance} \subseteq [Tokens -> Nat]
    /\ balanceOf \in [Holders -> Nat]
    /\ totalSupply \in Nat /\ kLast \in Nat
    /\ feeTo \in Accounts \cup {NoOne}
    /\ holdings \in [Accounts -> [Tokens -> Nat]]

(* Between transactions the pair holds what its reserves say, so that the
   differences taken by mint and skim are never negative: whatever order of
   swaps, callbacks, burns and transfers (OrionPoolV2Pair.sol:112-113). *)
ReservesCovered == unlocked => \A t \in Tokens : reserve[t] <= balance[t]

(* No step lowers the product of the reserves per squared share while there is
   no protocol fee: neither a swap with whatever happens in its callback, nor
   the rounding of mint and burn takes from the other providers. *)
ShareNeverLosesValue ==
    [][feeTo = NoOne /\ totalSupply > 0 =>
          Product(reserve)' * totalSupply * totalSupply
             >= Product(reserve) * totalSupply' * totalSupply']_pairVars

FeeMinted == balanceOf'[feeTo] - balanceOf[feeTo]

(* The step mints or burns, for somebody else than the receiver of the fee, and
   is no swap that fails. *)
LiquidityEvent ==
    /\ unlocked /\ unlocked'
    /\ \/ \E h \in Accounts \ {feeTo} : balanceOf'[h] > balanceOf[h]
       \/ balanceOf'[Pair] < balanceOf[Pair]

(* No fee is minted by the first liquidity event after one at which the fee was
   off, which leaves kLast at 0.  The shares minted by any other are worth no
   more than 1/n of the growth of the root of the product since the last one. *)
FeeAtMost(n) ==
    LET rootK == sqrt(Product(reserve))
    IN feeTo # NoOne /\ LiquidityEvent /\ FeeMinted > 0 =>
          /\ kLast > 0
          /\ n * FeeMinted * rootK <= (rootK - sqrt(kLast)) * (totalSupply + FeeMinted)

(* The protocol takes at most a third of the growth since the last liquidity
   event, and nothing if the fee was off then (OrionPoolV2Pair.sol:87-105).  The
   comment above that code speaks of a sixth: see FeeWithinSixth. *)
FeeWithinThird == [][FeeAtMost(3)]_pairVars

(* "If fee is on, mint liquidity equivalent to 1/6th of the growth in sqrt(k)"
   (OrionPoolV2Pair.sol:86).  It does not hold: the denominator (:97) has twice
   rootK, where a sixth needs it five times. *)
FeeWithinSixth == [][FeeAtMost(6)]_pairVars

-------------------------------------------------------------------------------
Accepts(amountIn, amountOut) ==
    /\ amountOut \in 1 .. reserve[token1] - 1
    /\ KeepsProduct(reserve[token0] + amountIn, reserve[token1] - amountOut,
                    amountIn, 0, reserve[token0], reserve[token1])

(* Routers quote with the library and swap on the pair: on any reserves that
   can be reached, the quote for an input is the largest output the pair
   accepts, so that a quoted swap neither fails nor gives the difference away. *)
QuoteIsBest ==
    (\A t \in Tokens : reserve[t] > 0) => \A amountIn \in 1 .. Uint112Max \div 2 :
        LET quote == getAmountOut(amountIn, reserve[token0], reserve[token1])
        IN /\ quote > 0 => Accepts(amountIn, quote)
           /\ ~Accepts(amountIn, quote + 1)

(* The input quoted for an output is accepted, and is at most one more than
   the least input that is. *)
QuotedInputSuffices ==
    \A amountOut \in 1 .. Uint112Max \div 2 :
        LET quote == getAmountIn(amountOut, reserve[token0], reserve[token1])
        IN quote > 0 => /\ Accepts(quote, amountOut)
                        /\ quote > 1 => ~Accepts(quote - 2, amountOut)
================================================================================
