-------------------- MODULE ExchangeWithOrionPoolProperties --------------------
(***************************************************************************)
(* What the exchange promises when the pool is the counterparty.  The      *)
(* invariants of ExchangeProperties are checked on PoolSpec as well.       *)
(***************************************************************************)
EXTENDS ExchangeWithOrionPool, ExchangeProperties

(* Every variable has its type, the reserves included. *)
PoolTypeOK == TypeOK /\ reserves \in ReservesType

(* All fills of an order, under whatever fee it was hashed. *)
FilledTotal(order) ==
    SumFunction([fee \in 0 .. order.matcherFee |-> filledAmounts[<<order.nonce, fee>>]])

(* What an order grants for a fill of amount d through the pool, which takes
   the whole fee at every attempt. *)
PoolTerms(order, d, asset) ==
    LET quote == (d * order.price) \div Unit
        sign == IF order.buySide = kBuy THEN 1 ELSE -1
    IN (IF asset = order.baseAsset THEN sign * d ELSE 0)
       - (IF asset = order.quoteAsset THEN sign * quote ELSE 0)
       - (IF asset = order.matcherFeeAsset THEN order.matcherFee ELSE 0)

(* What a request of a swap grants. *)
RequestTerms(request, asset) ==
    (IF asset = Last(request.path) THEN request.receive ELSE 0)
    - (IF asset = First(request.path) THEN request.spend ELSE 0)

FilledByPool(user) ==
    /\ reserves' # reserves \/ UNCHANGED filledAmounts
    /\ \E o \in SignedOrders :
          /\ o.senderAddress = user
          /\ \A a \in Assets :
                BaseUnit[a] = Unit /\ (o.buySide = kBuy => BaseUnit[o.baseAsset] = Unit) =>
                    WealthChange(user, a) >= PoolTerms(o, FilledTotal(o)' - FilledTotal(o), a)

SwappedByUser(user) ==
    \E request \in PoolSwaps :
        /\ SwapThroughOrionPool(user, request)
        /\ \A a \in Assets :
              BaseUnit[a] = Unit => WealthChange(user, a) >= RequestTerms(request, a)

(* With the pool as the counterparty nobody else loses, and a user gets no less
   than an own signed order grants for what the step fills of it (a failed
   attempt costs no more than its fee), or than an own request of a swap
   grants: whether balances, wallet or ether paid, and wherever the output
   went (ExchangeWithOrionPool.sol:56-66).  As in TermsHonoured, an asset counts
   when its base unit is the exchange's unit; and for a purchase that of the
   bought asset has to be as well: what is recorded as filled is what came,
   rounded down, and what was paid is limited by what was asked. *)
PoolTermsHonoured ==
    [][\A u \in Users :
          \/ \A a \in Assets : BaseUnit[a] = Unit =>
                WealthChange(u, a) >= Due(u, a) \/ LiquidationPayment(u, a)
          \/ FilledByPool(u)
          \/ SwappedByUser(u)]_poolVars

(* What the exchange holds leaves to the wallet of a user, and a debt deepens,
   only in a transaction that leaves the user's position positive.  A swap
   paid by the wallet needs no check: it takes nothing from the exchange. *)
PoolRiskIsCovered ==
    [][\A u \in Users, a \in Assets :
          \/ wallet'[u][a] > wallet[u][a] /\ held'[a] < held[a]
          \/ assetBalances'[u][a] < 0 /\ assetBalances'[u][a] < assetBalances[u][a]
          => checkPosition(u)']_poolVars

(* The fills of an order never exceed its amount (Exchange.sol:236-237: the
   order hash is the order id "to prevent double matching of the same order"). *)
OrderFilledOnce == \A o \in Orders : FilledTotal(o) <= o.amount
================================================================================
