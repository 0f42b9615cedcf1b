---------------------------- MODULE LibValidator ----------------------------
(***************************************************************************)
(* The checks of submitted orders.  A signature is abstracted to whether   *)
(* the sender signed the order (in either of the two formats).             *)
(***************************************************************************)
EXTENDS ExchangeStorage

CONSTANTS
    SignedOrders,   \* the orders whose signature recovers to senderAddress
    AllowedMatcher  \* ZeroAddress when any matcher is allowed

ASSUME ValidatorAssumption == SignedOrders \subseteq Orders

kSell == 0
kBuy == 1

validateOrder(order) == order \in SignedOrders

NotExpired(order) == order.expiration \div 1000 >= now

checkOrdersInfo(buyOrder, sellOrder, sender, filledAmount, filledPrice) ==
    /\ validateOrder(buyOrder)
    /\ validateOrder(sellOrder)
    /\ buyOrder.matcherAddress = sender
    /\ sellOrder.matcherAddress = sender
    /\ AllowedMatcher # ZeroAddress => buyOrder.matcherAddress = AllowedMatcher
    /\ buyOrder.baseAsset = sellOrder.baseAsset
    /\ buyOrder.quoteAsset = sellOrder.quoteAsset
    /\ filledAmount <= buyOrder.amount
    /\ filledAmount <= sellOrder.amount
    /\ filledPrice <= buyOrder.price
    /\ filledPrice >= sellOrder.price
    /\ NotExpired(buyOrder)
    /\ NotExpired(sellOrder)
    /\ buyOrder.buySide = kBuy
    /\ sellOrder.buySide = kSell

(* An order that is matched with the pool: the path joins its two assets.  *)
(* Any side but kBuy is checked as a sale.                                 *)
checkOrderSingleMatch(order, sender, filledAmount, path) ==
    /\ validateOrder(order)
    /\ order.matcherAddress = sender
    /\ order.matcherAddress = AllowedMatcher
    /\ order.buySide = kBuy =>
          order.quoteAsset = path[1] /\ order.baseAsset = path[Len(path)]
    /\ order.buySide # kBuy =>
          order.baseAsset = path[1] /\ order.quoteAsset = path[Len(path)]
    /\ filledAmount <= order.amount
    /\ NotExpired(order)
=============================================================================
