----------------------------- MODULE HardhatTests -----------------------------
(***************************************************************************)
(* The tests of hardhat-tests, replayed on the specification: what they    *)
(* call, what they expect of every call and of the balances after it.  A   *)
(* test is a sequence of phases; a phase has threads, sequences of calls   *)
(* of independent accounts.  The tests await their calls one by one; here  *)
(* the threads of a phase interleave, and what a test expects must not     *)
(* depend on the order its author happened to write.                       *)
(***************************************************************************)
EXTENDS ExchangeWithOrionPool, TLC

CONSTANTS
    Suite,      \* name of a test -> its phases
    OrderLife   \* what a generated order adds to the time of its creation

(***************************************************************************)
(* A call.  settles is given for a swap whose amounts the test asks from   *)
(* the router: where they are paid and where they arrive.                  *)
(***************************************************************************)
Call(op, user, asset, amount) ==
    [op |-> op, user |-> user, asset |-> asset, amount |-> amount,
     reverts |-> FALSE, moves |-> {}, settles |-> <<>>]

mintAndApprove(token, receiver, amount) == Call("mintAndApprove", receiver, token, amount)
depositAsset(token, user, amount) == Call("deposit", user, token, amount)
deposit(user, value) == Call("deposit", user, ETH, value)
withdraw(asset, user, amount) == Call("withdraw", user, asset, amount)
cleanupDeposit(token, user) == Call("cleanupDeposit", user, token, 0)
approve(token, user, amount) == Call("approve", user, token, amount)
mint(token, receiver, amount) == Call("mint", receiver, token, amount)
transferToExchange(token, user, amount) == Call("transfer", user, token, amount)
burnToken(token, user) == Call("burnToken", user, token, 0)
lockStake(user, amount) == Call("lockStake", user, ORN, amount)
requestReleaseStake(user) == Call("requestReleaseStake", user, ORN, 0)
advanceTime(seconds) == Call("advanceTime", ETH, ETH, seconds)

mintAndDeposit(token, receiver, amount) ==
    <<mintAndApprove(token, receiver, amount), depositAsset(token, receiver, amount)>>

With(call, more) == more @@ call

updateMarginalSettings(new) == With(Call("settings", ETH, ETH, 0), [settings |-> new])
updateAssetRisks(risks) == With(Call("risks", ETH, ETH, 0), [risks |-> risks])
provideData(feed) == With(Call("provideData", ETH, ETH, 0), [feed |-> feed])

addLiquidity(owner, token0, token1, amount0, amount1) ==
    With(Call("addLiquidity", owner, token0, amount0),
         [other |-> token1, otherAmount |-> amount1])

fillOrders(buy, sell, price, amount) ==
    With(Call("fillOrders", buy.matcherAddress, buy.baseAsset, amount),
         [buy |-> buy, sell |-> sell, price |-> price])

fillThroughOrionPool(order, amount, fee, path) ==
    With(Call("fillPool", order.matcherAddress, order.baseAsset, amount),
         [order |-> order, fee |-> fee, path |-> path])

swapThroughOrionPool(user, value, spend, receive, path, exact) ==
    With(Call("swapPool", user, First(path), spend),
         [request |-> [value |-> value, spend |-> spend, receive |-> receive,
                       path |-> path, exact |-> exact]])

(* An account trades with the pairs, and the exchange has no part in it. *)
swapAtRouter(user, spend, receive, path, exact) ==
    With(Call("swapRouter", user, First(path), spend),
         [request |-> [spend |-> spend, receive |-> receive, path |-> path, exact |-> exact]])

partiallyLiquidate(liquidator, broker, asset, amount) ==
    With(Call("liquidate", liquidator, asset, amount), [broker |-> broker])

Reverts(call) == [call EXCEPT !.reverts = TRUE]
Moving(call, moves) == [call EXCEPT !.moves = moves]
Settling(call, from, to) == [call EXCEPT !.settles = <<from, to>>]

(* The signed order of a trader; the nonce stands for the time it is made. *)
generateOrderV4(nonce, trader, matcher, buySide, base, quote, feeAsset, amount, price, fee) ==
    [senderAddress |-> trader, matcherAddress |-> matcher, baseAsset |-> base,
     quoteAsset |-> quote, matcherFeeAsset |-> feeAsset, amount |-> amount,
     price |-> price, matcherFee |-> fee, nonce |-> nonce,
     expiration |-> 1000 * (StartTime + OrderLife), buySide |-> buySide]

Phase(threads, facts) == [threads |-> threads, facts |-> facts]

OrdersIn(call) ==
    CASE call.op = "fillOrders" -> {call.buy, call.sell}
      [] call.op = "fillPool" -> {call.order}
      [] OTHER -> {}

SeqsExt == INSTANCE SequencesExt

CallsOf(phases) ==
    SeqsExt!FlattenSeq(SeqsExt!FlattenSeq([p \in DOMAIN phases |-> phases[p].threads]))

OrdersOf(suite) ==
    UNION {LET calls == CallsOf(suite[name])
           IN UNION {OrdersIn(calls[i]) : i \in DOMAIN calls} : name \in DOMAIN suite}

-------------------------------------------------------------------------------
VARIABLES
    test,   \* the test that is run
    phase,  \* the phase it is in
    made,   \* how many calls each thread of the phase has made
    sent    \* the thread whose next call is sent and not yet mined, or 0

testVars == <<test, phase, made, sent>>

Threads == Suite[test][phase].threads

NothingMade(threads) == [t \in DOMAIN threads |-> 0]

Pending(t) == made[t] < Len(Threads[t])

NextCall(t) == Threads[t][made[t] + 1]

PhaseDone == \A t \in DOMAIN Threads : ~Pending(t)

-------------------------------------------------------------------------------
(* What a call does. *)

tokensOnly ==
    UNCHANGED <<assetBalances, liabilities, held, filledAmounts, stakingData,
                settingsVars, oracleVars, reserves>>

(* The owner of a token mints; the receiver approves the exchange. *)
MintAndApprove(token, receiver, amount) ==
    /\ wallet' = [wallet EXCEPT ![receiver][token] = @ + amount]
    /\ allowance' = [allowance EXCEPT ![receiver][token] = amount]
    /\ tokensOnly

(* The receiver approves another contract, which is not modelled. *)
Mint(token, receiver, amount) ==
    /\ wallet' = [wallet EXCEPT ![receiver][token] = @ + amount]
    /\ UNCHANGED allowance
    /\ tokensOnly

(* Tokens sent to the exchange without a deposit are nobody's. *)
TransferToExchange(token, user, amount) ==
    /\ wallet[user][token] >= amount
    /\ wallet' = [wallet EXCEPT ![user][token] = @ - amount]
    /\ held' = [held EXCEPT ![token] = @ + amount]
    /\ UNCHANGED <<assetBalances, liabilities, allowance, filledAmounts, stakingData,
                   settingsVars, oracleVars, reserves>>

(* The approval of the router is given before. *)
SwapAtRouter(user, request) ==
    LET path == request.path
        amounts == Quote(request.spend, request.receive, path, request.exact)
    IN
    /\ \A i \in DOMAIN path : amounts[i] > 0
    /\ WithinLimits(amounts, request.spend, request.receive, path, request.exact)
    /\ wallet[user][First(path)] >= First(amounts)
    /\ wallet' = [wallet EXCEPT ![user] =
                     [@ EXCEPT ![First(path)] = @ - First(amounts),
                               ![Last(path)] = @ + Last(amounts)]]
    /\ reserves' = Swapped(amounts, path)
    /\ UNCHANGED <<assetBalances, liabilities, allowance, held, filledAmounts, stakingData,
                   settingsVars, oracleVars>>

BurnToken(token, user) ==
    /\ wallet' = [wallet EXCEPT ![user][token] = 0]
    /\ UNCHANGED allowance
    /\ tokensOnly

(* All that a user has of a token on the exchange is withdrawn. *)
CleanupDeposit(token, user) ==
    /\ assetBalances[user][token] >= 0
    /\ Withdraw(user, token, DecimalToBaseUnit(token, assetBalances[user][token]))
    /\ UNCHANGED reserves

(* The owner mints both amounts, and adds them to the pair in the ratio of *)
(* its reserves, which every test meets.                                   *)
AddLiquidity(token0, token1, amount0, amount1) ==
    /\ reserves' = [reserves EXCEPT ![{token0, token1}][token0] = @ + amount0,
                                    ![{token0, token1}][token1] = @ + amount1]
    /\ UNCHANGED vars

AdvanceTime(seconds) ==
    /\ now' = now + seconds
    /\ UNCHANGED <<assetPrices, ledgerVars, filledAmounts, settingsVars, stakingData,
                   reserves>>

(* The operations of the exchange proper, which do not touch the pools. *)
ExchangeCall(c) ==
    \/ c.op = "deposit" /\ Deposit(c.user, c.asset, c.amount)
    \/ c.op = "withdraw" /\ Withdraw(c.user, c.asset, c.amount)
    \/ c.op = "approve" /\ Approve(c.user, c.asset, c.amount)
    \/ c.op = "lockStake" /\ LockStake(c.user, c.amount)
    \/ c.op = "requestReleaseStake" /\ RequestReleaseStake(c.user)
    \/ c.op = "fillOrders" /\ FillOrders(c.user, c.buy, c.sell, c.price, c.amount)
    \/ c.op = "liquidate" /\ PartiallyLiquidate(c.user, c.broker, c.asset, c.amount)
    \/ c.op = "settings" /\ UpdateMarginalSettings(c.settings)
    \/ c.op = "risks" /\ UpdateAssetRisks(c.risks @@ assetRisks)
    \/ /\ c.op = "provideData" /\ ProvideData(c.feed, now)
       /\ UNCHANGED <<ledgerVars, filledAmounts, settingsVars, stakingData>>

Execute(c) ==
    \/ ExchangeCall(c) /\ UNCHANGED reserves
    \/ c.op = "fillPool" /\ FillThroughOrionPool(c.user, c.order, c.amount, c.fee, c.path)
    \/ c.op = "swapPool" /\ SwapThroughOrionPool(c.user, c.request)
    \/ c.op = "mintAndApprove" /\ MintAndApprove(c.asset, c.user, c.amount)
    \/ c.op = "swapRouter" /\ SwapAtRouter(c.user, c.request)
    \/ c.op = "mint" /\ Mint(c.asset, c.user, c.amount)
    \/ c.op = "transfer" /\ TransferToExchange(c.asset, c.user, c.amount)
    \/ c.op = "burnToken" /\ BurnToken(c.asset, c.user)
    \/ c.op = "cleanupDeposit" /\ CleanupDeposit(c.asset, c.user)
    \/ c.op = "addLiquidity" /\ AddLiquidity(c.asset, c.other, c.amount, c.otherAmount)
    \/ c.op = "advanceTime" /\ AdvanceTime(c.amount)

-------------------------------------------------------------------------------
TestInit ==
    /\ PoolInit
    /\ test \in DOMAIN Suite
    /\ phase = 1
    /\ made = NothingMade(Suite[test][1].threads)
    /\ sent = 0

Submit(t) ==
    /\ sent = 0
    /\ Pending(t)
    /\ sent' = t
    /\ UNCHANGED <<test, phase, made, poolVars>>

(* A call that a test expects to revert is tried all the same.  Where any  *)
(* other call reverts the specification deadlocks.                         *)
Mine ==
    /\ sent # 0
    /\ sent' = 0
    /\ made' = [made EXCEPT ![sent] = @ + 1]
    /\ \/ \E call \in {NextCall(sent)} : Execute(call)
       \/ NextCall(sent).reverts /\ UNCHANGED poolVars
    /\ UNCHANGED <<test, phase>>

NextPhase ==
    /\ PhaseDone
    /\ phase < Len(Suite[test])
    /\ phase' = phase + 1
    /\ made' = NothingMade(Suite[test][phase + 1].threads)
    /\ UNCHANGED <<test, sent, poolVars>>

Finished ==
    /\ PhaseDone
    /\ phase = Len(Suite[test])
    /\ UNCHANGED <<testVars, poolVars>>

TestNext == (\E t \in DOMAIN Threads : Submit(t)) \/ Mine \/ NextPhase \/ Finished

TestSpec == TestInit /\ [][TestNext]_<<testVars, poolVars>>

-------------------------------------------------------------------------------
(* What a test expects. *)

Holds(place, user, asset, amount) ==
    [about |-> "holding", place |-> place, user |-> user, asset |-> asset, is |-> amount]

Position(user, state, weighted, total) ==
    [about |-> "position", user |-> user, is |-> [state |-> state,
        weightedPosition |-> weighted, totalPosition |-> total]]

PositionIs(user, state) == [about |-> "state", user |-> user, is |-> state]

Borrows(user, assets) == [about |-> "liabilities", user |-> user, is |-> assets]

DebtTimer(user, i, outstanding, since) ==
    [about |-> "timer", user |-> user, index |-> i,
     is |-> [outstandingAmount |-> outstanding, timestamp |-> since]]

Holding(place, user, asset) ==
    CASE place = "wallet" -> wallet[user][asset]
      [] place = "exchange" -> assetBalances[user][asset]
      [] place = "custody" -> held[asset]

Observed(fact) ==
    CASE fact.about = "holding" -> Holding(fact.place, fact.user, fact.asset)
      [] fact.about = "position" -> calcPosition(fact.user)
      [] fact.about = "state" -> calcPosition(fact.user).state
      [] fact.about = "liabilities" ->
            [i \in DOMAIN liabilities[fact.user] |-> liabilities[fact.user][i].asset]
      [] fact.about = "timer" ->
            LET entry == liabilities[fact.user][fact.index]
            IN [outstandingAmount |-> entry.outstandingAmount, timestamp |-> entry.timestamp]

(* What a user pays and receives is what the router quotes, apart from the *)
(* fee of an order and from ether that is deposited with the call.         *)
Settled(c) ==
    LET isFill == c.op = "fillPool"
        path == IF isFill THEN c.path ELSE c.request.path
        payer == IF isFill THEN c.order.senderAddress ELSE c.user
        quote == IF isFill THEN Quote(c.amount, c.amount, path, c.order.buySide = kSell)
                 ELSE Quote(c.request.spend, c.request.receive, path, c.request.exact)
        fee(asset) == IF isFill /\ c.order.matcherFeeAsset = asset
                      THEN IF c.fee < c.order.matcherFee THEN c.fee ELSE c.order.matcherFee
                      ELSE 0
        deposited == IF ~isFill /\ c.settles[1] = "exchange" THEN c.request.value ELSE 0
        changes(place, asset, amount) ==
            \A p \in {place}, u \in {payer}, a \in {asset} :
                Holding(p, u, a)' = Holding(p, u, a) + amount
    IN /\ changes(c.settles[1], First(path), deposited - First(quote) - fee(First(path)))
       /\ changes(c.settles[2], Last(path), Last(quote) - fee(Last(path)))

(* When all calls of a phase are made, the balances, positions and liabilities
   are what the test expects. *)
FactsAgree == PhaseDone => \A fact \in Suite[test][phase].facts : Observed(fact) = fact.is

(* A call that the test expects to revert changes nothing.  Any other changes
   the holdings the test compares before and after it by the expected amounts,
   a swap by what the router quoted before it. *)
ChangesAgree ==
    [][sent # 0 =>
          \A call \in {NextCall(sent)} :
             /\ call.reverts => UNCHANGED poolVars
             /\ \A move \in call.moves :
                   Holding(move[1], move[2], move[3])'
                       = Holding(move[1], move[2], move[3]) + move[4]
             /\ call.settles # <<>> => Settled(call)]_<<testVars, poolVars>>
===============================================================================
