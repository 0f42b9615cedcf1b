------------------------ MODULE PriceOracleInterface ------------------------
(***************************************************************************)
(* What the exchange sees of the price oracle: the latest price of every   *)
(* asset, in ORN, with the time the price is good for, and block time.     *)
(* The oracle contract itself (who may feed it, ChainLink) is modelled in  *)
(* PriceOracle, on the same two variables.                                 *)
(***************************************************************************)
EXTENDS Integers, Sequences, FiniteSets

CONSTANTS
    Assets,      \* token contracts and, when the run has it, address(0)
    Feeds,       \* the feeds a provider may send: partial maps asset -> price
    FutureSlack, \* a feed must be stamped before now + FutureSlack (60 s)
    StartTime,   \* block time when the first price may be provided
    MaxTime      \* bound on block time

ASSUME TimeAssumption ==
    /\ FutureSlack \in Nat
    /\ StartTime \in Nat
    /\ MaxTime \in Nat
    /\ \A feed \in Feeds :
          /\ DOMAIN feed \subseteq Assets
          /\ \A a \in DOMAIN feed : feed[a] \in Nat

VARIABLES
    assetPrices, \* asset -> PriceDataOut
    now          \* block.timestamp of the next transaction

oracleVars == <<assetPrices, now>>

PriceDataOut == [price : Nat, timestamp : Nat]

OracleTypeOK ==
    /\ assetPrices \in [Assets -> PriceDataOut]
    /\ now \in Nat

OracleInit ==
    /\ assetPrices = [a \in Assets |-> [price |-> 0, timestamp |-> 0]]
    /\ now = StartTime

(* A price of the feed replaces the stored one only when it is newer. *)
StoreFeed(feed, t) ==
    [a \in Assets |->
        IF a \in DOMAIN feed /\ assetPrices[a].timestamp < t
        THEN [price |-> feed[a], timestamp |-> t]
        ELSE assetPrices[a]]

(* An authorised provider's transaction. *)
ProvideData(feed, t) ==
    /\ t < now + FutureSlack
    /\ assetPrices' = StoreFeed(feed, t)
    /\ UNCHANGED now

(* A new block has a later timestamp. *)
Tick ==
    /\ now < MaxTime
    /\ now' = now + 1
    /\ UNCHANGED assetPrices

-------------------------------------------------------------------------------
(***************************************************************************)
(* What the exchange may rely on, whoever feeds the oracle: a stored price *)
(* is only replaced by one stamped later, and never stamped FutureSlack or *)
(* more ahead of the block that stores it.                                 *)
(***************************************************************************)
PricesMove ==
    /\ \A a \in Assets : assetPrices'[a] # assetPrices[a] =>
          /\ assetPrices'[a].timestamp > assetPrices[a].timestamp
          /\ assetPrices'[a].timestamp < now + FutureSlack
    /\ UNCHANGED now

OracleSpec == OracleInit /\ [][Tick \/ PricesMove]_oracleVars
=============================================================================
