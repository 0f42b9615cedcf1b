--------------------------- MODULE ExchangeStorage ---------------------------
(***************************************************************************)
(* The state of the exchange contract and of the tokens it custodies.      *)
(* Every transaction is atomic: an action changes the whole state, or is   *)
(* not enabled where the code reverts.                                     *)
(***************************************************************************)
EXTENDS PriceOracleInterface, LibUnitConverter

CONSTANTS
    Users,            \* every address that trades, lends, matches, liquidates
    ORN,              \* the Orion token, the asset of stakes and of prices
    ETH,              \* address(0), which stands for ether
    Orders,           \* the orders a matcher may submit, signed or not
    InitialSettings,  \* the margin settings of the deployed exchange
    InitialRisks,     \* and the risk coefficient of each asset
    InitialWallet,    \* user -> asset -> base units held outside
    InitialAllowance  \* user -> asset -> base units approved to the exchange

ZeroAddress == ETH

(***************************************************************************)
(* The fields of LibValidator.Order; expiration is in milliseconds.        *)
(***************************************************************************)
OrderType ==
    [senderAddress : Users, matcherAddress : Users,
     baseAsset : Assets, quoteAsset : Assets, matcherFeeAsset : Assets,
     amount : Nat, price : Nat, matcherFee : Nat,
     nonce : Nat, expiration : Nat, buySide : Nat]

(***************************************************************************)
(* The type hash is injective on these fields, matcherFee included.  The   *)
(* orders of an instance are told apart by their nonce, so that the nonce  *)
(* with the fee stands for the hash.  The signature and its format are not *)
(* hashed.                                                                 *)
(***************************************************************************)
getTypeValueHash(order) == <<order.nonce, order.matcherFee>>

OrderHashes ==
    UNION {{<<o.nonce, fee>> : fee \in 0 .. o.matcherFee} : o \in Orders}

Settings ==
    [collateralAssets : Seq(Assets), stakeRisk : Nat, liquidationPremium : Nat,
     priceOverdue : Nat, positionOverdue : Nat]

(* Users are addresses, of which there are 2^160. *)
ASSUME StorageAssumption ==
    /\ IsFiniteSet(Users)
    /\ ORN \in Assets
    /\ DOMAIN BaseUnit = Assets
    /\ Orders \subseteq OrderType
    /\ \A o1, o2 \in Orders : o1.nonce = o2.nonce => o1 = o2
    /\ InitialSettings \in Settings
    /\ InitialRisks \in [Assets -> Nat]
    /\ InitialWallet \in [Users -> [Assets -> Nat]]
    /\ InitialAllowance \in [Users -> [Assets -> Nat]]

VARIABLES
    assetBalances, \* user -> asset -> balance on the exchange, 8 decimals
    liabilities,   \* user -> list of assets with negative balance
    filledAmounts, \* order hash -> amount filled so far
    settings,      \* collateralAssets, stakeRisk, liquidationPremium, delays
    assetRisks,    \* asset -> risk coefficient, 255 = 1
    wallet,        \* user -> asset -> base units the user holds outside
    allowance,     \* user -> asset -> base units the exchange may pull
    held           \* asset -> base units the exchange contract holds

ledgerVars == <<assetBalances, liabilities, wallet, allowance, held>>
settingsVars == <<settings, assetRisks>>

Liability == [asset : Assets, timestamp : Nat, outstandingAmount : Nat]

StorageTypeOK ==
    /\ assetBalances \in [Users -> [Assets -> Int]]
    /\ liabilities \in [Users -> Seq(Liability)]
    /\ filledAmounts \in [OrderHashes -> Nat]
    /\ settings \in Settings
    /\ assetRisks \in [Assets -> Nat]
    /\ wallet \in [Users -> [Assets -> Nat]]
    /\ allowance \in [Users -> [Assets -> Nat]]
    /\ held \in [Assets -> Nat]

StorageInit ==
    /\ assetBalances = [u \in Users |-> [a \in Assets |-> 0]]
    /\ liabilities = [u \in Users |-> <<>>]
    /\ filledAmounts = [h \in OrderHashes |-> 0]
    /\ settings = InitialSettings
    /\ assetRisks = InitialRisks
    /\ wallet = InitialWallet
    /\ allowance = InitialAllowance
    /\ held = [a \in Assets |-> 0]
=============================================================================
