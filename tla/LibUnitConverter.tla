-------------------------- MODULE LibUnitConverter --------------------------
(***************************************************************************)
(* The exchange keeps balances with 8 decimals whatever the decimals of    *)
(* the token; tokens move in base units.  Unit stands for 10^8 and         *)
(* BaseUnit[a] for 10^decimals of asset a (10^18 for ETH), both scaled     *)
(* down.  Both conversions multiply and then divide, rounding down.        *)
(***************************************************************************)
EXTENDS Integers

CONSTANTS Unit, BaseUnit, Int112Max

ASSUME UnitAssumption ==
    /\ Unit \in Nat \ {0}
    /\ Int112Max \in Nat
    /\ \A a \in DOMAIN BaseUnit : BaseUnit[a] \in Nat \ {0}

DecimalToBaseUnit(asset, amount) == (amount * BaseUnit[asset]) \div Unit

(* Slip: the two scales are exchanged. *)
BaseUnitToDecimalInverted(asset, amount) == (amount * BaseUnit[asset]) \div Unit

BaseUnitToDecimal(asset, amount) == (amount * Unit) \div BaseUnit[asset]

(* require "E3U": a converted amount must fit int112. *)
FitsInt112(amount) == amount < Int112Max
=============================================================================
