--------------------------- MODULE StakeLifecycle ---------------------------
(***************************************************************************)
(* What a stake is, to the user who locks it and to those who lend to that *)
(* user: it can be called back when nothing is owed, is paid out when the  *)
(* releasing time has passed, and is behind every debt until then.  Here a *)
(* stake becomes ready by the passing of time itself; the vault stores     *)
(* when the release began and finds out when it is asked.                  *)
(***************************************************************************)
EXTENDS Integers

CONSTANTS Stakers, ReleasingDuration

VARIABLES
    phase,      \* staker -> phase of the stake
    amount,     \* staker -> amount staked
    since,      \* staker -> when the stake was last locked or called back
    borrowers,  \* the stakers who owe anything
    clock

stakeVars == <<phase, amount, since, borrowers, clock>>

Init ==
    /\ phase = [u \in Stakers |-> "NOTSTAKED"]
    /\ amount = [u \in Stakers |-> 0]
    /\ since = [u \in Stakers |-> 0]
    /\ borrowers = {}
    /\ clock \in Nat

(* Only a stake that is there, and not on its way out, is security. *)
IsSecurity(u) == amount[u] > 0 /\ phase[u] \in {"LOCKED", "FROZEN"}

Matured(u, time) ==
    phase[u] = "RELEASING" /\ time - since[u] > ReleasingDuration

(* Time makes a stake ready, and does nothing else to it. *)
Pass ==
    /\ clock' = clock + 1
    /\ phase' = [u \in Stakers |-> IF Matured(u, clock') THEN "READYTORELEASE" ELSE phase[u]]
    /\ UNCHANGED <<amount, since, borrowers>>

Lock(u) ==
    /\ amount'[u] >= amount[u]
    /\ amount' = [amount EXCEPT ![u] = amount'[u]]
    /\ phase' = [phase EXCEPT ![u] = IF @ = "FROZEN" THEN @ ELSE "LOCKED"]
    /\ since' = [since EXCEPT ![u] = clock]
    /\ UNCHANGED <<borrowers, clock>>

CallBack(u) ==
    /\ phase[u] = "LOCKED" /\ u \notin borrowers
    /\ phase' = [phase EXCEPT ![u] = "RELEASING"]
    /\ since' = [since EXCEPT ![u] = clock]
    /\ UNCHANGED <<amount, borrowers, clock>>

Collect(u) ==
    /\ phase[u] = "READYTORELEASE" /\ u \notin borrowers
    /\ phase' = [phase EXCEPT ![u] = "NOTSTAKED"]
    /\ amount' = [amount EXCEPT ![u] = 0]
    /\ UNCHANGED <<since, borrowers, clock>>

(* Nothing but a liquidation takes from a stake, and only from a borrower's. *)
Seize(u) ==
    /\ u \in borrowers
    /\ amount'[u] <= amount[u]
    /\ amount' = [amount EXCEPT ![u] = amount'[u]]
    /\ borrowers' \in {borrowers, borrowers \ {u}}
    /\ UNCHANGED <<phase, since, clock>>

(* Users borrow on a stake that is security, and repay. *)
Settle ==
    /\ \A u \in borrowers' \ borrowers : IsSecurity(u)
    /\ borrowers' \subseteq Stakers
    /\ UNCHANGED <<phase, amount, since, clock>>

(* The owner of the exchange stops a release, or lets a stake go at once. *)
Override(u, decision) ==
    /\ phase' = [phase EXCEPT ![u] = decision]
    /\ UNCHANGED <<amount, since, borrowers, clock>>

Next ==
    \/ Pass
    \/ Settle
    \/ \E u \in Stakers :
          \/ Lock(u) \/ CallBack(u) \/ Collect(u) \/ Seize(u)
          \/ Override(u, "FROZEN") \/ Override(u, "READYTORELEASE")

Spec == Init /\ [][Next]_stakeVars
=============================================================================
