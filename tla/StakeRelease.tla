---------------------------- MODULE StakeRelease ----------------------------
(***************************************************************************)
(* The stakes of the exchange, seen as the life cycle of StakeLifecycle,   *)
(* and the release of a stake as something that comes to an end.           *)
(***************************************************************************)
EXTENDS ExchangeProperties

(* The phase of the life cycle is the one getStake computes on the fly. *)
Lifecycle == INSTANCE StakeLifecycle WITH
    Stakers <- Users,
    phase <- [u \in Users |-> getStakePhase(u)],
    amount <- [u \in Users |-> stakingData[u].amount],
    since <- [u \in Users |-> stakingData[u].lastActionTimestamp],
    borrowers <- {u \in Users : liabilities[u] # <<>>},
    clock <- now

(* Through trades, repayments, liquidations, the passing of time and the
   owner's interventions, in every order, the vault and the margin checks
   together give a stake this life and no other. *)
ImplementsLifecycle == Lifecycle!Spec

-------------------------------------------------------------------------------
(* Blocks keep coming up to MaxTime, and a user whose stake can be collected
   does not forget to ask for it for ever. *)
NextBlock == Tick /\ UNCHANGED <<ledgerVars, filledAmounts, settingsVars, stakingData>>

ReleaseFairness ==
    /\ WF_vars(NextBlock)
    /\ \A u \in Users : WF_vars(CollectStake(u))

FairSpec == Spec /\ ReleaseFairness

(* The release began early enough to end within the bound on time. *)
EndsInTime(u) == stakingData[u].lastActionTimestamp + ReleasingDuration < MaxTime

(* A release that was granted comes to an end: the stake is collected, unless
   its user locks it again or the owner freezes it.  A debt taken meanwhile
   would keep the stake for as long as the debt lasts: that none can be taken
   is what makes the call of requestReleaseStake succeed in the end
   (OrionVault.sol:88: "both unlock and withdraw is impossible if user has
   liabilities"). *)
ReleaseEnds ==
    \A u \in Users :
        getStakePhase(u) = "RELEASING" /\ EndsInTime(u)
            ~> getStakePhase(u) \in {"NOTSTAKED", "LOCKED", "FROZEN"}
=============================================================================
