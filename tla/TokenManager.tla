---------------------------- MODULE TokenManager -----------------------------
(***************************************************************************)
(* How much of an asset all Prime Accounts together may hold               *)
(* (TokenManager.sol).  The limit is on a group of assets; what accounts   *)
(* are still waiting for counts as pending, per asset and account.  Assets *)
(* without a group belong to one without a limit here.                     *)
(***************************************************************************)
EXTENDS Integers, FiniteSetsExt

CONSTANTS Accounts, Assets, Groups,
          GroupOf,          \* identifierToExposureGroup
          MaxExposure       \* groupToExposure[_].max; 0 means no limit

ASSUME ExposureAssumption ==
    /\ IsFiniteSet(Accounts) /\ IsFiniteSet(Assets)
    /\ GroupOf \in [Assets -> Groups]
    /\ MaxExposure \in [Groups -> Nat]

VARIABLES exposure,                 \* groupToExposure[_].current
          pendingUserExposure,
          pendingProtocolExposure

exposureVars == <<exposure, pendingUserExposure, pendingProtocolExposure>>

ExposureTypeOK ==
    /\ exposure \in [Groups -> Nat]
    /\ pendingUserExposure \in [Accounts -> [Assets -> Nat]]
    /\ pendingProtocolExposure \in [Assets -> Nat]

InitExposure ==
    /\ exposure = [g \in Groups |-> 0]
    /\ pendingUserExposure = [a \in Accounts |-> [x \in Assets |-> 0]]
    /\ pendingProtocolExposure = [x \in Assets |-> 0]

-----------------------------------------------------------------------------

\* Amounts of several assets are functions; this is an amount of one.
Only(asset, amount) == [x \in Assets |-> IF x = asset THEN amount ELSE 0]

Limited(group) == MaxExposure[group] # 0

InGroup(amounts, group) ==
    SumFunctionOnSet(amounts, {x \in Assets : GroupOf[x] = group})

\* increaseProtocolExposure of every asset; the call reverts unless WithinLimits.
Increased(current, amounts) ==
    [g \in Groups |-> IF Limited(g) THEN current[g] + InGroup(amounts, g) ELSE current[g]]

WithinLimits(current) == \A g \in Groups : Limited(g) => current[g] <= MaxExposure[g]

\* Mutant of Decreased: an exposure smaller than the decrease is left alone.
DecreasedOrKept(current, amounts) ==
    [g \in Groups |->
        IF Limited(g) /\ current[g] > InGroup(amounts, g)
        THEN current[g] - InGroup(amounts, g) ELSE current[g]]

\* decreaseProtocolExposure of every asset, down to zero.
Decreased(current, amounts) ==
    [g \in Groups |->
        IF Limited(g) THEN Max({0, current[g] - InGroup(amounts, g)}) ELSE current[g]]

\* The limit is of the group, the pending amount of the asset alone.
IsExposureAvailable(current, pending, asset) ==
    LET g == GroupOf[asset] IN Limited(g) => current[g] + pending[asset] < MaxExposure[g]

\* increasePendingExposure of every asset in amounts that is requested.
IncreasePendingExposure(account, amounts, requested) ==
    /\ pendingUserExposure' =
         [pendingUserExposure EXCEPT ![account] = [x \in Assets |-> @[x] + amounts[x]]]
    /\ pendingProtocolExposure' = [x \in Assets |-> pendingProtocolExposure[x] + amounts[x]]
    /\ \A x \in requested : IsExposureAvailable(exposure, pendingProtocolExposure', x)

\* Mutant of SetPendingExposureToZero: one asset of two is left pending.
SetPendingOfOneToZero(account, assets) ==
    LET cleared == [x \in Assets |->
            IF assets # {} /\ x = CHOOSE y \in assets : TRUE
            THEN pendingUserExposure[account][x] ELSE 0]
    IN /\ pendingUserExposure' =
            [pendingUserExposure EXCEPT ![account] = [x \in Assets |-> @[x] - cleared[x]]]
       /\ pendingProtocolExposure' =
            [x \in Assets |-> pendingProtocolExposure[x] - cleared[x]]

SetPendingExposureToZero(account, assets) ==
    LET cleared == [x \in Assets |->
            IF x \in assets THEN pendingUserExposure[account][x] ELSE 0]
    IN /\ pendingUserExposure' =
            [pendingUserExposure EXCEPT ![account] = [x \in Assets |-> @[x] - cleared[x]]]
       /\ pendingProtocolExposure' =
            [x \in Assets |-> pendingProtocolExposure[x] - cleared[x]]
==============================================================================
