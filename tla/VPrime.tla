------------------------------- MODULE VPrime --------------------------------
(***************************************************************************)
(* The voting power of an account (token/vPrime.sol): a balance that moves *)
(* linearly towards a limit, recorded in a list of checkpoints that can be *)
(* searched for the votes of any past second.  The contract's own address, *)
(* Total, keys the checkpoints of the total supply.  Only the controller   *)
(* (VPrimeController) calls the operations here.                           *)
(***************************************************************************)
EXTENDS Integers, SequencesExt

CONSTANTS Users,
          Total,            \* the contract's own address
          MAX_SUPPLY,       \* type(uint224).max
          MaxTime           \* bound: the last block time of a behaviour

ASSUME VPrimeAssumption ==
    /\ Total \notin Users
    /\ MAX_SUPPLY \in Nat
    /\ MaxTime \in Nat \ {0}

VARIABLES now,              \* block.timestamp
          checkpoints,      \* of every user, and of Total
          needsUpdate       \* the users whose rate and limit are out of date

Holders == Users \cup {Total}
Times == 1..MaxTime

Checkpoints == [blockTimestamp : Times, balance : Nat, rate : Int, balanceLimit : Nat]

-----------------------------------------------------------------------------
(* Views *)

\* getVotes, and getLastRecordedTotalSupply for Total.
GetVotes(account) ==
    IF checkpoints[account] = <<>> THEN 0 ELSE Last(checkpoints[account]).balance

\* Mutant of Moved: the balance moves on past its limit.
MovedFreely(cp, elapsed) == Max({0, cp.balance + cp.rate * elapsed})

\* The balance of a checkpoint after some time: up to the limit, or down to it.
Moved(cp, elapsed) ==
    LET moved == cp.balance + cp.rate * elapsed
    IN IF cp.rate >= 0
       THEN IF moved > cp.balanceLimit THEN cp.balanceLimit ELSE moved
       ELSE IF moved < cp.balanceLimit THEN cp.balanceLimit ELSE moved

BalanceOf(account) ==
    IF checkpoints[account] = <<>> THEN 0
    ELSE LET cp == Last(checkpoints[account])
         IN IF account \in needsUpdate
            THEN cp.balance
            ELSE Moved(cp, now - cp.blockTimestamp)

FloorSqrt(n) == CHOOSE r \in 0..n : r * r <= n /\ n < (r + 1) * (r + 1)

\* Mutant of After: a checkpoint of the very second is not found.
AtOrAfter(cp, timestamp) == cp.blockTimestamp >= timestamp

After(cp, timestamp) == cp.blockTimestamp > timestamp

\* The loop of _checkpointsLookup: a binary search over the positions low..high-1,
\* the window <<low, high>>, of a list numbered from 0.
Middle(window) == (window[1] + window[2]) \div 2
Search(ckpts, timestamp) ==
    LET search[window \in (0..Len(ckpts)) \X (0..Len(ckpts))] ==
            IF window[1] >= window[2] THEN window[2]
            ELSE IF After(ckpts[Middle(window) + 1], timestamp)
                 THEN search[<<window[1], Middle(window)>>]
                 ELSE search[<<Middle(window) + 1, window[2]>>]
    IN search

\* In a long list recent checkpoints are tried first.
CheckpointsLookup(ckpts, timestamp) ==
    LET length == Len(ckpts)
        recent == length - FloorSqrt(length)
        window == IF length <= 5 THEN <<0, length>>
                  ELSE IF After(ckpts[recent + 1], timestamp) THEN <<0, recent>>
                  ELSE <<recent + 1, length>>
        found == Search(ckpts, timestamp)[window]
    IN IF found = 0 THEN 0 ELSE ckpts[found].balance

\* getPastVotes, and getPastTotalSupply for Total, for timestamps before now.
GetPastVotes(account, timestamp) == CheckpointsLookup(checkpoints[account], timestamp)

-----------------------------------------------------------------------------
(* Operations *)

InitVPrime ==
    /\ now = 1
    /\ checkpoints = [h \in Holders |-> <<>>]
    /\ needsUpdate = {}

\* Mutant of Written: a checkpoint is added in every case.
Appended(ckpts, balance, rate, limit) ==
    Append(ckpts, [blockTimestamp |-> now, balance |-> balance,
                   rate |-> rate, balanceLimit |-> limit])

\* Mutant of Written: the last checkpoint is replaced whatever its time.
Replaced(ckpts, balance, rate, limit) ==
    Append(IF ckpts = <<>> THEN <<>> ELSE Front(ckpts),
           [blockTimestamp |-> now, balance |-> balance,
            rate |-> rate, balanceLimit |-> limit])

\* _writeCheckpoint and _writeCheckpointOverwriteBalance.  When the last
\* checkpoint is of this very second they change a copy of it in memory, and the
\* list in storage stays as it is.
Written(ckpts, balance, rate, limit) ==
    IF ckpts # <<>> /\ Last(ckpts).blockTimestamp = now
    THEN ckpts
    ELSE Append(ckpts, [blockTimestamp |-> now, balance |-> balance,
                        rate |-> rate, balanceLimit |-> limit])

\* What adjustRateAndCap and adjustRateCapAndBalance share: the difference to
\* the last recorded votes goes into the total supply, checked both ways.
Adjust(user, rate, limit, balance) ==
    LET total == GetVotes(Total) + balance - GetVotes(user)
        recorded == Written(checkpoints[user], balance, rate, limit)
    IN /\ balance > GetVotes(user) => total <= MAX_SUPPLY
       /\ total >= 0
       /\ checkpoints' =
            IF balance = GetVotes(user)
            THEN [checkpoints EXCEPT ![user] = recorded]
            ELSE [checkpoints EXCEPT
                    ![user] = recorded,
                    ![Total] = Written(checkpoints[Total], total, 0, 0)]
       /\ needsUpdate' = needsUpdate \ {user}

AdjustRateAndCap(user, rate, limit) == Adjust(user, rate, limit, BalanceOf(user))

AdjustRateCapAndBalance(user, rate, limit, balance) ==
    Adjust(user, rate, limit, balance)

SetUserNeedsUpdate(user) ==
    /\ needsUpdate' = needsUpdate \cup {user}
    /\ UNCHANGED checkpoints

-----------------------------------------------------------------------------
(* Properties *)

\* The lists the binary search relies on are sorted, with one checkpoint per
\* second and none in the future (vPrime.sol:228-276).
CheckpointsSorted ==
    \A h \in Holders : \A i, j \in DOMAIN checkpoints[h] :
        /\ i < j => checkpoints[h][i].blockTimestamp < checkpoints[h][j].blockTimestamp
        /\ checkpoints[h][i].blockTimestamp <= now

\* The search finds the last checkpoint taken before or at the timestamp, in
\* short lists and in those where it starts from the recent end
\* (vPrime.sol:283-322).
LookupFinds ==
    \A h \in Holders, t \in 0..(now - 1) :
        LET past == {i \in DOMAIN checkpoints[h] : checkpoints[h][i].blockTimestamp <= t}
        IN GetPastVotes(h, t) =
            IF past = {} THEN 0 ELSE checkpoints[h][Max(past)].balance

\* The votes of a past second are settled: no later step changes them.
PastVotesFixed ==
    [][\A h \in Holders, t \in 0..(now - 1) :
            GetPastVotes(h, t)' = GetPastVotes(h, t)]_<<now, checkpoints, needsUpdate>>

\* Between two updates time moves a balance towards its limit and not past it,
\* from either side (balanceOf, vPrime.sol:113-143).
DriftsToLimit ==
    [][now' # now => \A u \in Users : checkpoints[u] # <<>> =>
        LET limit == Last(checkpoints[u]).balanceLimit
        IN \/ BalanceOf(u)' = BalanceOf(u)
           \/ BalanceOf(u) < BalanceOf(u)' /\ BalanceOf(u)' <= limit
           \/ limit <= BalanceOf(u)' /\ BalanceOf(u)' < BalanceOf(u)
      ]_<<now, checkpoints, needsUpdate>>

\* getPastTotalSupply (vPrime.sol:198-199): "Note, this value is the sum of all
\* balances."
TotalIsSum ==
    LET votes(u) == GetVotes(u)
    IN GetVotes(Total) = SumFunction([u \in Users |-> votes(u)])
==============================================================================
