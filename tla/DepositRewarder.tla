--------------------------- MODULE DepositRewarder ---------------------------
(***************************************************************************)
(* The staking rewards that a pool pays its depositors                     *)
(* (DepositRewarderAbstract.sol with DepositRewarderNative.sol and         *)
(* DepositRewarderERC20.sol).  A rewarder is a record of the contract's    *)
(* storage, with `funds' for the reward tokens it holds, and every method  *)
(* an operator to the next record.                                         *)
(***************************************************************************)
EXTENDS PoolBase, Functions

Rewarders ==
    [duration : Nat, finishAt : Nat, updatedAt : Nat, rewardRate : Nat,
     rewardPerTokenStored : Nat, userRewardPerTokenPaid : [Accounts -> Nat],
     rewards : [Accounts -> Nat], totalSupply : Nat,
     balanceOf : [Accounts -> Nat], funds : Nat]

NewRewarder ==
    [duration |-> 0, finishAt |-> 0, updatedAt |-> 0, rewardRate |-> 0,
     rewardPerTokenStored |-> 0,
     userRewardPerTokenPaid |-> [a \in Accounts |-> 0],
     rewards |-> [a \in Accounts |-> 0], totalSupply |-> 0,
     balanceOf |-> [a \in Accounts |-> 0], funds |-> 0]

LastTimeRewardApplicable(rw, now) == Least(rw.finishAt, now)

RewardPerToken(rw, now) ==
    IF rw.totalSupply = 0
    THEN rw.rewardPerTokenStored
    ELSE rw.rewardPerTokenStored +
           (rw.rewardRate * (LastTimeRewardApplicable(rw, now) - rw.updatedAt) * WAD)
               \div rw.totalSupply

Earned(rw, now, account) ==
    (rw.balanceOf[account] *
        (RewardPerToken(rw, now) - rw.userRewardPerTokenPaid[account])) \div WAD
    + rw.rewards[account]

\* Mutant of UpdateReward: the time of the update is not capped at finishAt.
UpdateRewardUncapped(rw, now, accounts) ==
    [rw EXCEPT !.rewardPerTokenStored = RewardPerToken(rw, now),
               !.updatedAt = now,
               !.rewards = [a \in Accounts |->
                    IF a \in accounts THEN Earned(rw, now, a) ELSE @[a]],
               !.userRewardPerTokenPaid = [a \in Accounts |->
                    IF a \in accounts THEN RewardPerToken(rw, now) ELSE @[a]]]

\* The updateReward modifier; accounts is {} for the address zero.
UpdateReward(rw, now, accounts) ==
    [rw EXCEPT !.rewardPerTokenStored = RewardPerToken(rw, now),
               !.updatedAt = LastTimeRewardApplicable(rw, now),
               !.rewards = [a \in Accounts |->
                    IF a \in accounts THEN Earned(rw, now, a) ELSE @[a]],
               !.userRewardPerTokenPaid = [a \in Accounts |->
                    IF a \in accounts THEN RewardPerToken(rw, now) ELSE @[a]]]

\* A rewarder in which the account has the given stake.
Restaked(rw, account, stake, total) ==
    [rw EXCEPT !.balanceOf = [@ EXCEPT ![account] = stake], !.totalSupply = total]

StakeFor(rw, now, amount, account) ==
    Restaked(UpdateReward(rw, now, {account}), account,
             rw.balanceOf[account] + amount, rw.totalSupply + amount)

\* What withdrawFor takes and returns: no more than the account has staked.
Unstaked(rw, amount, account) == Least(rw.balanceOf[account], amount)

\* `totalSupply -= amount' is checked arithmetic.
CanWithdrawFor(rw, amount, account) ==
    Unstaked(rw, amount, account) <= rw.totalSupply

\* Mutant of WithdrawFor: the total falls, the account's own stake does not.
WithdrawFromTotal(rw, now, amount, account) ==
    Restaked(UpdateReward(rw, now, {account}), account, rw.balanceOf[account],
             rw.totalSupply - Unstaked(rw, amount, account))

WithdrawFor(rw, now, amount, account) ==
    LET out == Unstaked(rw, amount, account)
    IN Restaked(UpdateReward(rw, now, {account}), account,
                rw.balanceOf[account] - out, rw.totalSupply - out)

\* The reward is paid out of the funds.
GetRewardsFor(rw, now, account) ==
    [UpdateReward(rw, now, {account}) EXCEPT
        !.rewards = [@ EXCEPT ![account] = 0],
        !.funds = @ - Earned(rw, now, account)]

\* Mutant of AddDeposits: an account that already has a stake is counted twice.
AddDepositsTwice(rw, now, accounts, balances) ==
    [UpdateReward(rw, now, accounts) EXCEPT
        !.balanceOf = [a \in Accounts |->
            IF a \in accounts THEN balances[a] ELSE @[a]],
        !.totalSupply = @ + SumFunctionOnSet(balances, accounts)]

\* addDeposits: the stakes of the accounts become their pool balances.
AddDeposits(rw, now, accounts, balances) ==
    [UpdateReward(rw, now, accounts) EXCEPT
        !.balanceOf = [a \in Accounts |->
            IF a \in accounts THEN balances[a] ELSE @[a]],
        !.totalSupply = @ + SumFunctionOnSet(
            [a \in Accounts |-> balances[a] - rw.balanceOf[a]], accounts)]

\* `totalSupply + balance - oldBalance' is checked arithmetic.
CanAddDeposits(rw, now, accounts, balances) ==
    AddDeposits(rw, now, accounts, balances).totalSupply \in Nat

\* Mutant of NewRewardRate: rewards paid since the last update count as left.
NewRewardRateStale(rw, now, reward) ==
    IF now >= rw.finishAt
    THEN reward \div rw.duration
    ELSE (reward + (rw.finishAt - rw.updatedAt) * rw.rewardRate) \div rw.duration

\* The rate set by notifyRewardAmount: what is left of the running period
\* is spread over the new one.
NewRewardRate(rw, now, reward) ==
    IF now >= rw.finishAt
    THEN reward \div rw.duration
    ELSE (reward + (rw.finishAt - now) * rw.rewardRate) \div rw.duration

NotifyRewardAmount(rw, now, reward) ==
    [UpdateReward(rw, now, {}) EXCEPT
        !.rewardRate = NewRewardRate(rw, now, reward),
        !.finishAt = now + rw.duration,
        !.updatedAt = now]

-----------------------------------------------------------------------------
(* Properties *)

\* The two subtractions that every stake, withdrawal and claim evaluates,
\* `lastTimeRewardApplicable() - updatedAt' and `rewardPerToken() -
\* userRewardPerTokenPaid[_account]' (DepositRewarderAbstract.sol:122-131 and
\* 175-180), never underflow: a rewarder cannot block its pool.
RewardsNeverNegative(rw, now) ==
    /\ rw.updatedAt <= LastTimeRewardApplicable(rw, now)
    /\ \A a \in Accounts : rw.userRewardPerTokenPaid[a] <= RewardPerToken(rw, now)
==============================================================================
