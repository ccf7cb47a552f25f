-------------------------- MODULE PoolWithRewarder ---------------------------
(***************************************************************************)
(* A pool together with the entry points of its rewarder                   *)
(* (DepositRewarderNative.sol, DepositRewarderERC20.sol): what the pool    *)
(* does to the rewarder is part of Pool's own actions, what users and the  *)
(* owner call on it directly is added here.                                *)
(***************************************************************************)
EXTENDS Pool

CONSTANTS Durations,        \* reward periods the owner may set
          Notifications,    \* records [sent, reward]: tokens that come with
                            \* a notification, and the reward it announces
          MaxFunds          \* bound: reward tokens the rewarder may hold

ASSUME RewarderAssumption ==
    /\ Durations \subseteq Nat
    /\ Notifications \subseteq [sent : Nat, reward : Nat]
    /\ MaxFunds \in Nat

poolState == <<now, token, book, locks, allowed, config>>

\* getRewardsFor, called by anyone or through the pool's getRewards.
GetRewards(account) ==
    /\ Earned(rewarder, now, account) <= rewarder.funds
    /\ rewarder' = GetRewardsFor(rewarder, now, account)
    /\ UNCHANGED poolState

SetRewardsDuration(duration) ==
    /\ rewarder.finishAt < now
    /\ rewarder' = [rewarder EXCEPT !.duration = duration]
    /\ UNCHANGED poolState

\* The native rewarder is sent the reward with the call (sent = reward), the
\* ERC20 one is paid by a token transfer of the owner's choice.
Notify(n) ==
    LET funded == [rewarder EXCEPT !.funds = @ + n.sent]
        rate == NewRewardRate(rewarder, now, n.reward)
    IN /\ rewarder.duration # 0
       /\ rate > 0
       /\ funded.funds <= MaxFunds
       /\ rate * rewarder.duration <= funded.funds
       /\ rewarder' = NotifyRewardAmount(funded, now, n.reward)
       /\ UNCHANGED poolState

AddDepositsOf(accounts) ==
    LET balances == [a \in Accounts |-> BalanceOf(a)]
    IN /\ CanAddDeposits(rewarder, now, accounts, balances)
       /\ rewarder' = AddDeposits(rewarder, now, accounts, balances)
       /\ UNCHANGED poolState

RewarderStep ==
    \/ \E account \in Depositors : GetRewards(account)
    \/ \E duration \in Durations : SetRewardsDuration(duration)
    \/ \E n \in Notifications : Notify(n)
    \/ \E accounts \in SUBSET Depositors : AddDepositsOf(accounts)

-----------------------------------------------------------------------------
(* Properties *)

\* No stake, withdrawal or claim fails for its reward arithmetic.
RewarderNeverBlocks == RewardsNeverNegative(rewarder, now)

\* An account never earns rewards for deposits it does not have: the stake
\* follows the deposit through deposits, withdrawals and transfers.
StakeIsDeposited ==
    \A a \in Accounts : rewarder.balanceOf[a] <= BalanceOf(a)

\* The total that divides the reward rate is the sum of the stakes.
StakesAddUp == rewarder.totalSupply = SumFunction(rewarder.balanceOf)

\* Everything earned so far, and what the running period still has to pay,
\* is covered by the tokens the rewarder holds: no claim can fail.
RewardsCovered ==
    LET earned(a) == Earned(rewarder, now, a)
        remaining == IF now < rewarder.finishAt
                     THEN (rewarder.finishAt - now) * rewarder.rewardRate
                     ELSE 0
    IN TotalOf(earned) + remaining <= rewarder.funds

==============================================================================
