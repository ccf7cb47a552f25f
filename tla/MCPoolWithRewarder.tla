------------------------- MODULE MCPoolWithRewarder --------------------------
(* Small instances of a pool with its rewarder. *)
EXTENDS RewarderLaunch, TLC

CONSTANTS ann, bob, loan

TwoDepositors == {ann, bob}
OneLoan == {loan}
MCTokens == [a \in Accounts |-> IF a = loan THEN 0 ELSE 10]
AllMayBorrow == {PrimeAccounts}

\* Deposits of 10 are moved and withdrawn, and a loan of 9 adds interest to them.
StakeAmounts ==
    [op \in {"deposit", "withdraw", "transfer", "lock", "approve",
             "borrow", "repay", "recover"} |->
        CASE op = "deposit" -> {10}
          [] op = "withdraw" -> {10}
          [] op = "transfer" -> {10}
          [] op \in {"borrow", "repay"} -> {9}
          [] OTHER -> {}]
Symmetry == Permutations(Depositors)

\* Rewards are announced, over periods in three blocks; or a loan adds interest
\* to the deposits, or the scripts enrol them, in two; or, in one, the deposits
\* have a cap. Stakes know nothing of interest, and rewards nothing of what is
\* deposited and not staked.
RewardsOnly == script.phase = "off" /\ borrowIndex.userUpdateTime[loan] = 0
NoRewards == rewarder.duration = 0 /\ now <= 2
OneAtATime ==
    IF totalSupplyCap = 0 THEN RewardsOnly \/ NoRewards ELSE NoRewards /\ now = 1

\* A reward that does not divide evenly over stake and time, sent with its
\* notification.
Funded == {[sent |-> 7, reward |-> 7]}
==============================================================================
