------------------------------- MODULE MCPool --------------------------------
(* A small instance of a pool: deposits that move under locks, and debts.     *)
EXTENDS Pool, TLC

CONSTANTS ann, bob, loan

TwoDepositors == {ann, bob}
OneLoan == {loan}

AllMayBorrow == {PrimeAccounts}

NoAmounts == [op \in {"deposit", "withdraw", "transfer", "lock", "approve",
                      "borrow", "repay", "recover"} |-> {}]

\* Deposits of 20 move in steps of 10, by their owner or with its allowance,
\* under up to two locks of 10, while a loan of 18 adds interest to them.
MoveAmounts ==
    [NoAmounts EXCEPT !.deposit = {20}, !.withdraw = {10}, !.transfer = {10},
                      !.lock = {10}, !.approve = {10}, !.borrow = {18},
                      !.repay = {18}]
\* One depositor brings tokens; the other gets deposits from it, and tokens by
\* withdrawing them.
OneRich == [a \in Accounts |-> IF a = ann THEN 20 ELSE 0]
==============================================================================
