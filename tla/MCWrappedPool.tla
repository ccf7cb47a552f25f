--------------------------- MODULE MCWrappedPool -----------------------------
(* Small instances of the pool of the wrapped native token. *)
EXTENDS WrappedNativeTokenPool, TLC

CONSTANTS ann, bob, loan

TwoDepositors == {ann, bob}
OneLoan == {loan}
MCTokens == [a \in Accounts |-> IF a \in Depositors THEN 25 ELSE 0]
AllMayBorrow == {PrimeAccounts}
AnyRegistry == {{}, PrimeAccounts}

NoAmounts == [op \in {"deposit", "withdraw", "transfer", "lock", "approve",
                      "borrow", "repay", "recover"} |-> {}]

\* A withdrawal of 0 brings a deposit up to date without moving it; a loan of 23
\* out of 25 or 50 puts the utilisation on either side of the break points.
\* Deposits of 25 come and go through either pair of entry points, while the
\* owner freezes and thaws the pool and closes it to borrowers.
ValueAmounts ==
    [NoAmounts EXCEPT !.deposit = {25}, !.withdraw = {0, 25}, !.borrow = {23},
                      !.repay = {23}, !.recover = {1}]

\* The same with locks.
NativeAmounts == [NoAmounts EXCEPT !.deposit = {25}, !.withdraw = {25}, !.lock = {25}]
==============================================================================
