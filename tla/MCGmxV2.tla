------------------------------- MODULE MCGmxV2 -------------------------------
(* A small instance of Prime Accounts and one GMX market. *)
EXTENDS GmxV2, TLC

CONSTANTS ann, bob, long, short, gm, spot, market

TwoAccounts == {ann, bob}
OneAccount == {ann}
AccountSymmetry == Permutations(TwoAccounts)
MCAssets == {long, short, gm}
MCPoolAssets == {long, short}
MCGroups == {spot, market}
MCGroupOf == [x \in MCAssets |-> IF x = gm THEN market ELSE spot]

\* Two accounts with 20 of the market token each are within the limit, a third 20
\* or one that gets more than it asked for is not.
MCMaxExposure == [g \in MCGroups |-> IF g = market THEN 41 ELSE 300]

MCDebtCoverage == [x \in MCAssets |-> CASE x = long -> 40 [] x = short -> 80 [] OTHER -> 20]

MCDepositOrders == {[amount |-> 20, minGm |-> 20]}
MCWithdrawalOrders == {[amount |-> 20, minLong |-> 10, minShort |-> 10]}

NoAmounts ==
    [op \in {"fund", "withdraw", "borrow", "repay", "swap", "received"} |-> {}]
Par == [x \in MCAssets |-> 2]

\* Accounts without debts that compete for the market.
ExchangeAmounts == [NoAmounts EXCEPT !.fund = {20}, !.withdraw = {20}]
ExchangeMaxHeld == [x \in MCAssets |-> IF x = long THEN 60 ELSE 0]
ExchangePrices == {Par}
NoRepayments == {}

\* One account with debts.  A debt of 20 is 28 after a tick, more than the weighted
\* value of the 60 long tokens that covered it; when the short token costs four
\* times as much, a debt of it is more than they are worth.
DebtAmounts == [op \in DOMAIN NoAmounts |-> IF op = "received" THEN {16} ELSE {20}]
DebtMaxHeld == [x \in MCAssets |-> IF x = long THEN 80 ELSE 0]
DebtPrices == {Par, [Par EXCEPT ![short] = 8]}
DebtRepayments == {[x \in MCPoolAssets |-> IF x = owed THEN n ELSE 0] :
                        owed \in MCPoolAssets, n \in {7, 16, 28}}
==============================================================================
