---- MODULE MCDashboard ----
(***************************************************************************)
(* Dashboard for TLC: what seven users do, each from an account of its own, *)
(* most with two operations that may overlap.                               *)
(***************************************************************************)
EXTENDS Dashboard

NothingHeld == [t \in Tokens |-> 0]
NoDebts == [a \in Assets |-> 0]
Wallet0 == [t \in Tokens \cup {Native} |-> 0]
Account == [loan |-> TRUE, bal |-> NothingHeld, debt |-> NoDebts, farm |-> 0, native |-> 0,
            wallet |-> Wallet0, deposits |-> NoDebts]

(* A first account, with native or wrapped tokens, funded again.  *)
Newcomer ==
    [start |-> [Account EXCEPT !.loan = FALSE, !.wallet["AVAX"] = 1, !.wallet[Native] = 2],
     kinds |-> {"add"}, tokens |-> {"AVAX"}, most |-> 2, changes |-> 0]
(* Withdrawals against a small debt, and native tokens to wrap.  *)
Holder ==
    [start |-> [Account EXCEPT !.bal["AVAX"] = 3, !.bal["USDC"] = 1, !.debt["USDC"] = 1,
                               !.native = 1, !.wallet["AVAX"] = 1],
     kinds |-> {"add", "withdraw", "wrap"}, tokens |-> {"AVAX"}, most |-> 2, changes |-> 0]
(* A debt greater than the balance that would repay it.  *)
Borrower ==
    [start |-> [Account EXCEPT !.bal["AVAX"] = 3, !.bal["USDC"] = 1, !.debt["USDC"] = 2],
     kinds |-> {"repay", "borrow"}, tokens |-> Assets, most |-> 2, changes |-> 0]
(* Three assets to swap, and a debt that limits what can be lost on the way: *)
(* one swap with many changes of mind, or two in a row.                      *)
Swapper ==
    [start |-> [Account EXCEPT !.bal["AVAX"] = 2, !.bal["USDC"] = 1, !.debt["USDC"] = 1],
     kinds |-> {"swap"}, tokens |-> {"AVAX"}, most |-> 1, changes |-> 3]
Trader == [Swapper EXCEPT !.most = 2, !.changes = 1]
(* Liquidity and the farm.  *)
Farmer ==
    [start |-> [Account EXCEPT !.bal["AVAX"] = 2, !.bal["USDC"] = 2, !.bal[LP] = 1,
                               !.debt["AVAX"] = 1, !.farm = 1, !.wallet[LP] = 1],
     kinds |-> {"add", "withdraw", "provide", "remove", "stake", "unstake"},
     tokens |-> {LP}, most |-> 2, changes |-> 0]
(* A depositor of the pools.  *)
Depositor ==
    [start |-> [Account EXCEPT !.wallet["AVAX"] = 1, !.wallet[Native] = 1, !.deposits["AVAX"] = 1],
     kinds |-> {"deposit", "poolWithdraw"}, tokens |-> {"AVAX"}, most |-> 2, changes |-> 0]

MCScenarios == {Newcomer, Holder, Borrower, Swapper, Trader, Farmer, Depositor}
====
