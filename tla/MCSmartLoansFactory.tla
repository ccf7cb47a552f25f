------------------------- MODULE MCSmartLoansFactory -------------------------
(* Three wallets and three accounts: a proposal can compete with a creation   *)
(* and with other proposals, and an account can return to an earlier owner.   *)
EXTENDS SmartLoansFactory, TLC

CONSTANTS w1, w2, w3, l1, l2, l3

ThreeWallets == {w1, w2, w3}
ThreeLoans == {l1, l2, l3}
==============================================================================
