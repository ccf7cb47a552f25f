------------------------- MODULE MCVPrimeController --------------------------
(* Small instances of the voting power of one or two users.                   *)
EXTENDS VPrimeController, TLC

CONSTANTS ann, bob

OneUser == {ann}
TwoUsers == {ann, bob}

\* Two pairs with a deposit of 10 and 1 sPrime dollar each, one of them locked,
\* and one pair with a loan of 10; or a single pair.
Mixed == [sPrimeVested |-> 1, sPrimeNonVested |-> 2,
          depositVested |-> 10, depositNonVested |-> 10, borrowed |-> 10]
Single == [Nothing EXCEPT !.sPrimeNonVested = 1, !.depositNonVested = 10]

MixedPortfolios == {Nothing, Mixed}
SinglePortfolios == {Nothing, Single}
==============================================================================
