------------------------------ MODULE PoolBase -------------------------------
(***************************************************************************)
(* What the contracts of one lending pool have in common: the addresses    *)
(* that hold deposits, debts or tokens, block time, and 18-decimal fixed   *)
(* point.  Every fraction of the contracts is a multiple of a thousandth   *)
(* of 1e18, so PerMille stands for their 1e15.                             *)
(***************************************************************************)
EXTENDS Integers, FiniteSets

CONSTANTS Depositors,
          PrimeAccounts,    \* the smart accounts that borrow
          PoolAddr,         \* the pool's own address, key of the totals
          PerMille,
          MaxTime           \* bound: the last block time of a behaviour

ASSUME PoolBaseAssumption ==
    /\ IsFiniteSet(Depositors) /\ IsFiniteSet(PrimeAccounts)
    /\ Depositors \cap PrimeAccounts = {}
    /\ PoolAddr \notin Depositors \cup PrimeAccounts
    /\ PerMille \in Nat \ {0}
    /\ MaxTime \in Nat \ {0}

Accounts == Depositors \cup PrimeAccounts
Holders == Accounts \cup {PoolAddr}
Times == 1..MaxTime
WAD == 1000 * PerMille

Least(x, y) == IF x <= y THEN x ELSE y
==============================================================================
