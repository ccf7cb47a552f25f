----------------------- MODULE WrappedNativeTokenPool ------------------------
(***************************************************************************)
(* The pool of the wrapped native token (WrappedNativeTokenPool.sol): two  *)
(* more entry points take and return native coins.  An account's coins and *)
(* wrapped tokens are one purse, token[account], as wrapping is one to one *)
(* (external).                                                             *)
(***************************************************************************)
EXTENDS Pool

DepositNativeToken(sender, value) == value > 0 /\ TakeDeposit(sender, sender, value)

\* Unlike withdraw, this entry point does not look at the locks, and an amount
\* above the balance is refused rather than cut.
WithdrawNativeToken(sender, amount) == PayOut(sender, amount)

NativeStep ==
    \E u \in Depositors :
        \/ \E value \in Amounts.deposit : DepositNativeToken(u, value)
        \/ \E amount \in Amounts.withdraw : WithdrawNativeToken(u, amount)

NativeNext == Next \/ NativeStep

NativeSpec == Init /\ [][NativeNext]_vars

==============================================================================
