---------------------------- MODULE PrimeAccount -----------------------------
(***************************************************************************)
(* Prime Accounts (AssetsOperationsFacet.sol, SmartLoanLiquidationFacet    *)
(* .sol, SolvencyFacetProd.sol): accounts that hold assets, owe tokens to  *)
(* pools, and must be solvent after what their owners do.  An asset counts *)
(* for solvency when it is listed in the account's owned assets.  Pools,   *)
(* wallets, exchanges and liquidators are the outside, which has enough of *)
(* every asset.                                                            *)
(***************************************************************************)
EXTENDS TokenManager

CONSTANTS PoolAssets,           \* the assets with a lending pool
          NativeToken,          \* counted for solvency, owned or not
          MaxHeld,              \* bound: owners take no asset in above this
          DebtCoverage,         \* percent of an asset's value that counts
          Prices,               \* the oracle prices that may occur
          INTEREST,             \* percent by which a debt grows in a tick
          MAX_HEALTH_AFTER_LIQUIDATION, MAX_LIQUIDATION_BONUS,  \* per mille
          Amounts,              \* bound: the amounts asked for, by operation
          Repayments,           \* bound: what liquidators repay, by asset
          MaxTime               \* bound: the last block time of a behaviour

ONE == 1000                     \* 10 ** 18

ASSUME PrimeAccountAssumption ==
    /\ PoolAssets \subseteq Assets /\ NativeToken \in Assets
    /\ MaxHeld \in [Assets -> Nat]
    /\ DebtCoverage \in [Assets -> 0..83]
    /\ Prices \subseteq [Assets -> Nat]
    /\ \A operation \in {"fund", "withdraw", "borrow", "repay", "swap", "received"} :
          Amounts[operation] \subseteq Nat
    /\ Repayments \subseteq [PoolAssets -> Nat]
    /\ MaxTime \in Nat \ {0} /\ INTEREST \in Nat
    /\ MAX_HEALTH_AFTER_LIQUIDATION \in Nat /\ MAX_LIQUIDATION_BONUS \in Nat

VARIABLES now,              \* block.timestamp
          price,
          account           \* the storage and the balances of every account

accountVars == <<now, price, account>>

Times == 1..MaxTime

AccountType ==
    [tokens : [Assets -> Nat],          \* token.balanceOf(account)
     ownedAssets : SUBSET Assets,
     borrowed : [PoolAssets -> Nat],    \* pool.getBorrowed(account)
     lastBorrow : Times \cup {0},       \* _lastBorrowTimestamp
     frozenSince : Times \cup {0}]

AccountTypeOK ==
    /\ now \in Times
    /\ price \in Prices
    /\ account \in [Accounts -> AccountType]

InitAccount ==
    /\ now = 1
    /\ price \in Prices
    /\ account = [a \in Accounts |->
            [tokens |-> [x \in Assets |-> 0], ownedAssets |-> {},
             borrowed |-> [x \in PoolAssets |-> 0],
             lastBorrow |-> 0, frozenSince |-> 0]]

Held(asset) == SumFunctionOnSet([a \in Accounts |-> account[a].tokens[asset]], Accounts)

Room(asset) == MaxHeld[asset] - Held(asset)

-----------------------------------------------------------------------------
(* Solvency *)

\* getOwnedAssetsWithNative
Counted(acc) == acc.ownedAssets \cup {NativeToken}

Weighted(asset, amount) == (price[asset] * amount * DebtCoverage[asset]) \div 100

ThresholdWeightedValue(tokens, counted) ==
    SumFunctionOnSet([x \in counted |-> Weighted(x, tokens[x])], counted)

TotalValue(tokens, counted) ==
    SumFunctionOnSet([x \in counted |-> price[x] * tokens[x]], counted)

Debt(borrowed) == TotalValue(borrowed, PoolAssets)

\* A health ratio of at least one; without debt it is infinite.
Healthy(acc) == ThresholdWeightedValue(acc.tokens, Counted(acc)) >= Debt(acc.borrowed)

\* isSolvent, which reverts for a frozen account.
IsSolvent(acc) == acc.frozenSince = 0 /\ Healthy(acc)

CanRepayDebtFully(acc) == \A x \in PoolAssets : acc.tokens[x] >= acc.borrowed[x]

-----------------------------------------------------------------------------
(* Changes of one account *)

\* The tokens of an account after amounts come in, or go out.
Plus(tokens, amounts) == [x \in Assets |-> tokens[x] + amounts[x]]
Minus(tokens, amounts) == [x \in Assets |-> tokens[x] - amounts[x]]

\* Assets of which something is there are listed, as _increaseExposure does.
WithReceived(acc, amounts) ==
    [acc EXCEPT !.tokens = Plus(@, amounts),
                !.ownedAssets = @ \cup {x \in Assets : amounts[x] > 0}]

\* Mutant of WithSpent: an asset leaves the list with its first spending.
WithSpentUnlisted(acc, amounts) ==
    [acc EXCEPT !.tokens = Minus(@, amounts),
                !.ownedAssets = {x \in @ : amounts[x] = 0}]

\* Assets of which nothing is left leave the list, as _decreaseExposure does.
WithSpent(acc, amounts) ==
    LET tokens == Minus(acc.tokens, amounts)
    IN [acc EXCEPT !.tokens = tokens,
                   !.ownedAssets = {x \in @ : ~(amounts[x] > 0 /\ tokens[x] = 0)}]

WithDebt(acc, asset, amount) == [acc EXCEPT !.borrowed[asset] = @ + amount]

Becomes(a, acc) == account' = [account EXCEPT ![a] = acc]

UnchangedPending == UNCHANGED <<pendingUserExposure, pendingProtocolExposure>>

-----------------------------------------------------------------------------
(* AssetsOperationsFacet *)

Fund(a, asset, amount) ==
    /\ amount <= Room(asset)
    /\ Becomes(a, WithReceived(account[a], Only(asset, amount)))
    /\ exposure' = Increased(exposure, Only(asset, amount))
    /\ WithinLimits(exposure')
    /\ UNCHANGED <<now, price>> /\ UnchangedPending

Withdraw(a, asset, asked) ==
    LET amount == Min({asked, account[a].tokens[asset]})
        acc == WithSpent(account[a], Only(asset, amount))
    IN /\ CanRepayDebtFully(acc)
       /\ IsSolvent(acc)
       /\ Becomes(a, acc)
       /\ exposure' = Decreased(exposure, Only(asset, amount))
       /\ UNCHANGED <<now, price>> /\ UnchangedPending

Borrow(a, asset, amount) ==
    LET acc == WithReceived(WithDebt(account[a], asset, amount), Only(asset, amount))
    IN /\ amount <= Room(asset)
       /\ IsSolvent(acc)
       /\ Becomes(a, [acc EXCEPT !.lastBorrow = now])
       /\ exposure' = Increased(exposure, Only(asset, amount))
       /\ WithinLimits(exposure')
       /\ UNCHANGED <<now, price>> /\ UnchangedPending

\* By the owner, and by anybody when the account is insolvent: whoever calls, it
\* must not be frozen, because isSolvent is asked first.
Repay(a, asset, asked) ==
    LET acc == account[a]
        amount == Min({asked, acc.tokens[asset], acc.borrowed[asset]})
    IN /\ acc.frozenSince = 0
       /\ Becomes(a, WithDebt(WithSpent(acc, Only(asset, amount)), asset, -amount))
       /\ exposure' = Decreased(exposure, Only(asset, amount))
       /\ UNCHANGED <<now, price>> /\ UnchangedPending

\* The new debt is swapped at an exchange for at least what is to be repaid.
\* Unlike borrow, this does not set _lastBorrowTimestamp.
SwapDebt(a, from, to, toRepay, toBorrow, received) ==
    LET acc == account[a]
        asked == Min({toRepay, acc.borrowed[from]})
        kept == Only(from, received - asked)
        swapped == WithDebt(WithDebt(WithReceived(acc, kept), to, toBorrow), from, -asked)
    IN /\ from # to
       /\ received >= asked /\ received <= Room(from)
       /\ IsSolvent(swapped)
       /\ Becomes(a, swapped)
       /\ exposure' = Increased(exposure, kept)
       /\ WithinLimits(exposure')
       /\ UNCHANGED <<now, price>> /\ UnchangedPending

\* The same at an exchange that may give less than what is to be repaid (a sell
\* order, which spends all that was borrowed): the account's own tokens make up
\* for it, and what they cannot make up for is not repaid.  By the owner, or by a
\* liquidator of an insolvent account: the account must be solvent afterwards.
SwapDebtParaSwap(a, from, to, toRepay, toBorrow, received) ==
    LET acc == account[a]
        asked == Min({toRepay, acc.borrowed[from], acc.tokens[from] + received})
        owing == WithDebt(WithDebt(acc, to, toBorrow), from, -asked)
        kept == Only(from, received - asked)
        spent == Only(from, asked - received)
        swapped == IF received > asked THEN WithReceived(owing, kept)
                   ELSE WithSpent(owing, spent)
    IN /\ from # to
       /\ received <= Room(from)
       /\ IsSolvent(swapped)
       /\ Becomes(a, swapped)
       /\ IF received > asked
          THEN exposure' = Increased(exposure, kept) /\ WithinLimits(exposure')
          ELSE exposure' = Decreased(exposure, spent)
       /\ UNCHANGED <<now, price>> /\ UnchangedPending

\* By a liquidator.
AddOwnedAsset(a, asset) ==
    /\ Becomes(a, [account[a] EXCEPT !.ownedAssets = @ \cup {asset}])
    /\ UNCHANGED <<now, price, exposure>> /\ UnchangedPending

-----------------------------------------------------------------------------
(* SmartLoanLiquidationFacet *)

\* Mutant of Owed: what the liquidator added counts twice.
OwedTwice(supplied, repaid, bonusPercent) ==
    2 * supplied + (repaid * bonusPercent) \div 1000

\* What the liquidator added, and the bonus on all that was repaid.
Owed(supplied, repaid, bonusPercent) ==
    supplied + (repaid * bonusPercent) \div 1000

Third(balance, part) == (balance * part) \div (3 * ONE)

\* liquidate: the liquidator repays debts with the tokens of the account and adds
\* what is missing; then the part of every listed asset that is worth what was
\* added and the bonus, or all of it, goes out in three equal shares.  Every debt
\* is named once at most, as the bots do; the account has no native coin, and GLP,
\* which is transferred in its staked form, is an asset like any other.
Liquidate(a, repay, bonusPercent, allowUnprofitable) ==
    LET acc == account[a]
        counted == Counted(acc)
        healing == Debt(acc.borrowed) > TotalValue(acc.tokens, counted)
        asked == [x \in Assets |-> IF x \in PoolAssets THEN repay[x] ELSE 0]
        supplied == [x \in Assets |-> Max({0, asked[x] - acc.tokens[x]})]
        repaid == [x \in Assets |->
            IF x \in PoolAssets THEN Min({acc.borrowed[x], asked[x]}) ELSE 0]
        added == [x \in Assets |-> Max({0, supplied[x] - repaid[x]})]
        taken == [x \in Assets |-> Max({0, repaid[x] - supplied[x]})]
        settled == [WithSpent(WithReceived(acc, added), taken) EXCEPT
                       !.borrowed = [x \in PoolAssets |-> @[x] - repaid[x]]]
        owed == Owed(TotalValue(supplied, Assets), TotalValue(repaid, Assets), bonusPercent)
        value == TotalValue(settled.tokens, counted)
        part == IF ~healing /\ value >= owed
                THEN (owed * ONE) \div Max({1, value}) ELSE ONE
        out == [x \in Assets |->
            IF x \in settled.ownedAssets THEN 3 * Third(settled.tokens[x], part) ELSE 0]
        after == WithSpent(settled, out)
        debt == Debt(after.borrowed)
        weighted == ThresholdWeightedValue(after.tokens, counted)
    IN /\ acc.frozenSince = 0
       /\ ~Healthy(acc)
       /\ bonusPercent <= MAX_LIQUIDATION_BONUS
       /\ healing => allowUnprofitable
       /\ healing \/ value < owed \/ value > 0     \* else the division by value reverts
       /\ WithinLimits(Increased(exposure, added))
       /\ weighted >= debt
       /\ IF healing
          THEN debt = 0 /\ TotalValue(after.tokens, counted) = 0
          ELSE debt > 0 /\ weighted * 1000 <= MAX_HEALTH_AFTER_LIQUIDATION * debt
       /\ Becomes(a, after)
       /\ exposure' = Decreased(Decreased(Increased(exposure, added), taken), out)
       /\ UNCHANGED <<now, price>> /\ UnchangedPending

-----------------------------------------------------------------------------

\* Time passes: debts accrue interest, and the oracle has new prices.
Tick(prices) ==
    /\ now < MaxTime
    /\ now' = now + 1
    /\ price' = prices
    /\ account' = [a \in Accounts |->
         [account[a] EXCEPT !.borrowed =
            [x \in PoolAssets |-> @[x] + (@[x] * INTEREST) \div 100]]]
    /\ UNCHANGED exposureVars

OwnerStep(a) ==
    \/ \E x \in Assets :
          \/ \E n \in Amounts.fund : Fund(a, x, n)
          \/ \E n \in Amounts.withdraw : Withdraw(a, x, n)
    \/ \E x \in PoolAssets :
          \/ \E n \in Amounts.borrow : Borrow(a, x, n)
          \/ \E n \in Amounts.repay : Repay(a, x, n)
          \/ \E y \in PoolAssets, n \in Amounts.swap : SwapDebt(a, x, y, n, n, n)
          \/ \E y \in PoolAssets, n \in Amounts.swap, m \in Amounts.received :
                SwapDebtParaSwap(a, x, y, n, n, m)

LiquidatorStep(a) ==
    \/ \E repay \in Repayments, bonus \in {0, MAX_LIQUIDATION_BONUS} :
          \E unprofitable \in BOOLEAN : Liquidate(a, repay, bonus, unprofitable)
    \/ \E x \in Assets : account[a].tokens[x] > 0 /\ AddOwnedAsset(a, x)
==============================================================================
