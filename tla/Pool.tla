-------------------------------- MODULE Pool ---------------------------------
(***************************************************************************)
(* One lending pool (Pool.sol): depositors lend a token and earn interest, *)
(* Prime Accounts borrow it and owe interest, and the pool keeps the total *)
(* of either side under its own address.  Every action is one transaction  *)
(* with all the calls it makes: to the two indices, the rates calculator,  *)
(* the token and the rewarder.  A call that reverts leaves no trace, so    *)
(* what would revert is a guard.  The vPrime controller, which the pool    *)
(* only notifies, is not configured here (TokenManager unset).             *)
(***************************************************************************)
EXTENDS LinearIndex, RatesCalculator, DepositRewarder, Sequences, FiniteSets

CONSTANTS Excluded,             \* depositors excluded from the rewarder
          MAX_LOCK_TIME,        \* three years, in ticks of block time
          InitialTokens,        \* what each account holds at the start
          Amounts,              \* the amounts a caller may pass, by operation
          LockTimes,            \* the lock times a caller may pass
          Caps,                 \* supply caps the owner may set, 0 for none
          Spreads,              \* spreads the owner may set
          Registries,           \* sets of accounts that may borrow
          RewarderSettings,     \* BOOLEANs: is a rewarder configured
          CalculatorSettings,   \* BOOLEANs: is a rates calculator configured
          MaxLocks,             \* bound: locks of one account
          MaxAllowance          \* bound: allowance given to a spender

ASSUME PoolAssumption ==
    /\ Excluded \subseteq Depositors
    /\ MAX_LOCK_TIME \in Nat
    /\ InitialTokens \in [Accounts -> Nat]
    /\ Amounts \in [{"deposit", "withdraw", "transfer", "lock", "approve",
                     "borrow", "repay", "recover"} -> SUBSET Nat]
    /\ LockTimes \subseteq Nat /\ Caps \subseteq Nat
    /\ Spreads \subseteq 0..(WAD - 1)
    /\ Registries \subseteq SUBSET PrimeAccounts
    /\ RewarderSettings \subseteq BOOLEAN /\ CalculatorSettings \subseteq BOOLEAN
    /\ MaxLocks \in Nat /\ MaxAllowance \in Nat

VARIABLES now,              \* block.timestamp
          token,            \* the token's balances, the pool's included
          deposited,        \* principals of deposits, PoolAddr for the total
          borrowed,         \* principals of loans, PoolAddr for the total
          depositIndex,
          borrowIndex,
          locks,            \* locks[u]: sequence of locked amounts
          allowed,          \* allowed[u][s]: what s may transfer for u
          rewarder,
          hasRewarder,      \* poolRewarder is not the zero address
          hasCalculator,    \* ratesCalculator is not the zero address
          spread,           \* of the rates calculator
          totalSupplyCap,
          canBorrow         \* the accounts the borrowers registry accepts

book == <<deposited, borrowed, depositIndex, borrowIndex>>
config == <<hasRewarder, hasCalculator, spread, totalSupplyCap, canBorrow>>
vars == <<now, token, book, locks, allowed, rewarder, config>>

Locks == [lockTime : Nat, amount : Nat, unlockTime : Nat]

TypeOK ==
    /\ now \in Times
    /\ token \in [Holders -> Nat]
    /\ deposited \in [Holders -> Nat]
    /\ borrowed \in [Holders -> Nat]
    /\ depositIndex \in LinearIndices
    /\ borrowIndex \in LinearIndices
    /\ locks \in [Accounts -> Seq(Locks)]
    /\ allowed \in [Accounts -> [Accounts -> Nat]]
    /\ rewarder \in Rewarders
    /\ hasRewarder \in BOOLEAN
    /\ hasCalculator \in BOOLEAN
    /\ spread \in 0..(WAD - 1)
    /\ totalSupplyCap \in Nat
    /\ canBorrow \subseteq PrimeAccounts

-----------------------------------------------------------------------------
(* Views *)

BalanceOf(user) == GetIndexedValue(depositIndex, now, deposited[user], user)
GetBorrowed(user) == GetIndexedValue(borrowIndex, now, borrowed[user], user)
TotalSupply == BalanceOf(PoolAddr)
TotalBorrowed == GetBorrowed(PoolAddr)

LockedBalance(account) ==
    LET active(l) == IF l.unlockTime > now THEN l.amount ELSE 0
    IN SumFunction([i \in DOMAIN locks[account] |-> active(locks[account][i])])

NotLockedBalance(account) ==
    IF BalanceOf(account) < LockedBalance(account)
    THEN 0
    ELSE BalanceOf(account) - LockedBalance(account)

\* Mutant of IsWithdrawalAmountAvailable: locks are ignored.
IsAmountDeposited(account, amount) == amount <= BalanceOf(account)

\* Locks are never negative, so the second conjunct follows from the first; it
\* is what lets the debit be unchecked.
IsWithdrawalAmountAvailable(account, amount) ==
    amount <= NotLockedBalance(account) /\ amount <= BalanceOf(account)

MaxPoolUtilisation == 925 * PerMille

-----------------------------------------------------------------------------
(* The internal steps the entry points share *)

\* Mutant of Accumulated: the pool's own principal is left behind.
AccumulatedForUser(principal, ix, user) ==
    [principal EXCEPT ![user] = GetIndexedValue(ix, now, principal[user], user)]

\* Mutant of Accumulated: the user's interest is left behind.
AccumulatedForPool(principal, ix, user) ==
    [principal EXCEPT ![PoolAddr] =
        GetIndexedValue(ix, now, principal[PoolAddr], PoolAddr)]

\* _accumulateDepositInterest and _accumulateBorrowingInterest: the principals
\* of the user and of the pool become their current values, ...
Accumulated(principal, ix, user) ==
    [h \in Holders |-> IF h \in {user, PoolAddr}
                       THEN GetIndexedValue(ix, now, principal[h], h)
                       ELSE principal[h]]

\* Mutant of Touched: the pool's own address is not updated.
TouchedUserOnly(ix, user) == UpdateUser(ix, now, user)

\* ... and the index records that both are up to date.
Touched(ix, user) == UpdateUser(UpdateUser(ix, now, user), now, PoolAddr)

\* The rates the calculator gives for the given principals and indices.
NewRates(dep, bor, dIx, bIx) ==
    LET loans == GetIndexedValue(bIx, now, bor[PoolAddr], PoolAddr)
        deposits == GetIndexedValue(dIx, now, dep[PoolAddr], PoolAddr)
    IN /\ depositIndex' = SetRate(dIx, now, DepositRate(loans, deposits, spread))
       /\ borrowIndex' = SetRate(bIx, now, BorrowingRate(loans, deposits))

\* _updateRates: a pool without a calculator is frozen and reverts.
UpdateRates(dep, bor, dIx, bIx) == hasCalculator /\ NewRates(dep, bor, dIx, bIx)

\* Mutant of Credited: the balance is replaced, not increased.
Overwritten(principal, user, amount) == [principal EXCEPT ![user] = amount]

Credited(principal, user, amount) == [principal EXCEPT ![user] = @ + amount]
Debited(principal, user, amount) == [principal EXCEPT ![user] = @ - amount]

UnderCap(total, amount) == totalSupplyCap # 0 => total + amount <= totalSupplyCap

\* Mutant of Pay: the payer's balance is not checked.
PayUnchecked(from, to, amount) ==
    token' = [token EXCEPT ![from] = @ - amount, ![to] = @ + amount]

Pay(from, to, amount) ==
    /\ token[from] >= amount
    /\ token' = [token EXCEPT ![from] = @ - amount, ![to] = @ + amount]

Rewarded(account) == hasRewarder /\ account \notin Excluded

-----------------------------------------------------------------------------
(* Initialisation and time *)

Init ==
    /\ now = 1
    /\ token = [h \in Holders |-> IF h = PoolAddr THEN 0 ELSE InitialTokens[h]]
    /\ deposited = [h \in Holders |-> 0]
    /\ borrowed = [h \in Holders |-> 0]
    /\ depositIndex = SetRate(NewIndex(now), now, DepositRate(0, 0, spread))
    /\ borrowIndex = SetRate(NewIndex(now), now, BorrowingRate(0, 0))
    /\ locks = [a \in Accounts |-> <<>>]
    /\ allowed = [a \in Accounts |-> [s \in Accounts |-> 0]]
    /\ rewarder = NewRewarder
    /\ hasRewarder \in RewarderSettings
    /\ hasCalculator = TRUE
    /\ spread \in Spreads
    /\ totalSupplyCap \in Caps
    /\ canBorrow \in Registries

Tick ==
    /\ now < MaxTime
    /\ now' = now + 1
    /\ UNCHANGED <<token, book, locks, allowed, rewarder, config>>

-----------------------------------------------------------------------------
(* Deposits *)

\* What depositOnBehalf and depositNativeToken share.
TakeDeposit(payer, of, amount) ==
    LET before == Accumulated(deposited, depositIndex, of)
    IN /\ UnderCap(before[PoolAddr], amount)
       /\ Pay(payer, PoolAddr, amount)
       /\ deposited' = Credited(Credited(before, of, amount), PoolAddr, amount)
       /\ UpdateRates(deposited', borrowed, Touched(depositIndex, of), borrowIndex)
       /\ rewarder' = IF Rewarded(of) THEN StakeFor(rewarder, now, amount, of)
                                      ELSE rewarder
       /\ UNCHANGED <<now, borrowed, locks, allowed, config>>

\* deposit is the case of = sender.
DepositOnBehalf(sender, of, requested) ==
    /\ requested > 0
    /\ TakeDeposit(sender, of, Least(requested, token[sender]))

\* What withdraw and withdrawNativeToken share.
PayOut(sender, amount) ==
    LET before == Accumulated(deposited, depositIndex, sender)
    IN /\ amount <= before[sender]
       /\ amount <= before[PoolAddr]
       /\ Pay(PoolAddr, sender, amount)
       /\ deposited' = Debited(Debited(before, PoolAddr, amount), sender, amount)
       /\ UpdateRates(deposited', borrowed, Touched(depositIndex, sender), borrowIndex)
       /\ Rewarded(sender) => CanWithdrawFor(rewarder, amount, sender)
       /\ rewarder' = IF Rewarded(sender) THEN WithdrawFor(rewarder, now, amount, sender)
                                          ELSE rewarder
       /\ UNCHANGED <<now, borrowed, locks, allowed, config>>

Withdraw(sender, requested) ==
    /\ IsWithdrawalAmountAvailable(sender, requested)
    /\ PayOut(sender, Least(requested, BalanceOf(sender)))

\* The stake that can be moved follows a transferred deposit.
MoveStake(sender, recipient, amount) ==
    LET moves == amount # 0 /\ Rewarded(sender) /\ Rewarded(recipient)
        unstaked == Unstaked(rewarder, amount, sender)
        withdrawn == WithdrawFor(rewarder, now, amount, sender)
    IN \/ ~moves /\ UNCHANGED rewarder
       \/ /\ moves
          /\ CanWithdrawFor(rewarder, amount, sender)
          /\ rewarder' = IF unstaked > 0
                         THEN StakeFor(withdrawn, now, unstaked, recipient)
                         ELSE withdrawn

\* The common part of transfer and transferFrom; the rates stay as they are.
MoveDeposit(sender, recipient, amount) ==
    LET debited == Debited(Accumulated(deposited, depositIndex, sender), sender, amount)
        touched == Touched(depositIndex, sender)
    IN /\ IsWithdrawalAmountAvailable(sender, amount)
       /\ deposited' = Credited(Accumulated(debited, touched, recipient), recipient, amount)
       /\ depositIndex' = Touched(touched, recipient)
       /\ MoveStake(sender, recipient, amount)
       /\ UNCHANGED <<now, token, borrowed, borrowIndex, locks, config>>

Transfer(sender, recipient, amount) ==
    /\ MoveDeposit(sender, recipient, amount)
    /\ UNCHANGED allowed

TransferFrom(spender, sender, recipient, amount) ==
    /\ amount <= allowed[sender][spender]
    /\ MoveDeposit(sender, recipient, amount)
    /\ allowed' = [allowed EXCEPT ![sender][spender] = @ - amount]

\* What approve, increaseAllowance and decreaseAllowance may set.
SetAllowance(holder, spender, value) ==
    /\ value \in 0..MaxAllowance
    /\ allowed' = [allowed EXCEPT ![holder][spender] = value]
    /\ UNCHANGED <<now, token, book, locks, rewarder, config>>

Approve(holder, spender, amount) == SetAllowance(holder, spender, amount)

IncreaseAllowance(holder, spender, amount) ==
    SetAllowance(holder, spender, allowed[holder][spender] + amount)

DecreaseAllowance(holder, spender, amount) ==
    SetAllowance(holder, spender, allowed[holder][spender] - amount)

LockDeposit(sender, amount, lockTime) ==
    /\ Len(locks[sender]) < MaxLocks
    /\ amount <= NotLockedBalance(sender)
    /\ lockTime <= MAX_LOCK_TIME
    /\ locks' = [locks EXCEPT ![sender] =
            Append(@, [lockTime |-> lockTime, amount |-> amount,
                       unlockTime |-> now + lockTime])]
    /\ UNCHANGED <<now, token, book, allowed, rewarder, config>>

-----------------------------------------------------------------------------
(* Loans *)

Borrow(sender, amount) ==
    LET before == Accumulated(borrowed, borrowIndex, sender)
    IN /\ sender \in canBorrow
       /\ TotalSupply # 0
       /\ Pay(PoolAddr, sender, amount)
       /\ borrowed' = Credited(Credited(before, sender, amount), PoolAddr, amount)
       /\ UpdateRates(deposited, borrowed', depositIndex, Touched(borrowIndex, sender))
       /\ UNCHANGED <<now, deposited, locks, allowed, rewarder, config>>
       /\ (TotalBorrowed' * WAD) \div TotalSupply' <= MaxPoolUtilisation

Repay(sender, amount) ==
    LET before == Accumulated(borrowed, borrowIndex, sender)
    IN /\ amount <= before[sender]
       /\ amount <= before[PoolAddr]
       /\ Pay(sender, PoolAddr, amount)
       /\ borrowed' = Debited(Debited(before, sender, amount), PoolAddr, amount)
       /\ UpdateRates(deposited, borrowed', depositIndex, Touched(borrowIndex, sender))
       /\ UNCHANGED <<now, deposited, locks, allowed, rewarder, config>>

-----------------------------------------------------------------------------
(* Owner *)

Surplus == token[PoolAddr] + TotalBorrowed - TotalSupply

RecoverSurplus(amount, account) ==
    /\ amount <= Surplus
    /\ Pay(PoolAddr, account, amount)
    /\ UNCHANGED <<now, book, locks, allowed, rewarder, config>>

\* The zero address freezes the pool; another one brings the rates up to date.
SetRatesCalculator(present) ==
    /\ hasCalculator' = present
    /\ IF present
       THEN NewRates(deposited, borrowed, depositIndex, borrowIndex)
       ELSE UNCHANGED <<depositIndex, borrowIndex>>
    /\ UNCHANGED <<now, token, deposited, borrowed, locks, allowed, rewarder,
                   hasRewarder, spread, totalSupplyCap, canBorrow>>

SetPoolRewarder(present) ==
    /\ hasRewarder' = present
    /\ UNCHANGED <<now, token, book, locks, allowed, rewarder,
                   hasCalculator, spread, totalSupplyCap, canBorrow>>

SetTotalSupplyCap(cap) ==
    /\ totalSupplyCap' = cap
    /\ UNCHANGED <<now, token, book, locks, allowed, rewarder,
                   hasRewarder, hasCalculator, spread, canBorrow>>

SetBorrowersRegistry(accounts) ==
    /\ canBorrow' = accounts
    /\ UNCHANGED <<now, token, book, locks, allowed, rewarder,
                   hasRewarder, hasCalculator, spread, totalSupplyCap>>

\* setSpread of the rates calculator: the pool's rates change only later.
SetSpread(value) ==
    /\ spread' = value
    /\ UNCHANGED <<now, token, book, locks, allowed, rewarder,
                   hasRewarder, hasCalculator, totalSupplyCap, canBorrow>>

-----------------------------------------------------------------------------

DepositorStep ==
    \E u \in Depositors :
        \/ \E of \in Depositors, amount \in Amounts.deposit : DepositOnBehalf(u, of, amount)
        \/ \E amount \in Amounts.withdraw : Withdraw(u, amount)
        \/ \E v \in Depositors, amount \in Amounts.transfer : Transfer(u, v, amount)
        \/ \E s, v \in Depositors, amount \in Amounts.transfer : TransferFrom(s, u, v, amount)
        \/ \E amount \in Amounts.lock, lockTime \in LockTimes :
                LockDeposit(u, amount, lockTime)

AllowanceStep ==
    \E u, s \in Depositors, amount \in Amounts.approve :
        \/ Approve(u, s, amount)
        \/ IncreaseAllowance(u, s, amount)
        \/ DecreaseAllowance(u, s, amount)

BorrowerStep ==
    \E u \in PrimeAccounts :
        \/ \E amount \in Amounts.borrow : Borrow(u, amount)
        \/ \E amount \in Amounts.repay : Repay(u, amount)

OwnerStep ==
    \/ \E u \in Depositors, amount \in Amounts.recover : RecoverSurplus(amount, u)
    \/ \E present \in CalculatorSettings : SetRatesCalculator(present)
    \/ \E present \in RewarderSettings : SetPoolRewarder(present)
    \/ \E cap \in Caps : SetTotalSupplyCap(cap)
    \/ \E accounts \in Registries : SetBorrowersRegistry(accounts)
    \/ \E value \in Spreads : SetSpread(value)

Next == Tick \/ DepositorStep \/ AllowanceStep \/ BorrowerStep \/ OwnerStep

Spec == Init /\ [][Next]_vars

-----------------------------------------------------------------------------
(* Properties *)

\* The interest of `uint256 interest = balanceOf(user) - _deposited[user]'
\* (Pool.sol:675) is never negative, and no loan shrinks by itself: the checked
\* subtraction does not revert and lock the pool, whatever the order of
\* transactions, rate changes and block times.
InterestNeverNegative ==
    \A h \in Holders : BalanceOf(h) >= deposited[h] /\ GetBorrowed(h) >= borrowed[h]

\* Every principal is scaled by an index that was recorded, that lies in the
\* past and that is not above the current one, on both sides of the pool.
IndexHistory == HistoryOK(depositIndex, now) /\ HistoryOK(borrowIndex, now)

\* A locked deposit cannot leave by withdraw, transfer or transferFrom: the
\* balance always covers the locks that have not expired.
LockedIsCovered == \A a \in Accounts : LockedBalance(a) <= BalanceOf(a)

\* Within a block no transaction creates or destroys value for the pool as a
\* whole: cash + loans - deposits changes only when the owner recovers part of
\* a positive surplus, and that touches neither deposits nor loans.
EquityPreserved ==
    [][now' = now =>
        \/ Surplus' = Surplus
        \/ 0 <= Surplus' /\ Surplus' < Surplus /\ UNCHANGED book]_vars

\* Within a block a deposit falls only by what its owner receives in tokens or
\* another depositor receives in deposits.
DepositsOnlyMove ==
    [][now' = now => \A a \in Accounts : BalanceOf(a)' < BalanceOf(a) =>
        LET loss == BalanceOf(a) - BalanceOf(a)'
        IN \/ token'[a] - token[a] = loss
           \/ \E b \in Accounts \ {a} : BalanceOf(b)' - BalanceOf(b) = loss]_vars

\* Within a block a debt changes only with the tokens of the debtor.
DebtsFollowTokens ==
    [][now' = now => \A a \in Accounts : GetBorrowed(a)' # GetBorrowed(a) =>
        GetBorrowed(a)' - GetBorrowed(a) = token'[a] - token[a]]_vars

TotalOf(Value(_)) == SumFunction([a \in Accounts |-> Value(a)])

\* The totals kept under the pool's address and the sums over the accounts
\* drift apart by rounding only: by less than one unit for every account and
\* second in which interest was added.
Drift == (now - 1) * Cardinality(Holders)

TotalsAgree ==
    /\ TotalOf(BalanceOf) - TotalSupply \in (-Drift)..Drift
    /\ TotalOf(GetBorrowed) - TotalBorrowed \in (-Drift)..Drift

\* README.md:44-45: "Total deposited value in a pool must be always lower or
\* equal to total borrowed value plus a current pool balance." Interest on
\* deposits and on loans is rounded down separately, so it holds up to two units
\* for every second in which interest was added.
SolventUpToRounding == Surplus >= -(2 * (now - 1))

=============================================================================
