---- MODULE FundsStore ----
(***************************************************************************)
(* What the stores of the dashboard (fundsStore, stakeStore, poolStore and  *)
(* the rows that listen to them) show, how a confirmed transaction changes  *)
(* it, and how a refresh replaces it.                                       *)
(*                                                                         *)
(* A store is a record:                                                     *)
(*   noLoan    noSmartLoan                                                  *)
(*   bal       assetBalances, and lpBalances for the LP token               *)
(*   debt      debtsPerAsset                                                *)
(*   farm      the farm's totalBalance, in receipt tokens                   *)
(*   staked    the farm's totalStaked                                       *)
(*   total     totalStaked of the staking asset                             *)
(*   available what the staking asset offers for staking                    *)
(*   deposits  the deposits of the pools, and their sum, depositTotal       *)
(*   header    fullLoanStatus: total value and debt                         *)
(*   health    the health shown above the tables                            *)
(*   accountBalance   the native tokens of the wallet                       *)
(* The balance of an LP token that "fund" and "withdraw" also write among   *)
(* assetBalances is left out: nothing reads an LP symbol there.             *)
(*                                                                         *)
(* The Prime Account and the pools on chain, which src/contracts defines,   *)
(* are the other record: loan, bal, debt, farm, native (the native tokens   *)
(* that lie on the account), wallet and deposits.  Interest, prices and the *)
(* other users are constant here: what is compared is the accounting.       *)
(***************************************************************************)
EXTENDS Modals

Native == "NATIVE"
Header(v) == [value |-> Worth(v), debt |-> Owed(v)]

(* A transaction that went through, as its event reports it.  *)
Event(paid, got) == [paid |-> paid, got |-> got]

--------------------------------------------------------------------------
(* The mutations, and what the rows do that hear of an update.  The store   *)
(* keeps the balances of LP tokens apart and does not change them itself.   *)
setSingleAssetBalance(s, t, balance) == IF t = LP THEN s ELSE [s EXCEPT !.bal[t] = balance]
setSingleAssetDebt(s, a, debt) == [s EXCEPT !.debt[a] = debt]
setStakedBalanceInFarm(s, staked) == [s EXCEPT !.staked = staked]
setReceiptTokenBalanceInFarm(s, balance) == [s EXCEPT !.farm = balance]
updateBalance(s, wallet) == [s EXCEPT !.accountBalance = wallet[Native]]

(* The staking asset offers its balance as soon as there is an account.  *)
setupAvailable(s) == IF s.noLoan THEN s ELSE [s EXCEPT !.available = s.bal[LP]]
setNoSmartLoan(s, noSmartLoan) == setupAvailable([s EXCEPT !.noLoan = noSmartLoan])

(* An asset's row, the LP token's row and the staking asset of that LP      *)
(* token each take the balance of their own symbol.                         *)
AssetRowHears(s, t, balance) == IF t = LP THEN s ELSE [s EXCEPT !.bal[t] = balance]
LpRowHears(s, t, balance) == IF t = LP THEN [s EXCEPT !.bal[LP] = balance] ELSE s
StakingAssetHears(s, t, balance) ==
    IF t = LP THEN setupAvailable([s EXCEPT !.bal[LP] = balance]) ELSE s
emitExternalAssetBalanceUpdate(s, t, balance) ==
    StakingAssetHears(LpRowHears(AssetRowHears(s, t, balance), t, balance), t, balance)

watchExternalAssetDebtUpdate(s, a, debt) == [s EXCEPT !.debt[a] = debt]
watchExternalStakedPerFarm(s, staked, balance) == [s EXCEPT !.staked = staked, !.farm = balance]
watchExternalTotalStakedUpdate(s, change) == [s EXCEPT !.total = @ + change]

(* The farm's row and its staking asset hear of a stake together.  *)
emitExternalStakedUpdates(s, staked, balance, change) ==
    watchExternalTotalStakedUpdate(watchExternalStakedPerFarm(s, staked, balance), change)

--------------------------------------------------------------------------
(* What a confirmed transaction does to the store: the amounts come from    *)
(* the event in the receipt, the balances before it from the store.         *)
Moved(s, t, change) ==
    LET balance == s.bal[t] + change
    IN  emitExternalAssetBalanceUpdate(setSingleAssetBalance(s, t, balance), t, balance)
Told(s, t, change) == emitExternalAssetBalanceUpdate(s, t, s.bal[t] + change)

fund(s, r, e) == Moved(s, r.token, e.paid)
fundNativeToken(s, r, e) == Moved(s, "AVAX", e.paid)
withdraw(s, r, e) == Moved(s, r.token, -e.paid)
withdrawNativeToken(s, r, e) == Moved(s, "AVAX", -e.paid)
provideLiquidity(s, r, e) == Told(Told(Told(s, "AVAX", -e.paid), "USDC", -e.paid), LP, e.got)
\* Mutant of removeLiquidity: the LP token's balance is not told.
RemoveLiquidityUntold(s, r, e) == Told(Told(s, "AVAX", e.got), "USDC", e.got)
removeLiquidity(s, r, e) == Told(Told(Told(s, "AVAX", e.got), "USDC", e.got), LP, -e.paid)
repay(s, r, e) ==
    LET debt == IF r.isMax THEN 0 ELSE s.debt[r.token] - e.paid
        told == watchExternalAssetDebtUpdate(s, r.token, debt)
    IN  setSingleAssetDebt(Moved(told, r.token, -e.paid), r.token, debt)
swap(s, r, e) == Moved(Moved(s, r.token, -e.paid), r.to, e.got)

(* wrapNativeToken leaves the store alone; its row adds what was asked.  *)
wrapNativeToken(s, r, e) == [s EXCEPT !.bal["AVAX"] = @ + r.amount]

InFarm(s, staked, balance, change) ==
    emitExternalStakedUpdates(
        setReceiptTokenBalanceInFarm(setStakedBalanceInFarm(s, staked), balance),
        staked, balance, change)
stake(s, r, e) == Told(InFarm(s, s.staked + e.paid, s.farm + e.got, e.paid), LP, -e.paid)
unstake(s, r, e) ==
    LET staked == IF r.isMax THEN 0 ELSE s.staked - e.paid
        balance == IF r.isMax THEN 0 ELSE s.farm - e.got
    IN  Told(InFarm(s, staked, balance, -e.paid), LP, e.paid)

(* The pools' rows change the deposit they show by what was asked.  *)
PoolDeposited(s, r, e) == [s EXCEPT !.deposits[r.token] = @ + r.amount]
PoolWithdrawn(s, r, e) == [s EXCEPT !.deposits[r.token] = @ - r.amount]

(* A new account: its address is known, its balances are not yet.  *)
createAndFundLoan(s, r, e) == s

Updated(s, r, e) ==
    CASE r.kind = "create" -> createAndFundLoan(s, r, e)
      [] r.kind = "fund" -> fund(s, r, e)
      [] r.kind = "fundNative" -> fundNativeToken(s, r, e)
      [] r.kind = "withdraw" -> withdraw(s, r, e)
      [] r.kind = "withdrawNative" -> withdrawNativeToken(s, r, e)
      [] r.kind = "provide" -> provideLiquidity(s, r, e)
      [] r.kind = "remove" -> removeLiquidity(s, r, e)
      [] r.kind = "repay" -> repay(s, r, e)
      [] r.kind = "swap" -> swap(s, r, e)
      [] r.kind = "wrap" -> wrapNativeToken(s, r, e)
      [] r.kind = "stake" -> stake(s, r, e)
      [] r.kind = "unstake" -> unstake(s, r, e)
      [] r.kind = "deposit" -> PoolDeposited(s, r, e)
      [] r.kind = "poolWithdraw" -> PoolWithdrawn(s, r, e)

--------------------------------------------------------------------------
(* A refresh, one call at a time; v is what the call read of the account.   *)
(* The components that show a part of it listen.                            *)
watchAssetBalancesDataRefreshEvent(s) == setupAvailable(s)
getAllAssetsBalances(s, v) == watchAssetBalancesDataRefreshEvent([s EXCEPT !.bal = v.bal])
getDebtsPerAsset(s, v) == [s EXCEPT !.debt = v.debt]

updateLoanStatus(s, status) == [s EXCEPT !.header = status]
getFullLoanStatus(s, v) == updateLoanStatus(s, Header(v))

(* The farm is of the kind whose totalStaked is its totalBalance, as those   *)
(* of Vector Finance are.  For a farm of Yield Yak the code asks a subgraph  *)
(* for totalStaked, which is not modelled.                                   *)
watchFarmRefreshEvent(s) == [s EXCEPT !.total = s.staked]
updateStakedBalances(s, v) == watchFarmRefreshEvent([s EXCEPT !.farm = v.farm, !.staked = v.farm])

(* The health above the tables is computed from what the tables show.  *)
HealthOf(noSmartLoan, v) == IF noSmartLoan THEN HealthUnit ELSE calculateHealth(v)
watchHealthRefresh(s) == [s EXCEPT !.health = HealthOf(s.noLoan, View(s))]

(* The page of the pools sums what their rows are told.  *)
setupTotalDeposit(s) == [s EXCEPT !.depositTotal = s.deposits["AVAX"] + s.deposits["USDC"]]
watchPools(s, deposits) == setupTotalDeposit([s EXCEPT !.deposits = deposits])
setupPools(s, deposits) == watchPools(s, deposits)

(* The stores once the page has loaded: the account is the one the factory  *)
(* knows for the wallet, if there is one.                                   *)
poolStoreSetup(s, c) == setupPools(s, c.deposits)
setupSmartLoanContract(c) == c.loan
fundsStoreSetup(s, c) ==
    LET read == getFullLoanStatus(
                    getDebtsPerAsset(
                        updateStakedBalances(getAllAssetsBalances(s, View(c)), View(c)),
                        View(c)),
                    View(c))
    IN  watchHealthRefresh(IF setupSmartLoanContract(c) THEN setNoSmartLoan(read, FALSE)
                           ELSE setNoSmartLoan(s, TRUE))

Empty == [bal |-> [t \in Tokens |-> 0], debt |-> [a \in Assets |-> 0], farm |-> 0]
Blank ==
    [noLoan |-> FALSE, bal |-> Empty.bal, debt |-> Empty.debt, farm |-> 0, staked |-> 0,
     total |-> 0, available |-> 0, deposits |-> Empty.debt, depositTotal |-> 0,
     header |-> Header(Empty), health |-> 0, accountBalance |-> 0]
initStores(c) == updateBalance(fundsStoreSetup(poolStoreSetup(Blank, c), c), c.wallet)

--------------------------------------------------------------------------
(* The contracts, from what src/contracts does with each call.              *)
AtMost(n, m) == IF n < m THEN n ELSE m
Solvent(c) == CoverageUnit * Owed(View(c)) <= Coverage * Worth(View(c))
CanRepay(c) == \A a \in Assets : c.debt[a] <= c.bal[a]

(* The wallet token a request pays with, or is paid in.  *)
WalletToken(r) == IF r.kind \in {"fundNative", "withdrawNative"} \/ r.native THEN Native ELSE r.token

Executed(c, r, e) ==
    CASE r.kind = "create" ->
           [c EXCEPT !.loan = TRUE, !.wallet[r.token] = @ - e.paid, !.bal[r.token] = @ + e.paid]
      [] r.kind \in {"fund", "fundNative"} ->
           [c EXCEPT !.wallet[WalletToken(r)] = @ - e.paid, !.bal[r.token] = @ + e.paid]
      [] r.kind \in {"withdraw", "withdrawNative"} ->
           [c EXCEPT !.wallet[WalletToken(r)] = @ + e.paid, !.bal[r.token] = @ - e.paid]
      [] r.kind = "provide" ->
           [c EXCEPT !.bal["AVAX"] = @ - e.paid, !.bal["USDC"] = @ - e.paid, !.bal[LP] = @ + e.got]
      [] r.kind = "remove" ->
           [c EXCEPT !.bal["AVAX"] = @ + e.got, !.bal["USDC"] = @ + e.got, !.bal[LP] = @ - e.paid]
      [] r.kind = "repay" ->
           [c EXCEPT !.bal[r.token] = @ - e.paid, !.debt[r.token] = @ - e.paid]
      [] r.kind = "swap" ->
           [c EXCEPT !.bal[r.path[1]] = @ - e.paid, !.bal[r.path[2]] = @ + e.got]
      [] r.kind = "wrap" -> [c EXCEPT !.native = @ - e.paid, !.bal["AVAX"] = @ + e.paid]
      [] r.kind = "stake" -> [c EXCEPT !.bal[LP] = @ - e.paid, !.farm = @ + e.got]
      [] r.kind = "unstake" -> [c EXCEPT !.bal[LP] = @ + e.paid, !.farm = @ - e.got]
      [] r.kind = "deposit" ->
           [c EXCEPT !.wallet[WalletToken(r)] = @ - e.paid, !.deposits[r.token] = @ + e.paid]
      [] r.kind = "poolWithdraw" ->
           [c EXCEPT !.wallet[WalletToken(r)] = @ + e.paid, !.deposits[r.token] = @ - e.paid]

(* What a call draws on.  *)
Source(c, r) ==
    CASE r.kind \in {"create", "fund", "fundNative", "deposit"} -> c.wallet[WalletToken(r)]
      [] r.kind \in {"withdraw", "withdrawNative", "remove"} -> c.bal[r.token]
      [] r.kind = "swap" -> c.bal[r.path[1]]
      [] r.kind = "provide" -> AtMost(c.bal["AVAX"], c.bal["USDC"])
      [] r.kind = "repay" -> AtMost(c.bal[r.token], c.debt[r.token])
      [] r.kind = "wrap" -> c.native
      [] r.kind = "stake" -> c.bal[LP]
      [] r.kind = "unstake" -> c.farm
      [] r.kind = "poolWithdraw" -> c.deposits[r.token]

(* These revert when there is less than what was asked for; the others take *)
(* what there is.                                                           *)
Strict(r) == r.kind \in {"create", "fundNative", "provide", "wrap", "poolWithdraw"} \/ r.native

(* The modifiers of the account's own calls.  *)
KeepsSolvent == {"withdraw", "withdrawNative", "provide", "remove", "swap", "stake", "unstake"}
Allowed(c, r, e) ==
    LET after == Executed(c, r, e)
    IN  /\ r.kind \in KeepsSolvent => Solvent(after)
        /\ r.kind \in {"withdraw", "withdrawNative"} => CanRepay(after)
        /\ r.kind = "create" => ~c.loan

(* The events a request may end with; none when the contract refuses it.    *)
(* Only exchanges leave what is got open, from the accepted least up.       *)
Outcomes(c, r) ==
    LET paid == AtMost(r.amount, Source(c, r))
        got == IF r.kind \in {"swap", "remove"} THEN r.least .. paid ELSE {paid}
    IN  IF Strict(r) /\ paid < r.amount THEN {}
        ELSE {e \in {Event(paid, g) : g \in got} : Allowed(c, r, e)}
====
