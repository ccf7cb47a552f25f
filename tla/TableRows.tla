---- MODULE TableRows ----
(***************************************************************************)
(* The rows of the dashboard's tables (AssetsTableRow, LpTableRow,          *)
(* StakingProtocolTableRow, PoolsTableRowBeta): which modal a row opens,    *)
(* with which part of the stores (s) and of the wallet (c, read at the      *)
(* opening), and which request it makes of what the modal hands back.       *)
(***************************************************************************)
EXTENDS FundsStore, SwapModal

(* A modal as openModal mounts it.  live says that the balances it was      *)
(* given are still the objects the stores change in place; weighed is       *)
(* history: what these balances were when the health was last computed.     *)
Modal(kind, token, s) ==
    [kind |-> kind, token |-> token, value |-> 0, native |-> TRUE, isMax |-> FALSE,
     error |-> TRUE, health |-> calculateHealth(View(s)), seen |-> View(s), weighed |-> View(s),
     live |-> TRUE, limit |-> 0, nativeLimit |-> 0, limits |-> [a \in Assets |-> 0], busy |-> FALSE,
     trade |-> NoTrade(token)]

NoModal == [Modal("none", LP, Empty) EXCEPT !.live = FALSE]

--------------------------------------------------------------------------
(* AssetsTableRow.  *)
openAddFromWalletModal(s, c, a) ==
    [Modal("add", a, s) EXCEPT !.limit = c.wallet[a], !.nativeLimit = c.wallet[Native]]
openWithdrawModal(s, c, a) == [Modal("withdraw", a, s) EXCEPT !.limit = s.bal[a]]
openRepayModal(s, c, a) == [Modal("repay", a, s) EXCEPT !.limit = s.debt[a]]
openSwapModal(s, c, a) == [Modal("swap", a, s) EXCEPT !.limit = s.bal[a]]
openWrapModal(s, c, a) == [Modal("wrap", a, s) EXCEPT !.limit = c.native]

(* pools is a list, so the pool of a symbol is not found and the opener     *)
(* ends there: the modal is on screen, nobody listens to it.                *)
openBorrowModal(s, c, a) == Modal("borrow", a, s)

(* LpTableRow.  *)
openLpAddFromWalletModal(s, c) == [Modal("add", LP, s) EXCEPT !.limit = c.wallet[LP]]
openLpWithdrawModal(s, c) == [Modal("withdraw", LP, s) EXCEPT !.limit = s.bal[LP]]
openProvideLiquidityModal(s, c) ==
    [Modal("provide", LP, s) EXCEPT !.limits = [a \in Assets |-> s.bal[a]]]
openRemoveLiquidityModal(s, c) == [Modal("remove", LP, s) EXCEPT !.limit = s.bal[LP]]

(* StakingProtocolTableRow.  *)
openStakeModal(s, c) == [Modal("stake", LP, s) EXCEPT !.limit = s.bal[LP]]
openUnstakeModal(s, c) == [Modal("unstake", LP, s) EXCEPT !.limit = s.staked]

(* PoolsTableRowBeta: the native balance is the one the store has.  *)
openDepositModal(s, c, a) ==
    [Modal("deposit", a, s) EXCEPT !.limit = c.wallet[a], !.nativeLimit = s.accountBalance]
openPoolWithdrawModal(s, c, a) == [Modal("poolWithdraw", a, s) EXCEPT !.limit = s.deposits[a]]

AssetRow(s, c, a) ==
    IF s.noLoan THEN {openAddFromWalletModal(s, c, a)}
    ELSE {openAddFromWalletModal(s, c, a), openWithdrawModal(s, c, a), openRepayModal(s, c, a),
          openSwapModal(s, c, a), openBorrowModal(s, c, a)}
         \cup (IF a = "AVAX" THEN {openWrapModal(s, c, a)} ELSE {})
LpRow(s, c) ==
    IF s.noLoan THEN {}
    ELSE {openLpAddFromWalletModal(s, c), openLpWithdrawModal(s, c),
          openProvideLiquidityModal(s, c), openRemoveLiquidityModal(s, c)}
FarmRow(s, c) == IF s.noLoan THEN {} ELSE {openStakeModal(s, c), openUnstakeModal(s, c)}
PoolRow(s, c, a) == {openDepositModal(s, c, a), openPoolWithdrawModal(s, c, a)}

(* Everything that can be opened: the rows of the account while their       *)
(* buttons are not disabled, the pools' rows always.                        *)
Openable(s, c, enabled) ==
    (IF enabled
     THEN (UNION {AssetRow(s, c, a) : a \in Assets}) \cup LpRow(s, c) \cup FarmRow(s, c)
     ELSE {})
    \cup (UNION {PoolRow(s, c, a) : a \in Assets})

--------------------------------------------------------------------------
(* The requests.  *)
Request(kind, token, handed) ==
    [kind |-> kind, token |-> token, amount |-> handed.amount, least |-> handed.least,
     isMax |-> handed.isMax, native |-> handed.native, to |-> handed.to, path |-> handed.path]

(* Adding funds creates the account when the store knows none.  *)
AddRequest(m, s) ==
    LET handed == AddSubmit(m)
        kind == IF s.noLoan THEN "create" ELSE IF handed.native THEN "fundNative" ELSE "fund"
    IN  Request(kind, m.token, handed)
WithdrawRequest(m, s) ==
    LET handed == WithdrawSubmit(m)
    IN  Request(IF handed.native THEN "withdrawNative" ELSE "withdraw", m.token, handed)

RequestOf(m, s) ==
    CASE m.kind = "add" -> AddRequest(m, s)
      [] m.kind = "withdraw" -> WithdrawRequest(m, s)
      [] m.kind = "repay" -> Request("repay", m.token, RepaySubmit(m))
      [] m.kind = "swap" -> Request("swap", m.token, SwapSubmit(m))
      [] m.kind = "wrap" -> Request("wrap", m.token, WrapSubmit(m))
      [] m.kind = "provide" -> Request("provide", LP, ProvideSubmit(m))
      [] m.kind = "remove" -> Request("remove", LP, RemoveSubmit(m))
      [] m.kind = "stake" -> Request("stake", LP, StakeSubmit(m))
      [] m.kind = "unstake" -> Request("unstake", LP, UnstakeSubmit(m))
      [] m.kind = "deposit" -> Request("deposit", m.token, DepositSubmit(m))
      [] m.kind = "poolWithdraw" -> Request("poolWithdraw", m.token, PoolWithdrawSubmit(m))

(* Nobody listens to the borrow modal.  *)
Heard(m) == m.kind # "borrow"

(* The rows that show a progress bar and disable their buttons.  *)
OnAccount(r) == r.kind \notin {"deposit", "poolWithdraw"}
====
