---- MODULE Dashboard ----
(***************************************************************************)
(* The dashboard as a whole: a user who opens modals and submits them, the  *)
(* transactions that follow, and the stores that are first updated from a   *)
(* transaction's event and, a timer later, replaced by a refresh.  Several  *)
(* transactions and refreshes overlap.                                      *)
(*                                                                         *)
(* An operation goes through                                                *)
(*   asked     the store prepares the call, the wallet asks the user        *)
(*   mining    the transaction is sent                                      *)
(*   mined / failed   the chain has executed or reverted it                 *)
(*   soon      confirmed: the timers of one second are pending              *)
(*   due       the timer of the refresh is pending                          *)
(*   prices, balances, debts, status, farm, health   the calls of a refresh *)
(*   pools     the pools have been asked, and have not answered             *)
(*   done                                                                   *)
(* A refresh that is slow enough to overtake the next one is left out: an   *)
(* operation keeps the refreshes of its sort that were running at its       *)
(* confirmation (after), and its own, half a minute or more later, waits    *)
(* for their end.                                                           *)
(***************************************************************************)
EXTENDS TableRows

CONSTANTS
    Scenarios,   \* records [start, kinds, tokens, most, changes]: an account, what its
                 \* user does, how many operations he starts, and how often he changes
                 \* the inputs of one swap
    Amounts,     \* what can be typed
    MaxOps       \* the most operations of any scenario

ASSUME DashboardAssumption ==
    /\ Amounts \subseteq Nat \ {0}
    /\ MaxOps \in Nat \ {0}
    /\ \A scenario \in Scenarios : scenario.most \in 1..MaxOps

Accounts ==
    [loan : BOOLEAN, bal : [Tokens -> Nat], debt : [Assets -> Nat], farm : Nat, native : Nat,
     wallet : [Tokens \cup {Native} -> Nat], deposits : [Assets -> Nat]]

\* Before there is an account nothing lies on it.
ASSUME ScenarioAssumption ==
    \A s \in Scenarios :
        /\ s.start \in Accounts
        /\ ~s.start.loan => View(s.start) = Empty

VARIABLES
    scenario, ch, st, modal, ops,
    enabled,   \* ~disableAllButtons of the account's rows
    lost       \* a confirmation or a refresh was lost, or a wallet was swapped

vars == <<scenario, ch, st, modal, ops, enabled, lost>>

Refreshing == {"prices", "balances", "debts", "status", "farm", "health"}
Unread == [bal |-> [t \in Tokens |-> -1], debt |-> [a \in Assets |-> -1], farm |-> -1]
NoAnswer == [a \in Assets |-> -1]

Operation(m, s) ==
    [req |-> RequestOf(m, s), status |-> "asked", event |-> Event(0, 0), held |-> Unread,
     answer |-> NoAnswer, after |-> {}, seen |-> m.weighed, health |-> m.health,
     valid |-> ~checkErrors(m), since |-> m.trade.since, kind |-> m.kind, value |-> m.value]

Init ==
    /\ scenario \in Scenarios
    /\ ch = scenario.start
    /\ st = initStores(ch)
    /\ modal = NoModal /\ ops = <<>> /\ enabled = TRUE /\ lost = FALSE

--------------------------------------------------------------------------
(* The user.  *)
OpenModal ==
    /\ modal.kind = "none" /\ Len(ops) < scenario.most
    /\ \E m \in Openable(st, ch, enabled) :
         /\ m.kind \in scenario.kinds /\ m.token \in scenario.tokens
         /\ modal' = m
         /\ st' = IF m.kind = "add" /\ m.token # LP THEN updateBalance(st, ch.wallet) ELSE st
    /\ UNCHANGED <<scenario, ch, ops, enabled, lost>>

TypeValue ==
    /\ modal.kind \notin {"none", "swap"} /\ ~modal.busy
    /\ \E v \in Amounts : modal' = updateValue(modal, v)
    /\ UNCHANGED <<scenario, ch, st, ops, enabled, lost>>

PressMax ==
    /\ modal.kind \in WithMax /\ ~modal.busy /\ modal.limit > 0
    /\ modal' = setMax(modal)
    /\ UNCHANGED <<scenario, ch, st, ops, enabled, lost>>

Toggle ==
    /\ modal.kind \in WithToggle /\ ~modal.busy /\ modal.token = "AVAX"
    /\ modal' = assetToggleChange(modal)
    /\ UNCHANGED <<scenario, ch, st, ops, enabled, lost>>

(* The modal that swaps: the user changes something, or the router answers. *)
ChangeSwap ==
    /\ modal.kind = "swap" /\ ~modal.busy /\ modal.trade.changes < scenario.changes
    /\ modal' \in SwapInputs(modal, Amounts)
    /\ UNCHANGED <<scenario, ch, st, ops, enabled, lost>>

RouterAnswers ==
    /\ modal.kind = "swap" /\ ~modal.busy
    /\ modal' \in SwapAnswers(modal)
    /\ UNCHANGED <<scenario, ch, st, ops, enabled, lost>>

(* The modal stays on screen, busy, until the transaction is sent.  *)
Submit ==
    /\ modal.kind # "none" /\ Submittable(modal) /\ modal.value > 0
    /\ modal' = [modal EXCEPT !.busy = TRUE]
    /\ ops' = IF Heard(modal) THEN Append(ops, Operation(modal, st)) ELSE ops
    /\ UNCHANGED <<scenario, ch, st, enabled, lost>>

CloseByHand ==
    /\ modal.kind # "none"
    /\ modal' = NoModal
    /\ UNCHANGED <<scenario, ch, st, ops, enabled, lost>>

--------------------------------------------------------------------------
(* The transaction.  *)
At(i, status) == ops[i].status = status
Become(i, status) == ops' = [ops EXCEPT ![i].status = status]
Request_(i) == ops[i].req

(* What the rows make of a state of the progress bar.  *)
watchProgressBarState(buttons, state) ==
    CASE state = "MINING" -> FALSE
      [] state \in {"SUCCESS", "ERROR", "CANCELLED"} -> TRUE
      [] OTHER -> buttons
requestProgressBar(buttons) == watchProgressBarState(buttons, "MINING")
\* Mutant of emitProgressBarErrorState: the bar is requested and never says ERROR.
ErrorNotShown(buttons) == requestProgressBar(buttons)
emitProgressBarErrorState(buttons) ==
    watchProgressBarState(requestProgressBar(buttons), "ERROR")

(* The bar of an account's row says CANCELLED or ERROR, which enables the   *)
(* buttons of every row.  The pools' rows have none.  Either closes the     *)
(* modal on screen.                                                         *)
handleTransactionError(r) ==
    /\ enabled' = IF OnAccount(r) THEN emitProgressBarErrorState(enabled) ELSE enabled
    /\ modal' = NoModal
TransactionError(i) == handleTransactionError(Request_(i)) /\ Become(i, "done")

(* The preparation fails, or the user rejects a signature.  *)
Refuse(i) ==
    /\ At(i, "asked")
    /\ TransactionError(i)
    /\ UNCHANGED <<scenario, ch, st, lost>>

(* createAndFundLoan wraps the native tokens in a transaction of its own    *)
(* before it creates the account with the wrapped ones.                     *)
WrapFirst(i) ==
    /\ At(i, "asked") /\ Request_(i).kind = "create" /\ Request_(i).native
    /\ Request_(i).amount <= ch.wallet[Native]
    /\ ch' = [ch EXCEPT !.wallet[Native] = @ - Request_(i).amount,
                        !.wallet["AVAX"] = @ + Request_(i).amount]
    /\ ops' = [ops EXCEPT ![i].req.native = FALSE]
    /\ UNCHANGED <<scenario, st, modal, enabled, lost>>

(* signMessage: another wallet signed the terms.  The action returns, and   *)
(* handleTransaction calls that a success: the row of a pool adds a deposit *)
(* that was never made, the modal of a new account stays busy.              *)
SignedTerms(r) == r.kind = "create" \/ (r.kind = "deposit" /\ ch.deposits[r.token] = 0)
WrongWallet(i) ==
    /\ At(i, "asked") /\ SignedTerms(Request_(i))
    /\ IF OnAccount(Request_(i)) THEN UNCHANGED <<st, modal>>
       ELSE st' = PoolDeposited(st, Request_(i), Event(0, 0)) /\ modal' = NoModal
    /\ Become(i, "done") /\ lost' = TRUE
    /\ UNCHANGED <<scenario, ch, enabled>>

(* The transaction is sent: requestProgressBar disables the buttons, and    *)
(* closeModal closes whichever modal is on screen.  Without a path, or with *)
(* a minimum below nothing, there is no swap to send.                       *)
Send(i) ==
    /\ At(i, "asked")
    /\ Request_(i).kind = "create" => ~Request_(i).native
    /\ Request_(i).kind = "swap" => Request_(i).path # <<>> /\ Request_(i).least >= 0
    /\ Become(i, "mining")
    /\ IF OnAccount(Request_(i))
       THEN enabled' = requestProgressBar(enabled) /\ modal' = NoModal
       ELSE UNCHANGED <<enabled, modal>>
    /\ UNCHANGED <<scenario, ch, st, lost>>

Mine(i) ==
    /\ At(i, "mining")
    /\ IF Outcomes(ch, Request_(i)) = {} THEN Become(i, "failed") /\ UNCHANGED ch
       ELSE \E e \in Outcomes(ch, Request_(i)) :
              /\ ch' = Executed(ch, Request_(i), e)
              /\ ops' = [ops EXCEPT ![i].status = "mined", ![i].event = e]
    /\ UNCHANGED <<scenario, st, modal, enabled, lost>>

(* awaitConfirmation throws on a receipt of a failed transaction.  *)
Reverted(i) ==
    /\ At(i, "failed")
    /\ TransactionError(i)
    /\ UNCHANGED <<scenario, ch, st, lost>>

(* The provider fails while it waits for the receipt: an error like the     *)
(* others, although the transaction went through.                           *)
LoseConfirmation(i) ==
    /\ At(i, "mined")
    /\ TransactionError(i) /\ lost' = TRUE
    /\ UNCHANGED <<scenario, ch, st>>

(* The receipt: the stores are updated from the event.  A modal that is     *)
(* open sees balances that change in place; the modal of a pool is closed.  *)
RefreshesRunning(r) ==
    {j \in DOMAIN ops : ops[j].status \in IF OnAccount(r) THEN Refreshing ELSE {"pools"}}
Confirm(i) ==
    /\ At(i, "mined")
    /\ st' = Updated(st, Request_(i), ops[i].event)
    /\ ops' = [ops EXCEPT ![i].status = "soon", ![i].after = RefreshesRunning(Request_(i))]
    /\ modal' = IF ~OnAccount(Request_(i)) THEN NoModal
                ELSE IF modal.live THEN [modal EXCEPT !.seen = View(st')] ELSE modal
    /\ UNCHANGED <<scenario, ch, enabled, lost>>

--------------------------------------------------------------------------
(* The timers.  *)

(* A second later the bar says SUCCESS, which enables the buttons; a new    *)
(* account and wrapped tokens are not announced.  What went through the     *)
(* wallet has its native balance read again (a withdrawal does not), a      *)
(* repayment reads the pools again (at once here: it has changed no         *)
(* deposit, so only a transaction of a pool could overtake the answer, and  *)
(* that has the pools read half a minute later).                            *)
Announced(r) == OnAccount(r) /\ r.kind \notin {"create", "wrap"}
Paying == {"create", "fund", "fundNative", "deposit", "poolWithdraw"}
Soon(i) ==
    /\ At(i, "soon")
    /\ enabled' = IF Announced(Request_(i)) THEN watchProgressBarState(enabled, "SUCCESS") ELSE enabled
    /\ st' = LET pools == IF Request_(i).kind = "repay" THEN setupPools(st, ch.deposits) ELSE st
             IN  IF Request_(i).kind \in Paying THEN updateBalance(pools, ch.wallet) ELSE pools
    /\ Become(i, "due")
    /\ UNCHANGED <<scenario, ch, modal, lost>>

(* An operation of a pool has the pools read half a minute later.  The      *)
(* subscriber commits the answers when all have come.                       *)
ReadPools(i) ==
    /\ At(i, "due") /\ ~OnAccount(Request_(i))
    /\ \A j \in ops[i].after : At(j, "done")
    /\ ops' = [ops EXCEPT ![i].status = "pools", ![i].answer = ch.deposits]
    /\ UNCHANGED <<scenario, ch, st, modal, enabled, lost>>

CommitPools(i) ==
    /\ At(i, "pools")
    /\ st' = setupPools(st, ops[i].answer)
    /\ ops' = [ops EXCEPT ![i].status = "done", ![i].answer = NoAnswer]
    /\ UNCHANGED <<scenario, ch, modal, enabled, lost>>

(* updateFunds, one call after the other: a call reads the chain, and its   *)
(* result is committed when it arrives.                                     *)
\* Mutant of StartRefresh: the refresh does not notice the new account.
StartRefreshWithoutLoan(i) ==
    /\ At(i, "due") /\ OnAccount(Request_(i))
    /\ \A j \in ops[i].after : At(j, "done")
    /\ Become(i, "prices")
    /\ UNCHANGED <<scenario, ch, st, modal, enabled, lost>>
StartRefresh(i) ==
    /\ At(i, "due") /\ OnAccount(Request_(i))
    /\ \A j \in ops[i].after : At(j, "done")
    /\ st' = setNoSmartLoan(st, FALSE)
    /\ Become(i, "prices")
    /\ UNCHANGED <<scenario, ch, modal, enabled, lost>>

(* setupAssets and setupLpAssets; prices are constant here.  *)
CommitPrices(i) ==
    /\ At(i, "prices")
    /\ Become(i, "balances")
    /\ UNCHANGED <<scenario, ch, st, modal, enabled, lost>>

Read(i) ==
    /\ ops[i].status \in {"balances", "debts", "status", "farm"} /\ ops[i].held = Unread
    /\ ops' = [ops EXCEPT ![i].held = View(ch)]
    /\ UNCHANGED <<scenario, ch, st, modal, enabled, lost>>

(* The committed balances and debts are new objects: a modal that is open   *)
(* keeps the old ones.  Their events enable the buttons of every row.       *)
RefreshEvent(buttons) == watchProgressBarState(TRUE, "SUCCESS")
Commit(i, status, next, store) ==
    /\ At(i, status) /\ ops[i].held # Unread
    /\ st' = store
    /\ ops' = [ops EXCEPT ![i].status = next, ![i].held = Unread]
    /\ UNCHANGED <<scenario, ch, lost>>

CommitBalances(i) ==
    /\ Commit(i, "balances", "debts", getAllAssetsBalances(st, ops[i].held))
    /\ modal' = [modal EXCEPT !.live = FALSE] /\ enabled' = RefreshEvent(enabled)
CommitDebts(i) ==
    /\ Commit(i, "debts", "status", getDebtsPerAsset(st, ops[i].held))
    /\ modal' = [modal EXCEPT !.live = FALSE] /\ enabled' = RefreshEvent(enabled)
CommitStatus(i) ==
    /\ Commit(i, "status", "farm", getFullLoanStatus(st, ops[i].held))
    /\ UNCHANGED <<modal, enabled>>
CommitFarm(i) ==
    /\ Commit(i, "farm", "health", updateStakedBalances(st, ops[i].held))
    /\ UNCHANGED <<modal, enabled>>

(* The refresh ends with the event that has the health computed.  *)
Weigh(i) ==
    /\ At(i, "health")
    /\ st' = watchHealthRefresh(st)
    /\ Become(i, "done")
    /\ UNCHANGED <<scenario, ch, modal, enabled, lost>>

(* A call of the refresh fails: updateFunds swallows the error.  When one   *)
(* of the pools does not answer, the subscriber hears of none.              *)
RefreshFails(i) ==
    /\ ops[i].status \in (Refreshing \ {"health"}) \cup {"pools"}
    /\ Become(i, "done") /\ lost' = TRUE
    /\ UNCHANGED <<scenario, ch, st, modal, enabled>>

--------------------------------------------------------------------------
User ==
    \/ OpenModal \/ TypeValue \/ PressMax \/ Toggle \/ ChangeSwap \/ RouterAnswers
    \/ Submit \/ CloseByHand
Wallet(i) == Refuse(i) \/ WrapFirst(i) \/ WrongWallet(i) \/ Send(i)
Chain(i) == Mine(i) \/ Reverted(i) \/ Confirm(i) \/ LoseConfirmation(i)
Timers(i) ==
    \/ Soon(i) \/ ReadPools(i) \/ CommitPools(i) \/ StartRefresh(i) \/ CommitPrices(i)
    \/ Read(i) \/ CommitBalances(i) \/ CommitDebts(i) \/ CommitStatus(i) \/ CommitFarm(i)
    \/ Weigh(i) \/ RefreshFails(i)
Next == User \/ \E i \in DOMAIN ops : Wallet(i) \/ Chain(i) \/ Timers(i)

(* The wallet is answered, a transaction is mined and its receipt arrives   *)
(* or the provider gives up, timers fire and calls return.  The user owes   *)
(* nothing.                                                                 *)
Fairness ==
    \A i \in 1..MaxOps :
        WF_vars(i \in DOMAIN ops /\ (Wallet(i) \/ Chain(i) \/ Timers(i)))
Spec == Init /\ [][Next]_vars /\ Fairness

--------------------------------------------------------------------------
(* What the stores show agrees with the contracts.  *)
Agrees(s, c) ==
    /\ View(s) = View(c) /\ s.deposits = c.deposits
    /\ s.staked = s.farm /\ s.total = s.farm
    /\ ~s.noLoan => s.available = s.bal[LP]

(* When nothing is under way and nothing was lost, everything shown is      *)
(* true: balances, debts, stakes, deposits of the pools, the totals of the  *)
(* header, the health of exactly these balances, and whether there is an    *)
(* account; no matter which updates from events and which refreshes         *)
(* overwrote one another on the way.                                        *)
QuietMeansTrue ==
    (~lost /\ \A i \in DOMAIN ops : At(i, "done")) =>
        /\ Agrees(st, ch)
        /\ st.noLoan = ~ch.loan
        /\ st.header = Header(View(ch))
        /\ st.depositTotal = ch.deposits["AVAX"] + ch.deposits["USDC"]
        /\ st.health = calculateHealth(View(ch))

(* Operation i is confirmed by this step, its request passes the validators *)
(* of its modal, and the stores show the state it was executed on.  The     *)
(* event must tell what the request asked for where the stores go by the    *)
(* request: a request for the maximum empties its position (what a position *)
(* gained since the modal was opened stays on chain and is shown as         *)
(* nothing), a pool takes the whole deposit (not what was left in the       *)
(* wallet), and a swap is between the assets the modal showed (it need not  *)
(* be: the path is that of the last answer, and the button waits neither    *)
(* for the answer to the last question nor cares which one came).           *)
AsAsked(r, e) ==
    /\ r.kind = "swap" => r.path = <<r.token, r.to>>
    /\ r.isMax /\ r.kind = "repay" => e.paid = st.debt[r.token]
    /\ r.isMax /\ r.kind = "unstake" => e.got = st.farm
    /\ ~OnAccount(r) => e.paid = r.amount
Pictured(s) ==
    [loan |-> TRUE, bal |-> s.bal, debt |-> s.debt, farm |-> s.farm,
     deposits |-> s.deposits, native |-> ch.native, wallet |-> ch.wallet]
ConfirmedInTheOpen(i) ==
    /\ At(i, "mined") /\ ops'[i].status = "soon"
    /\ ops[i].valid /\ Request_(i).kind # "create"
    /\ AsAsked(Request_(i), ops[i].event)
    /\ LET after == Executed(Pictured(st), Request_(i), ops[i].event)
       IN  Agrees([st EXCEPT !.bal = after.bal, !.debt = after.debt, !.farm = after.farm,
                             !.staked = @ + (after.farm - st.farm),
                             !.total = @ + (after.farm - st.farm),
                             !.available = @ + (after.bal[LP] - st.bal[LP]),
                             !.deposits = after.deposits], ch)

(* An update from an event does to the stores what the contracts did to the *)
(* account: balances, debt, farm, stake and deposits, for every operation.  *)
UpdatesFollowChain ==
    [][\A i \in DOMAIN ops : ConfirmedInTheOpen(i) => Agrees(st', ch)]_vars

(* The health a modal previewed is the health of the account it leads to,   *)
(* and a swap, which may get more than its minimum, does not do worse: the  *)
(* copies of the preview agree with the contracts and with the stores.      *)
(* (The modal that repays accepts more than the debt and previews a debt    *)
(* below nothing, so the whole value must have moved; and no modal computes *)
(* its preview again when a transaction changes the balances in its hands,  *)
(* so the preview must have been made of the balances of now.  The modal    *)
(* that swaps previews nothing itself but when an answer arrives, whichever *)
(* question it answers; what the user changed after the last answer, the    *)
(* slippage included, is not in the preview, and excepted here.)            *)
PreviewOf(i) ==
    /\ ConfirmedInTheOpen(i) /\ ops[i].kind \in Previewed
    /\ ops[i].seen = View(st) /\ ops[i].event.paid = ops[i].value
    /\ ops[i].kind = "swap" => ops[i].since = "answered"
PreviewKept ==
    [][\A i \in DOMAIN ops : PreviewOf(i) =>
         LET real == calculateHealth(View(st'))
         IN  IF ops[i].kind = "swap" THEN real >= ops[i].health
             ELSE real = ops[i].health]_vars

(* Unless something is lost, the dashboard settles: in the end its buttons  *)
(* work again and it shows the chain.                                       *)
Settles == <>[](lost \/ (enabled /\ Agrees(st, ch) /\ st.noLoan = ~ch.loan))
====
