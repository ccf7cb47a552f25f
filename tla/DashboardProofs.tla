--------------------------- MODULE DashboardProofs ---------------------------
(***************************************************************************)
(* The dashboard comes to rest on the truth: for any accounts, amounts,     *)
(* prices and scenarios, any number of overlapping transactions and         *)
(* refreshes, and whatever the updates from events wrote on the way.        *)
(*                                                                         *)
(* The inductive invariant IInv says, for each part of what is shown, which *)
(* operation will still put it right, if it is not right already:           *)
(*   Shown       each field is true, or an operation of the account has     *)
(*               been mined and has not yet committed that field;           *)
(*   HeldIsTrue  what a refresh has read and not yet committed is true, or  *)
(*               a transaction was mined since, whose own refresh waits for *)
(*               this one (Overtaken);                                      *)
(*   AnswerIsTrue   the same of what the pools answered (PoolsOvertaken);   *)
(*   LoanIsKnown what only an account can do is under way only if there is  *)
(*               one, so the first refresh of a new account is a true       *)
(*               announcement of it.                                        *)
(* The values that an update from an event leaves in the stores do not      *)
(* occur: any of them is overwritten before the dashboard is quiet.         *)
(*                                                                         *)
(* The second half is about these values: every update from an event does   *)
(* to the stores what the contracts did to the account, and every preview   *)
(* of a modal comes true.  Its invariant, Accounted, says                   *)
(*   of a modal    that the health it shows is what the value typed makes   *)
(*                 of the balances it was computed from, in the modal that  *)
(*                 swaps until the user changes something after an answer   *)
(*                 (HealthCurrent);                                         *)
(*   of an operation  that its request does what its modal previewed, and   *)
(*                 its event what its request asked for (OpOK);             *)
(*   of the chain  that nobody owes less than nothing (ChainOK).            *)
(***************************************************************************)
EXTENDS Dashboard, SumLemmas

-----------------------------------------------------------------------------
(* The inductive invariant *)

\* Fields and kinds.  A modal is known by its kind only.
StoreFields ==
    {"noLoan", "bal", "debt", "farm", "staked", "total", "available", "deposits",
     "depositTotal", "header", "health", "accountBalance"}
AccountFields == {"loan", "bal", "debt", "farm", "native", "wallet", "deposits"}
OperationFields ==
    {"req", "status", "event", "held", "answer", "after", "seen", "health", "valid", "since",
     "kind", "value"}
RequestFields == {"kind", "token", "amount", "least", "isMax", "native", "to", "path"}

OfThePools == {"deposit", "poolWithdraw"}
OfTheAccount ==
    {"create", "fund", "fundNative", "withdraw", "withdrawNative", "provide", "remove",
     "repay", "swap", "wrap", "stake", "unstake"}

\* Mined and not yet refreshing; before that or after everything; reading the chain.
Sent == {"mined", "soon", "due"}
Early == {"asked", "mining", "failed", "done"}
Statuses == Early \cup Sent \cup Refreshing \cup {"pools"}

ModalKinds ==
    {"none", "add", "withdraw", "repay", "swap", "borrow", "wrap", "provide", "remove",
     "stake", "unstake"} \cup OfThePools

Shapes ==
    /\ DOMAIN st = StoreFields /\ st.noLoan \in BOOLEAN
    /\ DOMAIN ch = AccountFields /\ ch.loan \in BOOLEAN
    /\ "kind" \in DOMAIN modal /\ modal.kind \in ModalKinds
    /\ \E S : ops \in Seq(S)
    /\ \A i \in DOMAIN ops :
          /\ DOMAIN ops[i] = OperationFields /\ ops[i].status \in Statuses
          /\ DOMAIN Request_(i) = RequestFields
          /\ Request_(i).kind \in OfThePools \cup OfTheAccount

\* The stores know an account only if there is one, a modal of the account's rows is
\* open only if they know it, and only what creates it can precede it.
LoanIsKnown ==
    /\ ~st.noLoan => ch.loan
    /\ modal.kind \notin {"none", "add"} \cup OfThePools => ~st.noLoan
    /\ \A i \in DOMAIN ops :
          (/\ OnAccount(Request_(i))
           /\ Request_(i).kind # "create" \/ ops[i].status \notin Early)
          => ch.loan
    /\ ~ch.loan => View(ch) = Empty

\* An operation of the account, or of a pool, is between its transaction and the
\* commit of what is asked about: stages are those of a refresh before that commit.
Coming(stages) ==
    \E k \in DOMAIN ops : OnAccount(Request_(k)) /\ ops[k].status \in Sent \cup stages
PoolsComing ==
    \E k \in DOMAIN ops : ~OnAccount(Request_(k)) /\ ops[k].status \in Sent \cup {"pools"}

BeforeBalances == {"prices", "balances"}
BeforeDebts == BeforeBalances \cup {"debts"}
BeforeStatus == BeforeDebts \cup {"status"}
BeforeFarm == BeforeStatus \cup {"farm"}

\* Each part of the stores is true unless an operation is coming that replaces it.
Shown ==
    /\ Coming({}) \/ (st.noLoan <=> ~ch.loan)
    /\ Coming(BeforeBalances) \/ (st.bal = ch.bal /\ (~st.noLoan => st.available = st.bal[LP]))
    /\ Coming(BeforeDebts) \/ st.debt = ch.debt
    /\ Coming(BeforeStatus) \/ st.header = Header(View(ch))
    /\ Coming(BeforeFarm) \/ (st.farm = ch.farm /\ st.staked = st.farm /\ st.total = st.farm)
    /\ Coming(Refreshing) \/ st.health = calculateHealth(View(ch))
    /\ PoolsComing \/ (/\ st.deposits = ch.deposits
                       /\ st.depositTotal = ch.deposits["AVAX"] + ch.deposits["USDC"])

\* A transaction was mined after operation i may have read: its own refresh starts
\* only when i is done.
Overtaken(i) ==
    \E k \in DOMAIN ops :
        /\ OnAccount(Request_(k))
        /\ ops[k].status = "mined" \/ (ops[k].status \in {"soon", "due"} /\ i \in ops[k].after)
HeldIsTrue ==
    \A i \in DOMAIN ops : ops[i].held # Unread =>
        /\ ops[i].status \in {"balances", "debts", "status", "farm"}
        /\ ops[i].held = View(ch) \/ Overtaken(i)

\* The same of a transaction of a pool and operation i, which waits for the pools' answer.
PoolsOvertaken(i) ==
    \E k \in DOMAIN ops :
        /\ ~OnAccount(Request_(k))
        /\ ops[k].status = "mined" \/ (ops[k].status \in {"soon", "due"} /\ i \in ops[k].after)
AnswerIsTrue ==
    \A i \in DOMAIN ops : ops[i].status = "pools" =>
        ops[i].answer = ch.deposits \/ PoolsOvertaken(i)
Answers == lost \/ AnswerIsTrue

\* Together with Answers.
IInv == Shapes /\ LoanIsKnown /\ (lost \/ (Shown /\ HeldIsTrue))

-----------------------------------------------------------------------------
(* What the helpers leave alone *)

\* n differs from s at most in what the account's rows show.
AccountOnly(n, s) ==
    /\ DOMAIN n = StoreFields /\ n.noLoan = s.noLoan
    /\ n.deposits = s.deposits /\ n.depositTotal = s.depositTotal

LEMMA MovedOnly ==
    ASSUME NEW s, DOMAIN s = StoreFields, NEW t, NEW change
    PROVE  AccountOnly(Moved(s, t, change), s) /\ AccountOnly(Told(s, t, change), s)
<1>1. ASSUME NEW u, AccountOnly(u, s), NEW balance
      PROVE  AccountOnly(emitExternalAssetBalanceUpdate(u, t, balance), s)
  BY <1>1 DEF AccountOnly, StoreFields, emitExternalAssetBalanceUpdate, StakingAssetHears,
              LpRowHears, AssetRowHears, setupAvailable
<1>2. AccountOnly(s, s)
  BY DEF AccountOnly
<1>3. ASSUME NEW balance PROVE AccountOnly(setSingleAssetBalance(s, t, balance), s)
  BY DEF AccountOnly, StoreFields, setSingleAssetBalance
<1>. QED BY <1>1, <1>2, <1>3 DEF Moved, Told

LEMMA MovedAfter ==
    ASSUME NEW s, NEW u, AccountOnly(u, s), NEW t, NEW change
    PROVE  AccountOnly(Moved(u, t, change), s) /\ AccountOnly(Told(u, t, change), s)
BY MovedOnly DEF AccountOnly

LEMMA InFarmOnly ==
    ASSUME NEW s, DOMAIN s = StoreFields, NEW staked, NEW balance, NEW change
    PROVE  AccountOnly(InFarm(s, staked, balance, change), s)
BY DEF AccountOnly, StoreFields, InFarm, emitExternalStakedUpdates, setReceiptTokenBalanceInFarm,
       setStakedBalanceInFarm, watchExternalTotalStakedUpdate, watchExternalStakedPerFarm

LEMMA DebtOnly ==
    ASSUME NEW s, NEW u, AccountOnly(u, s), NEW a, NEW debt
    PROVE  /\ AccountOnly(watchExternalAssetDebtUpdate(u, a, debt), s)
           /\ AccountOnly(setSingleAssetDebt(u, a, debt), s)
BY DEF AccountOnly, StoreFields, watchExternalAssetDebtUpdate, setSingleAssetDebt

\* The update from an event of an account leaves the pools alone, ...
LEMMA UpdatedOfAccount ==
    ASSUME NEW s, DOMAIN s = StoreFields, NEW r, r.kind \in OfTheAccount, NEW e
    PROVE  AccountOnly(Updated(s, r, e), s)
<1>0. AccountOnly(s, s)
  BY DEF AccountOnly
<1>1. CASE r.kind = "create"
  BY <1>0, <1>1 DEF Updated, createAndFundLoan
<1>2. CASE r.kind = "fund"
  BY <1>2, MovedOnly DEF Updated, fund
<1>3. CASE r.kind = "fundNative"
  BY <1>3, MovedOnly DEF Updated, fundNativeToken
<1>4. CASE r.kind = "withdraw"
  BY <1>4, MovedOnly DEF Updated, withdraw
<1>5. CASE r.kind = "withdrawNative"
  BY <1>5, MovedOnly DEF Updated, withdrawNativeToken
<1>6. CASE r.kind = "provide"
  BY <1>0, <1>6, MovedAfter DEF Updated, provideLiquidity
<1>7. CASE r.kind = "remove"
  BY <1>0, <1>7, MovedAfter DEF Updated, removeLiquidity
<1>8. CASE r.kind = "repay"
  BY <1>0, <1>8, MovedAfter, DebtOnly DEF Updated, repay
<1>9. CASE r.kind = "swap"
  BY <1>0, <1>9, MovedAfter DEF Updated, swap
<1>10. CASE r.kind = "wrap"
  BY <1>10 DEF Updated, wrapNativeToken, AccountOnly, StoreFields
<1>11. CASE r.kind = "stake"
  BY <1>11, InFarmOnly, MovedAfter DEF Updated, stake
<1>12. CASE r.kind = "unstake"
  BY <1>12, InFarmOnly, MovedAfter DEF Updated, unstake
<1>. QED BY <1>1, <1>2, <1>3, <1>4, <1>5, <1>6, <1>7, <1>8, <1>9, <1>10, <1>11, <1>12
         DEF OfTheAccount

\* ... and the update from an event of the pools the account.
SameAccount(n, s) ==
    /\ DOMAIN n = StoreFields /\ n.noLoan = s.noLoan
    /\ n.bal = s.bal /\ n.available = s.available /\ n.debt = s.debt /\ n.header = s.header
    /\ n.farm = s.farm /\ n.staked = s.staked /\ n.total = s.total /\ n.health = s.health

LEMMA UpdatedOfPools ==
    ASSUME NEW s, DOMAIN s = StoreFields, NEW r, r.kind \in OfThePools, NEW e
    PROVE  SameAccount(Updated(s, r, e), s)
BY DEF Updated, OfThePools, PoolDeposited, PoolWithdrawn, SameAccount, StoreFields

LEMMA PoolsRead ==
    ASSUME NEW s, DOMAIN s = StoreFields, NEW deposits
    PROVE  /\ SameAccount(setupPools(s, deposits), s)
           /\ setupPools(s, deposits).deposits = deposits
           /\ setupPools(s, deposits).depositTotal = deposits["AVAX"] + deposits["USDC"]
BY DEF setupPools, watchPools, setupTotalDeposit, SameAccount, StoreFields

LEMMA BalanceRead ==
    ASSUME NEW s, DOMAIN s = StoreFields, NEW wallet
    PROVE  /\ SameAccount(updateBalance(s, wallet), s)
           /\ AccountOnly(updateBalance(s, wallet), s)
BY DEF updateBalance, SameAccount, AccountOnly, StoreFields

LEMMA ExecutedShape ==
    ASSUME NEW c, DOMAIN c = AccountFields, c.loan \in BOOLEAN,
           NEW r, r.kind \in OfThePools \cup OfTheAccount, NEW e
    PROVE  /\ DOMAIN Executed(c, r, e) = AccountFields
           /\ Executed(c, r, e).loan \in BOOLEAN
           /\ c.loan => Executed(c, r, e).loan
           /\ r.kind = "create" => Executed(c, r, e).loan
           /\ r.kind \in OfThePools => View(Executed(c, r, e)) = View(c)
                                      /\ Executed(c, r, e).loan = c.loan
           /\ r.kind \in OfTheAccount => Executed(c, r, e).deposits = c.deposits
<1>1. CASE r.kind \in OfThePools
  BY <1>1 DEF Executed, AccountFields, OfThePools, OfTheAccount, View
<1>2. CASE r.kind = "create"
  BY <1>2 DEF Executed, AccountFields, OfThePools, OfTheAccount, View
<1>3. CASE r.kind \in {"fund", "fundNative", "withdraw", "withdrawNative", "provide", "remove"}
  BY <1>3 DEF Executed, AccountFields, OfThePools, OfTheAccount, View
<1>4. CASE r.kind \in {"repay", "swap", "wrap", "stake", "unstake"}
  BY <1>4 DEF Executed, AccountFields, OfThePools, OfTheAccount, View
<1>. QED BY <1>1, <1>2, <1>3, <1>4 DEF OfThePools, OfTheAccount

LEMMA OfTheAccountOrNot ==
    ASSUME NEW r, r.kind \in OfThePools \cup OfTheAccount
    PROVE  /\ OnAccount(r) <=> r.kind \in OfTheAccount
           /\ ~OnAccount(r) <=> r.kind \in OfThePools
BY DEF OnAccount, OfThePools, OfTheAccount

-----------------------------------------------------------------------------
(* Modals keep their kind *)

SameModal(n, m) == "kind" \in DOMAIN n /\ n.kind = m.kind

LEMMA NoModalShape == "kind" \in DOMAIN NoModal /\ NoModal.kind = "none"
BY DEF NoModal, Modal

LEMMA InputKeepsKind ==
    ASSUME NEW m, "kind" \in DOMAIN m, NEW v
    PROVE  /\ SameModal(updateValue(m, v), m) /\ SameModal(setMax(m), m)
           /\ SameModal(assetToggleChange(m), m)
BY DEF SameModal, updateValue, setMax, assetToggleChange, Weighed

LEMMA ThenKeepsKind ==
    ASSUME NEW m, "kind" \in DOMAIN m, NEW q
    PROVE  SameModal(Then(m, q), m)
BY DEF SameModal, Then

LEMMA AskingKeepsKind ==
    ASSUME NEW m, "kind" \in DOMAIN m, NEW caller, NEW error
    PROVE  SameModal(chooseBestTrade(m, caller, error), m)
<1> DEFINE asking == [m EXCEPT !.trade.since = "changed"]
           n == [asking EXCEPT !.trade.least = 0]
           question == [answer |-> query(m), caller |-> caller, error |-> error]
           queued == [asking EXCEPT !.trade.asked = Append(@, question)]
<1>1. SameModal(n, m)
  BY DEF SameModal
<1>2. SameModal(Then(n, question), m)
  <2> HIDE DEF n, question
  <2>. QED BY <1>1, ThenKeepsKind DEF SameModal
<1>3. SameModal(queued, m)
  <2> HIDE DEF question
  <2>. QED BY DEF SameModal
<1>4. chooseBestTrade(m, caller, error) = IF m.value = 0 THEN Then(n, question) ELSE queued
  BY DEF chooseBestTrade
<1> HIDE DEF n, question, queued, asking
<1>. QED BY <1>2, <1>3, <1>4

LEMMA ReverseKeepsKind ==
    ASSUME NEW m, "kind" \in DOMAIN m
    PROVE  SameModal(reverseSwap(m), m)
<1> DEFINE turned == [m EXCEPT !.token = m.trade.to, !.trade.to = m.token]
<1>1. SameModal(turned, m)
  BY DEF SameModal
<1>2. SameModal(chooseBestTrade(turned, "nobody", FALSE), m)
  <2> HIDE DEF turned
  <2>. QED BY <1>1, AskingKeepsKind DEF SameModal
<1>. QED BY <1>2 DEF reverseSwap, SameModal

LEMMA AnswerKeepsKind ==
    ASSUME NEW m, "kind" \in DOMAIN m, NEW i
    PROVE  SameModal(Answered(m, i), m) /\ SameModal(Unanswered(m, i), m)
<1> DEFINE q == m.trade.asked[i]
           priced == [updateSlippageWithAmounts(m, q.answer.received) EXCEPT
                       !.trade.path = q.answer.path,
                       !.trade.asked = RemoveAt(@, i),
                       !.trade.since = "answered"]
           answered == [priced EXCEPT !.health = calculateHealth(SwapAfter(priced)),
                                      !.weighed = priced.seen]
<1>1. SameModal(updateSlippageWithAmounts(m, q.answer.received), m)
  BY DEF updateSlippageWithAmounts, updateAmountsWithSlippage, SameModal
<1>2. SameModal(priced, m)
  BY <1>1 DEF SameModal
<1>3. SameModal(answered, m)
  <2> HIDE DEF priced
  <2>. QED BY <1>2 DEF SameModal
<1>4. Answered(m, i) = Then(answered, q)
  BY DEF Answered
<1> HIDE DEF answered, priced, q
<1>. QED BY <1>3, <1>4, ThenKeepsKind DEF SameModal, Unanswered

LEMMA SwapKeepsKind ==
    ASSUME NEW m, "kind" \in DOMAIN m, NEW amounts
    PROVE  /\ \A n \in SwapInputs(m, amounts) : SameModal(n, m)
           /\ \A n \in SwapAnswers(m) : SameModal(n, m)
<1>1. ASSUME NEW v, NEW max PROVE SameModal(sourceInputChange(m, v, max), m)
  <2> DEFINE typed == [m EXCEPT !.value = v, !.isMax = max, !.trade.checking = TRUE,
                                !.trade.nothing = @ \/ v = 0]
  <2>1. SameModal(typed, m)
    BY DEF SameModal
  <2>2. SameModal(chooseBestTrade(typed, "source", checkErrors(typed)), m)
    <3> HIDE DEF typed
    <3>. QED BY <2>1, AskingKeepsKind DEF SameModal
  <2>. QED BY <2>2 DEF sourceInputChange
<1>2. ASSUME NEW a PROVE SameModal(SourceSelected(m, a), m)
  <2> DEFINE other == [m EXCEPT !.token = a, !.limit = m.seen.bal[a], !.trade.checking = TRUE]
  <2>1. SameModal(other, m)
    BY DEF SameModal
  <2>2. SameModal(chooseBestTrade(other, "source", checkErrors(m)), m)
    <3> HIDE DEF other
    <3>. QED BY <2>1, AskingKeepsKind DEF SameModal
  <2>3. SameModal([reverseSwap(m) EXCEPT !.error = checkErrors(m), !.trade.checking = FALSE], m)
    BY ReverseKeepsKind DEF SameModal
  <2>. QED BY <2>2, <2>3 DEF SourceSelected
<1>3. ASSUME NEW a PROVE SameModal(targetInputChange(m, a), m)
  <2> DEFINE other == [m EXCEPT !.trade.to = a]
  <2>1. SameModal(other, m)
    BY DEF SameModal
  <2>2. SameModal(chooseBestTrade(other, "target", targetRefuses(m)), m)
    <3> HIDE DEF other
    <3>. QED BY <2>1, AskingKeepsKind DEF SameModal
  <2>3. SameModal([reverseSwap(m) EXCEPT !.trade.targetError = targetRefuses(m)], m)
    BY ReverseKeepsKind DEF SameModal
  <2>4. SameModal(chooseBestTrade([m EXCEPT !.trade.least = 0], "target", targetRefuses(m)), m)
    <3> DEFINE same == [m EXCEPT !.trade.least = 0]
    <3>1. SameModal(same, m)
      BY DEF SameModal
    <3> HIDE DEF same
    <3>2. SameModal(chooseBestTrade(same, "target", targetRefuses(m)), m)
      BY <3>1, AskingKeepsKind DEF SameModal
    <3>. QED BY <3>2 DEF same
  <2>. QED BY <2>2, <2>3, <2>4 DEF targetInputChange
<1>4. ASSUME NEW n, SameModal(n, m) PROVE SameModal(Counted(n), m)
  BY <1>4 DEF Counted, SameModal
<1>7. ASSUME NEW least PROVE SameModal(userSlippageChange(m, least), m)
  BY DEF userSlippageChange, updateAmountsWithSlippage, SameModal
<1>5. \A n \in SwapInputs(m, amounts) : SameModal(n, m)
  BY <1>1, <1>2, <1>3, <1>4, <1>7, ReverseKeepsKind DEF SwapInputs
<1>6. \A n \in SwapAnswers(m) : SameModal(n, m)
  BY AnswerKeepsKind DEF SwapAnswers
<1>. QED BY <1>5, <1>6

HasKind(m, kind) == "kind" \in DOMAIN m /\ m.kind = kind

LEMMA OpenerKinds ==
    ASSUME NEW s, NEW c, NEW a
    PROVE  /\ HasKind(openAddFromWalletModal(s, c, a), "add")
           /\ HasKind(openWithdrawModal(s, c, a), "withdraw")
           /\ HasKind(openRepayModal(s, c, a), "repay")
           /\ HasKind(openSwapModal(s, c, a), "swap")
           /\ HasKind(openBorrowModal(s, c, a), "borrow")
           /\ HasKind(openWrapModal(s, c, a), "wrap")
           /\ HasKind(openLpAddFromWalletModal(s, c), "add")
           /\ HasKind(openLpWithdrawModal(s, c), "withdraw")
           /\ HasKind(openProvideLiquidityModal(s, c), "provide")
           /\ HasKind(openRemoveLiquidityModal(s, c), "remove")
           /\ HasKind(openStakeModal(s, c), "stake")
           /\ HasKind(openUnstakeModal(s, c), "unstake")
           /\ HasKind(openDepositModal(s, c, a), "deposit")
           /\ HasKind(openPoolWithdrawModal(s, c, a), "poolWithdraw")
BY DEF HasKind, Modal, openAddFromWalletModal, openWithdrawModal, openRepayModal, openSwapModal,
       openBorrowModal, openWrapModal, openLpAddFromWalletModal, openLpWithdrawModal,
       openProvideLiquidityModal, openRemoveLiquidityModal, openStakeModal, openUnstakeModal,
       openDepositModal, openPoolWithdrawModal

\* A row of the account opens nothing but the modal that adds funds before there is
\* an account.
LEMMA OpenableKinds ==
    ASSUME NEW s, NEW c, NEW buttons, NEW m \in Openable(s, c, buttons)
    PROVE  /\ "kind" \in DOMAIN m /\ m.kind \in ModalKinds
           /\ m.kind \notin {"none", "add"} \cup OfThePools => ~s.noLoan
<1> DEFINE Right == /\ "kind" \in DOMAIN m /\ m.kind \in ModalKinds
                    /\ m.kind \notin {"none", "add"} \cup OfThePools => ~s.noLoan
<1>1. ASSUME NEW a, m \in AssetRow(s, c, a) PROVE Right
  <2>1. CASE s.noLoan
    BY <1>1, <2>1, OpenerKinds DEF AssetRow, HasKind, ModalKinds
  <2>2. CASE ~s.noLoan
    <3>1. \/ m = openAddFromWalletModal(s, c, a) \/ m = openWithdrawModal(s, c, a)
          \/ m = openRepayModal(s, c, a) \/ m = openSwapModal(s, c, a)
          \/ m = openBorrowModal(s, c, a) \/ m = openWrapModal(s, c, a)
      BY <1>1, <2>2 DEF AssetRow
    <3>. QED BY <2>2, <3>1, OpenerKinds DEF HasKind, ModalKinds
  <2>. QED BY <2>1, <2>2
<1>2. ASSUME m \in LpRow(s, c) PROVE Right
  BY <1>2, OpenerKinds DEF LpRow, HasKind, ModalKinds
<1>3. ASSUME m \in FarmRow(s, c) PROVE Right
  BY <1>3, OpenerKinds DEF FarmRow, HasKind, ModalKinds
<1>4. ASSUME NEW a, m \in PoolRow(s, c, a) PROVE Right
  BY <1>4, OpenerKinds DEF PoolRow, HasKind, ModalKinds, OfThePools
<1>5. \/ \E a \in Assets : m \in AssetRow(s, c, a) \/ m \in PoolRow(s, c, a)
      \/ m \in LpRow(s, c) \/ m \in FarmRow(s, c)
  <2> DEFINE OfAccount == UNION {AssetRow(s, c, a) : a \in Assets}
             OfPools == UNION {PoolRow(s, c, a) : a \in Assets}
             Rows == OfAccount \cup LpRow(s, c) \cup FarmRow(s, c)
  <2>1. m \in (IF buttons THEN Rows ELSE {}) \cup OfPools
    BY DEF Openable
  <2>2. m \in Rows \/ m \in OfPools
    <3> HIDE DEF Rows, OfPools
    <3>. QED BY <2>1
  <2>3. m \in OfAccount => \E a \in Assets : m \in AssetRow(s, c, a)
    OBVIOUS
  <2>4. m \in OfPools => \E a \in Assets : m \in PoolRow(s, c, a)
    OBVIOUS
  <2> HIDE DEF OfAccount, OfPools
  <2>. QED BY <2>2, <2>3, <2>4
<1>. QED BY <1>1, <1>2, <1>3, <1>4, <1>5

\* What a modal hands over is a request of its kind; it is one of the account, but
\* not the one that creates it, only if the store knows the account.
LEMMA RequestShape ==
    ASSUME NEW m, m.kind \in ModalKinds \ {"none", "borrow"}, NEW s,
           m.kind \notin {"none", "add"} \cup OfThePools => ~s.noLoan
    PROVE  /\ DOMAIN RequestOf(m, s) = RequestFields
           /\ RequestOf(m, s).kind \in OfThePools \cup OfTheAccount
           /\ RequestOf(m, s).kind \in OfTheAccount \ {"create"} => ~s.noLoan
BY DEF RequestOf, AddRequest, WithdrawRequest, Request, RequestFields, ModalKinds,
       OfThePools, OfTheAccount

-----------------------------------------------------------------------------
(* The invariant: how it begins *)

LEMMA StoresOfAccount ==
    ASSUME NEW c, DOMAIN c = AccountFields, c.loan,
           NEW s, s = initStores(c)
    PROVE  /\ DOMAIN s = StoreFields /\ ~s.noLoan /\ s.noLoan \in BOOLEAN
           /\ s.bal = c.bal /\ s.available = c.bal[LP] /\ s.debt = c.debt
           /\ s.farm = c.farm /\ s.staked = c.farm /\ s.total = c.farm
           /\ s.header = Header(View(c)) /\ s.health = calculateHealth(View(c))
           /\ s.deposits = c.deposits
           /\ s.depositTotal = c.deposits["AVAX"] + c.deposits["USDC"]
<1> DEFINE p == poolStoreSetup(Blank, c)
           v == View(c)
           b == getAllAssetsBalances(p, v)
           f == updateStakedBalances(b, v)
           d == getDebtsPerAsset(f, v)
           h == getFullLoanStatus(d, v)
           n == setNoSmartLoan(h, FALSE)
           w == watchHealthRefresh(n)
<1>1. /\ DOMAIN p = StoreFields
      /\ p.deposits = c.deposits
      /\ p.depositTotal = c.deposits["AVAX"] + c.deposits["USDC"]
  BY DEF poolStoreSetup, setupPools, watchPools, setupTotalDeposit, Blank, StoreFields
<1>2. v.bal = c.bal /\ v.debt = c.debt /\ v.farm = c.farm
  BY DEF View
<1> HIDE DEF p, v
<1>3. /\ DOMAIN b = StoreFields /\ b.bal = c.bal
      /\ b.deposits = p.deposits /\ b.depositTotal = p.depositTotal
  BY <1>1, <1>2 DEF getAllAssetsBalances, watchAssetBalancesDataRefreshEvent, setupAvailable,
                    StoreFields
<1> HIDE DEF b
<1>4. /\ DOMAIN f = StoreFields /\ f.bal = c.bal
      /\ f.farm = c.farm /\ f.staked = c.farm /\ f.total = c.farm
      /\ f.deposits = p.deposits /\ f.depositTotal = p.depositTotal
  BY <1>2, <1>3 DEF updateStakedBalances, watchFarmRefreshEvent, StoreFields
<1> HIDE DEF f
<1>5. /\ DOMAIN h = StoreFields /\ h.bal = c.bal /\ h.debt = c.debt /\ h.header = Header(v)
      /\ h.farm = c.farm /\ h.staked = c.farm /\ h.total = c.farm
      /\ h.deposits = p.deposits /\ h.depositTotal = p.depositTotal
  BY <1>2, <1>4 DEF getDebtsPerAsset, getFullLoanStatus, updateLoanStatus, StoreFields
<1> HIDE DEF h
<1>6. /\ DOMAIN n = StoreFields /\ n.bal = c.bal /\ n.debt = c.debt /\ n.header = Header(v)
      /\ n.farm = c.farm /\ n.staked = c.farm /\ n.total = c.farm
      /\ n.deposits = p.deposits /\ n.depositTotal = p.depositTotal
      /\ ~n.noLoan /\ n.noLoan \in BOOLEAN /\ n.available = c.bal[LP]
  BY <1>5 DEF setNoSmartLoan, setupAvailable, StoreFields
<1>7. View(n) = v
  BY <1>6 DEF View, v
<1> HIDE DEF n
<1>8. /\ DOMAIN w = StoreFields /\ w.bal = c.bal /\ w.debt = c.debt /\ w.header = Header(v)
      /\ w.farm = c.farm /\ w.staked = c.farm /\ w.total = c.farm
      /\ w.deposits = p.deposits /\ w.depositTotal = p.depositTotal
      /\ ~w.noLoan /\ w.noLoan \in BOOLEAN /\ w.available = c.bal[LP] /\ w.health = calculateHealth(v)
  BY <1>6, <1>7 DEF watchHealthRefresh, HealthOf, StoreFields
<1>9. initStores(c) = updateBalance(w, c.wallet)
  BY DEF initStores, fundsStoreSetup, setupSmartLoanContract, w, n, h, d, f, b, v, p
<1> HIDE DEF w
<1>10. SameAccount(updateBalance(w, c.wallet), w) /\ AccountOnly(updateBalance(w, c.wallet), w)
  BY <1>8, BalanceRead
<1>. QED BY <1>1, <1>8, <1>9, <1>10 DEF SameAccount, AccountOnly, v

LEMMA EmptyHealth == calculateHealth(Empty) = HealthUnit
BY DEF calculateHealth, Owed, Empty, Assets

LEMMA StoresOfNobody ==
    ASSUME NEW c, DOMAIN c = AccountFields, ~c.loan, View(c) = Empty,
           NEW s, s = initStores(c)
    PROVE  /\ DOMAIN s = StoreFields /\ s.noLoan /\ s.noLoan \in BOOLEAN
           /\ s.bal = c.bal /\ s.debt = c.debt /\ s.available = 0
           /\ s.farm = c.farm /\ s.staked = c.farm /\ s.total = c.farm
           /\ s.header = Header(View(c)) /\ s.health = calculateHealth(View(c))
           /\ s.deposits = c.deposits
           /\ s.depositTotal = c.deposits["AVAX"] + c.deposits["USDC"]
<1> DEFINE p == poolStoreSetup(Blank, c)
           n == setNoSmartLoan(p, TRUE)
           w == watchHealthRefresh(n)
<1>0. Empty.bal = c.bal /\ Empty.debt = c.debt /\ Empty.farm = c.farm
  BY DEF View, Empty
<1>1. /\ DOMAIN p = StoreFields
      /\ p.deposits = c.deposits
      /\ p.depositTotal = c.deposits["AVAX"] + c.deposits["USDC"]
      /\ p.bal = Empty.bal /\ p.debt = Empty.debt /\ p.farm = 0 /\ p.staked = 0 /\ p.total = 0
      /\ p.header = Header(Empty) /\ p.available = 0
  BY DEF poolStoreSetup, setupPools, watchPools, setupTotalDeposit, Blank, StoreFields
<1> HIDE DEF p
<1>2. /\ DOMAIN w = StoreFields /\ w.noLoan /\ w.noLoan \in BOOLEAN
      /\ w.deposits = p.deposits /\ w.depositTotal = p.depositTotal
      /\ w.bal = p.bal /\ w.debt = p.debt /\ w.farm = 0 /\ w.staked = 0 /\ w.total = 0
      /\ w.header = Header(Empty) /\ w.health = HealthUnit /\ w.available = 0
  BY <1>1 DEF setNoSmartLoan, setupAvailable, watchHealthRefresh, HealthOf, StoreFields
<1>3. initStores(c) = updateBalance(w, c.wallet)
  BY DEF initStores, fundsStoreSetup, setupSmartLoanContract, w, n, p
<1> HIDE DEF w
<1>4. SameAccount(updateBalance(w, c.wallet), w) /\ AccountOnly(updateBalance(w, c.wallet), w)
  BY <1>2, BalanceRead
<1>5. c.farm = 0
  BY <1>0 DEF Empty
<1>. QED BY <1>0, <1>1, <1>2, <1>3, <1>4, <1>5, EmptyHealth DEF SameAccount, AccountOnly

LEMMA InitIInv == Init => IInv
<1> SUFFICES ASSUME Init PROVE IInv
  OBVIOUS
<1>1. /\ DOMAIN ch = AccountFields /\ ch.loan \in BOOLEAN
      /\ ~ch.loan => View(ch) = Empty
  BY ScenarioAssumption DEF Init, Accounts, AccountFields
<1>2. ops = <<>> /\ DOMAIN ops = {} /\ ops \in Seq({}) /\ modal = NoModal /\ st = initStores(ch)
  BY DEF Init
<1>3. /\ DOMAIN st = StoreFields /\ st.noLoan \in BOOLEAN /\ (st.noLoan <=> ~ch.loan)
      /\ st.bal = ch.bal /\ st.debt = ch.debt
      /\ st.farm = ch.farm /\ st.staked = ch.farm /\ st.total = ch.farm
      /\ st.header = Header(View(ch)) /\ st.health = calculateHealth(View(ch))
      /\ st.deposits = ch.deposits
      /\ st.depositTotal = ch.deposits["AVAX"] + ch.deposits["USDC"]
      /\ ~st.noLoan => st.available = st.bal[LP]
  <2>0. st = initStores(ch)
    BY <1>2
  <2>1. CASE ch.loan
    BY <1>1, <2>0, <2>1, StoresOfAccount
  <2>2. CASE ~ch.loan
    BY <1>1, <2>0, <2>2, StoresOfNobody
  <2>. QED BY <1>1, <2>1, <2>2
<1>4. Shapes
  <2>1. \E S : ops \in Seq(S)
    BY <1>2
  <2>. QED BY <1>1, <1>2, <1>3, <2>1, NoModalShape DEF Shapes, ModalKinds
<1>5. LoanIsKnown
  BY <1>1, <1>2, <1>3, NoModalShape DEF LoanIsKnown
<1>6. Shown /\ HeldIsTrue
  BY <1>2, <1>3 DEF Shown, HeldIsTrue
<1>. QED BY <1>4, <1>5, <1>6 DEF IInv

-----------------------------------------------------------------------------
(* One operation moves on *)

\* Operation i goes on to next, still as the same kind of request; nothing is said of
\* what it holds.
Moves(i, next) ==
    /\ DOMAIN ops' = DOMAIN ops /\ \E S : ops' \in Seq(S)
    /\ \A j \in DOMAIN ops \ {i} : ops'[j] = ops[j]
    /\ DOMAIN ops'[i] = OperationFields /\ ops'[i].status = next
    /\ DOMAIN ops'[i].req = RequestFields /\ ops'[i].req.kind = ops[i].req.kind

LEMMA PutMoves ==
    ASSUME Shapes, NEW i \in DOMAIN ops, NEW o, ops' = [ops EXCEPT ![i] = o],
           DOMAIN o = OperationFields,
           DOMAIN o.req = RequestFields, o.req.kind = ops[i].req.kind
    PROVE  Moves(i, o.status) /\ ops'[i] = o
<1>1. PICK S : ops \in Seq(S)
  BY DEF Shapes
<1>2. ops' \in Seq(S \cup {o})
  BY <1>1
<1>3. DOMAIN ops' = DOMAIN ops /\ ops'[i] = o /\ \A j \in DOMAIN ops \ {i} : ops'[j] = ops[j]
  BY <1>1
<1>. QED BY <1>2, <1>3 DEF Moves

LEMMA BecomeMoves ==
    ASSUME Shapes, NEW i \in DOMAIN ops, NEW next, Become(i, next)
    PROVE  Moves(i, next) /\ ops'[i].held = ops[i].held /\ ops'[i].after = ops[i].after
<1> DEFINE o == [ops[i] EXCEPT !.status = next]
<1>1. ops' = [ops EXCEPT ![i] = o]
  BY DEF Become
<1>2. /\ DOMAIN o = OperationFields /\ o.status = next /\ o.req = ops[i].req
      /\ o.held = ops[i].held /\ o.after = ops[i].after
  BY DEF Shapes, OperationFields
<1>3. DOMAIN ops[i].req = RequestFields
  BY DEF Shapes, Request_
<1> HIDE DEF o
<1>. QED BY <1>1, <1>2, <1>3, PutMoves

LEMMA MinedMoves ==
    ASSUME Shapes, NEW i \in DOMAIN ops, NEW next, NEW value,
           ops' = [ops EXCEPT ![i].status = next, ![i].event = value]
    PROVE  Moves(i, next) /\ ops'[i].held = ops[i].held
<1> DEFINE o == [ops[i] EXCEPT !.status = next, !.event = value]
<1>1. DOMAIN ops[i] = OperationFields /\ DOMAIN ops[i].req = RequestFields
  BY DEF Shapes, Request_
<1>2. ops' = [ops EXCEPT ![i] = o]
  OBVIOUS
<1>3. /\ DOMAIN o = OperationFields /\ o.status = next /\ o.req = ops[i].req
      /\ o.held = ops[i].held
  BY <1>1 DEF OperationFields
<1> HIDE DEF o
<1>. QED BY <1>1, <1>2, <1>3, PutMoves

LEMMA ConfirmedMoves ==
    ASSUME Shapes, NEW i \in DOMAIN ops, NEW next, NEW value,
           ops' = [ops EXCEPT ![i].status = next, ![i].after = value]
    PROVE  Moves(i, next) /\ ops'[i].held = ops[i].held /\ ops'[i].after = value
<1> DEFINE o == [ops[i] EXCEPT !.status = next, !.after = value]
<1>1. DOMAIN ops[i] = OperationFields /\ DOMAIN ops[i].req = RequestFields
  BY DEF Shapes, Request_
<1>2. ops' = [ops EXCEPT ![i] = o]
  OBVIOUS
<1>3. /\ DOMAIN o = OperationFields /\ o.status = next /\ o.req = ops[i].req
      /\ o.held = ops[i].held /\ o.after = value
  BY <1>1 DEF OperationFields
<1> HIDE DEF o
<1>. QED BY <1>1, <1>2, <1>3, PutMoves

LEMMA CommitMoves ==
    ASSUME Shapes, NEW i \in DOMAIN ops, NEW next, NEW value,
           ops' = [ops EXCEPT ![i].status = next, ![i].held = value]
    PROVE  Moves(i, next) /\ ops'[i].held = value /\ ops'[i].after = ops[i].after
<1> DEFINE o == [ops[i] EXCEPT !.status = next, !.held = value]
<1>1. DOMAIN ops[i] = OperationFields /\ DOMAIN ops[i].req = RequestFields
  BY DEF Shapes, Request_
<1>2. ops' = [ops EXCEPT ![i] = o]
  OBVIOUS
<1>3. /\ DOMAIN o = OperationFields /\ o.status = next /\ o.req = ops[i].req
      /\ o.held = value /\ o.after = ops[i].after
  BY <1>1 DEF OperationFields
<1> HIDE DEF o
<1>. QED BY <1>1, <1>2, <1>3, PutMoves

LEMMA AnswerMoves ==
    ASSUME Shapes, NEW i \in DOMAIN ops, NEW next, NEW value,
           ops' = [ops EXCEPT ![i].status = next, ![i].answer = value]
    PROVE  /\ Moves(i, next) /\ ops'[i].held = ops[i].held /\ ops'[i].after = ops[i].after
           /\ ops'[i].answer = value
<1> DEFINE o == [ops[i] EXCEPT !.status = next, !.answer = value]
<1>1. DOMAIN ops[i] = OperationFields /\ DOMAIN ops[i].req = RequestFields
  BY DEF Shapes, Request_
<1>2. ops' = [ops EXCEPT ![i] = o]
  OBVIOUS
<1>3. /\ DOMAIN o = OperationFields /\ o.status = next /\ o.req = ops[i].req
      /\ o.held = ops[i].held /\ o.after = ops[i].after /\ o.answer = value
  BY <1>1 DEF OperationFields
<1> HIDE DEF o
<1>. QED BY <1>1, <1>2, <1>3, PutMoves

LEMMA HeldMoves ==
    ASSUME Shapes, NEW i \in DOMAIN ops, NEW value, ops' = [ops EXCEPT ![i].held = value]
    PROVE  /\ Moves(i, ops[i].status) /\ ops'[i].held = value /\ ops'[i].after = ops[i].after
<1> DEFINE o == [ops[i] EXCEPT !.held = value]
<1>0. DOMAIN ops[i] = OperationFields /\ DOMAIN ops[i].req = RequestFields
  BY DEF Shapes, Request_
<1>1. ops' = [ops EXCEPT ![i] = o]
  OBVIOUS
<1>2. /\ DOMAIN o = OperationFields /\ o.status = ops[i].status /\ o.req = ops[i].req
      /\ o.held = value /\ o.after = ops[i].after
  BY <1>0 DEF OperationFields
<1> HIDE DEF o
<1>. QED BY <1>0, <1>1, <1>2, PutMoves

LEMMA WrapMoves ==
    ASSUME Shapes, NEW i \in DOMAIN ops, NEW value, ops' = [ops EXCEPT ![i].req.native = value]
    PROVE  /\ Moves(i, ops[i].status) /\ ops'[i].held = ops[i].held /\ ops'[i].after = ops[i].after
<1> DEFINE r == [ops[i].req EXCEPT !.native = value]
           o == [ops[i] EXCEPT !.req = r]
<1>0. DOMAIN ops[i] = OperationFields /\ DOMAIN ops[i].req = RequestFields
  BY DEF Shapes, Request_
<1>1. ops' = [ops EXCEPT ![i] = o]
  OBVIOUS
<1>2. DOMAIN r = RequestFields /\ r.kind = ops[i].req.kind
  BY <1>0 DEF RequestFields
<1> HIDE DEF r
<1>3. /\ DOMAIN o = OperationFields /\ o.status = ops[i].status /\ o.req = r
      /\ o.held = ops[i].held /\ o.after = ops[i].after
  BY <1>0 DEF OperationFields
<1> HIDE DEF o
<1>. QED BY <1>0, <1>1, <1>2, <1>3, PutMoves

LEMMA MovesShape ==
    ASSUME Shapes, NEW i \in DOMAIN ops, NEW next \in Statuses, Moves(i, next),
           DOMAIN st' = StoreFields, st'.noLoan \in BOOLEAN,
           DOMAIN ch' = AccountFields, ch'.loan \in BOOLEAN,
           "kind" \in DOMAIN modal', modal'.kind \in ModalKinds
    PROVE  Shapes'
<1>1. ASSUME NEW j \in DOMAIN ops'
      PROVE  /\ DOMAIN ops'[j] = OperationFields /\ ops'[j].status \in Statuses
             /\ DOMAIN ops'[j].req = RequestFields
             /\ ops'[j].req.kind \in OfThePools \cup OfTheAccount
  BY <1>1 DEF Shapes, Moves, Request_
<1>2. \E S : ops' \in Seq(S)
  BY DEF Moves
<1>. QED BY <1>1, <1>2 DEF Shapes, Request_

\* The chain may have got an account by this step, never lost one; the operation
\* went on with what only an account can go on with if there is one.
LEMMA MovesLoan ==
    ASSUME Shapes, LoanIsKnown, NEW i \in DOMAIN ops, NEW next, Moves(i, next),
           ch.loan => ch'.loan, ~ch'.loan => View(ch)' = View(ch),
           ~st'.noLoan => ~st.noLoan \/ ch'.loan, ~st.noLoan => ~st'.noLoan,
           modal'.kind \in {modal.kind, "none"},
           OnAccount(Request_(i)) /\ next \notin Early /\ ops[i].status \in Early => ch'.loan
    PROVE  LoanIsKnown'
<1>1. ASSUME NEW j \in DOMAIN ops', OnAccount(ops'[j].req),
             ops'[j].req.kind # "create" \/ ops'[j].status \notin Early
      PROVE  ch'.loan
  <2>1. CASE j = i
    BY <1>1, <2>1 DEF Moves, LoanIsKnown, OnAccount, Request_
  <2>2. CASE j # i
    BY <1>1, <2>2 DEF Moves, LoanIsKnown, Request_
  <2>. QED BY <2>1, <2>2
<1>2. ~st'.noLoan => ch'.loan
  BY DEF LoanIsKnown
<1>3. modal'.kind \notin {"none", "add"} \cup OfThePools => ~st'.noLoan
  BY DEF LoanIsKnown
<1>4. ~ch'.loan => View(ch)' = Empty
  BY DEF LoanIsKnown
<1>. QED BY <1>1, <1>2, <1>3, <1>4 DEF LoanIsKnown, Request_

LEMMA MovesComing ==
    ASSUME Shapes, NEW i \in DOMAIN ops, NEW next, Moves(i, next), NEW stages,
           OnAccount(Request_(i)) /\ ops[i].status \in Sent \cup stages => next \in Sent \cup stages
    PROVE  Coming(stages) => Coming(stages)'
<1> SUFFICES ASSUME NEW k \in DOMAIN ops, OnAccount(Request_(k)), ops[k].status \in Sent \cup stages
             PROVE  Coming(stages)'
  BY DEF Coming
<1>1. /\ k \in DOMAIN ops' /\ OnAccount(ops'[k].req)
      /\ ops'[k].status \in Sent \cup stages
  BY DEF Moves, OnAccount, Request_
<1>. QED BY <1>1 DEF Coming, Request_

LEMMA MovesPoolsComing ==
    ASSUME Shapes, NEW i \in DOMAIN ops, NEW next, Moves(i, next),
           ~OnAccount(Request_(i)) /\ ops[i].status \in Sent \cup {"pools"} =>
               next \in Sent \cup {"pools"}
    PROVE  PoolsComing => PoolsComing'
<1> SUFFICES ASSUME NEW k \in DOMAIN ops, ~OnAccount(Request_(k)),
                    ops[k].status \in Sent \cup {"pools"}
             PROVE  PoolsComing'
  BY DEF PoolsComing
<1>1. k \in DOMAIN ops' /\ ~OnAccount(ops'[k].req) /\ ops'[k].status \in Sent \cup {"pools"}
  BY DEF Moves, OnAccount, Request_
<1>. QED BY <1>1 DEF PoolsComing, Request_

\* Whoever was overtaken by an operation that has not begun its refresh still is.
LEMMA MovesOvertaken ==
    ASSUME Shapes, NEW i \in DOMAIN ops, NEW next, Moves(i, next), NEW j,
           \/ ops[i].status \notin Sent \/ ~OnAccount(Request_(i))
           \/ next = "mined"
           \/ ops[i].status # "mined" /\ next \in {"soon", "due"} /\ ops'[i].after = ops[i].after
           \/ next \in {"soon", "due"} /\ j \in ops'[i].after
           \/ ops[i].status # "mined" /\ j \notin ops[i].after
    PROVE  Overtaken(j) => Overtaken(j)'
<1> SUFFICES ASSUME NEW k \in DOMAIN ops, OnAccount(Request_(k)),
                    \/ ops[k].status = "mined"
                    \/ ops[k].status \in {"soon", "due"} /\ j \in ops[k].after
             PROVE  Overtaken(j)'
  BY DEF Overtaken
<1>1. /\ k \in DOMAIN ops' /\ OnAccount(ops'[k].req)
      /\ \/ ops'[k].status = "mined"
         \/ ops'[k].status \in {"soon", "due"} /\ j \in ops'[k].after
  BY DEF Moves, OnAccount, Request_, Sent
<1>. QED BY <1>1 DEF Overtaken, Request_

-----------------------------------------------------------------------------
(* Steps that neither the account on chain nor the stores notice *)

\* This step leaves the account and the deposits on chain as they are.
SameChain ==
    /\ DOMAIN ch' = AccountFields /\ ch'.loan = ch.loan /\ View(ch)' = View(ch)
    /\ ch'.bal = ch.bal /\ ch'.debt = ch.debt /\ ch'.farm = ch.farm
    /\ ch'.deposits = ch.deposits

LEMMA ChainStays == ASSUME Shapes, ch' = ch PROVE SameChain
BY DEF Shapes, SameChain, View

Looks == {"balances", "debts", "status", "farm"}

\* An operation goes on before its transaction, or reads, and nothing else changes.
LEMMA IdleKeeps ==
    ASSUME IInv, NEW i \in DOMAIN ops, NEW next, Moves(i, next),
           \/ ops[i].status \in Early /\ next \in Early
           \/ ops[i].status = "prices" /\ next = "balances"
           \/ ops[i].status \in Looks /\ next = ops[i].status,
           ops'[i].held = ops[i].held \/ (ops'[i].held = View(ch) /\ next \in Looks),
           SameChain, st' = st, lost' = lost,
           "kind" \in DOMAIN modal', modal'.kind \in {modal.kind, "none"}
    PROVE  IInv'
<1>1. Shapes /\ LoanIsKnown
  BY DEF IInv
<1>2. next \in Statuses
  BY DEF Statuses, Early, Refreshing, Looks
<1>3. Shapes'
  BY <1>1, <1>2, MovesShape DEF Shapes, SameChain, ModalKinds
<1>4. LoanIsKnown'
  <2>1. next \notin Early => ops[i].status \notin Early
    BY DEF Early, Looks
  <2>. QED BY <1>1, <2>1, MovesLoan DEF SameChain
<1>5. ASSUME Shown PROVE Shown'
  <2>1. \A stages \in {{}, BeforeBalances, BeforeDebts, BeforeStatus, BeforeFarm, Refreshing} :
           ops[i].status \in Sent \cup stages => next \in Sent \cup stages
    BY DEF Early, Sent, Looks, BeforeBalances, BeforeDebts, BeforeStatus, BeforeFarm, Refreshing
  <2>2. \A stages \in {{}, BeforeBalances, BeforeDebts, BeforeStatus, BeforeFarm, Refreshing} :
           Coming(stages) => Coming(stages)'
    BY <1>1, <2>1, MovesComing
  <2>3. PoolsComing => PoolsComing'
    <3>1. ops[i].status \notin Sent \cup {"pools"}
      BY DEF Sent, Early, Looks
    <3>. QED BY <1>1, <3>1, MovesPoolsComing
  <2>. QED BY <1>5, <2>2, <2>3 DEF Shown, SameChain
<1>6. ASSUME HeldIsTrue PROVE HeldIsTrue'
  <2>1. ops[i].status \notin Sent
    BY DEF Sent, Early, Looks
  <2>2. ASSUME NEW j \in DOMAIN ops', ops'[j].held # Unread
        PROVE  ops'[j].status \in Looks /\ (ops'[j].held = View(ch) \/ Overtaken(j)')
    <3>1. CASE j # i
      BY <1>1, <1>6, <2>1, <2>2, <3>1, MovesOvertaken DEF Moves, HeldIsTrue, Looks
    <3>2. CASE j = i
      <4>1. CASE ops'[i].held = ops[i].held
        BY <1>1, <1>6, <2>1, <2>2, <3>2, <4>1, MovesOvertaken DEF Moves, HeldIsTrue, Looks, Early
      <4>2. CASE ops'[i].held = View(ch) /\ next \in Looks
        BY <3>2, <4>2 DEF Moves
      <4>. QED BY <4>1, <4>2
    <3>. QED BY <3>1, <3>2
  <2>. QED BY <2>2 DEF HeldIsTrue, SameChain, Looks
<1>. QED BY <1>3, <1>4, <1>5, <1>6 DEF IInv

LEMMA RefuseKeeps ==
    ASSUME IInv, NEW i \in DOMAIN ops, Refuse(i) \/ Reverted(i) PROVE IInv'
<1>1. Become(i, "done") /\ modal' = NoModal /\ ch' = ch /\ st' = st /\ lost' = lost
  BY DEF Refuse, Reverted, TransactionError, handleTransactionError
<1>2. ops[i].status \in Early
  BY DEF Refuse, Reverted, At, Early
<1>3. Shapes
  BY DEF IInv
<1>4. Moves(i, "done") /\ ops'[i].held = ops[i].held /\ SameChain
  BY <1>1, <1>3, BecomeMoves, ChainStays
<1>5. "done" \in Early
  BY DEF Early
<1>. QED BY <1>1, <1>2, <1>4, <1>5, IdleKeeps, NoModalShape

LEMMA WrapKeeps == ASSUME IInv, NEW i \in DOMAIN ops, WrapFirst(i) PROVE IInv'
<1>1. /\ ops[i].status = "asked" /\ ops' = [ops EXCEPT ![i].req.native = FALSE]
      /\ st' = st /\ modal' = modal /\ lost' = lost
  BY DEF WrapFirst, At
<1>2. SameChain
  BY DEF WrapFirst, SameChain, IInv, Shapes, AccountFields, View
<1>3. Shapes /\ "kind" \in DOMAIN modal
  BY DEF IInv, Shapes
<1>4. Moves(i, "asked") /\ ops'[i].held = ops[i].held
  BY <1>1, <1>3, WrapMoves
<1>5. "asked" \in Early
  BY DEF Early
<1>. QED BY <1>1, <1>2, <1>3, <1>4, <1>5, IdleKeeps

LEMMA SendKeeps == ASSUME IInv, NEW i \in DOMAIN ops, Send(i) PROVE IInv'
<1>1. /\ ops[i].status = "asked" /\ Become(i, "mining")
      /\ st' = st /\ modal' \in {modal, NoModal} /\ lost' = lost /\ ch' = ch
  BY DEF Send, At
<1>3. Shapes /\ "kind" \in DOMAIN modal
  BY DEF IInv, Shapes
<1>4. Moves(i, "mining") /\ ops'[i].held = ops[i].held /\ SameChain
  BY <1>1, <1>3, BecomeMoves, ChainStays
<1>5. "asked" \in Early /\ "mining" \in Early
  BY DEF Early
<1>6. "kind" \in DOMAIN modal' /\ modal'.kind \in {modal.kind, "none"}
  BY <1>1, <1>3, NoModalShape
<1>. QED BY <1>1, <1>4, <1>5, <1>6, IdleKeeps

LEMMA PricesKeep == ASSUME IInv, NEW i \in DOMAIN ops, CommitPrices(i) PROVE IInv'
<1>1. /\ ops[i].status = "prices" /\ Become(i, "balances")
      /\ st' = st /\ modal' = modal /\ lost' = lost /\ ch' = ch
  BY DEF CommitPrices, At
<1>3. Shapes /\ "kind" \in DOMAIN modal
  BY DEF IInv, Shapes
<1>4. Moves(i, "balances") /\ ops'[i].held = ops[i].held /\ SameChain
  BY <1>1, <1>3, BecomeMoves, ChainStays
<1>. QED BY <1>1, <1>3, <1>4, IdleKeeps

LEMMA ReadKeeps == ASSUME IInv, NEW i \in DOMAIN ops, Read(i) PROVE IInv'
<1>1. /\ ops[i].status \in Looks /\ ops' = [ops EXCEPT ![i].held = View(ch)]
      /\ st' = st /\ modal' = modal /\ lost' = lost /\ ch' = ch
  BY DEF Read, Looks
<1>3. Shapes /\ "kind" \in DOMAIN modal
  BY DEF IInv, Shapes
<1>4. Moves(i, ops[i].status) /\ ops'[i].held = View(ch) /\ SameChain
  BY <1>1, <1>3, HeldMoves, ChainStays
<1>. QED BY <1>1, <1>3, <1>4, IdleKeeps

-----------------------------------------------------------------------------
(* Steps that lose something *)

LEMMA LossKeeps ==
    ASSUME IInv, NEW i \in DOMAIN ops,
           WrongWallet(i) \/ LoseConfirmation(i) \/ RefreshFails(i)
    PROVE  IInv'
<1>1. Become(i, "done") /\ lost' = TRUE /\ ch' = ch /\ modal' \in {modal, NoModal}
  BY DEF WrongWallet, LoseConfirmation, RefreshFails, TransactionError, handleTransactionError
<1>2. Shapes /\ LoanIsKnown /\ "kind" \in DOMAIN modal /\ modal.kind \in ModalKinds
  BY DEF IInv, Shapes
<1>3. Moves(i, "done") /\ SameChain
  BY <1>1, <1>2, BecomeMoves, ChainStays
<1>4. "kind" \in DOMAIN modal' /\ modal'.kind \in {modal.kind, "none"}
  BY <1>1, <1>2, NoModalShape
<1>5. DOMAIN st' = StoreFields /\ st'.noLoan = st.noLoan
  BY <1>2 DEF WrongWallet, LoseConfirmation, RefreshFails, PoolDeposited, Shapes, StoreFields
<1>6. "done" \in Early /\ "done" \in Statuses /\ "none" \in ModalKinds
  BY DEF Early, Statuses, ModalKinds
<1>7. Shapes'
  BY <1>2, <1>3, <1>4, <1>5, <1>6, MovesShape DEF SameChain, Shapes
<1>8. LoanIsKnown'
  BY <1>2, <1>3, <1>4, <1>5, <1>6, MovesLoan DEF SameChain
<1>. QED BY <1>1, <1>7, <1>8 DEF IInv

-----------------------------------------------------------------------------
(* A transaction goes through and is confirmed *)

\* The parts of the stores, each by the stages before its commit.
Stages == {{}, BeforeBalances, BeforeDebts, BeforeStatus, BeforeFarm, Refreshing}

LEMMA ComingFrom ==
    ASSUME NEW k \in DOMAIN ops, OnAccount(Request_(k)), NEW stages,
           ops[k].status \in Sent \cup stages
    PROVE  Coming(stages)
BY DEF Coming

LEMMA SomethingMined ==
    ASSUME Shapes, NEW i \in DOMAIN ops, NEW next \in Sent, Moves(i, next)
    PROVE  /\ OnAccount(Request_(i)) => \A stages \in Stages : Coming(stages)'
           /\ ~OnAccount(Request_(i)) => PoolsComing'
<1>1. i \in DOMAIN ops' /\ ops'[i].status \in Sent /\ (OnAccount(ops'[i].req) <=> OnAccount(ops[i].req))
  BY DEF Moves, OnAccount
<1>. QED BY <1>1 DEF Coming, PoolsComing, Request_

LEMMA MineKeeps == ASSUME IInv, NEW i \in DOMAIN ops, Mine(i) PROVE IInv'
<1>1. Shapes /\ LoanIsKnown /\ "kind" \in DOMAIN modal /\ modal.kind \in ModalKinds
  BY DEF IInv, Shapes
<1>2. ops[i].status = "mining" /\ st' = st /\ modal' = modal /\ lost' = lost
  BY DEF Mine, At
<1>3. CASE Become(i, "failed") /\ ch' = ch
  <2>1. Moves(i, "failed") /\ ops'[i].held = ops[i].held /\ SameChain
    BY <1>1, <1>3, BecomeMoves, ChainStays
  <2>2. "mining" \in Early /\ "failed" \in Early
    BY DEF Early
  <2>. QED BY <1>1, <1>2, <2>1, <2>2, IdleKeeps
<1>4. ASSUME NEW e, ch' = Executed(ch, Request_(i), e),
             ops' = [ops EXCEPT ![i].status = "mined", ![i].event = e]
      PROVE  IInv'
  <2> DEFINE r == Request_(i)
  <2>1. r.kind \in OfThePools \cup OfTheAccount /\ DOMAIN ch = AccountFields /\ ch.loan \in BOOLEAN
    BY <1>1 DEF Shapes
  <2>2. /\ DOMAIN ch' = AccountFields /\ ch'.loan \in BOOLEAN
        /\ ch.loan => ch'.loan
        /\ r.kind = "create" => ch'.loan
        /\ r.kind \in OfThePools => View(ch') = View(ch) /\ ch'.loan = ch.loan
        /\ r.kind \in OfTheAccount => ch'.deposits = ch.deposits
    BY <1>4, <2>1, ExecutedShape
  <2>3. Moves(i, "mined") /\ ops'[i].held = ops[i].held
    BY <1>1, <1>4, MinedMoves
  <2>4. /\ OnAccount(r) <=> r.kind \in OfTheAccount
        /\ ~OnAccount(r) <=> r.kind \in OfThePools
    BY <2>1, OfTheAccountOrNot
  <2> HIDE DEF r
  <2>5. "mined" \in Sent /\ "mined" \in Statuses /\ "mining" \notin Sent
    BY DEF Sent, Statuses
  <2>6. Shapes'
    BY <1>1, <1>2, <2>2, <2>3, <2>5, MovesShape DEF Shapes
  <2>7. OnAccount(r) => ch'.loan
    BY <1>1, <2>2 DEF LoanIsKnown, r
  <2>8. ~OnAccount(r) => View(ch') = View(ch) /\ (ch'.loan <=> ch.loan)
    BY <2>2, <2>4
  <2>9. LoanIsKnown'
    <3>1. ~ch'.loan => View(ch)' = View(ch)
      BY <2>7, <2>8
    <3>. QED BY <1>1, <1>2, <2>2, <2>3, <2>7, <3>1, MovesLoan DEF r
  <2>10. ASSUME Shown PROVE Shown'
    <3>1. CASE OnAccount(r)
      <4>1. \A stages \in Stages : Coming(stages)'
        BY <1>1, <2>3, <2>5, <3>1, SomethingMined DEF r
      <4>2. PoolsComing => PoolsComing'
        BY <1>1, <1>2, <2>3, <2>5, MovesPoolsComing
      <4>3. ch'.deposits = ch.deposits
        BY <2>2, <2>4, <3>1
      <4>. QED BY <1>2, <2>10, <4>1, <4>2, <4>3 DEF Shown, Stages
    <3>2. CASE ~OnAccount(r)
      <4>1. PoolsComing'
        BY <1>1, <2>3, <2>5, <3>2, SomethingMined DEF r
      <4>2. \A stages : Coming(stages) => Coming(stages)'
        BY <1>1, <2>3, <3>2, MovesComing DEF r
      <4>3. ch'.bal = ch.bal /\ ch'.debt = ch.debt /\ ch'.farm = ch.farm
        BY <2>8, <3>2 DEF View
      <4>. QED BY <1>2, <2>8, <2>10, <3>2, <4>1, <4>2, <4>3 DEF Shown
    <3>. QED BY <3>1, <3>2
  <2>11. ASSUME HeldIsTrue PROVE HeldIsTrue'
    <3>1. ASSUME NEW j \in DOMAIN ops', ops'[j].held # Unread
          PROVE  ops'[j].status \in Looks /\ (ops'[j].held = View(ch') \/ Overtaken(j)')
      <4>1. j # i
        BY <1>2, <2>3, <2>11, <3>1 DEF HeldIsTrue
      <4>2. ops'[j] = ops[j] /\ j \in DOMAIN ops
        BY <2>3, <4>1 DEF Moves
      <4>3. CASE OnAccount(r)
        <5>1. i \in DOMAIN ops' /\ OnAccount(ops'[i].req) /\ ops'[i].status = "mined"
          BY <2>3, <4>3 DEF Moves, OnAccount, r, Request_
        <5>2. Overtaken(j)'
          BY <5>1 DEF Overtaken, Request_
        <5>. QED BY <2>11, <3>1, <4>2, <5>2 DEF HeldIsTrue, Looks
      <4>4. CASE ~OnAccount(r)
        <5>1. Overtaken(j) => Overtaken(j)'
          BY <1>1, <1>2, <2>3, <2>5, MovesOvertaken
        <5>. QED BY <2>8, <2>11, <3>1, <4>2, <4>4, <5>1 DEF HeldIsTrue, Looks
      <4>. QED BY <4>3, <4>4
    <3>. QED BY <3>1 DEF HeldIsTrue, Looks
  <2>. QED BY <1>2, <2>6, <2>9, <2>10, <2>11 DEF IInv
<1>. QED BY <1>3, <1>4 DEF Mine

LEMMA ConfirmKeeps == ASSUME IInv, NEW i \in DOMAIN ops, Confirm(i) PROVE IInv'
<1> DEFINE r == Request_(i)
<1>1. Shapes /\ LoanIsKnown /\ "kind" \in DOMAIN modal /\ modal.kind \in ModalKinds
  BY DEF IInv, Shapes
<1>2. /\ ops[i].status = "mined" /\ lost' = lost /\ ch' = ch
      /\ ops' = [ops EXCEPT ![i].status = "soon", ![i].after = RefreshesRunning(r)]
      /\ st' = Updated(st, r, ops[i].event)
  BY DEF Confirm, At
<1>3. r.kind \in OfThePools \cup OfTheAccount /\ DOMAIN st = StoreFields /\ st.noLoan \in BOOLEAN
  BY <1>1 DEF Shapes
<1>4. /\ OnAccount(r) <=> r.kind \in OfTheAccount
      /\ ~OnAccount(r) <=> r.kind \in OfThePools
  BY <1>3, OfTheAccountOrNot
<1>5. /\ OnAccount(r) => AccountOnly(st', st)
      /\ ~OnAccount(r) => SameAccount(st', st)
  BY <1>2, <1>3, <1>4, UpdatedOfAccount, UpdatedOfPools
<1>6. DOMAIN st' = StoreFields /\ st'.noLoan = st.noLoan
  BY <1>5 DEF AccountOnly, SameAccount
<1>7. Moves(i, "soon") /\ ops'[i].held = ops[i].held /\ ops'[i].after = RefreshesRunning(r)
  BY <1>1, <1>2, ConfirmedMoves
<1>8. "kind" \in DOMAIN modal' /\ modal'.kind \in {modal.kind, "none"}
  BY <1>1, NoModalShape DEF Confirm
<1> HIDE DEF r
<1>9. "soon" \in Sent /\ "soon" \in Statuses /\ "none" \in ModalKinds /\ "mined" \notin Early
  BY DEF Sent, Statuses, ModalKinds, Early
<1>10. SameChain
  BY <1>1, <1>2, ChainStays
<1>11. Shapes'
  BY <1>1, <1>3, <1>6, <1>7, <1>8, <1>9, <1>10, MovesShape DEF SameChain, Shapes
<1>12. LoanIsKnown'
  BY <1>1, <1>2, <1>6, <1>7, <1>8, <1>9, <1>10, MovesLoan DEF SameChain
<1>13. ASSUME Shown PROVE Shown'
  <2>1. CASE OnAccount(r)
    <3>1. \A stages \in Stages : Coming(stages)'
      BY <1>1, <1>7, <1>9, <2>1, SomethingMined DEF r
    <3>2. PoolsComing => PoolsComing'
      BY <1>1, <1>7, <1>9, MovesPoolsComing
    <3>3. st'.deposits = st.deposits /\ st'.depositTotal = st.depositTotal
      BY <1>5, <2>1 DEF AccountOnly
    <3>. QED BY <1>2, <1>13, <3>1, <3>2, <3>3 DEF Shown, Stages
  <2>2. CASE ~OnAccount(r)
    <3>1. PoolsComing'
      BY <1>1, <1>7, <1>9, <2>2, SomethingMined DEF r
    <3>2. \A stages : Coming(stages) => Coming(stages)'
      BY <1>1, <1>7, <2>2, MovesComing DEF r
    <3>. QED BY <1>2, <1>5, <1>10, <1>13, <2>2, <3>1, <3>2 DEF Shown, SameAccount, SameChain
  <2>. QED BY <2>1, <2>2
<1>14. ASSUME HeldIsTrue PROVE HeldIsTrue'
  <2>1. ASSUME NEW j \in DOMAIN ops', ops'[j].held # Unread
        PROVE  ops'[j].status \in Looks /\ (ops'[j].held = View(ch) \/ Overtaken(j)')
    <3>1. j # i
      BY <1>2, <1>7, <1>14, <2>1 DEF HeldIsTrue
    <3>2. ops'[j] = ops[j] /\ j \in DOMAIN ops
      BY <1>7, <3>1 DEF Moves
    <3>3. ops[j].status \in Looks
      BY <1>14, <2>1, <3>2 DEF HeldIsTrue, Looks
    <3>4. OnAccount(r) => j \in RefreshesRunning(r)
      BY <3>2, <3>3 DEF RefreshesRunning, Looks, Refreshing
    <3>5. Overtaken(j) => Overtaken(j)'
      BY <1>1, <1>7, <3>4, MovesOvertaken DEF r
    <3>. QED BY <1>14, <2>1, <3>2, <3>3, <3>5 DEF HeldIsTrue
  <2>. QED BY <1>10, <2>1 DEF HeldIsTrue, Looks, SameChain
<1>. QED BY <1>2, <1>11, <1>12, <1>13, <1>14 DEF IInv

-----------------------------------------------------------------------------
(* The timers *)

\* The timers before a refresh, and the refresh of the pools.
LEMMA LaterKeeps ==
    ASSUME IInv, NEW i \in DOMAIN ops, NEW next, Moves(i, next),
           ops'[i].held = ops[i].held, ops'[i].after = ops[i].after,
           SameChain, SameAccount(st', st), lost' = lost, modal' = modal,
           LET fresh == /\ st'.deposits = ch.deposits
                        /\ st'.depositTotal = ch.deposits["AVAX"] + ch.deposits["USDC"]
           IN  \/ /\ ops[i].status = "soon" /\ next = "due"
                  /\ \/ fresh
                     \/ st'.deposits = st.deposits /\ st'.depositTotal = st.depositTotal
               \/ /\ ops[i].status = "due" /\ next = "pools" /\ ~OnAccount(Request_(i))
                  /\ st'.deposits = st.deposits /\ st'.depositTotal = st.depositTotal
               \/ ops[i].status = "pools" /\ next = "done" /\ (lost \/ fresh \/ PoolsComing')
    PROVE  IInv'
<1>1. Shapes /\ LoanIsKnown
  BY DEF IInv
<1>2. /\ next \in Statuses /\ ops[i].status \in Sent \cup {"pools"}
      /\ ops[i].status \notin Early \cup Looks
  BY DEF Statuses, Sent, Early, Looks
<1>3. Shapes'
  BY <1>1, <1>2, MovesShape DEF Shapes, SameChain, SameAccount
<1>4. LoanIsKnown'
  BY <1>1, <1>2, MovesLoan DEF SameChain, SameAccount
<1>5. ASSUME ~lost, Shown PROVE Shown'
  <2>1. \A stages \in Stages : "pools" \notin stages
    BY DEF Stages, BeforeBalances, BeforeDebts, BeforeStatus, BeforeFarm, Refreshing
  <2>2. \A stages \in Stages : Coming(stages) => Coming(stages)'
    BY <1>1, <2>1, MovesComing DEF Sent
  <2>3. \/ /\ PoolsComing => PoolsComing'
           /\ st'.deposits = st.deposits /\ st'.depositTotal = st.depositTotal
        \/ /\ st'.deposits = ch.deposits
           /\ st'.depositTotal = ch.deposits["AVAX"] + ch.deposits["USDC"]
        \/ PoolsComing'
    BY <1>1, <1>5, MovesPoolsComing DEF Sent
  <2>. QED BY <1>5, <2>2, <2>3 DEF Shown, SameChain, SameAccount, Stages
<1>6. ASSUME HeldIsTrue PROVE HeldIsTrue'
  <2>1. ASSUME NEW j \in DOMAIN ops', ops'[j].held # Unread
        PROVE  ops'[j].status \in Looks /\ (ops'[j].held = View(ch) \/ Overtaken(j)')
    <3>1. j # i
      BY <1>2, <1>6, <2>1 DEF HeldIsTrue, Looks
    <3>2. Overtaken(j) => Overtaken(j)'
      BY <1>1, MovesOvertaken DEF Sent
    <3>. QED BY <1>6, <2>1, <3>1, <3>2 DEF Moves, HeldIsTrue, Looks
  <2>. QED BY <2>1 DEF HeldIsTrue, SameChain, Looks
<1>. QED BY <1>3, <1>4, <1>5, <1>6 DEF IInv

LEMMA SoonKeeps == ASSUME IInv, NEW i \in DOMAIN ops, Soon(i) PROVE IInv'
<1>1. /\ ops[i].status = "soon" /\ Become(i, "due")
      /\ modal' = modal /\ lost' = lost /\ ch' = ch
  BY DEF Soon, At
<1>2. Shapes /\ DOMAIN st = StoreFields
  BY DEF IInv, Shapes
<1>3. Moves(i, "due") /\ ops'[i].held = ops[i].held /\ ops'[i].after = ops[i].after /\ SameChain
  BY <1>1, <1>2, BecomeMoves, ChainStays
<1> DEFINE pools == IF Request_(i).kind = "repay" THEN setupPools(st, ch.deposits) ELSE st
<1>4. /\ SameAccount(pools, st)
      /\ \/ /\ pools.deposits = ch.deposits
            /\ pools.depositTotal = ch.deposits["AVAX"] + ch.deposits["USDC"]
         \/ pools.deposits = st.deposits /\ pools.depositTotal = st.depositTotal
  <2>1. /\ SameAccount(setupPools(st, ch.deposits), st)
        /\ setupPools(st, ch.deposits).deposits = ch.deposits
        /\ setupPools(st, ch.deposits).depositTotal = ch.deposits["AVAX"] + ch.deposits["USDC"]
    BY <1>2, PoolsRead
  <2>2. SameAccount(st, st)
    BY <1>2 DEF SameAccount
  <2>3. CASE Request_(i).kind = "repay"
    BY <2>1, <2>3
  <2>4. CASE Request_(i).kind # "repay"
    BY <2>2, <2>4
  <2>. QED BY <2>3, <2>4
<1>5. st' = IF Request_(i).kind \in Paying THEN updateBalance(pools, ch.wallet) ELSE pools
  BY DEF Soon
<1> HIDE DEF pools
<1>6. /\ SameAccount(updateBalance(pools, ch.wallet), pools)
      /\ AccountOnly(updateBalance(pools, ch.wallet), pools)
  BY <1>4, BalanceRead DEF SameAccount
<1>7. /\ SameAccount(st', st)
      /\ st'.deposits = pools.deposits /\ st'.depositTotal = pools.depositTotal
  BY <1>4, <1>5, <1>6 DEF SameAccount, AccountOnly
<1>. QED BY <1>1, <1>3, <1>4, <1>7, LaterKeeps

LEMMA ReadPoolsKeeps == ASSUME IInv, NEW i \in DOMAIN ops, ReadPools(i) PROVE IInv'
<1>1. /\ ops[i].status = "due" /\ ~OnAccount(Request_(i))
      /\ ops' = [ops EXCEPT ![i].status = "pools", ![i].answer = ch.deposits]
      /\ modal' = modal /\ lost' = lost /\ ch' = ch /\ st' = st
  BY DEF ReadPools, At
<1>2. Shapes /\ DOMAIN st = StoreFields
  BY DEF IInv, Shapes
<1>3. Moves(i, "pools") /\ ops'[i].held = ops[i].held /\ ops'[i].after = ops[i].after /\ SameChain
  BY <1>1, <1>2, AnswerMoves, ChainStays
<1>4. SameAccount(st', st)
  BY <1>1, <1>2 DEF SameAccount
<1>. QED BY <1>1, <1>3, <1>4, LaterKeeps

\* What the pools answered is true, or another of their operations has yet to read them.
LEMMA CommitPoolsKeeps ==
    ASSUME IInv, Answers, NEW i \in DOMAIN ops, CommitPools(i)
    PROVE  IInv'
<1>1. /\ ops[i].status = "pools" /\ ops' = [ops EXCEPT ![i].status = "done", ![i].answer = NoAnswer]
      /\ modal' = modal /\ lost' = lost /\ ch' = ch /\ st' = setupPools(st, ops[i].answer)
  BY DEF CommitPools, At
<1>2. Shapes /\ DOMAIN st = StoreFields
  BY DEF IInv, Shapes
<1>3. Moves(i, "done") /\ ops'[i].held = ops[i].held /\ ops'[i].after = ops[i].after /\ SameChain
  BY <1>1, <1>2, AnswerMoves, ChainStays
<1>4. /\ SameAccount(st', st)
      /\ st'.deposits = ops[i].answer
      /\ st'.depositTotal = ops[i].answer["AVAX"] + ops[i].answer["USDC"]
  BY <1>1, <1>2, PoolsRead
<1>5. lost \/ ops[i].answer = ch.deposits \/ PoolsComing'
  <2>1. CASE PoolsOvertaken(i)
    <3>1. PICK k \in DOMAIN ops :
             ~OnAccount(Request_(k)) /\ ops[k].status \in {"mined", "soon", "due"}
      BY <2>1 DEF PoolsOvertaken
    <3>2. k \in DOMAIN ops' /\ ops'[k] = ops[k]
      BY <1>1, <1>3, <3>1 DEF Moves
    <3>. QED BY <3>1, <3>2 DEF PoolsComing, Request_, Sent
  <2>2. CASE ~PoolsOvertaken(i)
    BY <1>1, <2>2 DEF Answers, AnswerIsTrue
  <2>. QED BY <2>1, <2>2
<1>. QED BY <1>1, <1>3, <1>4, <1>5, LaterKeeps

LEMMA StartKeeps == ASSUME IInv, NEW i \in DOMAIN ops, StartRefresh(i) PROVE IInv'
<1>1. /\ ops[i].status = "due" /\ OnAccount(Request_(i)) /\ Become(i, "prices")
      /\ \A j \in ops[i].after : ops[j].status = "done"
      /\ modal' = modal /\ lost' = lost /\ ch' = ch /\ st' = setNoSmartLoan(st, FALSE)
  BY DEF StartRefresh, At
<1>2. Shapes /\ LoanIsKnown /\ DOMAIN st = StoreFields
  BY DEF IInv, Shapes
<1>3. Moves(i, "prices") /\ ops'[i].held = ops[i].held /\ SameChain
  BY <1>1, <1>2, BecomeMoves, ChainStays
<1>4. /\ DOMAIN st' = StoreFields /\ ~st'.noLoan /\ st'.noLoan \in BOOLEAN
      /\ st'.deposits = st.deposits /\ st'.depositTotal = st.depositTotal
  BY <1>1, <1>2 DEF setNoSmartLoan, setupAvailable, StoreFields
<1>5. ch.loan
  BY <1>1, <1>2 DEF LoanIsKnown, Early
<1>6. "prices" \in Statuses
  BY DEF Statuses, Refreshing
<1>7. Shapes'
  BY <1>1, <1>2, <1>3, <1>4, <1>6, MovesShape DEF Shapes, SameChain
<1>8. LoanIsKnown'
  BY <1>1, <1>2, <1>3, <1>4, <1>5, MovesLoan DEF SameChain
<1>9. ASSUME Shown PROVE Shown'
  <2>1. \A stages \in Stages \ {{}} : Coming(stages)'
    <3>1. i \in DOMAIN ops' /\ OnAccount(ops'[i].req) /\ ops'[i].status = "prices"
      BY <1>1, <1>3 DEF Moves, OnAccount, Request_
    <3>2. \A stages \in Stages \ {{}} : "prices" \in stages
      BY DEF Stages, BeforeBalances, BeforeDebts, BeforeStatus, BeforeFarm, Refreshing
    <3>. QED BY <3>1, <3>2 DEF Coming, Request_
  <2>2. \A stages \in Stages \ {{}} : stages # {}
    OBVIOUS
  <2>3. /\ Coming(BeforeBalances)' /\ Coming(BeforeDebts)' /\ Coming(BeforeStatus)'
        /\ Coming(BeforeFarm)' /\ Coming(Refreshing)'
    BY <2>1 DEF Stages, BeforeBalances, BeforeDebts, BeforeStatus, BeforeFarm, Refreshing
  <2>4. PoolsComing => PoolsComing'
    BY <1>1, <1>2, <1>3, MovesPoolsComing
  <2>. QED BY <1>3, <1>4, <1>5, <1>9, <2>3, <2>4 DEF Shown, SameChain
<1>10. ASSUME HeldIsTrue PROVE HeldIsTrue'
  <2>1. ASSUME NEW j \in DOMAIN ops', ops'[j].held # Unread
        PROVE  ops'[j].status \in Looks /\ (ops'[j].held = View(ch) \/ Overtaken(j)')
    <3>1. j # i
      BY <1>1, <1>3, <1>10, <2>1 DEF HeldIsTrue
    <3>2. ops'[j] = ops[j] /\ j \in DOMAIN ops
      BY <1>3, <3>1 DEF Moves
    <3>3. ops[j].status \in Looks
      BY <1>10, <2>1, <3>2 DEF HeldIsTrue, Looks
    <3>4. j \notin ops[i].after
      BY <1>1, <3>3 DEF Looks
    <3>5. Overtaken(j) => Overtaken(j)'
      BY <1>1, <1>2, <1>3, <3>4, MovesOvertaken
    <3>. QED BY <1>10, <2>1, <3>2, <3>3, <3>5 DEF HeldIsTrue
  <2>. QED BY <1>3, <2>1 DEF HeldIsTrue, SameChain, Looks
<1>. QED BY <1>1, <1>7, <1>8, <1>9, <1>10 DEF IInv

-----------------------------------------------------------------------------
(* The commits of a refresh *)

\* A step of a refresh keeps the invariant if it leaves what is shown true.
LEMMA StepOfRefresh ==
    ASSUME IInv, NEW i \in DOMAIN ops, NEW next \in Refreshing \cup {"done"}, Moves(i, next),
           ops[i].status \in Refreshing, ops'[i].held = Unread,
           SameChain, AccountOnly(st', st), lost' = lost,
           "kind" \in DOMAIN modal', modal'.kind = modal.kind,
           lost \/ Shown'
    PROVE  IInv'
<1>1. Shapes /\ LoanIsKnown
  BY DEF IInv
<1>2. next \in Statuses /\ ops[i].status \notin Early \cup Sent
  BY DEF Statuses, Early, Sent, Refreshing
<1>3. Shapes'
  BY <1>1, <1>2, MovesShape DEF Shapes, SameChain, AccountOnly
<1>4. LoanIsKnown'
  BY <1>1, <1>2, MovesLoan DEF SameChain, AccountOnly
<1>5. ASSUME HeldIsTrue PROVE HeldIsTrue'
  <2>1. ASSUME NEW j \in DOMAIN ops', ops'[j].held # Unread
        PROVE  ops'[j].status \in Looks /\ (ops'[j].held = View(ch) \/ Overtaken(j)')
    <3>1. Overtaken(j) => Overtaken(j)'
      BY <1>1, <1>2, MovesOvertaken
    <3>. QED BY <1>5, <2>1, <3>1 DEF Moves, HeldIsTrue, Looks
  <2>. QED BY <2>1 DEF HeldIsTrue, SameChain, Looks
<1>. QED BY <1>3, <1>4, <1>5 DEF IInv

\* What is committed is true, or another refresh is to come.
LEMMA HeldOrComing ==
    ASSUME IInv, ~lost, NEW i \in DOMAIN ops, ops[i].held # Unread, NEW next, Moves(i, next)
    PROVE  ops[i].held = View(ch) \/ \A stages \in Stages : Coming(stages)'
<1>1. HeldIsTrue
  BY DEF IInv
<1>2. CASE Overtaken(i)
  <2>1. PICK k \in DOMAIN ops : OnAccount(Request_(k)) /\ ops[k].status \in {"mined", "soon", "due"}
    BY <1>2 DEF Overtaken
  <2>2. k # i
    BY <1>1, <2>1 DEF HeldIsTrue
  <2>3. k \in DOMAIN ops' /\ OnAccount(ops'[k].req) /\ ops'[k].status \in Sent
    BY <2>1, <2>2 DEF Moves, Request_, Sent
  <2>. QED BY <2>3 DEF Coming, Request_
<1>. QED BY <1>1, <1>2 DEF HeldIsTrue

LEMMA CommitSteps ==
    ASSUME IInv, NEW i \in DOMAIN ops, NEW status \in Looks, NEW next, NEW store,
           Commit(i, status, next, store)
    PROVE  /\ ops[i].status = status /\ ops[i].held # Unread
           /\ Moves(i, next) /\ ops'[i].held = Unread
           /\ st' = store /\ ch' = ch /\ lost' = lost /\ SameChain
<1>1. /\ ops[i].status = status /\ ops[i].held # Unread
      /\ ops' = [ops EXCEPT ![i].status = next, ![i].held = Unread]
      /\ st' = store /\ ch' = ch /\ lost' = lost
  BY DEF Commit, At
<1>2. Shapes
  BY DEF IInv
<1>. QED BY <1>1, <1>2, CommitMoves, ChainStays

\* The part of the stores that a commit does not touch stays as true as it was.
LEMMA StillComing ==
    ASSUME IInv, NEW i \in DOMAIN ops, NEW next, Moves(i, next),
           ops[i].status \in Refreshing
    PROVE  /\ \A stages \in Stages :
                 (ops[i].status \in stages => next \in stages) => (Coming(stages) => Coming(stages)')
           /\ PoolsComing => PoolsComing'
<1>1. Shapes /\ ops[i].status \notin Sent \cup {"pools"}
  BY DEF IInv, Sent, Refreshing
<1>. QED BY <1>1, MovesComing, MovesPoolsComing

LEMMA OpenKeepsKind ==
    ASSUME Shapes
    PROVE  LET n == [modal EXCEPT !.live = FALSE] IN "kind" \in DOMAIN n /\ n.kind = modal.kind
BY DEF Shapes

LEMMA CommitBalancesKeeps == ASSUME IInv, NEW i \in DOMAIN ops, CommitBalances(i) PROVE IInv'
<1>1. /\ Commit(i, "balances", "debts", getAllAssetsBalances(st, ops[i].held))
      /\ modal' = [modal EXCEPT !.live = FALSE]
  BY DEF CommitBalances
<1>2. /\ ops[i].status = "balances" /\ ops[i].held # Unread
      /\ Moves(i, "debts") /\ ops'[i].held = Unread
      /\ st' = getAllAssetsBalances(st, ops[i].held) /\ ch' = ch /\ lost' = lost /\ SameChain
  BY <1>1, CommitSteps DEF Looks
<1>3. Shapes
  BY DEF IInv
<1>4. /\ AccountOnly(st', st)
      /\ st'.debt = st.debt /\ st'.header = st.header /\ st'.health = st.health
      /\ st'.farm = st.farm /\ st'.staked = st.staked /\ st'.total = st.total
      /\ st'.bal = ops[i].held.bal /\ (~st'.noLoan => st'.available = st'.bal[LP])
  BY <1>2, <1>3 DEF getAllAssetsBalances, watchAssetBalancesDataRefreshEvent, setupAvailable,
                    AccountOnly, Shapes, StoreFields
<1>5. ASSUME ~lost PROVE Shown'
  <2>1. Shown
    BY <1>5 DEF IInv
  <2>2. /\ \A stages \in Stages \ {BeforeBalances} : Coming(stages) => Coming(stages)'
        /\ PoolsComing => PoolsComing'
    BY <1>2, StillComing DEF Stages, BeforeBalances, BeforeDebts, BeforeStatus, BeforeFarm, Refreshing
  <2>3. ops[i].held = View(ch) \/ \A stages \in Stages : Coming(stages)'
    BY <1>2, <1>5, HeldOrComing
  <2>4. Coming(BeforeBalances)' \/ st'.bal = ch.bal
    BY <1>4, <2>3 DEF View, Stages
  <2>5. \A stages \in {{}, BeforeDebts, BeforeStatus, BeforeFarm, Refreshing} : stages # BeforeBalances
    BY DEF BeforeBalances, BeforeDebts, BeforeStatus, BeforeFarm, Refreshing
  <2>6. \A stages \in {{}, BeforeDebts, BeforeStatus, BeforeFarm, Refreshing} :
           Coming(stages) => Coming(stages)'
    BY <2>2, <2>5 DEF Stages
  <2>. QED BY <1>2, <1>4, <2>1, <2>2, <2>4, <2>6 DEF Shown, SameChain, AccountOnly
<1>6. "debts" \in Refreshing /\ "balances" \in Refreshing
  BY DEF Refreshing
<1>. QED BY <1>1, <1>2, <1>3, <1>4, <1>5, <1>6, OpenKeepsKind, StepOfRefresh

LEMMA CommitDebtsKeeps == ASSUME IInv, NEW i \in DOMAIN ops, CommitDebts(i) PROVE IInv'
<1>1. /\ Commit(i, "debts", "status", getDebtsPerAsset(st, ops[i].held))
      /\ modal' = [modal EXCEPT !.live = FALSE]
  BY DEF CommitDebts
<1>2. /\ ops[i].status = "debts" /\ ops[i].held # Unread
      /\ Moves(i, "status") /\ ops'[i].held = Unread
      /\ st' = getDebtsPerAsset(st, ops[i].held) /\ ch' = ch /\ lost' = lost /\ SameChain
  BY <1>1, CommitSteps DEF Looks
<1>3. Shapes
  BY DEF IInv
<1>4. /\ AccountOnly(st', st)
      /\ st'.bal = st.bal /\ st'.available = st.available
      /\ st'.header = st.header /\ st'.health = st.health
      /\ st'.farm = st.farm /\ st'.staked = st.staked /\ st'.total = st.total
      /\ st'.debt = ops[i].held.debt
  BY <1>2, <1>3 DEF getDebtsPerAsset, AccountOnly, Shapes, StoreFields
<1>5. ASSUME ~lost PROVE Shown'
  <2>1. Shown
    BY <1>5 DEF IInv
  <2>2. /\ \A stages \in Stages \ {BeforeDebts} : Coming(stages) => Coming(stages)'
        /\ PoolsComing => PoolsComing'
    BY <1>2, StillComing DEF Stages, BeforeBalances, BeforeDebts, BeforeStatus, BeforeFarm, Refreshing
  <2>3. ops[i].held = View(ch) \/ \A stages \in Stages : Coming(stages)'
    BY <1>2, <1>5, HeldOrComing
  <2>4. Coming(BeforeDebts)' \/ st'.debt = ch.debt
    BY <1>4, <2>3 DEF View, Stages
  <2>5. \A stages \in {{}, BeforeBalances, BeforeStatus, BeforeFarm, Refreshing} : stages # BeforeDebts
    BY DEF BeforeBalances, BeforeDebts, BeforeStatus, BeforeFarm, Refreshing
  <2>6. \A stages \in {{}, BeforeBalances, BeforeStatus, BeforeFarm, Refreshing} :
           Coming(stages) => Coming(stages)'
    BY <2>2, <2>5 DEF Stages
  <2>. QED BY <1>2, <1>4, <2>1, <2>2, <2>4, <2>6 DEF Shown, SameChain, AccountOnly
<1>6. "status" \in Refreshing /\ "debts" \in Refreshing
  BY DEF Refreshing
<1>. QED BY <1>1, <1>2, <1>3, <1>4, <1>5, <1>6, OpenKeepsKind, StepOfRefresh

LEMMA CommitStatusKeeps == ASSUME IInv, NEW i \in DOMAIN ops, CommitStatus(i) PROVE IInv'
<1>1. Commit(i, "status", "farm", getFullLoanStatus(st, ops[i].held)) /\ modal' = modal
  BY DEF CommitStatus
<1>2. /\ ops[i].status = "status" /\ ops[i].held # Unread
      /\ Moves(i, "farm") /\ ops'[i].held = Unread
      /\ st' = getFullLoanStatus(st, ops[i].held) /\ ch' = ch /\ lost' = lost /\ SameChain
  BY <1>1, CommitSteps DEF Looks
<1>3. Shapes /\ "kind" \in DOMAIN modal
  BY DEF IInv, Shapes
<1>4. /\ AccountOnly(st', st)
      /\ st'.bal = st.bal /\ st'.available = st.available
      /\ st'.debt = st.debt /\ st'.health = st.health
      /\ st'.farm = st.farm /\ st'.staked = st.staked /\ st'.total = st.total
      /\ st'.header = Header(ops[i].held)
  BY <1>2, <1>3 DEF getFullLoanStatus, updateLoanStatus, AccountOnly, Shapes, StoreFields
<1>5. ASSUME ~lost PROVE Shown'
  <2>1. Shown
    BY <1>5 DEF IInv
  <2>2. /\ \A stages \in Stages \ {BeforeStatus} : Coming(stages) => Coming(stages)'
        /\ PoolsComing => PoolsComing'
    BY <1>2, StillComing DEF Stages, BeforeBalances, BeforeDebts, BeforeStatus, BeforeFarm, Refreshing
  <2>3. ops[i].held = View(ch) \/ \A stages \in Stages : Coming(stages)'
    BY <1>2, <1>5, HeldOrComing
  <2>4. Coming(BeforeStatus)' \/ st'.header = Header(View(ch))
    BY <1>4, <2>3 DEF Stages
  <2>5. \A stages \in {{}, BeforeBalances, BeforeDebts, BeforeFarm, Refreshing} : stages # BeforeStatus
    BY DEF BeforeBalances, BeforeDebts, BeforeStatus, BeforeFarm, Refreshing
  <2>6. \A stages \in {{}, BeforeBalances, BeforeDebts, BeforeFarm, Refreshing} :
           Coming(stages) => Coming(stages)'
    BY <2>2, <2>5 DEF Stages
  <2>. QED BY <1>2, <1>4, <2>1, <2>2, <2>4, <2>6 DEF Shown, SameChain, AccountOnly
<1>6. "farm" \in Refreshing /\ "status" \in Refreshing
  BY DEF Refreshing
<1>. QED BY <1>1, <1>2, <1>3, <1>4, <1>5, <1>6, StepOfRefresh

LEMMA CommitFarmKeeps == ASSUME IInv, NEW i \in DOMAIN ops, CommitFarm(i) PROVE IInv'
<1>1. Commit(i, "farm", "health", updateStakedBalances(st, ops[i].held)) /\ modal' = modal
  BY DEF CommitFarm
<1>2. /\ ops[i].status = "farm" /\ ops[i].held # Unread
      /\ Moves(i, "health") /\ ops'[i].held = Unread
      /\ st' = updateStakedBalances(st, ops[i].held) /\ ch' = ch /\ lost' = lost /\ SameChain
  BY <1>1, CommitSteps DEF Looks
<1>3. Shapes /\ "kind" \in DOMAIN modal
  BY DEF IInv, Shapes
<1>4. /\ AccountOnly(st', st)
      /\ st'.bal = st.bal /\ st'.available = st.available
      /\ st'.debt = st.debt /\ st'.header = st.header /\ st'.health = st.health
      /\ st'.farm = ops[i].held.farm /\ st'.staked = st'.farm /\ st'.total = st'.farm
  BY <1>2, <1>3 DEF updateStakedBalances, watchFarmRefreshEvent, AccountOnly, Shapes, StoreFields
<1>5. ASSUME ~lost PROVE Shown'
  <2>1. Shown
    BY <1>5 DEF IInv
  <2>2. /\ \A stages \in Stages \ {BeforeFarm} : Coming(stages) => Coming(stages)'
        /\ PoolsComing => PoolsComing'
    BY <1>2, StillComing DEF Stages, BeforeBalances, BeforeDebts, BeforeStatus, BeforeFarm, Refreshing
  <2>3. ops[i].held = View(ch) \/ \A stages \in Stages : Coming(stages)'
    BY <1>2, <1>5, HeldOrComing
  <2>4. Coming(BeforeFarm)' \/ st'.farm = ch.farm
    BY <1>4, <2>3 DEF View, Stages
  <2>5. \A stages \in {{}, BeforeBalances, BeforeDebts, BeforeStatus, Refreshing} : stages # BeforeFarm
    BY DEF BeforeBalances, BeforeDebts, BeforeStatus, BeforeFarm, Refreshing
  <2>6. \A stages \in {{}, BeforeBalances, BeforeDebts, BeforeStatus, Refreshing} :
           Coming(stages) => Coming(stages)'
    BY <2>2, <2>5 DEF Stages
  <2>. QED BY <1>2, <1>4, <2>1, <2>2, <2>4, <2>6 DEF Shown, SameChain, AccountOnly
<1>6. "health" \in Refreshing /\ "farm" \in Refreshing
  BY DEF Refreshing
<1>. QED BY <1>1, <1>2, <1>3, <1>4, <1>5, <1>6, StepOfRefresh

\* The health is weighed after everything it is made of has been committed: unless
\* another refresh is under way the tables show the account.
LEMMA WeighKeeps == ASSUME IInv, NEW i \in DOMAIN ops, Weigh(i) PROVE IInv'
<1>1. /\ ops[i].status = "health" /\ Become(i, "done")
      /\ modal' = modal /\ lost' = lost /\ ch' = ch /\ st' = watchHealthRefresh(st)
  BY DEF Weigh, At
<1>2. Shapes /\ LoanIsKnown /\ "kind" \in DOMAIN modal /\ DOMAIN st = StoreFields
  BY DEF IInv, Shapes
<1>3. Moves(i, "done") /\ ops'[i].held = ops[i].held /\ SameChain
  BY <1>1, <1>2, BecomeMoves, ChainStays
<1>4. /\ AccountOnly(st', st)
      /\ st'.bal = st.bal /\ st'.available = st.available
      /\ st'.debt = st.debt /\ st'.header = st.header
      /\ st'.farm = st.farm /\ st'.staked = st.staked /\ st'.total = st.total
      /\ st'.health = HealthOf(st.noLoan, View(st))
  BY <1>1, <1>2 DEF watchHealthRefresh, AccountOnly, StoreFields
<1>5. ASSUME ~lost PROVE Shown' /\ ops'[i].held = Unread
  <2>1. Shown /\ HeldIsTrue
    BY <1>5 DEF IInv
  <2>2. /\ \A stages \in Stages \ {Refreshing} : Coming(stages) => Coming(stages)'
        /\ PoolsComing => PoolsComing'
    BY <1>1, <1>3, StillComing DEF Stages, BeforeBalances, BeforeDebts, BeforeStatus, BeforeFarm, Refreshing
  <2>3. \A stages \in {{}, BeforeBalances, BeforeDebts, BeforeStatus, BeforeFarm} : stages # Refreshing
    BY DEF BeforeBalances, BeforeDebts, BeforeStatus, BeforeFarm, Refreshing
  <2>4. \A stages \in {{}, BeforeBalances, BeforeDebts, BeforeStatus, BeforeFarm} :
           Coming(stages) => Coming(stages)'
    BY <2>2, <2>3 DEF Stages
  <2>5. Coming({}) \/ Coming(BeforeBalances) \/ Coming(BeforeDebts) => Coming(BeforeFarm)
    BY DEF Coming, BeforeBalances, BeforeDebts, BeforeStatus, BeforeFarm
  <2>6. Coming(BeforeFarm)' => Coming(Refreshing)'
    BY DEF Coming, BeforeBalances, BeforeDebts, BeforeStatus, BeforeFarm, Refreshing
  <2>7. CASE Coming(BeforeFarm)
    <3>1. Coming(Refreshing)'
      BY <2>4, <2>6, <2>7
    <3>. QED BY <1>1, <1>3, <1>4, <2>1, <2>2, <2>4, <3>1 DEF Shown, SameChain, AccountOnly, HeldIsTrue
  <2>8. CASE ~Coming(BeforeFarm)
    <3>1. /\ (st.noLoan <=> ~ch.loan) /\ st.bal = ch.bal /\ st.debt = ch.debt /\ st.farm = ch.farm
      BY <2>1, <2>5, <2>8 DEF Shown
    <3>2. View(st) = View(ch)
      BY <3>1 DEF View
    <3>3. st'.health = calculateHealth(View(ch))
      <4>1. CASE st.noLoan
        BY <1>2, <1>4, <3>1, <3>2, <4>1, EmptyHealth DEF HealthOf, LoanIsKnown
      <4>2. CASE ~st.noLoan
        BY <1>4, <3>2, <4>2 DEF HealthOf
      <4>. QED BY <4>1, <4>2
    <3>. QED BY <1>1, <1>3, <1>4, <2>1, <2>2, <2>4, <3>3 DEF Shown, SameChain, AccountOnly, HeldIsTrue
  <2>. QED BY <2>7, <2>8
<1>6. "done" \in Refreshing \cup {"done"} /\ "health" \in Refreshing
  BY DEF Refreshing
<1>7. CASE ~lost
  BY <1>1, <1>2, <1>3, <1>4, <1>5, <1>6, <1>7, StepOfRefresh
<1>8. CASE lost
  <2>1. Shapes'
    BY <1>1, <1>2, <1>3, <1>4, MovesShape DEF Shapes, SameChain, AccountOnly, Statuses, Early
  <2>2. LoanIsKnown'
    BY <1>1, <1>2, <1>3, <1>4, MovesLoan DEF SameChain, AccountOnly, Early
  <2>. QED BY <1>1, <1>8, <2>1, <2>2 DEF IInv
<1>. QED BY <1>7, <1>8

-----------------------------------------------------------------------------
(* The user *)

\* What changes modals, and at most the wallet's balance in the stores.
LEMMA InputKeeps ==
    ASSUME IInv, ops' = ops, ch' = ch, lost' = lost,
           SameAccount(st', st), AccountOnly(st', st),
           "kind" \in DOMAIN modal', modal'.kind \in ModalKinds,
           modal'.kind \notin {"none", "add"} \cup OfThePools => ~st.noLoan
    PROVE  IInv'
<1>1. Shapes /\ LoanIsKnown
  BY DEF IInv
<1>2. Shapes'
  BY <1>1 DEF Shapes, Request_, AccountOnly
<1>3. LoanIsKnown'
  BY <1>1 DEF LoanIsKnown, Request_, AccountOnly, View
<1>4. /\ \A stages : Coming(stages) => Coming(stages)'
      /\ PoolsComing => PoolsComing'
  <2>1. \A stages : Coming(stages) => Coming(stages)'
    BY DEF Coming, Request_
  <2>2. PoolsComing => PoolsComing'
    BY DEF PoolsComing, Request_
  <2>. QED BY <2>1, <2>2
<1>5. Shown => Shown'
  BY <1>4 DEF Shown, SameAccount, AccountOnly, View
<1>6. HeldIsTrue => HeldIsTrue'
  <2> SUFFICES ASSUME HeldIsTrue, NEW j \in DOMAIN ops', ops'[j].held # Unread
               PROVE  /\ ops'[j].status \in {"balances", "debts", "status", "farm"}
                      /\ ops'[j].held = View(ch)' \/ Overtaken(j)'
    BY DEF HeldIsTrue
  <2>1. View(ch)' = View(ch)
    OBVIOUS
  <2>2. Overtaken(j) => Overtaken(j)'
    BY DEF Overtaken, Request_
  <2>. QED BY <2>1, <2>2 DEF HeldIsTrue
<1>. QED BY <1>2, <1>3, <1>5, <1>6 DEF IInv

LEMMA StoreStays == ASSUME Shapes PROVE SameAccount(st, st) /\ AccountOnly(st, st)
BY DEF Shapes, SameAccount, AccountOnly

LEMMA ModalKeeps ==
    ASSUME IInv, ops' = ops, ch' = ch, lost' = lost, st' = st,
           SameModal(modal', modal) \/ modal' = NoModal
    PROVE  IInv'
<1>1. Shapes /\ LoanIsKnown
  BY DEF IInv
<1>2. SameAccount(st', st) /\ AccountOnly(st', st)
  BY <1>1, StoreStays
<1>3. /\ "kind" \in DOMAIN modal' /\ modal'.kind \in ModalKinds
      /\ modal'.kind \notin {"none", "add"} \cup OfThePools => ~st.noLoan
  BY <1>1, NoModalShape DEF Shapes, LoanIsKnown, SameModal, ModalKinds
<1>. QED BY <1>2, <1>3, InputKeeps

LEMMA OpenKeeps == ASSUME IInv, OpenModal PROVE IInv'
<1>1. Shapes
  BY DEF IInv
<1>2. PICK m \in Openable(st, ch, enabled) :
         /\ modal' = m
         /\ st' = IF m.kind = "add" /\ m.token # LP THEN updateBalance(st, ch.wallet) ELSE st
  BY DEF OpenModal
<1>3. SameAccount(updateBalance(st, ch.wallet), st) /\ AccountOnly(updateBalance(st, ch.wallet), st)
  BY <1>1, BalanceRead DEF Shapes
<1>4. SameAccount(st', st) /\ AccountOnly(st', st)
  BY <1>1, <1>2, <1>3, StoreStays
<1>5. /\ "kind" \in DOMAIN modal' /\ modal'.kind \in ModalKinds
      /\ modal'.kind \notin {"none", "add"} \cup OfThePools => ~st.noLoan
  BY <1>2, OpenableKinds
<1>6. ops' = ops /\ ch' = ch /\ lost' = lost
  BY DEF OpenModal
<1>. QED BY <1>4, <1>5, <1>6, InputKeeps

LEMMA TypingKeeps ==
    ASSUME IInv, TypeValue \/ PressMax \/ Toggle \/ ChangeSwap \/ RouterAnswers \/ CloseByHand
    PROVE  IInv'
<1>1. "kind" \in DOMAIN modal
  BY DEF IInv, Shapes
<1>2. ops' = ops /\ ch' = ch /\ lost' = lost /\ st' = st
  BY DEF TypeValue, PressMax, Toggle, ChangeSwap, RouterAnswers, CloseByHand
<1>3. SameModal(modal', modal) \/ modal' = NoModal
  BY <1>1, InputKeepsKind, SwapKeepsKind
  DEF TypeValue, PressMax, Toggle, ChangeSwap, RouterAnswers, CloseByHand
<1>. QED BY <1>2, <1>3, ModalKeeps

LEMMA Appended ==
    ASSUME NEW S, NEW s \in Seq(S), NEW x
    PROVE  /\ Append(s, x) \in Seq(S \cup {x})
           /\ DOMAIN Append(s, x) = DOMAIN s \cup {Len(s) + 1}
           /\ Append(s, x)[Len(s) + 1] = x
           /\ \A j \in DOMAIN s : Append(s, x)[j] = s[j]
<1>1. s \in Seq(S \cup {x}) /\ Len(s) \in Nat /\ DOMAIN s = 1 .. Len(s)
  OBVIOUS
<1>2. Append(s, x) \in Seq(S \cup {x}) /\ Len(Append(s, x)) = Len(s) + 1
  BY <1>1
<1>. QED BY <1>1, <1>2

LEMMA SubmitKeeps == ASSUME IInv, Submit PROVE IInv'
<1>1. Shapes /\ LoanIsKnown
  BY DEF IInv
<1>2. /\ modal.kind # "none" /\ modal' = [modal EXCEPT !.busy = TRUE]
      /\ ops' = IF Heard(modal) THEN Append(ops, Operation(modal, st)) ELSE ops
      /\ ch' = ch /\ lost' = lost /\ st' = st
  BY DEF Submit
<1>3. SameModal(modal', modal)
  BY <1>1, <1>2 DEF SameModal, Shapes
<1>4. CASE ~Heard(modal)
  BY <1>2, <1>3, <1>4, ModalKeeps
<1>5. CASE Heard(modal)
  <2> DEFINE o == Operation(modal, st)
             n == Len(ops) + 1
  <2>1. /\ DOMAIN RequestOf(modal, st) = RequestFields
        /\ RequestOf(modal, st).kind \in OfThePools \cup OfTheAccount
        /\ RequestOf(modal, st).kind \in OfTheAccount \ {"create"} => ~st.noLoan
    BY <1>1, <1>2, <1>5, RequestShape DEF Heard, Shapes, LoanIsKnown
  <2>2. /\ DOMAIN o = OperationFields /\ o.req = RequestOf(modal, st)
        /\ o.status = "asked" /\ o.held = Unread
    BY DEF Operation, OperationFields
  <2>3. PICK S : ops \in Seq(S)
    BY <1>1 DEF Shapes
  <2> HIDE DEF o
  <2>4. /\ ops' \in Seq(S \cup {o}) /\ DOMAIN ops' = DOMAIN ops \cup {n}
        /\ ops'[n] = o /\ \A j \in DOMAIN ops : ops'[j] = ops[j]
    BY <1>2, <1>5, <2>3, Appended DEF o
  <2> HIDE DEF n
  <2>5. Shapes'
    <3>1. ASSUME NEW j \in DOMAIN ops'
          PROVE  /\ DOMAIN ops'[j] = OperationFields /\ ops'[j].status \in Statuses
                 /\ DOMAIN ops'[j].req = RequestFields
                 /\ ops'[j].req.kind \in OfThePools \cup OfTheAccount
      BY <1>1, <2>1, <2>2, <2>4, <3>1 DEF Shapes, Request_, Statuses, Early
    <3>2. \E T : ops' \in Seq(T)
      BY <2>4
    <3>. QED BY <1>1, <1>2, <1>3, <3>1, <3>2 DEF Shapes, Request_, SameModal
  <2>6. LoanIsKnown'
    <3>1. ASSUME NEW j \in DOMAIN ops', OnAccount(ops'[j].req),
                 ops'[j].req.kind # "create" \/ ops'[j].status \notin Early
          PROVE  ch'.loan
      <4>1. CASE j \in DOMAIN ops
        BY <1>1, <1>2, <2>4, <3>1, <4>1 DEF LoanIsKnown, Request_
      <4>2. CASE j = n
        BY <1>1, <1>2, <2>1, <2>2, <2>4, <3>1, <4>2, OfTheAccountOrNot DEF LoanIsKnown, Early
      <4>. QED BY <2>4, <4>1, <4>2
    <3>2. View(ch)' = View(ch)
      BY <1>2
    <3>. QED BY <1>1, <1>2, <1>3, <3>1, <3>2 DEF LoanIsKnown, Request_, SameModal
  <2>7. /\ \A stages : Coming(stages) => Coming(stages)'
        /\ PoolsComing => PoolsComing'
    <3>1. \A stages : Coming(stages) => Coming(stages)'
      BY <2>4 DEF Coming, Request_
    <3>2. PoolsComing => PoolsComing'
      BY <2>4 DEF PoolsComing, Request_
    <3>. QED BY <3>1, <3>2
  <2>8. Shown => Shown'
    BY <1>2, <2>7 DEF Shown
  <2>9. HeldIsTrue => HeldIsTrue'
    <3> SUFFICES ASSUME HeldIsTrue, NEW j \in DOMAIN ops', ops'[j].held # Unread
                 PROVE  /\ ops'[j].status \in {"balances", "debts", "status", "farm"}
                        /\ ops'[j].held = View(ch)' \/ Overtaken(j)'
      BY DEF HeldIsTrue
    <3>1. j \in DOMAIN ops /\ ops'[j] = ops[j]
      BY <2>2, <2>4
    <3>2. View(ch)' = View(ch)
      BY <1>2
    <3>3. Overtaken(j) => Overtaken(j)'
      BY <2>4 DEF Overtaken, Request_
    <3>. QED BY <3>1, <3>2, <3>3 DEF HeldIsTrue
  <2>. QED BY <1>2, <2>5, <2>6, <2>8, <2>9 DEF IInv
<1>. QED BY <1>4, <1>5

-----------------------------------------------------------------------------
(* The answers of the pools *)

LEMMA InitAnswers == Init => Answers
<1>. QED BY DEF Init, Answers, AnswerIsTrue

LEMMA MovesPoolsOvertaken ==
    ASSUME Shapes, NEW i \in DOMAIN ops, NEW next, Moves(i, next), NEW j,
           \/ ops[i].status \notin Sent \/ OnAccount(Request_(i))
           \/ ops[i].status = "soon" /\ next = "due" /\ ops'[i].after = ops[i].after
           \/ next \in {"soon", "due"} /\ j \in ops'[i].after
           \/ ops[i].status # "mined" /\ j \notin ops[i].after
    PROVE  PoolsOvertaken(j) => PoolsOvertaken(j)'
<1> SUFFICES ASSUME NEW k \in DOMAIN ops, ~OnAccount(Request_(k)),
                    \/ ops[k].status = "mined"
                    \/ ops[k].status \in {"soon", "due"} /\ j \in ops[k].after
             PROVE  PoolsOvertaken(j)'
  BY DEF PoolsOvertaken
<1>1. /\ k \in DOMAIN ops' /\ ~OnAccount(ops'[k].req)
      /\ \/ ops'[k].status = "mined"
         \/ ops'[k].status \in {"soon", "due"} /\ j \in ops'[k].after
  BY DEF Moves, OnAccount, Request_, Sent
<1>. QED BY <1>1 DEF PoolsOvertaken, Request_

\* An operation that goes on without asking the pools.
LEMMA AnswersMove ==
    ASSUME Shapes, Answers, NEW i \in DOMAIN ops, NEW next, Moves(i, next), next # "pools",
           lost => lost',
           \/ /\ ch'.deposits = ch.deposits
              /\ \/ ops[i].status \notin Sent \/ OnAccount(Request_(i))
                 \/ ops[i].status = "soon" /\ next = "due" /\ ops'[i].after = ops[i].after
                 \/ next = "soon" /\ ops'[i].after = RefreshesRunning(Request_(i))
           \/ ~OnAccount(Request_(i)) /\ next = "mined"
    PROVE  Answers'
<1> SUFFICES ASSUME AnswerIsTrue, NEW j \in DOMAIN ops', ops'[j].status = "pools"
             PROVE  ops'[j].answer = ch'.deposits \/ PoolsOvertaken(j)'
  BY DEF Answers, AnswerIsTrue
<1>1. j \in DOMAIN ops /\ ops'[j] = ops[j] /\ (ops[j].answer = ch.deposits \/ PoolsOvertaken(j))
  BY DEF Moves, AnswerIsTrue
<1>2. CASE ~OnAccount(Request_(i)) /\ next = "mined"
  <2>1. i \in DOMAIN ops' /\ ~OnAccount(ops'[i].req) /\ ops'[i].status = "mined"
    BY <1>2 DEF Moves, OnAccount, Request_
  <2>. QED BY <2>1 DEF PoolsOvertaken, Request_
<1>3. CASE ~(~OnAccount(Request_(i)) /\ next = "mined")
  <2>1. ~OnAccount(Request_(i)) => j \in RefreshesRunning(Request_(i))
    BY <1>1 DEF RefreshesRunning
  <2>2. PoolsOvertaken(j) => PoolsOvertaken(j)'
    BY <1>3, <2>1, MovesPoolsOvertaken
  <2>. QED BY <1>1, <1>3, <2>2
<1>. QED BY <1>2, <1>3

\* An operation that asks them waits for those who asked before its transaction.
LEMMA AnswersRead == ASSUME IInv, Answers, NEW i \in DOMAIN ops, ReadPools(i) PROVE Answers'
<1>1. /\ ops[i].status = "due" /\ \A j \in ops[i].after : ops[j].status = "done"
      /\ ops' = [ops EXCEPT ![i].status = "pools", ![i].answer = ch.deposits]
      /\ lost' = lost /\ ch' = ch
  BY DEF ReadPools, At
<1>2. Shapes
  BY DEF IInv
<1>0. lost' = lost /\ ops' = [ops EXCEPT ![i].status = "pools", ![i].answer = ch.deposits]
  BY <1>1
<1>3. Moves(i, "pools") /\ ops'[i].answer = ch.deposits
  BY <1>0, <1>2, AnswerMoves
<1> SUFFICES ASSUME AnswerIsTrue, NEW j \in DOMAIN ops', ops'[j].status = "pools"
             PROVE  ops'[j].answer = ch'.deposits \/ PoolsOvertaken(j)'
  BY <1>0 DEF Answers, AnswerIsTrue
<1>4. CASE j = i
  BY <1>1, <1>3, <1>4
<1>5. CASE j # i
  <2>1. j \in DOMAIN ops /\ ops'[j] = ops[j] /\ (ops[j].answer = ch.deposits \/ PoolsOvertaken(j))
    BY <1>3, <1>5 DEF Moves, AnswerIsTrue
  <2>2. j \notin ops[i].after
    BY <1>1, <2>1
  <2>3. PoolsOvertaken(j) => PoolsOvertaken(j)'
    BY <1>1, <1>2, <1>3, <2>2, MovesPoolsOvertaken
  <2>. QED BY <1>1, <2>1, <2>3
<1>. QED BY <1>4, <1>5

LEMMA AnswersOfOne ==
    ASSUME IInv, Answers, NEW i \in DOMAIN ops, Wallet(i) \/ Chain(i) \/ Timers(i)
    PROVE  Answers'
<1>1. Shapes /\ DOMAIN ch = AccountFields /\ ch.loan \in BOOLEAN
      /\ Request_(i).kind \in OfThePools \cup OfTheAccount
  BY DEF IInv, Shapes
<1>2. CASE WrongWallet(i) \/ LoseConfirmation(i) \/ RefreshFails(i)
  BY <1>2 DEF WrongWallet, LoseConfirmation, RefreshFails, Answers
<1>3. ASSUME NEW next, Become(i, next), next # "pools", lost' = lost, ch'.deposits = ch.deposits,
             \/ ops[i].status \notin Sent \/ OnAccount(Request_(i))
             \/ ops[i].status = "soon" /\ next = "due"
      PROVE  Answers'
  <2>1. Moves(i, next) /\ ops'[i].after = ops[i].after
    BY <1>1, <1>3, BecomeMoves
  <2>. QED BY <1>1, <1>3, <2>1, AnswersMove
<1>4. CASE Refuse(i) \/ Send(i) \/ Reverted(i)
  <2>1. /\ ops[i].status \in Early /\ lost' = lost /\ ch' = ch
        /\ Become(i, "done") \/ Become(i, "mining")
    BY <1>4 DEF Refuse, Send, Reverted, TransactionError, At, Early
  <2>. QED BY <1>3, <2>1 DEF Early, Sent
<1>5. CASE WrapFirst(i)
  <2>1. /\ ops[i].status = "asked" /\ ops' = [ops EXCEPT ![i].req.native = FALSE]
        /\ lost' = lost /\ ch'.deposits = ch.deposits
    BY <1>1, <1>5 DEF WrapFirst, At, AccountFields
  <2>2. Moves(i, "asked")
    BY <1>1, <2>1, WrapMoves
  <2>. QED BY <1>1, <2>1, <2>2, AnswersMove DEF Sent
<1>6. CASE Mine(i)
  <2>1. ops[i].status = "mining" /\ lost' = lost
    BY <1>6 DEF Mine, At
  <2>2. CASE Become(i, "failed") /\ ch' = ch
    BY <1>3, <2>1, <2>2 DEF Sent
  <2>3. ASSUME NEW e, ch' = Executed(ch, Request_(i), e),
               ops' = [ops EXCEPT ![i].status = "mined", ![i].event = e]
        PROVE  Answers'
    <3>1. Moves(i, "mined")
      BY <1>1, <2>3, MinedMoves
    <3>2. OnAccount(Request_(i)) => ch'.deposits = ch.deposits
      BY <1>1, <2>3, ExecutedShape, OfTheAccountOrNot
    <3>. QED BY <1>1, <2>1, <3>1, <3>2, AnswersMove DEF Sent
  <2>. QED BY <1>6, <2>2, <2>3 DEF Mine
<1>7. CASE Confirm(i)
  <2>1. /\ ops' = [ops EXCEPT ![i].status = "soon", ![i].after = RefreshesRunning(Request_(i))]
        /\ lost' = lost /\ ch' = ch
    BY <1>7 DEF Confirm
  <2>2. Moves(i, "soon") /\ ops'[i].after = RefreshesRunning(Request_(i))
    BY <1>1, <2>1, ConfirmedMoves
  <2>. QED BY <1>1, <2>1, <2>2, AnswersMove
<1>8. CASE Soon(i)
  <2>1. ops[i].status = "soon" /\ Become(i, "due") /\ lost' = lost /\ ch' = ch
    BY <1>8 DEF Soon, At
  <2>. QED BY <1>3, <2>1
<1>9. CASE ReadPools(i)
  BY <1>9, AnswersRead
<1>10. CASE CommitPools(i)
  <2>1. /\ ops[i].status = "pools" /\ lost' = lost /\ ch' = ch
        /\ ops' = [ops EXCEPT ![i].status = "done", ![i].answer = NoAnswer]
    BY <1>10 DEF CommitPools, At
  <2>2. Moves(i, "done")
    BY <1>1, <2>1, AnswerMoves
  <2>. QED BY <1>1, <2>1, <2>2, AnswersMove DEF Sent
<1>11. CASE StartRefresh(i) \/ CommitPrices(i) \/ Weigh(i)
  <2>1. /\ lost' = lost /\ ch' = ch
        /\ ops[i].status \in Refreshing \/ OnAccount(Request_(i))
        /\ Become(i, "prices") \/ Become(i, "balances") \/ Become(i, "done")
    BY <1>11 DEF StartRefresh, CommitPrices, Weigh, At, Refreshing
  <2>. QED BY <1>3, <2>1 DEF Sent, Refreshing
<1>12. CASE Read(i)
  <2>1. /\ ops[i].status \in Looks /\ ops' = [ops EXCEPT ![i].held = View(ch)]
        /\ lost' = lost /\ ch' = ch
    BY <1>12 DEF Read, Looks
  <2>2. Moves(i, ops[i].status)
    BY <1>1, <2>1, HeldMoves
  <2>. QED BY <1>1, <2>1, <2>2, AnswersMove DEF Sent, Looks
<1>13. CASE CommitBalances(i) \/ CommitDebts(i) \/ CommitStatus(i) \/ CommitFarm(i)
  <2>1. PICK status \in Looks, next \in Refreshing :
           \E store : Commit(i, status, next, store)
    BY <1>13 DEF CommitBalances, CommitDebts, CommitStatus, CommitFarm, Looks, Refreshing
  <2>2. ops[i].status = status /\ Moves(i, next) /\ ch' = ch /\ lost' = lost
    BY <2>1, CommitSteps
  <2>. QED BY <1>1, <2>1, <2>2, AnswersMove DEF Sent, Looks, Refreshing
<1>. QED BY <1>2, <1>4, <1>5, <1>6, <1>7, <1>8, <1>9, <1>10, <1>11, <1>12, <1>13
         DEF Wallet, Chain, Timers

LEMMA StepKeepsAnswers == IInv /\ Answers /\ [Next]_vars => Answers'
<1> SUFFICES ASSUME IInv, Answers, [Next]_vars PROVE Answers'
  OBVIOUS
<1>1. ASSUME NEW i \in DOMAIN ops, Wallet(i) \/ Chain(i) \/ Timers(i) PROVE Answers'
  BY <1>1, AnswersOfOne
<1>2. CASE User \/ UNCHANGED vars
  <2>1. lost' = lost /\ ch' = ch
    BY <1>2 DEF User, OpenModal, TypeValue, PressMax, Toggle, ChangeSwap, RouterAnswers, Submit,
                CloseByHand, vars
  <2>2. ops' = ops \/ ops' = Append(ops, Operation(modal, st))
    BY <1>2 DEF User, OpenModal, TypeValue, PressMax, Toggle, ChangeSwap, RouterAnswers, Submit,
                CloseByHand, vars
  <2> DEFINE o == Operation(modal, st)
  <2>3. o.status = "asked"
    BY DEF Operation
  <2> HIDE DEF o
  <2>4. PICK S : ops \in Seq(S)
    BY DEF IInv, Shapes
  <2>5. /\ DOMAIN ops \subseteq DOMAIN ops' /\ \A j \in DOMAIN ops : ops'[j] = ops[j]
        /\ \A j \in DOMAIN ops' \ DOMAIN ops : ops'[j].status = "asked"
    BY <2>2, <2>3, <2>4, Appended DEF o
  <2>6. AnswerIsTrue => AnswerIsTrue'
    <3> SUFFICES ASSUME AnswerIsTrue, NEW j \in DOMAIN ops', ops'[j].status = "pools"
                 PROVE  ops'[j].answer = ch'.deposits \/ PoolsOvertaken(j)'
      BY DEF AnswerIsTrue
    <3>1. j \in DOMAIN ops /\ ops'[j] = ops[j]
      BY <2>5
    <3>2. PoolsOvertaken(j) => PoolsOvertaken(j)'
      BY <2>5 DEF PoolsOvertaken, Request_
    <3>. QED BY <2>1, <3>1, <3>2 DEF AnswerIsTrue
  <2>. QED BY <2>1, <2>6 DEF Answers
<1>. QED BY <1>1, <1>2 DEF Next

-----------------------------------------------------------------------------
(* What is shown at rest is true *)

LEMMA StepKeepsIInv == IInv /\ Answers /\ [Next]_vars => IInv'
<1> SUFFICES ASSUME IInv, Answers, [Next]_vars PROVE IInv'
  OBVIOUS
<1>1. CASE UNCHANGED vars
  <2>1. ops' = ops /\ ch' = ch /\ lost' = lost /\ st' = st /\ modal' = modal
    BY <1>1 DEF vars
  <2>2. SameModal(modal', modal)
    BY <2>1 DEF SameModal, IInv, Shapes
  <2>. QED BY <2>1, <2>2, ModalKeeps
<1>2. CASE User
  BY <1>2, OpenKeeps, TypingKeeps, SubmitKeeps DEF User
<1>3. ASSUME NEW i \in DOMAIN ops, Wallet(i) PROVE IInv'
  BY <1>3, RefuseKeeps, WrapKeeps, LossKeeps, SendKeeps DEF Wallet
<1>4. ASSUME NEW i \in DOMAIN ops, Chain(i) PROVE IInv'
  BY <1>4, MineKeeps, RefuseKeeps, ConfirmKeeps, LossKeeps DEF Chain
<1>5. ASSUME NEW i \in DOMAIN ops, Timers(i) PROVE IInv'
  BY <1>5, SoonKeeps, ReadPoolsKeeps, CommitPoolsKeeps, StartKeeps, PricesKeep, ReadKeeps,
     CommitBalancesKeeps, CommitDebtsKeeps, CommitStatusKeeps, CommitFarmKeeps, WeighKeeps, LossKeeps DEF Timers
<1>. QED BY <1>1, <1>2, <1>3, <1>4, <1>5 DEF Next

LEMMA IInvMeansTrue == IInv => QuietMeansTrue
<1> SUFFICES ASSUME IInv, ~lost, \A i \in DOMAIN ops : At(i, "done")
             PROVE  /\ Agrees(st, ch) /\ (st.noLoan = ~ch.loan)
                    /\ st.header = Header(View(ch))
                    /\ st.depositTotal = ch.deposits["AVAX"] + ch.deposits["USDC"]
                    /\ st.health = calculateHealth(View(ch))
  BY DEF QuietMeansTrue
<1>1. Shown /\ Shapes
  BY DEF IInv
<1>2. \A stages \in Stages : ~Coming(stages)
  BY DEF Coming, At, Sent, Stages, BeforeBalances, BeforeDebts, BeforeStatus, BeforeFarm, Refreshing
<1>3. ~PoolsComing
  BY DEF PoolsComing, At, Sent
<1>4. (st.noLoan <=> ~ch.loan)
  BY <1>1, <1>2 DEF Shown, Stages
<1>5. (st.noLoan = ~ch.loan)
  BY <1>1, <1>4 DEF Shapes
<1>. QED BY <1>1, <1>2, <1>3, <1>5 DEF Shown, Stages, Agrees, View

\* When nothing is under way and nothing was lost, the dashboard shows the chain:
\* balances, debts, stakes, deposits, the totals of the header and the health, for
\* every interleaving of transactions, updates from their events (handleTransaction of
\* the rows) and refreshes (updateFunds).
THEOREM QuietHolds == Spec => []QuietMeansTrue
<1>1. IInv => QuietMeansTrue
  BY IInvMeansTrue
<1>. QED BY InitIInv, InitAnswers, StepKeepsIInv, StepKeepsAnswers, <1>1, PTL DEF Spec

-----------------------------------------------------------------------------
(* Numbers, and the balances an update changes *)

\* What is shown, in whole numbers.
ViewOK(v) == v.bal \in [Tokens -> Int] /\ v.debt \in [Assets -> Int] /\ v.farm \in Int
StoreOK(s) ==
    /\ DOMAIN s = StoreFields /\ s.noLoan \in BOOLEAN /\ ViewOK(s)
    /\ s.staked \in Int /\ s.total \in Int /\ s.available \in Int
    /\ s.deposits \in [Assets -> Int]

\* n shows one balance of s changed, and offers the new one for staking.
Put(n, s, t, balance) ==
    /\ DOMAIN n = StoreFields /\ n.noLoan = s.noLoan
    /\ n.bal = [s.bal EXCEPT ![t] = balance] /\ n.debt = s.debt /\ n.farm = s.farm
    /\ n.staked = s.staked /\ n.total = s.total /\ n.deposits = s.deposits
    /\ n.available = IF t = LP /\ ~s.noLoan THEN balance ELSE s.available

LEMMA PutTwice ==
    ASSUME NEW S, NEW T, NEW f \in [S -> T], NEW t, NEW b
    PROVE  [[f EXCEPT ![t] = b] EXCEPT ![t] = b] = [f EXCEPT ![t] = b]
<1> DEFINE g == [f EXCEPT ![t] = b]
           h == [g EXCEPT ![t] = b]
<1>1. DOMAIN g = S /\ DOMAIN h = S
  OBVIOUS
<1>2. ASSUME NEW x \in S PROVE h[x] = g[x]
  OBVIOUS
<1>3. g = [x \in S |-> g[x]] /\ h = [x \in S |-> h[x]]
  OBVIOUS
<1>. QED BY <1>1, <1>2, <1>3

LEMMA ToldPuts ==
    ASSUME NEW s, StoreOK(s), NEW t \in Tokens, NEW change \in Int
    PROVE  /\ Put(Told(s, t, change), s, t, s.bal[t] + change)
           /\ Put(Moved(s, t, change), s, t, s.bal[t] + change)
<1> DEFINE b == s.bal[t] + change
           n == [s EXCEPT !.bal[t] = b]
           m == [n EXCEPT !.bal[t] = b]
<1>0. /\ DOMAIN s = StoreFields /\ s.bal \in [Tokens -> Int] /\ b \in Int
      /\ [s.bal EXCEPT ![t] = b][t] = b
  BY DEF StoreOK, ViewOK
<1> HIDE DEF b
<1>1. /\ DOMAIN n = StoreFields /\ n.noLoan = s.noLoan /\ n.debt = s.debt /\ n.farm = s.farm
      /\ n.staked = s.staked /\ n.total = s.total /\ n.deposits = s.deposits
      /\ n.available = s.available /\ n.bal = [s.bal EXCEPT ![t] = b]
  BY <1>0 DEF StoreFields
<1> HIDE DEF n
<1>2. /\ DOMAIN m = StoreFields /\ m.noLoan = s.noLoan /\ m.debt = s.debt /\ m.farm = s.farm
      /\ m.staked = s.staked /\ m.total = s.total /\ m.deposits = s.deposits
      /\ m.available = s.available /\ m.bal = [n.bal EXCEPT ![t] = b]
  BY <1>1 DEF StoreFields
<1>3. m.bal = [s.bal EXCEPT ![t] = b]
  BY <1>0, <1>1, <1>2, PutTwice
<1> HIDE DEF m
<1>4. m.bal[t] = b
  BY <1>0, <1>3
<1>5. CASE t = LP
  <2>1. emitExternalAssetBalanceUpdate(s, t, b) = setupAvailable(m)
    BY <1>5 DEF emitExternalAssetBalanceUpdate, AssetRowHears, LpRowHears, StakingAssetHears, m, n
  <2>2. Told(s, t, change) = setupAvailable(m) /\ Moved(s, t, change) = setupAvailable(m)
    BY <1>5, <2>1 DEF Told, Moved, setSingleAssetBalance, b
  <2>3. Put(setupAvailable(m), s, t, b)
    BY <1>2, <1>3, <1>4, <1>5 DEF setupAvailable, Put, StoreFields
  <2>. QED BY <2>2, <2>3 DEF b
<1>6. CASE t # LP
  <2>0. \A x, y : emitExternalAssetBalanceUpdate(x, t, y) = [x EXCEPT !.bal[t] = y]
    BY <1>6 DEF emitExternalAssetBalanceUpdate, AssetRowHears, LpRowHears, StakingAssetHears
  <2>1. Told(s, t, change) = n /\ Moved(s, t, change) = m
    BY <1>6, <2>0 DEF Told, Moved, setSingleAssetBalance, b, n, m
  <2>. QED BY <1>1, <1>2, <1>3, <1>6, <2>1 DEF Put, b
<1>. QED BY <1>5, <1>6

LEMMA PutIsOK ==
    ASSUME NEW s, StoreOK(s), NEW t \in Tokens, NEW b \in Int, NEW n, Put(n, s, t, b)
    PROVE  StoreOK(n)
BY DEF StoreOK, ViewOK, Put

-----------------------------------------------------------------------------
(* An update from an event does what the contracts did *)

\* A request names what its kind needs, and an event what its request led to.
RequestOK(r) ==
    /\ r.kind \in OfThePools \cup OfTheAccount
    /\ r.token \in Tokens /\ r.amount \in Int /\ r.least \in Int
    /\ r.kind \in {"repay"} \cup OfThePools => r.token \in Assets
    /\ r.kind \in {"fundNative", "withdrawNative"} => r.token = "AVAX"
    /\ r.kind = "swap" => r.token \in Listed /\ r.to \in Listed
EventOK(r, e) ==
    /\ e.paid \in Int /\ e.got \in Int
    /\ r.kind \notin {"swap", "remove"} => e.got = e.paid
    /\ Strict(r) => e.paid = r.amount
    /\ r.kind = "swap" => r.least <= e.got

\* c is an account with what s shows, and n shows what after has, if s agreed with c.
Pictures(c, s) ==
    /\ DOMAIN c = AccountFields
    /\ c.bal = s.bal /\ c.debt = s.debt /\ c.farm = s.farm /\ c.deposits = s.deposits
Follows(n, s, after) ==
    /\ n.noLoan = s.noLoan /\ n.bal = after.bal /\ n.debt = after.debt
    /\ n.farm = after.farm /\ n.deposits = after.deposits
    /\ \/ n.staked = s.staked + (after.farm - s.farm)
       \/ n.staked = 0 /\ after.farm = 0
    /\ n.total = s.total + (after.farm - s.farm)
    /\ ~n.noLoan /\ s.available = s.bal[LP] => n.available = n.bal[LP]

LEMMA TokensAre ==
    /\ Tokens = {"AVAX", "USDC", "ETH", "LP"} /\ LP = "LP"
    /\ Listed = {"AVAX", "USDC", "ETH"} /\ Assets = {"AVAX", "USDC"}
BY DEF Tokens, Listed, Assets, LP

LEMMA PutFollows ==
    ASSUME NEW s, StoreOK(s), NEW t \in Tokens, NEW b \in Int, NEW n, Put(n, s, t, b),
           NEW after, after.bal = [s.bal EXCEPT ![t] = b], after.debt = s.debt,
           after.farm = s.farm, after.deposits = s.deposits
    PROVE  Follows(n, s, after)
<1>1. s.bal \in [Tokens -> Int] /\ s.farm \in Int /\ s.staked \in Int /\ s.total \in Int
  BY DEF StoreOK, ViewOK
<1>2. s.bal[LP] = n.bal[LP] \/ (t = LP /\ n.bal[LP] = b)
  BY <1>1, TokensAre DEF Put
<1>. QED BY <1>1, <1>2 DEF Put, Follows

LEMMA FundFollows ==
    ASSUME NEW s, StoreOK(s), NEW c, Pictures(c, s), NEW r, RequestOK(r), NEW e, EventOK(r, e),
           r.kind \in {"fund", "fundNative"}
    PROVE  /\ StoreOK(Updated(s, r, e))
           /\ Follows(Updated(s, r, e), s, Executed(c, r, e))
<1> DEFINE n == Updated(s, r, e)
           after == Executed(c, r, e)
           b == s.bal[r.token] + e.paid
<1>0. r.token \in Tokens /\ e.paid \in Int
  BY DEF RequestOK, EventOK
<1>1. n = Moved(s, r.token, e.paid)
  BY DEF Updated, fund, fundNativeToken, RequestOK
<1>2. /\ after.bal = [c.bal EXCEPT ![r.token] = @ + e.paid]
      /\ after.debt = c.debt /\ after.farm = c.farm /\ after.deposits = c.deposits
  BY DEF Executed, Pictures, AccountFields
<1> HIDE DEF n, after
<1>3. Put(n, s, r.token, b) /\ b \in Int
  BY <1>0, <1>1, ToldPuts DEF StoreOK, ViewOK
<1>4. /\ after.bal = [s.bal EXCEPT ![r.token] = b] /\ after.debt = s.debt
      /\ after.farm = s.farm /\ after.deposits = s.deposits
  BY <1>2 DEF Pictures
<1> HIDE DEF b
<1>. QED BY <1>0, <1>3, <1>4, PutIsOK, PutFollows DEF n, after

LEMMA WithdrawFollows ==
    ASSUME NEW s, StoreOK(s), NEW c, Pictures(c, s), NEW r, RequestOK(r), NEW e, EventOK(r, e),
           r.kind \in {"withdraw", "withdrawNative"}
    PROVE  /\ StoreOK(Updated(s, r, e))
           /\ Follows(Updated(s, r, e), s, Executed(c, r, e))
<1> DEFINE n == Updated(s, r, e)
           after == Executed(c, r, e)
           b == s.bal[r.token] + (-e.paid)
<1>0. r.token \in Tokens /\ e.paid \in Int /\ -e.paid \in Int /\ s.bal[r.token] \in Int
  BY DEF RequestOK, EventOK, StoreOK, ViewOK
<1>1. n = Moved(s, r.token, -e.paid)
  BY DEF Updated, withdraw, withdrawNativeToken, RequestOK
<1>2. /\ after.bal = [c.bal EXCEPT ![r.token] = @ - e.paid]
      /\ after.debt = c.debt /\ after.farm = c.farm /\ after.deposits = c.deposits
  BY DEF Executed, Pictures, AccountFields
<1> HIDE DEF n, after
<1>3. Put(n, s, r.token, b) /\ b \in Int
  BY <1>0, <1>1, ToldPuts
<1>4. s.bal[r.token] - e.paid = b
  BY <1>0
<1>5. /\ after.bal = [s.bal EXCEPT ![r.token] = b] /\ after.debt = s.debt
      /\ after.farm = s.farm /\ after.deposits = s.deposits
  BY <1>2, <1>4 DEF Pictures
<1> HIDE DEF b
<1>. QED BY <1>0, <1>3, <1>5, PutIsOK, PutFollows DEF n, after

LEMMA WrapFollows ==
    ASSUME NEW s, StoreOK(s), NEW c, Pictures(c, s), NEW r, RequestOK(r), NEW e, EventOK(r, e),
           r.kind = "wrap"
    PROVE  /\ StoreOK(Updated(s, r, e))
           /\ Follows(Updated(s, r, e), s, Executed(c, r, e))
<1> DEFINE n == Updated(s, r, e)
           after == Executed(c, r, e)
           b == s.bal["AVAX"] + e.paid
<1>0. /\ "AVAX" \in Tokens /\ "AVAX" # LP /\ e.paid = r.amount /\ b \in Int
      /\ DOMAIN s = StoreFields
  BY TokensAre DEF EventOK, Strict, StoreOK, ViewOK
<1>1. n = [s EXCEPT !.bal["AVAX"] = @ + r.amount]
  BY DEF Updated, wrapNativeToken
<1>2. /\ after.bal = [c.bal EXCEPT !["AVAX"] = @ + e.paid]
      /\ after.debt = c.debt /\ after.farm = c.farm /\ after.deposits = c.deposits
  BY DEF Executed, Pictures, AccountFields
<1> HIDE DEF n, after
<1>3. Put(n, s, "AVAX", b)
  BY <1>0, <1>1 DEF Put, StoreFields
<1>4. /\ after.bal = [s.bal EXCEPT !["AVAX"] = b] /\ after.debt = s.debt
      /\ after.farm = s.farm /\ after.deposits = s.deposits
  BY <1>2 DEF Pictures
<1> HIDE DEF b
<1>. QED BY <1>0, <1>3, <1>4, PutIsOK, PutFollows DEF n, after

\* Three balances at once: the two of a pair, and the pair.
LEMMA LiquidityFollows ==
    ASSUME NEW s, StoreOK(s), NEW c, Pictures(c, s), NEW r, RequestOK(r), NEW e, EventOK(r, e),
           r.kind \in {"provide", "remove"}
    PROVE  /\ StoreOK(Updated(s, r, e))
           /\ Follows(Updated(s, r, e), s, Executed(c, r, e))
<1> DEFINE n == Updated(s, r, e)
           after == Executed(c, r, e)
           d == IF r.kind = "provide" THEN -e.paid ELSE e.got
           l == IF r.kind = "provide" THEN e.got ELSE -e.paid
           one == Told(s, "AVAX", d)
           two == Told(one, "USDC", d)
<1>0. /\ "AVAX" \in Tokens /\ "USDC" \in Tokens /\ LP \in Tokens
      /\ d \in Int /\ l \in Int /\ e.paid \in Int /\ e.got \in Int
  BY TokensAre DEF EventOK
<1>1. n = Told(two, LP, l)
  BY DEF Updated, provideLiquidity, removeLiquidity
<1>2. s.bal \in [Tokens -> Int] /\ s.farm \in Int /\ s.staked \in Int /\ s.total \in Int
  BY DEF StoreOK, ViewOK
<1>3. /\ after.bal["AVAX"] = s.bal["AVAX"] + d /\ after.bal["USDC"] = s.bal["USDC"] + d
      /\ after.bal[LP] = s.bal[LP] + l /\ after.bal["ETH"] = s.bal["ETH"]
      /\ after.bal \in [Tokens -> Int]
      /\ after.debt = s.debt /\ after.farm = s.farm /\ after.deposits = s.deposits
  <2>1. DOMAIN c = AccountFields /\ c.bal = s.bal /\ c.debt = s.debt /\ c.farm = s.farm
        /\ c.deposits = s.deposits
    BY DEF Pictures
  <2>2. /\ after.bal = IF r.kind = "provide"
                       THEN [c.bal EXCEPT !["AVAX"] = @ - e.paid, !["USDC"] = @ - e.paid, ![LP] = @ + e.got]
                       ELSE [c.bal EXCEPT !["AVAX"] = @ + e.got, !["USDC"] = @ + e.got, ![LP] = @ - e.paid]
        /\ after.debt = c.debt /\ after.farm = c.farm /\ after.deposits = c.deposits
    BY <2>1 DEF Executed, AccountFields
  <2> HIDE DEF after
  <2>3. CASE r.kind = "provide"
    BY <1>0, <1>2, <2>1, <2>2, <2>3, TokensAre
  <2>4. CASE r.kind = "remove"
    BY <1>0, <1>2, <2>1, <2>2, <2>4, TokensAre
  <2>. QED BY <2>3, <2>4
<1> HIDE DEF d, l, n, after
<1>4. Put(one, s, "AVAX", s.bal["AVAX"] + d) /\ StoreOK(one)
  <2>1. s.bal["AVAX"] + d \in Int
    BY <1>0, <1>2
  <2>. QED BY <1>0, <2>1, ToldPuts, PutIsOK
<1> HIDE DEF one
<1>5. Put(two, one, "USDC", one.bal["USDC"] + d) /\ StoreOK(two)
  <2>1. one.bal["USDC"] + d \in Int
    BY <1>0, <1>4 DEF StoreOK, ViewOK
  <2>. QED BY <1>0, <1>4, <2>1, ToldPuts, PutIsOK
<1> HIDE DEF two
<1>6. Put(n, two, LP, two.bal[LP] + l) /\ StoreOK(n)
  <2>1. two.bal[LP] + l \in Int
    BY <1>0, <1>5 DEF StoreOK, ViewOK
  <2>. QED BY <1>0, <1>1, <1>5, <2>1, ToldPuts, PutIsOK
<1>7. n.bal = after.bal
  <2>1. n.bal \in [Tokens -> Int] /\ one.bal \in [Tokens -> Int] /\ two.bal \in [Tokens -> Int]
    BY <1>4, <1>5, <1>6 DEF StoreOK, ViewOK
  <2>2. /\ one.bal = [s.bal EXCEPT !["AVAX"] = s.bal["AVAX"] + d]
        /\ two.bal = [one.bal EXCEPT !["USDC"] = one.bal["USDC"] + d]
        /\ n.bal = [two.bal EXCEPT ![LP] = two.bal[LP] + l]
    BY <1>4, <1>5, <1>6 DEF Put
  <2>3. n.bal[LP] = after.bal[LP] /\ n.bal["ETH"] = after.bal["ETH"]
    BY <1>2, <1>3, <2>1, <2>2, TokensAre
  <2>4. n.bal["AVAX"] = after.bal["AVAX"] /\ n.bal["USDC"] = after.bal["USDC"]
    BY <1>2, <1>3, <2>1, <2>2, TokensAre
  <2>5. \A t \in Tokens : n.bal[t] = after.bal[t]
    BY <2>3, <2>4, TokensAre
  <2>. QED BY <1>3, <2>1, <2>5
<1>8. /\ n.noLoan = s.noLoan /\ n.debt = s.debt /\ n.farm = s.farm /\ n.staked = s.staked
      /\ n.total = s.total /\ n.deposits = s.deposits
      /\ ~n.noLoan => n.available = n.bal[LP]
  <2>1. two.bal \in [Tokens -> Int]
    BY <1>5 DEF StoreOK, ViewOK
  <2>. QED BY <1>0, <1>4, <1>5, <1>6, <2>1 DEF Put
<1>9. StoreOK(n)
  BY <1>6
<1>. QED BY <1>2, <1>3, <1>7, <1>8, <1>9 DEF Follows, n, after

LEMMA RepayFollows ==
    ASSUME NEW s, StoreOK(s), NEW c, Pictures(c, s), NEW r, RequestOK(r), NEW e, EventOK(r, e),
           r.kind = "repay"
    PROVE  /\ StoreOK(Updated(s, r, e))
           /\ (r.isMax => e.paid = s.debt[r.token])
                 => Follows(Updated(s, r, e), s, Executed(c, r, e))
<1> DEFINE n == Updated(s, r, e)
           after == Executed(c, r, e)
           t == r.token
           debt == IF r.isMax THEN 0 ELSE s.debt[t] - e.paid
           told == watchExternalAssetDebtUpdate(s, t, debt)
           moved == Moved(told, t, -e.paid)
           b == s.bal[t] + (-e.paid)
<1>0. /\ t \in Tokens /\ t \in Assets /\ e.paid \in Int /\ -e.paid \in Int /\ b \in Int
      /\ s.debt \in [Assets -> Int] /\ s.debt[t] \in Int /\ debt \in Int /\ s.bal \in [Tokens -> Int]
      /\ DOMAIN s = StoreFields /\ s.farm \in Int /\ s.staked \in Int /\ s.total \in Int
  BY DEF RequestOK, EventOK, StoreOK, ViewOK
<1>1. n = [moved EXCEPT !.debt[t] = debt]
  BY DEF Updated, repay, setSingleAssetDebt
<1>2. /\ after.bal = [s.bal EXCEPT ![t] = @ - e.paid]
      /\ after.debt = [s.debt EXCEPT ![t] = @ - e.paid]
      /\ after.farm = s.farm /\ after.deposits = s.deposits
  BY DEF Executed, Pictures, AccountFields
<1> HIDE DEF n, after, debt
<1>3. /\ StoreOK(told) /\ told.debt = [s.debt EXCEPT ![t] = debt]
      /\ told.bal = s.bal /\ told.farm = s.farm /\ told.staked = s.staked /\ told.total = s.total
      /\ told.deposits = s.deposits /\ told.available = s.available /\ told.noLoan = s.noLoan
  BY <1>0 DEF watchExternalAssetDebtUpdate, StoreOK, ViewOK, StoreFields
<1> HIDE DEF told
<1>4. Put(moved, told, t, b) /\ StoreOK(moved)
  <2>1. told.bal[t] + (-e.paid) = b
    BY <1>3
  <2>. QED BY <1>0, <1>3, <2>1, ToldPuts, PutIsOK
<1> HIDE DEF moved, b
<1>5. moved.debt = [s.debt EXCEPT ![t] = debt] /\ DOMAIN moved = StoreFields
  BY <1>3, <1>4 DEF Put
<1>6. /\ n.debt = [moved.debt EXCEPT ![t] = debt] /\ n.bal = moved.bal /\ n.farm = moved.farm
      /\ n.staked = moved.staked /\ n.total = moved.total /\ n.deposits = moved.deposits
      /\ n.available = moved.available /\ n.noLoan = moved.noLoan /\ DOMAIN n = StoreFields
  BY <1>1, <1>5 DEF StoreFields
<1>7. n.debt = [s.debt EXCEPT ![t] = debt]
  BY <1>0, <1>5, <1>6, PutTwice
<1>8. StoreOK(n)
  <2>1. n.debt \in [Assets -> Int]
    BY <1>0, <1>7
  <2>. QED BY <1>4, <1>6, <2>1 DEF StoreOK, ViewOK
<1>9. ASSUME r.isMax => e.paid = s.debt[t] PROVE Follows(n, s, after)
  <2>1. debt = s.debt[t] - e.paid
    BY <1>0, <1>9 DEF debt
  <2>2. n.debt = after.debt
    BY <1>2, <1>7, <2>1
  <2>3. n.bal = after.bal
    BY <1>0, <1>2, <1>3, <1>4, <1>6 DEF Put, b
  <2>4. ~n.noLoan /\ s.available = s.bal[LP] => n.available = n.bal[LP]
    <3>1. t # LP /\ LP \in Tokens
      BY <1>0, TokensAre
    <3>. QED BY <1>0, <1>3, <1>4, <1>6, <3>1 DEF Put
  <2>. QED BY <1>0, <1>2, <1>3, <1>4, <1>6, <2>2, <2>3, <2>4 DEF Put, Follows
<1>. QED BY <1>8, <1>9 DEF n, after

LEMMA SwapFollows ==
    ASSUME NEW s, StoreOK(s), NEW c, Pictures(c, s), NEW r, RequestOK(r), NEW e, EventOK(r, e),
           r.kind = "swap"
    PROVE  /\ StoreOK(Updated(s, r, e))
           /\ r.path = <<r.token, r.to>> => Follows(Updated(s, r, e), s, Executed(c, r, e))
<1> DEFINE n == Updated(s, r, e)
           after == Executed(c, r, e)
           one == Moved(s, r.token, -e.paid)
           b == s.bal[r.token] + (-e.paid)
<1>0. /\ r.token \in Tokens /\ r.to \in Tokens /\ e.paid \in Int /\ e.got \in Int /\ -e.paid \in Int
      /\ b \in Int /\ r.token # LP /\ r.to # LP /\ LP \in Tokens /\ s.bal \in [Tokens -> Int]
      /\ s.farm \in Int /\ s.staked \in Int /\ s.total \in Int
  BY TokensAre DEF RequestOK, EventOK, StoreOK, ViewOK
<1>1. n = Moved(one, r.to, e.got)
  BY DEF Updated, swap
<1>2. r.path = <<r.token, r.to>> =>
        /\ after.bal = [[s.bal EXCEPT ![r.token] = @ - e.paid] EXCEPT ![r.to] = @ + e.got]
        /\ after.debt = s.debt /\ after.farm = s.farm /\ after.deposits = s.deposits
  <2> SUFFICES ASSUME r.path = <<r.token, r.to>>
               PROVE  /\ after.bal = [s.bal EXCEPT ![r.token] = @ - e.paid, ![r.to] = @ + e.got]
                      /\ after.debt = s.debt /\ after.farm = s.farm /\ after.deposits = s.deposits
    OBVIOUS
  <2>1. r.path[1] = r.token /\ r.path[2] = r.to
    OBVIOUS
  <2>. QED BY <2>1 DEF Executed, Pictures, AccountFields
<1> HIDE DEF n, after
<1>3. Put(one, s, r.token, b) /\ StoreOK(one)
  BY <1>0, ToldPuts, PutIsOK
<1> HIDE DEF one
<1> DEFINE g == one.bal[r.to] + e.got
<1>4. Put(n, one, r.to, g) /\ StoreOK(n)
  <2>1. g \in Int
    BY <1>0, <1>3 DEF StoreOK, ViewOK
  <2>2. Put(n, one, r.to, g)
    BY <1>0, <1>1, <1>3, ToldPuts
  <2> HIDE DEF g
  <2>. QED BY <1>0, <1>3, <2>1, <2>2, PutIsOK
<1>5. ASSUME r.path = <<r.token, r.to>> PROVE Follows(n, s, after)
  <2>1. one.bal = [s.bal EXCEPT ![r.token] = @ - e.paid]
    BY <1>0, <1>3 DEF Put
  <2>2. n.bal = after.bal
    BY <1>2, <1>4, <1>5, <2>1 DEF Put
  <2>3. ~n.noLoan /\ s.available = s.bal[LP] => n.available = n.bal[LP]
    <3>1. one.bal[LP] = s.bal[LP] /\ n.bal[LP] = one.bal[LP]
      BY <1>0, <1>3, <1>4 DEF Put, StoreOK, ViewOK
    <3>. QED BY <1>0, <1>3, <1>4, <3>1 DEF Put
  <2>. QED BY <1>0, <1>2, <1>3, <1>4, <1>5, <2>2, <2>3 DEF Put, Follows
<1>. QED BY <1>4, <1>5 DEF n, after

LEMMA InFarmIs ==
    ASSUME NEW s, StoreOK(s), NEW staked \in Int, NEW balance \in Int, NEW change \in Int,
           NEW n, n = InFarm(s, staked, balance, change)
    PROVE  /\ StoreOK(n) /\ n.noLoan = s.noLoan /\ n.bal = s.bal /\ n.debt = s.debt
           /\ n.farm = balance /\ n.staked = staked /\ n.total = s.total + change
           /\ n.deposits = s.deposits /\ n.available = s.available
BY DEF InFarm, emitExternalStakedUpdates, setReceiptTokenBalanceInFarm, setStakedBalanceInFarm,
       watchExternalTotalStakedUpdate, watchExternalStakedPerFarm, StoreOK, ViewOK, StoreFields

LEMMA StakeFollows ==
    ASSUME NEW s, StoreOK(s), NEW c, Pictures(c, s), NEW r, RequestOK(r), NEW e, EventOK(r, e),
           r.kind \in {"stake", "unstake"}
    PROVE  /\ StoreOK(Updated(s, r, e))
           /\ (r.kind = "unstake" /\ r.isMax => e.got = s.farm)
                 => Follows(Updated(s, r, e), s, Executed(c, r, e))
<1> DEFINE n == Updated(s, r, e)
           after == Executed(c, r, e)
           d == IF r.kind = "stake" THEN e.paid ELSE -e.paid
           max == r.kind = "unstake" /\ r.isMax
           staked == IF max THEN 0 ELSE s.staked + d
           balance == IF max THEN 0 ELSE s.farm + d
           one == InFarm(s, staked, balance, d)
           b == s.bal[LP] + (-d)
<1>0. /\ LP \in Tokens /\ e.paid \in Int /\ e.got = e.paid /\ s.bal \in [Tokens -> Int]
      /\ s.farm \in Int /\ s.staked \in Int /\ s.total \in Int
  BY TokensAre DEF EventOK, StoreOK, ViewOK
<1>1. d \in Int /\ -d \in Int /\ staked \in Int /\ balance \in Int /\ b \in Int
  BY <1>0
<1>2. n = Told(one, LP, -d)
  <2>1. CASE r.kind = "stake"
    BY <1>0, <2>1 DEF Updated, stake
  <2>2. CASE r.kind = "unstake"
    <3>1. -(-e.paid) = e.paid /\ s.staked - e.paid = s.staked + d /\ s.farm - e.got = s.farm + d
      BY <1>0, <2>2
    <3>. QED BY <2>2, <3>1 DEF Updated, unstake
  <2>. QED BY <2>1, <2>2
<1>3. /\ after.bal = [s.bal EXCEPT ![LP] = b] /\ after.farm = s.farm + d
      /\ after.debt = s.debt /\ after.deposits = s.deposits
  <2>1. CASE r.kind = "stake"
    <3>1. s.bal[LP] - e.paid = b
      BY <1>0, <2>1
    <3>. QED BY <1>0, <2>1, <3>1 DEF Executed, Pictures, AccountFields
  <2>2. CASE r.kind = "unstake"
    <3>1. s.bal[LP] + e.paid = b /\ s.farm - e.got = s.farm + d
      BY <1>0, <2>2
    <3>2. /\ after.bal = [c.bal EXCEPT ![LP] = @ + e.paid] /\ after.farm = c.farm - e.got
          /\ after.debt = c.debt /\ after.deposits = c.deposits
      BY <2>2 DEF Executed, Pictures, AccountFields
    <3>. QED BY <3>1, <3>2 DEF Pictures
  <2>. QED BY <2>1, <2>2
<1> HIDE DEF n, after, d
<1>4. /\ StoreOK(one) /\ one.noLoan = s.noLoan /\ one.bal = s.bal /\ one.debt = s.debt
      /\ one.farm = balance /\ one.staked = staked /\ one.total = s.total + d
      /\ one.deposits = s.deposits /\ one.available = s.available
  <2> HIDE DEF staked, balance
  <2>. QED BY <1>1, InFarmIs
<1> HIDE DEF one
<1>5. Put(n, one, LP, b) /\ StoreOK(n)
  <2>1. one.bal[LP] + (-d) = b
    BY <1>4
  <2> HIDE DEF b
  <2>. QED BY <1>0, <1>1, <1>2, <1>4, <2>1, ToldPuts, PutIsOK
<1>6. ASSUME max => e.got = s.farm PROVE Follows(n, s, after)
  <2>1. n.bal = after.bal /\ n.bal[LP] = b
    BY <1>0, <1>1, <1>3, <1>4, <1>5 DEF Put
  <2>2. balance = after.farm
    BY <1>0, <1>1, <1>3, <1>6 DEF d
  <2>3. (staked = s.staked + (after.farm - s.farm)) \/ (staked = 0 /\ after.farm = 0)
    BY <1>0, <1>1, <1>3, <1>6 DEF d
  <2>4. s.total + d = s.total + (after.farm - s.farm)
    BY <1>0, <1>1, <1>3
  <2>5. ~n.noLoan => n.available = n.bal[LP]
    BY <1>4, <1>5, <2>1 DEF Put
  <2> HIDE DEF staked, balance, b
  <2>. QED BY <1>3, <1>4, <1>5, <2>1, <2>2, <2>3, <2>4, <2>5 DEF Put, Follows
<1>. QED BY <1>5, <1>6 DEF n, after

LEMMA PoolFollows ==
    ASSUME NEW s, StoreOK(s), NEW c, Pictures(c, s), NEW r, RequestOK(r), NEW e, EventOK(r, e),
           r.kind \in OfThePools
    PROVE  /\ StoreOK(Updated(s, r, e))
           /\ e.paid = r.amount => Follows(Updated(s, r, e), s, Executed(c, r, e))
<1> DEFINE n == Updated(s, r, e)
           after == Executed(c, r, e)
           d == IF r.kind = "deposit" THEN s.deposits[r.token] + r.amount
                ELSE s.deposits[r.token] - r.amount
<1>0. /\ r.token \in Assets /\ r.amount \in Int /\ s.deposits \in [Assets -> Int] /\ d \in Int
      /\ DOMAIN s = StoreFields /\ s.farm \in Int /\ s.staked \in Int /\ s.total \in Int
  BY DEF RequestOK, StoreOK, ViewOK
<1>1. n = [s EXCEPT !.deposits = [s.deposits EXCEPT ![r.token] = d]]
  BY DEF Updated, OfThePools, PoolDeposited, PoolWithdrawn
<1>2. /\ SameAccount(n, s) /\ n.deposits = [s.deposits EXCEPT ![r.token] = d]
  BY <1>0, <1>1 DEF SameAccount, StoreFields
<1>3. e.paid = r.amount =>
        /\ after.bal = s.bal /\ after.debt = s.debt /\ after.farm = s.farm
        /\ after.deposits = [s.deposits EXCEPT ![r.token] = d]
  BY DEF Executed, OfThePools, Pictures, AccountFields
<1> HIDE DEF n, after, d
<1>4. n.deposits \in [Assets -> Int]
  BY <1>0, <1>2
<1>5. StoreOK(n)
  BY <1>2, <1>4 DEF SameAccount, StoreOK, ViewOK
<1>6. e.paid = r.amount => Follows(n, s, after)
  BY <1>0, <1>2, <1>3 DEF SameAccount, Follows
<1>. QED BY <1>5, <1>6 DEF n, after

\* What a confirmed transaction does to the stores is what it did to the account: for
\* every kind of request that creates no account, if its event tells what was asked for
\* where the stores go by the request.
LEMMA UpdateFollows ==
    ASSUME NEW s, StoreOK(s), NEW c, Pictures(c, s), NEW r, RequestOK(r), NEW e, EventOK(r, e)
    PROVE  /\ StoreOK(Updated(s, r, e))
           /\ (/\ r.kind # "create"
               /\ r.kind = "swap" => r.path = <<r.token, r.to>>
               /\ r.isMax /\ r.kind = "repay" => e.paid = s.debt[r.token]
               /\ r.isMax /\ r.kind = "unstake" => e.got = s.farm
               /\ ~OnAccount(r) => e.paid = r.amount)
              => Follows(Updated(s, r, e), s, Executed(c, r, e))
<1>1. CASE r.kind = "create"
  BY <1>1 DEF Updated, createAndFundLoan
<1>2. CASE r.kind \in {"fund", "fundNative", "withdraw", "withdrawNative", "wrap", "provide", "remove"}
  BY <1>2, FundFollows, WithdrawFollows, WrapFollows, LiquidityFollows
<1>3. CASE r.kind \in {"repay", "swap", "stake", "unstake"}
  BY <1>3, RepayFollows, SwapFollows, StakeFollows
<1>4. CASE r.kind \in OfThePools
  BY <1>4, PoolFollows DEF OnAccount, OfThePools
<1>. QED BY <1>1, <1>2, <1>3, <1>4 DEF RequestOK, OfTheAccount

-----------------------------------------------------------------------------
(* Modals that preview *)

ModalFields ==
    {"kind", "token", "value", "native", "isMax", "error", "health", "seen", "weighed", "live",
     "limit", "nativeLimit", "limits", "busy", "trade"}
TradeFields ==
    {"row", "to", "path", "least", "oracle", "asked", "checking", "nothing", "targetError",
     "since", "changes"}
Paths == Listed \X Listed

\* What a modal of this kind makes of the account it was given.
Foreseen(kind, token, to, value, least, v) ==
    CASE kind = "add" -> [v EXCEPT !.bal[token] = @ + value]
      [] kind = "withdraw" -> [v EXCEPT !.bal[token] = @ - value]
      [] kind = "repay" -> [v EXCEPT !.bal[token] = @ - value, !.debt[token] = @ - value]
      [] kind = "borrow" -> [v EXCEPT !.bal[token] = @ + value, !.debt[token] = @ + value]
      [] kind = "swap" -> [v EXCEPT !.bal[token] = @ - value, !.bal[to] = @ + least]
      [] OTHER -> v
ForeseenBy(m, v) == Foreseen(m.kind, m.token, m.trade.to, m.value, m.trade.least, v)

LEMMA AfterIsForeseen == ASSUME NEW m PROVE After(m) = ForeseenBy(m, m.seen)
BY DEF After, ForeseenBy, Foreseen, AddAfter, WithdrawAfter, RepayAfter, BorrowAfter, SwapAfter

\* A question to the router.
Question(q) ==
    /\ DOMAIN q = {"answer", "caller", "error"}
    /\ q.answer.received \in Int /\ q.answer.path \in Paths

ModalTyped(m) ==
    /\ DOMAIN m = ModalFields /\ DOMAIN m.trade = TradeFields
    /\ m.kind \in ModalKinds /\ m.token \in Tokens /\ m.trade.to \in Listed
    /\ m.kind \in {"repay"} \cup OfThePools => m.token \in Assets
    /\ m.kind = "swap" => m.token \in Listed
    /\ m.value \in Int /\ m.limit \in Int /\ m.isMax \in BOOLEAN
    /\ m.trade.least \in Int /\ m.trade.oracle \in Int
    /\ ViewOK(m.seen) /\ m.trade.path \in {<<>>} \cup Paths
    /\ \E S : m.trade.asked \in Seq(S) /\ \A q \in S : Question(q)

\* The health shown is what the value typed makes of the balances it was computed from,
\* in the modal that swaps as long as nothing is changed after an answer.
HealthCurrent(m) ==
    (m.kind \in Previewed /\ m.value # 0 /\ (m.kind = "swap" => m.trade.since = "answered")) =>
        m.health = calculateHealth(ForeseenBy(m, m.weighed))
ModalOK(m) == ModalTyped(m) /\ HealthCurrent(m)

\* n and m differ at most in what none of this depends on.
AlikeModals(n, m) ==
    /\ DOMAIN n = ModalFields /\ DOMAIN n.trade = TradeFields
    /\ n.kind = m.kind /\ n.token = m.token /\ n.value = m.value /\ n.limit = m.limit
    /\ n.isMax = m.isMax /\ n.health = m.health /\ n.seen = m.seen /\ n.weighed = m.weighed
    /\ n.trade.to = m.trade.to /\ n.trade.path = m.trade.path /\ n.trade.least = m.trade.least
    /\ n.trade.asked = m.trade.asked /\ n.trade.since = m.trade.since
    /\ n.trade.oracle = m.trade.oracle

LEMMA AlikeKeeps ==
    ASSUME NEW m, NEW n, AlikeModals(n, m)
    PROVE  /\ ModalTyped(m) => ModalTyped(n)
           /\ ModalOK(m) => ModalOK(n)
<1>1. ModalTyped(m) => ModalTyped(n)
  BY DEF AlikeModals, ModalTyped
<1>2. HealthCurrent(m) => HealthCurrent(n)
  BY DEF AlikeModals, HealthCurrent, ForeseenBy
<1>. QED BY <1>1, <1>2 DEF ModalOK

LEMMA ThenAlike ==
    ASSUME NEW m, DOMAIN m = ModalFields, DOMAIN m.trade = TradeFields, NEW q
    PROVE  AlikeModals(Then(m, q), m)
BY DEF Then, AlikeModals, ModalFields, TradeFields

LEMMA TouchedAlike ==
    ASSUME NEW m, DOMAIN m = ModalFields, DOMAIN m.trade = TradeFields
    PROVE  /\ AlikeModals(assetToggleChange(m), m) /\ AlikeModals(Counted(m), m)
           /\ AlikeModals([m EXCEPT !.busy = TRUE], m) /\ AlikeModals([m EXCEPT !.live = FALSE], m)
BY DEF assetToggleChange, Counted, AlikeModals, ModalFields, TradeFields

\* A confirmation changes the balances in the hands of the modal, and nothing it computed.
LEMMA SeenKeeps ==
    ASSUME NEW m, ModalOK(m), NEW v, ViewOK(v)
    PROVE  ModalOK([m EXCEPT !.seen = v])
<1> DEFINE n == [m EXCEPT !.seen = v]
<1>1. /\ DOMAIN n = ModalFields /\ n.trade = m.trade /\ n.seen = v /\ n.weighed = m.weighed
      /\ n.kind = m.kind /\ n.token = m.token /\ n.value = m.value /\ n.limit = m.limit
      /\ n.isMax = m.isMax /\ n.health = m.health
  BY DEF ModalOK, ModalTyped, ModalFields
<1> HIDE DEF n
<1>2. ModalTyped(n)
  BY <1>1 DEF ModalOK, ModalTyped
<1>3. HealthCurrent(n)
  BY <1>1 DEF ModalOK, HealthCurrent, ForeseenBy
<1>. QED BY <1>2, <1>3 DEF ModalOK, n

\* What is typed is weighed at once.
LEMMA WeighedOK ==
    ASSUME NEW m, ModalTyped(m), m.kind # "swap"
    PROVE  ModalOK(Weighed(m))
<1> DEFINE n == Weighed(m)
<1>1. /\ DOMAIN n = ModalFields /\ n.trade = m.trade /\ n.seen = m.seen /\ n.weighed = m.seen
      /\ n.kind = m.kind /\ n.token = m.token /\ n.value = m.value /\ n.limit = m.limit
      /\ n.isMax = m.isMax /\ n.health = calculateHealth(After(m))
  BY DEF ModalTyped, ModalFields, Weighed
<1> HIDE DEF n
<1>2. ModalTyped(n)
  BY <1>1 DEF ModalTyped
<1>3. HealthCurrent(n)
  BY <1>1, AfterIsForeseen DEF HealthCurrent, ForeseenBy
<1>. QED BY <1>2, <1>3 DEF ModalOK, n

LEMMA TypedOK ==
    ASSUME NEW m, ModalTyped(m), m.kind # "swap", NEW v \in Int
    PROVE  ModalOK(updateValue(m, v)) /\ ModalOK(setMax(m))
<1>1. ASSUME NEW w \in Int, NEW max \in BOOLEAN, NEW error
      PROVE  ModalOK(Weighed([[m EXCEPT !.value = w, !.isMax = max] EXCEPT !.error = error]))
  <2> DEFINE n == [[m EXCEPT !.value = w, !.isMax = max] EXCEPT !.error = error]
  <2>1. /\ DOMAIN n = ModalFields /\ n.trade = m.trade /\ n.seen = m.seen
        /\ n.kind = m.kind /\ n.token = m.token /\ n.value = w /\ n.limit = m.limit
        /\ n.isMax = max
    BY DEF ModalTyped, ModalFields
  <2> HIDE DEF n
  <2>2. ModalTyped(n) /\ n.kind # "swap"
    BY <2>1 DEF ModalTyped
  <2>3. ModalOK(Weighed(n))
    BY <2>2, WeighedOK
  <2>. QED BY <2>3 DEF n
<1>2. m.limit \in Int
  BY DEF ModalTyped
<1>. QED BY <1>1, <1>2 DEF updateValue, setMax

-----------------------------------------------------------------------------
(* The modal that swaps *)

LEMMA RemoveAtKeeps ==
    ASSUME NEW S, NEW s \in Seq(S), NEW i \in DOMAIN s
    PROVE  RemoveAt(s, i) \in Seq(S)
<1>1. i \in 1 .. Len(s) /\ Len(s) \in Nat
  OBVIOUS
<1>2. SubSeq(s, 1, i - 1) \in Seq(S) /\ SubSeq(s, i + 1, Len(s)) \in Seq(S)
  BY <1>1
<1>. QED BY <1>2 DEF RemoveAt

\* A modal that asks has been changed since the last answer.
LEMMA AskingOK ==
    ASSUME NEW m, ModalTyped(m), m.kind = "swap", NEW caller, NEW error
    PROVE  /\ ModalOK(chooseBestTrade(m, caller, error))
           /\ chooseBestTrade(m, caller, error).kind = "swap"
           /\ chooseBestTrade(m, caller, error).seen = m.seen
           /\ chooseBestTrade(m, caller, error).trade.to = m.trade.to
<1> DEFINE question == [answer |-> query(m), caller |-> caller, error |-> error]
           n == chooseBestTrade(m, caller, error)
           changed == [m EXCEPT !.trade.since = "changed"]
           blank == [changed EXCEPT !.trade.least = 0]
           asking == [changed EXCEPT !.trade.asked = Append(@, question)]
<1>0. n = IF m.value = 0 THEN Then(blank, question) ELSE asking
  BY DEF chooseBestTrade
<1>1. /\ DOMAIN m = ModalFields /\ DOMAIN m.trade = TradeFields /\ m.token \in Listed
      /\ m.trade.to \in Listed /\ m.value \in Int
  BY DEF ModalTyped
<1> HIDE DEF n
<1>2. CASE m.value = 0
  <2>1. /\ DOMAIN blank = ModalFields /\ DOMAIN blank.trade = TradeFields
        /\ blank.trade.to = m.trade.to /\ blank.trade.path = m.trade.path
        /\ blank.trade.least = 0 /\ blank.trade.asked = m.trade.asked
        /\ blank.trade.oracle = m.trade.oracle /\ blank.trade.since = "changed"
        /\ blank.kind = m.kind /\ blank.token = m.token /\ blank.value = m.value
        /\ blank.limit = m.limit /\ blank.isMax = m.isMax /\ blank.seen = m.seen
    BY <1>1 DEF ModalFields, TradeFields
  <2> HIDE DEF blank, question
  <2>2. ModalTyped(blank)
    BY <2>1 DEF ModalTyped
  <2>3. HealthCurrent(blank)
    BY <2>1 DEF HealthCurrent
  <2>4. ModalOK(blank)
    BY <2>2, <2>3 DEF ModalOK
  <2>5. AlikeModals(n, blank)
    BY <1>0, <1>2, <2>1, ThenAlike
  <2>. QED BY <2>1, <2>4, <2>5, AlikeKeeps DEF AlikeModals, n
<1>3. CASE m.value # 0
  <2>1. PICK S : m.trade.asked \in Seq(S) /\ \A q \in S : Question(q)
    BY DEF ModalTyped
  <2> DEFINE T == S \cup {question}
             longer == Append(m.trade.asked, question)
  <2>2. Question(question)
    BY <1>1 DEF Question, query, Paths
  <2>3. n = [changed EXCEPT !.trade.asked = longer]
    BY <1>0, <1>1, <1>3 DEF ModalFields, TradeFields
  <2> HIDE DEF question
  <2>5. longer \in Seq(T)
    <3>1. m.trade.asked \in Seq(T)
      BY <2>1
    <3>. QED BY <3>1
  <2> HIDE DEF longer
  <2>6. /\ DOMAIN n = ModalFields /\ DOMAIN n.trade = TradeFields
        /\ n.trade.to = m.trade.to /\ n.trade.path = m.trade.path
        /\ n.trade.least = m.trade.least /\ n.trade.asked = longer
        /\ n.trade.oracle = m.trade.oracle /\ n.trade.since = "changed"
        /\ n.kind = m.kind /\ n.token = m.token /\ n.value = m.value
        /\ n.limit = m.limit /\ n.isMax = m.isMax /\ n.seen = m.seen
    BY <1>1, <2>3 DEF ModalFields, TradeFields
  <2>7. \A q \in T : Question(q)
    BY <2>1, <2>2
  <2> HIDE DEF T
  <2>8. ModalTyped(n)
    BY <2>5, <2>6, <2>7 DEF ModalTyped
  <2>9. HealthCurrent(n)
    BY <2>6 DEF HealthCurrent
  <2>. QED BY <2>6, <2>8, <2>9 DEF ModalOK, n
<1>. QED BY <1>2, <1>3

\* The inputs of the modal that swaps.
LEMMA RetypedOK ==
    ASSUME NEW m, ModalTyped(m), m.kind = "swap",
           NEW token \in Listed, NEW to \in Listed, NEW v \in Int, NEW max \in BOOLEAN,
           NEW limit \in Int, NEW n, DOMAIN n = ModalFields, DOMAIN n.trade = TradeFields,
           n.kind = m.kind, n.token = token, n.value = v, n.isMax = max, n.limit = limit,
           n.seen = m.seen, n.trade.to = to, n.trade.path = m.trade.path,
           n.trade.least \in Int, n.trade.asked = m.trade.asked,
           n.trade.oracle = m.trade.oracle
    PROVE  ModalTyped(n)
BY TokensAre DEF ModalTyped, OfThePools

LEMMA ReverseOK ==
    ASSUME NEW m, ModalTyped(m), m.kind = "swap"
    PROVE  ModalOK(reverseSwap(m)) /\ reverseSwap(m).kind = "swap"
<1> DEFINE turned == [m EXCEPT !.token = m.trade.to, !.trade.to = m.token]
           asked == chooseBestTrade(turned, "nobody", FALSE)
           limit == m.seen.bal[m.trade.to]
           n == [asked EXCEPT !.limit = limit]
<1>1. /\ DOMAIN m = ModalFields /\ DOMAIN m.trade = TradeFields /\ m.token \in Listed
      /\ m.trade.to \in Listed /\ m.value \in Int /\ m.limit \in Int /\ m.isMax \in BOOLEAN
      /\ limit \in Int /\ m.trade.least \in Int
  BY TokensAre DEF ModalTyped, ViewOK
<1>2. /\ DOMAIN turned = ModalFields /\ DOMAIN turned.trade = TradeFields
      /\ turned.trade.to = m.token /\ turned.trade.path = m.trade.path
      /\ turned.trade.least = m.trade.least /\ turned.trade.asked = m.trade.asked
      /\ turned.trade.oracle = m.trade.oracle
      /\ turned.kind = m.kind /\ turned.token = m.trade.to /\ turned.value = m.value
      /\ turned.limit = m.limit /\ turned.isMax = m.isMax /\ turned.seen = m.seen
  BY <1>1 DEF ModalFields, TradeFields
<1> HIDE DEF turned
<1>3. ModalTyped(turned) /\ turned.kind = "swap"
  BY <1>1, <1>2, RetypedOK
<1>4. ModalOK(asked) /\ asked.kind = "swap"
  BY <1>3, AskingOK
<1>5. reverseSwap(m) = n
  BY DEF reverseSwap, turned
<1> HIDE DEF asked, limit
<1>6. /\ DOMAIN n = ModalFields /\ n.trade = asked.trade /\ n.kind = "swap"
      /\ n.token = asked.token /\ n.value = asked.value /\ n.limit = limit
      /\ n.isMax = asked.isMax /\ n.seen = asked.seen /\ n.health = asked.health
      /\ n.weighed = asked.weighed
  BY <1>4 DEF ModalOK, ModalTyped, ModalFields
<1> HIDE DEF n
<1>7. ModalTyped(n) /\ HealthCurrent(n)
  BY <1>1, <1>4, <1>6 DEF ModalOK, ModalTyped, HealthCurrent, ForeseenBy
<1>. QED BY <1>5, <1>6, <1>7 DEF ModalOK

LEMMA SwapInputsOK ==
    ASSUME NEW m, ModalTyped(m), m.kind = "swap", NEW amounts, amounts \subseteq Int
    PROVE  \A n \in SwapInputs(m, amounts) : ModalOK(n)
<1>0. /\ DOMAIN m = ModalFields /\ DOMAIN m.trade = TradeFields /\ m.token \in Listed
      /\ m.trade.to \in Listed /\ m.value \in Int /\ m.limit \in Int /\ m.isMax \in BOOLEAN
      /\ m.trade.least \in Int /\ m.trade.oracle \in Int
  BY DEF ModalTyped
<1>1. ASSUME NEW v \in Int, NEW max \in BOOLEAN PROVE ModalOK(sourceInputChange(m, v, max))
  <2> DEFINE typed == [m EXCEPT !.value = v, !.isMax = max, !.trade.checking = TRUE,
                                !.trade.nothing = @ \/ v = 0]
  <2>1. /\ DOMAIN typed = ModalFields /\ DOMAIN typed.trade = TradeFields
        /\ typed.trade.to = m.trade.to /\ typed.trade.path = m.trade.path
        /\ typed.trade.least = m.trade.least /\ typed.trade.asked = m.trade.asked
        /\ typed.trade.oracle = m.trade.oracle
        /\ typed.kind = m.kind /\ typed.token = m.token /\ typed.value = v
        /\ typed.limit = m.limit /\ typed.isMax = max /\ typed.seen = m.seen
    BY <1>0 DEF ModalFields, TradeFields
  <2> HIDE DEF typed
  <2>2. ModalTyped(typed) /\ typed.kind = "swap"
    BY <1>0, <2>1, RetypedOK
  <2>. QED BY <2>2, AskingOK DEF sourceInputChange, typed
<1>2. ASSUME NEW a \in Listed PROVE ModalOK(SourceSelected(m, a))
  <2> DEFINE limit == m.seen.bal[a]
             other == [m EXCEPT !.token = a, !.limit = limit, !.trade.checking = TRUE]
             back == [reverseSwap(m) EXCEPT !.error = checkErrors(m), !.trade.checking = FALSE]
  <2>0. limit \in Int
    BY TokensAre DEF ModalTyped, ViewOK
  <2>1. /\ DOMAIN other = ModalFields /\ DOMAIN other.trade = TradeFields
        /\ other.trade.to = m.trade.to /\ other.trade.path = m.trade.path
        /\ other.trade.least = m.trade.least /\ other.trade.asked = m.trade.asked
        /\ other.trade.oracle = m.trade.oracle
        /\ other.kind = m.kind /\ other.token = a /\ other.value = m.value
        /\ other.limit = limit /\ other.isMax = m.isMax /\ other.seen = m.seen
    BY <1>0 DEF ModalFields, TradeFields
  <2>2. SourceSelected(m, a) = IF a = m.trade.to THEN back
                               ELSE chooseBestTrade(other, "source", checkErrors(m))
    BY DEF SourceSelected
  <2> HIDE DEF other, limit
  <2>3. ModalTyped(other) /\ other.kind = "swap"
    BY <1>0, <2>0, <2>1, RetypedOK
  <2>4. AlikeModals(back, reverseSwap(m))
    BY ReverseOK DEF AlikeModals, ModalOK, ModalTyped, ModalFields, TradeFields
  <2> HIDE DEF back
  <2>. QED BY <2>2, <2>3, <2>4, AskingOK, ReverseOK, AlikeKeeps
<1>3. ASSUME NEW a \in Listed PROVE ModalOK(targetInputChange(m, a))
  <2> DEFINE other == [m EXCEPT !.trade.to = a]
             same == [m EXCEPT !.trade.least = 0]
             back == [reverseSwap(m) EXCEPT !.trade.targetError = targetRefuses(m)]
  <2>1. /\ DOMAIN other = ModalFields /\ DOMAIN other.trade = TradeFields
        /\ other.trade.to = a /\ other.trade.path = m.trade.path
        /\ other.trade.least = m.trade.least /\ other.trade.asked = m.trade.asked
        /\ other.trade.oracle = m.trade.oracle
        /\ other.kind = m.kind /\ other.token = m.token /\ other.value = m.value
        /\ other.limit = m.limit /\ other.isMax = m.isMax /\ other.seen = m.seen
    BY <1>0 DEF ModalFields, TradeFields
  <2>5. /\ DOMAIN same = ModalFields /\ DOMAIN same.trade = TradeFields
        /\ same.trade.to = m.trade.to /\ same.trade.path = m.trade.path
        /\ same.trade.least = 0 /\ same.trade.asked = m.trade.asked
        /\ same.trade.oracle = m.trade.oracle
        /\ same.kind = m.kind /\ same.token = m.token /\ same.value = m.value
        /\ same.limit = m.limit /\ same.isMax = m.isMax /\ same.seen = m.seen
    BY <1>0 DEF ModalFields, TradeFields
  <2>2. \/ targetInputChange(m, a) = back
        \/ targetInputChange(m, a) = chooseBestTrade(same, "target", targetRefuses(m))
        \/ targetInputChange(m, a) = chooseBestTrade(other, "target", targetRefuses(m))
    BY DEF targetInputChange
  <2> HIDE DEF other, same
  <2>3. ModalTyped(other) /\ other.kind = "swap" /\ ModalTyped(same) /\ same.kind = "swap"
    BY <1>0, <2>1, <2>5, RetypedOK
  <2>4. AlikeModals(back, reverseSwap(m))
    BY ReverseOK DEF AlikeModals, ModalOK, ModalTyped, ModalFields, TradeFields
  <2> HIDE DEF back
  <2>. QED BY <2>2, <2>3, <2>4, AskingOK, ReverseOK, AlikeKeeps
<1>4. ASSUME NEW n, ModalOK(n) PROVE ModalOK(Counted(n))
  BY <1>4, TouchedAlike, AlikeKeeps DEF ModalOK, ModalTyped
<1>5. \A n \in SwapInputs(m, amounts) :
        \/ \E v \in amounts : n = Counted(sourceInputChange(m, v, FALSE))
        \/ n = Counted(sourceInputChange(m, m.limit, TRUE)) \/ n = Counted(reverseSwap(m))
        \/ n = Counted(sourceInputChange(m, m.value, m.isMax))
        \/ \E a \in Listed : n = Counted(SourceSelected(m, a)) \/ n = Counted(targetInputChange(m, a))
        \/ \E least \in Slipped(m) : n = Counted(userSlippageChange(m, least))
  BY DEF SwapInputs
<1>6. ASSUME NEW least \in Int PROVE ModalOK(userSlippageChange(m, least))
  <2> DEFINE n == userSlippageChange(m, least)
  <2>1. /\ DOMAIN n = ModalFields /\ DOMAIN n.trade = TradeFields
        /\ n.trade.to = m.trade.to /\ n.trade.path = m.trade.path
        /\ n.trade.least = least /\ n.trade.asked = m.trade.asked
        /\ n.trade.oracle = m.trade.oracle /\ n.trade.since # "answered"
        /\ n.kind = m.kind /\ n.token = m.token /\ n.value = m.value
        /\ n.limit = m.limit /\ n.isMax = m.isMax /\ n.seen = m.seen
    BY <1>0 DEF userSlippageChange, updateAmountsWithSlippage, ModalFields, TradeFields
  <2> HIDE DEF n
  <2>2. ModalTyped(n)
    BY <1>0, <2>1, RetypedOK
  <2>3. HealthCurrent(n)
    BY <2>1 DEF HealthCurrent
  <2>. QED BY <2>2, <2>3 DEF ModalOK, n
<1>7. Slipped(m) \subseteq Int
  BY <1>0 DEF Slipped
<1>. QED BY <1>0, <1>1, <1>2, <1>3, <1>4, <1>5, <1>6, <1>7, ReverseOK

\* The answers: one that is applied leaves a health that belongs to what is shown.
LEMMA SwapAnswersOK ==
    ASSUME NEW m, ModalOK(m), m.kind = "swap", NEW i \in DOMAIN m.trade.asked
    PROVE  /\ m.trade.asked[i].answer.received > 0 => ModalOK(Answered(m, i))
           /\ ModalOK(Unanswered(m, i))
<1> DEFINE q == m.trade.asked[i]
           rest == RemoveAt(m.trade.asked, i)
<1>0. ModalTyped(m) /\ HealthCurrent(m)
  BY DEF ModalOK
<1>1. /\ DOMAIN m = ModalFields /\ DOMAIN m.trade = TradeFields /\ m.token \in Listed
      /\ m.trade.to \in Listed /\ m.value \in Int
  BY <1>0 DEF ModalTyped
<1>2. PICK S : m.trade.asked \in Seq(S) /\ \A p \in S : Question(p)
  BY <1>0 DEF ModalTyped
<1>3. Question(q)
  BY <1>2
<1>4. rest \in Seq(S)
  BY <1>2, RemoveAtKeeps
<1> HIDE DEF q
<1>5. ModalOK(Unanswered(m, i))
  <2> DEFINE n == [m EXCEPT !.trade.asked = rest]
  <2>1. Unanswered(m, i) = n
    BY DEF Unanswered
  <2> HIDE DEF rest
  <2>2. /\ DOMAIN n = ModalFields /\ DOMAIN n.trade = TradeFields
        /\ n.trade.to = m.trade.to /\ n.trade.path = m.trade.path
        /\ n.trade.least = m.trade.least /\ n.trade.asked = rest
        /\ n.trade.oracle = m.trade.oracle /\ n.trade.since = m.trade.since
        /\ n.kind = m.kind /\ n.token = m.token /\ n.value = m.value /\ n.health = m.health
        /\ n.limit = m.limit /\ n.isMax = m.isMax /\ n.seen = m.seen /\ n.weighed = m.weighed
    BY <1>1 DEF ModalFields, TradeFields
  <2> HIDE DEF n
  <2>3. ModalTyped(n)
    BY <1>0, <1>2, <1>4, <2>2 DEF ModalTyped
  <2>4. HealthCurrent(n)
    BY <1>0, <2>2 DEF HealthCurrent, ForeseenBy
  <2>. QED BY <2>1, <2>3, <2>4 DEF ModalOK
<1>6. ASSUME q.answer.received > 0 PROVE ModalOK(Answered(m, i))
  <2> DEFINE slipped == updateSlippageWithAmounts(m, q.answer.received)
             priced == [slipped EXCEPT !.trade.path = q.answer.path,
                                       !.trade.asked = RemoveAt(@, i),
                                       !.trade.since = "answered"]
             n == [priced EXCEPT !.health = calculateHealth(SwapAfter(priced)),
                                 !.weighed = priced.seen]
  <2>1. \E least \in Int : slipped = [[m EXCEPT !.trade.oracle = m.value] EXCEPT
                                           !.trade.least = least, !.trade.nothing = least <= 0]
    <3> DEFINE deviation == ((m.value - q.answer.received) * m.value) \div q.answer.received
               expected == m.value - deviation
               least == IF expected > 0 THEN (expected + 1) \div 2 ELSE -1
    <3>1. deviation \in Int
      BY <1>1, <1>3, <1>6 DEF Question
    <3>2. least \in Int
      <4> HIDE DEF deviation
      <4>. QED BY <1>1, <3>1
    <3>3. slipped = [[m EXCEPT !.trade.oracle = m.value] EXCEPT
                        !.trade.least = least, !.trade.nothing = least <= 0]
      BY DEF updateSlippageWithAmounts, updateAmountsWithSlippage
    <3> HIDE DEF least, slipped
    <3>. QED BY <3>2, <3>3
  <2>2. PICK least \in Int : slipped = [[m EXCEPT !.trade.oracle = m.value] EXCEPT
                                           !.trade.least = least, !.trade.nothing = least <= 0]
    BY <2>1
  <2> HIDE DEF slipped
  <2> DEFINE told == [m EXCEPT !.trade.oracle = m.value]
  <2>11. /\ DOMAIN told = ModalFields /\ DOMAIN told.trade = TradeFields
         /\ told.trade.to = m.trade.to /\ told.trade.oracle = m.value
         /\ told.trade.asked = m.trade.asked
         /\ told.kind = m.kind /\ told.token = m.token /\ told.value = m.value
         /\ told.limit = m.limit /\ told.isMax = m.isMax /\ told.seen = m.seen
    BY <1>1 DEF ModalFields, TradeFields
  <2>12. slipped = [told EXCEPT !.trade.least = least, !.trade.nothing = least <= 0]
    BY <2>2
  <2> HIDE DEF told
  <2>3. /\ DOMAIN slipped = ModalFields /\ DOMAIN slipped.trade = TradeFields
        /\ slipped.trade.to = m.trade.to /\ slipped.trade.least \in Int
        /\ slipped.trade.oracle = m.value
        /\ slipped.trade.asked = m.trade.asked
        /\ slipped.kind = m.kind /\ slipped.token = m.token /\ slipped.value = m.value
        /\ slipped.limit = m.limit /\ slipped.isMax = m.isMax /\ slipped.seen = m.seen
    BY <2>11, <2>12 DEF ModalFields, TradeFields
  <2>4. Answered(m, i) = Then(n, q)
    BY DEF Answered, q, slipped
  <2>5. /\ DOMAIN priced = ModalFields /\ DOMAIN priced.trade = TradeFields
        /\ priced.trade.to = m.trade.to /\ priced.trade.path = q.answer.path
        /\ priced.trade.least \in Int /\ priced.trade.asked = rest
        /\ priced.trade.oracle \in Int
        /\ priced.kind = m.kind /\ priced.token = m.token /\ priced.value = m.value
        /\ priced.limit = m.limit /\ priced.isMax = m.isMax /\ priced.seen = m.seen
    BY <1>1, <2>3 DEF ModalFields, TradeFields
  <2> HIDE DEF priced, rest
  <2>6. /\ DOMAIN n = ModalFields /\ n.trade = priced.trade
        /\ n.kind = priced.kind /\ n.token = priced.token /\ n.value = priced.value
        /\ n.limit = priced.limit /\ n.isMax = priced.isMax /\ n.seen = priced.seen
        /\ n.health = calculateHealth(SwapAfter(priced)) /\ n.weighed = priced.seen
    BY <2>5 DEF ModalFields
  <2> HIDE DEF n
  <2>7. ModalTyped(n)
    <3>1. n.trade.path \in {<<>>} \cup Paths
      BY <1>3, <2>5, <2>6 DEF Question
    <3>2. \E T : n.trade.asked \in Seq(T) /\ \A p \in T : Question(p)
      BY <1>2, <1>4, <2>5, <2>6
    <3>. QED BY <1>0, <2>5, <2>6, <3>1, <3>2 DEF ModalTyped
  <2>9. HealthCurrent(n)
    <3>1. SwapAfter(priced) = ForeseenBy(priced, priced.seen)
      BY <2>5 DEF SwapAfter, ForeseenBy, Foreseen
    <3>2. ForeseenBy(priced, priced.seen) = ForeseenBy(n, n.weighed)
      BY <2>6 DEF ForeseenBy
    <3>. QED BY <2>6, <3>1, <3>2 DEF HealthCurrent
  <2>10. ModalOK(n) /\ AlikeModals(Then(n, q), n)
    BY <2>5, <2>6, <2>7, <2>9, ThenAlike DEF ModalOK
  <2>. QED BY <2>4, <2>10, AlikeKeeps
<1>. QED BY <1>5, <1>6 DEF q

-----------------------------------------------------------------------------
(* Modals as they are opened *)

\* An account on chain; nobody owes less than nothing.
ChainOK(c) ==
    /\ DOMAIN c = AccountFields /\ ViewOK(c) /\ c.native \in Int
    /\ c.wallet \in [Tokens \cup {Native} -> Int] /\ c.deposits \in [Assets -> Int]
    /\ \A a \in Assets : c.debt[a] >= 0

\* A modal that has just been opened: nothing is typed, nothing asked.
Opened(m, kind, token, s) ==
    /\ DOMAIN m = ModalFields /\ m.kind = kind /\ m.token = token /\ m.value = 0
    /\ m.isMax = FALSE /\ m.seen = View(s) /\ m.trade = NoTrade(token)

LEMMA OpenedOK ==
    ASSUME NEW s, ViewOK(s), NEW kind \in ModalKinds, NEW token \in Tokens,
           kind \in {"repay", "swap"} \cup OfThePools => token \in Assets,
           NEW m, Opened(m, kind, token, s), m.limit \in Int
    PROVE  ModalOK(m)
<1>1. /\ DOMAIN m.trade = TradeFields /\ m.trade.to \in Listed /\ m.trade.least = 0
      /\ m.trade.path = <<>> /\ m.trade.asked = <<>> /\ m.trade.oracle = 0
  BY TokensAre DEF Opened, NoTrade, FirstOther, TradeFields
<1>2. ViewOK(m.seen)
  BY DEF Opened, View, ViewOK
<1>3. \E S : m.trade.asked \in Seq(S) /\ \A q \in S : Question(q)
  <2>1. m.trade.asked \in Seq({})
    BY <1>1
  <2>2. \A q \in {} : Question(q)
    OBVIOUS
  <2>. QED BY <2>1, <2>2
<1>4. ModalTyped(m)
  <2>1. /\ m.kind \in {"repay"} \cup OfThePools => m.token \in Assets
        /\ m.kind = "swap" => m.token \in Listed
        /\ m.isMax \in BOOLEAN
    BY TokensAre DEF Opened
  <2>3. DOMAIN m = ModalFields /\ m.kind \in ModalKinds /\ m.token \in Tokens
    BY DEF Opened
  <2>4. /\ m.value \in Int /\ m.limit \in Int /\ m.trade.least \in Int
        /\ m.trade.oracle \in Int
    BY <1>1 DEF Opened
  <2>5. m.trade.path \in {<<>>} \cup Paths
    BY <1>1
  <2>. QED BY <1>1, <1>2, <1>3, <2>1, <2>3, <2>4, <2>5 DEF ModalTyped
<1>5. HealthCurrent(m)
  BY DEF Opened, HealthCurrent
<1>. QED BY <1>4, <1>5 DEF ModalOK

LEMMA NoModalOK == ModalOK(NoModal)
<1>1. ViewOK(Empty)
  BY DEF Empty, ViewOK
<1>2. Opened(NoModal, "none", LP, Empty) /\ NoModal.limit = 0
  BY DEF NoModal, Modal, Opened, ModalFields
<1>. QED BY <1>1, <1>2, OpenedOK, TokensAre DEF ModalKinds, OfThePools

LEMMA OpenersOpen ==
    ASSUME NEW s, NEW c, NEW a
    PROVE  /\ Opened(openAddFromWalletModal(s, c, a), "add", a, s)
           /\ Opened(openWithdrawModal(s, c, a), "withdraw", a, s)
           /\ Opened(openRepayModal(s, c, a), "repay", a, s)
           /\ Opened(openSwapModal(s, c, a), "swap", a, s)
           /\ Opened(openBorrowModal(s, c, a), "borrow", a, s)
           /\ Opened(openWrapModal(s, c, a), "wrap", a, s)
           /\ Opened(openLpAddFromWalletModal(s, c), "add", LP, s)
           /\ Opened(openLpWithdrawModal(s, c), "withdraw", LP, s)
           /\ Opened(openProvideLiquidityModal(s, c), "provide", LP, s)
           /\ Opened(openRemoveLiquidityModal(s, c), "remove", LP, s)
           /\ Opened(openStakeModal(s, c), "stake", LP, s)
           /\ Opened(openUnstakeModal(s, c), "unstake", LP, s)
           /\ Opened(openDepositModal(s, c, a), "deposit", a, s)
           /\ Opened(openPoolWithdrawModal(s, c, a), "poolWithdraw", a, s)
BY DEF Opened, Modal, ModalFields, openAddFromWalletModal, openWithdrawModal, openRepayModal,
       openSwapModal, openBorrowModal, openWrapModal, openLpAddFromWalletModal,
       openLpWithdrawModal, openProvideLiquidityModal, openRemoveLiquidityModal,
       openStakeModal, openUnstakeModal, openDepositModal, openPoolWithdrawModal

LEMMA OpenersLimit ==
    ASSUME NEW s, StoreOK(s), NEW c, ChainOK(c), NEW a \in Assets
    PROVE  /\ openAddFromWalletModal(s, c, a).limit \in Int /\ openWithdrawModal(s, c, a).limit \in Int
           /\ openRepayModal(s, c, a).limit \in Int /\ openSwapModal(s, c, a).limit \in Int
           /\ openBorrowModal(s, c, a).limit \in Int /\ openWrapModal(s, c, a).limit \in Int
           /\ openLpAddFromWalletModal(s, c).limit \in Int /\ openLpWithdrawModal(s, c).limit \in Int
           /\ openProvideLiquidityModal(s, c).limit \in Int
           /\ openRemoveLiquidityModal(s, c).limit \in Int
           /\ openStakeModal(s, c).limit \in Int /\ openUnstakeModal(s, c).limit \in Int
           /\ openDepositModal(s, c, a).limit \in Int /\ openPoolWithdrawModal(s, c, a).limit \in Int
<1>1. /\ c.wallet[a] \in Int /\ c.wallet[LP] \in Int /\ c.native \in Int /\ s.bal[a] \in Int
      /\ s.bal[LP] \in Int /\ s.debt[a] \in Int /\ s.staked \in Int /\ s.deposits[a] \in Int
  BY TokensAre DEF StoreOK, ViewOK, ChainOK
<1>. QED BY <1>1 DEF Modal, openAddFromWalletModal, openWithdrawModal, openRepayModal,
       openSwapModal, openBorrowModal, openWrapModal, openLpAddFromWalletModal,
       openLpWithdrawModal, openProvideLiquidityModal, openRemoveLiquidityModal,
       openStakeModal, openUnstakeModal, openDepositModal, openPoolWithdrawModal

LEMMA OpenableOK ==
    ASSUME NEW s, StoreOK(s), NEW c, ChainOK(c), NEW buttons, NEW m \in Openable(s, c, buttons)
    PROVE  ModalOK(m)
<1>0. /\ ViewOK(s) /\ Assets \subseteq Tokens /\ LP \in Tokens /\ "AVAX" \in Assets
      /\ {"add", "withdraw", "repay", "swap", "borrow", "wrap", "provide", "remove", "stake",
          "unstake", "deposit", "poolWithdraw"} \subseteq ModalKinds
  BY TokensAre DEF StoreOK, ModalKinds, OfThePools
<1>1. ASSUME NEW a \in Assets, m \in AssetRow(s, c, a) PROVE ModalOK(m)
  <2>1. \/ m = openAddFromWalletModal(s, c, a) \/ m = openWithdrawModal(s, c, a)
        \/ m = openRepayModal(s, c, a) \/ m = openSwapModal(s, c, a)
        \/ m = openBorrowModal(s, c, a) \/ m = openWrapModal(s, c, a)
    BY <1>1 DEF AssetRow
  <2>2. \E kind \in {"add", "withdraw", "repay", "swap", "borrow", "wrap"} :
           Opened(m, kind, a, s) /\ m.limit \in Int
    BY <2>1, OpenersOpen, OpenersLimit
  <2>. QED BY <1>0, <2>2, OpenedOK
<1>2. ASSUME m \in LpRow(s, c) \cup FarmRow(s, c) PROVE ModalOK(m)
  <2>1. \/ m = openLpAddFromWalletModal(s, c) \/ m = openLpWithdrawModal(s, c)
        \/ m = openProvideLiquidityModal(s, c) \/ m = openRemoveLiquidityModal(s, c)
        \/ m = openStakeModal(s, c) \/ m = openUnstakeModal(s, c)
    BY <1>2 DEF LpRow, FarmRow
  <2>2. \E kind \in {"add", "withdraw", "provide", "remove", "stake", "unstake"} :
           Opened(m, kind, LP, s) /\ m.limit \in Int
    BY <1>0, <2>1, OpenersOpen, OpenersLimit
  <2>. QED BY <1>0, <2>2, OpenedOK DEF OfThePools
<1>3. ASSUME NEW a \in Assets, m \in PoolRow(s, c, a) PROVE ModalOK(m)
  <2>1. m = openDepositModal(s, c, a) \/ m = openPoolWithdrawModal(s, c, a)
    BY <1>3 DEF PoolRow
  <2>2. \E kind \in {"deposit", "poolWithdraw"} : Opened(m, kind, a, s) /\ m.limit \in Int
    BY <2>1, OpenersOpen, OpenersLimit
  <2>. QED BY <1>0, <2>2, OpenedOK
<1>4. \/ \E a \in Assets : m \in AssetRow(s, c, a) \/ m \in PoolRow(s, c, a)
      \/ m \in LpRow(s, c) \cup FarmRow(s, c)
  <2> DEFINE OfAccount == UNION {AssetRow(s, c, a) : a \in Assets}
             OfPools == UNION {PoolRow(s, c, a) : a \in Assets}
             Rows == OfAccount \cup LpRow(s, c) \cup FarmRow(s, c)
  <2>1. m \in (IF buttons THEN Rows ELSE {}) \cup OfPools
    BY DEF Openable
  <2>2. m \in Rows \/ m \in OfPools
    <3> HIDE DEF Rows, OfPools
    <3>. QED BY <2>1
  <2>3. m \in OfAccount => \E a \in Assets : m \in AssetRow(s, c, a)
    OBVIOUS
  <2>4. m \in OfPools => \E a \in Assets : m \in PoolRow(s, c, a)
    OBVIOUS
  <2> HIDE DEF OfAccount, OfPools
  <2>. QED BY <2>2, <2>3, <2>4
<1>. QED BY <1>1, <1>2, <1>3, <1>4

-----------------------------------------------------------------------------
(* Operations *)

\* Which requests a modal that previews leads to.
Sends(kind, request) ==
    \/ kind = "add" /\ request \in {"create", "fund", "fundNative"}
    \/ kind = "withdraw" /\ request \in {"withdraw", "withdrawNative"}
    \/ kind \in {"repay", "swap"} /\ request = kind

OpOK(o) ==
    /\ RequestOK(o.req) /\ ViewOK(o.held) /\ o.answer \in [Assets -> Int] /\ o.value \in Int
    /\ o.req.kind = "swap" => o.req.path \in {<<>>} \cup Paths
    /\ o.req.kind = "swap" /\ o.status \in {"mining", "mined"} => o.req.path \in Paths
    /\ o.status = "mined" => EventOK(o.req, o.event)
    /\ o.kind \in Previewed => Sends(o.kind, o.req.kind)
    /\ o.kind \in Previewed /\ o.valid /\ (o.kind = "swap" => o.since = "answered") =>
          o.health = calculateHealth(
                        Foreseen(o.kind, o.req.token, o.req.to, o.value, o.req.least, o.seen))

\* The request of a modal, and that it foresees what the modal does.
SubmitsOK(m, s) ==
    /\ RequestOK(RequestOf(m, s))
    /\ m.kind = "swap" => RequestOf(m, s).path = m.trade.path
    /\ RequestOf(m, s).kind = "swap" => m.kind = "swap"
    /\ m.kind \in Previewed =>
          /\ Sends(m.kind, RequestOf(m, s).kind)
          /\ RequestOf(m, s).token = m.token
          /\ m.kind = "swap" => RequestOf(m, s).to = m.trade.to
                                /\ RequestOf(m, s).least = m.trade.least

LEMMA RequestIsOK ==
    ASSUME NEW m, ModalTyped(m), m.kind \notin {"none", "borrow"}, NEW s
    PROVE  SubmitsOK(m, s)
<1>0. /\ m.value \in Int /\ m.limit \in Int /\ m.isMax \in BOOLEAN /\ m.token \in Tokens
      /\ m.trade.least \in Int /\ m.trade.to \in Listed /\ WithMargin(m) \in Int
      /\ m.kind \in ModalKinds /\ LP \in Tokens /\ LP \notin Assets /\ Listed \subseteq Tokens
      /\ m.kind \in {"repay"} \cup OfThePools => m.token \in Assets
      /\ m.kind = "swap" => m.token \in Listed
  BY TokensAre DEF ModalTyped, WithMargin
<1> DEFINE r == RequestOf(m, s)
<1>1. CASE m.kind = "add"
  <2> DEFINE handed == AddSubmit(m)
  <2>1. /\ handed.amount = m.value /\ handed.least = 0 /\ handed.isMax = FALSE
        /\ handed.native => m.token = "AVAX"
    BY DEF AddSubmit, Plain
  <2>2. r = Request(IF s.noLoan THEN "create" ELSE IF handed.native THEN "fundNative" ELSE "fund",
                    m.token, handed)
    BY <1>1 DEF RequestOf, AddRequest
  <2> HIDE DEF handed
  <2>3. /\ r.kind \in {"create", "fund", "fundNative"}
        /\ r.kind = "fundNative" => m.token = "AVAX"
        /\ r.token = m.token /\ r.amount = m.value /\ r.least = 0 /\ r.isMax = FALSE
    BY <2>1, <2>2 DEF Request
  <2> HIDE DEF r
  <2>4. RequestOK(r)
    BY <1>0, <2>3 DEF RequestOK, OfThePools, OfTheAccount
  <2>. QED BY <1>1, <2>3, <2>4 DEF SubmitsOK, Sends, r
<1>2. CASE m.kind = "withdraw"
  <2> DEFINE handed == WithdrawSubmit(m)
  <2>1. /\ handed.amount = m.value /\ handed.least = 0 /\ handed.isMax = FALSE
        /\ handed.native => m.token = "AVAX"
    BY DEF WithdrawSubmit, Plain
  <2>2. r = Request(IF handed.native THEN "withdrawNative" ELSE "withdraw", m.token, handed)
    BY <1>2 DEF RequestOf, WithdrawRequest
  <2> HIDE DEF handed
  <2>3. /\ r.kind \in {"withdraw", "withdrawNative"}
        /\ r.kind = "withdrawNative" => m.token = "AVAX"
        /\ r.token = m.token /\ r.amount = m.value /\ r.least = 0 /\ r.isMax = FALSE
    BY <2>1, <2>2 DEF Request
  <2> HIDE DEF r
  <2>4. RequestOK(r)
    BY <1>0, <2>3 DEF RequestOK, OfThePools, OfTheAccount
  <2>. QED BY <1>2, <2>3, <2>4 DEF SubmitsOK, Sends, r
<1>3. CASE m.kind = "repay"
  <2>1. /\ r.kind = "repay" /\ r.token = m.token /\ r.amount = WithMargin(m) /\ r.least = 0
        /\ r.isMax = m.isMax
    BY <1>3 DEF RequestOf, Request, RepaySubmit, Plain
  <2> HIDE DEF r
  <2>2. RequestOK(r)
    BY <1>0, <1>3, <2>1 DEF RequestOK, OfThePools, OfTheAccount
  <2>. QED BY <1>3, <2>1, <2>2 DEF SubmitsOK, Sends, r
<1>4. CASE m.kind = "swap"
  <2>1. /\ r.kind = "swap" /\ r.token = m.token /\ r.amount = WithMargin(m)
        /\ r.least = m.trade.least /\ r.isMax = FALSE /\ r.to = m.trade.to
        /\ r.path = m.trade.path
    BY <1>4 DEF RequestOf, Request, SwapSubmit, Plain
  <2> HIDE DEF r
  <2>2. RequestOK(r)
    BY <1>0, <1>4, <2>1 DEF RequestOK, OfThePools, OfTheAccount
  <2>. QED BY <1>4, <2>1, <2>2 DEF SubmitsOK, Sends, r
<1>5. CASE m.kind \in {"wrap", "provide", "stake"}
  <2>1. /\ r.kind = m.kind /\ r.token \in {m.token, LP} /\ r.amount \in {m.value, WithMargin(m)}
        /\ r.least = 0 /\ r.isMax = FALSE
    BY <1>5 DEF RequestOf, Request, WrapSubmit, ProvideSubmit, StakeSubmit, Plain
  <2> HIDE DEF r
  <2>2. r.token \in Tokens /\ r.amount \in Int /\ r.least \in Int
    BY <1>0, <2>1
  <2>3. RequestOK(r)
    BY <1>5, <2>1, <2>2 DEF RequestOK, OfThePools, OfTheAccount
  <2>. QED BY <1>5, <2>1, <2>3 DEF SubmitsOK, Previewed, r
<1>6. CASE m.kind = "remove"
  <2>1. /\ r.kind = "remove" /\ r.token = LP /\ r.amount = m.value
        /\ r.least = calculateReceivedAmounts(m) /\ r.isMax = FALSE
    BY <1>6 DEF RequestOf, Request, RemoveSubmit, Plain
  <2>2. calculateReceivedAmounts(m) \in Int
    BY <1>0 DEF calculateReceivedAmounts
  <2> HIDE DEF r
  <2>3. RequestOK(r)
    BY <1>0, <2>1, <2>2 DEF RequestOK, OfThePools, OfTheAccount
  <2>. QED BY <1>6, <2>1, <2>3 DEF SubmitsOK, Previewed, r
<1>7. CASE m.kind = "unstake"
  <2>1. /\ r.kind = "unstake" /\ r.token = LP /\ r.amount \in {WithMargin(m), m.limit}
        /\ r.least = 0 /\ r.isMax = m.isMax
    BY <1>7 DEF RequestOf, Request, UnstakeSubmit, Plain
  <2> HIDE DEF r
  <2>2. RequestOK(r)
    BY <1>0, <2>1 DEF RequestOK, OfThePools, OfTheAccount
  <2>. QED BY <1>7, <2>1, <2>2 DEF SubmitsOK, Previewed, r
<1>8. CASE m.kind \in OfThePools
  <2>1. /\ r.kind = m.kind /\ r.token = m.token /\ r.amount = m.value
        /\ r.least = 0 /\ r.isMax = FALSE
    BY <1>8 DEF RequestOf, Request, OfThePools, DepositSubmit, PoolWithdrawSubmit, Plain
  <2> HIDE DEF r
  <2>2. r.token \in Assets /\ r.token \in Tokens /\ r.amount \in Int /\ r.least \in Int
    BY <1>0, <1>8, <2>1
  <2>3. RequestOK(r)
    BY <1>8, <2>1, <2>2 DEF RequestOK, OfThePools, OfTheAccount
  <2>. QED BY <1>8, <2>1, <2>3 DEF SubmitsOK, Previewed, OfThePools, r
<1>. QED BY <1>0, <1>1, <1>2, <1>3, <1>4, <1>5, <1>6, <1>7, <1>8 DEF ModalKinds

LEMMA OperationOK ==
    ASSUME NEW m, ModalOK(m), m.kind \notin {"none", "borrow"}, NEW s
    PROVE  OpOK(Operation(m, s))
<1> DEFINE o == Operation(m, s)
<1>0. ModalTyped(m) /\ HealthCurrent(m)
  BY DEF ModalOK
<1>1. SubmitsOK(m, s)
  BY <1>0, RequestIsOK
<1>2. /\ o.req = RequestOf(m, s) /\ o.status = "asked" /\ o.held = Unread /\ o.answer = NoAnswer
      /\ o.seen = m.weighed /\ o.health = m.health /\ o.kind = m.kind /\ o.value = m.value
      /\ o.since = m.trade.since /\ (o.valid => m.value > 0)
  <2>1. ~checkErrors(m) => ~(m.value <= 0)
    BY DEF checkErrors
  <2>2. m.value \in Int
    BY <1>0 DEF ModalTyped
  <2>3. ~checkErrors(m) => m.value > 0
    BY <2>1, <2>2
  <2>4. o.valid = ~checkErrors(m)
    BY DEF Operation
  <2>5. o.valid => m.value > 0
    BY <2>3, <2>4
  <2>. QED BY <2>5 DEF Operation
<1> HIDE DEF o
<1>3. ViewOK(o.held) /\ o.answer \in [Assets -> Int]
  BY <1>2 DEF Unread, NoAnswer, ViewOK
<1>4. m.value \in Int /\ m.trade.path \in {<<>>} \cup Paths
  BY <1>0 DEF ModalTyped
<1>6. ASSUME m.kind \in Previewed, o.valid, o.kind = "swap" => o.since = "answered"
      PROVE  m.health = calculateHealth(
                           Foreseen(m.kind, o.req.token, o.req.to, m.value, o.req.least, m.weighed))
  <2>1. m.health = calculateHealth(ForeseenBy(m, m.weighed))
    BY <1>0, <1>2, <1>4, <1>6 DEF HealthCurrent
  <2>2. ForeseenBy(m, m.weighed)
          = Foreseen(m.kind, o.req.token, o.req.to, m.value, o.req.least, m.weighed)
    <3>1. CASE m.kind = "swap"
      BY <1>1, <1>2, <1>6, <3>1 DEF SubmitsOK, ForeseenBy
    <3>2. CASE m.kind # "swap"
      <4>1. o.req.token = m.token
        BY <1>1, <1>2, <1>6 DEF SubmitsOK
      <4>2. \A t, u, a, b : Foreseen(m.kind, m.token, t, m.value, a, m.weighed)
                             = Foreseen(m.kind, m.token, u, m.value, b, m.weighed)
        BY <3>2 DEF Foreseen
      <4>. QED BY <4>1, <4>2 DEF ForeseenBy
    <3>. QED BY <3>1, <3>2
  <2>. QED BY <2>1, <2>2
<1>7. RequestOK(o.req) /\ (o.req.kind = "swap" => m.kind = "swap" /\ o.req.path = m.trade.path)
  BY <1>1, <1>2 DEF SubmitsOK
<1>8. m.kind \in Previewed => Sends(o.kind, o.req.kind)
  BY <1>1, <1>2 DEF SubmitsOK
<1>9. OpOK(o)
  BY <1>2, <1>3, <1>4, <1>6, <1>7, <1>8 DEF OpOK
<1>. QED BY <1>9 DEF o

-----------------------------------------------------------------------------
(* The chain *)

LEMMA SourceIsInt ==
    ASSUME NEW c, ChainOK(c), NEW r, RequestOK(r), r.kind = "swap" => r.path \in Paths
    PROVE  Source(c, r) \in Int /\ (r.kind = "repay" => Source(c, r) <= c.debt[r.token])
<1>1. /\ WalletToken(r) \in Tokens \cup {Native} /\ r.token \in Tokens
      /\ r.kind = "swap" => r.path[1] \in Tokens
      /\ r.kind \in {"repay"} \cup OfThePools => r.token \in Assets
  BY TokensAre DEF RequestOK, WalletToken, Paths
<1>2. /\ c.wallet[WalletToken(r)] \in Int /\ c.bal[r.token] \in Int
      /\ r.kind = "swap" => c.bal[r.path[1]] \in Int
      /\ c.bal["AVAX"] \in Int /\ c.bal["USDC"] \in Int /\ c.bal[LP] \in Int
      /\ r.kind \in {"repay"} \cup OfThePools =>
            c.debt[r.token] \in Int /\ c.deposits[r.token] \in Int
      /\ c.native \in Int /\ c.farm \in Int
  BY <1>1, TokensAre DEF ChainOK, ViewOK
<1>3. r.kind \in OfThePools \cup OfTheAccount
  BY DEF RequestOK
<1>. QED BY <1>2, <1>3 DEF Source, AtMost, OfThePools, OfTheAccount

LEMMA OutcomeIsOK ==
    ASSUME NEW c, ChainOK(c), NEW r, RequestOK(r), r.kind = "swap" => r.path \in Paths,
           NEW e \in Outcomes(c, r)
    PROVE  EventOK(r, e) /\ (r.kind = "repay" => e.paid <= c.debt[r.token])
<1> DEFINE paid == AtMost(r.amount, Source(c, r))
           got == IF r.kind \in {"swap", "remove"} THEN r.least .. paid ELSE {paid}
<1>0. Source(c, r) \in Int /\ r.amount \in Int /\ r.least \in Int
  BY SourceIsInt DEF RequestOK
<1>1. ~(Strict(r) /\ paid < r.amount) /\ \E g \in got : e = Event(paid, g)
  BY DEF Outcomes
<1>2. paid \in Int /\ paid <= r.amount /\ paid <= Source(c, r)
  BY <1>0 DEF AtMost
<1> HIDE DEF paid
<1>3. PICK g \in got : e = Event(paid, g)
  BY <1>1
<1>4. e.paid = paid /\ e.got = g
  BY <1>3 DEF Event
<1>5. g \in Int /\ (r.kind \notin {"swap", "remove"} => g = paid) /\ (r.kind = "swap" => r.least <= g)
  BY <1>0, <1>2, <1>3
<1>6. Strict(r) => paid = r.amount
  BY <1>0, <1>1, <1>2
<1>7. r.kind = "repay" => Source(c, r) <= c.debt[r.token] /\ c.debt[r.token] \in Int
  BY SourceIsInt DEF RequestOK, ChainOK, ViewOK
<1>8. r.kind = "repay" => paid <= c.debt[r.token]
  BY <1>0, <1>2, <1>7
<1>. QED BY <1>2, <1>4, <1>5, <1>6, <1>8 DEF EventOK

LEMMA ExecutedIsOK ==
    ASSUME NEW c, ChainOK(c), NEW r, RequestOK(r), r.kind = "swap" => r.path \in Paths,
           NEW e, EventOK(r, e), r.kind = "repay" => e.paid <= c.debt[r.token]
    PROVE  ChainOK(Executed(c, r, e))
<1> DEFINE n == Executed(c, r, e)
           t == WalletToken(r)
<1>0. /\ t \in Tokens \cup {Native} /\ r.token \in Tokens
      /\ r.kind = "swap" => r.path[1] \in Tokens /\ r.path[2] \in Tokens
      /\ r.kind \in {"repay"} \cup OfThePools => r.token \in Assets
      /\ "AVAX" \in Tokens /\ "USDC" \in Tokens /\ LP \in Tokens
      /\ r.kind \in OfThePools \cup OfTheAccount
  BY TokensAre DEF RequestOK, WalletToken, Paths
<1> HIDE DEF t
<1>1. /\ DOMAIN c = AccountFields /\ c.bal \in [Tokens -> Int] /\ c.debt \in [Assets -> Int]
      /\ c.farm \in Int /\ c.native \in Int /\ c.wallet \in [Tokens \cup {Native} -> Int]
      /\ c.deposits \in [Assets -> Int] /\ e.paid \in Int /\ e.got \in Int
  BY DEF ChainOK, ViewOK, EventOK
<1>2. CASE r.kind \in {"create", "fund", "fundNative", "withdraw", "withdrawNative"}
  <2>1. /\ DOMAIN n = AccountFields /\ n.debt = c.debt /\ n.farm = c.farm
        /\ n.native = c.native /\ n.deposits = c.deposits
    BY <1>1, <1>2 DEF Executed, AccountFields
  <2>2. \/ n.wallet = [c.wallet EXCEPT ![r.token] = @ - e.paid]
        \/ n.wallet = [c.wallet EXCEPT ![t] = @ - e.paid]
        \/ n.wallet = [c.wallet EXCEPT ![t] = @ + e.paid]
    BY <1>1, <1>2 DEF Executed, AccountFields, t
  <2>3. \/ n.bal = [c.bal EXCEPT ![r.token] = @ + e.paid]
        \/ n.bal = [c.bal EXCEPT ![r.token] = @ - e.paid]
    BY <1>1, <1>2 DEF Executed, AccountFields
  <2> HIDE DEF n
  <2>4. n.wallet \in [Tokens \cup {Native} -> Int]
    BY <1>0, <1>1, <2>2
  <2>5. n.bal \in [Tokens -> Int]
    BY <1>0, <1>1, <2>3
  <2>6. ChainOK(n)
    BY <1>1, <2>1, <2>4, <2>5 DEF ChainOK, ViewOK
  <2>. QED BY <2>6 DEF n
<1>3. CASE r.kind \in {"provide", "remove"}
  <2>1. /\ DOMAIN n = AccountFields /\ n.debt = c.debt /\ n.farm = c.farm /\ n.wallet = c.wallet
        /\ n.native = c.native /\ n.deposits = c.deposits
        /\ \/ n.bal = [c.bal EXCEPT !["AVAX"] = @ - e.paid, !["USDC"] = @ - e.paid, ![LP] = @ + e.got]
           \/ n.bal = [c.bal EXCEPT !["AVAX"] = @ + e.got, !["USDC"] = @ + e.got, ![LP] = @ - e.paid]
    BY <1>1, <1>3 DEF Executed, AccountFields
  <2> HIDE DEF n
  <2>2. n.bal \in [Tokens -> Int]
    BY <1>0, <1>1, <2>1, TokensAre
  <2>3. ChainOK(n)
    BY <1>1, <2>1, <2>2 DEF ChainOK, ViewOK
  <2>. QED BY <2>3 DEF n
<1>4. CASE r.kind = "repay"
  <2>1. /\ DOMAIN n = AccountFields /\ n.debt = [c.debt EXCEPT ![r.token] = @ - e.paid]
        /\ n.farm = c.farm /\ n.wallet = c.wallet /\ n.native = c.native
        /\ n.deposits = c.deposits /\ n.bal = [c.bal EXCEPT ![r.token] = @ - e.paid]
    BY <1>1, <1>4 DEF Executed, AccountFields
  <2> HIDE DEF n
  <2>2. n.bal \in [Tokens -> Int] /\ n.debt \in [Assets -> Int]
    BY <1>0, <1>1, <1>4, <2>1
  <2>3. \A a \in Assets : n.debt[a] >= 0
    BY <1>0, <1>1, <1>4, <2>1 DEF ChainOK
  <2>4. ChainOK(n)
    BY <1>1, <2>1, <2>2, <2>3 DEF ChainOK, ViewOK
  <2>. QED BY <2>4 DEF n
<1>5. CASE r.kind = "swap"
  <2>1. /\ DOMAIN n = AccountFields /\ n.debt = c.debt
        /\ n.farm = c.farm /\ n.wallet = c.wallet /\ n.native = c.native
        /\ n.deposits = c.deposits
        /\ n.bal = [c.bal EXCEPT ![r.path[1]] = @ - e.paid, ![r.path[2]] = @ + e.got]
    BY <1>1, <1>5 DEF Executed, AccountFields
  <2> HIDE DEF n
  <2>2. n.bal \in [Tokens -> Int]
    BY <1>0, <1>1, <1>5, <2>1
  <2>3. ChainOK(n)
    BY <1>1, <2>1, <2>2 DEF ChainOK, ViewOK
  <2>. QED BY <2>3 DEF n
<1>6. CASE r.kind \in {"wrap", "stake", "unstake"}
  <2>1. /\ DOMAIN n = AccountFields /\ n.debt = c.debt /\ n.wallet = c.wallet
        /\ n.deposits = c.deposits
    BY <1>1, <1>6 DEF Executed, AccountFields
  <2>2. /\ n.farm = c.farm \/ n.farm = c.farm + e.got \/ n.farm = c.farm - e.got
        /\ n.native = c.native \/ n.native = c.native - e.paid
    BY <1>1, <1>6 DEF Executed, AccountFields
  <2>3. \/ n.bal = [c.bal EXCEPT !["AVAX"] = @ + e.paid]
        \/ n.bal = [c.bal EXCEPT ![LP] = @ - e.paid]
        \/ n.bal = [c.bal EXCEPT ![LP] = @ + e.paid]
    BY <1>1, <1>6 DEF Executed, AccountFields
  <2> HIDE DEF n
  <2>4. n.farm \in Int /\ n.native \in Int
    BY <1>1, <2>2
  <2>5. n.bal \in [Tokens -> Int]
    BY <1>0, <1>1, <2>3
  <2>6. ChainOK(n)
    BY <1>1, <2>1, <2>4, <2>5 DEF ChainOK, ViewOK
  <2>. QED BY <2>6 DEF n
<1>7. CASE r.kind \in OfThePools
  <2>1. /\ DOMAIN n = AccountFields /\ n.debt = c.debt /\ n.bal = c.bal /\ n.farm = c.farm
        /\ n.native = c.native
    BY <1>1, <1>7 DEF Executed, AccountFields, OfThePools
  <2>2. \/ /\ n.wallet = [c.wallet EXCEPT ![t] = @ - e.paid]
           /\ n.deposits = [c.deposits EXCEPT ![r.token] = @ + e.paid]
        \/ /\ n.wallet = [c.wallet EXCEPT ![t] = @ + e.paid]
           /\ n.deposits = [c.deposits EXCEPT ![r.token] = @ - e.paid]
    BY <1>1, <1>7 DEF Executed, AccountFields, OfThePools, t
  <2> HIDE DEF n
  <2>3. n.wallet \in [Tokens \cup {Native} -> Int]
    BY <1>0, <1>1, <2>2
  <2>4. n.deposits \in [Assets -> Int]
    BY <1>0, <1>1, <1>7, <2>2
  <2>5. ChainOK(n)
    BY <1>1, <2>1, <2>3, <2>4 DEF ChainOK, ViewOK
  <2>. QED BY <2>5 DEF n
<1>. QED BY <1>0, <1>2, <1>3, <1>4, <1>5, <1>6, <1>7 DEF OfTheAccount

-----------------------------------------------------------------------------
(* Steps *)

\* The invariant of the updates and the previews.
OpsOK == \A i \in DOMAIN ops : OpOK(ops[i])
Accounted == StoreOK(st) /\ ChainOK(ch) /\ ModalOK(modal) /\ OpsOK

LEMMA InitAccounted == Init => Accounted
<1> SUFFICES ASSUME Init PROVE Accounted
  OBVIOUS
<1>1. /\ ch.bal \in [Tokens -> Nat] /\ ch.debt \in [Assets -> Nat] /\ ch.farm \in Nat
      /\ ch.native \in Nat /\ ch.wallet \in [Tokens \cup {Native} -> Nat]
      /\ ch.deposits \in [Assets -> Nat] /\ DOMAIN ch = AccountFields /\ ch.loan \in BOOLEAN
      /\ ~ch.loan => View(ch) = Empty
  BY ScenarioAssumption DEF Init, Accounts, AccountFields
<1>2. ops = <<>> /\ modal = NoModal /\ st = initStores(ch)
  BY DEF Init
<1>3. ChainOK(ch)
  BY <1>1 DEF ChainOK, ViewOK
<1>4. StoreOK(st)
  <2>1. /\ DOMAIN st = StoreFields /\ st.noLoan \in BOOLEAN
        /\ st.bal = ch.bal /\ st.debt = ch.debt /\ st.farm = ch.farm /\ st.staked = ch.farm
        /\ st.total = ch.farm /\ st.deposits = ch.deposits
        /\ st.available \in {0, ch.bal[LP]}
    BY <1>1, <1>2, StoresOfAccount, StoresOfNobody
  <2>2. ch.bal[LP] \in Int
    BY <1>1, TokensAre
  <2>. QED BY <1>1, <2>1, <2>2 DEF StoreOK, ViewOK
<1>5. ModalOK(modal)
  BY <1>2, NoModalOK
<1>6. OpsOK
  BY <1>2 DEF OpsOK
<1>. QED BY <1>3, <1>4, <1>5, <1>6 DEF Accounted

\* n is o a stage further, or with a reading of an account.
Further(n, o) ==
    /\ n.req = o.req /\ n.event = o.event /\ n.value = o.value /\ n.valid = o.valid
    /\ n.since = o.since /\ n.kind = o.kind /\ n.seen = o.seen /\ n.health = o.health

LEMMA FurtherIsOK ==
    ASSUME NEW o, OpOK(o), NEW n, Further(n, o), ViewOK(n.held), n.answer \in [Assets -> Int],
           n.status \notin {"mining", "mined"}
    PROVE  OpOK(n)
BY DEF OpOK, Further

LEMMA OpsPut ==
    ASSUME Shapes, OpsOK, NEW i \in DOMAIN ops, NEW o, ops' = [ops EXCEPT ![i] = o], OpOK(o)
    PROVE  OpsOK'
<1>1. DOMAIN ops' = DOMAIN ops /\ ops'[i] = o /\ \A j \in DOMAIN ops \ {i} : ops'[j] = ops[j]
  BY DEF Shapes
<1>. QED BY <1>1 DEF OpsOK

LEMMA UnreadOK == ViewOK(Unread)
BY DEF ViewOK, Unread

LEMMA BecomeOK ==
    ASSUME Shapes, OpsOK, NEW i \in DOMAIN ops, NEW next, next \notin {"mining", "mined"},
           Become(i, next)
    PROVE  OpsOK'
<1> DEFINE o == [ops[i] EXCEPT !.status = next]
<1>1. ops' = [ops EXCEPT ![i] = o]
  BY DEF Become
<1>2. Further(o, ops[i]) /\ o.held = ops[i].held /\ o.answer = ops[i].answer /\ o.status = next
  BY DEF Shapes, OperationFields, Further
<1> HIDE DEF o
<1>3. OpOK(ops[i])
  BY DEF OpsOK
<1>4. OpOK(o)
  BY <1>2, <1>3, FurtherIsOK DEF OpOK
<1>. QED BY <1>1, <1>4, OpsPut

LEMMA ErrorAccounted ==
    ASSUME IInv, Accounted, NEW i \in DOMAIN ops,
           Refuse(i) \/ Reverted(i) \/ LoseConfirmation(i)
    PROVE  Accounted'
<1>1. Become(i, "done") /\ modal' = NoModal /\ ch' = ch /\ st' = st
  BY DEF Refuse, Reverted, LoseConfirmation, TransactionError, handleTransactionError
<1>2. Shapes /\ OpsOK
  BY DEF IInv, Accounted
<1>3. OpsOK'
  BY <1>1, <1>2, BecomeOK
<1>. QED BY <1>1, <1>3, NoModalOK DEF Accounted

LEMMA WrapAccounted ==
    ASSUME IInv, Accounted, NEW i \in DOMAIN ops, WrapFirst(i) PROVE Accounted'
<1> DEFINE o == [ops[i] EXCEPT !.req.native = FALSE]
<1>1. /\ ops[i].status = "asked" /\ ops[i].req.kind = "create"
      /\ ops' = [ops EXCEPT ![i] = o] /\ st' = st /\ modal' = modal
  BY DEF WrapFirst, At, Request_
<1>2. Shapes /\ OpOK(ops[i]) /\ OpsOK
  BY DEF IInv, Accounted, OpsOK
<1>3. /\ o.req.kind = "create" /\ o.req.token = ops[i].req.token /\ o.req.amount = ops[i].req.amount
      /\ o.req.least = ops[i].req.least /\ o.req.to = ops[i].req.to
  BY <1>1, <1>2 DEF Shapes, OperationFields, RequestFields, Request_
<1>4. /\ o.status = "asked" /\ o.held = ops[i].held /\ o.answer = ops[i].answer
      /\ o.value = ops[i].value
      /\ o.valid = ops[i].valid /\ o.kind = ops[i].kind /\ o.seen = ops[i].seen
      /\ o.health = ops[i].health
  BY <1>1, <1>2 DEF Shapes, OperationFields
<1> HIDE DEF o
<1>5. OpOK(o)
  BY <1>1, <1>2, <1>3, <1>4 DEF OpOK, RequestOK, Sends
<1>6. OpsOK'
  BY <1>1, <1>2, <1>5, OpsPut
<1>7. ChainOK(ch')
  <2>1. /\ DOMAIN ch' = AccountFields /\ ch'.bal = ch.bal /\ ch'.debt = ch.debt
        /\ ch'.farm = ch.farm /\ ch'.native = ch.native /\ ch'.deposits = ch.deposits
        /\ ch'.wallet = [ch.wallet EXCEPT ![Native] = @ - ops[i].req.amount,
                                         !["AVAX"] = @ + ops[i].req.amount]
    BY DEF WrapFirst, Request_, Accounted, ChainOK, AccountFields
  <2>2. ops[i].req.amount \in Int /\ ch.wallet \in [Tokens \cup {Native} -> Int]
    BY <1>2 DEF OpOK, RequestOK, Accounted, ChainOK
  <2>3. ch'.wallet \in [Tokens \cup {Native} -> Int]
    BY <2>1, <2>2, TokensAre
  <2>. QED BY <2>1, <2>3 DEF Accounted, ChainOK, ViewOK
<1>. QED BY <1>1, <1>6, <1>7 DEF Accounted

LEMMA WrongWalletAccounted ==
    ASSUME IInv, Accounted, NEW i \in DOMAIN ops, WrongWallet(i) PROVE Accounted'
<1>1. Shapes /\ OpOK(ops[i]) /\ OpsOK /\ Become(i, "done") /\ ch' = ch
  BY DEF IInv, Accounted, OpsOK, WrongWallet
<1>2. OpsOK'
  BY <1>1, BecomeOK
<1>3. CASE OnAccount(Request_(i))
  BY <1>1, <1>2, <1>3 DEF WrongWallet, Accounted
<1>4. CASE ~OnAccount(Request_(i))
  <2>1. ops[i].req.kind = "deposit" /\ st' = PoolDeposited(st, ops[i].req, Event(0, 0)) /\ modal' = NoModal
    BY <1>4 DEF WrongWallet, SignedTerms, OnAccount, Request_
  <2>2. ops[i].req.token \in Assets /\ ops[i].req.amount \in Int
    BY <1>1, <2>1 DEF OpOK, RequestOK, OfThePools
  <2>3. /\ DOMAIN st' = StoreFields /\ st'.noLoan = st.noLoan /\ st'.bal = st.bal
        /\ st'.debt = st.debt /\ st'.farm = st.farm /\ st'.staked = st.staked
        /\ st'.total = st.total /\ st'.available = st.available
        /\ st'.deposits = [st.deposits EXCEPT ![ops[i].req.token] = @ + ops[i].req.amount]
    BY <2>1 DEF PoolDeposited, Accounted, StoreOK, StoreFields
  <2>4. st'.deposits \in [Assets -> Int]
    BY <2>2, <2>3 DEF Accounted, StoreOK
  <2>5. StoreOK(st')
    BY <2>3, <2>4 DEF Accounted, StoreOK, ViewOK
  <2>. QED BY <1>1, <1>2, <2>1, <2>5, NoModalOK DEF Accounted
<1>. QED BY <1>3, <1>4

LEMMA SendAccounted ==
    ASSUME IInv, Accounted, NEW i \in DOMAIN ops, Send(i) PROVE Accounted'
<1> DEFINE o == [ops[i] EXCEPT !.status = "mining"]
<1>1. /\ ops[i].req.kind = "swap" => ops[i].req.path # <<>>
      /\ ops' = [ops EXCEPT ![i] = o] /\ ch' = ch /\ st' = st /\ modal' \in {modal, NoModal}
  BY DEF Send, Request_, Become
<1>2. Shapes /\ OpOK(ops[i]) /\ OpsOK
  BY DEF IInv, Accounted, OpsOK
<1>3. /\ Further(o, ops[i]) /\ o.held = ops[i].held /\ o.answer = ops[i].answer
      /\ o.status = "mining"
  BY <1>2 DEF Shapes, OperationFields, Further
<1> HIDE DEF o
<1>4. OpOK(o)
  BY <1>1, <1>2, <1>3 DEF OpOK, Further
<1>5. OpsOK'
  BY <1>1, <1>2, <1>4, OpsPut
<1>. QED BY <1>1, <1>5, NoModalOK DEF Accounted

LEMMA MineAccounted ==
    ASSUME IInv, Accounted, NEW i \in DOMAIN ops, Mine(i) PROVE Accounted'
<1>1. ops[i].status = "mining" /\ st' = st /\ modal' = modal
  BY DEF Mine, At
<1>2. Shapes /\ OpOK(ops[i]) /\ OpsOK /\ ChainOK(ch)
  BY DEF IInv, Accounted, OpsOK
<1>3. CASE Become(i, "failed") /\ ch' = ch
  <2>1. OpsOK'
    BY <1>2, <1>3, BecomeOK
  <2>. QED BY <1>1, <1>3, <2>1 DEF Accounted
<1>4. CASE ~(Become(i, "failed") /\ ch' = ch)
  <2>1. PICK e \in Outcomes(ch, ops[i].req) :
           /\ ch' = Executed(ch, ops[i].req, e)
           /\ ops' = [ops EXCEPT ![i].status = "mined", ![i].event = e]
    BY <1>4 DEF Mine, Request_
  <2> DEFINE o == [ops[i] EXCEPT !.status = "mined", !.event = e]
  <2>2. ops' = [ops EXCEPT ![i] = o]
    BY <2>1
  <2>3. /\ o.req = ops[i].req /\ o.value = ops[i].value /\ o.valid = ops[i].valid
        /\ o.kind = ops[i].kind /\ o.seen = ops[i].seen /\ o.health = ops[i].health
        /\ o.since = ops[i].since /\ o.held = ops[i].held /\ o.answer = ops[i].answer
        /\ o.status = "mined" /\ o.event = e
    BY <1>2 DEF Shapes, OperationFields
  <2> HIDE DEF o
  <2>4. RequestOK(ops[i].req) /\ (ops[i].req.kind = "swap" => ops[i].req.path \in Paths)
    BY <1>1, <1>2 DEF OpOK
  <2>5. EventOK(ops[i].req, e) /\ ChainOK(ch')
    BY <1>2, <2>1, <2>4, OutcomeIsOK, ExecutedIsOK
  <2>6. OpOK(o)
    BY <1>2, <2>3, <2>4, <2>5 DEF OpOK
  <2>7. OpsOK'
    BY <1>2, <2>2, <2>6, OpsPut
  <2>. QED BY <1>1, <2>5, <2>7 DEF Accounted
<1>. QED BY <1>3, <1>4

LEMMA ConfirmAccounted ==
    ASSUME IInv, Accounted, NEW i \in DOMAIN ops, Confirm(i) PROVE Accounted'
<1>1. /\ ops[i].status = "mined" /\ ch' = ch /\ st' = Updated(st, ops[i].req, ops[i].event)
      /\ ops' = [ops EXCEPT ![i].status = "soon", ![i].after = RefreshesRunning(ops[i].req)]
      /\ modal' \in {modal, NoModal, [modal EXCEPT !.seen = View(st')]}
  BY DEF Confirm, At, Request_
<1>2. Shapes /\ OpOK(ops[i]) /\ OpsOK /\ StoreOK(st) /\ ModalOK(modal)
  BY DEF IInv, Accounted, OpsOK
<1> DEFINE o == [ops[i] EXCEPT !.status = "soon", !.after = RefreshesRunning(ops[i].req)]
<1>3. ops' = [ops EXCEPT ![i] = o]
  BY <1>1
<1>4. Further(o, ops[i]) /\ o.held = ops[i].held /\ o.answer = ops[i].answer /\ o.status = "soon"
  BY <1>2 DEF Shapes, OperationFields, Further
<1> HIDE DEF o
<1>5. OpsOK'
  BY <1>2, <1>3, <1>4, FurtherIsOK, OpsPut DEF OpOK
<1>6. StoreOK(st')
  <2>1. Pictures(Pictured(st), st)
    BY DEF Pictures, Pictured, AccountFields
  <2>2. RequestOK(ops[i].req) /\ EventOK(ops[i].req, ops[i].event)
    BY <1>1, <1>2 DEF OpOK
  <2>. QED BY <1>1, <1>2, <2>1, <2>2, UpdateFollows
<1>7. ViewOK(View(st'))
  BY <1>6 DEF StoreOK, View, ViewOK
<1>8. ModalOK(modal')
  BY <1>1, <1>2, <1>7, NoModalOK, SeenKeeps
<1>. QED BY <1>1, <1>5, <1>6, <1>8 DEF Accounted

-----------------------------------------------------------------------------
(* The timers, and the user *)

LEMMA StoresRead ==
    ASSUME NEW s, StoreOK(s), NEW deposits \in [Assets -> Int], NEW wallet
    PROVE  StoreOK(setupPools(s, deposits)) /\ StoreOK(updateBalance(s, wallet))
<1> DEFINE n == setupPools(s, deposits)
           m == updateBalance(s, wallet)
<1>1. /\ DOMAIN n = StoreFields /\ n.noLoan = s.noLoan /\ n.bal = s.bal /\ n.debt = s.debt
      /\ n.farm = s.farm /\ n.staked = s.staked /\ n.total = s.total
      /\ n.available = s.available /\ n.deposits = deposits
  BY DEF setupPools, watchPools, setupTotalDeposit, StoreOK, StoreFields
<1>2. /\ DOMAIN m = StoreFields /\ m.noLoan = s.noLoan /\ m.bal = s.bal /\ m.debt = s.debt
      /\ m.farm = s.farm /\ m.staked = s.staked /\ m.total = s.total
      /\ m.available = s.available /\ m.deposits = s.deposits
  BY DEF updateBalance, StoreOK, StoreFields
<1> HIDE DEF n, m
<1>3. StoreOK(n) /\ StoreOK(m)
  BY <1>1, <1>2 DEF StoreOK, ViewOK
<1>. QED BY <1>3 DEF n, m

\* Every commit of a refresh leaves stores of whole numbers.
LEMMA RefreshedOK ==
    ASSUME NEW s, StoreOK(s), NEW v, ViewOK(v)
    PROVE  /\ StoreOK(setNoSmartLoan(s, FALSE)) /\ StoreOK(getAllAssetsBalances(s, v))
           /\ StoreOK(getDebtsPerAsset(s, v)) /\ StoreOK(getFullLoanStatus(s, v))
           /\ StoreOK(updateStakedBalances(s, v)) /\ StoreOK(watchHealthRefresh(s))
<1>0. /\ DOMAIN s = StoreFields /\ s.bal \in [Tokens -> Int] /\ v.bal \in [Tokens -> Int]
      /\ LP \in Tokens
  BY TokensAre DEF StoreOK, ViewOK
<1>1. ASSUME NEW n, DOMAIN n = StoreFields, n.noLoan \in BOOLEAN, ViewOK(n), n.staked \in Int,
             n.total \in Int, n.available \in Int, n.deposits = s.deposits
      PROVE  StoreOK(n)
  BY <1>1 DEF StoreOK
<1>2. StoreOK(setNoSmartLoan(s, FALSE))
  <2> DEFINE n == setNoSmartLoan(s, FALSE)
  <2>1. /\ DOMAIN n = StoreFields /\ n.noLoan = FALSE /\ n.bal = s.bal /\ n.debt = s.debt
        /\ n.farm = s.farm /\ n.staked = s.staked /\ n.total = s.total
        /\ n.available \in {s.available, s.bal[LP]} /\ n.deposits = s.deposits
    BY <1>0 DEF setNoSmartLoan, setupAvailable, StoreFields
  <2> HIDE DEF n
  <2>2. StoreOK(n)
    BY <1>0, <2>1 DEF StoreOK, ViewOK
  <2>. QED BY <2>2 DEF n
<1>3. StoreOK(getAllAssetsBalances(s, v))
  <2> DEFINE n == getAllAssetsBalances(s, v)
  <2>1. /\ DOMAIN n = StoreFields /\ n.noLoan = s.noLoan /\ n.bal = v.bal /\ n.debt = s.debt
        /\ n.farm = s.farm /\ n.staked = s.staked /\ n.total = s.total
        /\ n.available \in {s.available, v.bal[LP]} /\ n.deposits = s.deposits
    BY <1>0 DEF getAllAssetsBalances, watchAssetBalancesDataRefreshEvent, setupAvailable, StoreFields
  <2> HIDE DEF n
  <2>2. StoreOK(n)
    BY <1>0, <2>1 DEF StoreOK, ViewOK
  <2>. QED BY <2>2 DEF n
<1>4. StoreOK(getDebtsPerAsset(s, v))
  <2> DEFINE n == getDebtsPerAsset(s, v)
  <2>1. /\ DOMAIN n = StoreFields /\ n.noLoan = s.noLoan /\ n.bal = s.bal /\ n.debt = v.debt
        /\ n.farm = s.farm /\ n.staked = s.staked /\ n.total = s.total
        /\ n.available = s.available /\ n.deposits = s.deposits
    BY <1>0 DEF getDebtsPerAsset, StoreFields
  <2> HIDE DEF n
  <2>2. StoreOK(n)
    BY <1>0, <2>1 DEF StoreOK, ViewOK
  <2>. QED BY <2>2 DEF n
<1>5. StoreOK(getFullLoanStatus(s, v)) /\ StoreOK(watchHealthRefresh(s))
  <2>1. ASSUME NEW h PROVE StoreOK([s EXCEPT !.header = h]) /\ StoreOK([s EXCEPT !.health = h])
    BY <1>0 DEF StoreOK, ViewOK, StoreFields
  <2>. QED BY <2>1 DEF getFullLoanStatus, updateLoanStatus, watchHealthRefresh
<1>6. StoreOK(updateStakedBalances(s, v))
  <2> DEFINE n == updateStakedBalances(s, v)
  <2>1. /\ DOMAIN n = StoreFields /\ n.noLoan = s.noLoan /\ n.bal = s.bal /\ n.debt = s.debt
        /\ n.farm = v.farm /\ n.staked = v.farm /\ n.total = v.farm
        /\ n.available = s.available /\ n.deposits = s.deposits
    BY <1>0 DEF updateStakedBalances, watchFarmRefreshEvent, StoreFields
  <2> HIDE DEF n
  <2>2. StoreOK(n)
    BY <1>0, <2>1 DEF StoreOK, ViewOK
  <2>. QED BY <2>2 DEF n
<1>. QED BY <1>2, <1>3, <1>4, <1>5, <1>6

LEMMA TimersAccounted ==
    ASSUME IInv, Accounted, NEW i \in DOMAIN ops,
           Soon(i) \/ StartRefresh(i) \/ CommitPrices(i) \/ Weigh(i) \/ RefreshFails(i)
    PROVE  Accounted'
<1>1. /\ Shapes /\ OpsOK /\ StoreOK(st) /\ ch.deposits \in [Assets -> Int] /\ ViewOK(Unread)
      /\ ch' = ch /\ modal' = modal
  BY UnreadOK DEF IInv, Accounted, ChainOK, Soon, StartRefresh, CommitPrices, Weigh, RefreshFails
<1>2. \E next \in {"due", "done", "prices", "balances"} : Become(i, next)
  BY DEF Soon, StartRefresh, CommitPrices, Weigh, RefreshFails
<1>3. OpsOK'
  BY <1>1, <1>2, BecomeOK
<1>4. StoreOK(st')
  <2>1. CASE Soon(i)
    <3> DEFINE pools == IF Request_(i).kind = "repay" THEN setupPools(st, ch.deposits) ELSE st
    <3>1. st' \in {pools, updateBalance(pools, ch.wallet)}
      BY <2>1 DEF Soon
    <3>2. StoreOK(pools)
      BY <1>1, StoresRead
    <3> HIDE DEF pools
    <3>. QED BY <1>1, <3>1, <3>2, StoresRead
  <2>2. CASE ~Soon(i)
    <3>1. st' = st \/ st' = setNoSmartLoan(st, FALSE) \/ st' = watchHealthRefresh(st)
      BY <2>2 DEF StartRefresh, CommitPrices, Weigh, RefreshFails
    <3>. QED BY <1>1, <3>1, RefreshedOK
  <2>. QED BY <2>1, <2>2
<1>. QED BY <1>1, <1>3, <1>4 DEF Accounted

LEMMA PoolsAccounted ==
    ASSUME IInv, Accounted, NEW i \in DOMAIN ops, ReadPools(i) \/ CommitPools(i)
    PROVE  Accounted'
<1>1. Shapes /\ OpOK(ops[i]) /\ OpsOK /\ StoreOK(st) /\ ch.deposits \in [Assets -> Int]
  BY DEF IInv, Accounted, OpsOK, ChainOK
<1>2. PICK next \in {"pools", "done"}, answer \in {ch.deposits, NoAnswer} :
         /\ ops' = [ops EXCEPT ![i].status = next, ![i].answer = answer]
         /\ ch' = ch /\ modal' = modal /\ st' \in {st, setupPools(st, ops[i].answer)}
  BY DEF ReadPools, CommitPools
<1> DEFINE o == [ops[i] EXCEPT !.status = next, !.answer = answer]
<1>3. ops' = [ops EXCEPT ![i] = o]
  BY <1>2
<1>4. Further(o, ops[i]) /\ o.held = ops[i].held /\ o.answer = answer /\ o.status = next
  BY <1>1 DEF Shapes, OperationFields, Further
<1> HIDE DEF o
<1>5. answer \in [Assets -> Int]
  BY <1>1, <1>2 DEF NoAnswer
<1>6. OpsOK'
  BY <1>1, <1>2, <1>3, <1>4, <1>5, FurtherIsOK, OpsPut DEF OpOK
<1>7. StoreOK(st')
  BY <1>1, <1>2, StoresRead DEF OpOK
<1>. QED BY <1>2, <1>6, <1>7 DEF Accounted

LEMMA ReadAccounted ==
    ASSUME IInv, Accounted, NEW i \in DOMAIN ops, Read(i) PROVE Accounted'
<1> DEFINE o == [ops[i] EXCEPT !.held = View(ch)]
<1>1. /\ ops[i].status \in {"balances", "debts", "status", "farm"} /\ ops' = [ops EXCEPT ![i] = o]
      /\ ch' = ch /\ st' = st /\ modal' = modal
  BY DEF Read
<1>2. Shapes /\ OpOK(ops[i]) /\ OpsOK /\ ViewOK(View(ch))
  BY DEF IInv, Accounted, OpsOK, ChainOK, ViewOK, View
<1>3. /\ Further(o, ops[i]) /\ o.held = View(ch) /\ o.answer = ops[i].answer
      /\ o.status = ops[i].status
  BY <1>2 DEF Shapes, OperationFields, Further
<1> HIDE DEF o
<1>4. OpsOK'
  BY <1>1, <1>2, <1>3, FurtherIsOK, OpsPut DEF OpOK
<1>. QED BY <1>1, <1>4 DEF Accounted

LEMMA CommitAccounted ==
    ASSUME IInv, Accounted, NEW i \in DOMAIN ops,
           CommitBalances(i) \/ CommitDebts(i) \/ CommitStatus(i) \/ CommitFarm(i)
    PROVE  Accounted'
<1> DEFINE Goes(next, store) ==
      /\ ops' = [ops EXCEPT ![i].status = next, ![i].held = Unread] /\ st' = store /\ ch' = ch
<1>a. CommitBalances(i) => Goes("debts", getAllAssetsBalances(st, ops[i].held))
  BY DEF CommitBalances, Commit
<1>b. CommitDebts(i) => Goes("status", getDebtsPerAsset(st, ops[i].held))
  BY DEF CommitDebts, Commit
<1>c. CommitStatus(i) => Goes("farm", getFullLoanStatus(st, ops[i].held))
  BY DEF CommitStatus, Commit
<1>d. CommitFarm(i) => Goes("health", updateStakedBalances(st, ops[i].held))
  BY DEF CommitFarm, Commit
<1>e. modal' \in {modal, [modal EXCEPT !.live = FALSE]}
  BY DEF CommitBalances, CommitDebts, CommitStatus, CommitFarm
<1>0. PICK next \in {"debts", "status", "farm", "health"} :
         /\ ops' = [ops EXCEPT ![i].status = next, ![i].held = Unread]
         /\ \/ st' = getAllAssetsBalances(st, ops[i].held) \/ st' = getDebtsPerAsset(st, ops[i].held)
            \/ st' = getFullLoanStatus(st, ops[i].held) \/ st' = updateStakedBalances(st, ops[i].held)
         /\ ch' = ch
  BY <1>a, <1>b, <1>c, <1>d
<1> DEFINE o == [ops[i] EXCEPT !.status = next, !.held = Unread]
<1>1. ops' = [ops EXCEPT ![i] = o]
  BY <1>0
<1>2. Shapes /\ OpOK(ops[i]) /\ OpsOK /\ StoreOK(st) /\ ModalOK(modal)
  BY DEF IInv, Accounted, OpsOK
<1>3. Further(o, ops[i]) /\ o.held = Unread /\ o.answer = ops[i].answer /\ o.status = next
  BY <1>2 DEF Shapes, OperationFields, Further
<1> HIDE DEF o
<1>4. OpsOK'
  <2>1. o.answer \in [Assets -> Int]
    BY <1>2, <1>3 DEF OpOK
  <2>2. OpOK(o)
    BY <1>0, <1>2, <1>3, <2>1, UnreadOK, FurtherIsOK
  <2>. QED BY <1>1, <1>2, <2>2, OpsPut
<1>5. StoreOK(st')
  BY <1>0, <1>2, RefreshedOK DEF OpOK
<1>6. ModalOK(modal')
  <2>1. ModalOK([modal EXCEPT !.live = FALSE])
    BY <1>2, TouchedAlike, AlikeKeeps DEF ModalOK, ModalTyped
  <2>. QED BY <1>2, <1>e, <2>1
<1>. QED BY <1>0, <1>4, <1>5, <1>6 DEF Accounted

LEMMA OpenAccounted == ASSUME IInv, Accounted, OpenModal \/ CloseByHand PROVE Accounted'
<1>0. StoreOK(st) /\ ChainOK(ch) /\ OpsOK
  BY DEF Accounted
<1>1. CASE CloseByHand
  BY <1>0, <1>1, NoModalOK DEF CloseByHand, Accounted, OpsOK
<1>2. CASE OpenModal
  <2>1. ch' = ch /\ ops' = ops /\ modal' \in Openable(st, ch, enabled)
        /\ st' \in {st, updateBalance(st, ch.wallet)}
    BY <1>2 DEF OpenModal
  <2>2. ModalOK(modal')
    BY <1>0, <2>1, OpenableOK
  <2>3. StoreOK(st')
    BY <1>0, <2>1, StoresRead DEF ChainOK
  <2>. QED BY <1>0, <2>1, <2>2, <2>3 DEF Accounted, OpsOK
<1>. QED BY <1>1, <1>2

LEMMA InputAccounted ==
    ASSUME IInv, Accounted, TypeValue \/ PressMax \/ Toggle \/ ChangeSwap \/ RouterAnswers
    PROVE  Accounted'
<1>0. /\ ModalOK(modal) /\ ModalTyped(modal) /\ DOMAIN modal = ModalFields
      /\ DOMAIN modal.trade = TradeFields /\ Amounts \subseteq Int /\ StoreOK(st) /\ ChainOK(ch) /\ OpsOK
  BY DashboardAssumption DEF Accounted, ModalOK, ModalTyped
<1>1. ch' = ch /\ ops' = ops /\ st' = st
  BY DEF TypeValue, PressMax, Toggle, ChangeSwap, RouterAnswers
<1>2. ModalOK(modal')
  <2>1. CASE TypeValue
    BY <1>0, <2>1, TypedOK DEF TypeValue
  <2>2. CASE PressMax
    <3>1. modal.kind # "swap" /\ modal' = setMax(modal)
      BY <2>2 DEF PressMax, WithMax
    <3>. QED BY <1>0, <3>1, TypedOK
  <2>3. CASE Toggle
    BY <1>0, <2>3, TouchedAlike, AlikeKeeps DEF Toggle
  <2>4. CASE ChangeSwap
    BY <1>0, <2>4, SwapInputsOK DEF ChangeSwap
  <2>5. CASE RouterAnswers
    <3>1. modal.kind = "swap" /\ modal' \in SwapAnswers(modal)
      BY <2>5 DEF RouterAnswers
    <3>2. \/ \E i \in DOMAIN modal.trade.asked :
                modal.trade.asked[i].answer.received > 0 /\ modal' = Answered(modal, i)
          \/ \E i \in DOMAIN modal.trade.asked : modal' = Unanswered(modal, i)
      BY <3>1 DEF SwapAnswers
    <3>. QED BY <1>0, <3>1, <3>2, SwapAnswersOK
  <2>. QED BY <2>1, <2>2, <2>3, <2>4, <2>5
<1>. QED BY <1>0, <1>1, <1>2 DEF Accounted, OpsOK

LEMMA SubmitAccounted == ASSUME IInv, Accounted, Submit PROVE Accounted'
<1>0. /\ ModalOK(modal) /\ DOMAIN modal = ModalFields /\ DOMAIN modal.trade = TradeFields
      /\ StoreOK(st) /\ ChainOK(ch) /\ OpsOK /\ Shapes
  BY DEF IInv, Accounted, ModalOK, ModalTyped
<1>1. /\ modal.kind # "none" /\ modal' = [modal EXCEPT !.busy = TRUE] /\ ch' = ch /\ st' = st
      /\ ops' = IF Heard(modal) THEN Append(ops, Operation(modal, st)) ELSE ops
  BY DEF Submit
<1>2. ModalOK(modal')
  BY <1>0, <1>1, TouchedAlike, AlikeKeeps
<1>3. OpsOK'
  <2>1. CASE ~Heard(modal)
    BY <1>0, <1>1, <2>1 DEF OpsOK
  <2>2. CASE Heard(modal)
    <3> DEFINE o == Operation(modal, st)
    <3>1. OpOK(o)
      BY <1>0, <1>1, <2>2, OperationOK DEF Heard
    <3>2. PICK S : ops \in Seq(S)
      BY <1>0 DEF Shapes
    <3> HIDE DEF o
    <3>3. /\ DOMAIN ops' = DOMAIN ops \cup {Len(ops) + 1} /\ ops'[Len(ops) + 1] = o
          /\ \A j \in DOMAIN ops : ops'[j] = ops[j]
      BY <1>1, <2>2, <3>2, Appended DEF o
    <3>. QED BY <1>0, <3>1, <3>3 DEF OpsOK
  <2>. QED BY <2>1, <2>2
<1>. QED BY <1>0, <1>1, <1>2, <1>3 DEF Accounted

LEMMA StepKeepsAccounted == IInv /\ Accounted /\ [Next]_vars => Accounted'
<1> SUFFICES ASSUME IInv, Accounted, [Next]_vars PROVE Accounted'
  OBVIOUS
<1>1. CASE UNCHANGED vars
  BY <1>1 DEF vars, Accounted, OpsOK
<1>2. CASE User
  BY <1>2, OpenAccounted, InputAccounted, SubmitAccounted DEF User
<1>3. ASSUME NEW i \in DOMAIN ops, Wallet(i) PROVE Accounted'
  BY <1>3, ErrorAccounted, WrapAccounted, WrongWalletAccounted, SendAccounted DEF Wallet
<1>4. ASSUME NEW i \in DOMAIN ops, Chain(i) PROVE Accounted'
  BY <1>4, MineAccounted, ErrorAccounted, ConfirmAccounted DEF Chain
<1>5. ASSUME NEW i \in DOMAIN ops, Timers(i) PROVE Accounted'
  BY <1>5, TimersAccounted, PoolsAccounted, ReadAccounted, CommitAccounted DEF Timers
<1>. QED BY <1>1, <1>2, <1>3, <1>4, <1>5 DEF Next

-----------------------------------------------------------------------------
(* Confirmations *)

LEMMA StepsOfOne ==
    ASSUME NEW k \in DOMAIN ops, Wallet(k) \/ Chain(k) \/ Timers(k)
    PROVE  \E o : ops' = [ops EXCEPT ![k] = o]
<1>1. ASSUME NEW next, Become(k, next) PROVE \E o : ops' = [ops EXCEPT ![k] = o]
  <2> DEFINE o == [ops[k] EXCEPT !.status = next]
  <2>1. ops' = [ops EXCEPT ![k] = o]
    BY <1>1 DEF Become
  <2>. QED BY <2>1
<1>2. CASE Refuse(k) \/ WrongWallet(k) \/ Send(k) \/ Reverted(k) \/ LoseConfirmation(k)
           \/ Soon(k) \/ StartRefresh(k) \/ CommitPrices(k) \/ Weigh(k)
           \/ RefreshFails(k)
  BY <1>1, <1>2 DEF Refuse, WrongWallet, Send, Reverted, LoseConfirmation, TransactionError,
     Soon, StartRefresh, CommitPrices, Weigh, RefreshFails
<1>3. CASE WrapFirst(k)
  <2> DEFINE o == [ops[k] EXCEPT !.req.native = FALSE]
  <2>1. ops' = [ops EXCEPT ![k] = o]
    BY <1>3 DEF WrapFirst
  <2>. QED BY <2>1
<1>4. CASE Mine(k)
  <2>1. CASE Become(k, "failed")
    BY <1>1, <2>1
  <2>2. CASE ~Become(k, "failed")
    <3>1. PICK e : ops' = [ops EXCEPT ![k].status = "mined", ![k].event = e]
      BY <1>4, <2>2 DEF Mine
    <3> DEFINE o == [ops[k] EXCEPT !.status = "mined", !.event = e]
    <3>2. ops' = [ops EXCEPT ![k] = o]
      BY <3>1
    <3>. QED BY <3>2
  <2>. QED BY <2>1, <2>2
<1>5. CASE Confirm(k)
  <2> DEFINE o == [ops[k] EXCEPT !.status = "soon", !.after = RefreshesRunning(Request_(k))]
  <2>1. ops' = [ops EXCEPT ![k] = o]
    BY <1>5 DEF Confirm
  <2>. QED BY <2>1
<1>6. CASE Read(k)
  <2> DEFINE o == [ops[k] EXCEPT !.held = View(ch)]
  <2>1. ops' = [ops EXCEPT ![k] = o]
    BY <1>6 DEF Read
  <2>. QED BY <2>1
<1>7. CASE CommitBalances(k) \/ CommitDebts(k) \/ CommitStatus(k) \/ CommitFarm(k)
  <2>1. \E next : ops' = [ops EXCEPT ![k].status = next, ![k].held = Unread]
    <3>1. ASSUME NEW status, NEW next, NEW store, Commit(k, status, next, store)
          PROVE  ops' = [ops EXCEPT ![k].status = next, ![k].held = Unread]
      BY <3>1 DEF Commit
    <3>2. \E status, next, store : Commit(k, status, next, store)
      BY <1>7 DEF CommitBalances, CommitDebts, CommitStatus, CommitFarm
    <3>. QED BY <3>1, <3>2
  <2>2. PICK next : ops' = [ops EXCEPT ![k].status = next, ![k].held = Unread]
    BY <2>1
  <2> DEFINE o == [ops[k] EXCEPT !.status = next, !.held = Unread]
  <2>3. ops' = [ops EXCEPT ![k] = o]
    BY <2>2
  <2>. QED BY <2>3
<1>8. CASE ReadPools(k) \/ CommitPools(k)
  <2>1. PICK next, answer : ops' = [ops EXCEPT ![k].status = next, ![k].answer = answer]
    BY <1>8 DEF ReadPools, CommitPools
  <2> DEFINE o == [ops[k] EXCEPT !.status = next, !.answer = answer]
  <2>2. ops' = [ops EXCEPT ![k] = o]
    BY <2>1
  <2>. QED BY <2>2
<1>. QED BY <1>2, <1>3, <1>4, <1>5, <1>6, <1>7, <1>8 DEF Wallet, Chain, Timers

\* Only its receipt makes a mined operation a confirmed one.
LEMMA OnlyConfirm ==
    ASSUME IInv, [Next]_vars, NEW i \in DOMAIN ops,
           ops[i].status = "mined", ops'[i].status = "soon"
    PROVE  Confirm(i)
<1>1. Shapes
  BY DEF IInv
<1>2. ops' # ops
  OBVIOUS
<1>3. ~User
  <2>1. CASE Submit
    <3>1. PICK S : ops \in Seq(S)
      BY <1>1 DEF Shapes
    <3>2. ops'[i] = ops[i]
      BY <1>2, <2>1, <3>1, Appended DEF Submit
    <3>. QED BY <3>2
  <2>2. CASE OpenModal \/ TypeValue \/ PressMax \/ Toggle \/ ChangeSwap \/ RouterAnswers \/ CloseByHand
    BY <1>2, <2>2 DEF OpenModal, TypeValue, PressMax, Toggle, ChangeSwap, RouterAnswers, CloseByHand
  <2>. QED BY <2>1, <2>2 DEF User
<1>4. PICK k \in DOMAIN ops : Wallet(k) \/ Chain(k) \/ Timers(k)
  BY <1>2, <1>3 DEF Next, vars
<1>5. k = i
  <2>1. PICK o : ops' = [ops EXCEPT ![k] = o]
    BY <1>4, StepsOfOne
  <2>2. k # i => ops'[i] = ops[i]
    BY <2>1
  <2>. QED BY <2>2
<1>6. ~Wallet(i) /\ ~Mine(i) /\ ~Reverted(i)
  BY DEF Wallet, Refuse, WrapFirst, WrongWallet, Send, Mine, Reverted, At
<1>7. ~Timers(i)
  BY DEF Timers, Soon, ReadPools, CommitPools, StartRefresh, CommitPrices, Read, CommitBalances,
         CommitDebts, CommitStatus, CommitFarm, Commit, Weigh, RefreshFails, At, Refreshing
<1>8. ~LoseConfirmation(i)
  <2>1. CASE LoseConfirmation(i)
    <3>1. Become(i, "done")
      BY <2>1 DEF LoseConfirmation, TransactionError
    <3>2. ops'[i].status = "done"
      BY <1>1, <3>1, BecomeMoves DEF Moves
    <3>. QED BY <3>2
  <2>. QED BY <2>1
<1>. QED BY <1>4, <1>5, <1>6, <1>7, <1>8 DEF Chain

LEMMA ConfirmedAgrees ==
    ASSUME IInv, Accounted, [Next]_vars, NEW i \in DOMAIN ops, ConfirmedInTheOpen(i)
    PROVE  /\ Agrees(st', ch)
           /\ View(st') = View(Executed(Pictured(st), ops[i].req, ops[i].event))
<1> DEFINE r == ops[i].req
           e == ops[i].event
           after == Executed(Pictured(st), r, e)
           told == [st EXCEPT !.bal = after.bal, !.debt = after.debt, !.farm = after.farm,
                              !.staked = @ + (after.farm - st.farm),
                              !.total = @ + (after.farm - st.farm),
                              !.available = @ + (after.bal[LP] - st.bal[LP]),
                              !.deposits = after.deposits]
<1>1. /\ ops[i].status = "mined" /\ ops'[i].status = "soon" /\ ops[i].valid
      /\ r.kind # "create" /\ AsAsked(r, e) /\ Agrees(told, ch)
  BY DEF ConfirmedInTheOpen, At, Request_
<1>2. st' = Updated(st, r, e)
  BY <1>1, OnlyConfirm DEF Confirm, Request_
<1>3. StoreOK(st) /\ OpOK(ops[i])
  BY DEF Accounted, OpsOK
<1>4. Pictures(Pictured(st), st)
  BY DEF Pictures, Pictured, AccountFields
<1>5. RequestOK(r) /\ EventOK(r, e) /\ (r.kind = "swap" => r.path = <<r.token, r.to>>)
  BY <1>1, <1>3 DEF OpOK, AsAsked
<1>6. Follows(st', st, after) /\ StoreOK(st')
  BY <1>1, <1>2, <1>3, <1>4, <1>5, UpdateFollows DEF AsAsked
<1> HIDE DEF after
<1>7. /\ told.bal = after.bal /\ told.debt = after.debt /\ told.farm = after.farm
      /\ told.deposits = after.deposits /\ told.noLoan = st.noLoan
      /\ told.staked = st.staked + (after.farm - st.farm)
      /\ told.total = st.total + (after.farm - st.farm)
      /\ told.available = st.available + (after.bal[LP] - st.bal[LP])
  BY <1>3 DEF StoreOK, StoreFields
<1> HIDE DEF told
<1>8. /\ after.bal = ch.bal /\ after.debt = ch.debt /\ after.farm = ch.farm
      /\ after.deposits = ch.deposits
  BY <1>1, <1>7 DEF Agrees, View
<1>9. View(st') = View(ch) /\ st'.deposits = ch.deposits /\ st'.farm = after.farm
  BY <1>6, <1>8 DEF Follows, View
<1>10. st'.staked = st'.farm /\ st'.total = st'.farm
  BY <1>1, <1>6, <1>7, <1>9 DEF Agrees, Follows
<1>11. ~st'.noLoan => st'.available = st'.bal[LP]
  <2>1. st.available \in Int /\ st.bal[LP] \in Int /\ st'.bal[LP] \in Int /\ st'.bal = after.bal
    BY <1>3, <1>6, TokensAre DEF StoreOK, ViewOK, Follows
  <2>2. ~st'.noLoan => st.available + (after.bal[LP] - st.bal[LP]) = after.bal[LP]
    BY <1>1, <1>6, <1>7 DEF Agrees, Follows
  <2>3. ~st'.noLoan => st.available = st.bal[LP]
    BY <2>1, <2>2
  <2>. QED BY <1>6, <2>3 DEF Follows
<1>12. View(st') = View(after)
  BY <1>8, <1>9 DEF View
<1>. QED BY <1>9, <1>10, <1>11, <1>12 DEF Agrees, after

\* An update from an event does to the stores what the contracts did to the account, for
\* every kind of operation (the actions of fundsStore and stakeStore, handleTransaction of
\* the rows), in every state in which the stores show the account it was executed on.
THEOREM UpdatesFollowChainHolds == Spec => UpdatesFollowChain
<1>1. ASSUME IInv, Accounted, [Next]_vars
      PROVE  [\A i \in DOMAIN ops : ConfirmedInTheOpen(i) => Agrees(st', ch)]_vars
  BY <1>1, ConfirmedAgrees
<1>. QED BY InitIInv, InitAnswers, InitAccounted, StepKeepsIInv, StepKeepsAnswers, StepKeepsAccounted,
            <1>1, PTL
         DEF Spec, UpdatesFollowChain

-----------------------------------------------------------------------------
(* Previews *)

LEMMA CancelProduct ==
    ASSUME NEW a \in Nat, NEW b \in Nat, NEW c \in Nat \ {0}, a * c <= b * c
    PROVE  a <= b
<1>1. CASE a <= b
  BY <1>1
<1>2. CASE a >= b + 1
  <2>1. (b + 1) * c <= a * c
    BY <1>2, MulMonotone
  <2>2. (b + 1) * c = b * c + c
    OBVIOUS
  <2>3. b * c \in Nat /\ a * c \in Nat
    BY MulNat
  <2>. QED BY <2>1, <2>2, <2>3
<1>. QED BY <1>1, <1>2

\* A larger fraction, scaled and rounded down, is not smaller.
LEMMA FractionGrows ==
    ASSUME NEW l \in Nat, NEW c \in Nat \ {0}, NEW m \in Nat, NEW d \in Nat \ {0}, NEW unit \in Nat,
           l * d <= m * c
    PROVE  (l * unit) \div c <= (m * unit) \div d
<1> DEFINE q == (l * unit) \div c
<1>1. l * unit \in Nat /\ m * unit \in Nat /\ l * d \in Nat /\ m * c \in Nat
  BY MulNat
<1>2. q \in Nat /\ q * c <= l * unit
  BY <1>1, DivNat, DivLE
<1> HIDE DEF q
<1>3. q * c \in Nat /\ q * d \in Nat
  BY <1>2, MulNat
<1>4. d * (q * c) <= d * (l * unit)
  BY <1>1, <1>2, <1>3, MulMonotone
<1>5. unit * (l * d) <= unit * (m * c)
  BY <1>1, MulMonotone
<1>6. d * (l * unit) = unit * (l * d)
  OBVIOUS
<1>7. unit * (m * c) = (m * unit) * c
  OBVIOUS
<1>8. d * (q * c) = (q * d) * c
  BY <1>2
<1>9. (q * d) * c <= (m * unit) * c
  <2>1. /\ d * (q * c) \in Nat /\ d * (l * unit) \in Nat /\ unit * (m * c) \in Nat
    BY <1>1, <1>3, MulNat
  <2>. QED BY <1>4, <1>5, <1>6, <1>7, <1>8, <2>1
<1>10. q * d <= m * unit
  BY <1>1, <1>3, <1>9, CancelProduct
<1>. QED BY <1>1, <1>2, <1>10, DivGE DEF q

LEMMA CoverageIs ==
    /\ Coverage \in Nat \ {0} /\ CoverageUnit \in Nat /\ HealthUnit \in Nat
    /\ Coverage < CoverageUnit
BY CoverageAssumption

\* More worth for the same debt does not lower the health.
LEMMA HealthGrows ==
    ASSUME NEW u, NEW v, Worth(u) \in Int, Worth(v) \in Int, Worth(u) <= Worth(v),
           Owed(u) \in Nat, Owed(v) = Owed(u)
    PROVE  calculateHealth(u) <= calculateHealth(v)
<1> DEFINE owed == Owed(u)
           W == Worth(u)
           X == Worth(v)
           c == Coverage * (W - owed)
           l == Coverage * W - CoverageUnit * owed
           d == Coverage * (X - owed)
           m == Coverage * X - CoverageUnit * owed
<1>1. /\ calculateHealth(u) = IF owed = 0 THEN HealthUnit ELSE IF c <= 0 \/ l <= 0 THEN 0
                              ELSE (l * HealthUnit) \div c
      /\ calculateHealth(v) = IF owed = 0 THEN HealthUnit ELSE IF d <= 0 \/ m <= 0 THEN 0
                              ELSE (m * HealthUnit) \div d
  BY DEF calculateHealth
<1>2. owed \in Nat /\ W \in Int /\ X \in Int /\ W <= X
  OBVIOUS
<1> DEFINE CW == Coverage * W
           CX == Coverage * X
           CO == Coverage * owed
           UO == CoverageUnit * owed
<1> HIDE DEF owed, W, X
<1>3. /\ CW \in Int /\ CX \in Int /\ CO \in Nat /\ UO \in Nat /\ CW <= CX /\ CO <= UO
  <2>1. Coverage * (X - W) \in Nat
    BY <1>2, CoverageIs, MulNat
  <2>2. Coverage * (X - W) = CX - CW /\ CX \in Int /\ CW \in Int
    BY <1>2, CoverageIs
  <2>3. CO \in Nat /\ UO \in Nat
    BY <1>2, CoverageIs, MulNat
  <2>4. owed * Coverage <= owed * CoverageUnit
    BY <1>2, CoverageIs, MulMonotone
  <2>5. owed * Coverage = CO /\ owed * CoverageUnit = UO
    BY <1>2, CoverageIs
  <2> HIDE DEF CW, CX, CO, UO
  <2>. QED BY <2>1, <2>2, <2>3, <2>4, <2>5
<1>4. c = CW - CO /\ l = CW - UO /\ d = CX - CO /\ m = CX - UO
  BY <1>2, CoverageIs
<1> HIDE DEF CW, CX, CO, UO, c, l, d, m
<1>5. c \in Int /\ l \in Int /\ d \in Int /\ m \in Int /\ c <= d /\ l <= m
  BY <1>3, <1>4
<1>6. ASSUME c > 0, l > 0 PROVE (l * HealthUnit) \div c <= (m * HealthUnit) \div d
  <2>1. (CX - CW) * (UO - CO) \in Nat
    BY <1>3, MulNat
  <2>2. m * c - l * d = (CX - CW) * (UO - CO)
    BY <1>3, <1>4
  <2>3. m * c \in Int /\ l * d \in Int
    BY <1>5
  <2>4. l * d <= m * c
    BY <2>1, <2>2, <2>3
  <2>5. l \in Nat /\ m \in Nat /\ c \in Nat \ {0} /\ d \in Nat \ {0}
    BY <1>5, <1>6
  <2>. QED BY <2>4, <2>5, CoverageIs, FractionGrows
<1>7. ASSUME d > 0, m > 0 PROVE (m * HealthUnit) \div d \in Nat
  <2>1. m * HealthUnit \in Nat /\ d \in Nat \ {0}
    BY <1>5, <1>7, CoverageIs, MulNat
  <2>. QED BY <2>1, DivNat
<1>8. HealthUnit \in Nat
  BY CoverageIs
<1> DEFINE left == (l * HealthUnit) \div c
           right == (m * HealthUnit) \div d
<1> HIDE DEF left, right
<1>9. (c > 0 /\ l > 0 => left <= right) /\ (d > 0 /\ m > 0 => right \in Nat)
  BY <1>6, <1>7 DEF left, right
<1>10. /\ calculateHealth(u) = IF owed = 0 THEN HealthUnit ELSE IF c <= 0 \/ l <= 0 THEN 0 ELSE left
       /\ calculateHealth(v) = IF owed = 0 THEN HealthUnit ELSE IF d <= 0 \/ m <= 0 THEN 0 ELSE right
  BY <1>1 DEF left, right, c, l, d, m, owed, W, X
<1>11. CASE owed = 0
  BY <1>8, <1>10, <1>11
<1>12. CASE owed # 0 /\ c > 0 /\ l > 0
  <2>1. d > 0 /\ m > 0
    BY <1>5, <1>12
  <2>2. calculateHealth(u) = left /\ calculateHealth(v) = right
    BY <1>5, <1>10, <1>12, <2>1
  <2>. QED BY <1>9, <1>12, <2>2
<1>13. CASE owed # 0 /\ ~(c > 0 /\ l > 0)
  <2>1. calculateHealth(u) = 0
    BY <1>5, <1>10, <1>13
  <2>2. calculateHealth(v) \in Nat
    BY <1>5, <1>9, <1>10, <1>13
  <2>. QED BY <2>1, <2>2
<1>. QED BY <1>11, <1>12, <1>13

LEMMA WorthGrows ==
    ASSUME NEW v, v.bal \in [Tokens -> Int], v.farm \in Int,
           NEW w, w.bal \in [Tokens -> Int], w.farm = v.farm,
           \A t \in Tokens : v.bal[t] <= w.bal[t]
    PROVE  Worth(v) \in Int /\ Worth(w) \in Int /\ Worth(v) <= Worth(w)
<1>1. /\ v.bal["AVAX"] \in Int /\ v.bal["USDC"] \in Int /\ v.bal["ETH"] \in Int /\ v.bal[LP] \in Int
      /\ w.bal["AVAX"] \in Int /\ w.bal["USDC"] \in Int /\ w.bal["ETH"] \in Int /\ w.bal[LP] \in Int
  BY TokensAre
<1>2. /\ v.bal["AVAX"] <= w.bal["AVAX"] /\ v.bal["USDC"] <= w.bal["USDC"]
      /\ v.bal["ETH"] <= w.bal["ETH"] /\ v.bal[LP] <= w.bal[LP]
  BY TokensAre
<1>. QED BY <1>1, <1>2 DEF Worth

\* What the contracts do with what a modal asks for is what the modal foresees, but
\* for what a swap gets above its minimum.
LEMMA ForeseenHappens ==
    ASSUME NEW s, StoreOK(s), NEW c, Pictures(c, s), NEW r, RequestOK(r), NEW e, EventOK(r, e),
           NEW kind, Sends(kind, r.kind), r.kind # "create",
           kind = "swap" => r.path = <<r.token, r.to>>,
           \A a \in Assets : View(Executed(c, r, e)).debt[a] >= 0
    PROVE  LET after == View(Executed(c, r, e))
               seen == Foreseen(kind, r.token, r.to, e.paid, r.least, View(s))
           IN  /\ kind # "swap" => after = seen
               /\ kind = "swap" => calculateHealth(seen) <= calculateHealth(after)
<1> DEFINE after == Executed(c, r, e)
           seen == Foreseen(kind, r.token, r.to, e.paid, r.least, View(s))
<1>0. /\ DOMAIN c = AccountFields /\ c.bal = s.bal /\ c.debt = s.debt /\ c.farm = s.farm
      /\ s.bal \in [Tokens -> Int] /\ s.debt \in [Assets -> Int] /\ s.farm \in Int
      /\ e.paid \in Int /\ e.got \in Int /\ r.least \in Int /\ r.token \in Tokens
  BY DEF Pictures, StoreOK, ViewOK, EventOK, RequestOK
<1>1. CASE kind = "add"
  <2>1. r.kind \in {"fund", "fundNative"}
    BY <1>1 DEF Sends
  <2>2. /\ after.bal = [s.bal EXCEPT ![r.token] = @ + e.paid] /\ after.debt = s.debt
        /\ after.farm = s.farm
    BY <1>0, <2>1 DEF Executed, AccountFields
  <2> HIDE DEF after
  <2>3. View(after) = seen
    BY <1>1, <2>2 DEF View, Foreseen
  <2>. QED BY <1>1, <2>3 DEF after
<1>2. CASE kind = "withdraw"
  <2>1. r.kind \in {"withdraw", "withdrawNative"}
    BY <1>2 DEF Sends
  <2>2. /\ after.bal = [s.bal EXCEPT ![r.token] = @ - e.paid] /\ after.debt = s.debt
        /\ after.farm = s.farm
    BY <1>0, <2>1 DEF Executed, AccountFields
  <2> HIDE DEF after
  <2>3. View(after) = seen
    BY <1>2, <2>2 DEF View, Foreseen
  <2>. QED BY <1>2, <2>3 DEF after
<1>3. CASE kind = "repay"
  <2>1. r.kind = "repay"
    BY <1>3 DEF Sends
  <2>2. /\ after.bal = [s.bal EXCEPT ![r.token] = @ - e.paid]
        /\ after.debt = [s.debt EXCEPT ![r.token] = @ - e.paid] /\ after.farm = s.farm
    BY <1>0, <2>1 DEF Executed, AccountFields
  <2> HIDE DEF after
  <2>3. View(after) = seen
    BY <1>3, <2>2 DEF View, Foreseen
  <2>. QED BY <1>3, <2>3 DEF after
<1>4. CASE kind = "swap"
  <2>0. r.kind = "swap"
    BY <1>4 DEF Sends
  <2>1. /\ r.to \in Listed /\ r.token \in Listed /\ r.path[1] = r.token /\ r.path[2] = r.to
        /\ r.least <= e.got
    BY <1>4, <2>0 DEF RequestOK, EventOK
  <2> DEFINE f == [s.bal EXCEPT ![r.token] = @ - e.paid]
  <2>2. /\ after.bal = [f EXCEPT ![r.to] = @ + e.got] /\ after.debt = s.debt
        /\ after.farm = s.farm
    <3>1. /\ after.bal = [c.bal EXCEPT ![r.path[1]] = @ - e.paid, ![r.path[2]] = @ + e.got]
          /\ after.debt = c.debt /\ after.farm = c.farm
      BY <1>0, <2>0 DEF Executed, AccountFields
    <3> HIDE DEF after
    <3>2. after.bal = [[c.bal EXCEPT ![r.token] = @ - e.paid] EXCEPT ![r.to] = @ + e.got]
      BY <2>1, <3>1
    <3>. QED BY <1>0, <3>1, <3>2
  <2>3. /\ seen.bal = [f EXCEPT ![r.to] = @ + r.least] /\ seen.debt = s.debt
        /\ seen.farm = s.farm
    <3> DEFINE v == View(s)
    <3>1. DOMAIN v = {"bal", "debt", "farm"} /\ v.bal = s.bal /\ v.debt = s.debt /\ v.farm = s.farm
      BY DEF View
    <3>2. seen = [v EXCEPT !.bal[r.token] = @ - e.paid, !.bal[r.to] = @ + r.least]
      BY <1>4 DEF Foreseen
    <3> HIDE DEF v, seen
    <3>3. /\ seen.bal = [v.bal EXCEPT ![r.token] = @ - e.paid, ![r.to] = @ + r.least]
          /\ seen.debt = v.debt /\ seen.farm = v.farm
      BY <3>1, <3>2
    <3>. QED BY <3>1, <3>3
  <2>4. f \in [Tokens -> Int]
    BY <1>0
  <2>5. /\ View(after).bal = after.bal /\ View(after).debt = after.debt
        /\ View(after).farm = after.farm /\ \A a \in Assets : after.debt[a] >= 0
    BY DEF View
  <2> HIDE DEF after, seen, f
  <2>6. Worth(seen) \in Int /\ Worth(View(after)) \in Int /\ Worth(seen) <= Worth(View(after))
    <3> DEFINE w == View(after)
    <3>1. /\ w.bal = [f EXCEPT ![r.to] = @ + e.got] /\ w.farm = s.farm
          /\ seen.bal = [f EXCEPT ![r.to] = @ + r.least] /\ seen.farm = s.farm
      BY <2>2, <2>3, <2>5
    <3> HIDE DEF w
    <3>2. /\ seen.bal \in [Tokens -> Int] /\ w.bal \in [Tokens -> Int]
          /\ \A t \in Tokens : seen.bal[t] <= w.bal[t]
      BY <1>0, <2>1, <2>4, <3>1, TokensAre
    <3>3. Worth(seen) \in Int /\ Worth(w) \in Int /\ Worth(seen) <= Worth(w)
      BY <1>0, <3>1, <3>2, WorthGrows
    <3>. QED BY <3>3 DEF w
  <2>7. \A a \in Assets : s.debt[a] \in Nat
    BY <1>0, <2>2, <2>5
  <2>8. Owed(seen) \in Nat /\ Owed(View(after)) = Owed(seen)
    BY <2>2, <2>3, <2>5, <2>7, TokensAre DEF Owed
  <2>9. calculateHealth(seen) <= calculateHealth(View(after))
    BY <2>6, <2>8, HealthGrows
  <2>. QED BY <1>4, <2>9 DEF after, seen
<1>. QED BY <1>1, <1>2, <1>3, <1>4 DEF Sends

LEMMA ConfirmedAsForeseen ==
    ASSUME IInv, Accounted, [Next]_vars, NEW i \in DOMAIN ops, ConfirmedInTheOpen(i),
           PreviewOf(i)
    PROVE  LET real == calculateHealth(View(st'))
           IN  IF ops[i].kind = "swap" THEN real >= ops[i].health ELSE real = ops[i].health
<1> DEFINE r == ops[i].req
           e == ops[i].event
           kind == ops[i].kind
           after == View(Executed(Pictured(st), r, e))
           seen == Foreseen(kind, r.token, r.to, e.paid, r.least, View(st))
<1>1. /\ ops[i].status = "mined" /\ ops[i].valid /\ r.kind # "create"
      /\ r.kind = "swap" => r.path = <<r.token, r.to>>
      /\ kind \in Previewed /\ ops[i].seen = View(st) /\ e.paid = ops[i].value
      /\ kind = "swap" => ops[i].since = "answered"
  BY DEF PreviewOf, ConfirmedInTheOpen, AsAsked, At, Request_
<1>2. StoreOK(st) /\ OpOK(ops[i]) /\ ChainOK(ch)
  BY DEF Accounted, OpsOK
<1>3. View(st') = after /\ View(st') = View(ch)
  BY ConfirmedAgrees DEF Agrees
<1>4. \A a \in Assets : after.debt[a] >= 0
  BY <1>2, <1>3 DEF ChainOK, View
<1>5. Sends(kind, r.kind) /\ ops[i].health = calculateHealth(seen)
  BY <1>1, <1>2 DEF OpOK
<1>6. /\ Pictures(Pictured(st), st) /\ RequestOK(r) /\ EventOK(r, e)
      /\ kind = "swap" => r.path = <<r.token, r.to>>
  BY <1>1, <1>2, <1>5 DEF OpOK, Sends, Pictures, Pictured, AccountFields
<1>7. /\ kind # "swap" => after = seen
      /\ kind = "swap" => calculateHealth(seen) <= calculateHealth(after)
  BY <1>1, <1>2, <1>4, <1>5, <1>6, ForeseenHappens
<1> DEFINE foreseen == calculateHealth(seen)
           real == calculateHealth(after)
<1>8. /\ kind # "swap" => real = foreseen
      /\ kind = "swap" => foreseen <= real
  BY <1>7
<1>9. calculateHealth(View(st')) = real /\ ops[i].health = foreseen
  BY <1>3, <1>5
<1> HIDE DEF foreseen, real, kind
<1>. QED BY <1>8, <1>9 DEF kind

\* The health a modal previews (calculateHealthAfterTransaction of the modals, the answers
\* of SwapModal) is the health the dashboard shows once the operation is confirmed.  A swap
\* does not do worse if its path is between the assets shown and nothing was changed after
\* the last answer, the slippage included; questions may still be open, and earlier ones
\* may have been answered in any order or not at all.
THEOREM PreviewKeptHolds == Spec => PreviewKept
<1>1. ASSUME IInv, Accounted, [Next]_vars
      PROVE  [\A i \in DOMAIN ops :
                PreviewOf(i) =>
                    LET real == calculateHealth(View(st'))
                    IN  IF ops[i].kind = "swap" THEN real >= ops[i].health
                        ELSE real = ops[i].health]_vars
  BY <1>1, ConfirmedAsForeseen DEF PreviewOf
<1>. QED BY InitIInv, InitAnswers, InitAccounted, StepKeepsIInv, StepKeepsAnswers, StepKeepsAccounted,
            <1>1, PTL
         DEF Spec, PreviewKept
=============================================================================
