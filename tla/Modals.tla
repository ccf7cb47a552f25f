---- MODULE Modals ----
(***************************************************************************)
(* The modals of the dashboard (src/src/components/*Modal.vue): what each   *)
(* shows the user before a transaction, which input it refuses, and what it *)
(* hands to the row that opened it.  A modal is a record; its typed value   *)
(* is a small integer of token units, and "max" is the MAX button.          *)
(*                                                                         *)
(* Prices are constant (one unit of either asset is worth 1, one LP token   *)
(* is worth the pair, 2) and every position has the same debt coverage.     *)
(***************************************************************************)
EXTENDS Integers, Sequences

CONSTANTS
    Coverage, CoverageUnit,  \* config: debtCoverage = Coverage / CoverageUnit
    HealthUnit,              \* a health of 100 %
    MinAllowedHealth         \* config.MIN_ALLOWED_HEALTH in the same unit

ASSUME CoverageAssumption ==
    /\ {Coverage, CoverageUnit, HealthUnit, MinAllowedHealth} \subseteq Nat
    /\ 0 < Coverage /\ Coverage < CoverageUnit

Assets == {"AVAX", "USDC"}        \* BORROWABLE_ASSETS
Listed == Assets \cup {"ETH"}     \* ASSETS_CONFIG
LP == "LP"                        \* the pair of the two borrowable ones
Tokens == Listed \cup {LP}

(* What the numbers of an account are: balances, debts, the farm of the LP. *)
View(x) == [bal |-> x.bal, debt |-> x.debt, farm |-> x.farm]
Worth(v) == v.bal["AVAX"] + v.bal["USDC"] + v.bal["ETH"] + 2 * (v.bal[LP] + v.farm)
Owed(v) == v.debt["AVAX"] + v.debt["USDC"]

(* utils/calculate.js: the tokens summed, a division by a collateral that   *)
(* is not positive and every negative result are a health of nothing.       *)
calculateHealth(v) ==
    LET collateral == Coverage * (Worth(v) - Owed(v))
        left == Coverage * Worth(v) - CoverageUnit * Owed(v)
    IN  IF Owed(v) = 0 THEN HealthUnit
        ELSE IF collateral <= 0 \/ left <= 0 THEN 0
        ELSE (left * HealthUnit) \div collateral

(* What the modal that unwinds liquidity asks for at least: the share of    *)
(* what the pair holds, less the slippage it allows; nothing for more than  *)
(* the balance.                                                             *)
calculateReceivedAmounts(m) == IF m.value > m.limit THEN 0 ELSE (m.value + 1) \div 2

(* config.MAX_BUTTON_MULTIPLIER: a little more than the typed maximum.  *)
WithMargin(m) == IF m.isMax THEN m.value + 1 ELSE m.value

--------------------------------------------------------------------------
(* The account each modal previews: what calculateHealthAfterTransaction    *)
(* adds to and takes from the balances the modal was given.                 *)
AddAfter(m) == [m.seen EXCEPT !.bal[m.token] = @ + m.value]
WithdrawAfter(m) == [m.seen EXCEPT !.bal[m.token] = @ - m.value]
RepayAfter(m) == [m.seen EXCEPT !.bal[m.token] = @ - m.value, !.debt[m.token] = @ - m.value]
BorrowAfter(m) == [m.seen EXCEPT !.bal[m.token] = @ + m.value, !.debt[m.token] = @ + m.value]
\* Mutant of SwapAfter: the whole value is received, not the least of it.
SwapAfterAtBest(m) ==
    [m.seen EXCEPT !.bal[m.token] = @ - m.value, !.bal[m.trade.to] = @ + m.value]
SwapAfter(m) ==
    [m.seen EXCEPT !.bal[m.token] = @ - m.value, !.bal[m.trade.to] = @ + m.trade.least]

Previewed == {"add", "withdraw", "repay", "borrow", "swap"}
After(m) ==
    CASE m.kind = "add" -> AddAfter(m)
      [] m.kind = "withdraw" -> WithdrawAfter(m)
      [] m.kind = "repay" -> RepayAfter(m)
      [] m.kind = "borrow" -> BorrowAfter(m)
      [] m.kind = "swap" -> SwapAfter(m)
      [] OTHER -> m.seen

--------------------------------------------------------------------------
(* The validators of each modal, over the value that is in its input.       *)

(* The wallet balance the deposit modals compare with: the native one when  *)
(* the toggle of the native asset says so.                                  *)
Available(m) == IF m.token = "AVAX" /\ m.native THEN m.nativeLimit ELSE m.limit
AddRefuses(m) == m.kind = "add" /\ m.value > Available(m)

(* m.health is still the health of the PREVIOUS input here: the validators  *)
(* run before the modal hears of the new value.                             *)
WithdrawRefuses(m) ==
    /\ m.kind = "withdraw"
    /\ \/ m.health <= 0
       \/ m.value > m.limit
       \/ \E a \in Assets : m.seen.debt[a] >
              m.seen.bal[a] - (IF a = m.token THEN m.value ELSE 0)

RepayRefuses(m) == m.kind = "repay" /\ m.value > m.seen.bal[m.token]

(* The borrow modal weighs the value before it validates it.  *)
BorrowRefuses(m) ==
    /\ m.kind = "borrow"
    /\ calculateHealth(BorrowAfter(m)) < MinAllowedHealth

(* The health validator hangs on the target input (targetRefuses).  *)
SwapRefuses(m) == m.kind = "swap" /\ m.value > m.seen.bal[m.token]

ProvideRefuses(m) ==
    m.kind = "provide" /\ \E a \in Assets : m.value > m.limits[a]
RemoveRefuses(m) == m.kind = "remove" /\ m.value > m.limit
StakeRefuses(m) == m.kind = "stake" /\ m.value > m.limit
DepositRefuses(m) == m.kind = "deposit" /\ m.value > Available(m)

(* CurrencyInput: every validator of the modal, and a positive number.  *)
checkErrors(m) ==
    \/ m.value <= 0
    \/ AddRefuses(m) \/ WithdrawRefuses(m) \/ RepayRefuses(m) \/ BorrowRefuses(m)
    \/ SwapRefuses(m) \/ ProvideRefuses(m) \/ RemoveRefuses(m) \/ StakeRefuses(m)
    \/ DepositRefuses(m)

--------------------------------------------------------------------------
(* The input.  *)
Weighed(m) == [m EXCEPT !.health = calculateHealth(After(m)), !.weighed = m.seen]

(* updateValue: the value is validated, then handed to the modal.  *)
updateValue(m, v) ==
    LET typed == [m EXCEPT !.value = v, !.isMax = FALSE]
    IN  Weighed([typed EXCEPT !.error = checkErrors(typed)])

(* The modals with a MAX button (and SwapModal, which has its own input).  *)
WithMax == {"repay", "stake", "unstake", "wrap"}

(* setMax tells the modal "no error" at once; the validation that follows   *)
(* corrects it only when the value is a new one.                            *)
setMax(m) ==
    LET typed == [m EXCEPT !.value = m.limit, !.isMax = TRUE]
    IN  Weighed([typed EXCEPT !.error = m.value # m.limit /\ checkErrors(typed)])

(* The toggle between the native token and its wrapped form.  Adding funds  *)
(* validates again; the others do not.                                      *)
WithToggle == {"add", "withdraw", "deposit", "poolWithdraw"}
assetToggleChange(m) ==
    LET turned == [m EXCEPT !.native = ~@]
    IN  IF m.kind = "add" THEN [turned EXCEPT !.error = checkErrors(turned)] ELSE turned

(* The modals of the pools do not disable their button on an error; the one *)
(* that swaps has a second input, and does not care for prices on the way.  *)
Submittable(m) ==
    /\ ~m.busy
    /\ ~m.error \/ m.kind \in {"deposit", "poolWithdraw"}
    /\ m.kind = "swap" => ~m.trade.targetError

--------------------------------------------------------------------------
(* What submit hands over: an amount and, where the modal computes one, the *)
(* least the user accepts.                                                  *)
Plain(m) ==
    [amount |-> m.value, least |-> 0, isMax |-> FALSE, native |-> FALSE, to |-> LP, path |-> <<>>]

AddSubmit(m) == [Plain(m) EXCEPT !.native = m.token = "AVAX" /\ m.native]
WithdrawSubmit(m) == [Plain(m) EXCEPT !.native = m.token = "AVAX" /\ m.native]
RepaySubmit(m) == [Plain(m) EXCEPT !.amount = WithMargin(m), !.isMax = m.isMax]
SwapSubmit(m) ==
    [Plain(m) EXCEPT !.amount = WithMargin(m), !.least = m.trade.least, !.to = m.trade.to,
                     !.path = m.trade.path]
WrapSubmit(m) == Plain(m)
ProvideSubmit(m) == Plain(m)
RemoveSubmit(m) == [Plain(m) EXCEPT !.least = calculateReceivedAmounts(m)]
StakeSubmit(m) == [Plain(m) EXCEPT !.amount = WithMargin(m)]

(* The value as a part of the stake, in receipt tokens, as a part of the    *)
(* stake again: the value itself while a receipt token stands for one       *)
(* staked token, and never more than the stake.                             *)
UnstakeSubmit(m) ==
    LET wanted == WithMargin(m)
    IN  [Plain(m) EXCEPT !.amount = IF wanted < m.limit THEN wanted ELSE m.limit,
                         !.isMax = m.isMax]
DepositSubmit(m) == [Plain(m) EXCEPT !.native = m.token = "AVAX" /\ m.native]
PoolWithdrawSubmit(m) == [Plain(m) EXCEPT !.native = m.token = "AVAX" /\ m.native]
====
