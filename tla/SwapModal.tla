---- MODULE SwapModal ----
(***************************************************************************)
(* The modal that swaps (src/src/components/SwapModal.vue) and its two      *)
(* combined inputs (CurrencyComboInput.vue).  Unlike the others it asks the *)
(* router for a path and a price, and takes other input meanwhile: answers  *)
(* come back in any order, or not at all, and are applied to whatever the   *)
(* modal holds by then.                                                     *)
(*                                                                         *)
(* m.trade holds                                                            *)
(*   row               the asset of the row that opened the modal           *)
(*   to, path, least   the target, the last path, the least to receive      *)
(*   oracle            receivedAccordingToOracle: as of the last answer     *)
(*   asked             the queries nobody has answered yet                  *)
(*   checking          checkingPrices: the source input is disabled         *)
(*   nothing           the target input shows an amount of nothing or less  *)
(*   targetError       the error of the target input                        *)
(*   since             history: whether the user, since the last answer was *)
(*                     applied, has changed nothing ("answered") or         *)
(*                     something, the slippage included ("changed")         *)
(*   changes           how much the user has changed so far                 *)
(***************************************************************************)
EXTENDS Modals, SequencesExt

(* The first other asset of the list.  *)
FirstOther(a) == IF a = "AVAX" THEN "USDC" ELSE "AVAX"

NoTrade(a) ==
    [row |-> a, to |-> FirstOther(a), path |-> <<>>, least |-> 0, oracle |-> 0, asked |-> <<>>,
     checking |-> FALSE, nothing |-> FALSE, targetError |-> FALSE, since |-> "changed",
     changes |-> 0]

(* The router's best path, and what it gives; both assets are worth 1.  *)
query(m) == [path |-> <<m.token, m.trade.to>>, received |-> m.value]

(* What the caller does once its query is answered.  *)
Then(m, q) ==
    CASE q.caller = "source" -> [m EXCEPT !.error = q.error, !.trade.checking = FALSE]
      [] q.caller = "target" -> [m EXCEPT !.trade.targetError = q.error]
      [] OTHER -> m

(* Without an amount there is nothing to ask.  *)
chooseBestTrade(m, caller, error) ==
    LET question == [answer |-> query(m), caller |-> caller, error |-> error]
        asking == [m EXCEPT !.trade.since = "changed"]
    IN  IF m.value = 0 THEN Then([asking EXCEPT !.trade.least = 0], question)
        ELSE [asking EXCEPT !.trade.asked = Append(@, question)]

(* What the oracle's prices make of the source amount, less the slippage,   *)
(* is shown as the target amount.                                           *)
updateAmountsWithSlippage(m, least) ==
    [m EXCEPT !.trade.least = least, !.trade.nothing = least <= 0]

(* The slippage is the deviation the answer shows (counted from what is     *)
(* received) and a margin, together perhaps more than the whole.            *)
updateSlippageWithAmounts(m, received) ==
    LET deviation == ((m.value - received) * m.value) \div received
        expected == m.value - deviation
    IN  updateAmountsWithSlippage([m EXCEPT !.trade.oracle = m.value],
                                  IF expected > 0 THEN (expected + 1) \div 2 ELSE -1)

(* The i-th query is answered.  *)
Answered(m, i) ==
    LET q == m.trade.asked[i]
        priced == [updateSlippageWithAmounts(m, q.answer.received) EXCEPT
                       !.trade.path = q.answer.path,
                       !.trade.asked = RemoveAt(@, i),
                       !.trade.since = "answered"]
    IN  Then([priced EXCEPT !.health = calculateHealth(SwapAfter(priced)),
                           !.weighed = priced.seen], q)

(* A query fails: its caller never gets any further.  *)
Unanswered(m, i) == [m EXCEPT !.trade.asked = RemoveAt(@, i)]

Counted(m) == [m EXCEPT !.trade.changes = @ + 1]

(* The inputs trade places.  Neither is validated again.  *)
reverseSwap(m) ==
    LET turned == [m EXCEPT !.token = m.trade.to, !.trade.to = m.token]
    IN  [chooseBestTrade(turned, "nobody", FALSE) EXCEPT !.limit = m.seen.bal[m.trade.to]]

(* The source input speaks: of another amount, validated before, ...  *)
sourceInputChange(m, v, max) ==
    LET typed == [m EXCEPT !.value = v, !.isMax = max, !.trade.checking = TRUE,
                           !.trade.nothing = @ \/ v = 0]
    IN  chooseBestTrade(typed, "source", checkErrors(typed))

(* ... or of another asset.  The validator still knows the old one.  *)
SourceSelected(m, a) ==
    LET error == checkErrors(m)
        other == [m EXCEPT !.token = a, !.limit = m.seen.bal[a], !.trade.checking = TRUE]
    IN  IF a = m.trade.to
        THEN [reverseSwap(m) EXCEPT !.error = error, !.trade.checking = FALSE]
        ELSE chooseBestTrade(other, "source", error)

(* The validators of the target input: the health previewed last, and a     *)
(* positive amount once one is shown.                                       *)
targetRefuses(m) == m.health < MinAllowedHealth \/ m.trade.nothing

(* The target input speaks of the asset chosen.  It knows no amount, so the *)
(* asset it had already is an amount of nothing until the answer.           *)
targetInputChange(m, a) ==
    LET error == targetRefuses(m)
    IN  CASE a = m.token -> [reverseSwap(m) EXCEPT !.trade.targetError = error]
          [] a = m.trade.to -> chooseBestTrade([m EXCEPT !.trade.least = 0], "target", error)
          [] OTHER -> chooseBestTrade([m EXCEPT !.trade.to = a], "target", error)

(* The user types how much slippage is acceptable: nobody is asked, no      *)
(* health is computed, and what the target input says of it is not heard.   *)
userSlippageChange(m, least) ==
    [updateAmountsWithSlippage(m, least) EXCEPT !.trade.since = "changed"]

(* A slippage of 150 %, 100 %, 50 %, nothing or -50 %.  *)
Slipped(m) == {(share * m.trade.oracle) \div 2 : share \in -1 .. 3}

(* Everything the user can do next.  Amounts are typed while the input is   *)
(* not disabled (and count two seconds later, until when the button waits); *)
(* MAX, the slippage, the lists (the target's lacks the asset of the row)   *)
(* and the arrow always work.                                               *)
SwapInputs(m, amounts) ==
    {Counted(n) : n \in
        {sourceInputChange(m, v, FALSE) : v \in IF m.trade.checking THEN {} ELSE amounts}
        \cup {sourceInputChange(m, m.limit, TRUE), sourceInputChange(m, m.value, m.isMax)}
        \cup {SourceSelected(m, a) : a \in Listed \ {m.token}} \cup {reverseSwap(m)}
        \cup {targetInputChange(m, a) : a \in Listed \ {m.trade.row}}
        \cup {userSlippageChange(m, least) : least \in Slipped(m)}}

(* What the router may do next.  A negative amount (MAX, of a balance that  *)
(* was subtracted from twice) cannot be encoded: that call only throws.     *)
SwapAnswers(m) ==
    {Answered(m, i) : i \in {j \in DOMAIN m.trade.asked : m.trade.asked[j].answer.received > 0}}
    \cup {Unanswered(m, i) : i \in DOMAIN m.trade.asked}
====
