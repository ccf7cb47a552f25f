-------------------------------- MODULE GmxV2 --------------------------------
(***************************************************************************)
(* Deposits to and withdrawals from a GMX V2 market                        *)
(* (GmxV2Facet.sol, GmxV2CallbacksFacet.sol).  The account sends tokens to *)
(* the exchange and is frozen; in a later transaction the exchange         *)
(* executes or cancels the request, hands over tokens and calls the        *)
(* account back, which lists what it got and thaws.                        *)
(*                                                                         *)
(* External: the exchange settles every request, once, with at least the   *)
(* minimum asked for, and goes on when the callback reverts.               *)
(***************************************************************************)
EXTENDS PrimeAccount, Sequences

CONSTANTS GmToken, LongToken, ShortToken,   \* the market
          DepositOrders,    \* bound: [amount, minGm] of deposits
          WithdrawalOrders, \* bound: [amount, minLong, minShort]
          Slippage,         \* bound: what an execution pays above a minimum
          MaxRequests       \* bound: how many requests there are

ASSUME MarketAssumption ==
    /\ {GmToken, LongToken, ShortToken} \subseteq Assets
    /\ GmToken # LongToken /\ GmToken # ShortToken
    /\ DepositOrders \subseteq [amount : Nat \ {0}, minGm : Nat]
    /\ WithdrawalOrders \subseteq [amount : Nat \ {0}, minLong : Nat, minShort : Nat]
    /\ Slippage \subseteq Nat

VARIABLES requests,     \* the requests the exchange has accepted, in order
          open,         \* those it has not settled yet
          alarms        \* the accounts for which the exchange logged a failed
                        \* callback, or that a liquidator unfroze

gmxVars == <<requests, open, alarms>>
vars == <<accountVars, exposureVars, gmxVars>>

MarketTokens == {LongToken, ShortToken}

\* sent: what left the account; minimum: what an execution brings at least.
Requests == [account : Accounts, deposit : BOOLEAN,
             sent : [Assets -> Nat], minimum : [Assets -> Nat]]

TypeOK ==
    /\ AccountTypeOK
    /\ ExposureTypeOK
    /\ requests \in Seq(Requests)
    /\ open \subseteq DOMAIN requests
    /\ alarms \subseteq Accounts

Init ==
    /\ InitAccount /\ InitExposure
    /\ requests = <<>>
    /\ open = {}
    /\ alarms = {}

-----------------------------------------------------------------------------
(* GmxV2Facet *)

IsWithinBounds(estimate, userInput) ==
    /\ (estimate * 95) \div 100 <= userInput
    /\ userInput <= (estimate * 105) \div 100

NoBorrowInTheSameBlock(a) == account[a].lastBorrow # now

\* Mutant of StaysSolventWith: what is to come counts in full.
StaysSolventWithValue(acc, minimum) ==
    ThresholdWeightedValue(acc.tokens, Counted(acc))
        + TotalValue(minimum, Assets) > Debt(acc.borrowed)

\* The simulated solvency check: the account without what it sends, and with the
\* least that it gets for it.
StaysSolventWith(acc, minimum) ==
    ThresholdWeightedValue(acc.tokens, Counted(acc))
        + ThresholdWeightedValue(minimum, Assets) > Debt(acc.borrowed)

\* Mutant of SendRequest: the account is not frozen.
SendRequestUnfrozen(a, deposit, sent, minimum, awaited) ==
    /\ account[a].frozenSince = 0
    /\ Becomes(a, WithSpent(account[a], sent))
    /\ IncreasePendingExposure(a, minimum, awaited)
    /\ exposure' = Decreased(exposure, sent)
    /\ requests' = Append(requests, [account |-> a, deposit |-> deposit,
                                     sent |-> sent, minimum |-> minimum])
    /\ open' = open \cup {Len(requests')}
    /\ UNCHANGED <<now, price, alarms>>

\* What both requests do after their checks.
SendRequest(a, deposit, sent, minimum, awaited) ==
    /\ account[a].frozenSince = 0
    /\ Becomes(a, [WithSpent(account[a], sent) EXCEPT !.frozenSince = now])
    /\ IncreasePendingExposure(a, minimum, awaited)
    /\ exposure' = Decreased(exposure, sent)
    /\ requests' = Append(requests, [account |-> a, deposit |-> deposit,
                                     sent |-> sent, minimum |-> minimum])
    /\ open' = open \cup {Len(requests')}
    /\ UNCHANGED <<now, price, alarms>>

\* The exchange refuses an empty deposit or withdrawal.
Deposit(a, token, order) ==
    LET amount == Min({order.amount, account[a].tokens[token]})
        sent == Only(token, amount)
        minimum == Only(GmToken, order.minGm)
    IN /\ amount > 0
       /\ NoBorrowInTheSameBlock(a)
       /\ IsWithinBounds(price[token] * amount, price[GmToken] * order.minGm)
       /\ StaysSolventWith(WithSpent(account[a], sent), minimum)
       /\ SendRequest(a, TRUE, sent, minimum, {GmToken})

\* A liquidator may withdraw for an insolvent account, without the checks the
\* owner has to pass.
Withdrawal(a, order, byLiquidator) ==
    LET amount == Min({order.amount, account[a].tokens[GmToken]})
        sent == Only(GmToken, amount)
        minimum == [x \in Assets |->
            CASE x = LongToken -> order.minLong
              [] x = ShortToken -> order.minShort
              [] OTHER -> 0]
    IN /\ amount > 0
       /\ NoBorrowInTheSameBlock(a)
       /\ IF byLiquidator
          THEN ~Healthy(account[a])
          ELSE /\ IsWithinBounds(price[GmToken] * amount,
                                 TotalValue(minimum, MarketTokens))
               /\ StaysSolventWith(WithSpent(account[a], sent), minimum)
       /\ SendRequest(a, FALSE, sent, minimum, MarketTokens)

-----------------------------------------------------------------------------
(* GmxV2CallbacksFacet *)

\* Mutant of CalledBack: the account stays frozen.
CalledBackFrozen(a, received, listed, awaited) ==
    /\ exposure' = Increased(exposure, received)
    /\ SetPendingExposureToZero(a, awaited)
    /\ Becomes(a, [account[a] EXCEPT
            !.tokens = Plus(@, received),
            !.ownedAssets = @ \cup {x \in listed : account[a].tokens[x] + received[x] > 0}])

\* What the four callbacks share: they list the assets the account has of those
\* the market deals in, add to the exposure what came in, clear the pending
\* exposure, and unfreeze.
CalledBack(a, received, listed, awaited) ==
    /\ exposure' = Increased(exposure, received)
    /\ SetPendingExposureToZero(a, awaited)
    /\ Becomes(a, [account[a] EXCEPT
            !.tokens = Plus(@, received),
            !.ownedAssets = @ \cup {x \in listed : account[a].tokens[x] + received[x] > 0},
            !.frozenSince = 0])

\* Only the tokens arrive.
CallbackFailed(a, received) ==
    /\ Becomes(a, [account[a] EXCEPT !.tokens = Plus(@, received)])
    /\ alarms' = alarms \cup {a}
    /\ UNCHANGED exposureVars

\* The callback reverts above a limit, and for an account that is not frozen.
CallbackSucceeds(a, received) ==
    account[a].frozenSince # 0 /\ WithinLimits(Increased(exposure, received))

Settle(key, received, listed) ==
    LET r == requests[key]
        awaited == IF r.deposit THEN {GmToken} ELSE MarketTokens
    IN /\ key \in open
       /\ open' = open \ {key}
       /\ IF CallbackSucceeds(r.account, received)
          THEN CalledBack(r.account, received, listed, awaited) /\ UNCHANGED alarms
          ELSE CallbackFailed(r.account, received)
       /\ UNCHANGED <<now, price, requests>>

\* At least the minimum of every token awaited.
Executed(key, extra) ==
    LET r == requests[key]
    IN [x \in Assets |-> IF x \in (IF r.deposit THEN {GmToken} ELSE MarketTokens)
                         THEN r.minimum[x] + extra ELSE 0]

AfterDepositExecution(key, extra) ==
    /\ requests[key].deposit
    /\ Settle(key, Executed(key, extra), {GmToken})

AfterDepositCancellation(key) ==
    /\ requests[key].deposit
    /\ Settle(key, requests[key].sent, MarketTokens)

AfterWithdrawalExecution(key, extra) ==
    /\ ~requests[key].deposit
    /\ Settle(key, Executed(key, extra), MarketTokens)

AfterWithdrawalCancellation(key) ==
    /\ ~requests[key].deposit
    /\ Settle(key, requests[key].sent, {GmToken})

\* AssetsOperationsFacet.unfreezeAccount, by a liquidator.
UnfreezeAccount(a) ==
    /\ account[a].frozenSince # 0
    /\ Becomes(a, [account[a] EXCEPT !.frozenSince = 0])
    /\ alarms' = alarms \cup {a}
    /\ UNCHANGED <<now, price, exposureVars, requests, open>>

-----------------------------------------------------------------------------

RequestStep(a) ==
    /\ Len(requests) < MaxRequests
    /\ \/ \E x \in MarketTokens, order \in DepositOrders : Deposit(a, x, order)
       \/ \E order \in WithdrawalOrders, byLiquidator \in BOOLEAN :
             Withdrawal(a, order, byLiquidator)

\* The exchange executes a request or cancels it.
ExchangeStep(key) ==
    \/ \E extra \in Slippage :
          AfterDepositExecution(key, extra) \/ AfterWithdrawalExecution(key, extra)
    \/ AfterDepositCancellation(key)
    \/ AfterWithdrawalCancellation(key)

Next ==
    \/ \E prices \in Prices : Tick(prices) /\ UNCHANGED gmxVars
    \/ \E a \in Accounts :
          \/ (OwnerStep(a) \/ LiquidatorStep(a)) /\ UNCHANGED gmxVars
          \/ RequestStep(a)
          \/ UnfreezeAccount(a)
    \/ \E key \in open : ExchangeStep(key)

Spec == Init /\ [][Next]_vars

\* The exchange's keepers settle every request.
FairSpec ==
    Spec /\ \A key \in 1..MaxRequests : WF_vars(key \in open /\ ExchangeStep(key))

-----------------------------------------------------------------------------

OpenRequests(a) == {key \in open : requests[key].account = a}

\* What accounts wait for is what their open requests bring at least, and the
\* protocol's pending exposure is the sum over accounts: increasePendingExposure
\* and setPendingExposureToZero keep two sums in step over the transactions of
\* several accounts.
PendingIsRequested ==
    /\ \A x \in Assets : pendingProtocolExposure[x]
            = SumFunctionOnSet([a \in Accounts |-> pendingUserExposure[a][x]], Accounts)
    /\ \A a \in Accounts \ alarms, x \in Assets : pendingUserExposure[a][x]
            = SumFunctionOnSet([key \in open |-> requests[key].minimum[x]], OpenRequests(a))

\* An account is frozen exactly while one request of it is open, unless a callback
\* failed or a liquidator intervened: nothing it has at the exchange is forgotten,
\* and no second request is made on top of the first.
FrozenWhileRequested ==
    \A a \in Accounts \ alarms :
        Cardinality(OpenRequests(a)) = IF account[a].frozenSince # 0 THEN 1 ELSE 0

\* The exposure of a group with a limit is what accounts hold of it, so the limit
\* limits what they hold.  After a failed callback it is less: the tokens that came
\* in with it are never counted.
ExposureIsHeld ==
    \A g \in Groups : Limited(g) =>
        LET held == InGroup([x \in Assets |-> Held(x)], g)
        IN /\ exposure[g] <= held
           /\ alarms = {} => exposure[g] = held

\* What an account holds is listed, so the solvency check and a liquidation see it.
HeldIsCounted ==
    \A a \in Accounts \ alarms, x \in Assets :
        account[a].tokens[x] > 0 => x \in account[a].ownedAssets

\* Whichever way its open request is settled, the account is healthy.
SurelyHealthy(a) ==
    IF OpenRequests(a) = {} THEN Healthy(account[a])
    ELSE \A key \in OpenRequests(a) :
            /\ Healthy(WithReceived(account[a], requests[key].sent))
            /\ Healthy(WithReceived(account[a], requests[key].minimum))

\* Only time and prices make an account insolvent.  Whatever its owner, other
\* accounts, liquidators and the exchange do meanwhile, with a request executed at
\* its minimum, above it, or cancelled, a solvent account stays solvent.
StaysSolvent ==
    [][\A a \in Accounts :
        (now' = now /\ SurelyHealthy(a) /\ a \notin alarms') => SurelyHealthy(a)']_vars

Equity(a) == TotalValue(account[a].tokens, Assets) - Debt(account[a].borrowed)

\* A liquidation costs the account at most the bonus on the debt that it repays,
\* whatever mix of its own and the liquidator's tokens repays it.  Two cases are
\* excepted.  Tokens that came in with a failed callback repay, but do not count.
\* An asset that a liquidator supplies above its debt and that the account did not
\* have is paid out again, but liquidate's cached prices do not have it, so the
\* other assets pay for it too.
LiquidationIsFair ==
    [][\A a \in Accounts \ alarms, repay \in Repayments,
          bonus \in {0, MAX_LIQUIDATION_BONUS}, unprofitable \in BOOLEAN :
        (/\ Liquidate(a, repay, bonus, unprofitable)
         /\ \A x \in PoolAssets :
                repay[x] > account[a].borrowed[x] => x \in Counted(account[a]))
        => LET repaid == Debt(account[a].borrowed) - Debt(account[a].borrowed)'
           IN Equity(a)' >= Equity(a) - (repaid * bonus) \div 1000]_vars

\* A frozen account thaws, unless its callback fails.
FrozenThaws ==
    \A a \in Accounts :
        account[a].frozenSince # 0 ~> (account[a].frozenSince = 0 \/ a \in alarms)
==============================================================================
