-------------------------- MODULE LiquidationBots --------------------------
(***************************************************************************)
(* The liquidation bots (src/tools/liquidation) and the accounts they work  *)
(* on:                                                                      *)
(*   wallet  liquidation-bot.js: lists the insolvent accounts, liquidates   *)
(*           them one after the other with its own tokens, starts again     *)
(*   flash   liquidation-bot-flashloan.js: liquidates the account it is     *)
(*           called for, with a flash loan                                  *)
(*   ltv     monitor-and-liquidate-flashloan-ltv.js with                    *)
(*           liquidation-bot-flashloan-ltv.js: a loop like the wallet's     *)
(* A bot first turns every position of the account into plain tokens, one   *)
(* transaction per position, then reads debts, balances and prices, and     *)
(* sends one liquidation.  Any call may fail, any transaction may revert or *)
(* outlive the minute the bot waits for it; accounts and prices change all  *)
(* the while, and the bots work side by side.                               *)
(*                                                                         *)
(* What an account is worth is one of the classes that the bots and the     *)
(* contracts tell apart; amounts are left out.                              *)
(***************************************************************************)
EXTENDS Sequences, Naturals, FiniteSets, SequencesExt

CONSTANTS
    Loans,
    Scenarios    \* records [team, held, falling, falls, most]: the bots that run, the
                 \* positions the accounts hold at first, the accounts whose worth
                 \* may change, what to, and how often at most

VARIABLES
    class,    \* loan -> what it is worth
    held,     \* loan -> its positions
    late,     \* transactions nobody waits for any longer: <<loan, position>>
    falls,
    scenario,
    bot,      \* bot -> where it is
    uncaught  \* history: the bots an error has got out of

team == scenario.team
chainVars == <<class, held, late, falls>>
botVars == <<class, held, late, falls, scenario, bot, uncaught>>

--------------------------------------------------------------------------
(* An account is "healthy", or insolvent with a health ratio below 1; down  *)
(* to 0.98 it is on the "edge".  One that is worth more than it owes, though*)
(* not without its Vector position, is "backed"; "even" is worth what it    *)
(* owes.                                                                    *)
Low == {"low", "backed", "even", "bankrupt"}
Insolvent == Low \cup {"edge"}

(* The positions each helper of utlis.js looks for, in its order.  *)
unstakeYieldYak ==
    <<"YY_AAVE_AVAX", "YY_PTP_sAVAX", "YY_PNG_AVAX_USDC_LP", "YY_PNG_AVAX_ETH_LP",
      "YY_TJ_AVAX_USDC_LP", "YY_TJ_AVAX_ETH_LP", "YY_TJ_AVAX_sAVAX_LP", "YY_GLP">>
unwindPangolinLPPositions == <<"PNG_AVAX_USDC_LP", "PNG_AVAX_USDT_LP", "PNG_AVAX_ETH_LP">>
unstakeGlp == <<"GLP">>
unwindTraderJoeLPPositions ==
    <<"TJ_AVAX_USDC_LP", "TJ_AVAX_USDT_LP", "TJ_AVAX_ETH_LP", "TJ_AVAX_BTC_LP",
      "TJ_AVAX_sAVAX_LP">>
(* None: of the staked positions of the account, the first one makes the    *)
(* helper throw before anything is sent.  It decodes the symbol when it     *)
(* reads the position and decodes the text it got once more to compare it   *)
(* with USDC.  What it throws it catches; not even a failure is left of it. *)
unstakeStakedPositions == <<>>
Staked == {"staked_AVAX", "staked_sAVAX", "staked_USDC"}

walletHelpers ==
    <<unstakeGlp, unstakeStakedPositions, unstakeYieldYak,
      unwindPangolinLPPositions, unwindTraderJoeLPPositions>>
\* Mutant of flashHelpers: GLP is looked for before its vault is emptied.
flashHelpersGlpFirst ==
    <<unstakeGlp, unstakeYieldYak, unstakeStakedPositions,
      unwindPangolinLPPositions, unwindTraderJoeLPPositions>>
flashHelpers ==
    <<unstakeYieldYak, unstakeGlp, unstakeStakedPositions,
      unwindPangolinLPPositions, unwindTraderJoeLPPositions>>
ltvHelpers ==
    <<unstakeYieldYak, unstakeGlp, unstakeStakedPositions,
      unwindPangolinLPPositions, unwindTraderJoeLPPositions>>
Helpers(b) == CASE b = "wallet" -> walletHelpers [] b = "flash" -> flashHelpers
                [] b = "ltv" -> ltvHelpers

(* The positions that accounts hold: those a bot looks for and staked ones. *)
ASSUME ScenarioAssumption ==
    /\ IsFiniteSet(Loans)
    /\ \A s \in Scenarios :
          /\ s.team \subseteq {"wallet", "flash", "ltv"}
          /\ s.held \in [Loans -> SUBSET (Staked
                                \cup UNION {ToSet(helper) : helper \in ToSet(ltvHelpers)})]

(* A vault of Yield Yak gives back what was put into it.  *)
Inside(p) ==
    CASE p = "YY_PNG_AVAX_USDC_LP" -> {"PNG_AVAX_USDC_LP"}
      [] p = "YY_PNG_AVAX_ETH_LP" -> {"PNG_AVAX_ETH_LP"}
      [] p = "YY_TJ_AVAX_USDC_LP" -> {"TJ_AVAX_USDC_LP"}
      [] p = "YY_TJ_AVAX_ETH_LP" -> {"TJ_AVAX_ETH_LP"}
      [] p = "YY_TJ_AVAX_sAVAX_LP" -> {"TJ_AVAX_sAVAX_LP"}
      [] p = "YY_GLP" -> {"GLP"}
      [] OTHER -> {}
Unwound(s, p) == (s \ {p}) \cup Inside(p)

Resting == [pc |-> "idle", todo |-> <<>>, step |-> 1, at |-> 1, missed |-> FALSE]

Init ==
    /\ scenario \in Scenarios
    /\ class = [l \in Loans |-> "healthy"] /\ held = scenario.held
    /\ late = {} /\ falls = 0
    /\ bot = [b \in scenario.team |-> Resting] /\ uncaught = {}

--------------------------------------------------------------------------
(* Prices move.  *)
PricesChange(l) ==
    /\ l \in scenario.falling /\ falls < scenario.most /\ falls' = falls + 1
    /\ \E c \in scenario.falls : class' = [class EXCEPT ![l] = c]
    /\ UNCHANGED <<held, late, scenario, bot, uncaught>>

(* A position may be closed by others than the owner while the account is   *)
(* insolvent, if it is still there.                                         *)
Closes(l, p) == class[l] \in Insolvent /\ p \in held[l]
MinedLate(l, p) ==
    /\ <<l, p>> \in late /\ late' = late \ {<<l, p>>}
    /\ held' = IF Closes(l, p) THEN [held EXCEPT ![l] = Unwound(@, p)] ELSE held
    /\ UNCHANGED <<class, falls, scenario, bot, uncaught>>

--------------------------------------------------------------------------
At(b, pc) == b \in team /\ bot[b].pc = pc
Become(b, next) == bot' = [bot EXCEPT ![b] = next]
Goes(b, pc) == Become(b, [bot[b] EXCEPT !.pc = pc])
Loan(b) == Head(bot[b].todo)

(* The loans a loop goes through.  The wallet's asks for isSolvent.  *)
walletInsolventLoans == {l \in Loans : class[l] \in Insolvent}
(* The ltv loop subtracts the Vector position in the wrong unit, so next to *)
(* nothing, and calls solvent what is worth more than it owes.              *)
ltvInsolventLoans == {l \in Loans : class[l] \in {"even", "bankrupt"}}
(* The flash loop logs the insolvent accounts and lists none.  *)
flashInsolventLoans == {}
getInsolventLoans(b) ==
    CASE b = "wallet" -> walletInsolventLoans [] b = "ltv" -> ltvInsolventLoans
      [] b = "flash" -> flashInsolventLoans

(* The next loan of the list, or the timer of the next pass.  *)
Onwards(todo) ==
    IF todo = <<>> THEN Resting ELSE [Resting EXCEPT !.pc = "health", !.todo = todo]

(* A pass: the accounts answer in any order.  *)
liquidateInsolventLoans(b) ==
    /\ At(b, "idle")
    /\ \E order \in SetToSeqs(getInsolventLoans(b)) : Become(b, Onwards(order))
    /\ UNCHANGED <<chainVars, scenario, uncaught>>

(* Whoever calls the flash bot names the account.  *)
Called(l) ==
    /\ At("flash", "idle") /\ Become("flash", Onwards(<<l>>))
    /\ UNCHANGED <<chainVars, scenario, uncaught>>

(* Nothing catches an error of a loop: its timer is never set again.  *)
Throws(b) ==
    /\ IF b = "flash" THEN Become(b, Resting) ELSE Goes(b, "stopped")
    /\ uncaught' = uncaught \cup {b}
CallFails(b) ==
    /\ \E pc \in {"idle", "health", "weighing", "preparing", "leaving"} : At(b, pc)
    /\ Throws(b)
    /\ UNCHANGED <<chainVars, scenario>>

(* getHealthRatio: below 0.98, or "on the edge of solvency, aborting".  *)
LooksAt(b) ==
    /\ At(b, "health")
    /\ IF class[Loan(b)] \in Low THEN Goes(b, "unwinding")
       ELSE Become(b, Onwards(Tail(bot[b].todo)))
    /\ UNCHANGED <<chainVars, scenario, uncaught>>

(* The next position of the helper at hand that the account holds.  *)
Positions(b) == Helpers(b)[bot[b].step]
Ahead(b) == {i \in bot[b].at .. Len(Positions(b)) : Positions(b)[i] \in held[Loan(b)]}
NextHelper(b, missed) ==
    IF bot[b].step = Len(Helpers(b))
    THEN [bot[b] EXCEPT !.pc = "weighing", !.missed = missed]
    ELSE [bot[b] EXCEPT !.pc = "unwinding", !.step = @ + 1, !.at = 1, !.missed = missed]

(* The helper sends the transaction, or finds nothing more and returns.  *)
Unwind(b) ==
    /\ At(b, "unwinding")
    /\ IF Ahead(b) = {} THEN Become(b, NextHelper(b, bot[b].missed))
       ELSE Become(b, [bot[b] EXCEPT !.pc = "waiting", !.at = Min(Ahead(b))])
    /\ UNCHANGED <<chainVars, scenario, uncaught>>

Waited(b) == Positions(b)[bot[b].at]

(* awaitConfirmation returns the receipt.  *)
UnwindMined(b) ==
    /\ At(b, "waiting") /\ Closes(Loan(b), Waited(b))
    /\ held' = [held EXCEPT ![Loan(b)] = Unwound(@, Waited(b))]
    /\ Become(b, [bot[b] EXCEPT !.pc = "unwinding", !.at = @ + 1])
    /\ UNCHANGED <<class, late, falls, scenario, uncaught>>

\* Mutant of HelperFails: the helper does not catch.
HelperThrows(b) ==
    /\ \E pc \in {"unwinding", "waiting"} : At(b, pc)
    /\ Goes(b, "stopped")
    /\ UNCHANGED <<chainVars, scenario, uncaught>>

(* It throws on a failed transaction, when a minute is over, or the call    *)
(* failed: the helper catches, and what it had still to look at is left.    *)
HelperFails(b) ==
    /\ \E pc \in {"unwinding", "waiting"} : At(b, pc)
    /\ Become(b, NextHelper(b, TRUE))
    /\ UNCHANGED <<chainVars, scenario, uncaught>>
HelperTimesOut(b) ==
    /\ At(b, "waiting")
    /\ late' = late \cup {<<Loan(b), Waited(b)>>}
    /\ Become(b, NextHelper(b, TRUE))
    /\ UNCHANGED <<class, held, falls, scenario, uncaught>>

(* The amounts are computed from debts, balances and prices read one after  *)
(* the other.  A bankrupt account is left alone; the flash loan bots do not *)
(* count its Vector position.                                               *)
walletBankrupt(l) == class[l] = "bankrupt"
flashBankrupt(l) == class[l] \in {"backed", "bankrupt"}
ltvBankrupt(l) == class[l] \in {"backed", "bankrupt"}
Bankrupt(b, l) ==
    CASE b = "wallet" -> walletBankrupt(l) [] b = "flash" -> flashBankrupt(l)
      [] b = "ltv" -> ltvBankrupt(l)
Weighs(b) ==
    /\ At(b, "weighing")
    /\ CASE ~Bankrupt(b, Loan(b)) -> Goes(b, "preparing")
         [] Bankrupt(b, Loan(b)) /\ b = "wallet" -> Goes(b, "leaving")
         [] Bankrupt(b, Loan(b)) /\ b # "wallet" -> Become(b, Onwards(Tail(bot[b].todo)))
    /\ UNCHANGED <<chainVars, scenario, uncaught>>

(* The wallet approves the tokens of a bankrupt account too, and only then  *)
(* does not touch it.                                                       *)
Leaves(b) ==
    /\ At(b, "leaving") /\ Become(b, Onwards(Tail(bot[b].todo)))
    /\ UNCHANGED <<chainVars, scenario, uncaught>>

(* What is to be repaid and delivered; the wallet approves the tokens, the  *)
(* flash loan bot asks a router for the way back to the borrowed ones.      *)
Prepares(b) ==
    /\ At(b, "preparing") /\ Goes(b, "liquidating")
    /\ UNCHANGED <<chainVars, scenario, uncaught>>

(* The contract liquidates nothing but an insolvent account.  *)
LiquidationMined(b) ==
    /\ At(b, "liquidating") /\ class[Loan(b)] \in Insolvent
    /\ class' = [class EXCEPT ![Loan(b)] = "healthy"]
    /\ Become(b, Onwards(Tail(bot[b].todo)))
    /\ UNCHANGED <<held, late, falls, scenario, uncaught>>

(* A liquidation that reverts ends the loop of the wallet; the others catch *)
(* it and go on.                                                            *)
walletLiquidationFails ==
    /\ At("wallet", "liquidating") /\ Throws("wallet")
    /\ UNCHANGED <<chainVars, scenario>>
flashLiquidationFails ==
    /\ At("flash", "liquidating") /\ Become("flash", Onwards(Tail(bot["flash"].todo)))
    /\ UNCHANGED <<chainVars, scenario, uncaught>>
ltvLiquidationFails ==
    /\ At("ltv", "liquidating") /\ Become("ltv", Onwards(Tail(bot["ltv"].todo)))
    /\ UNCHANGED <<chainVars, scenario, uncaught>>

--------------------------------------------------------------------------
Works(b) ==
    \/ liquidateInsolventLoans(b) \/ LooksAt(b) \/ Unwind(b) \/ UnwindMined(b)
    \/ HelperFails(b) \/ HelperTimesOut(b) \/ Weighs(b) \/ Leaves(b) \/ Prepares(b)
    \/ LiquidationMined(b) \/ CallFails(b)
Fails(b) ==
    \/ b = "wallet" /\ walletLiquidationFails
    \/ b = "flash" /\ flashLiquidationFails
    \/ b = "ltv" /\ ltvLiquidationFails
Around ==
    \/ \E l \in Loans : PricesChange(l) \/ Called(l)
    \/ \E t \in late : MinedLate(t[1], t[2])

--------------------------------------------------------------------------
(* A flash loan bot whose helpers met no failure they are made for sends    *)
(* its liquidation when no vault, LP token or GLP is left to close: the     *)
(* helpers come in an order in which a vault is emptied before what it      *)
(* holds, whatever the other bots close meanwhile.  (The wallet's bot looks *)
(* for GLP before it empties the vault that holds GLP, which then waits for *)
(* the next pass.)  Staked positions are excepted: no bot ever closes one   *)
(* (see unstakeStakedPositions).                                            *)
Through == {"weighing", "leaving", "preparing", "liquidating"}
NothingLeftOpen ==
    \A b \in team : (bot[b].pc \in Through /\ ~bot[b].missed) =>
        held[Loan(b)] \subseteq (IF b = "wallet" THEN {"GLP"} ELSE {}) \cup Staked

(* An account that needs a liquidation, and could be liquidated, gets one   *)
(* sent or recovers, however many positions cannot be closed and however    *)
(* many accounts come before it; unless the loop has ended for good.        *)
Attended(l) == \E b \in team : At(b, "liquidating") /\ Loan(b) = l
InsolventIsAttended ==
    \A l \in Loans :
        (class[l] = "low" /\ "wallet" \in team)
            ~> (class[l] # "low" \/ Attended(l) \/ "wallet" \in uncaught)
============================================================================
