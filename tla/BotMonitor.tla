----------------------------- MODULE BotMonitor -----------------------------
(***************************************************************************)
(* The liquidation bots together with the monitor that raises an alarm when *)
(* an account stays insolvent in spite of them                              *)
(* (src/tools/liquidation/monitor-and-notify-insolvent-loans.js).           *)
(*                                                                         *)
(* Time is counted in intervals of the monitor.                             *)
(***************************************************************************)
EXTENDS LiquidationBots, Integers

CONSTANTS
    Patience,     \* MAX_INSOLVENCY_DURATION in intervals
    Delays        \* how long a pass may take, the timer included

ASSUME MonitorAssumption == Patience \in Nat /\ Delays \subseteq Nat \ {0}

VARIABLES
    insolventLoans,   \* loan -> for how long it has been on record, or Absent
    seen,             \* history: for how long each loan was listed by every pass
                      \* since the start, or Absent
    kept,             \* history: entries that outlived a pass that listed nothing
    alarms,           \* the loans the last pass raised an alarm for
    monitored         \* the process runs

monitorVars == <<insolventLoans, seen, kept, alarms, monitored>>
vars == <<botVars, monitorVars>>

Absent == -1
Age(n, d) == IF n = Absent THEN 0 ELSE IF n + d > Patience THEN Patience + 1 ELSE n + d

MonitorInit ==
    /\ insolventLoans = [l \in Loans |-> Absent] /\ seen = insolventLoans
    /\ kept = {} /\ alarms = {} /\ monitored = TRUE

(* Worth more than it owes, the Vector position subtracted in the wrong     *)
(* unit, so next to nothing.                                                *)
monitoredLoans == {l \in Loans : class[l] \in {"even", "bankrupt"}}

\* Mutant of updateLoansInsolventTimes: entries are never deleted.
NothingDeleted(loans, d) ==
    LET aged == [l \in Loans |-> IF insolventLoans[l] = Absent THEN Absent
                                 ELSE Age(insolventLoans[l], d)]
    IN  /\ alarms' = {l \in loans : aged[l] # Absent /\ aged[l] > Patience}
        /\ insolventLoans' =
             [l \in Loans |-> IF l \in loans /\ aged[l] = Absent THEN 0 ELSE aged[l]]

(* A loan gets its entry when it is first listed, an alarm when the entry   *)
(* is too old.  The entries of the loans that are not listed are deleted    *)
(* by the body of the loop over the loans that are.                         *)
updateLoansInsolventTimes(loans, d) ==
    LET aged == [l \in Loans |-> IF insolventLoans[l] = Absent THEN Absent
                                 ELSE Age(insolventLoans[l], d)]
    IN  /\ alarms' = {l \in loans : aged[l] # Absent /\ aged[l] > Patience}
        /\ insolventLoans' =
             [l \in Loans |-> IF l \in loans THEN (IF aged[l] = Absent THEN 0 ELSE aged[l])
                              ELSE IF loans # {} THEN Absent ELSE aged[l]]

monitorLoansThatStayInsolvent ==
    \E d \in Delays :
        LET loans == monitoredLoans
        IN  /\ monitored /\ UNCHANGED monitored
            /\ updateLoansInsolventTimes(loans, d)
            /\ seen' = [l \in Loans |-> IF l \in loans THEN Age(seen[l], d) ELSE Absent]
            /\ kept' = {l \in Loans : insolventLoans'[l] # Absent /\ (l \in kept \/ loans = {})}
            /\ UNCHANGED botVars

(* An account that cannot be read, or an alarm whose post is rejected:      *)
(* nobody catches, and the process ends with what it had on record.         *)
MonitorEnds ==
    /\ monitored /\ monitored' = FALSE
    /\ insolventLoans' = [l \in Loans |-> Absent] /\ seen' = insolventLoans'
    /\ kept' = {} /\ alarms' = {}
    /\ UNCHANGED botVars
MonitorRestarted ==
    /\ ~monitored /\ monitored' = TRUE
    /\ UNCHANGED <<insolventLoans, seen, kept, alarms, botVars>>

BotStep ==
    /\ (\E b \in team : Works(b) \/ Fails(b)) \/ Around
    /\ UNCHANGED monitorVars

Next ==
    \/ BotStep \/ monitorLoansThatStayInsolvent
    \/ MonitorEnds \/ MonitorRestarted

(* Calls return, transactions are mined or waited for a minute, timers fire.*)
Fairness ==
    \A b \in {"wallet", "flash", "ltv"} :
        WF_vars(b \in team /\ (Works(b) \/ Fails(b)) /\ UNCHANGED monitorVars)
Spec == Init /\ MonitorInit /\ [][Next]_vars /\ Fairness

--------------------------------------------------------------------------
(* An alarm for a loan says that it "has been insolvent for over" so many   *)
(* seconds, more than the bots are given: every pass for that long listed   *)
(* it, and no such loan is passed over.  Entries that outlived a pass with  *)
(* an empty list are excused: the loop that deletes them has no body then,  *)
(* and their loan, insolvent again, is taken for one that always was.       *)
(* "For that long" is since the process was started; an alarm is raised     *)
(* here, whether its post arrives is not followed.                          *)
InsolvencyIsNoticed ==
    \A l \in Loans \ kept : l \in alarms <=> (seen[l] # Absent /\ seen[l] > Patience)
=============================================================================
