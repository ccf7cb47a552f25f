--------------------------- MODULE FailedTxMonitor ---------------------------
(***************************************************************************)
(* The monitor that reports the liquidators' failed transactions            *)
(* (src/tools/liquidation/monitor-liquidation-txs.js).  Every minute it     *)
(* asks an explorer for a page of transactions after the block it keeps in  *)
(* a file, writes the block of each failed one to that file, and posts      *)
(* their hashes at the end.                                                 *)
(*                                                                         *)
(* A transaction is its place in the explorer's list.                       *)
(***************************************************************************)
EXTENDS BotMonitor

CONSTANTS
    txPerPage,
    Blocks,        \* the liquidator's transactions of a block: failed or not
    MaxTxs         \* bound: transactions in the list

ASSUME WatcherAssumption ==
    /\ txPerPage \in Nat \ {0} /\ MaxTxs \in Nat
    /\ Blocks \subseteq Seq(BOOLEAN) /\ <<>> \notin Blocks

VARIABLES
    txlist,          \* sequence of [block, isError]
    lastUsedBlock,   \* the file
    result,          \* the transactions of the page that are still to be looked at
    cut,             \* the last transaction of the page
    txHashes,        \* the failed ones found in it
    up,              \* the process runs; it waits for its timer if the page is done
    reported,        \* the failed ones the health check service has heard of
    missed           \* history: those it will not hear of, and why; see the actions

watcherVars == <<txlist, lastUsedBlock, result, cut, txHashes, up, reported, missed>>

WatcherInit ==
    /\ txlist = <<>> /\ lastUsedBlock = 0 /\ cut = 0 /\ up = TRUE
    /\ result = {} /\ txHashes = {} /\ reported = {} /\ missed = {}

Failed(txs) == {i \in txs : txlist[i].isError}
After(block) == {i \in DOMAIN txlist : txlist[i].block > block}
IsFirst(i, txs) == \A j \in txs : i <= j

BlockMined ==
    \E fails \in Blocks :
        LET block == IF txlist = <<>> THEN 1 ELSE txlist[Len(txlist)].block + 1
        IN  /\ Len(txlist) + Len(fails) <= MaxTxs
            /\ txlist' = txlist \o [i \in DOMAIN fails |->
                                       [block |-> block, isError |-> fails[i]]]
            /\ UNCHANGED <<lastUsedBlock, result, cut, txHashes, up, reported, missed>>

(* getTxHistory: the answer of the explorer.                                *)
PageAnswered ==
    /\ up /\ result = {} /\ txHashes = {}
    /\ \E first \in After(lastUsedBlock) :
           /\ IsFirst(first, After(lastUsedBlock))
           /\ result' = {i \in After(lastUsedBlock) : i < first + txPerPage}
           /\ cut' = IF first + txPerPage > Len(txlist) THEN Len(txlist)
                     ELSE first + txPerPage - 1
    /\ UNCHANGED <<txlist, lastUsedBlock, txHashes, up, reported, missed>>

(* The body of the loop.  The next page starts after the block of a failed  *)
(* transaction, and so passes over what this page was too short for.        *)
Look ==
    \E i \in result :
        /\ up /\ IsFirst(i, result) /\ result' = result \ {i}
        /\ IF txlist[i].isError
           THEN /\ lastUsedBlock' = txlist[i].block
                /\ txHashes' = txHashes \cup {i}
                /\ missed' = missed \cup
                     Failed({j \in DOMAIN txlist : j > cut /\ txlist[j].block = txlist[i].block})
           ELSE UNCHANGED <<lastUsedBlock, txHashes, missed>>
        /\ UNCHANGED <<txlist, cut, up, reported>>

(* reportFailedLiquidationTxs: nobody waits for the post, or tries again.   *)
Posted ==
    /\ up /\ result = {} /\ txHashes # {}
    /\ txHashes' = {}
    /\ \/ reported' = reported \cup txHashes /\ UNCHANGED missed
       \/ missed' = missed \cup txHashes /\ UNCHANGED reported
    /\ UNCHANGED <<txlist, lastUsedBlock, result, cut, up>>

(* An answer that is no list, or none: the exception ends the process.      *)
Ends ==
    /\ up /\ up' = FALSE
    /\ missed' = missed \cup txHashes
                  \cup Failed({i \in result : txlist[i].block <= lastUsedBlock})
    /\ result' = {} /\ txHashes' = {}
    /\ UNCHANGED <<txlist, lastUsedBlock, cut, reported>>

Restarted ==
    /\ ~up /\ up' = TRUE
    /\ UNCHANGED <<txlist, lastUsedBlock, result, cut, txHashes, reported, missed>>

(* What it reads stems from bots of which nothing else is followed.         *)
WatcherStep ==
    /\ team = {} /\ scenario.most = 0
    /\ BlockMined \/ PageAnswered \/ Look \/ Posted \/ Ends \/ Restarted
    /\ UNCHANGED vars

MonitorsInit == Init /\ MonitorInit /\ WatcherInit
MonitorsNext == (Next /\ UNCHANGED watcherVars) \/ WatcherStep
MonitorsSpec == MonitorsInit /\ [][MonitorsNext]_<<vars, watcherVars>> /\ Fairness

-----------------------------------------------------------------------------
(* A failed liquidation is reported once, unless the page ended within its  *)
(* block, its post was lost or the process ended before it (see `missed').  *)
FailuresAreReported ==
    /\ reported \cap (txHashes \cup result) = {}
    /\ Failed({i \in DOMAIN txlist : txlist[i].block <= lastUsedBlock})
          \subseteq reported \cup txHashes \cup result \cup missed

(* Both monitors say what is so: an account is reported insolvent for too   *)
(* long exactly if it was, and failed liquidations are reported, once.      *)
AlarmsAreTrue == InsolvencyIsNoticed /\ FailuresAreReported
=============================================================================
