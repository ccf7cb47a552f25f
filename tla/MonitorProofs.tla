---------------------------- MODULE MonitorProofs ----------------------------
(***************************************************************************)
(* Both monitors tell the truth, for any accounts, patience, page size and *)
(* transactions; of the bots that needs only that they leave the monitors' *)
(* variables alone.                                                        *)
(*                                                                         *)
(* And of the bots: whoever is liquidated has nothing left open that a      *)
(* helper of its bot closes.  The invariant says of a pass what it has looked for already,*)
(* in the order of its helpers, and that nothing looked for has come back: *)
(* a vault is emptied before what it hands out is looked for.              *)
(***************************************************************************)
EXTENDS FailedTxMonitor, SumLemmas

Ages == Nat \cup {Absent}

\* The record of a loan, unless it outlived an empty list, is as old as the
\* time for which every pass has listed the loan.
RecordsAreTrue ==
    /\ insolventLoans \in [Loans -> Ages] /\ seen \in [Loans -> Ages]
    /\ kept \subseteq Loans /\ alarms \subseteq Loans
    /\ \A l \in Loans \ kept : insolventLoans[l] = seen[l]

Transactions == [block : Nat, isError : BOOLEAN]

ListIsSorted ==
    /\ txlist \in Seq(Transactions) /\ lastUsedBlock \in Nat /\ cut \in 0..Len(txlist)
    /\ \A i, j \in DOMAIN txlist : i <= j => txlist[i].block <= txlist[j].block
    /\ lastUsedBlock # 0 => \E i \in DOMAIN txlist : txlist[i].block = lastUsedBlock

\* The rest of the page reaches from the marker to the cut; all that was
\* reported or is about to be lies up to the marker.
PageIsTheRest ==
    /\ result \subseteq DOMAIN txlist /\ txHashes \subseteq DOMAIN txlist
    /\ reported \subseteq DOMAIN txlist
    /\ \A i \in result : i <= cut /\ lastUsedBlock <= txlist[i].block
    /\ \A i \in reported \cup txHashes : txlist[i].block <= lastUsedBlock
    /\ result # {} => \A i \in DOMAIN txlist :
          i <= cut /\ txlist[i].isError /\ txlist[i].block > lastUsedBlock => i \in result

WatcherInv == ListIsSorted /\ PageIsTheRest /\ FailuresAreReported

LEMMA AgeIsNat == ASSUME NEW n \in Ages, NEW d \in Nat PROVE Age(n, d) \in Nat
BY MonitorAssumption DEF Age, Ages, Absent

LEMMA RestartKeepsRecords ==
    ASSUME RecordsAreTrue, InsolvencyIsNoticed, MonitorEnds \/ MonitorRestarted
    PROVE  RecordsAreTrue' /\ InsolvencyIsNoticed'
<1>1. CASE MonitorEnds
  BY <1>1 DEF MonitorEnds, RecordsAreTrue, InsolvencyIsNoticed, Ages
<1>2. CASE MonitorRestarted
  BY <1>2 DEF MonitorRestarted, RecordsAreTrue, InsolvencyIsNoticed
<1>. QED BY <1>1, <1>2

LEMMA InitRecords ==
    Init /\ MonitorInit => RecordsAreTrue /\ InsolvencyIsNoticed
BY MonitorAssumption DEF Init, MonitorInit, RecordsAreTrue, InsolvencyIsNoticed, Ages, Absent

LEMMA PassKeepsRecords ==
    ASSUME RecordsAreTrue, monitorLoansThatStayInsolvent
    PROVE  RecordsAreTrue' /\ InsolvencyIsNoticed'
<1>1. PICK d \in Delays :
        /\ updateLoansInsolventTimes(monitoredLoans, d)
        /\ seen' = [l \in Loans |-> IF l \in monitoredLoans THEN Age(seen[l], d) ELSE Absent]
        /\ kept' = {l \in Loans : insolventLoans'[l] # Absent
                                   /\ (l \in kept \/ monitoredLoans = {})}
  BY DEF monitorLoansThatStayInsolvent
<1> DEFINE loans == monitoredLoans
           aged == [l \in Loans |-> IF insolventLoans[l] = Absent THEN Absent
                                    ELSE Age(insolventLoans[l], d)]
<1>2. loans \subseteq Loans /\ d \in Nat /\ Patience \in Nat
  BY MonitorAssumption DEF monitoredLoans
<1>3. /\ alarms' = {l \in loans : aged[l] # Absent /\ aged[l] > Patience}
      /\ insolventLoans' =
           [l \in Loans |-> IF l \in loans THEN (IF aged[l] = Absent THEN 0 ELSE aged[l])
                            ELSE IF loans # {} THEN Absent ELSE aged[l]]
  BY <1>1 DEF updateLoansInsolventTimes
<1>4. \A l \in Loans : Age(insolventLoans[l], d) \in Nat /\ Age(seen[l], d) \in Nat
  BY <1>2, AgeIsNat DEF RecordsAreTrue
<1>5. Age(Absent, d) = 0
  BY DEF Age
<1>6. \A l \in Loans : aged[l] \in Ages
  BY <1>4 DEF Ages
<1> HIDE DEF loans
<1>7. \A l \in Loans \ kept' : insolventLoans'[l] = seen'[l]
  <2> SUFFICES ASSUME NEW l \in Loans, l \notin kept' PROVE insolventLoans'[l] = seen'[l]
    OBVIOUS
  <2>1. CASE l \in loans /\ l \in kept
    <3>1. insolventLoans'[l] # Absent
      BY <2>1, <1>3, <1>4 DEF Absent, Ages
    <3>. QED BY <3>1, <2>1, <1>1
  <2>2. CASE l \in loans /\ l \notin kept
    BY <2>2, <1>1, <1>3, <1>4, <1>5 DEF RecordsAreTrue, loans, Absent
  <2>3. CASE l \notin loans
    <3>1. seen'[l] = Absent
      BY <2>3, <1>1 DEF loans
    <3>2. insolventLoans'[l] = Absent
      BY <2>3, <1>1, <1>3, <1>4 DEF RecordsAreTrue, loans, Absent
    <3>. QED BY <3>1, <3>2
  <2>. QED BY <2>1, <2>2, <2>3
<1>8. RecordsAreTrue'
  <2>1. insolventLoans' \in [Loans -> Ages]
    BY <1>2, <1>3, <1>4, <1>6 DEF Ages
  <2>2. seen' \in [Loans -> Ages]
    BY <1>1, <1>4 DEF Ages
  <2>3. kept' \subseteq Loans /\ alarms' \subseteq Loans
    BY <1>1, <1>2, <1>3
  <2>. QED BY <2>1, <2>2, <2>3, <1>7 DEF RecordsAreTrue
<1>9. \A l \in Loans \ kept' :
        l \in alarms' <=> (seen'[l] # Absent /\ seen'[l] > Patience)
  <2> SUFFICES ASSUME NEW l \in Loans, l \notin kept'
               PROVE  l \in alarms' <=> (seen'[l] # Absent /\ seen'[l] > Patience)
    OBVIOUS
  <2>1. CASE l \notin loans
    BY <2>1, <1>1, <1>3 DEF loans
  <2>2. CASE l \in loans /\ aged[l] = Absent
    <3>1. seen'[l] = 0
      BY <2>2, <1>2, <1>3, <1>7
    <3>. QED BY <3>1, <2>2, <1>2, <1>3
  <2>3. CASE l \in loans /\ aged[l] # Absent
    <3>1. seen'[l] = aged[l]
      BY <2>3, <1>2, <1>3, <1>7
    <3>. QED BY <3>1, <2>3, <1>2, <1>3
  <2>. QED BY <2>1, <2>2, <2>3
<1>. QED BY <1>8, <1>9 DEF InsolvencyIsNoticed

-----------------------------------------------------------------------------

LEMMA InitWatcher == WatcherInit => WatcherInv
BY DEF WatcherInit, WatcherInv, ListIsSorted, PageIsTheRest, FailuresAreReported, Failed

LEMMA BlockKeeps ==
    ASSUME WatcherInv, BlockMined PROVE WatcherInv'
<1>1. PICK fails \in Blocks :
        LET block == IF txlist = <<>> THEN 1 ELSE txlist[Len(txlist)].block + 1
        IN txlist' = txlist \o [i \in DOMAIN fails |->
                                   [block |-> block, isError |-> fails[i]]]
  BY DEF BlockMined
<1> DEFINE block == IF txlist = <<>> THEN 1 ELSE txlist[Len(txlist)].block + 1
           mined == [i \in DOMAIN fails |-> [block |-> block, isError |-> fails[i]]]
<1>2. UNCHANGED <<lastUsedBlock, result, cut, txHashes, up, reported, missed>>
  BY DEF BlockMined
<1>3. fails \in Seq(BOOLEAN) /\ Len(fails) \in Nat /\ DOMAIN fails = 1..Len(fails)
  BY WatcherAssumption
<1>4. /\ txlist \in Seq(Transactions) /\ Len(txlist) \in Nat
      /\ DOMAIN txlist = 1..Len(txlist)
      /\ \A i \in DOMAIN txlist : txlist[i] \in Transactions /\ txlist[i].block \in Nat
  <2>1. txlist \in Seq(Transactions)
    BY DEF WatcherInv, ListIsSorted
  <2>2. \A i \in DOMAIN txlist : txlist[i] \in Transactions
    BY <2>1
  <2>. QED BY <2>1, <2>2 DEF Transactions
<1>5. block \in Nat /\ block > 0 /\ \A i \in DOMAIN txlist : txlist[i].block < block
  <2>1. CASE txlist = <<>>
    BY <2>1, <1>4
  <2>2. CASE txlist # <<>>
    <3>1. Len(txlist) \in DOMAIN txlist
      BY <2>2, <1>4
    <3>2. \A i \in DOMAIN txlist : txlist[i].block <= txlist[Len(txlist)].block
      BY <3>1, <1>4 DEF WatcherInv, ListIsSorted
    <3>. QED BY <3>1, <3>2, <2>2, <1>4
  <2>. QED BY <2>1, <2>2
<1> HIDE DEF block
<1>6. mined \in Seq(Transactions) /\ Len(mined) = Len(fails) /\ DOMAIN mined = 1..Len(fails)
  BY <1>3, <1>5 DEF Transactions
<1>7. \A i \in DOMAIN mined : mined[i].block = block
  BY <1>6
<1> HIDE DEF mined
<1>8. txlist' = txlist \o mined
  BY <1>1 DEF mined, block
<1>9. /\ txlist' \in Seq(Transactions) /\ DOMAIN txlist' = 1..(Len(txlist) + Len(mined))
      /\ \A i \in DOMAIN txlist : i \in DOMAIN txlist' /\ txlist'[i] = txlist[i]
  <2>1. txlist' \in Seq(Transactions) /\ Len(txlist') = Len(txlist) + Len(mined)
    <3>1. Len(txlist \o mined) = Len(txlist) + Len(mined)
      BY <1>4, <1>6
    <3>2. txlist \o mined \in Seq(Transactions)
      BY <1>4, <1>6
    <3>. QED BY <3>1, <3>2, <1>8
  <2>2. DOMAIN txlist' = 1..(Len(txlist) + Len(mined))
    BY <2>1
  <2>3. \A i \in DOMAIN txlist : txlist'[i] = txlist[i]
    BY <1>4, <1>6, <1>8
  <2>. QED BY <1>3, <1>4, <1>6, <2>1, <2>2, <2>3
<1>10. \A i \in DOMAIN txlist' : i \notin DOMAIN txlist => txlist'[i].block = block
  <2> SUFFICES ASSUME NEW i \in DOMAIN txlist', i \notin DOMAIN txlist
               PROVE  txlist'[i].block = block
    OBVIOUS
  <2>1. i \in Nat /\ i > Len(txlist) /\ i - Len(txlist) \in DOMAIN mined
    BY <1>4, <1>6, <1>9
  <2>2. txlist'[i] = mined[i - Len(txlist)]
    BY <2>1, <1>4, <1>6, <1>8, <1>9
  <2>. QED BY <2>1, <2>2, <1>7
<1>11. \A i \in DOMAIN txlist, j \in DOMAIN txlist' : j \notin DOMAIN txlist => i < j
  BY <1>4, <1>9
<1>12. lastUsedBlock < block
  <2>1. CASE lastUsedBlock = 0
    BY <2>1, <1>5
  <2>2. CASE lastUsedBlock # 0
    <3>1. PICK i \in DOMAIN txlist : txlist[i].block = lastUsedBlock
      BY <2>2 DEF WatcherInv, ListIsSorted
    <3>. QED BY <3>1, <1>5
  <2>. QED BY <2>1, <2>2
<1>13. ListIsSorted'
  <2>1. \A i, j \in DOMAIN txlist' : i <= j => txlist'[i].block <= txlist'[j].block
    <3> SUFFICES ASSUME NEW i \in DOMAIN txlist', NEW j \in DOMAIN txlist', i <= j
                 PROVE  txlist'[i].block <= txlist'[j].block
      OBVIOUS
    <3>1. CASE i \in DOMAIN txlist /\ j \in DOMAIN txlist
      BY <3>1, <1>9 DEF WatcherInv, ListIsSorted
    <3>2. CASE i \in DOMAIN txlist /\ j \notin DOMAIN txlist
      BY <3>2, <1>4, <1>5, <1>9, <1>10
    <3>3. CASE i \notin DOMAIN txlist /\ j \in DOMAIN txlist
      BY <3>3, <1>4, <1>9
    <3>4. CASE i \notin DOMAIN txlist /\ j \notin DOMAIN txlist
      BY <3>4, <1>5, <1>10
    <3>. QED BY <3>1, <3>2, <3>3, <3>4
  <2>2. lastUsedBlock' # 0 => \E i \in DOMAIN txlist' : txlist'[i].block = lastUsedBlock'
    BY <1>2, <1>9 DEF WatcherInv, ListIsSorted
  <2>. QED BY <2>1, <2>2, <1>2, <1>9 DEF WatcherInv, ListIsSorted
<1>14. PageIsTheRest'
  <2>1. result # {} => \A i \in DOMAIN txlist' :
          i <= cut /\ txlist'[i].isError /\ txlist'[i].block > lastUsedBlock => i \in result
    <3> SUFFICES ASSUME result # {}, NEW i \in DOMAIN txlist', i <= cut,
                        txlist'[i].isError, txlist'[i].block > lastUsedBlock
                 PROVE  i \in result
      OBVIOUS
    <3>1. i \in DOMAIN txlist
      BY <1>4, <1>9 DEF WatcherInv, ListIsSorted
    <3>. QED BY <3>1, <1>9 DEF WatcherInv, PageIsTheRest
  <2>. QED BY <2>1, <1>2, <1>9 DEF WatcherInv, PageIsTheRest
<1>15. FailuresAreReported'
  <2>1. Failed({i \in DOMAIN txlist : txlist[i].block <= lastUsedBlock})'
          = Failed({i \in DOMAIN txlist : txlist[i].block <= lastUsedBlock})
    <3>1. \A i \in DOMAIN txlist' : txlist'[i].block <= lastUsedBlock => i \in DOMAIN txlist
      BY <1>5, <1>10, <1>12 DEF WatcherInv, ListIsSorted
    <3>. QED BY <3>1, <1>2, <1>9 DEF Failed
  <2>. QED BY <2>1, <1>2 DEF WatcherInv, FailuresAreReported
<1>. QED BY <1>13, <1>14, <1>15 DEF WatcherInv

LEMMA PageKeeps ==
    ASSUME WatcherInv, PageAnswered PROVE WatcherInv'
<1>1. PICK first \in After(lastUsedBlock) :
        /\ IsFirst(first, After(lastUsedBlock))
        /\ result' = {i \in After(lastUsedBlock) : i < first + txPerPage}
        /\ cut' = IF first + txPerPage > Len(txlist) THEN Len(txlist)
                  ELSE first + txPerPage - 1
  BY DEF PageAnswered
<1>2. /\ result = {} /\ txHashes = {}
      /\ UNCHANGED <<txlist, lastUsedBlock, txHashes, up, reported, missed>>
  BY DEF PageAnswered
<1>3. /\ Len(txlist) \in Nat /\ DOMAIN txlist = 1..Len(txlist) /\ lastUsedBlock \in Nat
      /\ first \in DOMAIN txlist /\ txPerPage \in Nat /\ txPerPage > 0
  BY WatcherAssumption DEF WatcherInv, ListIsSorted, After
<1>4. \A i \in DOMAIN txlist : txlist[i].block \in Nat
  <2>1. \A i \in DOMAIN txlist : txlist[i] \in Transactions
    BY <1>3 DEF WatcherInv, ListIsSorted
  <2>. QED BY <2>1 DEF Transactions
<1>5. cut' \in 0..Len(txlist) /\ \A i \in DOMAIN txlist : i <= cut' <=> i < first + txPerPage
  BY <1>1, <1>3
<1>6. ListIsSorted'
  BY <1>2, <1>5 DEF WatcherInv, ListIsSorted
<1>7. PageIsTheRest'
  BY <1>1, <1>2, <1>3, <1>4, <1>5 DEF WatcherInv, PageIsTheRest, After
<1>8. FailuresAreReported'
  <2>1. reported \cap result' = {}
    BY <1>1, <1>3, <1>4 DEF WatcherInv, PageIsTheRest, After
  <2>. QED BY <1>2, <2>1 DEF WatcherInv, FailuresAreReported, Failed
<1>. QED BY <1>6, <1>7, <1>8 DEF WatcherInv

LEMMA LookKeeps ==
    ASSUME WatcherInv, Look PROVE WatcherInv'
<1>1. PICK i \in result :
        /\ IsFirst(i, result) /\ result' = result \ {i}
        /\ IF txlist[i].isError
           THEN /\ lastUsedBlock' = txlist[i].block
                /\ txHashes' = txHashes \cup {i}
                /\ missed' = missed \cup
                     Failed({j \in DOMAIN txlist : j > cut /\ txlist[j].block = txlist[i].block})
           ELSE UNCHANGED <<lastUsedBlock, txHashes, missed>>
        /\ UNCHANGED <<txlist, cut, up, reported>>
  BY DEF Look
<1>2. /\ Len(txlist) \in Nat /\ DOMAIN txlist = 1..Len(txlist)
      /\ lastUsedBlock \in Nat /\ cut \in Nat /\ i \in DOMAIN txlist
  BY DEF WatcherInv, ListIsSorted, PageIsTheRest
<1>3. \A j \in DOMAIN txlist : txlist[j].block \in Nat
  <2>1. \A j \in DOMAIN txlist : txlist[j] \in Transactions
    BY <1>2 DEF WatcherInv, ListIsSorted
  <2>. QED BY <2>1 DEF Transactions
<1>4. /\ lastUsedBlock <= txlist[i].block /\ i <= cut
      /\ \A j \in result : i <= j /\ j \in DOMAIN txlist /\ txlist[i].block <= txlist[j].block
  BY <1>1, <1>2 DEF WatcherInv, ListIsSorted, PageIsTheRest, IsFirst
<1>5. CASE ~txlist[i].isError
  <2>1. UNCHANGED <<lastUsedBlock, txHashes, missed, txlist, cut, up, reported>>
    BY <1>1, <1>5
  <2>2. ListIsSorted'
    BY <2>1 DEF WatcherInv, ListIsSorted
  <2>3. PageIsTheRest'
    BY <1>1, <1>5, <2>1 DEF WatcherInv, PageIsTheRest
  <2>4. FailuresAreReported'
    BY <1>1, <1>5, <2>1 DEF WatcherInv, FailuresAreReported, Failed
  <2>. QED BY <2>2, <2>3, <2>4 DEF WatcherInv
<1>6. CASE txlist[i].isError
  <2>1. /\ lastUsedBlock' = txlist[i].block /\ txHashes' = txHashes \cup {i}
        /\ missed' = missed \cup
             Failed({j \in DOMAIN txlist : j > cut /\ txlist[j].block = txlist[i].block})
        /\ UNCHANGED <<txlist, cut, up, reported>>
    BY <1>1, <1>6
  <2>2. ListIsSorted'
    BY <1>2, <1>3, <2>1 DEF WatcherInv, ListIsSorted
  <2>3. PageIsTheRest'
    <3>1. \A j \in result' : j <= cut' /\ lastUsedBlock' <= txlist'[j].block
      BY <1>1, <1>4, <2>1 DEF WatcherInv, PageIsTheRest
    <3>2. \A j \in reported' \cup txHashes' : txlist'[j].block <= lastUsedBlock'
      BY <1>2, <1>3, <1>4, <2>1 DEF WatcherInv, PageIsTheRest
    <3>3. \A j \in DOMAIN txlist :
            j <= cut /\ txlist[j].isError /\ txlist[j].block > lastUsedBlock' => j \in result'
      BY <1>1, <1>2, <1>3, <1>4, <2>1 DEF WatcherInv, PageIsTheRest
    <3>. QED BY <1>1, <1>2, <2>1, <3>1, <3>2, <3>3 DEF WatcherInv, PageIsTheRest
  <2>4. FailuresAreReported'
    <3>1. reported' \cap (txHashes' \cup result') = {}
      BY <1>1, <2>1 DEF WatcherInv, FailuresAreReported
    <3>2. ASSUME NEW j \in DOMAIN txlist, txlist[j].isError, txlist[j].block <= txlist[i].block
          PROVE  j \in reported' \cup txHashes' \cup result' \cup missed'
      <4>1. CASE txlist[j].block <= lastUsedBlock
        <5>1. j \in reported \cup txHashes \cup result \cup missed
          BY <3>2, <4>1 DEF WatcherInv, FailuresAreReported, Failed
        <5>. QED BY <5>1, <1>1, <2>1
      <4>2. CASE txlist[j].block > lastUsedBlock /\ j <= cut
        <5>1. j \in result
          BY <3>2, <4>2 DEF WatcherInv, PageIsTheRest
        <5>. QED BY <5>1, <1>1, <2>1
      <4>3. CASE j > cut
        <5>1. i <= j
          BY <1>2, <1>4, <4>3
        <5>2. txlist[j].block = txlist[i].block
          BY <5>1, <3>2, <1>2, <1>3 DEF WatcherInv, ListIsSorted
        <5>. QED BY <5>2, <4>3, <3>2, <2>1 DEF Failed
      <4>. QED BY <4>1, <4>2, <4>3, <1>2, <1>3
    <3>3. Failed({j \in DOMAIN txlist : txlist[j].block <= lastUsedBlock})'
            \subseteq reported' \cup txHashes' \cup result' \cup missed'
      BY <2>1, <3>2 DEF Failed
    <3>. QED BY <3>1, <3>3 DEF FailuresAreReported
  <2>. QED BY <2>2, <2>3, <2>4 DEF WatcherInv
<1>. QED BY <1>5, <1>6

LEMMA PostKeeps ==
    ASSUME WatcherInv, Posted PROVE WatcherInv'
<1>1. /\ result = {} /\ txHashes' = {}
      /\ UNCHANGED <<txlist, lastUsedBlock, result, cut, up>>
      /\ \/ reported' = reported \cup txHashes /\ UNCHANGED missed
         \/ missed' = missed \cup txHashes /\ UNCHANGED reported
  BY DEF Posted
<1>2. ListIsSorted'
  BY <1>1 DEF WatcherInv, ListIsSorted
<1>3. PageIsTheRest'
  BY <1>1 DEF WatcherInv, PageIsTheRest
<1>4. FailuresAreReported'
  BY <1>1 DEF WatcherInv, FailuresAreReported, Failed
<1>. QED BY <1>2, <1>3, <1>4 DEF WatcherInv

LEMMA EndKeeps ==
    ASSUME WatcherInv, Ends \/ Restarted PROVE WatcherInv'
<1>1. UNCHANGED <<txlist, lastUsedBlock, cut, reported>>
  BY DEF Ends, Restarted
<1>2. ListIsSorted'
  BY <1>1 DEF WatcherInv, ListIsSorted
<1>3. CASE Ends
  <2>1. /\ result' = {} /\ txHashes' = {}
        /\ missed' = missed \cup txHashes
                       \cup Failed({i \in result : txlist[i].block <= lastUsedBlock})
    BY <1>3 DEF Ends
  <2>2. PageIsTheRest'
    BY <1>1, <2>1 DEF WatcherInv, PageIsTheRest
  <2>3. FailuresAreReported'
    BY <1>1, <2>1 DEF WatcherInv, PageIsTheRest, FailuresAreReported, Failed
  <2>. QED BY <1>2, <2>2, <2>3 DEF WatcherInv
<1>4. CASE Restarted
  <2>1. UNCHANGED <<result, txHashes, missed>>
    BY <1>4 DEF Restarted
  <2>2. PageIsTheRest'
    BY <1>1, <2>1 DEF WatcherInv, PageIsTheRest
  <2>3. FailuresAreReported'
    BY <1>1, <2>1 DEF WatcherInv, FailuresAreReported, Failed
  <2>. QED BY <1>2, <2>2, <2>3 DEF WatcherInv
<1>. QED BY <1>3, <1>4

-----------------------------------------------------------------------------

IInv == RecordsAreTrue /\ InsolvencyIsNoticed /\ WatcherInv

LEMMA StepKeeps == IInv /\ [MonitorsNext]_<<vars, watcherVars>> => IInv'
<1> SUFFICES ASSUME IInv, [MonitorsNext]_<<vars, watcherVars>> PROVE IInv'
  OBVIOUS
<1>1. ASSUME UNCHANGED monitorVars
      PROVE  RecordsAreTrue' /\ InsolvencyIsNoticed'
  BY <1>1 DEF IInv, RecordsAreTrue, InsolvencyIsNoticed, monitorVars
<1>2. ASSUME UNCHANGED watcherVars PROVE WatcherInv'
  <2>1. UNCHANGED <<txlist, lastUsedBlock, result, cut, txHashes, up, reported, missed>>
    BY <1>2 DEF watcherVars
  <2>. QED BY <2>1 DEF IInv, WatcherInv, ListIsSorted, PageIsTheRest,
                       FailuresAreReported, Failed
<1>3. CASE BotStep /\ UNCHANGED watcherVars
  BY <1>1, <1>2, <1>3 DEF BotStep, IInv
<1>4. CASE monitorLoansThatStayInsolvent /\ UNCHANGED watcherVars
  BY <1>2, <1>4, PassKeepsRecords DEF IInv
<1>7. CASE (MonitorEnds \/ MonitorRestarted) /\ UNCHANGED watcherVars
  BY <1>2, <1>7, RestartKeepsRecords DEF IInv
<1>5. CASE WatcherStep
  <2>1. UNCHANGED monitorVars
    BY <1>5 DEF WatcherStep, vars
  <2>2. WatcherInv'
    BY <1>5, BlockKeeps, PageKeeps, LookKeeps, PostKeeps, EndKeeps DEF WatcherStep, IInv
  <2>. QED BY <2>1, <2>2, <1>1 DEF IInv
<1>6. CASE UNCHANGED <<vars, watcherVars>>
  BY <1>1, <1>2, <1>6 DEF vars, IInv
<1>. QED BY <1>3, <1>4, <1>5, <1>6, <1>7 DEF MonitorsNext, Next

\* For any accounts, bots, patience and page size, whatever is slow, fails or is
\* restarted: an account is reported insolvent for too long exactly if it was
\* (entries that outlived an empty list excepted), and a failed liquidation is
\* reported once, or missed for one of the three known reasons.
THEOREM AlarmsHold == MonitorsSpec => []AlarmsAreTrue
<1>1. MonitorsInit => IInv
  BY InitRecords, InitWatcher DEF MonitorsInit, IInv
<1>2. IInv => AlarmsAreTrue
  BY DEF IInv, WatcherInv, AlarmsAreTrue
<1>. QED BY <1>1, <1>2, StepKeeps, PTL DEF MonitorsSpec

-----------------------------------------------------------------------------
(* What the bots have closed stays closed *)

Bots == {"wallet", "flash", "ltv"}

Stages == {"idle", "health", "unwinding", "waiting", "weighing", "leaving",
           "preparing", "liquidating", "stopped"}

Names == Staked \cup UNION {ToSet(helper) : helper \in ToSet(ltvHelpers)}

\* Whether a bot has looked for a position once it is at place k of helper i.
Looked(b, i, k, p) ==
    \E h \in 1..5 : \E j \in DOMAIN Helpers(b)[h] :
        p = Helpers(b)[h][j] /\ (h < i \/ (h = i /\ j < k))

\* What may be there all the same: the wallet's bot looks for GLP too early.
Spared(b) == IF b = "wallet" THEN {"GLP"} ELSE {}

LEMMA HelpersInOrder ==
    /\ DOMAIN ltvHelpers = 1..5
    /\ ltvHelpers[1] = unstakeYieldYak /\ ltvHelpers[2] = unstakeGlp
    /\ ltvHelpers[3] = unstakeStakedPositions
    /\ ltvHelpers[4] = unwindPangolinLPPositions /\ ltvHelpers[5] = unwindTraderJoeLPPositions
    /\ Helpers("ltv") = ltvHelpers /\ Helpers("flash") = ltvHelpers
    /\ Helpers("wallet")[1] = unstakeGlp /\ Helpers("wallet")[2] = unstakeStakedPositions
    /\ Helpers("wallet")[3] = unstakeYieldYak
    /\ Helpers("wallet")[4] = unwindPangolinLPPositions
    /\ Helpers("wallet")[5] = unwindTraderJoeLPPositions
<1>3. DOMAIN ltvHelpers = 1..5
  BY DEF ltvHelpers
<1>4. Helpers("ltv") = ltvHelpers /\ Helpers("flash") = ltvHelpers
  BY DEF Helpers, flashHelpers, ltvHelpers
<1>5. /\ ltvHelpers[1] = unstakeYieldYak /\ ltvHelpers[2] = unstakeGlp
      /\ ltvHelpers[3] = unstakeStakedPositions
      /\ ltvHelpers[4] = unwindPangolinLPPositions
      /\ ltvHelpers[5] = unwindTraderJoeLPPositions
  BY DEF ltvHelpers
<1>6. Helpers("wallet") = walletHelpers
  BY DEF Helpers
<1>7. /\ walletHelpers[1] = unstakeGlp /\ walletHelpers[2] = unstakeStakedPositions
      /\ walletHelpers[3] = unstakeYieldYak
      /\ walletHelpers[4] = unwindPangolinLPPositions
      /\ walletHelpers[5] = unwindTraderJoeLPPositions
  BY DEF walletHelpers
<1>. QED BY <1>3, <1>4, <1>5, <1>6, <1>7

LEMMA HelpersKnown ==
    ASSUME NEW b \in Bots
    PROVE  /\ Len(Helpers(b)) = 5
           /\ \A h \in 1..5 : /\ Len(Helpers(b)[h]) \in Nat
                              /\ DOMAIN Helpers(b)[h] = 1..Len(Helpers(b)[h])
<1>1. CASE b = "wallet"
  BY <1>1 DEF Helpers, walletHelpers, unstakeYieldYak, unwindPangolinLPPositions,
              unstakeGlp, unwindTraderJoeLPPositions, unstakeStakedPositions
<1>2. CASE b = "flash"
  BY <1>2 DEF Helpers, flashHelpers, unstakeYieldYak, unwindPangolinLPPositions,
              unstakeGlp, unwindTraderJoeLPPositions, unstakeStakedPositions
<1>3. CASE b = "ltv"
  BY <1>3 DEF Helpers, ltvHelpers, unstakeYieldYak, unwindPangolinLPPositions,
              unstakeGlp, unwindTraderJoeLPPositions, unstakeStakedPositions
<1>. QED BY <1>1, <1>2, <1>3 DEF Bots

\* A helper is finished when the rest of its list is looked at.
LEMMA LookedOn ==
    ASSUME NEW b \in Bots, NEW i \in 1..5, NEW k \in Nat \ {0}, NEW m \in Nat, NEW p,
           Looked(b, i, m, p)
    PROVE  \/ Looked(b, i, k, p)
           \/ \E j \in k..(m - 1) : j \in DOMAIN Helpers(b)[i] /\ p = Helpers(b)[i][j]
<1>1. \A h \in 1..5 : /\ Len(Helpers(b)[h]) \in Nat
                      /\ DOMAIN Helpers(b)[h] = 1..Len(Helpers(b)[h])
  BY HelpersKnown
<1>2. PICK h \in 1..5 : \E j \in DOMAIN Helpers(b)[h] :
         p = Helpers(b)[h][j] /\ (h < i \/ (h = i /\ j < m))
  BY DEF Looked
<1>3. PICK j \in DOMAIN Helpers(b)[h] :
         p = Helpers(b)[h][j] /\ (h < i \/ (h = i /\ j < m))
  BY <1>2
<1>4. j \in Nat
  <2>1. j \in 1..Len(Helpers(b)[h])
    BY <1>1
  <2>. QED BY <2>1
<1>5. CASE h < i \/ j < k
  BY <1>3, <1>5 DEF Looked
<1>6. CASE h = i /\ j >= k
  <2>1. j \in k..(m - 1)
    BY <1>3, <1>4, <1>6
  <2>. QED BY <1>3, <1>6, <2>1
<1>. QED BY <1>3, <1>4, <1>5, <1>6

LEMMA NothingLookedFor == ASSUME NEW b \in Bots, NEW p PROVE ~Looked(b, 1, 1, p)
BY HelpersKnown DEF Looked

LEMMA LookedThrough ==
    ASSUME NEW b \in Bots, NEW i \in 1..5, NEW k \in Nat \ {0}, NEW p, Looked(b, i + 1, 1, p)
    PROVE  Looked(b, i, k, p) \/ \E j \in k..Len(Helpers(b)[i]) : p = Helpers(b)[i][j]
<1>6. \A h \in 1..5 : /\ Len(Helpers(b)[h]) \in Nat
                      /\ DOMAIN Helpers(b)[h] = 1..Len(Helpers(b)[h])
  BY HelpersKnown
<1>7. PICK h \in 1..5 : \E j \in DOMAIN Helpers(b)[h] :
         p = Helpers(b)[h][j] /\ (h < i + 1 \/ (h = i + 1 /\ j < 1))
  BY DEF Looked
<1>1. PICK j \in DOMAIN Helpers(b)[h] :
         p = Helpers(b)[h][j] /\ (h < i + 1 \/ (h = i + 1 /\ j < 1))
  BY <1>7
<1>2. j \in 1..Len(Helpers(b)[h])
  BY <1>6, <1>1
<1>3. CASE h < i
  BY <1>1, <1>3 DEF Looked
<1>4. CASE h = i /\ j < k
  BY <1>1, <1>4 DEF Looked
<1>5. CASE h = i /\ j >= k
  <2>1. j \in k..Len(Helpers(b)[i])
    BY <1>6, <1>2, <1>5
  <2>. QED BY <1>1, <1>5, <2>1
<1>. QED BY <1>1, <1>2, <1>3, <1>4, <1>5

\* Every position but the staked ones has been looked for in the end.
LEMMA LookedForAll ==
    ASSUME NEW b \in Bots, NEW p \in Names, p \notin Staked
    PROVE  Looked(b, 6, 1, p)
<1>1. PICK helper \in ToSet(ltvHelpers) : p \in ToSet(helper)
  BY DEF Names
<1>2. PICK i \in 1..5 : helper = ltvHelpers[i]
  BY HelpersInOrder DEF ToSet
<1>3. /\ i < 6 /\ i \in {1, 2, 3, 4, 5}
      /\ \E j \in DOMAIN ltvHelpers[i] : p = ltvHelpers[i][j]
  BY <1>1, <1>2 DEF ToSet
<1>4. CASE b \in {"flash", "ltv"}
  <2>1. Helpers(b) = ltvHelpers
    BY <1>4, HelpersInOrder
  <2>. QED BY <2>1, <1>3 DEF Looked
<1>5. CASE b = "wallet"
  <2>1. PICK h \in {1, 2, 3, 4, 5} : Helpers(b)[h] = ltvHelpers[i]
    BY <1>3, <1>5, HelpersInOrder
  <2>2. h \in 1..5 /\ h < 6
    OBVIOUS
  <2>. QED BY <2>1, <2>2, <1>3 DEF Looked
<1>. QED BY <1>4, <1>5 DEF Bots

Contents == {"PNG_AVAX_USDC_LP", "PNG_AVAX_ETH_LP", "TJ_AVAX_USDC_LP", "TJ_AVAX_ETH_LP",
             "TJ_AVAX_sAVAX_LP", "GLP"}

\* The helpers come in an order in which a vault is emptied before what was in it.
LEMMA VaultsComeFirst ==
    ASSUME NEW b \in Bots, NEW i \in 1..6, NEW k \in Nat, NEW p, NEW q \in Inside(p),
           Looked(b, i, k, q), q \notin Spared(b)
    PROVE  Looked(b, i, k, p)
<1> DEFINE first == IF b = "wallet" THEN 3 ELSE 1
<1>1. /\ \E j \in DOMAIN unstakeYieldYak : p = unstakeYieldYak[j]
      /\ q \in Contents
  BY DEF Inside, unstakeYieldYak, Contents
<1>2. first \in 1..5 /\ Helpers(b)[first] = unstakeYieldYak
  BY DEF Helpers, walletHelpers, flashHelpers, ltvHelpers, Bots
<1>3. ASSUME NEW h \in 1..5, h <= first, NEW j \in DOMAIN Helpers(b)[h], Helpers(b)[h][j] = q
      PROVE  FALSE
  <2>1. \A m \in DOMAIN unstakeYieldYak : unstakeYieldYak[m] \notin Contents
    BY DEF unstakeYieldYak, Contents
  <2>2. \A m \in DOMAIN unstakeStakedPositions : unstakeStakedPositions[m] \notin Contents
    BY DEF unstakeStakedPositions
  <2>3. \A m \in DOMAIN unstakeGlp : unstakeGlp[m] = "GLP"
    BY DEF unstakeGlp
  <2>4. CASE b = "wallet"
    <3>1. h = 1 \/ h = 2 \/ h = 3
      BY <1>3, <2>4
    <3>2. Helpers(b)[1] = unstakeGlp /\ Helpers(b)[2] = unstakeStakedPositions
          /\ Helpers(b)[3] = unstakeYieldYak
      BY <2>4 DEF Helpers, walletHelpers
    <3>3. q # "GLP"
      BY <2>4 DEF Spared
    <3>. QED BY <1>1, <1>3, <2>1, <2>2, <2>3, <3>1, <3>2, <3>3
  <2>5. CASE b # "wallet"
    <3>1. h = 1
      BY <1>3, <2>5
    <3>. QED BY <1>1, <1>2, <1>3, <2>1, <2>5, <3>1
  <2>. QED BY <2>4, <2>5
<1>0. PICK h \in 1..5 : \E j \in DOMAIN Helpers(b)[h] :
         q = Helpers(b)[h][j] /\ (h < i \/ (h = i /\ j < k))
  BY DEF Looked
<1>4. PICK j \in DOMAIN Helpers(b)[h] :
         q = Helpers(b)[h][j] /\ (h < i \/ (h = i /\ j < k))
  BY <1>0
<1>5. first < h
  BY <1>2, <1>3, <1>4
<1>6. first < i
  BY <1>2, <1>4, <1>5
<1> HIDE DEF first
<1>. QED BY <1>1, <1>2, <1>6 DEF Looked

LEMMA UnwoundIsKnown ==
    ASSUME NEW S \in SUBSET Names, NEW p \in S
    PROVE  Unwound(S, p) \in SUBSET Names
<1>1. Inside(p) \in SUBSET Names
  <2>1. Inside(p) \in SUBSET Contents
    BY DEF Inside, Contents
  <2>2. Contents \in SUBSET Names
    <3>1. /\ ToSet(unwindPangolinLPPositions) \in SUBSET Names
          /\ ToSet(unstakeGlp) \in SUBSET Names
          /\ ToSet(unwindTraderJoeLPPositions) \in SUBSET Names
      <4>1. \A h \in DOMAIN ltvHelpers : ltvHelpers[h] \in ToSet(ltvHelpers)
        BY DEF ToSet
      <4>2. \A helper \in ToSet(ltvHelpers) : ToSet(helper) \in SUBSET Names
        BY DEF Names
      <4>. QED BY <4>1, <4>2, HelpersInOrder
    <3>2. /\ "GLP" \in ToSet(unstakeGlp)
          /\ {"PNG_AVAX_USDC_LP", "PNG_AVAX_ETH_LP"} \subseteq ToSet(unwindPangolinLPPositions)
          /\ {"TJ_AVAX_USDC_LP", "TJ_AVAX_ETH_LP", "TJ_AVAX_sAVAX_LP"}
                \subseteq ToSet(unwindTraderJoeLPPositions)
      <4>1. "GLP" \in ToSet(unstakeGlp)
        <5>1. 1 \in DOMAIN unstakeGlp /\ unstakeGlp[1] = "GLP"
          BY DEF unstakeGlp
        <5>. QED BY <5>1 DEF ToSet
      <4>2. {"PNG_AVAX_USDC_LP", "PNG_AVAX_ETH_LP"} \subseteq ToSet(unwindPangolinLPPositions)
        <5> DEFINE h == unwindPangolinLPPositions
        <5>1. /\ 1 \in DOMAIN h /\ h[1] = "PNG_AVAX_USDC_LP"
              /\ 3 \in DOMAIN h /\ h[3] = "PNG_AVAX_ETH_LP"
          BY DEF unwindPangolinLPPositions
        <5>. QED BY <5>1 DEF ToSet
      <4>3. {"TJ_AVAX_USDC_LP", "TJ_AVAX_ETH_LP", "TJ_AVAX_sAVAX_LP"}
              \subseteq ToSet(unwindTraderJoeLPPositions)
        <5> DEFINE h == unwindTraderJoeLPPositions
        <5>1. /\ 1 \in DOMAIN h /\ h[1] = "TJ_AVAX_USDC_LP"
              /\ 3 \in DOMAIN h /\ h[3] = "TJ_AVAX_ETH_LP"
              /\ 5 \in DOMAIN h /\ h[5] = "TJ_AVAX_sAVAX_LP"
          BY DEF unwindTraderJoeLPPositions
        <5>. QED BY <5>1 DEF ToSet
      <4>. QED BY <4>1, <4>2, <4>3
    <3>. QED BY <3>1, <3>2 DEF Contents
  <2>. QED BY <2>1, <2>2
<1>. QED BY <1>1 DEF Unwound

LEMMA NotInItself == ASSUME NEW p PROVE p \notin Inside(p)
BY DEF Inside

\* Whoever closes a position, nothing that was looked for comes back.
LEMMA UnwoundStays ==
    ASSUME NEW b \in Bots, NEW i \in 1..6, NEW k \in Nat, NEW S \in SUBSET Names, NEW p \in S,
           \A q \in S : Looked(b, i, k, q) => q \in Spared(b)
    PROVE  \A q \in Unwound(S, p) : Looked(b, i, k, q) => q \in Spared(b)
<1>2. ASSUME NEW q \in Inside(p), Looked(b, i, k, q), q \notin Spared(b) PROVE FALSE
  <2>1. Looked(b, i, k, p)
    BY <1>2, VaultsComeFirst
  <2>2. p = "GLP"
    BY <2>1 DEF Spared
  <2>. QED BY <2>2, <1>2 DEF Inside
<1>. QED BY <1>2 DEF Unwound

-----------------------------------------------------------------------------
(* Where the bots are *)

BotStates == [pc : Stages, todo : Seq(Loans), step : 1..5, at : Nat \ {0}, missed : BOOLEAN]

\* The place up to which a bot has looked for positions.
Reached(r) == IF r.pc \in Through THEN 6 ELSE r.step
ReachedAt(r) == IF r.pc \in Through THEN 1 ELSE r.at

\* Nothing in the set is a position a bot has looked for, up to place k of helper i.
NothingBehind(b, S, i, k) == \A p \in S : Looked(b, i, k, p) => p \in Spared(b)

\* A bot with an account at hand that met no failure has closed what it looked for.
Sound(b, r, h) ==
    /\ r.pc \notin {"idle", "stopped"} => r.todo # <<>>
    /\ r.pc = "waiting" => r.at \in DOMAIN Helpers(b)[r.step]
    /\ (r.pc \notin {"idle", "stopped"} /\ ~r.missed) =>
          NothingBehind(b, h[Head(r.todo)], Reached(r), ReachedAt(r))

BotsInv ==
    /\ scenario \in Scenarios
    /\ held \in [Loans -> SUBSET Names]
    /\ \A t \in late : t[1] \in Loans
    /\ bot \in [team -> BotStates]
    /\ \A b \in team : Sound(b, bot[b], held)

LEMMA TeamIsKnown == ASSUME BotsInv PROVE team \subseteq Bots
BY ScenarioAssumption DEF BotsInv, Bots, team

LEMMA RestIsSound ==
    ASSUME NEW b \in Bots, NEW h, NEW todo \in Seq(Loans)
    PROVE  Onwards(todo) \in BotStates /\ Sound(b, Onwards(todo), h)
<1>1. CASE todo = <<>>
  BY <1>1 DEF Onwards, Resting, BotStates, Stages, Sound
<1>2. CASE todo # <<>>
  <2> DEFINE r == Onwards(todo)
  <2>1. r = [pc |-> "health", todo |-> todo, step |-> 1, at |-> 1, missed |-> FALSE]
    BY <1>2 DEF Onwards, Resting
  <2>2. r \in BotStates
    BY <2>1 DEF BotStates, Stages
  <2>3. Reached(r) = 1 /\ ReachedAt(r) = 1
    BY <2>1 DEF Reached, ReachedAt, Through
  <2>4. NothingBehind(b, h[Head(r.todo)], 1, 1)
    BY NothingLookedFor DEF NothingBehind
  <2>5. r.pc = "health" /\ r.todo = todo
    BY <2>1
  <2> HIDE DEF r
  <2>6. Sound(b, r, h)
    BY <2>3, <2>4, <2>5, <1>2 DEF Sound
  <2>. QED BY <2>2, <2>6 DEF r
<1>. QED BY <1>1, <1>2

LEMMA LoanAtHand ==
    ASSUME BotsInv, NEW b \in team, bot[b].pc \notin {"idle", "stopped"}
    PROVE  /\ bot[b] \in BotStates /\ Sound(b, bot[b], held) /\ b \in Bots
           /\ bot[b].todo # <<>> /\ Tail(bot[b].todo) \in Seq(Loans)
           /\ Loan(b) \in Loans /\ held[Loan(b)] \in SUBSET Names
<1>1. bot[b] \in BotStates /\ Sound(b, bot[b], held) /\ b \in Bots
  BY TeamIsKnown DEF BotsInv
<1>2. bot[b].todo # <<>> /\ bot[b].todo \in Seq(Loans)
  BY <1>1 DEF Sound, BotStates
<1>3. Tail(bot[b].todo) \in Seq(Loans) /\ Loan(b) \in Loans
  BY <1>2 DEF Loan
<1>. QED BY <1>1, <1>2, <1>3 DEF BotsInv

\* A step of one bot that leaves the positions alone.
LEMMA BotMoves ==
    ASSUME BotsInv, NEW b \in team, NEW r \in BotStates, Sound(b, r, held),
           Become(b, r), UNCHANGED <<held, scenario>>, \A t \in late' : t[1] \in Loans
    PROVE  BotsInv'
<1>1. team' = team
  BY DEF team
<1>2. bot' = [bot EXCEPT ![b] = r]
  BY DEF Become
<1>3. bot' \in [team -> BotStates]
  BY <1>2 DEF BotsInv
<1>4. ASSUME NEW c \in team PROVE Sound(c, bot'[c], held)
  BY <1>2, <1>4 DEF BotsInv
<1>. QED BY <1>1, <1>3, <1>4 DEF BotsInv

\* A step of one bot to another stage in which it has looked no further.
LEMMA BotGoes ==
    ASSUME BotsInv, NEW b \in team, NEW pc \in Stages \ {"waiting"}, Goes(b, pc),
           UNCHANGED <<held, late, scenario>>,
           \/ pc = "stopped"
           \/ /\ bot[b].pc \notin {"idle", "stopped"}
              /\ bot[b].pc \in Through <=> pc \in Through
    PROVE  BotsInv'
<1> DEFINE s == bot[b]
           r == [s EXCEPT !.pc = pc]
<1>1. s \in BotStates /\ Sound(b, s, held)
  BY DEF BotsInv
<1>2. r \in BotStates
  BY <1>1 DEF BotStates
<1>3. /\ r.pc = pc /\ r.todo = s.todo /\ r.step = s.step /\ r.at = s.at
      /\ r.missed = s.missed
  BY <1>1 DEF BotStates
<1>4. Become(b, r)
  BY DEF Goes
<1> HIDE DEF r, s
<1>5. Sound(b, r, held)
  <2>1. CASE pc = "stopped"
    BY <1>3, <2>1 DEF Sound
  <2>2. CASE pc # "stopped"
    <3>1. Reached(r) = Reached(s) /\ ReachedAt(r) = ReachedAt(s)
      BY <1>3, <2>2 DEF Reached, ReachedAt, s
    <3>2. s.pc \notin {"idle", "stopped"}
      BY <2>2 DEF s
    <3>. QED BY <1>1, <1>3, <3>1, <3>2 DEF Sound
  <2>. QED BY <2>1, <2>2
<1>6. \A t \in late' : t[1] \in Loans
  BY DEF BotsInv
<1>. QED BY <1>2, <1>4, <1>5, <1>6, BotMoves

\* From one helper to the next.
LEMMA NextHelperIsSound ==
    ASSUME BotsInv, NEW b \in team, bot[b].pc \in {"unwinding", "waiting"},
           NEW lost \in BOOLEAN,
           lost \/ NothingBehind(b, held[Loan(b)], bot[b].step + 1, 1)
    PROVE  NextHelper(b, lost) \in BotStates /\ Sound(b, NextHelper(b, lost), held)
<1> DEFINE s == bot[b]
           r == NextHelper(b, lost)
<1>1. s \in BotStates /\ s.todo # <<>> /\ b \in Bots
  BY LoanAtHand
<1>2. Len(Helpers(b)) = 5
  BY <1>1, HelpersKnown
<1>3. s.step \in 1..5
  BY <1>1 DEF BotStates
<1>4. CASE s.step = 5
  <2>1. r = [s EXCEPT !.pc = "weighing", !.missed = lost]
    BY <1>2, <1>4 DEF NextHelper
  <2>2. r \in BotStates
    BY <1>1, <2>1 DEF BotStates, Stages
  <2>3. r.pc = "weighing" /\ r.todo = s.todo /\ r.missed = lost
    BY <1>1, <2>1 DEF BotStates
  <2>4. Reached(r) = s.step + 1 /\ ReachedAt(r) = 1
    BY <1>4, <2>3 DEF Reached, ReachedAt, Through
  <2>. QED BY <1>1, <2>2, <2>3, <2>4 DEF Sound, Loan
<1>5. CASE s.step # 5
  <2>1. r = [s EXCEPT !.pc = "unwinding", !.step = @ + 1, !.at = 1, !.missed = lost]
    BY <1>2, <1>5 DEF NextHelper
  <2>2. s.step + 1 \in 1..5
    BY <1>3, <1>5
  <2>3. r \in BotStates
    <3>1. r = [pc |-> "unwinding", todo |-> s.todo, step |-> s.step + 1, at |-> 1,
               missed |-> lost]
      BY <1>1, <2>1 DEF BotStates
    <3>2. s.todo \in Seq(Loans) /\ "unwinding" \in Stages
      BY <1>1 DEF BotStates, Stages
    <3>3. 1 \in Nat \ {0}
      OBVIOUS
    <3> HIDE DEF r, s
    <3>. QED BY <3>1, <3>2, <3>3, <2>2 DEF BotStates
  <2>4. r.pc = "unwinding" /\ r.todo = s.todo /\ r.missed = lost
        /\ r.step = s.step + 1 /\ r.at = 1
    BY <1>1, <2>1 DEF BotStates
  <2>5. Reached(r) = s.step + 1 /\ ReachedAt(r) = 1
    BY <2>4 DEF Reached, ReachedAt, Through
  <2>. QED BY <1>1, <2>3, <2>4, <2>5 DEF Sound, Loan
<1>. QED BY <1>4, <1>5

LEMMA PassKeeps ==
    ASSUME BotsInv, NEW b \in team, liquidateInsolventLoans(b)
    PROVE  BotsInv'
<1>1. PICK order \in SetToSeqs(getInsolventLoans(b)) : Become(b, Onwards(order))
  BY DEF liquidateInsolventLoans
<1>2. b \in Bots
  BY TeamIsKnown
<1> DEFINE S == getInsolventLoans(b)
<1>3. S \in SUBSET Loans
  BY <1>2 DEF getInsolventLoans, walletInsolventLoans, ltvInsolventLoans,
              flashInsolventLoans, Bots
<1>4. Cardinality(S) \in Nat
  BY <1>3, ScenarioAssumption, FS_Subset, FS_CardinalityType
<1>5. order \in [1..Cardinality(S) -> S]
  BY <1>1 DEF SetToSeqs
<1> HIDE DEF S
<1>6. order \in Seq(Loans)
  BY <1>3, <1>4, <1>5
<1>7. Onwards(order) \in BotStates /\ Sound(b, Onwards(order), held)
  BY <1>2, <1>6, RestIsSound
<1>8. UNCHANGED <<held, scenario>> /\ \A t \in late' : t[1] \in Loans
  BY DEF liquidateInsolventLoans, chainVars, BotsInv
<1>. QED BY <1>1, <1>7, <1>8, BotMoves

LEMMA OnwardsKeeps ==
    ASSUME BotsInv, NEW b \in team, NEW todo \in Seq(Loans), Become(b, Onwards(todo)),
           UNCHANGED <<held, late, scenario>>
    PROVE  BotsInv'
<1>1. Onwards(todo) \in BotStates /\ Sound(b, Onwards(todo), held)
  BY TeamIsKnown, RestIsSound
<1>2. \A t \in late' : t[1] \in Loans
  BY DEF BotsInv
<1>. QED BY <1>1, <1>2, BotMoves

LEMMA ThrowKeeps ==
    ASSUME BotsInv, NEW b \in team, Throws(b), UNCHANGED <<held, late, scenario>>
    PROVE  BotsInv'
<1>1. CASE b = "flash"
  <2>1. Become(b, Onwards(<<>>))
    BY <1>1 DEF Throws, Onwards
  <2>2. <<>> \in Seq(Loans)
    OBVIOUS
  <2>. QED BY <2>1, <2>2, OnwardsKeeps
<1>2. CASE b # "flash"
  BY <1>2, BotGoes DEF Throws, Stages
<1>. QED BY <1>1, <1>2

LEMMA LookKeepsBots ==
    ASSUME BotsInv, NEW b \in team, LooksAt(b)
    PROVE  BotsInv'
<1>1. bot[b].pc = "health" /\ UNCHANGED <<held, late, scenario>>
  BY DEF LooksAt, At, chainVars
<1>2. CASE Goes(b, "unwinding")
  BY <1>1, <1>2, BotGoes DEF Stages, Through
<1>3. CASE Become(b, Onwards(Tail(bot[b].todo)))
  BY <1>1, <1>3, LoanAtHand, OnwardsKeeps
<1>. QED BY <1>2, <1>3 DEF LooksAt

LEMMA WeighKeeps ==
    ASSUME BotsInv, NEW b \in team, Weighs(b) \/ Leaves(b) \/ Prepares(b)
    PROVE  BotsInv'
<1>1. bot[b].pc \in {"weighing", "leaving", "preparing"} /\ UNCHANGED <<held, late, scenario>>
  BY DEF Weighs, Leaves, Prepares, At, chainVars
<1>2. CASE Goes(b, "preparing") \/ Goes(b, "leaving") \/ Goes(b, "liquidating")
  BY <1>1, <1>2, BotGoes DEF Stages, Through
<1>3. CASE Become(b, Onwards(Tail(bot[b].todo)))
  BY <1>1, <1>3, LoanAtHand, OnwardsKeeps
<1>. QED BY <1>2, <1>3 DEF Weighs, Leaves, Prepares

LEMMA LiquidationKeeps ==
    ASSUME BotsInv, NEW b \in team, LiquidationMined(b) \/ Fails(b)
    PROVE  BotsInv'
<1>1. UNCHANGED <<held, late, scenario>> /\ bot[b].pc = "liquidating"
  BY DEF LiquidationMined, Fails, walletLiquidationFails, flashLiquidationFails,
         ltvLiquidationFails, At, chainVars
<1>2. CASE Throws(b)
  BY <1>1, <1>2, ThrowKeeps
<1>3. CASE Become(b, Onwards(Tail(bot[b].todo)))
  BY <1>1, <1>3, LoanAtHand, OnwardsKeeps
<1>. QED BY <1>2, <1>3 DEF LiquidationMined, Fails, walletLiquidationFails,
                           flashLiquidationFails, ltvLiquidationFails

LEMMA HelperFailureKeeps ==
    ASSUME BotsInv, NEW b \in team, HelperFails(b) \/ HelperTimesOut(b)
    PROVE  BotsInv'
<1> DEFINE r == NextHelper(b, TRUE)
<1>1. /\ bot[b].pc \in {"unwinding", "waiting"} /\ Become(b, r)
      /\ UNCHANGED <<held, scenario>>
      /\ late' = late \/ late' = late \cup {<<Loan(b), Waited(b)>>}
  BY DEF HelperFails, HelperTimesOut, At, chainVars
<1>2. r \in BotStates /\ Sound(b, r, held)
  BY <1>1, NextHelperIsSound
<1>3. Loan(b) \in Loans
  BY <1>1, LoanAtHand
<1>4. \A t \in late' : t[1] \in Loans
  BY <1>1, <1>3 DEF BotsInv
<1> HIDE DEF r
<1>. QED BY <1>1, <1>2, <1>4, BotMoves

\* The helper passes over what the account does not hold.
LEMMA UnwindKeeps ==
    ASSUME BotsInv, NEW b \in team, Unwind(b)
    PROVE  BotsInv'
<1> DEFINE s == bot[b]
           list == Positions(b)
           S == held[Loan(b)]
<1>1. /\ s.pc = "unwinding" /\ UNCHANGED <<held, scenario>>
      /\ \A t \in late' : t[1] \in Loans
  BY DEF Unwind, At, chainVars, BotsInv
<1>2. /\ s \in BotStates /\ Sound(b, s, held) /\ b \in Bots /\ s.todo # <<>>
      /\ S \in SUBSET Names
  BY <1>1, LoanAtHand
<1>3. s.step \in 1..5 /\ s.at \in Nat \ {0} /\ list = Helpers(b)[s.step]
      /\ Ahead(b) = {i \in s.at..Len(list) : list[i] \in S}
  BY <1>2 DEF BotStates, Positions, Ahead
<1>4. Len(list) \in Nat /\ DOMAIN list = 1..Len(list)
  BY <1>2, <1>3, HelpersKnown
<1>5. s.missed \/ NothingBehind(b, S, s.step, s.at)
  BY <1>1, <1>2 DEF Sound, Reached, ReachedAt, Through, Loan
<1>6. s.missed \in BOOLEAN
  BY <1>2 DEF BotStates
<1>7. CASE Ahead(b) = {}
  <2>1. s.missed \/ NothingBehind(b, S, s.step + 1, 1)
    <3>1. SUFFICES ASSUME ~s.missed, NEW p \in S, Looked(b, s.step + 1, 1, p)
                   PROVE  p \in Spared(b)
      BY DEF NothingBehind
    <3> HIDE DEF s, S, list
    <3>2. \/ Looked(b, s.step, s.at, p)
          \/ \E j \in s.at..Len(list) : p = list[j]
      <4> DEFINE i == s.step
                 k == s.at
      <4>1. i \in 1..5 /\ k \in Nat \ {0} /\ list = Helpers(b)[i] /\ Looked(b, i + 1, 1, p)
        BY <3>1, <1>3
      <4> HIDE DEF i, k
      <4>2. \/ Looked(b, i, k, p)
            \/ \E j \in k..Len(list) : p = list[j]
        BY <4>1, <1>2, LookedThrough
      <4>. QED BY <4>2 DEF i, k
    <3>3. ~ \E j \in s.at..Len(list) : p = list[j]
      BY <1>3, <1>7, <3>1
    <3>. QED BY <3>1, <3>2, <3>3, <1>5 DEF NothingBehind
  <2> DEFINE r == NextHelper(b, s.missed)
  <2>2. r \in BotStates /\ Sound(b, r, held)
    BY <1>1, <1>6, <2>1, NextHelperIsSound
  <2>3. Become(b, r)
    BY <1>7 DEF Unwind
  <2> HIDE DEF r
  <2>. QED BY <1>1, <2>2, <2>3, BotMoves
<1>8. CASE Ahead(b) # {}
  <2> DEFINE m == Min(Ahead(b))
             r == [s EXCEPT !.pc = "waiting", !.at = m]
  <2>0. Become(b, r)
    BY <1>8 DEF Unwind
  <2>1. Ahead(b) \in SUBSET Nat
    BY <1>3, <1>4
  <2>2. \E n \in Ahead(b) : \A i \in Ahead(b) : n <= i
    BY <2>1, <1>8, SmallestNumber
  <2>3. m \in Ahead(b) /\ \A i \in Ahead(b) : m <= i
    BY <2>2 DEF Min
  <2> HIDE DEF m
  <2>4. m \in s.at..Len(list) /\ m \in Nat \ {0} /\ m \in DOMAIN list
    BY <2>3, <1>3, <1>4
  <2>5. s.missed \/ NothingBehind(b, S, s.step, m)
    <3>1. SUFFICES ASSUME ~s.missed, NEW p \in S, Looked(b, s.step, m, p)
                   PROVE  p \in Spared(b)
      BY DEF NothingBehind
    <3> HIDE DEF s, S, list
    <3>2. \/ Looked(b, s.step, s.at, p)
          \/ \E j \in s.at..(m - 1) : j \in DOMAIN list /\ p = list[j]
      BY SMTT(30), <3>1, <1>2, <1>3, <2>4, LookedOn
    <3>3. ASSUME NEW j \in s.at..(m - 1), j \in DOMAIN list, p = list[j] PROVE FALSE
      <4>1. j \in s.at..Len(list) /\ j < m
        BY <3>3, <1>3, <1>4, <2>4
      <4>2. j \in Ahead(b)
        BY <4>1, <3>1, <3>3, <1>3
      <4>. QED BY <4>1, <4>2, <2>1, <2>3
    <3>. QED BY <3>1, <3>2, <3>3, <1>5 DEF NothingBehind
  <2>6. r \in BotStates
    BY <1>2, <2>4 DEF BotStates, Stages
  <2>7. /\ r.pc = "waiting" /\ r.todo = s.todo /\ r.step = s.step /\ r.at = m
        /\ r.missed = s.missed
    BY <1>2 DEF BotStates
  <2>8. Loan(b) = Head(s.todo)
    BY DEF Loan
  <2> HIDE DEF r
  <2>9. Reached(r) = s.step /\ ReachedAt(r) = m
    BY <2>7 DEF Reached, ReachedAt, Through
  <2>10. Sound(b, r, held)
    BY <1>2, <1>3, <2>4, <2>5, <2>7, <2>8, <2>9 DEF Sound
  <2>. QED BY <1>1, <2>0, <2>6, <2>10, BotMoves
<1>. QED BY <1>7, <1>8

\* A position of an account is closed, by whomever.
LEMMA ClosingIsSound ==
    ASSUME held \in [Loans -> SUBSET Names], NEW l \in Loans, NEW p \in held[l],
           NEW b \in Bots, NEW r \in BotStates, Sound(b, r, held)
    PROVE  /\ [held EXCEPT ![l] = Unwound(@, p)] \in [Loans -> SUBSET Names]
           /\ Sound(b, r, [held EXCEPT ![l] = Unwound(@, p)])
<1> DEFINE h == [held EXCEPT ![l] = Unwound(@, p)]
           i == Reached(r)
           k == ReachedAt(r)
           n == Head(r.todo)
<1>1. i \in 1..6 /\ k \in Nat
  BY DEF Reached, ReachedAt, BotStates
<1>2. Unwound(held[l], p) \in SUBSET Names
  BY UnwoundIsKnown
<1>3. h \in [Loans -> SUBSET Names]
  BY <1>2
<1>4. ASSUME r.pc \notin {"idle", "stopped"}, ~r.missed PROVE NothingBehind(b, h[n], i, k)
  <2>1. n \in Loans
    BY <1>4 DEF Sound, BotStates
  <2>2. NothingBehind(b, held[n], i, k)
    BY <1>4 DEF Sound
  <2> HIDE DEF i, k, n
  <2>3. CASE n = l
    <3>1. h[n] = Unwound(held[l], p)
      BY <2>1, <2>3
    <3>2. \A q \in held[l] : Looked(b, i, k, q) => q \in Spared(b)
      BY <2>2, <2>3 DEF NothingBehind
    <3>3. \A q \in Unwound(held[l], p) : Looked(b, i, k, q) => q \in Spared(b)
      BY <3>2, <1>1, UnwoundStays
    <3>. QED BY <3>1, <3>3 DEF NothingBehind
  <2>4. CASE n # l
    BY <2>1, <2>2, <2>4
  <2>. QED BY <2>3, <2>4
<1>5. Sound(b, r, h)
  BY <1>4 DEF Sound
<1>. QED BY <1>3, <1>5

LEMMA LateKeeps ==
    ASSUME BotsInv, NEW l, NEW p, MinedLate(l, p)
    PROVE  BotsInv'
<1>1. /\ l \in Loans /\ UNCHANGED <<scenario, bot>> /\ team' = team
      /\ \A t \in late' : t[1] \in Loans
  BY DEF MinedLate, BotsInv, team
<1>2. CASE UNCHANGED held
  BY <1>1, <1>2 DEF BotsInv
<1>3. CASE p \in held[l] /\ held' = [held EXCEPT ![l] = Unwound(@, p)]
  <2>1. held' \in [Loans -> SUBSET Names]
    BY <1>1, <1>3, UnwoundIsKnown DEF BotsInv
  <2>2. ASSUME NEW c \in team PROVE Sound(c, bot[c], held')
    BY <1>1, <1>3, <2>2, TeamIsKnown, ClosingIsSound DEF BotsInv
  <2>. QED BY <1>1, <2>1, <2>2 DEF BotsInv
<1>. QED BY <1>1, <1>2, <1>3 DEF MinedLate, Closes

LEMMA UnwindMinedKeeps ==
    ASSUME BotsInv, NEW b \in team, UnwindMined(b)
    PROVE  BotsInv'
<1> DEFINE s == bot[b]
           l == Loan(b)
           p == Waited(b)
           r == [s EXCEPT !.pc = "unwinding", !.at = @ + 1]
<1>1. /\ s.pc = "waiting" /\ p \in held[l] /\ held' = [held EXCEPT ![l] = Unwound(@, p)]
      /\ UNCHANGED <<late, scenario>> /\ team' = team /\ Become(b, r)
  BY DEF UnwindMined, At, Closes, team
<1>2. s \in BotStates /\ Sound(b, s, held) /\ b \in Bots /\ s.todo # <<>> /\ l \in Loans
  BY <1>1, LoanAtHand
<1>3. s.step \in 1..5 /\ s.at \in Nat \ {0} /\ p = Helpers(b)[s.step][s.at] /\ l = Head(s.todo)
  BY <1>2 DEF BotStates, Waited, Positions, Loan
<1>4. held' \in [Loans -> SUBSET Names]
  BY <1>1, <1>2, UnwoundIsKnown DEF BotsInv
<1>5. ASSUME NEW c \in team PROVE Sound(c, bot[c], held')
  BY <1>1, <1>2, <1>5, TeamIsKnown, ClosingIsSound DEF BotsInv
<1>6. r \in BotStates
  <2>1. s.at + 1 \in Nat \ {0}
    BY <1>3
  <2>. QED BY <2>1, <1>2 DEF BotStates, Stages
<1>7. /\ r.pc = "unwinding" /\ r.todo = s.todo /\ r.step = s.step /\ r.at = s.at + 1
      /\ r.missed = s.missed
  BY <1>2 DEF BotStates
<1>8. bot' = [bot EXCEPT ![b] = r]
  BY <1>1 DEF Become
<1> HIDE DEF r
<1>9. Sound(b, r, held')
  <2>1. Reached(r) = s.step /\ ReachedAt(r) = s.at + 1
    BY <1>7 DEF Reached, ReachedAt, Through
  <2>2. s.missed \/ NothingBehind(b, held'[l], s.step, s.at)
    BY <1>1, <1>2, <1>3, <1>5 DEF Sound, Reached, ReachedAt, Through
  <2>3. p \notin held'[l]
    BY <1>1, <1>2, NotInItself DEF Unwound, BotsInv
  <2>4. s.missed \/ NothingBehind(b, held'[l], s.step, s.at + 1)
    <3>1. SUFFICES ASSUME ~s.missed, NEW q \in held'[l], Looked(b, s.step, s.at + 1, q)
                   PROVE  q \in Spared(b)
      BY DEF NothingBehind
    <3> HIDE DEF s, l, p
    <3>2. \/ Looked(b, s.step, s.at, q)
          \/ \E j \in s.at..(s.at + 1 - 1) : q = Helpers(b)[s.step][j]
      <4>1. s.at + 1 \in Nat
        BY <1>3
      <4>. QED BY <3>1, <4>1, <1>2, <1>3, LookedOn
    <3>3. \A j \in s.at..(s.at + 1 - 1) : j = s.at
      BY <1>3
    <3>. QED BY <3>1, <3>2, <3>3, <1>3, <2>2, <2>3 DEF NothingBehind
  <2> HIDE DEF s, l, p
  <2>. QED BY <1>2, <1>3, <1>7, <2>1, <2>4 DEF Sound
<1>10. bot' \in [team -> BotStates]
  BY <1>6, <1>8 DEF BotsInv
<1>11. ASSUME NEW c \in team PROVE Sound(c, bot'[c], held')
  BY <1>5, <1>8, <1>9, <1>11 DEF BotsInv
<1>. QED BY <1>1, <1>4, <1>10, <1>11 DEF BotsInv

-----------------------------------------------------------------------------

LEMMA BotsStepKeeps == BotsInv /\ [MonitorsNext]_<<vars, watcherVars>> => BotsInv'
<1> SUFFICES ASSUME BotsInv, [MonitorsNext]_<<vars, watcherVars>> PROVE BotsInv'
  OBVIOUS
<1>1. ASSUME UNCHANGED <<held, late, scenario, bot>> PROVE BotsInv'
  BY <1>1 DEF BotsInv, team
<1>2. ASSUME NEW b \in team, Works(b) \/ Fails(b) PROVE BotsInv'
  <2>1. CASE CallFails(b)
    BY <2>1, ThrowKeeps DEF CallFails, chainVars
  <2>. QED BY <1>2, <2>1, PassKeeps, LookKeepsBots, UnwindKeeps, UnwindMinedKeeps,
              HelperFailureKeeps, WeighKeeps, LiquidationKeeps DEF Works
<1>3. CASE Around
  <2>1. ASSUME NEW l \in Loans, PricesChange(l) PROVE BotsInv'
    BY <1>1, <2>1 DEF PricesChange
  <2>2. ASSUME NEW l \in Loans, Called(l) PROVE BotsInv'
    <3>1. "flash" \in team /\ Become("flash", Onwards(<<l>>))
          /\ UNCHANGED <<held, late, scenario>> /\ <<l>> \in Seq(Loans)
      BY <2>2 DEF Called, At, chainVars
    <3>. QED BY <3>1, OnwardsKeeps
  <2>3. ASSUME NEW t \in late, MinedLate(t[1], t[2]) PROVE BotsInv'
    BY <2>3, LateKeeps
  <2>. QED BY <1>3, <2>1, <2>2, <2>3 DEF Around
<1>4. CASE monitorLoansThatStayInsolvent \/ MonitorEnds \/ MonitorRestarted
  BY <1>1, <1>4 DEF monitorLoansThatStayInsolvent, MonitorEnds, MonitorRestarted, botVars
<1>5. CASE WatcherStep \/ UNCHANGED <<vars, watcherVars>>
  BY <1>1, <1>5 DEF WatcherStep, vars, botVars
<1>. QED BY <1>2, <1>3, <1>4, <1>5 DEF MonitorsNext, Next, BotStep

LEMMA BotsInit == MonitorsInit => BotsInv
<1> SUFFICES ASSUME MonitorsInit PROVE BotsInv
  OBVIOUS
<1>1. /\ scenario \in Scenarios /\ held = scenario.held /\ late = {}
      /\ bot = [b \in team |-> Resting]
  BY DEF MonitorsInit, Init, team
<1>2. held \in [Loans -> SUBSET Names] /\ team \subseteq Bots
  BY <1>1, ScenarioAssumption DEF Names, team, Bots
<1>3. Resting \in BotStates /\ \A b \in team : Sound(b, Resting, held)
  <2>1. <<>> \in Seq(Loans) /\ Onwards(<<>>) = Resting
    BY DEF Onwards
  <2>. QED BY <2>1, <1>2, RestIsSound DEF Resting, BotStates, Stages, Sound
<1>. QED BY <1>1, <1>2, <1>3 DEF BotsInv

LEMMA BotsInvClosed == BotsInv => NothingLeftOpen
<1> SUFFICES ASSUME BotsInv, NEW b \in team, bot[b].pc \in Through, ~bot[b].missed
             PROVE  held[Loan(b)] \subseteq Spared(b) \cup Staked
  BY DEF NothingLeftOpen, Spared, Through
<1>1. /\ Sound(b, bot[b], held) /\ b \in Bots /\ held[Loan(b)] \in SUBSET Names
      /\ bot[b].pc \notin {"idle", "stopped"}
  BY LoanAtHand DEF Through
<1>2. NothingBehind(b, held[Loan(b)], 6, 1)
  BY <1>1 DEF Sound, Reached, ReachedAt, Loan
<1>3. ASSUME NEW p \in held[Loan(b)], p \notin Staked PROVE p \in Spared(b)
  BY <1>1, <1>2, <1>3, LookedForAll DEF NothingBehind
<1>. QED BY <1>3

\* For any accounts, positions and prices, however the bots' transactions fail, come
\* late or cross: a bot whose helpers met no failure sends its liquidation when the
\* account holds no vault, LP token or GLP any more (GLP excepted for the wallet's
\* bot).  Staked positions, which no bot ever closes, are excepted.
THEOREM BotsClose == MonitorsSpec => []NothingLeftOpen
<1>. QED BY BotsInit, BotsStepKeeps, BotsInvClosed, PTL DEF MonitorsSpec
==============================================================================
