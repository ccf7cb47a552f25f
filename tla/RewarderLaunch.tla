--------------------------- MODULE RewarderLaunch ----------------------------
(***************************************************************************)
(* A rewarder that is given to a pool with deposits in it.  Two scripts     *)
(* bring its stakes up to date while everybody goes on:                     *)
(* getAvalancheDepositors.js reads the pool's holders from an indexer, page *)
(* by page, and saves them; initializeDepositRewarder.js has the rewarder   *)
(* add their deposits, batch by batch.                                      *)
(*                                                                         *)
(* No reward is announced before the scripts have ended: until then a stake *)
(* earns nothing, and all that matters is what it is.                       *)
(***************************************************************************)
EXTENDS PoolWithRewarder

CONSTANTS PageLimit,   \* holders in a page
          BatchSize,   \* accounts in a batch
          Launches     \* BOOLEANs: is the rewarder added to a running pool

ASSUME LaunchAssumption ==
    /\ PageLimit \in Nat \ {0} /\ BatchSize \in Nat \ {0}
    /\ Launches \subseteq BOOLEAN

VARIABLE script
    \* phase     off (the rewarder was there from the beginning), planned,
    \*           listing, saved, done
    \* order     how the indexer sorts
    \* page      the next page to fetch
    \* found     token_holders.json; what is left of it once saved
    \* smooth    history: the rewarder was set before the list was read, no call
    \*           failed, no holder left while the list was read, and no deposit
    \*           changed hands while the scripts ran

VARIABLE interest
    \* history: what the deposits have earned since the list was first asked for
    \* (since the beginning, if the rewarder was there)

launchVars == <<vars, script, interest>>

Orders == {o \in [1..Cardinality(Depositors) -> Depositors] : IsInjective(o)}

Script(phase, order) ==
    [phase |-> phase, order |-> order, page |-> 1, found |-> <<>>, smooth |-> FALSE]

LaunchInit ==
    /\ Init
    /\ interest = 0
    /\ \/ FALSE \in Launches /\ hasRewarder /\ script = Script("off", <<>>)
       \/ TRUE \in Launches /\ ~hasRewarder
             /\ \E order \in Orders : script = Script("planned", order)

\* The holders of the pool's token as the indexer sorts them: the k-th of them
\* is the one with k holders up to its own place.
Holding ==
    LET places == {i \in DOMAIN script.order : BalanceOf(script.order[i]) > 0}
        place(k) == CHOOSE i \in places : Cardinality({j \in places : j <= i}) = k
    IN [k \in 1..Cardinality(places) |-> script.order[place(k)]]

\* At most n elements of s from position i on.
Slice(s, i, n) == SubSeq(s, i, Least(i + n - 1, Len(s)))

StartListing ==
    /\ script.phase = "planned"
    /\ script' = [script EXCEPT !.phase = "listing", !.smooth = hasRewarder]
    /\ UNCHANGED vars

\* The script with the given accounts still to be enrolled.
Left(accounts) ==
    [script EXCEPT !.found = accounts,
                   !.phase = IF accounts = <<>> THEN "done" ELSE "saved"]

\* fetchTokenHolders: an empty page is the end, and so is a failed one.
FetchPage ==
    LET data == Slice(Holding, (script.page - 1) * PageLimit + 1, PageLimit)
    IN /\ script.phase = "listing"
       /\ script' = IF data = <<>> THEN Left(script.found)
                    ELSE [script EXCEPT !.found = @ \o data, !.page = @ + 1]
       /\ UNCHANGED vars

FetchFails ==
    /\ script.phase = "listing"
    /\ script' = [Left(script.found) EXCEPT !.smooth = FALSE]
    /\ UNCHANGED vars

BatchSent == Left(SubSeq(script.found, BatchSize + 1, Len(script.found)))

\* Mutant of Batch: the last account of a full batch is left out.
BatchTooShort == Slice(script.found, 1, BatchSize - 1)

Batch == Slice(script.found, 1, BatchSize)

\* processBatches: a batch that fails is reported, and the next one is sent.
ProcessBatch ==
    /\ script.phase = "saved"
    /\ script' = BatchSent
    /\ AddDepositsOf(Range(Batch))

BatchFails ==
    /\ script.phase = "saved"
    /\ script' = [BatchSent EXCEPT !.smooth = FALSE]
    /\ UNCHANGED vars

LaunchStep == StartListing \/ FetchPage \/ FetchFails \/ ProcessBatch \/ BatchFails

\* What the others do meanwhile. The owner does not take the rewarder away.
HolderLeaves == \E a \in Depositors : BalanceOf(a) > 0 /\ BalanceOf(a)' = 0
HandedOver == TotalSupply' = TotalSupply /\ deposited' # deposited
Meanwhile ==
    /\ script' = [script EXCEPT !.smooth =
          /\ @
          /\ script.phase = "listing" => ~HolderLeaves
          /\ script.phase \in {"listing", "saved"} => ~HandedOver]
    /\ hasRewarder => hasRewarder'

\* A deposit grows by itself only as time goes by.
Accrues ==
    LET growth(a) == BalanceOf(a)' - BalanceOf(a)
    IN interest' = IF now' = now \/ script.phase = "planned" THEN interest
                   ELSE interest + TotalOf(growth)

LaunchNext ==
    /\ \/ LaunchStep
       \/ Next /\ Meanwhile
       \/ script.phase = "off" /\ RewarderStep /\ UNCHANGED script
    /\ Accrues

LaunchSpec == LaunchInit /\ [][LaunchNext]_launchVars

-----------------------------------------------------------------------------
(* Properties *)

\* Provided that the list was read in peace (see script.smooth), or that the
\* rewarder was always there: nobody is ever staked for more than its deposit,
\* whoever deposits, withdraws and transfers while the scripts run, ...
NeverOverstaked == script.phase = "off" \/ script.smooth => StakeIsDeposited

\* ... and once the scripts have ended, what is deposited and has no stake is at
\* most the interest earned meanwhile. Interest is credited to the balance
\* (Pool.sol:568-570), and no stake is made of it (DepositRewarderAbstract.sol:
\* 151-159 adds what is deposited) until somebody calls addDeposits again: a
\* stake is the deposit of its account only while no interest is paid.
UnstakedIsInterest ==
    LET unstaked(a) == IF a \in Excluded THEN 0 ELSE BalanceOf(a) - rewarder.balanceOf[a]
    IN script.phase = "off" \/ (script.smooth /\ script.phase = "done") =>
           TotalOf(unstaked) <= interest
==============================================================================
