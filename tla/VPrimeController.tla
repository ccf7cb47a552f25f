-------------------------- MODULE VPrimeController ---------------------------
(***************************************************************************)
(* The controller (token/vPrimeController.sol) that turns what a user      *)
(* holds in pools and sPrime, in dollars, into the rate, the limit and the *)
(* already vested part of its voting power.  Pools and sPrime call it when *)
(* a balance changes (notifyVPrimeController, Pool.sol:495-511): with      *)
(* oracle prices attached the snapshot is updated at once, without them    *)
(* the user is only marked.  Anybody may ask for an update at any time.    *)
(***************************************************************************)
EXTENDS VPrime

CONSTANTS ONE,                  \* 1e18
          YEAR, DAY,            \* in ticks of block time
          Portfolios            \* what a user may hold

ASSUME ControllerAssumption ==
    /\ ONE \in Nat \ {0} /\ YEAR \in Nat \ {0} /\ DAY \in Nat \ {0}
    /\ Portfolios \subseteq
           [sPrimeVested : Nat, sPrimeNonVested : Nat,
            depositVested : Nat, depositNonVested : Nat, borrowed : Nat]

VARIABLE holds      \* holds[u]: dollar values across pools and sPrime contracts

controllerVars == <<now, checkpoints, needsUpdate, holds>>

BORROWER_YEARLY_V_PRIME_RATE == 1
DEPOSITOR_YEARLY_V_PRIME_RATE == 5
MAX_V_PRIME_VESTING_YEARS == 3
V_PRIME_DETERIORATION_DAYS == 14
V_PRIME_PAIR_RATIO == 10

Nothing == [sPrimeVested |-> 0, sPrimeNonVested |-> 0,
            depositVested |-> 0, depositNonVested |-> 0, borrowed |-> 0]

TypeOK ==
    /\ now \in Times
    /\ checkpoints \in [Holders -> Seq(Checkpoints)]
    /\ needsUpdate \subseteq Users
    /\ holds \in [Users -> Portfolios \cup {Nothing}]

-----------------------------------------------------------------------------
(* getUserVPrimeRateAndMaxCap *)

Least(x, y) == IF x <= y THEN x ELSE y

SPrimePairs(p) == (p.sPrimeVested + p.sPrimeNonVested) \div ONE

DepositorPairs(p) ==
    Least(SPrimePairs(p),
          ((p.depositVested + p.depositNonVested) \div V_PRIME_PAIR_RATIO) \div ONE)

BorrowerPairs(p) ==
    Least(SPrimePairs(p) - DepositorPairs(p), (p.borrowed \div V_PRIME_PAIR_RATIO) \div ONE)

VestedPairs(p) ==
    Least(p.depositVested \div V_PRIME_PAIR_RATIO, p.sPrimeVested) \div ONE

DepositorLimit(p) ==
    DepositorPairs(p) * DEPOSITOR_YEARLY_V_PRIME_RATE * MAX_V_PRIME_VESTING_YEARS * ONE

BalanceLimit(p) ==
    DepositorLimit(p)
      + BorrowerPairs(p) * BORROWER_YEARLY_V_PRIME_RATE * MAX_V_PRIME_VESTING_YEARS * ONE

\* Locked pairs of deposits and sPrime are vested from the start.
AlreadyVested(p) ==
    IF DepositorPairs(p) = 0 THEN 0
    ELSE (DepositorLimit(p) * VestedPairs(p)) \div DepositorPairs(p)

\* Division of a negative number truncates towards zero.
Rate(delta) ==
    IF delta < 0
    THEN -(((-delta) \div V_PRIME_DETERIORATION_DAYS) \div DAY)
    ELSE (delta \div MAX_V_PRIME_VESTING_YEARS) \div YEAR

\* Mutant of UpdateVPrimeSnapshot: the vested amount always replaces the balance.
SnapshotVested(user, p) ==
    LET limit == BalanceLimit(p)
        vested == AlreadyVested(p)
    IN AdjustRateCapAndBalance(user, Rate(limit - vested), limit, vested)

\* The balance is replaced only where the vested amount is above it.
UpdateVPrimeSnapshot(user, p) ==
    LET limit == BalanceLimit(p)
        vested == AlreadyVested(p)
        current == BalanceOf(user)
    IN IF current < vested
       THEN AdjustRateCapAndBalance(user, Rate(limit - vested), limit, vested)
       ELSE AdjustRateAndCap(user, Rate(limit - current), limit)

-----------------------------------------------------------------------------

Init ==
    /\ InitVPrime
    /\ holds = [u \in Users |-> Nothing]

Tick ==
    /\ now < MaxTime
    /\ now' = now + 1
    /\ UNCHANGED <<checkpoints, needsUpdate, holds>>

\* A pool or sPrime changes a balance and notifies the controller.
NotifyWithPrices(user, p) ==
    /\ holds' = [holds EXCEPT ![user] = p]
    /\ UpdateVPrimeSnapshot(user, p)
    /\ UNCHANGED now

NotifyWithoutPrices(user, p) ==
    /\ holds' = [holds EXCEPT ![user] = p]
    /\ SetUserNeedsUpdate(user)
    /\ UNCHANGED now

\* Prices move and locks expire: no one notifies the controller.
Revalue(user, p) ==
    /\ holds[user] # Nothing
    /\ holds' = [holds EXCEPT ![user] = p]
    /\ UNCHANGED <<now, checkpoints, needsUpdate>>

\* updateVPrimeSnapshot, called by anyone.
RequestSnapshot(user) ==
    /\ UpdateVPrimeSnapshot(user, holds[user])
    /\ UNCHANGED <<now, holds>>

Next ==
    \/ Tick
    \/ \E u \in Users :
          \/ RequestSnapshot(u)
          \/ \E p \in Portfolios :
                NotifyWithPrices(u, p) \/ NotifyWithoutPrices(u, p) \/ Revalue(u, p)

Spec == Init /\ [][Next]_controllerVars

-----------------------------------------------------------------------------
(* Properties *)

\* Within a second a balance moves only to what is vested from the start, to the
\* last recorded votes when the user is marked for an update, and down by the
\* rest of a division: an update neither takes accrued votes away nor grants any.
SnapshotKeepsBalance ==
    [][now' = now => \A u \in Users :
        \/ BalanceOf(u)' = BalanceOf(u)
        \/ BalanceOf(u)' = AlreadyVested(holds'[u]) /\ BalanceOf(u) < BalanceOf(u)'
        \/ u \in needsUpdate' /\ BalanceOf(u)' = GetVotes(u)
        \/ /\ BalanceOf(u)' < BalanceOf(u)
           /\ BalanceOf(u) - BalanceOf(u)' < V_PRIME_DETERIORATION_DAYS * DAY
      ]_controllerVars
==============================================================================
