---------------------------- MODULE VPrimeProofs -----------------------------
(***************************************************************************)
(* Voting power for any users, portfolios and scale: the lists of          *)
(* checkpoints stay sorted, a balance drifts to its limit and never past   *)
(* it, and an update within a second neither takes votes nor grants any.   *)
(*                                                                         *)
(* The inductive invariant adds to the types that the rate of a checkpoint *)
(* is the one that its balance and limit call for: it is what tells that a *)
(* list left as it is, when a second checkpoint of the same second is lost,*)
(* still ends in a checkpoint whose own limit does not cut its balance.    *)
(*                                                                         *)
(* On sorted lists the binary search finds the last checkpoint that is not *)
(* later than a given second; its windows shrink, so a smallest window for *)
(* which it failed cannot be.  Votes of a second that is over are settled, *)
(* because the lists only grow, by checkpoints of the present second.      *)
(***************************************************************************)
EXTENDS VPrimeController, SumLemmas

-----------------------------------------------------------------------------
(* Arithmetic *)

LEMMA Quotient ==
    ASSUME NEW a \in Nat, NEW d \in Nat \ {0}
    PROVE  /\ a \div d \in Nat
           /\ (a \div d) * d <= a
           /\ a < (a \div d) * d + d
OBVIOUS

LEMMA QuotientGrows ==
    ASSUME NEW a \in Nat, NEW b \in Nat, NEW d \in Nat \ {0}, a <= b
    PROVE  a \div d <= b \div d
OBVIOUS

LEMMA QuotientOfProduct ==
    ASSUME NEW a \in Nat, NEW d \in Nat \ {0}
    PROVE  (a * d) \div d = a
OBVIOUS

LEMMA ProductNat == ASSUME NEW a \in Nat, NEW b \in Nat PROVE a * b \in Nat
OBVIOUS

LEMMA ProductInt == ASSUME NEW a \in Int, NEW b \in Int PROVE a * b \in Int
OBVIOUS

LEMMA ProductGrows ==
    ASSUME NEW a \in Nat, NEW b \in Nat, NEW n \in Nat, a <= b
    PROVE  a * n <= b * n
OBVIOUS

\* One second more moves a balance by its rate.
LEMMA OneMore ==
    ASSUME NEW r \in Int, NEW e \in Int
    PROVE  r * (e + 1) = r * e + r
OBVIOUS

LEMMA SignOfProduct ==
    ASSUME NEW r \in Int, NEW e \in Nat
    PROVE  (r >= 0 => r * e >= 0) /\ (r <= 0 => r * e <= 0)
OBVIOUS

\* A rate points from the balance to the limit; above the limit it is zero only
\* where the difference is less than one division.
LEMMA RateSign ==
    ASSUME NEW delta \in Int
    PROVE  /\ Rate(delta) \in Int
           /\ delta >= 0 => Rate(delta) >= 0
           /\ delta < 0 => \/ Rate(delta) < 0
                           \/ Rate(delta) = 0 /\ -delta < V_PRIME_DETERIORATION_DAYS * DAY
<1>1. CASE delta < 0
  <2> DEFINE q == (-delta) \div V_PRIME_DETERIORATION_DAYS
  <2>1. -delta \in Nat /\ V_PRIME_DETERIORATION_DAYS \in Nat \ {0} /\ DAY \in Nat \ {0}
    BY <1>1, ControllerAssumption DEF V_PRIME_DETERIORATION_DAYS
  <2>2. q \in Nat /\ -delta < q * V_PRIME_DETERIORATION_DAYS + V_PRIME_DETERIORATION_DAYS
    BY <2>1, Quotient
  <2> HIDE DEF q
  <2>3. q \div DAY \in Nat /\ q < (q \div DAY) * DAY + DAY
    BY <2>1, <2>2, Quotient
  <2>4. Rate(delta) = -(q \div DAY)
    BY <1>1 DEF Rate, q
  <2>5. CASE q \div DAY = 0
    <3>1. q < DAY
      BY <2>1, <2>3, <2>5
    <3>2. -delta < V_PRIME_DETERIORATION_DAYS * DAY
      BY <2>1, <2>2, <3>1 DEF V_PRIME_DETERIORATION_DAYS
    <3>. QED BY <1>1, <2>3, <2>4, <2>5, <3>2
  <2>6. CASE q \div DAY > 0
    BY <1>1, <2>3, <2>4, <2>6
  <2>. QED BY <2>3, <2>5, <2>6
<1>2. CASE delta >= 0
  <2>1. (delta \div MAX_V_PRIME_VESTING_YEARS) \in Nat /\ YEAR \in Nat \ {0}
    BY <1>2, ControllerAssumption, Quotient DEF MAX_V_PRIME_VESTING_YEARS
  <2>2. (delta \div MAX_V_PRIME_VESTING_YEARS) \div YEAR \in Nat
    BY <2>1, Quotient
  <2>. QED BY <1>2, <2>2 DEF Rate
<1>. QED BY <1>1, <1>2

-----------------------------------------------------------------------------
(* What the controller asks for *)

PortfolioType == [sPrimeVested : Nat, sPrimeNonVested : Nat,
                  depositVested : Nat, depositNonVested : Nat, borrowed : Nat]

LEMMA HoldingsTyped == Portfolios \cup {Nothing} \subseteq PortfolioType
BY ControllerAssumption DEF Nothing, PortfolioType

LEMMA PairsBounds ==
    ASSUME NEW p \in PortfolioType
    PROVE  /\ SPrimePairs(p) \in Nat /\ DepositorPairs(p) \in Nat
           /\ BorrowerPairs(p) \in Nat /\ VestedPairs(p) \in Nat
           /\ VestedPairs(p) <= DepositorPairs(p)
<1>1. /\ p.sPrimeVested \in Nat /\ p.sPrimeNonVested \in Nat
      /\ p.depositVested \in Nat /\ p.depositNonVested \in Nat /\ p.borrowed \in Nat
      /\ ONE \in Nat \ {0} /\ V_PRIME_PAIR_RATIO \in Nat \ {0}
  BY ControllerAssumption DEF PortfolioType, V_PRIME_PAIR_RATIO
<1> DEFINE sPrime == p.sPrimeVested + p.sPrimeNonVested
           deposits == p.depositVested + p.depositNonVested
           byDeposits == deposits \div V_PRIME_PAIR_RATIO
           byVested == p.depositVested \div V_PRIME_PAIR_RATIO
           vested == Least(byVested, p.sPrimeVested)
           byLoans == p.borrowed \div V_PRIME_PAIR_RATIO
<1>2. sPrime \in Nat /\ deposits \in Nat /\ p.depositVested <= deposits
  BY <1>1
<1> HIDE DEF sPrime, deposits
<1>3. /\ byDeposits \in Nat /\ byVested \in Nat /\ byLoans \in Nat
      /\ byVested <= byDeposits
  <2>1. byDeposits \in Nat /\ byVested \in Nat
    BY <1>1, <1>2, Quotient
  <2>2. byLoans \in Nat
    BY <1>1, Quotient
  <2>. QED BY <1>1, <1>2, <2>1, <2>2, QuotientGrows
<1>4. vested \in Nat /\ vested <= byDeposits /\ vested <= sPrime
  <2>1. p.sPrimeVested <= sPrime
    BY <1>1 DEF sPrime
  <2>. QED BY <1>1, <1>2, <1>3, <2>1 DEF Least
<1> HIDE DEF byDeposits, byVested, byLoans, vested
<1>5. /\ sPrime \div ONE \in Nat /\ byDeposits \div ONE \in Nat
      /\ byLoans \div ONE \in Nat /\ vested \div ONE \in Nat
  BY <1>1, <1>2, <1>3, <1>4, Quotient
<1>6. vested \div ONE <= byDeposits \div ONE /\ vested \div ONE <= sPrime \div ONE
  BY <1>1, <1>2, <1>3, <1>4, QuotientGrows
<1>7. /\ SPrimePairs(p) = sPrime \div ONE
      /\ DepositorPairs(p) = Least(sPrime \div ONE, byDeposits \div ONE)
      /\ BorrowerPairs(p) = Least(SPrimePairs(p) - DepositorPairs(p), byLoans \div ONE)
      /\ VestedPairs(p) = vested \div ONE
  BY DEF SPrimePairs, DepositorPairs, BorrowerPairs, VestedPairs,
         sPrime, deposits, byDeposits, byLoans, byVested, vested
<1>. QED BY <1>5, <1>6, <1>7 DEF Least

\* What is vested from the start is within the limit.
LEMMA VestedWithinLimit ==
    ASSUME NEW p \in PortfolioType
    PROVE  /\ BalanceLimit(p) \in Nat /\ AlreadyVested(p) \in Nat
           /\ AlreadyVested(p) <= BalanceLimit(p)
<1> DEFINE pairs == DepositorPairs(p)
           each == DEPOSITOR_YEARLY_V_PRIME_RATE * MAX_V_PRIME_VESTING_YEARS * ONE
           loans == BorrowerPairs(p) * BORROWER_YEARLY_V_PRIME_RATE
                      * MAX_V_PRIME_VESTING_YEARS * ONE
<1>1. pairs \in Nat /\ VestedPairs(p) \in Nat /\ VestedPairs(p) <= pairs /\ BorrowerPairs(p) \in Nat
  BY PairsBounds
<1>2. each \in Nat /\ loans \in Nat
  <2>1. BorrowerPairs(p) * BORROWER_YEARLY_V_PRIME_RATE * MAX_V_PRIME_VESTING_YEARS \in Nat
    BY <1>1 DEF BORROWER_YEARLY_V_PRIME_RATE, MAX_V_PRIME_VESTING_YEARS
  <2>2. loans \in Nat
    BY <2>1, ControllerAssumption, ProductNat
  <2>. QED BY <2>2, ControllerAssumption
           DEF DEPOSITOR_YEARLY_V_PRIME_RATE, MAX_V_PRIME_VESTING_YEARS
<1>3. DepositorLimit(p) = pairs * each
  BY <1>1, ControllerAssumption
     DEF DepositorLimit, DEPOSITOR_YEARLY_V_PRIME_RATE, MAX_V_PRIME_VESTING_YEARS
<1>4. BalanceLimit(p) = pairs * each + loans
  BY <1>3 DEF BalanceLimit
<1> HIDE DEF pairs, each, loans
<1>5. BalanceLimit(p) \in Nat /\ pairs * each \in Nat /\ pairs * each <= BalanceLimit(p)
  BY <1>1, <1>2, <1>4, ProductNat
<1>6. CASE pairs = 0
  BY <1>5, <1>6 DEF AlreadyVested, pairs
<1>7. CASE pairs # 0
  <2>1. VestedPairs(p) * each \in Nat
    BY <1>1, <1>2, ProductNat
  <2>2. DepositorLimit(p) * VestedPairs(p) = (VestedPairs(p) * each) * pairs
    BY <1>1, <1>2, <1>3
  <2>3. AlreadyVested(p) = VestedPairs(p) * each
    BY <1>1, <1>7, <2>1, <2>2, QuotientOfProduct DEF AlreadyVested, pairs
  <2>4. VestedPairs(p) * each <= pairs * each
    BY <1>1, <1>2, ProductGrows
  <2>. QED BY <1>5, <2>1, <2>3, <2>4
<1>. QED BY <1>6, <1>7

-----------------------------------------------------------------------------
(* Lists of checkpoints *)

\* One checkpoint per second, in order, none after the time given.
SortedUpTo(ckpts, time) ==
    \A i, j \in DOMAIN ckpts :
        /\ i < j => ckpts[i].blockTimestamp < ckpts[j].blockTimestamp
        /\ ckpts[i].blockTimestamp <= time

AimsAtLimit(cp) == cp.rate = Rate(cp.balanceLimit - cp.balance)

LEMMA LastOne ==
    ASSUME NEW ckpts \in Seq(Checkpoints), ckpts # <<>>
    PROVE  /\ Len(ckpts) \in DOMAIN ckpts
           /\ Last(ckpts) = ckpts[Len(ckpts)] /\ Last(ckpts) \in Checkpoints
<1>1. Len(ckpts) \in Nat /\ Len(ckpts) > 0 /\ DOMAIN ckpts = 1..Len(ckpts)
  OBVIOUS
<1>. QED BY <1>1 DEF Last

LEMMA MovedTyped ==
    ASSUME NEW cp \in Checkpoints, NEW elapsed \in Nat
    PROVE  Moved(cp, elapsed) \in Nat
<1>1. cp.balance \in Nat /\ cp.rate \in Int /\ cp.balanceLimit \in Nat
  BY DEF Checkpoints
<1>2. cp.rate * elapsed \in Int /\ (cp.rate >= 0 => cp.rate * elapsed >= 0)
  BY <1>1, SignOfProduct, ProductInt
<1>. QED BY <1>1, <1>2 DEF Moved

LEMMA GetVotesTyped ==
    ASSUME checkpoints \in [Holders -> Seq(Checkpoints)], NEW h \in Holders
    PROVE  GetVotes(h) \in Nat
<1>1. checkpoints[h] # <<>> => Last(checkpoints[h]) \in Checkpoints
  BY LastOne
<1>. QED BY <1>1 DEF GetVotes, Checkpoints

LEMMA WrittenKeeps ==
    ASSUME NEW ckpts \in Seq(Checkpoints), SortedUpTo(ckpts, now), now \in Times,
           NEW balance \in Nat, NEW rate \in Int, NEW limit \in Nat
    PROVE  LET new == [blockTimestamp |-> now, balance |-> balance,
                       rate |-> rate, balanceLimit |-> limit]
               written == Written(ckpts, balance, rate, limit)
           IN /\ written \in Seq(Checkpoints) /\ SortedUpTo(written, now)
              /\ \/ ckpts # <<>> /\ Last(ckpts).blockTimestamp = now /\ written = ckpts
                 \/ written # <<>> /\ Last(written) = new
              /\ \A i \in DOMAIN written :
                    written[i] = new \/ (i \in DOMAIN ckpts /\ written[i] = ckpts[i])
<1> DEFINE new == [blockTimestamp |-> now, balance |-> balance,
                   rate |-> rate, balanceLimit |-> limit]
           written == Written(ckpts, balance, rate, limit)
<1>1. CASE ckpts # <<>> /\ Last(ckpts).blockTimestamp = now
  BY <1>1 DEF Written
<1>2. CASE ckpts = <<>> \/ Last(ckpts).blockTimestamp # now
  <2>1. written = Append(ckpts, new) /\ new \in Checkpoints
    BY <1>2 DEF Written, Checkpoints
  <2> HIDE DEF new
  <2>2. /\ written \in Seq(Checkpoints) /\ Len(written) = Len(ckpts) + 1
        /\ DOMAIN written = 1..(Len(ckpts) + 1) /\ DOMAIN ckpts = 1..Len(ckpts)
        /\ Len(ckpts) \in Nat
        /\ written[Len(ckpts) + 1] = new
        /\ \A i \in DOMAIN ckpts : written[i] = ckpts[i]
    BY <2>1
  <2> HIDE DEF written
  <2>3. \A i \in DOMAIN ckpts : ckpts[i].blockTimestamp \in Nat /\ ckpts[i].blockTimestamp < now
    <3> SUFFICES ASSUME NEW i \in DOMAIN ckpts
                 PROVE  ckpts[i].blockTimestamp \in Nat /\ ckpts[i].blockTimestamp < now
      OBVIOUS
    <3>1. /\ ckpts # <<>> /\ Len(ckpts) \in DOMAIN ckpts /\ i <= Len(ckpts)
          /\ Last(ckpts) = ckpts[Len(ckpts)]
      BY <2>2, LastOne
    <3>2. ckpts[i] \in Checkpoints /\ ckpts[Len(ckpts)] \in Checkpoints
      BY <3>1
    <3>3. /\ ckpts[i].blockTimestamp \in Nat /\ ckpts[Len(ckpts)].blockTimestamp \in Nat
          /\ now \in Nat
      BY SMTT(30), <3>2 DEF Checkpoints, Times
    <3>4. ckpts[Len(ckpts)].blockTimestamp <= now /\ ckpts[Len(ckpts)].blockTimestamp # now
      BY <3>1, <1>2 DEF SortedUpTo
    <3>5. i < Len(ckpts) => ckpts[i].blockTimestamp < ckpts[Len(ckpts)].blockTimestamp
      BY <3>1 DEF SortedUpTo
    <3>6. i = Len(ckpts) \/ i < Len(ckpts)
      BY <3>1, <2>2
    <3>. QED BY <3>3, <3>4, <3>5, <3>6
  <2>4. new.blockTimestamp = now /\ now \in Nat
    BY DEF new, Times
  <2>5. SortedUpTo(written, now)
    <3> SUFFICES ASSUME NEW i \in DOMAIN written, NEW j \in DOMAIN written
                 PROVE  /\ i < j => written[i].blockTimestamp < written[j].blockTimestamp
                        /\ written[i].blockTimestamp <= now
      BY DEF SortedUpTo
    <3>1. CASE i \in DOMAIN ckpts /\ j \in DOMAIN ckpts
      BY <3>1, <2>2 DEF SortedUpTo
    <3>2. CASE i \in DOMAIN ckpts /\ j = Len(ckpts) + 1
      BY <3>2, <2>2, <2>3, <2>4
    <3>3. CASE i = Len(ckpts) + 1
      BY <3>3, <2>2, <2>4
    <3>. QED BY <3>1, <3>2, <3>3, <2>2
  <2>6. written # <<>> /\ Last(written) = new
    BY <2>2 DEF Last
  <2>. QED BY <2>2, <2>5, <2>6 DEF written, new
<1>. QED BY <1>1, <1>2

\* At the second it is written, a checkpoint's balance is what is left of it when
\* a rest of the division puts it above its limit.
LEMMA MovedAtOnce ==
    ASSUME NEW cp \in Checkpoints, AimsAtLimit(cp)
    PROVE  /\ Moved(cp, 0) \in Nat
           /\ \/ Moved(cp, 0) = cp.balance
              \/ /\ cp.balanceLimit < cp.balance
                 /\ Moved(cp, 0) < cp.balance
                 /\ cp.balance - Moved(cp, 0) < V_PRIME_DETERIORATION_DAYS * DAY
<1>1. cp.balance \in Nat /\ cp.rate \in Int /\ cp.balanceLimit \in Nat
  BY DEF Checkpoints
<1>2. cp.rate * 0 = 0
  BY <1>1
<1>3. /\ cp.balanceLimit - cp.balance >= 0 => cp.rate >= 0
      /\ cp.balanceLimit - cp.balance < 0 =>
            \/ cp.rate < 0
            \/ cp.rate = 0 /\ -(cp.balanceLimit - cp.balance) < V_PRIME_DETERIORATION_DAYS * DAY
  <2>1. cp.balanceLimit - cp.balance \in Int
    BY <1>1
  <2>. QED BY <2>1, RateSign DEF AimsAtLimit
<1>4. V_PRIME_DETERIORATION_DAYS * DAY \in Nat
  BY ControllerAssumption, ProductNat DEF V_PRIME_DETERIORATION_DAYS
<1>. QED BY <1>1, <1>2, <1>3, <1>4 DEF Moved

-----------------------------------------------------------------------------
(* The invariant *)

RatesAimAtLimits ==
    \A u \in Users : \A i \in DOMAIN checkpoints[u] : AimsAtLimit(checkpoints[u][i])

IInv ==
    /\ TypeOK
    /\ \A h \in Holders : SortedUpTo(checkpoints[h], now)
    /\ RatesAimAtLimits

LEMMA BalanceTyped == ASSUME IInv, NEW u \in Users PROVE BalanceOf(u) \in Nat
<1>1. CASE checkpoints[u] = <<>>
  BY <1>1 DEF BalanceOf
<1>2. CASE checkpoints[u] # <<>>
  <2>1. checkpoints[u] \in Seq(Checkpoints) /\ SortedUpTo(checkpoints[u], now)
    BY DEF IInv, TypeOK, Holders
  <2>2. Last(checkpoints[u]) \in Checkpoints /\ Last(checkpoints[u]).blockTimestamp <= now
    BY <1>2, <2>1, LastOne DEF SortedUpTo
  <2>3. now - Last(checkpoints[u]).blockTimestamp \in Nat
    BY <2>2 DEF IInv, TypeOK, Times, Checkpoints
  <2>4. Last(checkpoints[u]).balance \in Nat
    BY <2>2 DEF Checkpoints
  <2>. QED BY <1>2, <2>2, <2>3, <2>4, MovedTyped DEF BalanceOf
<1>. QED BY <1>1, <1>2

\* A step that changes no checkpoint leaves the invariant to the clock.
LEMMA ClockKeeps ==
    ASSUME IInv, UNCHANGED checkpoints, now' \in Times, now' >= now,
           needsUpdate' \subseteq Users, holds' \in [Users -> Portfolios \cup {Nothing}]
    PROVE  IInv'
<1>1. TypeOK'
  BY DEF IInv, TypeOK
<1>2. \A h \in Holders : SortedUpTo(checkpoints[h], now)'
  <2> SUFFICES ASSUME NEW h \in Holders, NEW i \in DOMAIN checkpoints[h]
               PROVE  checkpoints[h][i].blockTimestamp <= now'
    BY DEF IInv, SortedUpTo
  <2>1. checkpoints[h][i] \in Checkpoints /\ checkpoints[h][i].blockTimestamp <= now
    BY DEF IInv, TypeOK, SortedUpTo
  <2>. QED BY <2>1 DEF IInv, TypeOK, Checkpoints, Times
<1>3. RatesAimAtLimits'
  BY DEF IInv, RatesAimAtLimits
<1>. QED BY <1>1, <1>2, <1>3 DEF IInv

LEMMA AdjustKeeps ==
    ASSUME IInv, NEW user \in Users, NEW limit \in Nat, NEW balance \in Nat,
           Adjust(user, Rate(limit - balance), limit, balance),
           now' = now, holds' \in [Users -> Portfolios \cup {Nothing}]
    PROVE  IInv'
<1> DEFINE total == GetVotes(Total) + balance - GetVotes(user)
           rate == Rate(limit - balance)
           recorded == Written(checkpoints[user], balance, rate, limit)
           totalled == Written(checkpoints[Total], total, 0, 0)
           new == [blockTimestamp |-> now, balance |-> balance,
                   rate |-> rate, balanceLimit |-> limit]
<1>1. /\ user \in Holders /\ Total \in Holders /\ Users \subseteq Holders
      /\ \A u \in Users : u # Total
      /\ checkpoints \in [Holders -> Seq(Checkpoints)] /\ now \in Times
      /\ needsUpdate \subseteq Users
      /\ \A h \in Holders : checkpoints[h] \in Seq(Checkpoints) /\ SortedUpTo(checkpoints[h], now)
  BY VPrimeAssumption DEF IInv, TypeOK, Holders
<1>2. rate \in Int
  <2>1. limit - balance \in Int
    OBVIOUS
  <2>. QED BY <2>1, RateSign
<1>3. total \in Int
  BY <1>1, GetVotesTyped
<1>4. total >= 0 => total \in Nat
  BY <1>3
<1>5. /\ total >= 0 /\ needsUpdate' = needsUpdate \ {user}
      /\ \/ checkpoints' = [checkpoints EXCEPT ![user] = recorded]
         \/ checkpoints' = [checkpoints EXCEPT ![user] = recorded, ![Total] = totalled]
  BY DEF Adjust
<1> HIDE DEF rate
<1>6. /\ recorded \in Seq(Checkpoints) /\ SortedUpTo(recorded, now)
      /\ \A i \in DOMAIN recorded :
            recorded[i] = new \/ (i \in DOMAIN checkpoints[user] /\ recorded[i] = checkpoints[user][i])
  BY <1>1, <1>2, WrittenKeeps
<1> HIDE DEF total
<1>7. totalled \in Seq(Checkpoints) /\ SortedUpTo(totalled, now)
  BY <1>1, <1>4, <1>5, WrittenKeeps
<1>8. AimsAtLimit(new)
  BY DEF AimsAtLimit, rate
<1> HIDE DEF recorded, totalled, new
<1>9. /\ checkpoints' \in [Holders -> Seq(Checkpoints)]
      /\ \A h \in Holders : checkpoints'[h] \in {checkpoints[h], recorded, totalled}
      /\ \A u \in Users : checkpoints'[u] = IF u = user THEN recorded ELSE checkpoints[u]
  BY <1>1, <1>5, <1>6, <1>7
<1>10. TypeOK'
  BY <1>1, <1>5, <1>9 DEF TypeOK
<1>11. \A h \in Holders : SortedUpTo(checkpoints[h], now)'
  <2>1. \A h \in Holders : SortedUpTo(checkpoints'[h], now)
    BY <1>1, <1>6, <1>7, <1>9
  <2>. QED BY <2>1 DEF SortedUpTo
<1>12. RatesAimAtLimits'
  <2>1. \A u \in Users : \A i \in DOMAIN checkpoints'[u] : AimsAtLimit(checkpoints'[u][i])
    BY <1>6, <1>8, <1>9 DEF IInv, RatesAimAtLimits
  <2>. QED BY <2>1 DEF RatesAimAtLimits, AimsAtLimit
<1>. QED BY <1>10, <1>11, <1>12 DEF IInv

\* An update is one adjustment, to the balance or to what is vested above it.
LEMMA SnapshotAdjusts ==
    ASSUME IInv, NEW user \in Users, NEW p \in Portfolios \cup {Nothing},
           UpdateVPrimeSnapshot(user, p)
    PROVE  \E balance \in Nat, limit \in Nat :
              /\ Adjust(user, Rate(limit - balance), limit, balance)
              /\ \/ balance = BalanceOf(user)
                 \/ /\ balance = AlreadyVested(p) /\ BalanceOf(user) < balance
                    /\ balance <= limit
<1>1. /\ BalanceLimit(p) \in Nat /\ AlreadyVested(p) \in Nat
      /\ AlreadyVested(p) <= BalanceLimit(p)
  BY HoldingsTyped, VestedWithinLimit
<1>2. BalanceOf(user) \in Nat
  BY BalanceTyped
<1>3. CASE BalanceOf(user) < AlreadyVested(p)
  <2>1. Adjust(user, Rate(BalanceLimit(p) - AlreadyVested(p)), BalanceLimit(p), AlreadyVested(p))
    BY <1>3 DEF UpdateVPrimeSnapshot, AdjustRateCapAndBalance
  <2>. QED BY <1>1, <1>3, <2>1
<1>4. CASE ~(BalanceOf(user) < AlreadyVested(p))
  <2>1. Adjust(user, Rate(BalanceLimit(p) - BalanceOf(user)), BalanceLimit(p), BalanceOf(user))
    BY <1>4 DEF UpdateVPrimeSnapshot, AdjustRateAndCap
  <2>. QED BY <1>1, <1>2, <2>1
<1>. QED BY <1>3, <1>4

LEMMA InitIInv == Init => IInv
<1> SUFFICES ASSUME Init PROVE IInv
  OBVIOUS
<1>1. /\ now \in Times /\ needsUpdate = {} /\ holds \in [Users -> Portfolios \cup {Nothing}]
      /\ checkpoints = [h \in Holders |-> <<>>]
  BY VPrimeAssumption DEF Init, InitVPrime, Times
<1>2. TypeOK
  BY <1>1 DEF TypeOK
<1>3. \A h \in Holders : checkpoints[h] = <<>>
  BY <1>1
<1>4. (\A h \in Holders : SortedUpTo(checkpoints[h], now)) /\ RatesAimAtLimits
  BY <1>3 DEF SortedUpTo, RatesAimAtLimits, Holders
<1>. QED BY <1>2, <1>4 DEF IInv

LEMMA NextKeepsIInv == IInv /\ [Next]_controllerVars => IInv'
<1> SUFFICES ASSUME IInv, [Next]_controllerVars PROVE IInv'
  OBVIOUS
<1>1. now \in Times /\ needsUpdate \subseteq Users /\ holds \in [Users -> Portfolios \cup {Nothing}]
  BY DEF IInv, TypeOK
<1>2. CASE Tick
  BY <1>1, <1>2, ClockKeeps, VPrimeAssumption DEF Tick, Times
<1>3. ASSUME NEW u \in Users, RequestSnapshot(u) PROVE IInv'
  <2>1. holds[u] \in Portfolios \cup {Nothing}
    BY <1>1
  <2>2. UpdateVPrimeSnapshot(u, holds[u]) /\ now' = now /\ holds' = holds
    BY <1>3 DEF RequestSnapshot
  <2>. QED BY <1>1, <2>1, <2>2, SnapshotAdjusts, AdjustKeeps
<1>4. ASSUME NEW u \in Users, NEW p \in Portfolios, NotifyWithPrices(u, p) PROVE IInv'
  <2>1. holds' \in [Users -> Portfolios \cup {Nothing}]
    BY <1>1, <1>4 DEF NotifyWithPrices
  <2>2. UpdateVPrimeSnapshot(u, p) /\ now' = now
    BY <1>4 DEF NotifyWithPrices
  <2>. QED BY <2>1, <2>2, SnapshotAdjusts, AdjustKeeps
<1>5. ASSUME NEW u \in Users, NEW p \in Portfolios, NotifyWithoutPrices(u, p) PROVE IInv'
  BY <1>1, <1>5, ClockKeeps DEF NotifyWithoutPrices, SetUserNeedsUpdate, Times
<1>6. ASSUME NEW u \in Users, NEW p \in Portfolios, Revalue(u, p) PROVE IInv'
  BY <1>1, <1>6, ClockKeeps DEF Revalue, Times
<1>7. CASE UNCHANGED controllerVars
  BY <1>1, <1>7, ClockKeeps DEF controllerVars, Times
<1>. QED BY <1>2, <1>3, <1>4, <1>5, <1>6, <1>7 DEF Next

LEMMA Invariance == Spec => []IInv
BY InitIInv, NextKeepsIInv, PTL DEF Spec

\* The lists that the search for past votes relies on stay sorted, with one
\* checkpoint per second, for any users, portfolios and order of updates.
THEOREM SortedAlways == Spec => []CheckpointsSorted
<1>1. IInv => CheckpointsSorted
  BY DEF IInv, CheckpointsSorted, SortedUpTo
<1>. QED BY <1>1, Invariance, PTL

-----------------------------------------------------------------------------
(* What a step does to a balance *)

LEMMA MovedOneMore ==
    ASSUME NEW cp \in Checkpoints, NEW elapsed \in Nat
    PROVE  \/ Moved(cp, elapsed + 1) = Moved(cp, elapsed)
           \/ /\ Moved(cp, elapsed) < Moved(cp, elapsed + 1)
              /\ Moved(cp, elapsed + 1) <= cp.balanceLimit
           \/ /\ cp.balanceLimit <= Moved(cp, elapsed + 1)
              /\ Moved(cp, elapsed + 1) < Moved(cp, elapsed)
<1>1. cp.balance \in Nat /\ cp.rate \in Int /\ cp.balanceLimit \in Nat
  BY DEF Checkpoints
<1>2. cp.rate * elapsed \in Int /\ cp.rate * (elapsed + 1) = cp.rate * elapsed + cp.rate
  BY <1>1, OneMore, ProductInt
<1>. QED BY <1>1, <1>2 DEF Moved

LEMMA TickDrifts ==
    ASSUME IInv, Tick, NEW u \in Users, checkpoints[u] # <<>>
    PROVE  LET limit == Last(checkpoints[u]).balanceLimit
           IN \/ BalanceOf(u)' = BalanceOf(u)
              \/ BalanceOf(u) < BalanceOf(u)' /\ BalanceOf(u)' <= limit
              \/ limit <= BalanceOf(u)' /\ BalanceOf(u)' < BalanceOf(u)
<1> DEFINE cp == Last(checkpoints[u])
           elapsed == now - cp.blockTimestamp
<1>1. now' = now + 1 /\ checkpoints' = checkpoints /\ needsUpdate' = needsUpdate
  BY DEF Tick
<1>2. cp \in Checkpoints /\ cp.blockTimestamp <= now
  <2>1. checkpoints[u] \in Seq(Checkpoints) /\ SortedUpTo(checkpoints[u], now)
    BY DEF IInv, TypeOK, Holders
  <2>. QED BY <2>1, LastOne DEF SortedUpTo
<1>3. elapsed \in Nat /\ now' - cp.blockTimestamp = elapsed + 1
  BY <1>1, <1>2 DEF IInv, TypeOK, Checkpoints, Times
<1>4. CASE u \in needsUpdate
  BY <1>1, <1>4 DEF BalanceOf
<1>5. CASE u \notin needsUpdate
  <2>1. BalanceOf(u) = Moved(cp, elapsed)
    BY <1>5 DEF BalanceOf
  <2>2. BalanceOf(u)' = Moved(cp, elapsed + 1)
    BY <1>1, <1>3, <1>5 DEF BalanceOf
  <2> HIDE DEF cp, elapsed
  <2>3. \/ BalanceOf(u)' = BalanceOf(u)
        \/ BalanceOf(u) < BalanceOf(u)' /\ BalanceOf(u)' <= cp.balanceLimit
        \/ cp.balanceLimit <= BalanceOf(u)' /\ BalanceOf(u)' < BalanceOf(u)
    BY <1>2, <1>3, <2>1, <2>2, MovedOneMore
  <2>. QED BY <2>3 DEF cp
<1>. QED BY <1>4, <1>5

\* Whatever rates the controller asks for, a balance drifts to its limit and
\* stops there.
THEOREM Drifts == Spec => DriftsToLimit
<1>1. ASSUME [Next]_controllerVars, now' # now PROVE Tick
  BY <1>1 DEF Next, controllerVars, RequestSnapshot, NotifyWithPrices,
              NotifyWithoutPrices, Revalue
<1>2. IInv /\ [Next]_controllerVars =>
        [now' # now => \A u \in Users : checkpoints[u] # <<>> =>
            LET limit == Last(checkpoints[u]).balanceLimit
            IN \/ BalanceOf(u)' = BalanceOf(u)
               \/ BalanceOf(u) < BalanceOf(u)' /\ BalanceOf(u)' <= limit
               \/ limit <= BalanceOf(u)' /\ BalanceOf(u)' < BalanceOf(u)
          ]_<<now, checkpoints, needsUpdate>>
  BY <1>1, TickDrifts
<1>. QED BY <1>2, Invariance, PTL DEF Spec, DriftsToLimit

-----------------------------------------------------------------------------

\* A drop by less than one division.
DropsByRest(before, after) ==
    after < before /\ before - after < V_PRIME_DETERIORATION_DAYS * DAY

LEMMA MarkedKeeps ==
    ASSUME IInv, NEW user \in Users, SetUserNeedsUpdate(user), now' = now, NEW u \in Users
    PROVE  \/ BalanceOf(u)' = BalanceOf(u)
           \/ u \in needsUpdate' /\ BalanceOf(u)' = GetVotes(u)
BY DEF SetUserNeedsUpdate, BalanceOf, GetVotes

LEMMA AdjustedBalance ==
    ASSUME IInv, NEW user \in Users, NEW limit \in Nat, NEW balance \in Nat,
           Adjust(user, Rate(limit - balance), limit, balance), now' = now
    PROVE  \/ BalanceOf(user)' = BalanceOf(user)
           \/ DropsByRest(BalanceOf(user), BalanceOf(user)')
           \/ BalanceOf(user)' = balance
           \/ DropsByRest(balance, BalanceOf(user)') /\ limit < balance
<1> DEFINE rate == Rate(limit - balance)
           recorded == Written(checkpoints[user], balance, rate, limit)
           new == [blockTimestamp |-> now, balance |-> balance,
                   rate |-> rate, balanceLimit |-> limit]
<1>1. /\ user \in Holders /\ Total \in Holders /\ user # Total
      /\ checkpoints \in [Holders -> Seq(Checkpoints)] /\ now \in Times
      /\ checkpoints[user] \in Seq(Checkpoints) /\ SortedUpTo(checkpoints[user], now)
  BY VPrimeAssumption DEF IInv, TypeOK, Holders
<1>2. rate \in Int
  <2>1. limit - balance \in Int
    OBVIOUS
  <2>. QED BY <2>1, RateSign
<1>3. user \notin needsUpdate' /\ checkpoints'[user] = recorded
  BY <1>1 DEF Adjust
<1> HIDE DEF rate
<1>4. \/ checkpoints[user] # <<>> /\ Last(checkpoints[user]).blockTimestamp = now
         /\ recorded = checkpoints[user]
      \/ recorded # <<>> /\ Last(recorded) = new
  BY <1>1, <1>2, WrittenKeeps
<1> HIDE DEF recorded
<1>5. now - now = 0
  BY <1>1 DEF Times
<1>6. CASE checkpoints[user] # <<>> /\ Last(checkpoints[user]).blockTimestamp = now
           /\ recorded = checkpoints[user]
  <2> DEFINE cp == Last(checkpoints[user])
  <2>1. cp \in Checkpoints /\ AimsAtLimit(cp)
    <3>1. cp = checkpoints[user][Len(checkpoints[user])]
          /\ Len(checkpoints[user]) \in DOMAIN checkpoints[user] /\ cp \in Checkpoints
      BY <1>1, <1>6, LastOne
    <3>. QED BY <3>1 DEF IInv, RatesAimAtLimits
  <2>2. BalanceOf(user)' = Moved(cp, 0)
    BY <1>3, <1>5, <1>6 DEF BalanceOf
  <2>3. BalanceOf(user) = cp.balance \/ BalanceOf(user) = Moved(cp, 0)
    BY <1>5, <1>6 DEF BalanceOf
  <2> HIDE DEF cp
  <2>. QED BY <2>1, <2>2, <2>3, MovedAtOnce DEF DropsByRest
<1>7. CASE recorded # <<>> /\ Last(recorded) = new
  <2>1. BalanceOf(user)' = Moved(new, 0)
    BY <1>3, <1>5, <1>7 DEF BalanceOf
  <2>2. new \in Checkpoints /\ AimsAtLimit(new)
    BY <1>1, <1>2 DEF Checkpoints, AimsAtLimit, rate
  <2>3. new.balance = balance /\ new.balanceLimit = limit
    OBVIOUS
  <2> HIDE DEF new
  <2>. QED BY <2>1, <2>2, <2>3, MovedAtOnce DEF DropsByRest
<1>. QED BY <1>4, <1>6, <1>7

LEMMA SnapshotKeeps ==
    ASSUME IInv, NEW user \in Users, NEW p \in Portfolios \cup {Nothing},
           UpdateVPrimeSnapshot(user, p), now' = now, holds'[user] = p, NEW u \in Users
    PROVE  \/ BalanceOf(u)' = BalanceOf(u)
           \/ BalanceOf(u)' = AlreadyVested(holds'[u]) /\ BalanceOf(u) < BalanceOf(u)'
           \/ DropsByRest(BalanceOf(u), BalanceOf(u)')
<1>1. PICK balance \in Nat, limit \in Nat :
        /\ Adjust(user, Rate(limit - balance), limit, balance)
        /\ \/ balance = BalanceOf(user)
           \/ /\ balance = AlreadyVested(p) /\ BalanceOf(user) < balance
              /\ balance <= limit
  BY SnapshotAdjusts
<1>2. CASE u = user
  BY <1>1, <1>2, AdjustedBalance
<1>3. CASE u # user
  <2>1. u \in Holders /\ u # Total /\ checkpoints \in [Holders -> Seq(Checkpoints)]
    BY VPrimeAssumption DEF IInv, TypeOK, Holders
  <2>2. checkpoints'[u] = checkpoints[u] /\ (u \in needsUpdate' <=> u \in needsUpdate)
    BY <1>1, <1>3, <2>1 DEF Adjust
  <2>. QED BY <2>2 DEF BalanceOf
<1>. QED BY <1>2, <1>3

\* Within a second no update takes votes away or grants any, but for what is
\* vested from the start and the rest of a division.
THEOREM SnapshotHolds == Spec => SnapshotKeepsBalance
<1> DEFINE Kept(u) ==
        \/ BalanceOf(u)' = BalanceOf(u)
        \/ BalanceOf(u)' = AlreadyVested(holds'[u]) /\ BalanceOf(u) < BalanceOf(u)'
        \/ u \in needsUpdate' /\ BalanceOf(u)' = GetVotes(u)
        \/ DropsByRest(BalanceOf(u), BalanceOf(u)')
<1>1. ASSUME IInv, Next, now' = now, NEW u \in Users PROVE Kept(u)
  <2>1. now \in Nat /\ holds \in [Users -> Portfolios \cup {Nothing}]
    BY <1>1 DEF IInv, TypeOK, Times
  <2>2. ~Tick
    BY <1>1, <2>1 DEF Tick
  <2>3. ASSUME NEW user \in Users, RequestSnapshot(user) PROVE Kept(u)
    <3>1. /\ UpdateVPrimeSnapshot(user, holds[user]) /\ holds'[user] = holds[user]
          /\ holds[user] \in Portfolios \cup {Nothing}
      BY <2>1, <2>3 DEF RequestSnapshot
    <3>. QED BY <1>1, <3>1, SnapshotKeeps
  <2>4. ASSUME NEW user \in Users, NEW p \in Portfolios, NotifyWithPrices(user, p) PROVE Kept(u)
    <3>1. UpdateVPrimeSnapshot(user, p) /\ holds'[user] = p
      BY <2>1, <2>4 DEF NotifyWithPrices
    <3>. QED BY <1>1, <3>1, SnapshotKeeps
  <2>5. ASSUME NEW user \in Users, NEW p \in Portfolios, NotifyWithoutPrices(user, p) PROVE Kept(u)
    BY <1>1, <2>5, MarkedKeeps DEF NotifyWithoutPrices
  <2>6. ASSUME NEW user \in Users, NEW p \in Portfolios, Revalue(user, p) PROVE Kept(u)
    BY <2>6 DEF Revalue, BalanceOf
  <2>. QED BY <1>1, <2>2, <2>3, <2>4, <2>5, <2>6 DEF Next
<1>2. IInv /\ [Next]_controllerVars =>
        [now' = now => \A u \in Users :
            \/ BalanceOf(u)' = BalanceOf(u)
            \/ BalanceOf(u)' = AlreadyVested(holds'[u]) /\ BalanceOf(u) < BalanceOf(u)'
            \/ u \in needsUpdate' /\ BalanceOf(u)' = GetVotes(u)
            \/ /\ BalanceOf(u)' < BalanceOf(u)
               /\ BalanceOf(u) - BalanceOf(u)' < V_PRIME_DETERIORATION_DAYS * DAY
          ]_controllerVars
  BY <1>1 DEF DropsByRest
<1>. QED BY <1>2, Invariance, PTL DEF Spec, SnapshotKeepsBalance

-----------------------------------------------------------------------------
(* The search *)

\* Up to place r the checkpoints are of the time or before it, and no further.
Splits(ckpts, time, r) == \A i \in 1..Len(ckpts) : i <= r <=> ~After(ckpts[i], time)

LEMMA SplitExists ==
    ASSUME NEW ckpts \in Seq(Checkpoints), NEW last, SortedUpTo(ckpts, last), NEW time \in Nat
    PROVE  \E r \in 0..Len(ckpts) : Splits(ckpts, time, r)
<1> DEFINE n == Len(ckpts)
           N == {k \in 0..n : \A i \in 1..n : i > k => After(ckpts[i], time)}
<1>1. n \in Nat /\ DOMAIN ckpts = 1..n
  OBVIOUS
<1>2. \A i \in 1..n : ckpts[i].blockTimestamp \in Nat
  <2>1. \A i \in 1..n : ckpts[i] \in Checkpoints
    BY <1>1
  <2>. QED BY SMTT(30), <2>1 DEF Checkpoints, Times
<1> HIDE DEF n
<1>3. n \in N /\ N \in SUBSET Nat
  BY <1>1
<1>4. PICK r \in N : \A k \in N : r <= k
  <2> HIDE DEF N
  <2>. QED BY <1>3, SmallestNumber
<1>5. ASSUME NEW i \in 1..n, i <= r, After(ckpts[i], time) PROVE FALSE
  <2>1. \A j \in 1..n : i < j => ckpts[i].blockTimestamp < ckpts[j].blockTimestamp
    BY <1>1 DEF SortedUpTo
  <2>2. \A j \in 1..n : j > i - 1 => After(ckpts[j], time)
    BY <1>1, <1>2, <1>5, <2>1 DEF After
  <2>3. i - 1 \in N
    BY <1>1, <2>2
  <2>. QED BY <1>1, <1>4, <1>5, <2>3
<1>6. Splits(ckpts, time, r)
  BY <1>1, <1>4, <1>5 DEF Splits, n
<1>. QED BY <1>4, <1>6 DEF n

LEMMA MiddleBetween ==
    ASSUME NEW low \in Nat, NEW high \in Nat, low < high
    PROVE  /\ Middle(<<low, high>>) \in Nat
           /\ low <= Middle(<<low, high>>) /\ Middle(<<low, high>>) < high
<1>1. <<low, high>>[1] = low /\ <<low, high>>[2] = high
  OBVIOUS
<1>2. (low + high) \div 2 \in Nat /\ low <= (low + high) \div 2 /\ (low + high) \div 2 < high
  OBVIOUS
<1>. QED BY <1>1, <1>2 DEF Middle

Windows(ckpts) == (0..Len(ckpts)) \X (0..Len(ckpts))

\* What the definition of the search says of it.
Halving(ckpts, time, search) ==
    [window \in Windows(ckpts) |->
        IF window[1] >= window[2] THEN window[2]
        ELSE IF After(ckpts[Middle(window) + 1], time)
             THEN search[<<window[1], Middle(window)>>]
             ELSE search[<<Middle(window) + 1, window[2]>>]]

LEMMA SearchIs == \A ckpts, time :
    Search(ckpts, time) = CHOOSE search : search = Halving(ckpts, time, search)
BY Zenon DEF Search, Halving, Windows

\* Where a search of a window for place r ends.
Nearest(r, low, high) ==
    IF low >= high THEN high ELSE IF r < low THEN low ELSE IF r > high THEN high ELSE r

\* A function like that exists: it is the one that goes to the place r.
LEMMA SearchUnfolds ==
    ASSUME NEW ckpts \in Seq(Checkpoints), NEW time, NEW r \in 0..Len(ckpts),
           Splits(ckpts, time, r)
    PROVE  Search(ckpts, time) = Halving(ckpts, time, Search(ckpts, time))
<1> DEFINE n == Len(ckpts)
           g == [window \in Windows(ckpts) |-> Nearest(r, window[1], window[2])]
           h == Halving(ckpts, time, g)
<1>1. n \in Nat
  OBVIOUS
<1>2. \A low, high \in 0..n : g[<<low, high>>] = Nearest(r, low, high)
  BY DEF Windows
<1>3. ASSUME NEW low \in 0..n, NEW high \in 0..n
      PROVE  Nearest(r, low, high) =
                IF low >= high THEN high
                ELSE IF After(ckpts[Middle(<<low, high>>) + 1], time)
                     THEN g[<<low, Middle(<<low, high>>)>>]
                     ELSE g[<<Middle(<<low, high>>) + 1, high>>]
  <2> DEFINE mid == Middle(<<low, high>>)
  <2>1. CASE low >= high
    BY <2>1 DEF Nearest
  <2>2. CASE low < high
    <3>1. mid \in Nat /\ low <= mid /\ mid < high
      BY <1>1, <2>2, MiddleBetween
    <3> HIDE DEF mid
    <3>2. mid \in 0..n /\ mid + 1 \in 0..n /\ mid + 1 \in 1..n
      BY <1>1, <3>1
    <3>3. After(ckpts[mid + 1], time) <=> ~(mid + 1 <= r)
      BY <3>2 DEF Splits
    <3> HIDE DEF n, g
    <3>4. g[<<low, mid>>] = Nearest(r, low, mid)
          /\ g[<<mid + 1, high>>] = Nearest(r, mid + 1, high)
      BY <1>2, <3>2
    <3>5. CASE mid + 1 <= r
      <4>1. Nearest(r, low, high) = Nearest(r, mid + 1, high)
        BY <1>1, <3>1, <3>5 DEF Nearest
      <4>. QED BY <2>2, <3>3, <3>4, <3>5, <4>1 DEF mid
    <3>6. CASE ~(mid + 1 <= r)
      <4>1. Nearest(r, low, high) = Nearest(r, low, mid)
        BY <1>1, <3>1, <3>6 DEF Nearest
      <4>. QED BY <2>2, <3>3, <3>4, <3>6, <4>1 DEF mid
    <3>. QED BY <3>5, <3>6
  <2>. QED BY <1>1, <2>1, <2>2
<1>4. ASSUME NEW window \in Windows(ckpts) PROVE g[window] = h[window]
  <2>1. PICK low \in 0..n, high \in 0..n : window = <<low, high>>
    BY DEF Windows
  <2>2. window[1] = low /\ window[2] = high
    BY <2>1
  <2>3. h[window] = IF low >= high THEN high
                    ELSE IF After(ckpts[Middle(<<low, high>>) + 1], time)
                         THEN g[<<low, Middle(<<low, high>>)>>]
                         ELSE g[<<Middle(<<low, high>>) + 1, high>>]
    <3> HIDE DEF g, n
    <3>. QED BY <2>1, <2>2 DEF Halving
  <2> HIDE DEF g, h, n
  <2>. QED BY <1>2, <1>3, <2>1, <2>3
<1>5. g = h
  <2>1. h = [window \in Windows(ckpts) |-> h[window]]
    BY DEF Halving
  <2> HIDE DEF h
  <2>. QED BY <1>4, <2>1
<1> HIDE DEF g
<1>. QED BY <1>5, SearchIs, Zenon

LEMMA SearchFinds ==
    ASSUME NEW ckpts \in Seq(Checkpoints), NEW time, NEW r \in 0..Len(ckpts),
           Splits(ckpts, time, r),
           NEW low \in 0..Len(ckpts), NEW high \in 0..Len(ckpts), low <= r, r <= high
    PROVE  Search(ckpts, time)[<<low, high>>] = r
<1> DEFINE n == Len(ckpts)
           s == Search(ckpts, time)
           Lost(d, i, j) == d = j - i /\ i <= r /\ r <= j /\ s[<<i, j>>] # r
           N == {d \in Nat : \E i, j \in 0..n : Lost(d, i, j)}
<1>1. n \in Nat
  OBVIOUS
<1>2. SUFFICES ASSUME N # {} PROVE FALSE
  <2>1. high - low \in Nat
    BY <1>1
  <2> HIDE DEF n, s
  <2>. QED BY <2>1 DEF n, s
<1>3. PICK d \in N : \A k \in N : d <= k
  <2>1. N \in SUBSET Nat
    OBVIOUS
  <2> HIDE DEF N
  <2>. QED BY <1>2, <2>1, SmallestNumber
<1>4. PICK i \in 0..n, j \in 0..n : Lost(d, i, j)
  OBVIOUS
<1>5. ASSUME NEW a \in 0..n, NEW b \in 0..n, a <= r, r <= b, b - a < j - i
      PROVE  s[<<a, b>>] = r
  <2> HIDE DEF s, n
  <2>1. SUFFICES ASSUME s[<<a, b>>] # r PROVE FALSE
    OBVIOUS
  <2>2. b - a \in Nat /\ Lost(b - a, a, b)
    BY <1>1, <1>5, <2>1
  <2>3. b - a \in N
    BY <2>2
  <2>4. d \in Nat /\ d = j - i
    BY <1>4
  <2> HIDE DEF N
  <2>. QED BY <1>3, <1>5, <2>2, <2>3, <2>4
<1> HIDE DEF N
<1>6. s[<<i, j>>] = IF i >= j THEN j
                    ELSE IF After(ckpts[Middle(<<i, j>>) + 1], time)
                         THEN s[<<i, Middle(<<i, j>>)>>]
                         ELSE s[<<Middle(<<i, j>>) + 1, j>>]
  <2>1. s = Halving(ckpts, time, s)
    BY SearchUnfolds
  <2>2. <<i, j>> \in Windows(ckpts) /\ <<i, j>>[1] = i /\ <<i, j>>[2] = j
    BY DEF Windows
  <2> DEFINE window == <<i, j>>
  <2> HIDE DEF s, n, window
  <2>3. Halving(ckpts, time, s)[window] =
           IF window[1] >= window[2] THEN window[2]
           ELSE IF After(ckpts[Middle(window) + 1], time)
                THEN s[<<window[1], Middle(window)>>]
                ELSE s[<<Middle(window) + 1, window[2]>>]
    BY <2>2 DEF Halving, window
  <2>. QED BY <2>1, <2>2, <2>3 DEF window
<1> DEFINE mid == Middle(<<i, j>>)
<1>7. i \in Nat /\ j \in Nat /\ r \in Nat /\ i <= r /\ r <= j /\ s[<<i, j>>] # r /\ j <= n
  BY <1>1, <1>4
<1>8. i < j
  <2> HIDE DEF s, n
  <2>. QED BY <1>6, <1>7
<1>9. mid \in Nat /\ i <= mid /\ mid < j
  BY <1>7, <1>8, MiddleBetween
<1> HIDE DEF mid
<1>10. mid \in 0..n /\ mid + 1 \in 0..n /\ mid + 1 \in 1..n
  BY <1>1, <1>7, <1>9
<1>11. After(ckpts[mid + 1], time) <=> ~(mid + 1 <= r)
  BY <1>10 DEF Splits
<1> HIDE DEF s, n
<1>12. CASE mid + 1 <= r
  <2>1. s[<<mid + 1, j>>] = r
    BY <1>5, <1>7, <1>9, <1>10, <1>12
  <2>. QED BY <1>6, <1>7, <1>8, <1>11, <1>12, <2>1 DEF mid
<1>13. CASE ~(mid + 1 <= r)
  <2>1. s[<<i, mid>>] = r
    BY <1>5, <1>7, <1>9, <1>10, <1>13
  <2>. QED BY <1>6, <1>7, <1>8, <1>11, <1>13, <2>1 DEF mid
<1>. QED BY <1>12, <1>13

LEMMA RootOfLong ==
    ASSUME NEW n \in Nat, n > 0
    PROVE  FloorSqrt(n) \in 1..n
<1> DEFINE N == {k \in Nat : n < (k + 1) * (k + 1)}
<1>1. n \in N
  <2>1. (n + 1) * (n + 1) = n * n + n + n + 1 /\ n * n >= 0
    BY ProductNat
  <2>. QED BY <2>1
<1>2. PICK r \in N : \A k \in N : r <= k
  <2>1. N \in SUBSET Nat /\ N # {}
    BY <1>1
  <2> HIDE DEF N
  <2>. QED BY <2>1, SmallestNumber
<1>3. r \in Nat /\ n < (r + 1) * (r + 1) /\ r <= n
  BY <1>1, <1>2
<1>4. r # 0
  BY <1>3
<1>5. r * r <= n
  <2>1. r - 1 \in Nat /\ r - 1 \notin N
    BY <1>2, <1>3, <1>4
  <2>2. ~(n < (r - 1 + 1) * (r - 1 + 1))
    BY <2>1
  <2>3. r - 1 + 1 = r
    BY <1>3
  <2>4. ~(n < r * r) /\ r * r \in Nat
    BY <2>2, <2>3, <1>3, ProductNat
  <2>. QED BY <2>4
<1>6. \E k \in 0..n : k * k <= n /\ n < (k + 1) * (k + 1)
  BY <1>3, <1>5
<1>7. FloorSqrt(n) \in 0..n /\ n < (FloorSqrt(n) + 1) * (FloorSqrt(n) + 1)
  BY <1>6 DEF FloorSqrt
<1>8. FloorSqrt(n) # 0
  BY <1>7
<1>. QED BY <1>7, <1>8

\* What a look-up of a sorted list returns.
LEMMA LookupIs ==
    ASSUME NEW ckpts \in Seq(Checkpoints), NEW time, NEW r \in 0..Len(ckpts),
           Splits(ckpts, time, r)
    PROVE  CheckpointsLookup(ckpts, time) = IF r = 0 THEN 0 ELSE ckpts[r].balance
<1> DEFINE n == Len(ckpts)
           recent == n - FloorSqrt(n)
           window == IF n <= 5 THEN <<0, n>>
                     ELSE IF After(ckpts[recent + 1], time) THEN <<0, recent>>
                     ELSE <<recent + 1, n>>
           found == Search(ckpts, time)[window]
<1>1. n \in Nat /\ r \in 0..n /\ n \in 0..n /\ 0 \in 0..n
  OBVIOUS
<1>2. CheckpointsLookup(ckpts, time) = IF found = 0 THEN 0 ELSE ckpts[found].balance
  BY DEF CheckpointsLookup
<1>3. \A low, high \in 0..n : low <= r /\ r <= high => Search(ckpts, time)[<<low, high>>] = r
  BY SearchFinds
<1>4. CASE n <= 5
  <2>1. window = <<0, n>>
    BY <1>4
  <2> HIDE DEF window, n
  <2>2. found = r
    BY <1>1, <1>3, <2>1
  <2>. QED BY <1>2, <2>2
<1>5. CASE n > 5
  <2>1. FloorSqrt(n) \in 1..n
    BY <1>1, <1>5, RootOfLong
  <2>2. recent \in 0..n /\ recent + 1 \in 0..n /\ recent + 1 \in 1..n
    BY <1>1, <2>1
  <2> HIDE DEF recent
  <2>3. After(ckpts[recent + 1], time) <=> ~(recent + 1 <= r)
    BY <2>2 DEF Splits
  <2>4. CASE recent + 1 <= r
    <3>1. window = <<recent + 1, n>>
      BY <1>1, <1>5, <2>3, <2>4
    <3> HIDE DEF window, n
    <3>2. found = r
      BY <1>1, <1>3, <2>2, <2>4, <3>1
    <3>. QED BY <1>2, <3>2
  <2>5. CASE ~(recent + 1 <= r)
    <3>1. window = <<0, recent>>
      BY <1>1, <1>5, <2>3, <2>5
    <3> HIDE DEF window, n
    <3>2. found = r
      BY <1>1, <1>3, <2>2, <2>5, <3>1
    <3>. QED BY <1>2, <3>2
  <2>. QED BY <2>4, <2>5
<1>. QED BY <1>1, <1>4, <1>5

\* For any users, portfolios and order of updates, a look-up finds the last checkpoint
\* taken before or at the second asked for, however long the list.
THEOREM LookupsFind == Spec => []LookupFinds
<1>1. ASSUME IInv, NEW h \in Holders, NEW t \in 0..(now - 1)
      PROVE  LET past == {i \in DOMAIN checkpoints[h] : checkpoints[h][i].blockTimestamp <= t}
             IN GetPastVotes(h, t) =
                  IF past = {} THEN 0 ELSE checkpoints[h][Max(past)].balance
  <2> DEFINE ckpts == checkpoints[h]
             past == {i \in DOMAIN ckpts : ckpts[i].blockTimestamp <= t}
  <2>1. ckpts \in Seq(Checkpoints) /\ SortedUpTo(ckpts, now) /\ t \in Nat
    BY <1>1 DEF IInv, TypeOK, Times
  <2> HIDE DEF ckpts
  <2>2. PICK r \in 0..Len(ckpts) : Splits(ckpts, t, r)
    BY <2>1, SplitExists
  <2>3. GetPastVotes(h, t) = IF r = 0 THEN 0 ELSE ckpts[r].balance
    BY <2>1, <2>2, LookupIs DEF GetPastVotes, ckpts
  <2>4. Len(ckpts) \in Nat /\ DOMAIN ckpts = 1..Len(ckpts)
    BY <2>1
  <2>5. \A i \in 1..Len(ckpts) : ckpts[i].blockTimestamp \in Nat
    <3>1. \A i \in 1..Len(ckpts) : ckpts[i] \in Checkpoints
      BY <2>1, <2>4
    <3>. QED BY <3>1 DEF Checkpoints, Times
  <2>6. \A i \in 1..Len(ckpts) : ckpts[i].blockTimestamp <= t <=> i <= r
    BY <2>1, <2>2, <2>5 DEF Splits, After
  <2>7. past = 1..r
    BY <2>2, <2>4, <2>6
  <2>8. r # 0 => past # {} /\ Max(past) = r
    <3> SUFFICES ASSUME r # 0 PROVE past # {} /\ Max(past) = r
      OBVIOUS
    <3>1. r \in 1..r /\ \A i \in 1..r : r >= i
      BY <2>2, <2>4
    <3> HIDE DEF past
    <3>2. \E m \in past : \A i \in past : m >= i
      BY <2>7, <3>1
    <3>3. Max(past) \in past /\ \A i \in past : Max(past) >= i
      BY <3>2 DEF Max
    <3>4. Max(past) \in 1..r /\ Max(past) >= r
      BY <2>7, <3>1, <3>3
    <3>. QED BY <2>7, <3>1, <3>4
  <2>9. r = 0 => past = {}
    BY <2>7
  <2> HIDE DEF past
  <2>10. GetPastVotes(h, t) = IF past = {} THEN 0 ELSE ckpts[Max(past)].balance
    BY <2>3, <2>8, <2>9
  <2>. QED BY <2>10 DEF past, ckpts
<1>2. IInv => LookupFinds
  BY <1>1, Zenon DEF LookupFinds
<1>. QED BY <1>2, Invariance, PTL

-----------------------------------------------------------------------------
(* The past *)

\* A list stays as it is, or gets a checkpoint of this second.
Grown(ckpts, later, time) ==
    \/ later = ckpts
    \/ \E new \in Checkpoints : new.blockTimestamp = time /\ later = Append(ckpts, new)

LEMMA WrittenGrows ==
    ASSUME NEW ckpts, NEW balance \in Nat, NEW rate \in Int, NEW limit \in Nat, now \in Times
    PROVE  Grown(ckpts, Written(ckpts, balance, rate, limit), now)
<1> DEFINE new == [blockTimestamp |-> now, balance |-> balance,
                   rate |-> rate, balanceLimit |-> limit]
<1>1. new \in Checkpoints /\ new.blockTimestamp = now
  BY DEF Checkpoints
<1>2. \/ Written(ckpts, balance, rate, limit) = ckpts
      \/ Written(ckpts, balance, rate, limit) = Append(ckpts, new)
  BY DEF Written
<1> HIDE DEF new
<1>. QED BY <1>1, <1>2 DEF Grown

LEMMA AdjustGrows ==
    ASSUME IInv, NEW user \in Users, NEW limit \in Nat, NEW balance \in Nat,
           Adjust(user, Rate(limit - balance), limit, balance), NEW h \in Holders
    PROVE  Grown(checkpoints[h], checkpoints'[h], now)
<1> DEFINE total == GetVotes(Total) + balance - GetVotes(user)
           rate == Rate(limit - balance)
           recorded == Written(checkpoints[user], balance, rate, limit)
           totalled == Written(checkpoints[Total], total, 0, 0)
<1>1. /\ user \in Holders /\ Total \in Holders /\ user # Total
      /\ checkpoints \in [Holders -> Seq(Checkpoints)] /\ now \in Times
  BY VPrimeAssumption DEF IInv, TypeOK, Holders
<1>2. rate \in Int
  <2>1. limit - balance \in Int
    OBVIOUS
  <2>. QED BY <2>1, RateSign
<1>3. total \in Int
  BY <1>1, GetVotesTyped
<1>4. /\ total >= 0
      /\ \/ checkpoints' = [checkpoints EXCEPT ![user] = recorded]
         \/ checkpoints' = [checkpoints EXCEPT ![user] = recorded, ![Total] = totalled]
  BY DEF Adjust
<1> HIDE DEF rate, total
<1>5. Grown(checkpoints[user], recorded, now) /\ Grown(checkpoints[Total], totalled, now)
  BY <1>1, <1>2, <1>3, <1>4, WrittenGrows
<1> HIDE DEF recorded, totalled
<1>6. \/ checkpoints'[h] = checkpoints[h]
      \/ h = user /\ checkpoints'[h] = recorded
      \/ h = Total /\ checkpoints'[h] = totalled
  BY <1>1, <1>4
<1>7. Grown(checkpoints[h], checkpoints[h], now)
  BY DEF Grown
<1>. QED BY <1>5, <1>6, <1>7

LEMMA ListsGrow ==
    ASSUME IInv, [Next]_<<now, checkpoints, needsUpdate>>, NEW h \in Holders
    PROVE  Grown(checkpoints[h], checkpoints'[h], now)
<1>1. CASE UNCHANGED checkpoints
  BY <1>1 DEF Grown
<1>2. ASSUME NEW user \in Users, NEW p \in Portfolios \cup {Nothing},
             UpdateVPrimeSnapshot(user, p)
      PROVE  Grown(checkpoints[h], checkpoints'[h], now)
  BY <1>2, SnapshotAdjusts, AdjustGrows
<1>3. ASSUME NEW user \in Users, RequestSnapshot(user)
      PROVE  Grown(checkpoints[h], checkpoints'[h], now)
  <2>1. holds[user] \in Portfolios \cup {Nothing}
    BY DEF IInv, TypeOK
  <2>. QED BY <1>2, <1>3, <2>1 DEF RequestSnapshot
<1>4. ASSUME NEW user \in Users, NEW p \in Portfolios, NotifyWithPrices(user, p)
      PROVE  Grown(checkpoints[h], checkpoints'[h], now)
  BY <1>2, <1>4 DEF NotifyWithPrices
<1>. QED BY <1>1, <1>3, <1>4 DEF Next, Tick, NotifyWithoutPrices, SetUserNeedsUpdate, Revalue

LEMMA LookupSettled ==
    ASSUME NEW ckpts \in Seq(Checkpoints), NEW later \in Seq(Checkpoints), NEW time \in Nat,
           SortedUpTo(ckpts, time), NEW t \in Nat, t < time, Grown(ckpts, later, time)
    PROVE  CheckpointsLookup(later, t) = CheckpointsLookup(ckpts, t)
<1>1. CASE later = ckpts
  BY <1>1
<1>2. CASE later # ckpts
  <2>1. PICK new \in Checkpoints : new.blockTimestamp = time /\ later = Append(ckpts, new)
    BY <1>2 DEF Grown
  <2>2. PICK r \in 0..Len(ckpts) : Splits(ckpts, t, r)
    BY SplitExists
  <2> DEFINE n == Len(ckpts)
  <2>3. /\ n \in Nat /\ Len(later) = n + 1 /\ later[n + 1] = new
        /\ \A i \in 1..n : later[i] = ckpts[i]
    BY <2>1
  <2> HIDE DEF n
  <2>4. After(new, t)
    BY <2>1 DEF After
  <2>5. r \in 0..n /\ r \in 0..Len(later)
    BY <2>3 DEF n
  <2>6. ASSUME NEW i \in 1..Len(later) PROVE i <= r <=> ~After(later[i], t)
    <3>1. CASE i \in 1..n
      <4>1. later[i] = ckpts[i]
        BY <2>3, <3>1
      <4>. QED BY <2>2, <3>1, <4>1 DEF Splits, n
    <3>2. CASE i = n + 1
      BY <2>3, <2>4, <2>5, <3>2
    <3>. QED BY <3>1, <3>2, <2>3, <2>6
  <2>7. Splits(later, t, r)
    BY <2>6 DEF Splits
  <2>8. r # 0 => later[r] = ckpts[r]
    BY <2>3, <2>5
  <2>9. CheckpointsLookup(later, t) = IF r = 0 THEN 0 ELSE later[r].balance
    BY <2>5, <2>7, LookupIs
  <2>10. CheckpointsLookup(ckpts, t) = IF r = 0 THEN 0 ELSE ckpts[r].balance
    BY <2>2, LookupIs
  <2>. QED BY <2>8, <2>9, <2>10
<1>. QED BY <1>1, <1>2

\* For any users, portfolios and order of updates, the votes of a past second are
\* settled: a checkpoint is only ever added, and of the present second.
THEOREM PastIsSettled == Spec => PastVotesFixed
<1>1. ASSUME IInv, IInv', [Next]_<<now, checkpoints, needsUpdate>>,
             NEW h \in Holders, NEW t \in 0..(now - 1)
      PROVE  GetPastVotes(h, t)' = GetPastVotes(h, t)
  <2>1. /\ checkpoints[h] \in Seq(Checkpoints) /\ SortedUpTo(checkpoints[h], now)
        /\ now \in Nat /\ t \in Nat /\ t < now
    BY <1>1 DEF IInv, TypeOK, Times
  <2>2. checkpoints'[h] \in Seq(Checkpoints)
    BY <1>1 DEF IInv, TypeOK
  <2>3. Grown(checkpoints[h], checkpoints'[h], now)
    BY <1>1, ListsGrow
  <2>4. CheckpointsLookup(checkpoints'[h], t) = CheckpointsLookup(checkpoints[h], t)
    BY <2>1, <2>2, <2>3, LookupSettled
  <2>. QED BY <2>4, Zenon DEF GetPastVotes
<1>2. IInv /\ IInv' /\ [Next]_controllerVars =>
        [\A h \in Holders, t \in 0..(now - 1) :
            GetPastVotes(h, t)' = GetPastVotes(h, t)]_<<now, checkpoints, needsUpdate>>
  BY <1>1, Zenon DEF controllerVars
<1>. QED BY <1>2, Invariance, PTL DEF Spec, PastVotesFixed
==============================================================================
