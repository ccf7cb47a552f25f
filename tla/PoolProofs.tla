----------------------------- MODULE PoolProofs ------------------------------
(***************************************************************************)
(* A pool, and the pool of the wrapped native token, for any sets of        *)
(* depositors and Prime Accounts, any amounts, rates, scale of the          *)
(* fixed-point numbers and time bound.                                      *)
(*                                                                         *)
(* Sound: types, the histories of the two indices and the rewards hold      *)
(* (IInv), and what follows from them: interest is never negative, so the   *)
(* checked subtractions of the accumulation never block the pool.           *)
(*                                                                         *)
(* Worth the same: within a block a pool neither creates nor destroys value:*)
(* deposits only move, debts follow tokens, and cash + loans - deposits     *)
(* changes only when the owner recovers a surplus.  What is locked stays.   *)
(* The argument: writing an index entry, for a user or for a new rate, does *)
(* not change what any principal is worth in that block, because a sound    *)
(* history has the value that is written wherever one is replaced.  So each *)
(* entry point changes the values by its amount and nothing else, and each  *)
(* of them but those of the wrapped pool asks for the locks before it takes *)
(* from a deposit; time lets locks expire and deposits grow.                *)
(*                                                                         *)
(* Then a rewarder beside its pool, for any pool, reward and script run.    *)
(* Never blocked: the subtractions of its rewards never underflow, whoever  *)
(* claims, notifies, sets durations or enrols accounts, in whatever order.  *)
(* The inductive invariant is the pool's.                                   *)
(* Adds up: the total that divides the rewards is the sum of the stakes.    *)
(* Covered: what was announced is what accounts are owed and the rest of the*)
(* period, in funds the rewarder has, if announcements are sent in full.    *)
(* Not overstaked: no stake is more than its deposit, through every order of*)
(* users' transactions with the pages and batches of the enrolment scripts. *)
(***************************************************************************)
EXTENDS WrappedNativeTokenPool, RewarderLaunch, SumLemmas

-----------------------------------------------------------------------------
(* The rates calculator and the linear index *)

LEMMA ScaleNat == WAD \in Nat \ {0} /\ RAY \in Nat \ {0}
BY PoolBaseAssumption, IndexAssumption DEF WAD, RAY

-----------------------------------------------------------------------------
(* Rates *)

LEMMA UtilisationNat ==
    ASSUME NEW loans \in Nat, NEW deposits \in Nat
    PROVE  PoolUtilisation(loans, deposits) \in Nat
<1>1. loans * WAD \in Nat  BY ScaleNat, MulNat
<1>. QED BY <1>1, DivNat DEF PoolUtilisation

\* The lines of the piecewise formula are never below zero where they apply.
LEMMA BorrowingRateNat ==
    ASSUME NEW loans \in Nat, NEW deposits \in Nat
    PROVE  BorrowingRate(loans, deposits) \in Nat
<1>. DEFINE u == PoolUtilisation(loans, deposits)
<1>1. u \in Nat  BY UtilisationNat
<1>2. ASSUME NEW slope \in Nat, NEW offset \in Nat, u * slope >= offset * WAD
      PROVE  Line(u, slope, offset) \in Nat
  <2>1. u * slope \in Nat  BY <1>1, MulNat
  <2>2. (u * slope) \div WAD >= offset  BY <1>2, <2>1, DivGE, ScaleNat
  <2>3. (u * slope) \div WAD \in Nat  BY <2>1, DivNat, ScaleNat
  <2>. QED BY <2>2, <2>3 DEF Line
<1>3. CASE u >= WAD
  BY <1>3, <1>1, PoolBaseAssumption DEF BorrowingRate, MAX_RATE
<1>4. CASE ~(u >= WAD) /\ u <= BREAKPOINT_1
  <2>1. Line(u, SLOPE_1, 0) \in Nat
    <3>1. SLOPE_1 \in Nat  BY PoolBaseAssumption DEF SLOPE_1
    <3>2. u * SLOPE_1 \in Nat  BY <1>1, <3>1, MulNat
    <3>. QED BY <1>2, <3>1, <3>2, ScaleNat
  <2>. QED BY <2>1, <1>4 DEF BorrowingRate
<1>5. CASE ~(u >= WAD) /\ ~(u <= BREAKPOINT_1) /\ u <= BREAKPOINT_2
  <2>1. u * SLOPE_2 >= OFFSET_2 * WAD
    BY <1>1, <1>5, PoolBaseAssumption DEF BREAKPOINT_1, SLOPE_2, OFFSET_2, WAD
  <2>2. Line(u, SLOPE_2, OFFSET_2) \in Nat
    BY <2>1, <1>2, PoolBaseAssumption DEF SLOPE_2, OFFSET_2
  <2>. QED BY <2>2, <1>5 DEF BorrowingRate
<1>6. CASE /\ ~(u >= WAD) /\ ~(u <= BREAKPOINT_1) /\ ~(u <= BREAKPOINT_2)
           /\ u <= BREAKPOINT_3
  <2>1. u * SLOPE_3 >= OFFSET_3 * WAD
    BY <1>1, <1>6, PoolBaseAssumption DEF BREAKPOINT_2, SLOPE_3, OFFSET_3, WAD
  <2>2. Line(u, SLOPE_3, OFFSET_3) \in Nat
    BY <2>1, <1>2, PoolBaseAssumption DEF SLOPE_3, OFFSET_3
  <2>. QED BY <2>2, <1>6 DEF BorrowingRate
<1>7. CASE ~(u >= WAD) /\ ~(u <= BREAKPOINT_1) /\ ~(u <= BREAKPOINT_2)
           /\ ~(u <= BREAKPOINT_3)
  <2>1. u * SLOPE_4 >= OFFSET_4 * WAD
    BY <1>1, <1>7, PoolBaseAssumption DEF BREAKPOINT_3, SLOPE_4, OFFSET_4, WAD
  <2>2. Line(u, SLOPE_4, OFFSET_4) \in Nat
    BY <2>1, <1>2, PoolBaseAssumption DEF SLOPE_4, OFFSET_4
  <2>. QED BY <2>2, <1>7 DEF BorrowingRate
<1>. QED BY <1>3, <1>4, <1>5, <1>6, <1>7

LEMMA DepositRateNat ==
    ASSUME NEW loans \in Nat, NEW deposits \in Nat, NEW cut \in 0..(WAD - 1)
    PROVE  DepositRate(loans, deposits, cut) \in Nat
<1>1. WAD - cut \in Nat  BY ScaleNat
<1>2. CASE deposits = 0  BY <1>2 DEF DepositRate
<1>3. CASE deposits # 0 /\ loans >= deposits
  <2>1. MAX_RATE \in Nat  BY PoolBaseAssumption DEF MAX_RATE
  <2>2. MAX_RATE * (WAD - cut) \in Nat  BY <2>1, <1>1, MulNat
  <2>. QED BY <1>3, <2>2, DivNat, ScaleNat DEF DepositRate
<1>4. CASE deposits # 0 /\ ~(loans >= deposits)
  <2>1. BorrowingRate(loans, deposits) * (WAD - cut) \in Nat
    BY <1>1, BorrowingRateNat, MulNat
  <2>2. BorrowingRate(loans, deposits) * (WAD - cut) * loans \in Nat
    BY <2>1, MulNat
  <2>3. deposits * WAD \in Nat \ {0}  BY <1>4, ScaleNat
  <2>. QED BY <1>4, <2>2, <2>3, DivNat DEF DepositRate
<1>. QED BY <1>2, <1>3, <1>4

-----------------------------------------------------------------------------
(* The index *)

LEMMA FactorBounds ==
    ASSUME NEW ix \in LinearIndices, NEW period \in Nat
    PROVE  LinearFactor(ix, period) \in Nat /\ LinearFactor(ix, period) >= RAY
<1>1. ix.rate \in Nat  BY DEF LinearIndices
<1>2. ix.rate * period * RateToRay \in Nat
  BY <1>1, IndexAssumption, MulNat
<1>3. (ix.rate * period * RateToRay) \div SECONDS_IN_YEAR \in Nat
  BY <1>2, IndexAssumption, DivNat
<1>. QED BY <1>3, ScaleNat DEF LinearFactor

LEMMA FactorMonotone ==
    ASSUME NEW ix \in LinearIndices, NEW p \in Nat, NEW q \in Nat, p <= q
    PROVE  LinearFactor(ix, p) <= LinearFactor(ix, q)
<1>1. ix.rate \in Nat  BY DEF LinearIndices
<1>2. ix.rate * p \in Nat /\ ix.rate * q \in Nat /\ ix.rate * p <= ix.rate * q
  BY <1>1, MulNat, MulMonotone
<1>3. /\ (ix.rate * p) * RateToRay \in Nat
      /\ (ix.rate * q) * RateToRay \in Nat
      /\ (ix.rate * p) * RateToRay <= (ix.rate * q) * RateToRay
  BY <1>2, IndexAssumption, MulNat, SMT
<1>4. ((ix.rate * p) * RateToRay) \div SECONDS_IN_YEAR
        <= ((ix.rate * q) * RateToRay) \div SECONDS_IN_YEAR
  BY <1>3, IndexAssumption, DivMonotone
<1>5. /\ ((ix.rate * p) * RateToRay) \div SECONDS_IN_YEAR \in Nat
      /\ ((ix.rate * q) * RateToRay) \div SECONDS_IN_YEAR \in Nat
  BY <1>3, IndexAssumption, DivNat
<1>. QED BY <1>4, <1>5, ScaleNat DEF LinearFactor

\* The index is a number that never falls while time passes.
LEMMA IndexBounds ==
    ASSUME NEW ix \in LinearIndices, NEW t \in Times
    PROVE  GetIndex(ix, t) \in Nat /\ GetIndex(ix, t) >= ix.index
<1>1. ix.index \in Nat /\ ix.indexUpdateTime \in Nat /\ t \in Nat
  BY DEF LinearIndices, Times
<1>2. CASE t > ix.indexUpdateTime
  <2>. DEFINE f == LinearFactor(ix, t - ix.indexUpdateTime)
  <2>1. f \in Nat /\ f >= RAY  BY <1>1, <1>2, FactorBounds
  <2>2. ix.index * f \in Nat /\ ix.index * RAY <= ix.index * f
    BY <1>1, <2>1, ScaleNat, MulNat, MulMonotone
  <2>3. (ix.index * f) \div RAY >= ix.index
    BY <1>1, <2>2, ScaleNat, DivGE
  <2>4. (ix.index * f) \div RAY \in Nat  BY <2>2, ScaleNat, DivNat
  <2>. QED BY <1>2, <2>3, <2>4 DEF GetIndex
<1>3. CASE ~(t > ix.indexUpdateTime)  BY <1>1, <1>3 DEF GetIndex
<1>. QED BY <1>2, <1>3

LEMMA IndexMonotone ==
    ASSUME NEW ix \in LinearIndices, NEW s \in Times, NEW t \in Times, s <= t
    PROVE  GetIndex(ix, s) <= GetIndex(ix, t)
<1>1. ix.index \in Nat /\ ix.indexUpdateTime \in Nat /\ s \in Nat /\ t \in Nat
  BY DEF LinearIndices, Times
<1>2. CASE s > ix.indexUpdateTime
  <2>. DEFINE f == LinearFactor(ix, s - ix.indexUpdateTime)
              g == LinearFactor(ix, t - ix.indexUpdateTime)
  <2>1. f \in Nat /\ g \in Nat /\ f <= g
    BY <1>1, <1>2, FactorBounds, FactorMonotone
  <2>2. ix.index * f \in Nat /\ ix.index * g \in Nat /\ ix.index * f <= ix.index * g
    BY <1>1, <2>1, MulNat, MulMonotone
  <2>3. (ix.index * f) \div RAY <= (ix.index * g) \div RAY
    BY <2>2, ScaleNat, DivMonotone
  <2>. QED BY <1>1, <1>2, <2>3 DEF GetIndex
<1>3. CASE ~(s > ix.indexUpdateTime)
  BY <1>1, <1>3, IndexBounds DEF GetIndex
<1>. QED BY <1>2, <1>3

\* With a sound history a value never shrinks, and no division is by zero.
LEMMA IndexedValueBounds ==
    ASSUME NEW ix \in LinearIndices, NEW t \in Times, HistoryOK(ix, t),
           NEW h \in Holders, NEW value \in Nat
    PROVE  /\ GetIndexedValue(ix, t, value, h) \in Nat
           /\ GetIndexedValue(ix, t, value, h) >= value
<1>. DEFINE prev == PrevUserIndex(ix, t, h)
            cur == GetIndex(ix, t)
<1>1. cur \in Nat /\ cur >= ix.index /\ ix.index \in Nat
  BY IndexBounds DEF LinearIndices
<1>2. prev \in Nat \ {0} /\ prev <= cur
  <2>1. CASE ix.userUpdateTime[h] = 0
    BY <1>1, <2>1, ScaleNat DEF PrevUserIndex, HistoryOK, BASE_RATE
  <2>2. CASE ix.userUpdateTime[h] # 0
    <3>1. ix.userUpdateTime[h] \in Times  BY <2>2 DEF LinearIndices
    <3>2. ix.prevIndex[ix.userUpdateTime[h]] \in Nat  BY <3>1 DEF LinearIndices
    <3>. QED BY <1>1, <2>2, <3>2, ScaleNat DEF PrevUserIndex, HistoryOK, BASE_RATE
  <2>. QED BY <2>1, <2>2
<1>3. value * cur \in Nat /\ value * prev <= value * cur
  BY <1>1, <1>2, MulNat, MulMonotone
<1>4. (value * cur) \div prev \in Nat  BY <1>2, <1>3, DivNat
<1>5. (value * cur) \div prev >= value  BY <1>2, <1>3, DivGE
<1>. QED BY <1>4, <1>5 DEF GetIndexedValue

-----------------------------------------------------------------------------
(* The steps of an index *)

\* A value does not change when it is read again in the block of an update.
LEMMA IndexedValueExact ==
    ASSUME NEW ix \in LinearIndices, NEW t \in Times, HistoryOK(ix, t),
           NEW h \in Holders, ix.userUpdateTime[h] = t, NEW value \in Nat
    PROVE  GetIndexedValue(ix, t, value, h) = value
<1>1. GetIndex(ix, t) \in Nat /\ GetIndex(ix, t) >= ix.index /\ ix.index >= BASE_RATE
  BY IndexBounds DEF HistoryOK
<1>2. ix.index \in Nat /\ GetIndex(ix, t) \in Nat \ {0}
  BY <1>1, ScaleNat DEF LinearIndices, BASE_RATE
<1>3. PrevUserIndex(ix, t, h) = GetIndex(ix, t)
  BY DEF PrevUserIndex, HistoryOK
<1>. QED BY <1>2, <1>3, DivExact DEF GetIndexedValue

LEMMA TimePasses ==
    ASSUME NEW ix \in LinearIndices, NEW s \in Times, NEW t \in Times, s < t,
           HistoryOK(ix, s)
    PROVE  HistoryOK(ix, t)
<1>1. GetIndex(ix, s) <= GetIndex(ix, t)  BY IndexMonotone DEF Times
<1>2. GetIndex(ix, s) \in Nat /\ GetIndex(ix, t) \in Nat  BY IndexBounds
<1>3. ASSUME NEW h \in Holders, ix.userUpdateTime[h] # 0
      PROVE  ix.userUpdateTime[h] \in Times /\ ix.prevIndex[ix.userUpdateTime[h]] \in Nat
  BY <1>3 DEF LinearIndices
<1>. QED BY <1>1, <1>2, <1>3 DEF HistoryOK, Times, LinearIndices

LEMMA UpdateUserOK ==
    ASSUME NEW ix \in LinearIndices, NEW t \in Times, HistoryOK(ix, t),
           NEW u \in Holders
    PROVE  /\ UpdateUser(ix, t, u) \in LinearIndices
           /\ HistoryOK(UpdateUser(ix, t, u), t)
           /\ GetIndex(UpdateUser(ix, t, u), t) = GetIndex(ix, t)
           /\ UpdateUser(ix, t, u).userUpdateTime[u] = t
<1>. DEFINE new == UpdateUser(ix, t, u)
<1>1. GetIndex(ix, t) \in Nat /\ GetIndex(ix, t) >= ix.index
  BY IndexBounds
<1>2. new \in LinearIndices
  BY <1>1 DEF UpdateUser, LinearIndices
<1>3. /\ new.index = ix.index
      /\ new.indexUpdateTime = ix.indexUpdateTime
      /\ new.rate = ix.rate
      /\ new.userUpdateTime = [ix.userUpdateTime EXCEPT ![u] = t]
      /\ new.prevIndex = [ix.prevIndex EXCEPT ![t] = GetIndex(ix, t)]
  BY DEF UpdateUser, LinearIndices
<1>4. GetIndex(new, t) = GetIndex(ix, t)
  BY <1>3 DEF GetIndex, LinearFactor
<1>5. HistoryOK(new, t)
  <2>1. new.indexUpdateTime <= t /\ new.index >= BASE_RATE
    BY <1>3 DEF HistoryOK
  <2>2. ASSUME NEW h \in Holders, new.userUpdateTime[h] # 0
        PROVE  LET s == new.userUpdateTime[h]
               IN /\ s <= t
                  /\ new.prevIndex[s] >= BASE_RATE
                  /\ new.prevIndex[s] <= GetIndex(new, t)
                  /\ s = t => new.prevIndex[s] = GetIndex(new, t)
                  /\ s = new.indexUpdateTime => new.prevIndex[s] = new.index
    <3>. DEFINE s == new.userUpdateTime[h]
    <3>1. s \in Times  BY <1>2, <2>2 DEF LinearIndices
    <3>2. CASE s = t
      <4>1. new.prevIndex[s] = GetIndex(ix, t)
        BY <1>3, <3>2 DEF LinearIndices
      <4>2. GetIndex(ix, t) >= BASE_RATE
        BY <1>1, ScaleNat DEF HistoryOK, BASE_RATE, LinearIndices
      <4>3. t = ix.indexUpdateTime => GetIndex(ix, t) = ix.index
        BY DEF GetIndex, Times
      <4>. QED BY <1>1, <1>3, <1>4, <3>2, <4>1, <4>2, <4>3 DEF Times
    <3>3. CASE s # t
      <4>1. s = ix.userUpdateTime[h] /\ new.prevIndex[s] = ix.prevIndex[s]
        BY <1>3, <3>1, <3>3 DEF LinearIndices
      <4>. QED BY <1>3, <1>4, <2>2, <3>3, <4>1 DEF HistoryOK
    <3>. QED BY <3>2, <3>3
  <2>. QED BY <2>1, <2>2 DEF HistoryOK
<1>6. new.userUpdateTime[u] = t  BY <1>3 DEF LinearIndices
<1>. QED BY <1>2, <1>4, <1>5, <1>6

LEMMA SetRateOK ==
    ASSUME NEW ix \in LinearIndices, NEW t \in Times, HistoryOK(ix, t),
           NEW rate \in Nat
    PROVE  /\ SetRate(ix, t, rate) \in LinearIndices
           /\ HistoryOK(SetRate(ix, t, rate), t)
           /\ GetIndex(SetRate(ix, t, rate), t) = GetIndex(ix, t)
           /\ SetRate(ix, t, rate).userUpdateTime = ix.userUpdateTime
<1>. DEFINE new == SetRate(ix, t, rate)
<1>1. /\ GetIndex(ix, t) \in Nat /\ GetIndex(ix, t) >= ix.index
      /\ ix.index \in Nat /\ ix.indexUpdateTime \in Times /\ t \in Nat
  BY IndexBounds DEF LinearIndices, Times
<1>2. new \in LinearIndices
  BY <1>1 DEF SetRate, UpdateIndex, LinearIndices
<1>3. /\ new.index = GetIndex(ix, t)
      /\ new.indexUpdateTime = t
      /\ new.userUpdateTime = ix.userUpdateTime
      /\ new.prevIndex = [ix.prevIndex EXCEPT ![ix.indexUpdateTime] = ix.index]
  BY DEF SetRate, UpdateIndex, LinearIndices
<1>4. GetIndex(new, t) = GetIndex(ix, t)
  BY <1>1, <1>3 DEF GetIndex
<1>5. HistoryOK(new, t)
  <2>1. new.indexUpdateTime <= t /\ new.index >= BASE_RATE
    BY <1>1, <1>3, ScaleNat DEF HistoryOK, BASE_RATE
  <2>2. ASSUME NEW h \in Holders, new.userUpdateTime[h] # 0
        PROVE  LET s == new.userUpdateTime[h]
               IN /\ s <= t
                  /\ new.prevIndex[s] >= BASE_RATE
                  /\ new.prevIndex[s] <= GetIndex(new, t)
                  /\ s = t => new.prevIndex[s] = GetIndex(new, t)
                  /\ s = new.indexUpdateTime => new.prevIndex[s] = new.index
    <3>. DEFINE s == ix.userUpdateTime[h]
    <3>1. s \in Times /\ s # 0  BY <1>3, <2>2 DEF LinearIndices
    <3>2. CASE s = ix.indexUpdateTime
      <4>1. new.prevIndex[s] = ix.index  BY <1>3, <3>1, <3>2 DEF LinearIndices
      <4>2. s = t => GetIndex(ix, t) = ix.index
        BY <1>1, <3>2 DEF GetIndex
      <4>. QED BY <1>1, <1>3, <1>4, <3>1, <3>2, <4>1, <4>2 DEF HistoryOK
    <3>3. CASE s # ix.indexUpdateTime
      <4>1. new.prevIndex[s] = ix.prevIndex[s]
        BY <1>3, <3>1, <3>3 DEF LinearIndices
      <4>. QED BY <1>3, <1>4, <3>1, <4>1 DEF HistoryOK
    <3>. QED BY <1>3, <3>2, <3>3
  <2>. QED BY <2>1, <2>2 DEF HistoryOK
<1>. QED BY <1>2, <1>3, <1>4, <1>5

LEMMA NewIndexOK ==
    ASSUME NEW t \in Times
    PROVE  NewIndex(t) \in LinearIndices /\ HistoryOK(NewIndex(t), t)
<1>1. NewIndex(t) \in LinearIndices
  BY ScaleNat DEF NewIndex, LinearIndices, BASE_RATE
<1>2. HistoryOK(NewIndex(t), t)
  BY ScaleNat DEF NewIndex, HistoryOK, BASE_RATE, Times
<1>. QED BY <1>1, <1>2

-----------------------------------------------------------------------------
(* The rewarder *)

LEMMA RewardPerTokenBounds ==
    ASSUME NEW rw \in Rewarders, NEW t \in Times, RewardsNeverNegative(rw, t)
    PROVE  /\ RewardPerToken(rw, t) \in Nat
           /\ RewardPerToken(rw, t) >= rw.rewardPerTokenStored
           /\ LastTimeRewardApplicable(rw, t) \in Nat
<1>1. /\ rw.finishAt \in Nat /\ rw.updatedAt \in Nat /\ t \in Nat
      /\ rw.rewardRate \in Nat /\ rw.totalSupply \in Nat
      /\ rw.rewardPerTokenStored \in Nat
  BY DEF Rewarders, Times
<1>2. LastTimeRewardApplicable(rw, t) \in Nat
  BY <1>1 DEF LastTimeRewardApplicable, Least
<1>3. LastTimeRewardApplicable(rw, t) - rw.updatedAt \in Nat
  BY <1>1, <1>2 DEF RewardsNeverNegative
<1>4. rw.rewardRate * (LastTimeRewardApplicable(rw, t) - rw.updatedAt) * WAD \in Nat
  BY <1>1, <1>3, ScaleNat, MulNat
<1>5. rw.totalSupply # 0 =>
        (rw.rewardRate * (LastTimeRewardApplicable(rw, t) - rw.updatedAt) * WAD)
            \div rw.totalSupply \in Nat
  BY <1>1, <1>4, DivNat
<1>. QED BY <1>1, <1>2, <1>5 DEF RewardPerToken

LEMMA EarnedNat ==
    ASSUME NEW rw \in Rewarders, NEW t \in Times, RewardsNeverNegative(rw, t),
           NEW a \in Accounts
    PROVE  Earned(rw, t, a) \in Nat
<1>1. /\ rw.balanceOf[a] \in Nat /\ rw.rewards[a] \in Nat
      /\ rw.userRewardPerTokenPaid[a] \in Nat
  BY DEF Rewarders
<1>2. RewardPerToken(rw, t) - rw.userRewardPerTokenPaid[a] \in Nat
  BY <1>1, RewardPerTokenBounds DEF RewardsNeverNegative
<1>3. rw.balanceOf[a] * (RewardPerToken(rw, t) - rw.userRewardPerTokenPaid[a]) \in Nat
  BY <1>1, <1>2, MulNat
<1>4. (rw.balanceOf[a] * (RewardPerToken(rw, t) - rw.userRewardPerTokenPaid[a]))
          \div WAD \in Nat
  BY <1>3, ScaleNat, DivNat
<1>. QED BY <1>1, <1>4 DEF Earned

\* A rewarder whose update is stored in the block t.
UpdatedAt(rw, t) ==
    /\ rw.updatedAt = LastTimeRewardApplicable(rw, t)
    /\ \A a \in Accounts : rw.userRewardPerTokenPaid[a] <= rw.rewardPerTokenStored

LEMMA UpdatedIsSound ==
    ASSUME NEW rw \in Rewarders, NEW t \in Times, UpdatedAt(rw, t)
    PROVE  RewardsNeverNegative(rw, t)
<1>1. /\ rw.updatedAt \in Nat /\ rw.rewardRate \in Nat /\ rw.totalSupply \in Nat
      /\ rw.rewardPerTokenStored \in Nat
      /\ \A a \in Accounts : rw.userRewardPerTokenPaid[a] \in Nat
  BY DEF Rewarders
<1>2. rw.updatedAt <= LastTimeRewardApplicable(rw, t)  BY <1>1 DEF UpdatedAt
<1>3. LastTimeRewardApplicable(rw, t) - rw.updatedAt \in Nat
  BY <1>1, <1>2 DEF UpdatedAt
<1>4. rw.rewardRate * (LastTimeRewardApplicable(rw, t) - rw.updatedAt) * WAD \in Nat
  BY <1>1, <1>3, ScaleNat, MulNat
<1>5. RewardPerToken(rw, t) \in Nat /\ RewardPerToken(rw, t) >= rw.rewardPerTokenStored
  BY <1>1, <1>4, DivNat DEF RewardPerToken
<1>. QED BY <1>1, <1>2, <1>5 DEF UpdatedAt, RewardsNeverNegative

LEMMA UpdateRewardOK ==
    ASSUME NEW rw \in Rewarders, NEW t \in Times, RewardsNeverNegative(rw, t),
           NEW accounts \in SUBSET Accounts
    PROVE  /\ UpdateReward(rw, t, accounts) \in Rewarders
           /\ UpdatedAt(UpdateReward(rw, t, accounts), t)
           /\ UpdateReward(rw, t, accounts).balanceOf = rw.balanceOf
           /\ UpdateReward(rw, t, accounts).totalSupply = rw.totalSupply
<1>. DEFINE new == UpdateReward(rw, t, accounts)
<1>1. /\ RewardPerToken(rw, t) \in Nat
      /\ LastTimeRewardApplicable(rw, t) \in Nat
      /\ \A a \in Accounts : Earned(rw, t, a) \in Nat
  BY RewardPerTokenBounds, EarnedNat
<1>2. /\ new.rewardPerTokenStored = RewardPerToken(rw, t)
      /\ new.updatedAt = LastTimeRewardApplicable(rw, t)
      /\ new.rewards = [a \in Accounts |->
              IF a \in accounts THEN Earned(rw, t, a) ELSE rw.rewards[a]]
      /\ new.userRewardPerTokenPaid = [a \in Accounts |->
              IF a \in accounts THEN RewardPerToken(rw, t)
                                ELSE rw.userRewardPerTokenPaid[a]]
      /\ new.balanceOf = rw.balanceOf
      /\ new.totalSupply = rw.totalSupply
      /\ new.finishAt = rw.finishAt
  BY DEF UpdateReward, Rewarders
<1>3. new \in Rewarders
  BY <1>1 DEF UpdateReward, Rewarders
<1>4. UpdatedAt(new, t)
  BY <1>1, <1>2 DEF UpdatedAt, LastTimeRewardApplicable, RewardsNeverNegative
<1>. QED BY <1>2, <1>3, <1>4

\* Stakes may change once the update is stored.
LEMMA RestakedOK ==
    ASSUME NEW rw \in Rewarders, NEW t \in Times, UpdatedAt(rw, t),
           NEW a \in Accounts, NEW stake \in Nat, NEW total \in Nat
    PROVE  /\ Restaked(rw, a, stake, total) \in Rewarders
           /\ RewardsNeverNegative(Restaked(rw, a, stake, total), t)
<1>. DEFINE new == Restaked(rw, a, stake, total)
<1>1. [rw.balanceOf EXCEPT ![a] = stake] \in [Accounts -> Nat]
  BY DEF Rewarders
<1>2. new \in Rewarders  BY <1>1 DEF Restaked, Rewarders
<1>3. UpdatedAt(new, t)
  BY DEF Restaked, Rewarders, UpdatedAt, LastTimeRewardApplicable
<1>. QED BY <1>2, <1>3, UpdatedIsSound

LEMMA StakeForOK ==
    ASSUME NEW rw \in Rewarders, NEW t \in Times, RewardsNeverNegative(rw, t),
           NEW amount \in Nat, NEW a \in Accounts
    PROVE  /\ StakeFor(rw, t, amount, a) \in Rewarders
           /\ RewardsNeverNegative(StakeFor(rw, t, amount, a), t)
<1>1. /\ UpdateReward(rw, t, {a}) \in Rewarders
      /\ UpdatedAt(UpdateReward(rw, t, {a}), t)
  BY UpdateRewardOK
<1>2. rw.balanceOf[a] + amount \in Nat /\ rw.totalSupply + amount \in Nat
  BY DEF Rewarders
<1>. QED BY <1>1, <1>2, RestakedOK DEF StakeFor

LEMMA WithdrawForOK ==
    ASSUME NEW rw \in Rewarders, NEW t \in Times, RewardsNeverNegative(rw, t),
           NEW amount \in Nat, NEW a \in Accounts, CanWithdrawFor(rw, amount, a)
    PROVE  /\ WithdrawFor(rw, t, amount, a) \in Rewarders
           /\ RewardsNeverNegative(WithdrawFor(rw, t, amount, a), t)
           /\ Unstaked(rw, amount, a) \in Nat
<1>. DEFINE out == Unstaked(rw, amount, a)
<1>1. /\ UpdateReward(rw, t, {a}) \in Rewarders
      /\ UpdatedAt(UpdateReward(rw, t, {a}), t)
  BY UpdateRewardOK
<1>2. out \in Nat /\ rw.balanceOf[a] - out \in Nat /\ rw.totalSupply - out \in Nat
  BY DEF Unstaked, Least, CanWithdrawFor, Rewarders
<1>. QED BY <1>1, <1>2, RestakedOK DEF WithdrawFor

-----------------------------------------------------------------------------
(* The book *)

LEMMA AccumulatedNat ==
    ASSUME NEW ix \in LinearIndices, now \in Times, HistoryOK(ix, now),
           NEW principal \in [Holders -> Nat], NEW u \in Holders
    PROVE  Accumulated(principal, ix, u) \in [Holders -> Nat]
<1>1. \A h \in Holders : GetIndexedValue(ix, now, principal[h], h) \in Nat
  BY IndexedValueBounds
<1>. QED BY <1>1 DEF Accumulated

LEMMA TouchedOK ==
    ASSUME NEW ix \in LinearIndices, now \in Times, HistoryOK(ix, now),
           NEW u \in Holders
    PROVE  Touched(ix, u) \in LinearIndices /\ HistoryOK(Touched(ix, u), now)
<1>1. PoolAddr \in Holders  BY DEF Holders
<1>2. UpdateUser(ix, now, u) \in LinearIndices /\ HistoryOK(UpdateUser(ix, now, u), now)
  BY UpdateUserOK
<1>. QED BY <1>1, <1>2, UpdateUserOK DEF Touched

\* Both indices are sound in the block t.
BookOK(dIx, bIx, t) ==
    /\ dIx \in LinearIndices /\ HistoryOK(dIx, t)
    /\ bIx \in LinearIndices /\ HistoryOK(bIx, t)

LEMMA NewRatesOK ==
    ASSUME NEW dep \in [Holders -> Nat], NEW bor \in [Holders -> Nat],
           NEW dIx \in LinearIndices, NEW bIx \in LinearIndices,
           now \in Times, HistoryOK(dIx, now), HistoryOK(bIx, now),
           spread \in 0..(WAD - 1), NewRates(dep, bor, dIx, bIx)
    PROVE  BookOK(depositIndex', borrowIndex', now)
<1>. DEFINE loans == GetIndexedValue(bIx, now, bor[PoolAddr], PoolAddr)
            deposits == GetIndexedValue(dIx, now, dep[PoolAddr], PoolAddr)
<1>1. PoolAddr \in Holders /\ dep[PoolAddr] \in Nat /\ bor[PoolAddr] \in Nat
  BY DEF Holders
<1>2. loans \in Nat /\ deposits \in Nat  BY <1>1, IndexedValueBounds
<1>3. /\ DepositRate(loans, deposits, spread) \in Nat
      /\ BorrowingRate(loans, deposits) \in Nat
  BY <1>2, DepositRateNat, BorrowingRateNat
<1>. QED BY <1>3, SetRateOK DEF NewRates, BookOK

LEMMA PayOK ==
    ASSUME token \in [Holders -> Nat], NEW p \in Holders, NEW q \in Holders,
           NEW amount \in Nat, Pay(p, q, amount)
    PROVE  token' \in [Holders -> Nat]
BY DEF Pay

\* Rewards stay sound while time passes.
LEMMA RewardsLater ==
    ASSUME NEW rw \in Rewarders, NEW s \in Times, NEW t \in Times, s < t,
           RewardsNeverNegative(rw, s)
    PROVE  RewardsNeverNegative(rw, t)
<1>. DEFINE p == LastTimeRewardApplicable(rw, s) - rw.updatedAt
            q == LastTimeRewardApplicable(rw, t) - rw.updatedAt
<1>1. /\ rw.finishAt \in Nat /\ rw.updatedAt \in Nat /\ rw.rewardRate \in Nat
      /\ rw.totalSupply \in Nat /\ rw.rewardPerTokenStored \in Nat
      /\ \A a \in Accounts : rw.userRewardPerTokenPaid[a] \in Nat
      /\ s \in Nat /\ t \in Nat
  BY DEF Rewarders, Times
<1>2. p \in Nat /\ q \in Nat /\ p <= q
  BY <1>1 DEF RewardsNeverNegative, LastTimeRewardApplicable, Least
<1>3. rw.rewardRate * p \in Nat /\ rw.rewardRate * q \in Nat
      /\ rw.rewardRate * p <= rw.rewardRate * q
  BY <1>1, <1>2, MulNat, MulMonotone
<1>4. /\ (rw.rewardRate * p) * WAD \in Nat
      /\ (rw.rewardRate * q) * WAD \in Nat
      /\ (rw.rewardRate * p) * WAD <= (rw.rewardRate * q) * WAD
  BY <1>3, ScaleNat, MulNat, SMT
<1>5. rw.totalSupply # 0 =>
        /\ ((rw.rewardRate * p) * WAD) \div rw.totalSupply
              <= ((rw.rewardRate * q) * WAD) \div rw.totalSupply
        /\ ((rw.rewardRate * p) * WAD) \div rw.totalSupply \in Nat
        /\ ((rw.rewardRate * q) * WAD) \div rw.totalSupply \in Nat
  BY <1>1, <1>4, DivMonotone, DivNat
<1>6. /\ RewardPerToken(rw, s) \in Nat /\ RewardPerToken(rw, t) \in Nat
      /\ RewardPerToken(rw, s) <= RewardPerToken(rw, t)
  BY <1>1, <1>5 DEF RewardPerToken
<1>. QED BY <1>1, <1>2, <1>6 DEF RewardsNeverNegative, LastTimeRewardApplicable, Least

-----------------------------------------------------------------------------
(* The inductive invariant.  TypeOK alone is not inductive: the principals *)
(* stay natural numbers only because no index entry is zero, and the       *)
(* entries stay non-zero only because the times recorded for the holders   *)
(* have entries.                                                           *)

IInv == TypeOK /\ IndexHistory /\ RewardsNeverNegative(rewarder, now)

LEMMA InitIInv == ASSUME PoolAssumption, Init PROVE IInv
<1>1. now \in Times  BY PoolBaseAssumption DEF Init, Times
<1>2. spread \in 0..(WAD - 1)  BY PoolAssumption DEF Init
<1>3. DepositRate(0, 0, spread) \in Nat /\ BorrowingRate(0, 0) \in Nat
  BY <1>2, DepositRateNat, BorrowingRateNat
<1>4. BookOK(depositIndex, borrowIndex, now)
  BY <1>1, <1>3, NewIndexOK, SetRateOK DEF Init, BookOK
<1>5. rewarder \in Rewarders  BY DEF Init, NewRewarder, Rewarders
<1>6. UpdatedAt(rewarder, now)
  BY DEF Init, NewRewarder, UpdatedAt, LastTimeRewardApplicable, Least
<1>7. RewardsNeverNegative(rewarder, now)  BY <1>1, <1>5, <1>6, UpdatedIsSound
<1>8. /\ token \in [Holders -> Nat]
      /\ deposited \in [Holders -> Nat] /\ borrowed \in [Holders -> Nat]
  BY PoolAssumption DEF Init, Holders
<1>9. /\ locks \in [Accounts -> Seq(Locks)]
      /\ allowed \in [Accounts -> [Accounts -> Nat]]
  BY DEF Init
<1>10. /\ hasRewarder \in BOOLEAN /\ hasCalculator \in BOOLEAN
       /\ totalSupplyCap \in Nat /\ canBorrow \subseteq PrimeAccounts
  BY PoolAssumption DEF Init
<1>. QED BY <1>1, <1>2, <1>4, <1>5, <1>7, <1>8, <1>9, <1>10
         DEF IInv, TypeOK, IndexHistory, BookOK

LEMMA TickKeeps == ASSUME IInv, Tick PROVE IInv'
<1>1. now \in Times /\ now' \in Times /\ now < now'
  BY PoolBaseAssumption DEF IInv, TypeOK, Tick, Times
<1>2. HistoryOK(depositIndex, now') /\ HistoryOK(borrowIndex, now')
  BY <1>1, TimePasses DEF IInv, TypeOK, IndexHistory
<1>3. RewardsNeverNegative(rewarder, now')
  BY <1>1, RewardsLater DEF IInv, TypeOK
<1>. QED BY <1>1, <1>2, <1>3 DEF IInv, TypeOK, IndexHistory, Tick, book, config

\* A step within a block that leaves the rest of the state well typed keeps the
\* invariant when it leaves the indices and the rewarder sound.
LEMMA SameBlock ==
    ASSUME IInv, now' = now,
           token' \in [Holders -> Nat], deposited' \in [Holders -> Nat],
           borrowed' \in [Holders -> Nat],
           BookOK(depositIndex', borrowIndex', now),
           rewarder' \in Rewarders, RewardsNeverNegative(rewarder', now),
           UNCHANGED <<locks, allowed, config>>
    PROVE  IInv'
BY DEF IInv, TypeOK, IndexHistory, BookOK, config

LEMMA CreditedNat ==
    ASSUME NEW p \in [Holders -> Nat], NEW h \in Holders, NEW amount \in Nat
    PROVE  Credited(p, h, amount) \in [Holders -> Nat]
BY DEF Credited

LEMMA DebitedNat ==
    ASSUME NEW p \in [Holders -> Nat], NEW h \in Holders, NEW amount \in Nat,
           amount <= p[h]
    PROVE  Debited(p, h, amount) \in [Holders -> Nat]
BY DEF Debited

LEMMA TakeDepositKeeps ==
    ASSUME IInv, NEW u \in Depositors, NEW of \in Depositors, NEW amount \in Nat,
           TakeDeposit(u, of, amount)
    PROVE  IInv'
<1>. DEFINE before == Accumulated(deposited, depositIndex, of)
<1>1. /\ u \in Holders /\ of \in Holders /\ PoolAddr \in Holders
      /\ of \in Accounts /\ now \in Times
  BY DEF Holders, Accounts, IInv, TypeOK
<1>2. before \in [Holders -> Nat]
  BY <1>1, AccumulatedNat DEF IInv, TypeOK, IndexHistory
<1>3. deposited' \in [Holders -> Nat]
  BY <1>1, <1>2, CreditedNat DEF TakeDeposit
<1>4. token' \in [Holders -> Nat]
  BY <1>1, PayOK DEF IInv, TypeOK, TakeDeposit
<1>5. Touched(depositIndex, of) \in LinearIndices
      /\ HistoryOK(Touched(depositIndex, of), now)
  BY <1>1, TouchedOK DEF IInv, TypeOK, IndexHistory
<1>6. BookOK(depositIndex', borrowIndex', now)
  BY <1>1, <1>3, <1>5, NewRatesOK
     DEF IInv, TypeOK, IndexHistory, TakeDeposit, UpdateRates
<1>7. rewarder' \in Rewarders /\ RewardsNeverNegative(rewarder', now)
  BY <1>1, StakeForOK DEF IInv, TypeOK, TakeDeposit
<1>. QED BY <1>3, <1>4, <1>6, <1>7, SameBlock DEF TakeDeposit, IInv, TypeOK

LEMMA DepositKeeps ==
    ASSUME IInv, NEW u \in Depositors, NEW of \in Depositors, NEW requested \in Nat,
           DepositOnBehalf(u, of, requested)
    PROVE  IInv'
<1>1. Least(requested, token[u]) \in Nat
  BY DEF Least, IInv, TypeOK, Holders, Accounts
<1>. QED BY <1>1, TakeDepositKeeps DEF DepositOnBehalf

LEMMA PayOutKeeps ==
    ASSUME IInv, NEW u \in Depositors, NEW amount \in Nat, PayOut(u, amount)
    PROVE  IInv'
<1>. DEFINE before == Accumulated(deposited, depositIndex, u)
            first == Debited(before, PoolAddr, amount)
<1>1. /\ u \in Holders /\ PoolAddr \in Holders /\ u # PoolAddr
      /\ u \in Accounts /\ now \in Times
  BY PoolBaseAssumption DEF Holders, Accounts, IInv, TypeOK
<1>2. before \in [Holders -> Nat]
  BY <1>1, AccumulatedNat DEF IInv, TypeOK, IndexHistory
<1>3. amount <= before[u] /\ amount <= before[PoolAddr]  BY DEF PayOut
<1>4. first \in [Holders -> Nat] /\ first[u] = before[u]
  <2>1. first \in [Holders -> Nat]  BY <1>1, <1>2, <1>3, DebitedNat
  <2>2. first[u] = before[u]
    <3>. HIDE DEF before
    <3>. QED BY <1>1, <1>2 DEF Debited
  <2>. QED BY <2>1, <2>2
<1>5. deposited' \in [Holders -> Nat]
  BY <1>1, <1>3, <1>4, DebitedNat DEF PayOut
<1>6. token' \in [Holders -> Nat]
  BY <1>1, PayOK DEF IInv, TypeOK, PayOut
<1>7. Touched(depositIndex, u) \in LinearIndices
      /\ HistoryOK(Touched(depositIndex, u), now)
  BY <1>1, TouchedOK DEF IInv, TypeOK, IndexHistory
<1>8. BookOK(depositIndex', borrowIndex', now)
  BY <1>1, <1>5, <1>7, NewRatesOK DEF IInv, TypeOK, IndexHistory, PayOut, UpdateRates
<1>9. rewarder' \in Rewarders /\ RewardsNeverNegative(rewarder', now)
  BY <1>1, WithdrawForOK DEF IInv, TypeOK, PayOut
<1>. QED BY <1>5, <1>6, <1>8, <1>9, SameBlock DEF PayOut, IInv, TypeOK

LEMMA WithdrawKeeps ==
    ASSUME IInv, NEW u \in Depositors, NEW requested \in Nat, Withdraw(u, requested)
    PROVE  IInv'
<1>1. u \in Holders  BY DEF Holders, Accounts
<1>2. BalanceOf(u) \in Nat
  BY <1>1, IndexedValueBounds DEF BalanceOf, IInv, TypeOK, IndexHistory
<1>3. Least(requested, BalanceOf(u)) \in Nat  BY <1>2 DEF Least
<1>. QED BY <1>3, PayOutKeeps DEF Withdraw

LEMMA MoveStakeOK ==
    ASSUME IInv, NEW u \in Accounts, NEW v \in Accounts, NEW amount \in Nat,
           MoveStake(u, v, amount)
    PROVE  rewarder' \in Rewarders /\ RewardsNeverNegative(rewarder', now)
<1>. DEFINE unstaked == Unstaked(rewarder, amount, u)
            withdrawn == WithdrawFor(rewarder, now, amount, u)
<1>1. CASE UNCHANGED rewarder  BY <1>1 DEF IInv, TypeOK
<1>2. CASE /\ CanWithdrawFor(rewarder, amount, u)
           /\ rewarder' = IF unstaked > 0
                          THEN StakeFor(withdrawn, now, unstaked, v)
                          ELSE withdrawn
  <2>1. now \in Times  BY DEF IInv, TypeOK
  <2>2. /\ withdrawn \in Rewarders /\ RewardsNeverNegative(withdrawn, now)
        /\ unstaked \in Nat
    BY <1>2, <2>1, WithdrawForOK DEF IInv, TypeOK
  <2>3. /\ StakeFor(withdrawn, now, unstaked, v) \in Rewarders
        /\ RewardsNeverNegative(StakeFor(withdrawn, now, unstaked, v), now)
    BY <2>1, <2>2, StakeForOK
  <2>. QED BY <1>2, <2>2, <2>3
<1>. QED BY <1>1, <1>2 DEF MoveStake

LEMMA MoveKeeps ==
    ASSUME IInv, NEW u \in Depositors, NEW v \in Depositors, NEW amount \in Nat,
           MoveDeposit(u, v, amount), allowed' \in [Accounts -> [Accounts -> Nat]]
    PROVE  IInv'
<1>. DEFINE before == Accumulated(deposited, depositIndex, u)
            debited == Debited(before, u, amount)
            touched == Touched(depositIndex, u)
<1>1. /\ u \in Holders /\ v \in Holders /\ now \in Times
      /\ u \in Accounts /\ v \in Accounts
  BY DEF Holders, Accounts, IInv, TypeOK
<1>2. before \in [Holders -> Nat]
  BY <1>1, AccumulatedNat DEF IInv, TypeOK, IndexHistory
<1>3. before[u] = BalanceOf(u)  BY <1>1 DEF Accumulated, BalanceOf
<1>4. debited \in [Holders -> Nat]
  BY <1>1, <1>2, <1>3, DebitedNat DEF MoveDeposit, IsWithdrawalAmountAvailable
<1>5. touched \in LinearIndices /\ HistoryOK(touched, now)
  BY <1>1, TouchedOK DEF IInv, TypeOK, IndexHistory
<1>6. deposited' \in [Holders -> Nat]
  BY <1>1, <1>4, <1>5, AccumulatedNat, CreditedNat DEF MoveDeposit
<1>7. BookOK(depositIndex', borrowIndex', now)
  BY <1>1, <1>5, TouchedOK DEF IInv, TypeOK, IndexHistory, MoveDeposit, BookOK
<1>8. rewarder' \in Rewarders /\ RewardsNeverNegative(rewarder', now)
  BY <1>1, MoveStakeOK DEF MoveDeposit
<1>. QED BY <1>6, <1>7, <1>8 DEF MoveDeposit, IInv, TypeOK, IndexHistory, BookOK, config

LEMMA BorrowKeeps ==
    ASSUME IInv, NEW u \in PrimeAccounts, NEW amount \in Nat, Borrow(u, amount)
    PROVE  IInv'
<1>. DEFINE before == Accumulated(borrowed, borrowIndex, u)
<1>1. u \in Holders /\ PoolAddr \in Holders /\ now \in Times
  BY DEF Holders, Accounts, IInv, TypeOK
<1>2. before \in [Holders -> Nat]
  BY <1>1, AccumulatedNat DEF IInv, TypeOK, IndexHistory
<1>3. borrowed' \in [Holders -> Nat]  BY <1>1, <1>2, CreditedNat DEF Borrow
<1>4. token' \in [Holders -> Nat]  BY <1>1, PayOK DEF IInv, TypeOK, Borrow
<1>5. Touched(borrowIndex, u) \in LinearIndices /\ HistoryOK(Touched(borrowIndex, u), now)
  BY <1>1, TouchedOK DEF IInv, TypeOK, IndexHistory
<1>6. BookOK(depositIndex', borrowIndex', now)
  BY <1>1, <1>3, <1>5, NewRatesOK DEF IInv, TypeOK, IndexHistory, Borrow, UpdateRates
<1>. QED BY <1>3, <1>4, <1>6, SameBlock DEF Borrow, IInv, TypeOK

LEMMA RepayKeeps ==
    ASSUME IInv, NEW u \in PrimeAccounts, NEW amount \in Nat, Repay(u, amount)
    PROVE  IInv'
<1>. DEFINE before == Accumulated(borrowed, borrowIndex, u)
<1>1. /\ u \in Holders /\ PoolAddr \in Holders /\ u # PoolAddr /\ now \in Times
  BY PoolBaseAssumption DEF Holders, Accounts, IInv, TypeOK
<1>2. before \in [Holders -> Nat]
  BY <1>1, AccumulatedNat DEF IInv, TypeOK, IndexHistory
<1>3. borrowed' \in [Holders -> Nat]
  <2>. DEFINE first == Debited(before, u, amount)
  <2>1. amount <= before[u] /\ amount <= before[PoolAddr]  BY DEF Repay
  <2>2. first \in [Holders -> Nat]  BY <1>1, <1>2, <2>1, DebitedNat
  <2>3. first[PoolAddr] = before[PoolAddr]
    <3>. HIDE DEF before
    <3>. QED BY <1>1, <1>2 DEF Debited
  <2>. QED BY <1>1, <2>1, <2>2, <2>3, DebitedNat DEF Repay
<1>4. token' \in [Holders -> Nat]  BY <1>1, PayOK DEF IInv, TypeOK, Repay
<1>5. Touched(borrowIndex, u) \in LinearIndices /\ HistoryOK(Touched(borrowIndex, u), now)
  BY <1>1, TouchedOK DEF IInv, TypeOK, IndexHistory
<1>6. BookOK(depositIndex', borrowIndex', now)
  BY <1>1, <1>3, <1>5, NewRatesOK DEF IInv, TypeOK, IndexHistory, Repay, UpdateRates
<1>. QED BY <1>3, <1>4, <1>6, SameBlock DEF Repay, IInv, TypeOK

LEMMA LockKeeps ==
    ASSUME IInv, NEW u \in Depositors, NEW amount \in Nat, NEW lockTime \in Nat,
           LockDeposit(u, amount, lockTime)
    PROVE  IInv'
<1>1. now + lockTime \in Nat  BY DEF IInv, TypeOK, Times
<1>2. [lockTime |-> lockTime, amount |-> amount, unlockTime |-> now + lockTime] \in Locks
  BY <1>1 DEF Locks
<1>3. locks' \in [Accounts -> Seq(Locks)]
  BY <1>2 DEF IInv, TypeOK, LockDeposit, Accounts
<1>. QED BY <1>3 DEF IInv, TypeOK, IndexHistory, LockDeposit, book, config

LEMMA AllowanceKeeps ==
    ASSUME IInv, NEW u \in Depositors, NEW s \in Depositors, NEW value,
           SetAllowance(u, s, value)
    PROVE  IInv'
<1>1. value \in Nat  BY PoolAssumption DEF SetAllowance
<1>2. allowed' \in [Accounts -> [Accounts -> Nat]]
  BY <1>1 DEF IInv, TypeOK, SetAllowance, Accounts
<1>. QED BY <1>2 DEF IInv, TypeOK, IndexHistory, SetAllowance, book, config

LEMMA RecoverKeeps ==
    ASSUME IInv, NEW u \in Depositors, NEW amount \in Nat, RecoverSurplus(amount, u)
    PROVE  IInv'
<1>1. u \in Holders /\ PoolAddr \in Holders  BY DEF Holders, Accounts
<1>2. token' \in [Holders -> Nat]
  BY <1>1, PayOK DEF IInv, TypeOK, RecoverSurplus
<1>. QED BY <1>2 DEF IInv, TypeOK, IndexHistory, RecoverSurplus, book, config

LEMMA CalculatorKeeps ==
    ASSUME IInv, NEW present \in BOOLEAN, SetRatesCalculator(present)
    PROVE  IInv'
<1>1. BookOK(depositIndex', borrowIndex', now)
  <2>1. CASE present
    BY <2>1, NewRatesOK DEF SetRatesCalculator, IInv, TypeOK, IndexHistory
  <2>2. CASE ~present
    BY <2>2 DEF SetRatesCalculator, IInv, TypeOK, IndexHistory, BookOK
  <2>. QED BY <2>1, <2>2
<1>. QED BY <1>1 DEF IInv, TypeOK, IndexHistory, BookOK, SetRatesCalculator

LEMMA SettingsKeep ==
    ASSUME IInv,
           \/ \E present \in RewarderSettings : SetPoolRewarder(present)
           \/ \E cap \in Caps : SetTotalSupplyCap(cap)
           \/ \E accounts \in Registries : SetBorrowersRegistry(accounts)
           \/ \E value \in Spreads : SetSpread(value)
    PROVE  IInv'
<1>1. UNCHANGED <<now, token, book, locks, allowed, rewarder, hasCalculator>>
  BY DEF SetPoolRewarder, SetTotalSupplyCap, SetBorrowersRegistry, SetSpread
<1>2. /\ hasRewarder' \in BOOLEAN /\ spread' \in 0..(WAD - 1)
      /\ totalSupplyCap' \in Nat /\ canBorrow' \subseteq PrimeAccounts
  BY PoolAssumption DEF IInv, TypeOK, SetPoolRewarder, SetTotalSupplyCap,
                        SetBorrowersRegistry, SetSpread
<1>. QED BY <1>1, <1>2 DEF IInv, TypeOK, IndexHistory, book

-----------------------------------------------------------------------------
(* Theorems *)

LEMMA NextKeepsIInv == IInv /\ [Next]_vars => IInv'
<1>. SUFFICES ASSUME IInv, [Next]_vars PROVE IInv'  OBVIOUS
<1>1. CASE Tick  BY <1>1, TickKeeps
<1>2. CASE DepositorStep
  <2>1. PICK u \in Depositors :
           \/ \E of \in Depositors, amount \in Amounts.deposit :
                  DepositOnBehalf(u, of, amount)
           \/ \E amount \in Amounts.withdraw : Withdraw(u, amount)
           \/ \E v \in Depositors, amount \in Amounts.transfer : Transfer(u, v, amount)
           \/ \E s, v \in Depositors, amount \in Amounts.transfer :
                  TransferFrom(s, u, v, amount)
           \/ \E amount \in Amounts.lock, lockTime \in LockTimes :
                  LockDeposit(u, amount, lockTime)
    BY <1>2 DEF DepositorStep
  <2>2. ASSUME NEW of \in Depositors, NEW amount \in Amounts.deposit,
               DepositOnBehalf(u, of, amount)
        PROVE  IInv'
    <3>1. amount \in Nat  BY PoolAssumption
    <3>. QED BY <2>2, <3>1, DepositKeeps
  <2>3. ASSUME NEW amount \in Amounts.withdraw, Withdraw(u, amount)
        PROVE  IInv'
    <3>1. amount \in Nat  BY PoolAssumption
    <3>. QED BY <2>3, <3>1, WithdrawKeeps
  <2>4. ASSUME NEW v \in Depositors, NEW amount \in Amounts.transfer,
               Transfer(u, v, amount)
        PROVE  IInv'
    <3>1. amount \in Nat  BY PoolAssumption
    <3>2. allowed' \in [Accounts -> [Accounts -> Nat]]
      BY <2>4 DEF Transfer, IInv, TypeOK
    <3>. QED BY <2>4, <3>1, <3>2, MoveKeeps DEF Transfer
  <2>5. ASSUME NEW s \in Depositors, NEW v \in Depositors,
               NEW amount \in Amounts.transfer, TransferFrom(s, u, v, amount)
        PROVE  IInv'
    <3>1. amount \in Nat  BY PoolAssumption
    <3>2. allowed[u][s] - amount \in Nat
      BY <2>5, <3>1 DEF TransferFrom, IInv, TypeOK, Accounts
    <3>3. allowed' \in [Accounts -> [Accounts -> Nat]]
      BY <2>5, <3>2 DEF TransferFrom, IInv, TypeOK, Accounts
    <3>. QED BY <2>5, <3>1, <3>3, MoveKeeps DEF TransferFrom
  <2>6. ASSUME NEW amount \in Amounts.lock, NEW lockTime \in LockTimes,
               LockDeposit(u, amount, lockTime)
        PROVE  IInv'
    <3>1. amount \in Nat /\ lockTime \in Nat  BY PoolAssumption
    <3>. QED BY <2>6, <3>1, LockKeeps
  <2>. QED BY <2>1, <2>2, <2>3, <2>4, <2>5, <2>6
<1>3. CASE AllowanceStep
  BY <1>3, AllowanceKeeps
     DEF AllowanceStep, Approve, IncreaseAllowance, DecreaseAllowance
<1>4. CASE BorrowerStep
  <2>1. Amounts.borrow \subseteq Nat /\ Amounts.repay \subseteq Nat
    BY PoolAssumption
  <2>. QED BY <1>4, <2>1, BorrowKeeps, RepayKeeps DEF BorrowerStep
<1>5. CASE OwnerStep
  <2>1. Amounts.recover \subseteq Nat /\ CalculatorSettings \subseteq BOOLEAN
    BY PoolAssumption
  <2>. QED BY <1>5, <2>1, RecoverKeeps, CalculatorKeeps, SettingsKeep DEF OwnerStep
<1>6. CASE UNCHANGED vars
  BY <1>6 DEF vars, book, config, IInv, TypeOK, IndexHistory
<1>. QED BY <1>1, <1>2, <1>3, <1>4, <1>5, <1>6 DEF Next

LEMMA Invariance == Spec => []IInv
BY PoolAssumption, InitIInv, NextKeepsIInv, PTL DEF Spec

\* Every reachable state of a pool is well typed: in particular no principal,
\* stake or token balance is ever below zero, although every one of them is
\* debited somewhere.
THEOREM TypeCorrect == Spec => []TypeOK
<1>1. IInv => TypeOK  BY DEF IInv
<1>. QED BY <1>1, Invariance, PTL

\* Both histories stay sound through any order of deposits, loans, transfers,
\* rate changes and passing time.
THEOREM IndexHistoryHolds == Spec => []IndexHistory
<1>1. IInv => IndexHistory  BY DEF IInv
<1>. QED BY <1>1, Invariance, PTL

\* The subtraction at Pool.sol:675 never reverts, for any holder.
THEOREM InterestHolds == Spec => []InterestNeverNegative
<1>1. ASSUME IInv PROVE InterestNeverNegative
  BY <1>1, IndexedValueBounds
     DEF IInv, TypeOK, IndexHistory, InterestNeverNegative, BalanceOf, GetBorrowed
<1>. QED BY <1>1, Invariance, PTL

-----------------------------------------------------------------------------
(* Writing the index leaves the values of its block alone *)

LEMMA UpdateUserValues ==
    ASSUME NEW ix \in LinearIndices, NEW t \in Times, HistoryOK(ix, t),
           NEW u \in Holders, NEW h \in Holders, NEW value \in Nat
    PROVE  GetIndexedValue(UpdateUser(ix, t, u), t, value, h)
             = IF h = u THEN value ELSE GetIndexedValue(ix, t, value, h)
<1> DEFINE new == UpdateUser(ix, t, u)
           s == ix.userUpdateTime[h]
<1>1. /\ new \in LinearIndices /\ HistoryOK(new, t)
      /\ GetIndex(new, t) = GetIndex(ix, t) /\ new.userUpdateTime[u] = t
  BY UpdateUserOK
<1>2. /\ new.userUpdateTime = [ix.userUpdateTime EXCEPT ![u] = t]
      /\ new.prevIndex = [ix.prevIndex EXCEPT ![t] = GetIndex(ix, t)]
  BY DEF UpdateUser, LinearIndices
<1> HIDE DEF new
<1>3. CASE h = u
  BY <1>1, <1>3, IndexedValueExact DEF new
<1>4. CASE h # u
  <2>1. new.userUpdateTime[h] = s
    BY <1>2, <1>4 DEF LinearIndices
  <2>2. s # 0 => s \in Times /\ new.prevIndex[s] = ix.prevIndex[s]
    <3>1. s # 0 => s \in Times
      BY DEF LinearIndices
    <3>2. s = t /\ s # 0 => ix.prevIndex[s] = GetIndex(ix, t)
      BY DEF HistoryOK
    <3>. QED BY <1>2, <3>1, <3>2 DEF LinearIndices
  <2>3. PrevUserIndex(new, t, h) = PrevUserIndex(ix, t, h)
    BY <1>1, <2>1, <2>2 DEF PrevUserIndex
  <2>. QED BY <1>1, <1>4, <2>3 DEF GetIndexedValue, new
<1>. QED BY <1>3, <1>4

LEMMA TouchedValues ==
    ASSUME NEW ix \in LinearIndices, now \in Times, HistoryOK(ix, now),
           NEW u \in Holders, NEW h \in Holders, NEW value \in Nat
    PROVE  GetIndexedValue(Touched(ix, u), now, value, h)
             = IF h \in {u, PoolAddr} THEN value ELSE GetIndexedValue(ix, now, value, h)
<1>1. PoolAddr \in Holders
  BY DEF Holders
<1>2. UpdateUser(ix, now, u) \in LinearIndices /\ HistoryOK(UpdateUser(ix, now, u), now)
  BY UpdateUserOK
<1>3. GetIndexedValue(Touched(ix, u), now, value, h)
        = IF h = PoolAddr THEN value
          ELSE GetIndexedValue(UpdateUser(ix, now, u), now, value, h)
  BY <1>1, <1>2, UpdateUserValues DEF Touched
<1>4. GetIndexedValue(UpdateUser(ix, now, u), now, value, h)
        = IF h = u THEN value ELSE GetIndexedValue(ix, now, value, h)
  BY UpdateUserValues
<1>. QED BY <1>3, <1>4

LEMMA SetRateValues ==
    ASSUME NEW ix \in LinearIndices, NEW t \in Times, HistoryOK(ix, t), NEW rate \in Nat,
           NEW h \in Holders, NEW value \in Nat
    PROVE  GetIndexedValue(SetRate(ix, t, rate), t, value, h) = GetIndexedValue(ix, t, value, h)
<1> DEFINE new == SetRate(ix, t, rate)
           s == ix.userUpdateTime[h]
<1>1. GetIndex(new, t) = GetIndex(ix, t) /\ new.userUpdateTime = ix.userUpdateTime
  BY SetRateOK
<1>2. new.prevIndex = [ix.prevIndex EXCEPT ![ix.indexUpdateTime] = ix.index]
  BY DEF SetRate, UpdateIndex, LinearIndices
<1> HIDE DEF new
<1>3. s # 0 => new.prevIndex[s] = ix.prevIndex[s]
  <2>1. s # 0 => s \in Times
    BY DEF LinearIndices
  <2>2. s # 0 /\ s = ix.indexUpdateTime => ix.prevIndex[s] = ix.index
    BY DEF HistoryOK
  <2>. QED BY <1>2, <2>1, <2>2 DEF LinearIndices
<1>4. PrevUserIndex(new, t, h) = PrevUserIndex(ix, t, h)
  BY <1>1, <1>3 DEF PrevUserIndex
<1>. QED BY <1>1, <1>4 DEF GetIndexedValue, new

\* New rates are about the seconds to come.
LEMMA NewRatesValues ==
    ASSUME NEW dep \in [Holders -> Nat], NEW bor \in [Holders -> Nat],
           NEW dIx \in LinearIndices, NEW bIx \in LinearIndices,
           now \in Times, HistoryOK(dIx, now), HistoryOK(bIx, now),
           spread \in 0..(WAD - 1), NewRates(dep, bor, dIx, bIx)
    PROVE  \A h \in Holders, value \in Nat :
              /\ GetIndexedValue(depositIndex', now, value, h) = GetIndexedValue(dIx, now, value, h)
              /\ GetIndexedValue(borrowIndex', now, value, h) = GetIndexedValue(bIx, now, value, h)
<1> DEFINE loans == GetIndexedValue(bIx, now, bor[PoolAddr], PoolAddr)
           deposits == GetIndexedValue(dIx, now, dep[PoolAddr], PoolAddr)
<1>1. PoolAddr \in Holders /\ dep[PoolAddr] \in Nat /\ bor[PoolAddr] \in Nat
  BY DEF Holders
<1>2. loans \in Nat /\ deposits \in Nat
  BY <1>1, IndexedValueBounds
<1>3. /\ DepositRate(loans, deposits, spread) \in Nat
      /\ BorrowingRate(loans, deposits) \in Nat
  BY <1>2, DepositRateNat, BorrowingRateNat
<1>4. /\ depositIndex' = SetRate(dIx, now, DepositRate(loans, deposits, spread))
      /\ borrowIndex' = SetRate(bIx, now, BorrowingRate(loans, deposits))
  BY DEF NewRates
<1>. QED BY <1>3, <1>4, SetRateValues

-----------------------------------------------------------------------------
(* What each entry point does to the values *)

BalancesGrow(holders, n) ==
    \A h \in Holders : BalanceOf(h)' = IF h \in holders THEN BalanceOf(h) + n ELSE BalanceOf(h)

DebtsGrow(holders, n) ==
    \A h \in Holders : GetBorrowed(h)' = IF h \in holders THEN GetBorrowed(h) + n ELSE GetBorrowed(h)

TokensMove(from, to, n) ==
    \A h \in Holders : token'[h] = CASE h = from -> token[h] - n
                                     [] h = to   -> token[h] + n
                                     [] OTHER    -> token[h]

LEMMA PoolHere ==
    ASSUME IInv
    PROVE  /\ now \in Times /\ spread \in 0..(WAD - 1) /\ PoolAddr \in Holders
           /\ token \in [Holders -> Nat]
           /\ deposited \in [Holders -> Nat] /\ borrowed \in [Holders -> Nat]
           /\ depositIndex \in LinearIndices /\ HistoryOK(depositIndex, now)
           /\ borrowIndex \in LinearIndices /\ HistoryOK(borrowIndex, now)
           /\ \A h \in Holders : BalanceOf(h) \in Nat /\ GetBorrowed(h) \in Nat
           /\ \A u \in Accounts : u \in Holders /\ u # PoolAddr
           /\ Depositors \subseteq Accounts /\ PrimeAccounts \subseteq Accounts
<1>1. /\ now \in Times /\ spread \in 0..(WAD - 1)
      /\ token \in [Holders -> Nat]
      /\ deposited \in [Holders -> Nat] /\ borrowed \in [Holders -> Nat]
      /\ depositIndex \in LinearIndices /\ HistoryOK(depositIndex, now)
      /\ borrowIndex \in LinearIndices /\ HistoryOK(borrowIndex, now)
  BY DEF IInv, TypeOK, IndexHistory
<1>2. \A h \in Holders : BalanceOf(h) \in Nat /\ GetBorrowed(h) \in Nat
  BY <1>1, IndexedValueBounds DEF BalanceOf, GetBorrowed
<1>3. /\ PoolAddr \in Holders /\ Depositors \subseteq Accounts /\ PrimeAccounts \subseteq Accounts
      /\ \A u \in Accounts : u \in Holders /\ u # PoolAddr
  BY PoolBaseAssumption DEF Holders, Accounts
<1>. QED BY <1>1, <1>2, <1>3

\* Interest is accumulated, n is added to or taken from the principals of u and of
\* the pool, and the index records both as up to date.
LEMMA GrownValues ==
    ASSUME NEW ix \in LinearIndices, now \in Times, HistoryOK(ix, now),
           NEW principal \in [Holders -> Nat], NEW u \in Accounts, NEW n \in Int,
           NEW grown \in [Holders -> Nat],
           \A h \in Holders :
              grown[h] = IF h \in {u, PoolAddr} THEN Accumulated(principal, ix, u)[h] + n
                                                ELSE Accumulated(principal, ix, u)[h]
    PROVE  \A h \in Holders :
              GetIndexedValue(Touched(ix, u), now, grown[h], h)
                = IF h \in {u, PoolAddr} THEN GetIndexedValue(ix, now, principal[h], h) + n
                                         ELSE GetIndexedValue(ix, now, principal[h], h)
<1> SUFFICES ASSUME NEW h \in Holders
             PROVE  GetIndexedValue(Touched(ix, u), now, grown[h], h)
                      = IF h \in {u, PoolAddr} THEN GetIndexedValue(ix, now, principal[h], h) + n
                                               ELSE GetIndexedValue(ix, now, principal[h], h)
  OBVIOUS
<1>1. u \in Holders /\ grown[h] \in Nat
  BY DEF Holders
<1>2. GetIndexedValue(Touched(ix, u), now, grown[h], h)
        = IF h \in {u, PoolAddr} THEN grown[h] ELSE GetIndexedValue(ix, now, grown[h], h)
  BY <1>1, TouchedValues
<1>3. Accumulated(principal, ix, u)[h]
        = IF h \in {u, PoolAddr} THEN GetIndexedValue(ix, now, principal[h], h)
                                 ELSE principal[h]
  BY DEF Accumulated
<1>4. grown[h] = IF h \in {u, PoolAddr} THEN GetIndexedValue(ix, now, principal[h], h) + n
                                        ELSE principal[h]
  BY <1>3
<1>. QED BY <1>2, <1>4

\* Both writes to the principals of two different holders.
LEMMA BothGrown ==
    ASSUME NEW before \in [Holders -> Nat], NEW u \in Accounts, NEW n \in Nat
    PROVE  /\ \A h \in Holders : Credited(Credited(before, u, n), PoolAddr, n)[h]
                = IF h \in {u, PoolAddr} THEN before[h] + n ELSE before[h]
           /\ \A h \in Holders : Debited(Debited(before, PoolAddr, n), u, n)[h]
                = IF h \in {u, PoolAddr} THEN before[h] + (-n) ELSE before[h]
           /\ \A h \in Holders : Debited(Debited(before, u, n), PoolAddr, n)[h]
                = IF h \in {u, PoolAddr} THEN before[h] + (-n) ELSE before[h]
<1>1. u \in Holders /\ PoolAddr \in Holders /\ u # PoolAddr
  BY PoolBaseAssumption DEF Holders, Accounts
<1>. QED BY <1>1 DEF Credited, Debited

LEMMA Paid ==
    ASSUME token \in [Holders -> Nat], NEW p \in Holders, NEW q \in Holders, p # q,
           NEW n \in Nat, Pay(p, q, n)
    PROVE  TokensMove(p, q, n)
BY DEF Pay, TokensMove

\* What the entry points for deposits share: the deposit index is touched, both
\* rates are new.
LEMMA DepositSide ==
    ASSUME IInv, IInv', now' = now, NEW u \in Accounts, NEW n \in Int,
           borrowed' = borrowed,
           \A h \in Holders :
              deposited'[h] = IF h \in {u, PoolAddr}
                              THEN Accumulated(deposited, depositIndex, u)[h] + n
                              ELSE Accumulated(deposited, depositIndex, u)[h],
           UpdateRates(deposited', borrowed, Touched(depositIndex, u), borrowIndex)
    PROVE  BalancesGrow({u, PoolAddr}, n) /\ DebtsGrow({}, 0)
<1>1. deposited' \in [Holders -> Nat]
  BY DEF IInv, TypeOK
<1>2. u \in Holders
  BY DEF Holders
<1>3. Touched(depositIndex, u) \in LinearIndices /\ HistoryOK(Touched(depositIndex, u), now)
  BY <1>2, PoolHere, TouchedOK
<1>4. \A h \in Holders, value \in Nat :
        /\ GetIndexedValue(depositIndex', now, value, h)
             = GetIndexedValue(Touched(depositIndex, u), now, value, h)
        /\ GetIndexedValue(borrowIndex', now, value, h) = GetIndexedValue(borrowIndex, now, value, h)
  BY <1>1, <1>3, PoolHere, NewRatesValues DEF UpdateRates
<1>5. \A h \in Holders :
        GetIndexedValue(Touched(depositIndex, u), now, deposited'[h], h)
          = IF h \in {u, PoolAddr} THEN GetIndexedValue(depositIndex, now, deposited[h], h) + n
                                   ELSE GetIndexedValue(depositIndex, now, deposited[h], h)
  <2>1. /\ depositIndex \in LinearIndices /\ now \in Times /\ HistoryOK(depositIndex, now)
        /\ deposited \in [Holders -> Nat]
    BY PoolHere
  <2> DEFINE grown == deposited'
  <2>2. \A h \in Holders :
          grown[h] = IF h \in {u, PoolAddr} THEN Accumulated(deposited, depositIndex, u)[h] + n
                                            ELSE Accumulated(deposited, depositIndex, u)[h]
    OBVIOUS
  <2>3. grown \in [Holders -> Nat]
    BY <1>1
  <2> HIDE DEF grown
  <2>4. \A h \in Holders :
          GetIndexedValue(Touched(depositIndex, u), now, grown[h], h)
            = IF h \in {u, PoolAddr} THEN GetIndexedValue(depositIndex, now, deposited[h], h) + n
                                     ELSE GetIndexedValue(depositIndex, now, deposited[h], h)
    BY <2>1, <2>2, <2>3, GrownValues
  <2>. QED BY <2>4 DEF grown
<1>6. BalancesGrow({u, PoolAddr}, n)
  BY <1>1, <1>4, <1>5 DEF BalancesGrow, BalanceOf
<1>7. DebtsGrow({}, 0)
  BY <1>4, PoolHere DEF DebtsGrow, GetBorrowed
<1>. QED BY <1>6, <1>7

LEMMA LoanSide ==
    ASSUME IInv, IInv', now' = now, NEW u \in Accounts, NEW n \in Int,
           deposited' = deposited,
           \A h \in Holders :
              borrowed'[h] = IF h \in {u, PoolAddr}
                             THEN Accumulated(borrowed, borrowIndex, u)[h] + n
                             ELSE Accumulated(borrowed, borrowIndex, u)[h],
           UpdateRates(deposited, borrowed', depositIndex, Touched(borrowIndex, u))
    PROVE  DebtsGrow({u, PoolAddr}, n) /\ BalancesGrow({}, 0)
<1>1. borrowed' \in [Holders -> Nat]
  BY DEF IInv, TypeOK
<1>2. u \in Holders
  BY DEF Holders
<1>3. Touched(borrowIndex, u) \in LinearIndices /\ HistoryOK(Touched(borrowIndex, u), now)
  BY <1>2, PoolHere, TouchedOK
<1>4. \A h \in Holders, value \in Nat :
        /\ GetIndexedValue(borrowIndex', now, value, h)
             = GetIndexedValue(Touched(borrowIndex, u), now, value, h)
        /\ GetIndexedValue(depositIndex', now, value, h)
             = GetIndexedValue(depositIndex, now, value, h)
  BY <1>1, <1>3, PoolHere, NewRatesValues DEF UpdateRates
<1>5. \A h \in Holders :
        GetIndexedValue(Touched(borrowIndex, u), now, borrowed'[h], h)
          = IF h \in {u, PoolAddr} THEN GetIndexedValue(borrowIndex, now, borrowed[h], h) + n
                                   ELSE GetIndexedValue(borrowIndex, now, borrowed[h], h)
  <2>1. /\ borrowIndex \in LinearIndices /\ now \in Times /\ HistoryOK(borrowIndex, now)
        /\ borrowed \in [Holders -> Nat]
    BY PoolHere
  <2> DEFINE grown == borrowed'
  <2>2. \A h \in Holders :
          grown[h] = IF h \in {u, PoolAddr} THEN Accumulated(borrowed, borrowIndex, u)[h] + n
                                            ELSE Accumulated(borrowed, borrowIndex, u)[h]
    OBVIOUS
  <2>3. grown \in [Holders -> Nat]
    BY <1>1
  <2> HIDE DEF grown
  <2>4. \A h \in Holders :
          GetIndexedValue(Touched(borrowIndex, u), now, grown[h], h)
            = IF h \in {u, PoolAddr} THEN GetIndexedValue(borrowIndex, now, borrowed[h], h) + n
                                     ELSE GetIndexedValue(borrowIndex, now, borrowed[h], h)
    BY <2>1, <2>2, <2>3, GrownValues
  <2>. QED BY <2>4 DEF grown
<1>6. DebtsGrow({u, PoolAddr}, n)
  BY <1>1, <1>4, <1>5 DEF DebtsGrow, GetBorrowed
<1>7. BalancesGrow({}, 0)
  BY <1>4, PoolHere DEF BalancesGrow, BalanceOf
<1>. QED BY <1>6, <1>7

BalanceMoves(u, v, n) ==
    \A h \in Holders : BalanceOf(h)' = CASE h = u -> BalanceOf(h) - n
                                         [] h = v -> BalanceOf(h) + n
                                         [] OTHER -> BalanceOf(h)

\* What a transaction may do to the values of its block.
Idles == BalancesGrow({}, 0) /\ DebtsGrow({}, 0) /\ token' = token
Transfers(u, v, n) ==
    /\ BalanceMoves(u, v, n) /\ DebtsGrow({}, 0) /\ token' = token
    /\ n <= NotLockedBalance(u)
Deposits(u, v, n) ==
    BalancesGrow({v, PoolAddr}, n) /\ DebtsGrow({}, 0) /\ TokensMove(u, PoolAddr, n)
Withdraws(u, n) ==
    BalancesGrow({u, PoolAddr}, -n) /\ DebtsGrow({}, 0) /\ TokensMove(PoolAddr, u, n)
Borrows(u, n) ==
    BalancesGrow({}, 0) /\ DebtsGrow({u, PoolAddr}, n) /\ TokensMove(PoolAddr, u, n)
Repays(u, n) ==
    BalancesGrow({}, 0) /\ DebtsGrow({u, PoolAddr}, -n) /\ TokensMove(u, PoolAddr, n)
Recovers(u, n) ==
    /\ BalancesGrow({}, 0) /\ DebtsGrow({}, 0) /\ TokensMove(PoolAddr, u, n)
    /\ n <= Surplus /\ UNCHANGED book

LEMMA BookUnchanged ==
    ASSUME IInv, now' = now, UNCHANGED book
    PROVE  BalancesGrow({}, 0) /\ DebtsGrow({}, 0)
BY DEF book, BalancesGrow, DebtsGrow, BalanceOf, GetBorrowed

LEMMA TakeDepositMoves ==
    ASSUME IInv, IInv', NEW u \in Depositors, NEW of \in Depositors, NEW n \in Nat,
           TakeDeposit(u, of, n)
    PROVE  Deposits(u, of, n)
<1> DEFINE before == Accumulated(deposited, depositIndex, of)
<1>1. /\ u \in Accounts /\ of \in Accounts /\ u \in Holders /\ of \in Holders
      /\ u # PoolAddr /\ n \in Int
  BY PoolHere
<1>2. before \in [Holders -> Nat]
  BY <1>1, PoolHere, AccumulatedNat
<1>3. /\ deposited' = Credited(Credited(before, of, n), PoolAddr, n)
      /\ UpdateRates(deposited', borrowed, Touched(depositIndex, of), borrowIndex)
      /\ borrowed' = borrowed /\ now' = now /\ Pay(u, PoolAddr, n)
  BY DEF TakeDeposit
<1> HIDE DEF before
<1>4. \A h \in Holders : deposited'[h] = IF h \in {of, PoolAddr} THEN before[h] + n ELSE before[h]
  BY <1>1, <1>2, <1>3, BothGrown
<1>5. BalancesGrow({of, PoolAddr}, n) /\ DebtsGrow({}, 0)
  BY <1>1, <1>3, <1>4, DepositSide DEF before
<1>6. TokensMove(u, PoolAddr, n)
  BY <1>1, <1>3, PoolHere, Paid
<1>. QED BY <1>5, <1>6 DEF Deposits

LEMMA PayOutMoves ==
    ASSUME IInv, IInv', NEW u \in Depositors, NEW n \in Nat, PayOut(u, n)
    PROVE  Withdraws(u, n)
<1> DEFINE before == Accumulated(deposited, depositIndex, u)
<1>1. u \in Accounts /\ u \in Holders /\ u # PoolAddr /\ -n \in Int
  BY PoolHere
<1>2. before \in [Holders -> Nat]
  BY <1>1, PoolHere, AccumulatedNat
<1>3. /\ deposited' = Debited(Debited(before, PoolAddr, n), u, n)
      /\ UpdateRates(deposited', borrowed, Touched(depositIndex, u), borrowIndex)
      /\ borrowed' = borrowed /\ now' = now /\ Pay(PoolAddr, u, n)
  BY DEF PayOut
<1> HIDE DEF before
<1>4. \A h \in Holders :
        deposited'[h] = IF h \in {u, PoolAddr} THEN before[h] + (-n) ELSE before[h]
  BY <1>1, <1>2, <1>3, BothGrown
<1>5. BalancesGrow({u, PoolAddr}, -n) /\ DebtsGrow({}, 0)
  BY <1>1, <1>3, <1>4, DepositSide DEF before
<1>6. TokensMove(PoolAddr, u, n)
  BY <1>1, <1>3, PoolHere, Paid
<1>. QED BY <1>5, <1>6 DEF Withdraws

LEMMA BorrowMoves ==
    ASSUME IInv, IInv', NEW u \in PrimeAccounts, NEW n \in Nat, Borrow(u, n)
    PROVE  Borrows(u, n)
<1> DEFINE before == Accumulated(borrowed, borrowIndex, u)
<1>1. u \in Accounts /\ u \in Holders /\ u # PoolAddr /\ n \in Int
  BY PoolHere
<1>2. before \in [Holders -> Nat]
  BY <1>1, PoolHere, AccumulatedNat
<1>3. /\ borrowed' = Credited(Credited(before, u, n), PoolAddr, n)
      /\ UpdateRates(deposited, borrowed', depositIndex, Touched(borrowIndex, u))
      /\ deposited' = deposited /\ now' = now /\ Pay(PoolAddr, u, n)
  BY DEF Borrow
<1> HIDE DEF before
<1>4. \A h \in Holders : borrowed'[h] = IF h \in {u, PoolAddr} THEN before[h] + n ELSE before[h]
  BY <1>1, <1>2, <1>3, BothGrown
<1>5. DebtsGrow({u, PoolAddr}, n) /\ BalancesGrow({}, 0)
  BY <1>1, <1>3, <1>4, LoanSide DEF before
<1>6. TokensMove(PoolAddr, u, n)
  BY <1>1, <1>3, PoolHere, Paid
<1>. QED BY <1>5, <1>6 DEF Borrows

LEMMA RepayMoves ==
    ASSUME IInv, IInv', NEW u \in PrimeAccounts, NEW n \in Nat, Repay(u, n)
    PROVE  Repays(u, n)
<1> DEFINE before == Accumulated(borrowed, borrowIndex, u)
<1>1. u \in Accounts /\ u \in Holders /\ u # PoolAddr /\ -n \in Int
  BY PoolHere
<1>2. before \in [Holders -> Nat]
  BY <1>1, PoolHere, AccumulatedNat
<1>3. /\ borrowed' = Debited(Debited(before, u, n), PoolAddr, n)
      /\ UpdateRates(deposited, borrowed', depositIndex, Touched(borrowIndex, u))
      /\ deposited' = deposited /\ now' = now /\ Pay(u, PoolAddr, n)
  BY DEF Repay
<1> HIDE DEF before
<1>4. \A h \in Holders :
        borrowed'[h] = IF h \in {u, PoolAddr} THEN before[h] + (-n) ELSE before[h]
  BY <1>1, <1>2, <1>3, BothGrown
<1>5. DebtsGrow({u, PoolAddr}, -n) /\ BalancesGrow({}, 0)
  BY <1>1, <1>3, <1>4, LoanSide DEF before
<1>6. TokensMove(u, PoolAddr, n)
  BY <1>1, <1>3, PoolHere, Paid
<1>. QED BY <1>5, <1>6 DEF Repays

\* A transfer touches both ends; one to oneself changes nothing.
LEMMA MoveMoves ==
    ASSUME IInv, NEW u \in Depositors, NEW v \in Depositors, NEW n \in Nat,
           MoveDeposit(u, v, n)
    PROVE  IF u = v THEN Idles ELSE Transfers(u, v, n)
<1> DEFINE before == Accumulated(deposited, depositIndex, u)
           debited == Debited(before, u, n)
           touched == Touched(depositIndex, u)
           middle == Accumulated(debited, touched, v)
<1>1. u \in Accounts /\ v \in Accounts /\ u \in Holders /\ v \in Holders
      /\ u # PoolAddr /\ v # PoolAddr
  BY PoolHere
<1>2. /\ n <= BalanceOf(u) /\ n <= NotLockedBalance(u)
      /\ deposited' = Credited(middle, v, n)
      /\ depositIndex' = Touched(touched, v)
      /\ UNCHANGED <<now, token, borrowed, borrowIndex>>
  BY DEF MoveDeposit, IsWithdrawalAmountAvailable
<1>3. \A h \in Holders :
        before[h] = IF h \in {u, PoolAddr} THEN BalanceOf(h) ELSE deposited[h]
  BY DEF Accumulated, BalanceOf
<1>4. before \in [Holders -> Nat]
  BY <1>1, PoolHere, AccumulatedNat
<1> HIDE DEF before
<1>5. debited \in [Holders -> Nat]
  BY <1>1, <1>2, <1>3, <1>4, DebitedNat
<1>6. \A h \in Holders :
        debited[h] = IF h = u THEN BalanceOf(u) - n
                     ELSE IF h = PoolAddr THEN BalanceOf(h) ELSE deposited[h]
  BY <1>1, <1>3, <1>4 DEF Debited
<1> HIDE DEF debited
<1>7. touched \in LinearIndices /\ HistoryOK(touched, now)
  BY <1>1, PoolHere, TouchedOK
<1>8. \A h \in Holders :
        GetIndexedValue(touched, now, debited[h], h)
          = IF h = u THEN BalanceOf(u) - n ELSE BalanceOf(h)
  <2> SUFFICES ASSUME NEW h \in Holders
               PROVE  GetIndexedValue(touched, now, debited[h], h)
                        = IF h = u THEN BalanceOf(u) - n ELSE BalanceOf(h)
    OBVIOUS
  <2>1. GetIndexedValue(touched, now, debited[h], h)
          = IF h \in {u, PoolAddr} THEN debited[h]
            ELSE GetIndexedValue(depositIndex, now, debited[h], h)
    BY <1>1, <1>5, PoolHere, TouchedValues
  <2>. QED BY <2>1, <1>6 DEF BalanceOf
<1> HIDE DEF touched
<1>9. \A h \in Holders :
        middle[h] = IF h \in {v, PoolAddr} THEN GetIndexedValue(touched, now, debited[h], h)
                                           ELSE debited[h]
  BY DEF Accumulated
<1>10. middle \in [Holders -> Nat]
  BY <1>1, <1>5, <1>7, PoolHere, AccumulatedNat
<1> HIDE DEF middle
<1>11. \A h \in Holders : deposited'[h] = IF h = v THEN middle[h] + n ELSE middle[h]
  BY <1>1, <1>2, <1>10 DEF Credited
<1>12. deposited' \in [Holders -> Nat]
  BY <1>1, <1>2, <1>10, CreditedNat
<1>13. \A h \in Holders :
         BalanceOf(h)' = IF h = v THEN GetIndexedValue(touched, now, debited[h], h) + n
                                  ELSE GetIndexedValue(touched, now, debited[h], h)
  <2> SUFFICES ASSUME NEW h \in Holders
               PROVE  BalanceOf(h)' = IF h = v THEN GetIndexedValue(touched, now, debited[h], h) + n
                                      ELSE GetIndexedValue(touched, now, debited[h], h)
    OBVIOUS
  <2> DEFINE value == deposited'[h]
  <2>1. value \in Nat
    BY <1>12
  <2>2. BalanceOf(h)' = GetIndexedValue(Touched(touched, v), now, value, h)
    BY <1>2 DEF BalanceOf
  <2>3. value = IF h = v THEN middle[h] + n ELSE middle[h]
    BY <1>11
  <2> HIDE DEF value
  <2>4. GetIndexedValue(Touched(touched, v), now, value, h)
          = IF h \in {v, PoolAddr} THEN value ELSE GetIndexedValue(touched, now, value, h)
    BY <1>1, <1>7, <2>1, PoolHere, TouchedValues
  <2>. QED BY <1>1, <1>9, <2>2, <2>3, <2>4
<1>14. DebtsGrow({}, 0)
  BY <1>2 DEF DebtsGrow, GetBorrowed
<1>15. CASE u = v
  <2>1. BalancesGrow({}, 0)
    BY <1>1, <1>8, <1>13, <1>15, PoolHere DEF BalancesGrow
  <2>. QED BY <2>1, <1>2, <1>14, <1>15 DEF Idles
<1>16. CASE u # v
  <2>1. BalanceMoves(u, v, n)
    BY <1>8, <1>13, <1>16 DEF BalanceMoves
  <2>. QED BY <2>1, <1>2, <1>14, <1>16 DEF Transfers
<1>. QED BY <1>15, <1>16

LEMMA RecoverMoves ==
    ASSUME IInv, NEW u \in Depositors, NEW n \in Nat, RecoverSurplus(n, u)
    PROVE  Recovers(u, n)
<1>1. u \in Holders /\ u # PoolAddr /\ PoolAddr \in Holders
  BY PoolHere
<1>2. n <= Surplus /\ Pay(PoolAddr, u, n) /\ UNCHANGED book /\ now' = now
  BY DEF RecoverSurplus
<1>3. TokensMove(PoolAddr, u, n)
  BY <1>1, <1>2, PoolHere, Paid
<1>. QED BY <1>2, <1>3, BookUnchanged DEF Recovers

LEMMA CalculatorIdles ==
    ASSUME IInv, NEW present, SetRatesCalculator(present)
    PROVE  Idles
<1>1. now' = now /\ token' = token /\ deposited' = deposited /\ borrowed' = borrowed
  BY DEF SetRatesCalculator
<1>2. CASE present
  <2>1. NewRates(deposited, borrowed, depositIndex, borrowIndex)
    BY <1>2 DEF SetRatesCalculator
  <2>2. \A h \in Holders, value \in Nat :
          /\ GetIndexedValue(depositIndex', now, value, h) = GetIndexedValue(depositIndex, now, value, h)
          /\ GetIndexedValue(borrowIndex', now, value, h) = GetIndexedValue(borrowIndex, now, value, h)
    BY <2>1, PoolHere, NewRatesValues
  <2>3. \A h \in Holders : deposited[h] \in Nat /\ borrowed[h] \in Nat
    BY PoolHere
  <2>. QED BY <1>1, <2>2, <2>3 DEF Idles, BalancesGrow, DebtsGrow, BalanceOf, GetBorrowed
<1>3. CASE ~present
  BY <1>1, <1>3, BookUnchanged DEF SetRatesCalculator, book, Idles
<1>. QED BY <1>2, <1>3

-----------------------------------------------------------------------------
(* Every step of a block is one of these *)

ValueStep ==
    \/ Idles
    \/ \E u, v \in Accounts, n \in Nat : u # v /\ Transfers(u, v, n)
    \/ \E u, v \in Accounts, n \in Nat : Deposits(u, v, n)
    \/ \E u \in Accounts, n \in Nat :
          \/ Withdraws(u, n) /\ n <= NotLockedBalance(u)
          \/ Borrows(u, n) \/ Repays(u, n) \/ Recovers(u, n)

LEMMA StepMovesValue ==
    ASSUME IInv, [Next]_vars, now' = now PROVE ValueStep
<1>1. IInv'
  BY NextKeepsIInv
<1>2. CASE Tick
  BY <1>2, PoolHere DEF Tick, Times
<1>3. CASE DepositorStep
  <2>1. PICK u \in Depositors :
           \/ \E of \in Depositors, amount \in Amounts.deposit :
                  DepositOnBehalf(u, of, amount)
           \/ \E amount \in Amounts.withdraw : Withdraw(u, amount)
           \/ \E v \in Depositors, amount \in Amounts.transfer : Transfer(u, v, amount)
           \/ \E s, v \in Depositors, amount \in Amounts.transfer :
                  TransferFrom(s, u, v, amount)
           \/ \E amount \in Amounts.lock, lockTime \in LockTimes :
                  LockDeposit(u, amount, lockTime)
    BY <1>3 DEF DepositorStep
  <2>2. /\ Amounts.deposit \subseteq Nat /\ Amounts.withdraw \subseteq Nat
        /\ Amounts.transfer \subseteq Nat
    BY PoolAssumption
  <2>3. u \in Accounts /\ token[u] \in Nat /\ BalanceOf(u) \in Nat
    BY PoolHere
  <2>4. ASSUME NEW of \in Depositors, NEW amount \in Amounts.deposit,
               DepositOnBehalf(u, of, amount)
        PROVE  ValueStep
    <3>1. Least(amount, token[u]) \in Nat
      BY <2>2, <2>3 DEF Least
    <3>2. Deposits(u, of, Least(amount, token[u]))
      BY <1>1, <2>4, <3>1, TakeDepositMoves DEF DepositOnBehalf
    <3>. QED BY <2>3, <3>1, <3>2, PoolHere DEF ValueStep
  <2>5. ASSUME NEW amount \in Amounts.withdraw, Withdraw(u, amount) PROVE ValueStep
    <3>1. Least(amount, BalanceOf(u)) \in Nat
      BY <2>2, <2>3 DEF Least
    <3>2. Withdraws(u, Least(amount, BalanceOf(u)))
      BY <1>1, <2>5, <3>1, PayOutMoves DEF Withdraw
    <3>3. Least(amount, BalanceOf(u)) <= NotLockedBalance(u)
      <4>1. amount <= NotLockedBalance(u)
        BY <2>5 DEF Withdraw, IsWithdrawalAmountAvailable
      <4>2. amount <= BalanceOf(u)
        BY <2>5 DEF Withdraw, IsWithdrawalAmountAvailable
      <4>. QED BY <4>1, <4>2 DEF Least
    <3>. QED BY <2>3, <3>1, <3>2, <3>3 DEF ValueStep
  <2>6. ASSUME NEW v \in Depositors, NEW amount \in Amounts.transfer, MoveDeposit(u, v, amount)
        PROVE  ValueStep
    <3>1. IF u = v THEN Idles ELSE Transfers(u, v, amount)
      BY <2>2, <2>6, MoveMoves
    <3>. QED BY <2>2, <2>3, <3>1, PoolHere DEF ValueStep
  <2>7. ASSUME NEW amount \in Amounts.lock, NEW lockTime \in LockTimes,
               LockDeposit(u, amount, lockTime)
        PROVE  ValueStep
    BY <2>7, BookUnchanged DEF LockDeposit, Idles, ValueStep
  <2>. QED BY <2>1, <2>4, <2>5, <2>6, <2>7 DEF Transfer, TransferFrom
<1>4. CASE AllowanceStep
  BY <1>4, BookUnchanged
     DEF AllowanceStep, Approve, IncreaseAllowance, DecreaseAllowance, SetAllowance,
         Idles, ValueStep
<1>5. CASE BorrowerStep
  <2>1. PICK u \in PrimeAccounts :
          \/ \E amount \in Amounts.borrow : Borrow(u, amount)
          \/ \E amount \in Amounts.repay : Repay(u, amount)
    BY <1>5 DEF BorrowerStep
  <2>2. /\ u \in Accounts
        /\ Amounts.borrow \subseteq Nat /\ Amounts.repay \subseteq Nat
    BY PoolAssumption, PoolHere
  <2>3. \E n \in Nat : Borrows(u, n) \/ Repays(u, n)
    BY <1>1, <2>1, <2>2, BorrowMoves, RepayMoves
  <2>. QED BY <2>2, <2>3 DEF ValueStep
<1>6. CASE OwnerStep
  <2>1. ASSUME NEW u \in Depositors, NEW amount \in Amounts.recover, RecoverSurplus(amount, u)
        PROVE  ValueStep
    <3>1. amount \in Nat /\ u \in Accounts
      BY PoolAssumption, PoolHere
    <3>. QED BY <2>1, <3>1, RecoverMoves DEF ValueStep
  <2>2. ASSUME NEW present, SetRatesCalculator(present) PROVE ValueStep
    BY <2>2, CalculatorIdles DEF ValueStep
  <2>3. ASSUME NEW value,
               \/ SetPoolRewarder(value) \/ SetTotalSupplyCap(value)
               \/ SetBorrowersRegistry(value) \/ SetSpread(value)
        PROVE  ValueStep
    <3>1. UNCHANGED <<now, token, book>>
      BY <2>3 DEF SetPoolRewarder, SetTotalSupplyCap, SetBorrowersRegistry, SetSpread
    <3>. QED BY <3>1, BookUnchanged DEF Idles, ValueStep
  <2>. QED BY <1>6, <2>1, <2>2, <2>3 DEF OwnerStep
<1>7. CASE UNCHANGED vars
  BY <1>7, BookUnchanged DEF vars, Idles, ValueStep
<1>. QED BY <1>2, <1>3, <1>4, <1>5, <1>6, <1>7 DEF Next

-----------------------------------------------------------------------------
(* Locks.  A lock counts until it expires, so the locked balance of an       *)
(* account is a sum of terms that only fall with time, and one more lock     *)
(* adds one more term.                                                       *)

Active(lock, t) == IF lock.unlockTime > t THEN lock.amount ELSE 0
Actives(list, t) == [i \in DOMAIN list |-> Active(list[i], t)]
LockSum(list, t) == SumFunctionOnSet(Actives(list, t), DOMAIN list)

LEMMA LockedIsSum == \A a \in Accounts : LockedBalance(a) = LockSum(locks[a], now)
BY DEF LockedBalance, LockSum, Actives, Active, SumFunction

LEMMA ActivesNat ==
    ASSUME NEW list \in Seq(Locks), NEW t \in Nat
    PROVE  /\ IsFiniteSet(DOMAIN list)
           /\ \A i \in DOMAIN list : Actives(list, t)[i] = Active(list[i], t)
           /\ \A i \in DOMAIN list : Actives(list, t)[i] \in Nat
<1>1. DOMAIN list = 1..Len(list) /\ Len(list) \in Nat
  OBVIOUS
<1>2. \A i \in DOMAIN list : list[i] \in Locks
  OBVIOUS
<1>3. IsFiniteSet(1..Len(list))
  BY <1>1, FS_Interval
<1>. QED BY <1>1, <1>2, <1>3 DEF Actives, Active, Locks

LEMMA LocksExpire ==
    ASSUME NEW list \in Seq(Locks), NEW s \in Nat, NEW t \in Nat, s <= t
    PROVE  LockSum(list, t) <= LockSum(list, s) /\ LockSum(list, t) \in Int
<1>1. \A i \in DOMAIN list : list[i] \in Locks
  OBVIOUS
<1>2. \A i \in DOMAIN list : Active(list[i], t) <= Active(list[i], s)
  BY <1>1 DEF Active, Locks
<1>3. /\ IsFiniteSet(DOMAIN list)
      /\ \A i \in DOMAIN list : /\ Actives(list, t)[i] \in Int /\ Actives(list, s)[i] \in Int
                                /\ Actives(list, t)[i] <= Actives(list, s)[i]
  BY <1>2, ActivesNat
<1>. QED BY <1>3, SumAtMost, SumInt DEF LockSum

LEMMA OneMoreLock ==
    ASSUME NEW list \in Seq(Locks), NEW lock \in Locks, NEW t \in Nat
    PROVE  LockSum(Append(list, lock), t) = LockSum(list, t) + Active(lock, t)
<1> DEFINE longer == Append(list, lock)
           n == Len(longer)
<1>1. /\ longer \in Seq(Locks) /\ n = Len(list) + 1 /\ longer[n] = lock
      /\ DOMAIN longer = 1..n /\ DOMAIN list = 1..(n - 1) /\ n \in Nat /\ n > 0
      /\ \A i \in DOMAIN list : longer[i] = list[i]
  OBVIOUS
<1> HIDE DEF longer
<1> HIDE DEF n
<1>2. n \in DOMAIN longer /\ DOMAIN longer \ {n} = DOMAIN list
  BY <1>1
<1>3. \A i \in DOMAIN list : Actives(longer, t)[i] = Actives(list, t)[i]
  BY <1>1, <1>2, ActivesNat
<1>4. SumFunctionOnSet(Actives(longer, t), DOMAIN list) = LockSum(list, t)
  BY <1>3, ActivesNat, SumSame DEF LockSum
<1>5. Actives(longer, t)[n] = Active(lock, t)
  BY <1>1, <1>2, ActivesNat
<1>6. LockSum(longer, t)
        = Actives(longer, t)[n] + SumFunctionOnSet(Actives(longer, t), DOMAIN longer \ {n})
  <2>1. /\ IsFiniteSet(DOMAIN longer)
        /\ \A i \in DOMAIN longer : Actives(longer, t)[i] \in Int
    BY <1>1, ActivesNat
  <2>. QED BY <1>2, <2>1, SumWithout DEF LockSum
<1>7. LockSum(list, t) \in Int /\ Active(lock, t) \in Int
  BY LocksExpire DEF Active, Locks
<1>. QED BY <1>2, <1>4, <1>5, <1>6, <1>7 DEF longer

LEMMA ValuesOnlyGrow ==
    ASSUME NEW ix \in LinearIndices, NEW s \in Times, NEW t \in Times, s <= t,
           HistoryOK(ix, s), NEW h \in Holders, NEW value \in Nat
    PROVE  GetIndexedValue(ix, s, value, h) <= GetIndexedValue(ix, t, value, h)
<1> DEFINE cur == GetIndex(ix, s)
           later == GetIndex(ix, t)
           at == ix.userUpdateTime[h]
           prev == ix.prevIndex[at]
<1>1. /\ cur \in Nat \ {0} /\ later \in Nat \ {0} /\ cur <= later
  <2>1. cur >= ix.index /\ ix.index >= BASE_RATE /\ ix.index \in Nat /\ cur \in Nat
    BY IndexBounds DEF HistoryOK, LinearIndices
  <2>. QED BY <2>1, IndexBounds, IndexMonotone, ScaleNat DEF BASE_RATE
<1> HIDE DEF cur, later
<1>2. CASE at = 0
  <2>1. /\ GetIndexedValue(ix, s, value, h) = (value * cur) \div cur
        /\ GetIndexedValue(ix, t, value, h) = (value * later) \div later
    BY <1>2 DEF GetIndexedValue, PrevUserIndex, cur, later
  <2>2. (value * cur) \div cur = value /\ (value * later) \div later = value
    BY <1>1, DivExact
  <2>. QED BY <2>1, <2>2
<1>3. CASE at # 0
  <2>1. prev \in Nat \ {0}
    <3>1. at \in Times
      BY <1>3 DEF LinearIndices
    <3>2. prev \in Nat /\ prev >= BASE_RATE
      BY <1>3, <3>1 DEF LinearIndices, HistoryOK
    <3>. QED BY <3>2, ScaleNat DEF BASE_RATE
  <2>2. /\ GetIndexedValue(ix, s, value, h) = (value * cur) \div prev
        /\ GetIndexedValue(ix, t, value, h) = (value * later) \div prev
    BY <1>3 DEF GetIndexedValue, PrevUserIndex, cur, later
  <2> HIDE DEF prev
  <2>3. value * cur \in Nat /\ value * later \in Nat /\ value * cur <= value * later
    BY <1>1, MulNat, MulMonotone
  <2>. QED BY <2>1, <2>2, <2>3, DivMonotone
<1>. QED BY <1>2, <1>3

LEMMA LocksStay ==
    ASSUME [Next]_vars
    PROVE  \/ locks' = locks
           \/ \E u \in Depositors, amount \in Amounts.lock, lockTime \in LockTimes :
                 LockDeposit(u, amount, lockTime)
<1>1. CASE Tick
  BY <1>1 DEF Tick
<1>2. CASE DepositorStep
  BY <1>2 DEF DepositorStep, DepositOnBehalf, TakeDeposit, Withdraw, PayOut, Transfer,
              TransferFrom, MoveDeposit
<1>3. CASE AllowanceStep
  BY <1>3 DEF AllowanceStep, Approve, IncreaseAllowance, DecreaseAllowance, SetAllowance
<1>4. CASE BorrowerStep
  BY <1>4 DEF BorrowerStep, Borrow, Repay
<1>5. CASE OwnerStep
  BY <1>5 DEF OwnerStep, RecoverSurplus, SetRatesCalculator, SetPoolRewarder,
              SetTotalSupplyCap, SetBorrowersRegistry, SetSpread
<1>6. CASE UNCHANGED vars
  BY <1>6 DEF vars
<1>. QED BY <1>1, <1>2, <1>3, <1>4, <1>5, <1>6 DEF Next

\* What leaves an account within a block is not locked.
LEMMA OnlyUnlockedLeaves ==
    ASSUME IInv, [Next]_vars, now' = now, NEW a \in Accounts
    PROVE  \/ BalanceOf(a)' >= BalanceOf(a)
           \/ \E n \in Nat : BalanceOf(a)' = BalanceOf(a) - n /\ n <= NotLockedBalance(a)
<1>1. /\ a \in Holders /\ a # PoolAddr /\ BalanceOf(a) \in Nat
  BY PoolHere
<1>2. ASSUME BalancesGrow({}, 0) PROVE BalanceOf(a)' >= BalanceOf(a)
  BY <1>1, <1>2 DEF BalancesGrow
<1>3. ASSUME NEW u \in Accounts, NEW v \in Accounts, NEW n \in Nat, Transfers(u, v, n)
      PROVE  \/ BalanceOf(a)' >= BalanceOf(a)
             \/ BalanceOf(a)' = BalanceOf(a) - n /\ n <= NotLockedBalance(a)
  BY <1>1, <1>3 DEF Transfers, BalanceMoves
<1>4. ASSUME NEW u \in Accounts, NEW v \in Accounts, NEW n \in Nat, Deposits(u, v, n)
      PROVE  BalanceOf(a)' >= BalanceOf(a)
  BY <1>1, <1>4 DEF Deposits, BalancesGrow
<1>5. ASSUME NEW u \in Accounts, NEW n \in Nat, Withdraws(u, n), n <= NotLockedBalance(u)
      PROVE  \/ BalanceOf(a)' >= BalanceOf(a)
             \/ BalanceOf(a)' = BalanceOf(a) - n /\ n <= NotLockedBalance(a)
  BY <1>1, <1>5 DEF Withdraws, BalancesGrow
<1>. QED BY StepMovesValue, <1>2, <1>3, <1>4, <1>5
         DEF ValueStep, Idles, Borrows, Repays, Recovers

LEMMA CoverKept == IInv /\ LockedIsCovered /\ [Next]_vars => LockedIsCovered'
<1> SUFFICES ASSUME IInv, LockedIsCovered, [Next]_vars, NEW a \in Accounts
             PROVE  LockedBalance(a)' <= BalanceOf(a)'
  BY DEF LockedIsCovered
<1> DEFINE sum == LockSum(locks[a], now)
<1>1. /\ a \in Holders /\ BalanceOf(a) \in Nat /\ now \in Nat /\ now \in Times
      /\ BalanceOf(a)' \in Nat /\ now' \in Nat /\ now' \in Times
      /\ locks \in [Accounts -> Seq(Locks)]
  <2>1. IInv'
    BY NextKeepsIInv
  <2>2. now' \in Times /\ deposited' \in [Holders -> Nat]
        /\ depositIndex' \in LinearIndices /\ HistoryOK(depositIndex', now')
    BY <2>1 DEF IInv, TypeOK, IndexHistory
  <2>3. GetIndexedValue(depositIndex', now', deposited'[a], a) \in Nat
    <3>1. a \in Holders /\ deposited'[a] \in Nat
      BY <2>2, PoolHere
    <3>. QED BY <2>2, <3>1, IndexedValueBounds
  <2>. QED BY <2>2, <2>3, PoolHere DEF BalanceOf, Times, IInv, TypeOK
<1>2. locks[a] \in Seq(Locks)
  BY <1>1
<1>3. LockedBalance(a) = sum /\ LockedBalance(a)' = LockSum(locks'[a], now')
  <2>1. \A b \in Accounts : LockedBalance(b)' = LockSum(locks'[b], now')
    BY DEF LockedBalance, LockSum, Actives, Active, SumFunction
  <2>. QED BY <2>1, LockedIsSum
<1>4. sum \in Int /\ sum <= BalanceOf(a)
  <2>1. sum \in Int
    BY <1>1, <1>2, LocksExpire
  <2>. QED BY <2>1, <1>3 DEF LockedIsCovered
<1>5. NotLockedBalance(a) = BalanceOf(a) - sum
  BY <1>1, <1>3, <1>4 DEF NotLockedBalance
<1> HIDE DEF sum
<1>6. CASE locks' = locks /\ now' = now
  <2>1. LockedBalance(a)' = sum
    BY <1>3, <1>6 DEF sum
  <2>. QED BY <1>1, <1>4, <1>5, <1>6, <2>1, OnlyUnlockedLeaves
<1>7. CASE Tick
  <2>1. /\ now' = now + 1 /\ locks' = locks /\ deposited' = deposited
        /\ depositIndex' = depositIndex
    BY <1>7 DEF Tick, book
  <2>2. BalanceOf(a)' >= BalanceOf(a)
    <3>1. GetIndexedValue(depositIndex, now, deposited[a], a)
            <= GetIndexedValue(depositIndex, now', deposited[a], a)
      <4>1. deposited[a] \in Nat /\ now <= now'
        BY <1>1, <2>1, PoolHere
      <4>. QED BY <1>1, <4>1, PoolHere, ValuesOnlyGrow
    <3>. QED BY <1>1, <2>1, <3>1 DEF BalanceOf
  <2>3. LockedBalance(a)' \in Int /\ LockedBalance(a)' <= sum
    BY <1>1, <1>2, <1>3, <2>1, LocksExpire DEF sum
  <2>. QED BY <1>1, <1>4, <2>2, <2>3
<1>8. ASSUME NEW u \in Depositors, NEW amount \in Amounts.lock, NEW lockTime \in LockTimes,
             LockDeposit(u, amount, lockTime)
      PROVE  LockedBalance(a)' <= BalanceOf(a)'
  <2> DEFINE lock == [lockTime |-> lockTime, amount |-> amount, unlockTime |-> now + lockTime]
  <2>1. /\ amount \in Nat /\ lockTime \in Nat /\ u \in Accounts
        /\ amount <= NotLockedBalance(u) /\ now' = now
        /\ locks' = [locks EXCEPT ![u] = Append(locks[u], lock)]
        /\ deposited' = deposited /\ depositIndex' = depositIndex
    BY <1>8, PoolAssumption, PoolHere DEF LockDeposit, book
  <2>2. lock \in Locks
    BY <1>1, <2>1 DEF Locks
  <2>3. BalanceOf(a)' = BalanceOf(a)
    BY <2>1 DEF BalanceOf
  <2>4. Active(lock, now) \in Nat /\ Active(lock, now) <= amount
    BY <1>1, <2>1 DEF Active
  <2> HIDE DEF lock
  <2>5. CASE u = a
    <3>1. locks'[a] = Append(locks[a], lock)
      BY <1>1, <2>1, <2>5
    <3>2. LockedBalance(a)' = sum + Active(lock, now)
      BY <1>1, <1>2, <1>3, <2>1, <2>2, <3>1, OneMoreLock DEF sum
    <3>. QED BY <1>1, <1>4, <1>5, <2>1, <2>3, <2>4, <2>5, <3>2
  <2>6. CASE u # a
    <3>1. locks'[a] = locks[a]
      BY <1>1, <2>1, <2>6
    <3>. QED BY <1>3, <1>4, <2>1, <2>3, <3>1 DEF sum
  <2>. QED BY <2>5, <2>6
<1>9. now' = now \/ Tick
  <2>1. CASE DepositorStep
    <3>1. ASSUME NEW u, NEW of, NEW n, TakeDeposit(u, of, n) PROVE now' = now
      BY <3>1 DEF TakeDeposit
    <3>2. ASSUME NEW u, NEW n, PayOut(u, n) PROVE now' = now
      BY <3>2 DEF PayOut
    <3>3. ASSUME NEW u, NEW v, NEW n, MoveDeposit(u, v, n) PROVE now' = now
      BY <3>3 DEF MoveDeposit
    <3>4. ASSUME NEW u, NEW n, NEW t, LockDeposit(u, n, t) PROVE now' = now
      BY <3>4 DEF LockDeposit
    <3>. QED BY <2>1, <3>1, <3>2, <3>3, <3>4 DEF DepositorStep, DepositOnBehalf, Withdraw,
                                               Transfer, TransferFrom
  <2>2. CASE AllowanceStep
    BY <2>2 DEF AllowanceStep, Approve, IncreaseAllowance, DecreaseAllowance, SetAllowance
  <2>3. CASE BorrowerStep
    BY <2>3 DEF BorrowerStep, Borrow, Repay
  <2>4. CASE OwnerStep
    BY <2>4 DEF OwnerStep, RecoverSurplus, SetRatesCalculator, SetPoolRewarder,
                SetTotalSupplyCap, SetBorrowersRegistry, SetSpread
  <2>5. CASE UNCHANGED vars
    BY <2>5 DEF vars
  <2>. QED BY <2>1, <2>2, <2>3, <2>4, <2>5 DEF Next
<1>. QED BY <1>6, <1>7, <1>8, <1>9, LocksStay

-----------------------------------------------------------------------------
(* Equity, and the two entry points for native coins *)

EquityStep ==
    \/ Surplus' = Surplus
    \/ 0 <= Surplus' /\ Surplus' < Surplus /\ UNCHANGED book

\* A native deposit or withdrawal moves value as the others do; the withdrawal
\* only is not held back by locks.
NativeValueStep ==
    \/ ValueStep
    \/ \E u \in Accounts, n \in Nat : Deposits(u, u, n) \/ Withdraws(u, n)

LEMMA EquityKept == ASSUME IInv, NativeValueStep PROVE EquityStep
<1>1. /\ PoolAddr \in Holders /\ token[PoolAddr] \in Nat
      /\ BalanceOf(PoolAddr) \in Nat /\ GetBorrowed(PoolAddr) \in Nat
      /\ \A u \in Accounts : u \in Holders /\ u # PoolAddr
  BY PoolHere
<1>2. /\ Surplus = token[PoolAddr] + GetBorrowed(PoolAddr) - BalanceOf(PoolAddr)
      /\ Surplus' = token'[PoolAddr] + GetBorrowed(PoolAddr)' - BalanceOf(PoolAddr)'
  BY DEF Surplus, TotalSupply, TotalBorrowed
<1>3. ASSUME Idles PROVE Surplus' = Surplus
  BY <1>1, <1>2, <1>3 DEF Idles, BalancesGrow, DebtsGrow
<1>4. ASSUME NEW u \in Accounts, NEW v \in Accounts, NEW n \in Nat, Transfers(u, v, n)
      PROVE  Surplus' = Surplus
  BY <1>1, <1>2, <1>4 DEF Transfers, BalanceMoves, DebtsGrow
<1>5. ASSUME NEW u \in Accounts, NEW v \in Accounts, NEW n \in Nat, Deposits(u, v, n)
      PROVE  Surplus' = Surplus
  BY <1>1, <1>2, <1>5 DEF Deposits, BalancesGrow, DebtsGrow, TokensMove
<1>6. ASSUME NEW u \in Accounts, NEW n \in Nat, Withdraws(u, n)
      PROVE  Surplus' = Surplus
  BY <1>1, <1>2, <1>6 DEF Withdraws, BalancesGrow, DebtsGrow, TokensMove
<1>7. ASSUME NEW u \in Accounts, NEW n \in Nat, Borrows(u, n)
      PROVE  Surplus' = Surplus
  BY <1>1, <1>2, <1>7 DEF Borrows, BalancesGrow, DebtsGrow, TokensMove
<1>8. ASSUME NEW u \in Accounts, NEW n \in Nat, Repays(u, n)
      PROVE  Surplus' = Surplus
  BY <1>1, <1>2, <1>8 DEF Repays, BalancesGrow, DebtsGrow, TokensMove
<1>9. ASSUME NEW u \in Accounts, NEW n \in Nat, Recovers(u, n)
      PROVE  EquityStep
  <2>1. Surplus' = Surplus - n /\ n <= Surplus /\ Surplus \in Int
    BY <1>1, <1>2, <1>9 DEF Recovers, BalancesGrow, DebtsGrow, TokensMove
  <2>2. n = 0 \/ n > 0
    OBVIOUS
  <2>. QED BY <2>1, <2>2, <1>9 DEF Recovers, EquityStep
<1>. QED BY <1>3, <1>4, <1>5, <1>6, <1>7, <1>8, <1>9
         DEF NativeValueStep, ValueStep, EquityStep

LEMMA NativeKeepsIInv == IInv /\ [NativeNext]_vars => IInv'
<1> SUFFICES ASSUME IInv, NativeStep PROVE IInv'
  BY NextKeepsIInv DEF NativeNext
<1>1. Amounts.deposit \subseteq Nat /\ Amounts.withdraw \subseteq Nat
  BY PoolAssumption
<1>. QED BY <1>1, TakeDepositKeeps, PayOutKeeps
         DEF NativeStep, DepositNativeToken, WithdrawNativeToken

LEMMA NativeMovesValue ==
    ASSUME IInv, [NativeNext]_vars, now' = now PROVE NativeValueStep
<1>1. CASE [Next]_vars
  BY <1>1, StepMovesValue DEF NativeValueStep
<1>2. CASE NativeStep
  <2>1. IInv'
    BY NativeKeepsIInv
  <2>2. Amounts.deposit \subseteq Nat /\ Amounts.withdraw \subseteq Nat
        /\ Depositors \subseteq Accounts
    BY PoolAssumption DEF Accounts
  <2>3. ASSUME NEW u \in Depositors, NEW value \in Amounts.deposit,
               TakeDeposit(u, u, value)
        PROVE  NativeValueStep
    BY <2>1, <2>2, <2>3, TakeDepositMoves DEF NativeValueStep
  <2>4. ASSUME NEW u \in Depositors, NEW amount \in Amounts.withdraw, PayOut(u, amount)
        PROVE  NativeValueStep
    BY <2>1, <2>2, <2>4, PayOutMoves DEF NativeValueStep
  <2>. QED BY <1>2, <2>3, <2>4 DEF NativeStep, DepositNativeToken, WithdrawNativeToken
<1>. QED BY <1>1, <1>2 DEF NativeNext

LEMMA NativeInvariance == NativeSpec => []IInv
BY PoolAssumption, InitIInv, NativeKeepsIInv, PTL DEF NativeSpec

-----------------------------------------------------------------------------
(* Theorems *)

\* Cash + loans - deposits stays the same within a block, whatever the rates and
\* whatever is rounded: only a recovery takes from it, and only what is positive.
\* In the pool of the wrapped native token, with its two more entry points, ...
THEOREM NativeEquityHolds == NativeSpec => EquityPreserved
<1>1. IInv /\ [NativeNext]_vars =>
        [now' = now =>
            \/ Surplus' = Surplus
            \/ 0 <= Surplus' /\ Surplus' < Surplus /\ UNCHANGED book]_vars
  BY NativeMovesValue, EquityKept DEF EquityStep
<1>. QED BY <1>1, NativeInvariance, PTL DEF NativeSpec, EquityPreserved

\* ... and in any other.
THEOREM EquityHolds == Spec => EquityPreserved
<1>1. IInv /\ [Next]_vars =>
        [now' = now =>
            \/ Surplus' = Surplus
            \/ 0 <= Surplus' /\ Surplus' < Surplus /\ UNCHANGED book]_vars
  BY StepMovesValue, EquityKept DEF EquityStep, NativeValueStep
<1>. QED BY <1>1, Invariance, PTL DEF Spec, EquityPreserved

\* The pool of the wrapped native token is well typed, its index histories are sound
\* and its interest is never negative either: its entry points skip the locks, not
\* the accounting.
THEOREM NativeSound ==
    NativeSpec => [](TypeOK /\ IndexHistory /\ InterestNeverNegative)
<1>1. ASSUME IInv PROVE InterestNeverNegative
  BY <1>1, IndexedValueBounds
     DEF IInv, TypeOK, IndexHistory, InterestNeverNegative, BalanceOf, GetBorrowed
<1>2. IInv => TypeOK /\ IndexHistory /\ InterestNeverNegative
  BY <1>1 DEF IInv
<1>. QED BY <1>2, NativeInvariance, PTL

\* A deposit falls only by what its owner receives in tokens or another depositor
\* receives in deposits.
THEOREM DepositsMove == Spec => DepositsOnlyMove
<1> DEFINE Covered(a) ==
        LET loss == BalanceOf(a) - BalanceOf(a)'
        IN \/ token'[a] - token[a] = loss
           \/ \E b \in Accounts \ {a} : BalanceOf(b)' - BalanceOf(b) = loss
<1>1. ASSUME IInv, [Next]_vars, now' = now, NEW a \in Accounts, BalanceOf(a)' < BalanceOf(a)
      PROVE  Covered(a)
  <2>1. /\ \A h \in Accounts : /\ h \in Holders /\ h # PoolAddr
                               /\ token[h] \in Nat /\ BalanceOf(h) \in Nat
        /\ PoolAddr \in Holders
    BY <1>1, PoolHere
  <2>2. ASSUME BalancesGrow({}, 0) PROVE FALSE
    BY <1>1, <2>1, <2>2 DEF BalancesGrow
  <2>3. ASSUME NEW u \in Accounts, NEW v \in Accounts, NEW n \in Nat, u # v, Transfers(u, v, n)
        PROVE  Covered(a)
    <3>1. BalanceOf(u)' = BalanceOf(u) - n /\ BalanceOf(v)' = BalanceOf(v) + n
      BY <2>1, <2>3 DEF Transfers, BalanceMoves
    <3>2. a = u
      BY <1>1, <2>1, <2>3 DEF Transfers, BalanceMoves
    <3>3. BalanceOf(v)' - BalanceOf(v) = BalanceOf(a) - BalanceOf(a)'
      BY <2>1, <3>1, <3>2
    <3>. QED BY <2>3, <3>2, <3>3
  <2>4. ASSUME NEW u \in Accounts, NEW v \in Accounts, NEW n \in Nat, Deposits(u, v, n)
        PROVE  FALSE
    BY <1>1, <2>1, <2>4 DEF Deposits, BalancesGrow
  <2>5. ASSUME NEW u \in Accounts, NEW n \in Nat, Withdraws(u, n)
        PROVE  Covered(a)
    <3>1. a = u /\ BalanceOf(a)' = BalanceOf(a) + (-n)
      BY <1>1, <2>1, <2>5 DEF Withdraws, BalancesGrow
    <3>2. token'[a] = token[a] + n
      BY <2>1, <2>5, <3>1 DEF Withdraws, TokensMove
    <3>. QED BY <2>1, <3>1, <3>2
  <2>. QED BY <1>1, StepMovesValue, <2>2, <2>3, <2>4, <2>5
           DEF ValueStep, Idles, Borrows, Repays, Recovers
<1>2. IInv /\ [Next]_vars =>
        [now' = now => \A a \in Accounts : BalanceOf(a)' < BalanceOf(a) =>
            LET loss == BalanceOf(a) - BalanceOf(a)'
            IN \/ token'[a] - token[a] = loss
               \/ \E b \in Accounts \ {a} : BalanceOf(b)' - BalanceOf(b) = loss]_vars
  BY <1>1
<1>. QED BY <1>2, Invariance, PTL DEF Spec, DepositsOnlyMove

\* A debt changes only with the tokens of the debtor.
THEOREM DebtsFollow == Spec => DebtsFollowTokens
<1>1. ASSUME IInv, [Next]_vars, now' = now, NEW a \in Accounts, GetBorrowed(a)' # GetBorrowed(a)
      PROVE  GetBorrowed(a)' - GetBorrowed(a) = token'[a] - token[a]
  <2>1. /\ a \in Holders /\ a # PoolAddr /\ token[a] \in Nat /\ GetBorrowed(a) \in Nat
    BY <1>1, PoolHere
  <2>2. ASSUME DebtsGrow({}, 0) PROVE FALSE
    BY <1>1, <2>1, <2>2 DEF DebtsGrow
  <2>3. ASSUME NEW u \in Accounts, NEW n \in Nat, Borrows(u, n)
        PROVE  GetBorrowed(a)' - GetBorrowed(a) = token'[a] - token[a]
    <3>1. a = u /\ GetBorrowed(a)' = GetBorrowed(a) + n
      BY <1>1, <2>1, <2>3 DEF Borrows, DebtsGrow
    <3>2. token'[a] = token[a] + n
      BY <2>1, <2>3, <3>1 DEF Borrows, TokensMove
    <3>. QED BY <2>1, <3>1, <3>2
  <2>4. ASSUME NEW u \in Accounts, NEW n \in Nat, Repays(u, n)
        PROVE  GetBorrowed(a)' - GetBorrowed(a) = token'[a] - token[a]
    <3>1. a = u /\ GetBorrowed(a)' = GetBorrowed(a) + (-n)
      BY <1>1, <2>1, <2>4 DEF Repays, DebtsGrow
    <3>2. token'[a] = token[a] - n
      BY <2>1, <2>4, <3>1 DEF Repays, TokensMove
    <3>. QED BY <2>1, <3>1, <3>2
  <2>. QED BY <1>1, StepMovesValue, <2>2, <2>3, <2>4
           DEF ValueStep, Idles, Transfers, Deposits, Withdraws, Recovers
<1>2. IInv /\ [Next]_vars =>
        [now' = now => \A a \in Accounts : GetBorrowed(a)' # GetBorrowed(a) =>
            GetBorrowed(a)' - GetBorrowed(a) = token'[a] - token[a]]_vars
  BY <1>1
<1>. QED BY <1>2, Invariance, PTL DEF Spec, DebtsFollowTokens

\* A locked deposit cannot leave: the balance of an account covers its locks that
\* have not expired, for any locks and any order of deposits, withdrawals, transfers
\* and passing time.
THEOREM LocksHold == Spec => []LockedIsCovered
<1>1. ASSUME Init PROVE LockedIsCovered
  <2>1. IInv
    BY <1>1, PoolAssumption, InitIInv
  <2>2. ASSUME NEW a \in Accounts PROVE LockedBalance(a) <= BalanceOf(a)
    <3>1. locks[a] = <<>>
      BY <1>1 DEF Init
    <3>2. LockedBalance(a) = SumFunctionOnSet(Actives(<<>>, now), {})
      BY <3>1, LockedIsSum DEF LockSum
    <3>3. LockedBalance(a) = 0
      BY <3>2, SumEmpty
    <3>. QED BY <2>1, <3>3, PoolHere
  <2>. QED BY <2>2 DEF LockedIsCovered
<1>. QED BY <1>1, CoverKept, Invariance, PTL DEF Spec

-----------------------------------------------------------------------------
(* The rewarder beside the pool *)

LEMMA BalancesNat == ASSUME IInv PROVE [a \in Accounts |-> BalanceOf(a)] \in [Accounts -> Nat]
BY IndexedValueBounds DEF IInv, TypeOK, IndexHistory, BalanceOf, Holders

\* A call on the rewarder itself leaves the pool's invariant to the rewarder.
LEMMA OnlyTheRewarder ==
    ASSUME IInv, UNCHANGED poolState,
           rewarder' \in Rewarders, RewardsNeverNegative(rewarder', now)
    PROVE  IInv'
BY DEF IInv, TypeOK, IndexHistory, poolState, book, config

LEMMA RewarderHere ==
    ASSUME IInv
    PROVE  rewarder \in Rewarders /\ now \in Times /\ RewardsNeverNegative(rewarder, now)
BY DEF IInv, TypeOK

LEMMA GetRewardsKeeps ==
    ASSUME IInv, NEW account \in Accounts, GetRewards(account) PROVE IInv'
<1> DEFINE up == UpdateReward(rewarder, now, {account})
           new == GetRewardsFor(rewarder, now, account)
<1>1. up \in Rewarders /\ UpdatedAt(up, now) /\ now \in Times
  BY RewarderHere, UpdateRewardOK
<1>2. up.funds = rewarder.funds /\ rewarder.funds \in Nat
  BY RewarderHere DEF UpdateReward, Rewarders
<1>3. Earned(rewarder, now, account) \in Nat
  BY RewarderHere, EarnedNat
<1>4. up.funds - Earned(rewarder, now, account) \in Nat
  BY <1>2, <1>3 DEF GetRewards
<1>5. new = [up EXCEPT !.rewards = [up.rewards EXCEPT ![account] = 0],
                       !.funds = up.funds - Earned(rewarder, now, account)]
  BY DEF GetRewardsFor
<1> HIDE DEF up, new
<1>6. new \in Rewarders
  BY <1>1, <1>4, <1>5 DEF Rewarders
<1>7. UpdatedAt(new, now)
  BY <1>1, <1>5 DEF Rewarders, UpdatedAt, LastTimeRewardApplicable
<1>8. RewardsNeverNegative(new, now)
  BY <1>1, <1>6, <1>7, UpdatedIsSound
<1>9. rewarder' = new /\ UNCHANGED poolState
  BY DEF GetRewards, new
<1>. QED BY <1>6, <1>8, <1>9, OnlyTheRewarder

LEMMA SetRewardsDurationKeeps ==
    ASSUME IInv, NEW duration \in Durations, SetRewardsDuration(duration) PROVE IInv'
<1>1. duration \in Nat
  BY RewarderAssumption
<1>2. rewarder' = [rewarder EXCEPT !.duration = duration] /\ UNCHANGED poolState
  BY DEF SetRewardsDuration
<1>3. rewarder' \in Rewarders
  BY <1>1, <1>2, RewarderHere DEF Rewarders
<1>4. RewardsNeverNegative(rewarder', now)
  BY <1>2, RewarderHere
     DEF Rewarders, RewardsNeverNegative, RewardPerToken, LastTimeRewardApplicable
<1>. QED BY <1>2, <1>3, <1>4, OnlyTheRewarder

LEMMA Reset ==
    ASSUME NEW rw \in Rewarders, NEW rate \in Nat, NEW finish \in Nat, NEW at \in Nat
    PROVE  [rw EXCEPT !.rewardRate = rate, !.finishAt = finish, !.updatedAt = at]
              \in Rewarders
BY DEF Rewarders

LEMMA Enrolled ==
    ASSUME NEW rw \in Rewarders, NEW stakes \in [Accounts -> Nat], NEW total \in Nat
    PROVE  [rw EXCEPT !.balanceOf = stakes, !.totalSupply = total] \in Rewarders
BY DEF Rewarders

LEMMA NotifyKeeps ==
    ASSUME IInv, NEW n \in Notifications, Notify(n) PROVE IInv'
<1> DEFINE funded == [rewarder EXCEPT !.funds = @ + n.sent]
           rate == NewRewardRate(rewarder, now, n.reward)
           up == UpdateReward(funded, now, {})
           new == NotifyRewardAmount(funded, now, n.reward)
<1>1. n.sent \in Nat /\ n.reward \in Nat /\ now \in Times /\ now \in Nat
  BY RewarderAssumption, RewarderHere DEF Times
<1>2. /\ rewarder \in Rewarders /\ rewarder.finishAt \in Nat /\ rewarder.duration \in Nat
      /\ rewarder.rewardRate \in Nat /\ rewarder.duration # 0
  BY RewarderHere DEF Rewarders, Notify
<1>3. rate \in Nat
  <2>1. CASE now >= rewarder.finishAt
    BY <2>1, <1>1, <1>2, DivNat DEF NewRewardRate
  <2>2. CASE ~(now >= rewarder.finishAt)
    <3>1. rewarder.finishAt - now \in Nat
      BY <2>2, <1>1, <1>2
    <3>2. (rewarder.finishAt - now) * rewarder.rewardRate \in Nat
      BY <3>1, <1>2, MulNat
    <3>. QED BY <2>2, <3>2, <1>1, <1>2, DivNat DEF NewRewardRate
  <2>. QED BY <2>1, <2>2
<1>4. /\ funded \in Rewarders /\ funded.duration = rewarder.duration
      /\ NewRewardRate(funded, now, n.reward) = rate
  BY <1>1, <1>2 DEF Rewarders, NewRewardRate
<1>5. RewardsNeverNegative(funded, now)
  BY <1>2, RewarderHere
     DEF Rewarders, RewardsNeverNegative, RewardPerToken, LastTimeRewardApplicable
<1> HIDE DEF rate, funded
<1>6. up \in Rewarders /\ UpdatedAt(up, now) /\ up.duration = rewarder.duration
  <2>1. up \in Rewarders /\ UpdatedAt(up, now)
    BY <1>1, <1>4, <1>5, UpdateRewardOK
  <2>2. up.duration = funded.duration
    BY <1>4 DEF UpdateReward, Rewarders
  <2>. QED BY <2>1, <2>2, <1>4
<1>7. new = [up EXCEPT !.rewardRate = rate, !.finishAt = now + rewarder.duration,
                       !.updatedAt = now]
  BY <1>4 DEF NotifyRewardAmount
<1> HIDE DEF up, new
<1>8. new \in Rewarders
  <2>1. now + rewarder.duration \in Nat
    BY <1>1, <1>2
  <2>. QED BY <1>1, <1>3, <1>6, <1>7, <2>1, Reset
<1>9. UpdatedAt(new, now)
  BY <1>1, <1>2, <1>6, <1>7 DEF Rewarders, UpdatedAt, LastTimeRewardApplicable, Least
<1>10. RewardsNeverNegative(new, now)
  BY <1>1, <1>8, <1>9, UpdatedIsSound
<1>11. rewarder' = new /\ UNCHANGED poolState
  BY DEF Notify, new, funded
<1>. QED BY <1>8, <1>10, <1>11, OnlyTheRewarder

LEMMA AddDepositsKeeps ==
    ASSUME IInv, NEW accounts, AddDepositsOf(accounts) PROVE IInv'
<1> DEFINE balances == [a \in Accounts |-> BalanceOf(a)]
           known == accounts \cap Accounts
           up == UpdateReward(rewarder, now, known)
           new == AddDeposits(rewarder, now, accounts, balances)
<1>1. balances \in [Accounts -> Nat]
  BY BalancesNat
<1>2. up \in Rewarders /\ UpdatedAt(up, now) /\ now \in Times
  BY RewarderHere, UpdateRewardOK
<1>3. UpdateReward(rewarder, now, accounts) = up
  BY DEF UpdateReward
<1>4. new.totalSupply \in Nat
  BY DEF AddDepositsOf, CanAddDeposits
<1> HIDE DEF balances, up
<1>5. new = [up EXCEPT !.balanceOf = [a \in Accounts |->
                            IF a \in accounts THEN balances[a] ELSE up.balanceOf[a]],
                       !.totalSupply = new.totalSupply]
  BY <1>2, <1>3 DEF AddDeposits, Rewarders
<1> HIDE DEF new
<1>6. new \in Rewarders
  <2> DEFINE stakes == [a \in Accounts |->
                           IF a \in accounts THEN balances[a] ELSE up.balanceOf[a]]
  <2>1. stakes \in [Accounts -> Nat]
    BY <1>1, <1>2 DEF Rewarders
  <2>2. new = [up EXCEPT !.balanceOf = stakes, !.totalSupply = new.totalSupply]
    BY <1>5
  <2> HIDE DEF stakes
  <2>3. \A total \in Nat :
            [up EXCEPT !.balanceOf = stakes, !.totalSupply = total] \in Rewarders
    BY <1>2, <2>1, Enrolled
  <2>. QED BY <1>4, <2>2, <2>3
<1>7. UpdatedAt(new, now)
  BY <1>2, <1>5 DEF Rewarders, UpdatedAt, LastTimeRewardApplicable
<1>8. RewardsNeverNegative(new, now)
  BY <1>2, <1>6, <1>7, UpdatedIsSound
<1>9. rewarder' = new /\ UNCHANGED poolState
  BY DEF AddDepositsOf, new, balances
<1>. QED BY <1>6, <1>8, <1>9, OnlyTheRewarder

LEMMA LaunchKeeps == IInv /\ [LaunchNext]_launchVars => IInv'
<1> SUFFICES ASSUME IInv, [LaunchNext]_launchVars PROVE IInv'
  OBVIOUS
<1>1. CASE UNCHANGED vars
  BY <1>1, NextKeepsIInv
<1>2. CASE LaunchStep
  <2>1. CASE StartListing \/ FetchPage \/ FetchFails \/ BatchFails
    BY <2>1, <1>1 DEF StartListing, FetchPage, FetchFails, BatchFails
  <2>2. CASE ProcessBatch
    BY <2>2, AddDepositsKeeps DEF ProcessBatch
  <2>. QED BY <1>2, <2>1, <2>2 DEF LaunchStep
<1>3. CASE Next
  BY <1>3, NextKeepsIInv
<1>4. CASE RewarderStep
  BY <1>4, GetRewardsKeeps, SetRewardsDurationKeeps, NotifyKeeps, AddDepositsKeeps
     DEF RewarderStep, Accounts
<1>5. CASE UNCHANGED launchVars
  BY <1>1, <1>5 DEF launchVars
<1>. QED BY <1>2, <1>3, <1>4, <1>5 DEF LaunchNext

\* The two checked subtractions that every stake, withdrawal and claim evaluates
\* never underflow, so a rewarder never blocks deposits or withdrawals: for any
\* accounts, amounts, periods and notifications, and however the scripts that
\* enrol a running pool's holders proceed.
THEOREM NeverBlocks == LaunchSpec => []RewarderNeverBlocks
<1>1. LaunchInit => IInv
  BY PoolAssumption, InitIInv DEF LaunchInit
<1>2. IInv => RewarderNeverBlocks
  BY DEF IInv, RewarderNeverBlocks
<1>. QED BY <1>1, <1>2, LaunchKeeps, PTL DEF LaunchSpec
-----------------------------------------------------------------------------
(* The stakes of the accounts add up to the total that divides the rewards *)

Consistent(rw) == rw.totalSupply = SumFunction(rw.balanceOf)

\* What a stake and a withdrawal have in common: the account's rewards are
\* brought up to date, and its stake and the total change by the same amount.
Restakes(rw, new, t) ==
    \E a \in Accounts, stake \in Nat, total \in Nat :
        /\ total - rw.totalSupply = stake - rw.balanceOf[a]
        /\ new = Restaked(UpdateReward(rw, t, {a}), a, stake, total)

LEMMA AccountsFinite == IsFiniteSet(Accounts)
BY PoolBaseAssumption, FS_Union DEF Accounts

LEMMA StakeForRestakes ==
    ASSUME NEW rw \in Rewarders, NEW t \in Times, NEW amount \in Nat, NEW a \in Accounts
    PROVE  Restakes(rw, StakeFor(rw, t, amount, a), t)
<1> DEFINE stake == rw.balanceOf[a] + amount
           total == rw.totalSupply + amount
<1>1. rw.balanceOf[a] \in Nat /\ rw.totalSupply \in Nat
  BY DEF Rewarders
<1>2. stake \in Nat /\ total \in Nat /\ total - rw.totalSupply = stake - rw.balanceOf[a]
  BY <1>1
<1>3. StakeFor(rw, t, amount, a) = Restaked(UpdateReward(rw, t, {a}), a, stake, total)
  BY DEF StakeFor
<1> HIDE DEF stake, total
<1>. QED BY <1>2, <1>3 DEF Restakes

LEMMA WithdrawForRestakes ==
    ASSUME NEW rw \in Rewarders, NEW t \in Times, NEW amount \in Nat, NEW a \in Accounts,
           CanWithdrawFor(rw, amount, a)
    PROVE  Restakes(rw, WithdrawFor(rw, t, amount, a), t)
<1> DEFINE out == Unstaked(rw, amount, a)
           stake == rw.balanceOf[a] - out
           total == rw.totalSupply - out
<1>1. rw.balanceOf[a] \in Nat /\ rw.totalSupply \in Nat
  BY DEF Rewarders
<1>2. out \in Nat /\ out <= rw.balanceOf[a] /\ out <= rw.totalSupply
  BY <1>1 DEF Unstaked, Least, CanWithdrawFor
<1>3. stake \in Nat /\ total \in Nat /\ total - rw.totalSupply = stake - rw.balanceOf[a]
  <2> HIDE DEF out
  <2>. QED BY <1>1, <1>2
<1>4. WithdrawFor(rw, t, amount, a) = Restaked(UpdateReward(rw, t, {a}), a, stake, total)
  BY DEF WithdrawFor
<1> HIDE DEF out, stake, total
<1>. QED BY <1>3, <1>4 DEF Restakes

\* A rewarder that has been through at most two restakes in the block.
Moved(rw, new, t) ==
    \/ new = rw
    \/ Restakes(rw, new, t)
    \/ \E mid \in Rewarders : /\ RewardsNeverNegative(mid, t)
                              /\ Restakes(rw, mid, t)
                              /\ Restakes(mid, new, t)

LEMMA StakeFollows ==
    ASSUME IInv, NEW u \in Accounts, NEW v \in Accounts, NEW amount \in Nat,
           MoveStake(u, v, amount)
    PROVE  Moved(rewarder, rewarder', now)
<1> DEFINE unstaked == Unstaked(rewarder, amount, u)
           withdrawn == WithdrawFor(rewarder, now, amount, u)
<1>1. CASE UNCHANGED rewarder
  BY <1>1 DEF Moved
<1>2. CASE /\ CanWithdrawFor(rewarder, amount, u)
           /\ rewarder' = IF unstaked > 0
                          THEN StakeFor(withdrawn, now, unstaked, v)
                          ELSE withdrawn
  <2>1. /\ withdrawn \in Rewarders /\ RewardsNeverNegative(withdrawn, now)
        /\ unstaked \in Nat
    BY <1>2, RewarderHere, WithdrawForOK
  <2>2. Restakes(rewarder, withdrawn, now)
    BY <1>2, RewarderHere, WithdrawForRestakes
  <2>3. Restakes(withdrawn, StakeFor(withdrawn, now, unstaked, v), now)
    BY <2>1, RewarderHere, StakeForRestakes
  <2> HIDE DEF withdrawn, unstaked
  <2>. QED BY <1>2, <2>1, <2>2, <2>3 DEF Moved
<1>. QED BY <1>1, <1>2 DEF MoveStake

\* What a step of the pool does to the rewarder.
LEMMA PoolMovesRewarder == IInv /\ [Next]_vars => Moved(rewarder, rewarder', now)
<1> SUFFICES ASSUME IInv, [Next]_vars PROVE Moved(rewarder, rewarder', now)
  OBVIOUS
<1>0. /\ rewarder \in Rewarders /\ now \in Times
      /\ Depositors \subseteq Accounts
  BY RewarderHere DEF Accounts
<1>1. CASE DepositorStep
  <2>1. PICK u \in Depositors :
           \/ \E of \in Depositors, amount \in Amounts.deposit :
                  DepositOnBehalf(u, of, amount)
           \/ \E amount \in Amounts.withdraw : Withdraw(u, amount)
           \/ \E v \in Depositors, amount \in Amounts.transfer : Transfer(u, v, amount)
           \/ \E s, v \in Depositors, amount \in Amounts.transfer :
                  TransferFrom(s, u, v, amount)
           \/ \E amount \in Amounts.lock, lockTime \in LockTimes :
                  LockDeposit(u, amount, lockTime)
    BY <1>1 DEF DepositorStep
  <2>2. ASSUME NEW of \in Depositors, NEW amount \in Amounts.deposit,
               DepositOnBehalf(u, of, amount)
        PROVE  Moved(rewarder, rewarder', now)
    <3>1. PICK n \in Nat : TakeDeposit(u, of, n)
      <4>1. amount \in Nat
        BY PoolAssumption
      <4>2. Least(amount, token[u]) \in Nat
        BY <4>1, <1>0 DEF Least, IInv, TypeOK, Holders
      <4>. QED BY <2>2, <4>2 DEF DepositOnBehalf
    <3>2. rewarder' = rewarder \/ rewarder' = StakeFor(rewarder, now, n, of)
      BY <3>1 DEF TakeDeposit
    <3>. QED BY <3>2, <1>0, StakeForRestakes DEF Moved
  <2>3. ASSUME NEW amount \in Amounts.withdraw, Withdraw(u, amount)
        PROVE  Moved(rewarder, rewarder', now)
    <3>1. PICK n \in Nat : PayOut(u, n)
      <4>1. amount \in Nat
        BY PoolAssumption
      <4>2. BalanceOf(u) \in Nat
        BY <1>0, IndexedValueBounds DEF IInv, TypeOK, IndexHistory, BalanceOf, Holders
      <4>3. Least(amount, BalanceOf(u)) \in Nat
        BY <4>1, <4>2 DEF Least
      <4>. QED BY <2>3, <4>3 DEF Withdraw
    <3>2. \/ rewarder' = rewarder
          \/ CanWithdrawFor(rewarder, n, u) /\ rewarder' = WithdrawFor(rewarder, now, n, u)
      BY <3>1 DEF PayOut
    <3>. QED BY <3>2, <1>0, WithdrawForRestakes DEF Moved
  <2>4. ASSUME NEW v \in Depositors, NEW amount \in Amounts.transfer,
               MoveDeposit(u, v, amount)
        PROVE  Moved(rewarder, rewarder', now)
    <3>1. amount \in Nat
      BY PoolAssumption
    <3>. QED BY <2>4, <3>1, <1>0, StakeFollows DEF MoveDeposit
  <2>5. ASSUME NEW amount, NEW lockTime, LockDeposit(u, amount, lockTime)
        PROVE  Moved(rewarder, rewarder', now)
    BY <2>5 DEF LockDeposit, Moved
  <2>. QED BY <2>1, <2>2, <2>3, <2>4, <2>5 DEF Transfer, TransferFrom
<1>2. CASE AllowanceStep
  BY <1>2 DEF AllowanceStep, Approve, IncreaseAllowance, DecreaseAllowance, SetAllowance,
              Moved
<1>3. CASE BorrowerStep
  BY <1>3 DEF BorrowerStep, Borrow, Repay, Moved
<1>4. CASE OwnerStep
  BY <1>4 DEF OwnerStep, RecoverSurplus, SetRatesCalculator, SetPoolRewarder,
              SetTotalSupplyCap, SetBorrowersRegistry, SetSpread, Moved
<1>5. CASE Tick \/ UNCHANGED vars
  BY <1>5 DEF Tick, vars, Moved
<1>. QED BY <1>1, <1>2, <1>3, <1>4, <1>5 DEF Next

\* The accounts of the scripts are depositors.
Scripts == [phase : {"off", "planned", "listing", "saved", "done"},
            order : Seq(Depositors), page : Nat \ {0}, found : Seq(Depositors),
            smooth : BOOLEAN]
ScriptOK == script \in Scripts

\* The rank of a place among others is the number of them up to it: there is one
\* of each rank.
LEMMA EveryRank ==
    ASSUME NEW n \in Nat, NEW P \in SUBSET (1..n), NEW k \in 1..Cardinality(P)
    PROVE  \E i \in P : Cardinality({j \in P : j <= i}) = k
<1> DEFINE upTo(i) == {j \in P : j <= i}
<1>1. /\ \A j \in P : j \in Int /\ 1 <= j /\ j <= n
      /\ IsFiniteSet(P) /\ Cardinality(P) \in Nat
  <2>1. IsFiniteSet(1..n)
    BY FS_Interval
  <2>2. IsFiniteSet(P)
    BY <2>1, FS_Subset
  <2>. QED BY <2>2, FS_CardinalityType
<1>2. \A i : IsFiniteSet(upTo(i)) /\ Cardinality(upTo(i)) \in Nat
  <2> SUFFICES ASSUME NEW i PROVE IsFiniteSet(upTo(i)) /\ Cardinality(upTo(i)) \in Nat
    OBVIOUS
  <2>1. upTo(i) \in SUBSET P
    OBVIOUS
  <2>2. IsFiniteSet(upTo(i))
    BY <1>1, <2>1, FS_Subset
  <2>. QED BY <2>2, FS_CardinalityType
<1>3. upTo(n) = P /\ upTo(0) = {}
  <2>1. \A j \in P : j <= n /\ ~ (j <= 0)
    BY <1>1
  <2>. QED BY <2>1
<1>4. ASSUME NEW i \in 1..n
      PROVE  Cardinality(upTo(i)) = Cardinality(upTo(i - 1)) + (IF i \in P THEN 1 ELSE 0)
  <2>1. \A j \in P : j <= i <=> j <= i - 1 \/ j = i
    BY <1>1
  <2>2. \A j : j \in upTo(i) <=> j \in upTo(i - 1) \/ (j = i /\ i \in P)
    BY <2>1
  <2>3. ~ (i <= i - 1)
    OBVIOUS
  <2>4. i \notin upTo(i - 1)
    BY <2>3
  <2> DEFINE below == upTo(i - 1)
  <2>5. IsFiniteSet(below) /\ Cardinality(below) \in Nat
    BY <1>2
  <2> HIDE DEF upTo
  <2>6. upTo(i) = IF i \in P THEN below \cup {i} ELSE below
    BY <2>2
  <2>7. i \notin below
    BY <2>4
  <2> HIDE DEF below
  <2>8. Cardinality(upTo(i)) = Cardinality(below) + (IF i \in P THEN 1 ELSE 0)
    <3>1. Cardinality(below \cup {i}) = Cardinality(below) + 1
      BY <2>5, <2>7, FS_AddElement
    <3>2. CASE i \in P
      BY <3>1, <3>2, <2>6
    <3>3. CASE i \notin P
      BY <3>3, <2>5, <2>6
    <3>. QED BY <3>2, <3>3
  <2>. QED BY <2>8 DEF below
<1> HIDE DEF upTo
<1> DEFINE N == {i \in 0..n : Cardinality(upTo(i)) >= k}
<1>5. PICK i \in N : \A j \in N : i <= j
  <2>1. N \subseteq Nat /\ n \in N
    BY <1>1, <1>3
  <2> HIDE DEF N
  <2>. QED BY <2>1, SmallestNumber
<1>6. i # 0
  BY <1>1, <1>3, FS_EmptySet
<1>7. i \in 1..n /\ i - 1 \in 0..n /\ i - 1 \notin N
  <2>1. i \in 1..n /\ i - 1 \in 0..n
    BY <1>6
  <2>2. i - 1 < i
    BY <2>1
  <2> HIDE DEF N
  <2>. QED BY <2>1, <2>2, <1>5
<1>8. i \in P /\ Cardinality(upTo(i)) = k
  BY <1>1, <1>2, <1>4, <1>7
<1>. QED BY <1>8 DEF upTo

LEMMA HoldingOK == ASSUME ScriptOK PROVE Holding \in Seq(Depositors)
<1> DEFINE places == {i \in DOMAIN script.order : BalanceOf(script.order[i]) > 0}
           place(k) == CHOOSE i \in places : Cardinality({j \in places : j <= i}) = k
<1>1. script.order \in Seq(Depositors)
  BY DEF ScriptOK, Scripts
<1>2. PICK n \in Nat : DOMAIN script.order = 1..n
  BY <1>1
<1>3. places \subseteq 1..n
  BY <1>2
<1>4. \A k \in 1..Cardinality(places) : place(k) \in places
  <2> SUFFICES ASSUME NEW k \in 1..Cardinality(places) PROVE place(k) \in places
    OBVIOUS
  <2>1. places \in SUBSET (1..n)
    BY <1>3
  <2> HIDE DEF places
  <2>2. \E i \in places : Cardinality({j \in places : j <= i}) = k
    BY <2>1, EveryRank
  <2>. QED BY <2>2
<1>5. \A k \in 1..Cardinality(places) : script.order[place(k)] \in Depositors
  <2> HIDE DEF places, place
  <2>1. \A i \in 1..n : script.order[i] \in Depositors
    BY <1>1, <1>2
  <2>. QED BY <2>1, <1>3, <1>4
<1>6. Cardinality(places) \in Nat
  <2>1. IsFiniteSet(1..n)
    BY FS_Interval
  <2>2. IsFiniteSet(places)
    BY <1>3, <2>1, FS_Subset
  <2>. QED BY <2>2, FS_CardinalityType
<1>7. Holding = [k \in 1..Cardinality(places) |-> script.order[place(k)]]
  BY DEF Holding
<1> HIDE DEF places, place
<1>. QED BY <1>5, <1>6, <1>7

LEMMA SliceOK ==
    ASSUME NEW s \in Seq(Depositors), NEW i \in Nat \ {0}, NEW n \in Nat
    PROVE  Slice(s, i, n) \in Seq(Depositors)
<1>1. Least(i + n - 1, Len(s)) \in Nat /\ Least(i + n - 1, Len(s)) <= Len(s)
  BY DEF Least
<1>. QED BY <1>1 DEF Slice

LEMMA BatchOK == ASSUME ScriptOK PROVE Range(Batch) \subseteq Depositors
<1>1. Batch \in Seq(Depositors)
  BY SliceOK, LaunchAssumption DEF ScriptOK, Scripts, Batch
<1>. QED BY <1>1 DEF Range

LEMMA StoredFields ==
    ASSUME NEW rw \in Rewarders, NEW t, NEW accounts
    PROVE  LET up == UpdateReward(rw, t, accounts)
           IN  /\ up.balanceOf = rw.balanceOf /\ up.totalSupply = rw.totalSupply
               /\ up.funds = rw.funds /\ up.rewardRate = rw.rewardRate
               /\ up.finishAt = rw.finishAt /\ up.duration = rw.duration
               /\ up.rewardPerTokenStored = RewardPerToken(rw, t)
               /\ up.updatedAt = LastTimeRewardApplicable(rw, t)
BY DEF UpdateReward, Rewarders

LEMMA RestakeKeepsTotal ==
    ASSUME NEW rw \in Rewarders, NEW t \in Times, RewardsNeverNegative(rw, t), NEW new,
           Restakes(rw, new, t), Consistent(rw)
    PROVE  Consistent(new)
<1>1. PICK a \in Accounts, stake \in Nat, total \in Nat :
         /\ total - rw.totalSupply = stake - rw.balanceOf[a]
         /\ new = Restaked(UpdateReward(rw, t, {a}), a, stake, total)
  BY DEF Restakes
<1> DEFINE up == UpdateReward(rw, t, {a})
           old == rw.balanceOf
           stakes == [old EXCEPT ![a] = stake]
<1>2. up \in Rewarders /\ up.balanceOf = old /\ up.totalSupply = rw.totalSupply
  BY UpdateRewardOK
<1> HIDE DEF up
<1>3. new.balanceOf = stakes /\ new.totalSupply = total
  BY <1>1, <1>2 DEF Restaked, Rewarders, up
<1>4. old \in [Accounts -> Nat] /\ rw.totalSupply \in Nat
  BY DEF Rewarders
<1>5. /\ DOMAIN stakes = Accounts /\ stakes[a] = stake
      /\ \A b \in Accounts : old[b] \in Int /\ stakes[b] \in Int
      /\ \A b \in Accounts \ {a} : stakes[b] = old[b]
  BY <1>4
<1>6. rw.totalSupply = SumFunctionOnSet(old, Accounts)
  BY <1>4 DEF Consistent, SumFunction
<1>7. old[a] \in Nat
  BY <1>4
<1> HIDE DEF stakes, old
<1>8. SumFunctionOnSet(stakes, Accounts) = SumFunctionOnSet(old, Accounts) - old[a] + stakes[a]
  BY <1>5, AccountsFinite, SumChanged
<1>9. total = SumFunctionOnSet(stakes, Accounts)
  BY <1>1, <1>4, <1>5, <1>6, <1>7, <1>8 DEF old
<1>. QED BY <1>3, <1>5, <1>9 DEF Consistent, SumFunction

LEMMA MoveKeepsTotal ==
    ASSUME NEW rw \in Rewarders, NEW t \in Times, RewardsNeverNegative(rw, t), NEW new,
           Moved(rw, new, t), Consistent(rw)
    PROVE  Consistent(new)
BY RestakeKeepsTotal DEF Moved

LEMMA EnrolKeepsTotal ==
    ASSUME NEW rw \in Rewarders, NEW t \in Times, Consistent(rw),
           NEW accounts \in SUBSET Accounts, NEW balances \in [Accounts -> Nat]
    PROVE  Consistent(AddDeposits(rw, t, accounts, balances))
<1> DEFINE new == AddDeposits(rw, t, accounts, balances)
           old == rw.balanceOf
           stakes == [a \in Accounts |-> IF a \in accounts THEN balances[a] ELSE old[a]]
           rise == [a \in Accounts |-> balances[a] - old[a]]
<1>1. /\ new.balanceOf = stakes
      /\ new.totalSupply = rw.totalSupply + SumFunctionOnSet(rise, accounts)
  BY DEF AddDeposits, UpdateReward, Rewarders
<1>2. old \in [Accounts -> Nat]
  BY DEF Rewarders
<1>3. /\ DOMAIN stakes = Accounts
      /\ \A a \in Accounts : old[a] \in Int
      /\ \A a \in accounts : rise[a] \in Int
      /\ \A a \in Accounts : stakes[a] = IF a \in accounts THEN old[a] + rise[a] ELSE old[a]
  BY <1>2
<1>4. rw.totalSupply = SumFunctionOnSet(old, Accounts)
  BY <1>2 DEF Consistent, SumFunction
<1> HIDE DEF new, old, stakes, rise
<1>5. SumFunctionOnSet(stakes, Accounts)
        = SumFunctionOnSet(old, Accounts) + SumFunctionOnSet(rise, accounts)
  BY <1>3, AccountsFinite, SumShifted
<1>. QED BY <1>1, <1>3, <1>4, <1>5 DEF Consistent, SumFunction, new

LEMMA ScriptKeeps == ScriptOK /\ IInv /\ [LaunchNext]_launchVars => ScriptOK'
<1> SUFFICES ASSUME ScriptOK, IInv, [LaunchNext]_launchVars PROVE ScriptOK'
  OBVIOUS
<1>1. hasRewarder \in BOOLEAN
  BY DEF IInv, TypeOK
<1>2. ASSUME NEW accounts \in Seq(Depositors) PROVE Left(accounts) \in Scripts
  BY <1>2 DEF ScriptOK, Scripts, Left
<1>3. CASE StartListing
  BY <1>1, <1>3 DEF StartListing, ScriptOK, Scripts
<1>4. CASE FetchPage
  <2> DEFINE data == Slice(Holding, (script.page - 1) * PageLimit + 1, PageLimit)
  <2>1. (script.page - 1) * PageLimit + 1 \in Nat \ {0}
    BY LaunchAssumption, MulNat DEF ScriptOK, Scripts
  <2>2. data \in Seq(Depositors)
    BY <2>1, HoldingOK, SliceOK, LaunchAssumption
  <2> HIDE DEF data
  <2>3. script.found \in Seq(Depositors) /\ script.found \o data \in Seq(Depositors)
    BY <2>2 DEF ScriptOK, Scripts
  <2>4. script' = IF data = <<>> THEN Left(script.found)
                  ELSE [script EXCEPT !.found = script.found \o data,
                                      !.page = script.page + 1]
    BY <1>4 DEF FetchPage, data
  <2>5. ASSUME NEW found \in Seq(Depositors)
        PROVE  [script EXCEPT !.found = found, !.page = script.page + 1] \in Scripts
    <3>1. script.page + 1 \in Nat \ {0}
      BY DEF ScriptOK, Scripts
    <3>. QED BY <2>5, <3>1 DEF ScriptOK, Scripts
  <2>6. Left(script.found) \in Scripts
    BY <1>2, <2>3
  <2>. QED BY <2>3, <2>4, <2>5, <2>6 DEF ScriptOK, Scripts
<1>5. CASE FetchFails
  BY <1>2, <1>5 DEF FetchFails, ScriptOK, Scripts, Left
<1>6. CASE ProcessBatch \/ BatchFails
  <2>1. SubSeq(script.found, BatchSize + 1, Len(script.found)) \in Seq(Depositors)
    BY LaunchAssumption DEF ScriptOK, Scripts
  <2> DEFINE rest == SubSeq(script.found, BatchSize + 1, Len(script.found))
             left == Left(rest)
  <2>2. BatchSent = left
    BY DEF BatchSent
  <2>3. left \in Scripts
    BY <1>2, <2>1
  <2> HIDE DEF left
  <2>4. script' = left \/ script' = [left EXCEPT !.smooth = FALSE]
    BY <1>6, <2>2 DEF ProcessBatch, BatchFails
  <2>. QED BY <2>3, <2>4 DEF ScriptOK, Scripts
<1>7. CASE Meanwhile
  <2>1. PICK calm \in BOOLEAN : script' = [script EXCEPT !.smooth = @ /\ calm]
    BY <1>7 DEF Meanwhile
  <2>. QED BY <2>1 DEF ScriptOK, Scripts
<1>8. CASE UNCHANGED script
  BY <1>8 DEF ScriptOK, Scripts
<1>. QED BY <1>3, <1>4, <1>5, <1>6, <1>7, <1>8 DEF LaunchNext, LaunchStep, launchVars

Balanced == IInv /\ ScriptOK /\ Consistent(rewarder)

LEMMA InitBalanced == LaunchInit => Balanced
<1> SUFFICES ASSUME LaunchInit PROVE Balanced
  OBVIOUS
<1>1. IInv
  BY PoolAssumption, InitIInv DEF LaunchInit
<1>2. ScriptOK
  <2>1. Cardinality(Depositors) \in Nat
    BY PoolBaseAssumption, FS_CardinalityType
  <2>2. \A o \in Orders : o \in Seq(Depositors)
    BY <2>1 DEF Orders
  <2>3. ASSUME NEW phase \in {"off", "planned"}, NEW order \in Seq(Depositors)
        PROVE  Script(phase, order) \in Scripts
    BY <2>3 DEF Script, Scripts
  <2>4. \E order \in Seq(Depositors) :
           script = Script("off", order) \/ script = Script("planned", order)
    <3>1. CASE script = Script("off", <<>>)
      <4>1. <<>> \in Seq(Depositors)
        OBVIOUS
      <4>. QED BY <3>1, <4>1, Zenon
    <3>2. CASE \E order \in Orders : script = Script("planned", order)
      BY <2>2, <3>2
    <3>. QED BY <3>1, <3>2 DEF LaunchInit
  <2>. QED BY <2>3, <2>4 DEF ScriptOK
<1>3. Consistent(rewarder)
  <2> DEFINE none == [a \in Accounts |-> 0]
  <2>1. SumFunctionOnSet(none, Accounts) = 0
    BY AccountsFinite, SumZero
  <2>2. rewarder.balanceOf = none /\ rewarder.totalSupply = 0
    BY DEF LaunchInit, Init, NewRewarder
  <2>3. DOMAIN none = Accounts
    OBVIOUS
  <2> HIDE DEF none
  <2>. QED BY <2>1, <2>2, <2>3 DEF Consistent, SumFunction
<1>. QED BY <1>1, <1>2, <1>3 DEF Balanced

LEMMA StaysBalanced == Balanced /\ [LaunchNext]_launchVars => Balanced'
<1> SUFFICES ASSUME Balanced, [LaunchNext]_launchVars PROVE Consistent(rewarder')
  BY LaunchKeeps, ScriptKeeps DEF Balanced, Consistent
<1>0. rewarder \in Rewarders /\ now \in Times /\ RewardsNeverNegative(rewarder, now)
  BY RewarderHere DEF Balanced
<1>1. CASE [Next]_vars
  <2>1. Moved(rewarder, rewarder', now)
    BY <1>1, PoolMovesRewarder DEF Balanced
  <2>. QED BY <2>1, <1>0, MoveKeepsTotal DEF Balanced
<1>2. ASSUME NEW accounts \in SUBSET Depositors, AddDepositsOf(accounts)
      PROVE  Consistent(rewarder')
  <2> DEFINE balances == [a \in Accounts |-> BalanceOf(a)]
  <2>1. balances \in [Accounts -> Nat] /\ accounts \in SUBSET Accounts
    BY BalancesNat DEF Accounts, Balanced
  <2>2. rewarder' = AddDeposits(rewarder, now, accounts, balances)
    BY <1>2 DEF AddDepositsOf
  <2> HIDE DEF balances
  <2>. QED BY <1>0, <2>1, <2>2, EnrolKeepsTotal DEF Balanced
<1>3. CASE RewarderStep
  <2>1. ASSUME NEW account, GetRewards(account) PROVE Consistent(rewarder')
    <3>1. rewarder'.balanceOf = rewarder.balanceOf
          /\ rewarder'.totalSupply = rewarder.totalSupply
      BY <1>0, <2>1 DEF GetRewards, GetRewardsFor, UpdateReward, Rewarders
    <3>. QED BY <3>1 DEF Consistent, Balanced
  <2>2. ASSUME NEW duration, SetRewardsDuration(duration) PROVE Consistent(rewarder')
    BY <1>0, <2>2 DEF SetRewardsDuration, Rewarders, Consistent, Balanced
  <2>3. ASSUME NEW n, Notify(n) PROVE Consistent(rewarder')
    <3>1. rewarder'.balanceOf = rewarder.balanceOf
          /\ rewarder'.totalSupply = rewarder.totalSupply
      BY <1>0, <2>3 DEF Notify, NotifyRewardAmount, UpdateReward, Rewarders
    <3>. QED BY <3>1 DEF Consistent, Balanced
  <2>. QED BY <1>2, <1>3, <2>1, <2>2, <2>3 DEF RewarderStep
<1>4. CASE ProcessBatch
  BY <1>2, <1>4, BatchOK DEF ProcessBatch, Balanced
<1>. QED BY <1>1, <1>3, <1>4
         DEF LaunchNext, LaunchStep, StartListing, FetchPage, FetchFails, BatchFails,
             launchVars, Balanced

\* The number that divides every reward, kept by its own additions and
\* subtractions through stakes, withdrawals, transfers and the batches that enrol
\* a running pool's holders, is the sum of what it stands for.
THEOREM TotalIsTheStakes == LaunchSpec => []StakesAddUp
<1>1. Balanced => StakesAddUp
  BY DEF Balanced, Consistent, StakesAddUp
<1>. QED BY <1>1, InitBalanced, StaysBalanced, PTL DEF LaunchSpec

-----------------------------------------------------------------------------
(* Claims are covered.  In units of a WAD-th of a reward token, what accounts *)
(* are owed at the stored reward per token and what the running period still  *)
(* has to pay never exceed what the rewarder holds.  Time plays no part in    *)
(* it: a rewarder changes only when it is updated.                            *)

OwedTo(rw, p) ==
    [a \in Accounts |-> rw.balanceOf[a] * (p - rw.userRewardPerTokenPaid[a])
                          + WAD * rw.rewards[a]]
Owed(rw, p) == SumFunctionOnSet(OwedTo(rw, p), Accounts)

ToPay(rw) == rw.rewardRate * (rw.finishAt - rw.updatedAt)

Covered(rw) ==
    Owed(rw, rw.rewardPerTokenStored) + WAD * ToPay(rw) <= WAD * rw.funds

LEMMA OwedInt ==
    ASSUME NEW rw \in Rewarders, NEW p \in Nat
    PROVE  /\ \A a \in Accounts : OwedTo(rw, p)[a] \in Int
           /\ Owed(rw, p) \in Int
<1>1. ASSUME NEW a \in Accounts PROVE OwedTo(rw, p)[a] \in Int
  <2>1. /\ rw.balanceOf[a] \in Nat /\ rw.userRewardPerTokenPaid[a] \in Nat
        /\ rw.rewards[a] \in Nat
    BY DEF Rewarders
  <2>2. WAD * rw.rewards[a] \in Nat
    BY <2>1, ScaleNat, MulNat
  <2> DEFINE d == p - rw.userRewardPerTokenPaid[a]
  <2>3. d \in Int
    BY <2>1
  <2> HIDE DEF d
  <2>4. rw.balanceOf[a] * d \in Int
    BY <2>1, <2>3
  <2>. QED BY <2>2, <2>4 DEF OwedTo, d
<1>. QED BY <1>1, AccountsFinite, SumInt DEF Owed

\* A higher reward per token is owed for every token staked.
LEMMA OwedGrows ==
    ASSUME NEW rw \in Rewarders, NEW p \in Nat, NEW q \in Nat
    PROVE  Owed(rw, q) = Owed(rw, p) + (q - p) * SumFunctionOnSet(rw.balanceOf, Accounts)
<1> DEFINE d == q - p
           f == OwedTo(rw, p)
           h == OwedTo(rw, q)
           g == rw.balanceOf
<1>1. d \in Int
  OBVIOUS
<1>2. ASSUME NEW a \in Accounts PROVE g[a] \in Int /\ h[a] = f[a] + d * g[a]
  <2> DEFINE b == rw.balanceOf[a]
             r == WAD * rw.rewards[a]
             paid == rw.userRewardPerTokenPaid[a]
  <2>1. b \in Nat /\ paid \in Nat /\ rw.rewards[a] \in Nat
    BY DEF Rewarders
  <2>2. r \in Nat
    BY <2>1, ScaleNat, MulNat
  <2>3. f[a] = b * (p - paid) + r /\ h[a] = b * (q - paid) + r
    BY DEF OwedTo
  <2> HIDE DEF b, r, paid, f, h
  <2>4. b * (q - paid) = b * (p - paid) + (q - p) * b
    BY <2>1
  <2>5. b * (p - paid) \in Int /\ (q - p) * b \in Int
    BY <2>1
  <2>. QED BY <2>1, <2>2, <2>3, <2>4, <2>5 DEF b
<1>3. \A a \in Accounts : f[a] \in Int
  BY OwedInt
<1> HIDE DEF d, f, g, h
<1>4. SumFunctionOnSet(h, Accounts)
        = SumFunctionOnSet(f, Accounts) + d * SumFunctionOnSet(g, Accounts)
  BY <1>1, <1>2, <1>3, AccountsFinite, SumLinear
<1>. QED BY <1>4 DEF Owed, d, f, g, h

\* What the reward per token grows by, over all stakes, is no more than what the
\* rate pays for the time.
LEMMA GrowthIsPaid ==
    ASSUME NEW rw \in Rewarders, NEW t \in Times, RewardsNeverNegative(rw, t)
    PROVE  (RewardPerToken(rw, t) - rw.rewardPerTokenStored) * rw.totalSupply
             <= WAD * (rw.rewardRate * (LastTimeRewardApplicable(rw, t) - rw.updatedAt))
<1> DEFINE e == LastTimeRewardApplicable(rw, t) - rw.updatedAt
           x == rw.rewardRate * e * WAD
           T == rw.totalSupply
<1>1. rw.rewardRate \in Nat /\ T \in Nat /\ rw.rewardPerTokenStored \in Nat
  BY DEF Rewarders
<1>2. e \in Nat
  BY RewardPerTokenBounds DEF Rewarders, RewardsNeverNegative
<1>3. rw.rewardRate * e \in Nat
  BY <1>1, <1>2, MulNat
<1>4. x \in Nat /\ x = WAD * (rw.rewardRate * e)
  <2> DEFINE m == rw.rewardRate * e
  <2>1. m \in Nat
    BY <1>3
  <2> HIDE DEF m, e
  <2>2. m * WAD \in Nat /\ m * WAD = WAD * m
    BY <2>1, ScaleNat, MulNat
  <2>. QED BY <2>2 DEF m
<1> HIDE DEF x, e
<1>5. CASE T = 0
  <2>1. RewardPerToken(rw, t) - rw.rewardPerTokenStored = 0
    BY <1>1, <1>5 DEF RewardPerToken
  <2>. QED BY <2>1, <1>4, <1>5 DEF e
<1>6. CASE T # 0
  <2>1. RewardPerToken(rw, t) = rw.rewardPerTokenStored + x \div T
    BY <1>6 DEF RewardPerToken, x, e
  <2> HIDE DEF T
  <2>2. x \div T \in Nat /\ (x \div T) * T <= x
    BY <1>1, <1>4, <1>6, DivNat, DivLE
  <2>3. RewardPerToken(rw, t) - rw.rewardPerTokenStored = x \div T
    BY <2>1, <2>2, <1>1
  <2>. QED BY <2>2, <2>3, <1>4 DEF T, e
<1>. QED BY <1>5, <1>6

\* Rounding down is in the rewarder's favour.
LEMMA EarnedWithin ==
    ASSUME NEW rw \in Rewarders, NEW t \in Times, RewardsNeverNegative(rw, t),
           NEW a \in Accounts
    PROVE  WAD * Earned(rw, t, a) <= OwedTo(rw, RewardPerToken(rw, t))[a]
<1> DEFINE p == RewardPerToken(rw, t)
           x == rw.balanceOf[a] * (p - rw.userRewardPerTokenPaid[a])
           r == rw.rewards[a]
<1>1. /\ rw.balanceOf[a] \in Nat /\ r \in Nat
      /\ rw.userRewardPerTokenPaid[a] \in Nat
  BY DEF Rewarders
<1>2. p - rw.userRewardPerTokenPaid[a] \in Nat
  BY <1>1, RewardPerTokenBounds DEF RewardsNeverNegative
<1>3. x \in Nat
  BY <1>1, <1>2, MulNat
<1>4. Earned(rw, t, a) = x \div WAD + r /\ OwedTo(rw, p)[a] = x + WAD * r
  BY DEF Earned, OwedTo
<1> HIDE DEF x, r
<1>5. x \div WAD \in Nat /\ (x \div WAD) * WAD <= x
  BY <1>3, ScaleNat, DivNat, DivLE
<1> DEFINE y == x \div WAD
<1>6. WAD * (y + r) = y * WAD + WAD * r /\ WAD * r \in Nat /\ y * WAD \in Nat
  <2> HIDE DEF y
  <2>1. y \in Nat
    BY <1>5 DEF y
  <2>. QED BY <2>1, <1>1, ScaleNat, MulNat
<1>. QED BY <1>3, <1>4, <1>5, <1>6

\* An update spends what the period pays for the time, and no more.
LEMMA UpdateKeepsCovered ==
    ASSUME NEW rw \in Rewarders, NEW t \in Times, RewardsNeverNegative(rw, t),
           NEW accounts \in SUBSET Accounts, Consistent(rw), Covered(rw)
    PROVE  Covered(UpdateReward(rw, t, accounts))
<1> DEFINE up == UpdateReward(rw, t, accounts)
           p == RewardPerToken(rw, t)
           s == rw.rewardPerTokenStored
           T == rw.totalSupply
           e == LastTimeRewardApplicable(rw, t) - rw.updatedAt
<1>1. /\ up \in Rewarders /\ p \in Nat /\ s \in Nat /\ T \in Nat /\ e \in Int
      /\ rw.rewardRate \in Nat /\ rw.finishAt \in Nat /\ rw.updatedAt \in Nat
      /\ LastTimeRewardApplicable(rw, t) \in Nat /\ rw.funds \in Nat
  BY UpdateRewardOK, RewardPerTokenBounds DEF Rewarders
<1>2. Owed(up, p) <= Owed(rw, p)
  <2> DEFINE f == OwedTo(up, p)
             g == OwedTo(rw, p)
  <2>1. ASSUME NEW a \in Accounts PROVE f[a] <= g[a]
    <3>1. CASE a \in accounts
      <4>1. /\ up.userRewardPerTokenPaid[a] = p
            /\ up.rewards[a] = Earned(rw, t, a)
            /\ up.balanceOf[a] \in Nat /\ Earned(rw, t, a) \in Nat
        BY <3>1, <1>1, EarnedNat DEF UpdateReward, Rewarders
      <4>2. f[a] = up.balanceOf[a] * (p - p) + WAD * Earned(rw, t, a)
        BY <4>1 DEF OwedTo
      <4>3. up.balanceOf[a] * (p - p) = 0 /\ WAD * Earned(rw, t, a) \in Nat
        BY <4>1, <1>1, ScaleNat, MulNat
      <4>4. f[a] = WAD * Earned(rw, t, a)
        BY <4>2, <4>3
      <4>. QED BY <4>4, EarnedWithin
    <3>2. CASE a \notin accounts
      <4>1. f[a] = g[a]
        BY <3>2 DEF OwedTo, UpdateReward, Rewarders
      <4>. QED BY <4>1, OwedInt, <1>1
    <3>. QED BY <3>1, <3>2
  <2>2. \A a \in Accounts : f[a] \in Int /\ g[a] \in Int /\ f[a] <= g[a]
    BY <2>1, <1>1, OwedInt
  <2> HIDE DEF f, g
  <2>3. SumFunctionOnSet(f, Accounts) <= SumFunctionOnSet(g, Accounts)
    BY <2>2, AccountsFinite, SumAtMost
  <2>. QED BY <2>3 DEF Owed, f, g
<1>3. Owed(rw, p) = Owed(rw, s) + (p - s) * T
  <2>1. T = SumFunctionOnSet(rw.balanceOf, Accounts)
    BY DEF Consistent, SumFunction, Rewarders
  <2>. QED BY <2>1, <1>1, OwedGrows
<1>4. (p - s) * T <= WAD * (rw.rewardRate * e)
  BY GrowthIsPaid
<1>5. /\ up.rewardPerTokenStored = p /\ up.funds = rw.funds
      /\ ToPay(up) = rw.rewardRate * (rw.finishAt - LastTimeRewardApplicable(rw, t))
  BY StoredFields DEF ToPay
<1>6. rw.rewardRate * (rw.finishAt - LastTimeRewardApplicable(rw, t))
        = ToPay(rw) - rw.rewardRate * e
  BY <1>1 DEF ToPay
<1>7. ToPay(rw) \in Int /\ rw.rewardRate * e \in Int /\ (p - s) * T \in Int
  <2> HIDE DEF p, s, T, e
  <2>1. p - s \in Int /\ rw.finishAt - rw.updatedAt \in Int
    BY <1>1
  <2>. QED BY <2>1, <1>1 DEF ToPay
<1> DEFINE m == rw.rewardRate * e
           A == ToPay(rw)
<1>8. WAD * (A - m) = WAD * A - WAD * m /\ WAD * A \in Int /\ WAD * m \in Int
  <2> HIDE DEF m, A
  <2>. QED BY <1>7, ScaleNat DEF m, A
<1>9. Owed(up, p) \in Int /\ Owed(rw, p) \in Int /\ Owed(rw, s) \in Int
  BY <1>1, OwedInt
<1>10. Owed(rw, s) + WAD * A <= WAD * rw.funds
  BY DEF Covered
<1>11. WAD * rw.funds \in Int
  BY <1>1, ScaleNat
<1>12. ToPay(up) = A - m
  BY <1>5, <1>6
<1>13. Owed(up, p) + WAD * ToPay(up) <= WAD * rw.funds
  <2> DEFINE g == (p - s) * T
             F == WAD * rw.funds
             wa == WAD * A
             wm == WAD * m
  <2>1. Owed(rw, p) = Owed(rw, s) + g /\ g <= wm /\ Owed(rw, s) + wa <= F
        /\ WAD * ToPay(up) = wa - wm
    BY <1>3, <1>4, <1>8, <1>10, <1>12
  <2>2. g \in Int /\ F \in Int /\ wa \in Int /\ wm \in Int
    BY <1>7, <1>8, <1>11
  <2> HIDE DEF g, F, wa, wm, m, A, p, s, up
  <2>3. Owed(up, p) + WAD * ToPay(up) <= F
    BY <2>1, <2>2, <1>2, <1>9
  <2>. QED BY <2>3 DEF F
<1>. QED BY <1>5, <1>13 DEF Covered

\* Once its rewards are up to date, what an account is owed does not depend on
\* its stake: a rewarder that differs in such stakes only is as well covered.
LEMMA StakesDoNotMatter ==
    ASSUME NEW up \in Rewarders, NEW accounts \in SUBSET Accounts,
           \A a \in accounts : up.userRewardPerTokenPaid[a] = up.rewardPerTokenStored,
           NEW stakes \in [Accounts -> Nat], NEW total \in Nat,
           \A a \in Accounts \ accounts : stakes[a] = up.balanceOf[a],
           Covered(up)
    PROVE  Covered([up EXCEPT !.balanceOf = stakes, !.totalSupply = total])
<1> DEFINE new == [up EXCEPT !.balanceOf = stakes, !.totalSupply = total]
           p == up.rewardPerTokenStored
           f == OwedTo(up, p)
           g == OwedTo(new, p)
<1>1. /\ new.balanceOf = stakes /\ new.rewards = up.rewards
      /\ new.userRewardPerTokenPaid = up.userRewardPerTokenPaid
      /\ new.rewardPerTokenStored = p /\ new.funds = up.funds
      /\ ToPay(new) = ToPay(up)
  BY DEF Rewarders, ToPay
<1>2. ASSUME NEW a \in Accounts PROVE f[a] = g[a]
  <2>1. CASE a \in accounts
    <3>1. up.userRewardPerTokenPaid[a] = p /\ p \in Nat
      BY <2>1 DEF Rewarders
    <3>2. stakes[a] * (p - p) = 0 /\ up.balanceOf[a] * (p - p) = 0
      BY <3>1 DEF Rewarders
    <3>. QED BY <1>1, <3>1, <3>2 DEF OwedTo
  <2>2. CASE a \notin accounts
    BY <1>1, <2>2 DEF OwedTo
  <2>. QED BY <2>1, <2>2
<1> HIDE DEF new, f, g
<1>3. SumFunctionOnSet(f, Accounts) = SumFunctionOnSet(g, Accounts)
  BY <1>2, AccountsFinite, SumSame
<1>. QED BY <1>1, <1>3 DEF Covered, Owed, f, g, new

LEMMA UpToDate ==
    ASSUME NEW rw \in Rewarders, NEW t, NEW accounts \in SUBSET Accounts
    PROVE  LET up == UpdateReward(rw, t, accounts)
           IN  \A a \in accounts : up.userRewardPerTokenPaid[a] = up.rewardPerTokenStored
BY DEF UpdateReward, Rewarders

LEMMA RestakeKeepsCovered ==
    ASSUME NEW rw \in Rewarders, NEW t \in Times, RewardsNeverNegative(rw, t), NEW new,
           Restakes(rw, new, t), Consistent(rw), Covered(rw)
    PROVE  Covered(new)
<1>1. PICK a \in Accounts, stake \in Nat, total \in Nat :
         new = Restaked(UpdateReward(rw, t, {a}), a, stake, total)
  BY DEF Restakes
<1> DEFINE up == UpdateReward(rw, t, {a})
           stakes == [up.balanceOf EXCEPT ![a] = stake]
<1>2. up \in Rewarders /\ Covered(up)
  BY UpdateRewardOK, UpdateKeepsCovered
<1>3. \A b \in {a} : up.userRewardPerTokenPaid[b] = up.rewardPerTokenStored
  BY UpToDate
<1>4. new = [up EXCEPT !.balanceOf = stakes, !.totalSupply = total]
  BY <1>1 DEF Restaked
<1> HIDE DEF up
<1>5. /\ stakes \in [Accounts -> Nat] /\ {a} \in SUBSET Accounts
      /\ \A b \in Accounts \ {a} : stakes[b] = up.balanceOf[b]
  BY <1>2 DEF Rewarders
<1> HIDE DEF stakes
<1>. QED BY <1>2, <1>3, <1>4, <1>5, StakesDoNotMatter

LEMMA MoveKeepsCovered ==
    ASSUME NEW rw \in Rewarders, NEW t \in Times, RewardsNeverNegative(rw, t), NEW new,
           Moved(rw, new, t), Consistent(rw), Covered(rw)
    PROVE  Covered(new)
BY RestakeKeepsTotal, RestakeKeepsCovered DEF Moved

LEMMA EnrolKeepsCovered ==
    ASSUME NEW rw \in Rewarders, NEW t \in Times, RewardsNeverNegative(rw, t),
           NEW accounts \in SUBSET Accounts, NEW balances \in [Accounts -> Nat],
           CanAddDeposits(rw, t, accounts, balances), Consistent(rw), Covered(rw)
    PROVE  Covered(AddDeposits(rw, t, accounts, balances))
<1> DEFINE new == AddDeposits(rw, t, accounts, balances)
           up == UpdateReward(rw, t, accounts)
           stakes == [a \in Accounts |-> IF a \in accounts THEN balances[a]
                                         ELSE up.balanceOf[a]]
           total == new.totalSupply
<1>1. up \in Rewarders /\ Covered(up) /\ total \in Nat
  BY UpdateRewardOK, UpdateKeepsCovered DEF CanAddDeposits
<1>2. \A b \in accounts : up.userRewardPerTokenPaid[b] = up.rewardPerTokenStored
  BY UpToDate
<1>3. new = [up EXCEPT !.balanceOf = stakes, !.totalSupply = total]
  <2>1. up \in Rewarders
    BY <1>1
  <2> HIDE DEF up
  <2>. QED BY <2>1 DEF AddDeposits, Rewarders, up
<1> HIDE DEF up, new, total
<1>4. /\ stakes \in [Accounts -> Nat]
      /\ \A b \in Accounts \ accounts : stakes[b] = up.balanceOf[b]
  BY <1>1 DEF Rewarders
<1> HIDE DEF stakes
<1>5. Covered(new)
  BY <1>1, <1>2, <1>3, <1>4, StakesDoNotMatter
<1>. QED BY <1>5 DEF new

\* A claim takes out of the funds what it takes off what is owed.
LEMMA ClaimKeepsCovered ==
    ASSUME NEW rw \in Rewarders, NEW t \in Times, RewardsNeverNegative(rw, t),
           NEW a \in Accounts, Consistent(rw), Covered(rw)
    PROVE  Covered(GetRewardsFor(rw, t, a))
<1> DEFINE new == GetRewardsFor(rw, t, a)
           up == UpdateReward(rw, t, {a})
           p == up.rewardPerTokenStored
           f == OwedTo(up, p)
           g == OwedTo(new, p)
           paid == up.rewards[a]
<1>1. up \in Rewarders /\ Covered(up) /\ paid \in Nat /\ up.funds = rw.funds /\ p \in Nat
  <2>1. up \in Rewarders /\ Covered(up)
    BY UpdateRewardOK, UpdateKeepsCovered
  <2>2. up.funds = rw.funds
    BY StoredFields
  <2> HIDE DEF up
  <2>. QED BY <2>1, <2>2 DEF Rewarders
<1>2. Earned(rw, t, a) = paid
  BY DEF UpdateReward, Rewarders
<1>3. new = [up EXCEPT !.rewards = [up.rewards EXCEPT ![a] = 0],
                       !.funds = up.funds - paid]
  BY <1>1, <1>2 DEF GetRewardsFor
<1> HIDE DEF up, new
<1>4. /\ new.balanceOf = up.balanceOf /\ new.rewards = [up.rewards EXCEPT ![a] = 0]
      /\ new.userRewardPerTokenPaid = up.userRewardPerTokenPaid
      /\ new.rewardPerTokenStored = p /\ new.funds = up.funds - paid
      /\ ToPay(new) = ToPay(up)
  BY <1>1, <1>3 DEF Rewarders, ToPay
<1>5. \A b \in Accounts : f[b] \in Int
  BY <1>1, OwedInt
<1>6. \A b \in Accounts \ {a} : g[b] = f[b]
  BY <1>1, <1>4 DEF OwedTo, Rewarders
<1>7. g[a] = f[a] - WAD * paid /\ WAD * paid \in Int
  <2> DEFINE x == up.balanceOf[a] * (p - up.userRewardPerTokenPaid[a])
             y == WAD * paid
  <2>1. f[a] = x + y
    BY DEF OwedTo
  <2>2. g[a] = x + WAD * 0
    BY <1>1, <1>4 DEF OwedTo, Rewarders
  <2>3. WAD * 0 = 0 /\ y \in Int
    BY <1>1, ScaleNat
  <2>4. x \in Int
    <3> DEFINE d == p - up.userRewardPerTokenPaid[a]
    <3>1. d \in Int /\ up.balanceOf[a] \in Int
      BY <1>1 DEF Rewarders
    <3> HIDE DEF d
    <3>2. up.balanceOf[a] * d \in Int
      BY <3>1
    <3>. QED BY <3>2 DEF d
  <2> HIDE DEF x, y, f, g
  <2>5. g[a] = f[a] - y
    BY <2>1, <2>2, <2>3, <2>4
  <2>. QED BY <2>3, <2>5 DEF y
<1>8. \A b \in Accounts : g[b] \in Int
  BY <1>5, <1>6, <1>7
<1> HIDE DEF f, g
<1>9. SumFunctionOnSet(g, Accounts) = SumFunctionOnSet(f, Accounts) - f[a] + g[a]
  BY <1>5, <1>6, <1>8, AccountsFinite, SumChanged
<1>10. SumFunctionOnSet(f, Accounts) \in Int
  BY <1>5, AccountsFinite, SumInt
<1>11. /\ f[a] \in Int /\ g[a] \in Int /\ ToPay(up) \in Int /\ up.funds \in Nat
  BY <1>1, <1>5, <1>8 DEF ToPay, Rewarders
<1>12. SumFunctionOnSet(f, Accounts) + WAD * ToPay(up) <= WAD * up.funds
  BY <1>1 DEF Covered, Owed, f
<1>13. WAD * (up.funds - paid) = WAD * up.funds - WAD * paid
       /\ WAD * up.funds \in Int /\ WAD * ToPay(up) \in Int
  <2> HIDE DEF paid
  <2>. QED BY <1>1, <1>11, ScaleNat
<1>14. SumFunctionOnSet(g, Accounts) + WAD * ToPay(up) <= WAD * (up.funds - paid)
  <2> DEFINE y == WAD * paid
             F == WAD * up.funds
             A == WAD * ToPay(up)
             Q == WAD * (up.funds - paid)
  <2>1. Q = F - y /\ y \in Int /\ F \in Int /\ A \in Int /\ g[a] = f[a] - y
    BY <1>7, <1>13
  <2>2. SumFunctionOnSet(f, Accounts) + A <= F
    BY <1>12
  <2> HIDE DEF y, F, A, Q
  <2>3. SumFunctionOnSet(g, Accounts) + A <= Q
    BY <2>1, <2>2, <1>9, <1>10, <1>11
  <2>. QED BY <2>3 DEF A, Q
<1>15. Covered(new)
  BY <1>4, <1>14 DEF Covered, Owed, g
<1>. QED BY <1>15 DEF new

\* The new rate pays out what is left of the running period and what was
\* announced, so a notification is covered if what is sent with it is no less.
LEMMA NotifyKeepsCovered ==
    ASSUME IInv, NEW n \in Notifications, Notify(n), n.sent >= n.reward,
           Consistent(rewarder), Covered(rewarder)
    PROVE  Covered(rewarder')
<1> DEFINE rw == rewarder
           up == UpdateReward(rw, now, {})
           new == rewarder'
           p == RewardPerToken(rw, now)
           rate == NewRewardRate(rw, now, n.reward)
           dur == rw.duration
           left == ToPay(up)
<1>0. rw \in Rewarders /\ now \in Times /\ RewardsNeverNegative(rw, now) /\ {} \in SUBSET Accounts
  BY RewarderHere
<1>1. /\ n.sent \in Nat /\ n.reward \in Nat /\ now \in Nat
      /\ rw.finishAt \in Nat /\ dur \in Nat \ {0} /\ rw.rewardRate \in Nat
      /\ rw.funds \in Nat
  BY RewarderAssumption, <1>0 DEF Times, Rewarders, Notify
<1>2. up \in Rewarders /\ Covered(up)
  BY <1>0, UpdateRewardOK, UpdateKeepsCovered
<1>3. left = rw.rewardRate * (rw.finishAt - Least(rw.finishAt, now))
  BY <1>0, StoredFields DEF ToPay, LastTimeRewardApplicable
<1>4. left \in Nat /\ rate \in Nat /\ rate * dur <= n.reward + left
  <2>1. CASE now >= rw.finishAt
    <3>1. rate = n.reward \div dur
      BY <2>1 DEF NewRewardRate
    <3>2. Least(rw.finishAt, now) = rw.finishAt
      BY <1>1, <2>1 DEF Least
    <3>3. left = 0
      BY <1>1, <1>3, <3>2
    <3>. QED BY <1>1, <3>1, <3>3, DivNat, DivLE
  <2>2. CASE ~(now >= rw.finishAt)
    <3> DEFINE m == (rw.finishAt - now) * rw.rewardRate
    <3>1. Least(rw.finishAt, now) = now /\ rw.finishAt - now \in Nat
      BY <1>1, <2>2 DEF Least
    <3>2. m \in Nat /\ left = m
      BY <1>1, <1>3, <3>1, MulNat
    <3>3. rate = (n.reward + m) \div dur
      BY <2>2 DEF NewRewardRate
    <3> HIDE DEF m, left, rate
    <3>4. n.reward + m \in Nat
      BY <1>1, <3>2
    <3>. QED BY <1>1, <3>2, <3>3, <3>4, DivNat, DivLE
  <2>. QED BY <2>1, <2>2
<1>5. /\ new.balanceOf = up.balanceOf /\ new.rewards = up.rewards
      /\ new.userRewardPerTokenPaid = up.userRewardPerTokenPaid
      /\ new.rewardPerTokenStored = up.rewardPerTokenStored
      /\ new.funds = rw.funds + n.sent
      /\ new.rewardRate = rate /\ new.finishAt = now + dur /\ new.updatedAt = now
      /\ up.funds = rw.funds
  BY <1>0 DEF Notify, NotifyRewardAmount, UpdateReward, NewRewardRate, Rewarders,
              RewardPerToken, LastTimeRewardApplicable, Earned
<1>6. ToPay(new) = rate * dur
  <2>1. now + dur - now = dur
    BY <1>1
  <2> HIDE DEF new, rate, dur, up
  <2>2. new.finishAt - new.updatedAt = dur
    BY <1>1, <1>5, <2>1 DEF dur
  <2>3. ToPay(new) = new.rewardRate * (new.finishAt - new.updatedAt)
    BY DEF ToPay
  <2>. QED BY <1>5, <2>2, <2>3
<1> HIDE DEF up, new, left, rate
<1>7. OwedTo(new, up.rewardPerTokenStored) = OwedTo(up, up.rewardPerTokenStored)
  BY <1>5 DEF OwedTo
<1> DEFINE O == Owed(up, up.rewardPerTokenStored)
<1>8. O \in Int
  BY <1>2, OwedInt DEF Rewarders
<1>9. Owed(new, new.rewardPerTokenStored) = O
  BY <1>5, <1>7 DEF Owed
<1>10. O + WAD * left <= WAD * rw.funds
  BY <1>2, <1>5 DEF Covered, left
<1> DEFINE paid == rate * dur
<1>11. paid \in Nat
  BY <1>1, <1>4, MulNat
<1> HIDE DEF O, paid
<1>12. WAD * paid <= WAD * (n.reward + left)
  BY <1>1, <1>4, <1>11, ScaleNat, MulMonotone DEF paid
<1>13. WAD * (n.reward + left) = WAD * n.reward + WAD * left
       /\ WAD * n.reward \in Nat /\ WAD * left \in Nat /\ WAD * paid \in Nat
       /\ WAD * rw.funds \in Nat /\ WAD * n.sent \in Nat
  BY <1>1, <1>4, <1>11, ScaleNat, MulNat
<1>14. WAD * n.reward <= WAD * n.sent
       /\ WAD * (rw.funds + n.sent) = WAD * rw.funds + WAD * n.sent
  BY <1>1, ScaleNat, MulMonotone
<1>15. O + WAD * paid <= WAD * (rw.funds + n.sent)
  BY <1>8, <1>10, <1>12, <1>13, <1>14
<1>16. Covered(new)
  BY <1>5, <1>6, <1>9, <1>15 DEF Covered, paid
<1>. QED BY <1>16 DEF new

LEMMA LaunchKeepsCovered ==
    ASSUME \A n \in Notifications : n.sent >= n.reward
    PROVE  Balanced /\ Covered(rewarder) /\ [LaunchNext]_launchVars => Covered(rewarder')
<1> SUFFICES ASSUME Balanced, Covered(rewarder), [LaunchNext]_launchVars
             PROVE  Covered(rewarder')
  OBVIOUS
<1>1. /\ IInv /\ Consistent(rewarder)
      /\ rewarder \in Rewarders /\ now \in Times /\ RewardsNeverNegative(rewarder, now)
  BY RewarderHere DEF Balanced
<1>2. CASE [Next]_vars
  BY <1>1, <1>2, PoolMovesRewarder, MoveKeepsCovered
<1>3. ASSUME NEW accounts \in SUBSET Depositors, AddDepositsOf(accounts)
      PROVE  Covered(rewarder')
  <2> DEFINE balances == [a \in Accounts |-> BalanceOf(a)]
  <2>1. balances \in [Accounts -> Nat] /\ accounts \in SUBSET Accounts
    BY <1>1, BalancesNat DEF Accounts
  <2>2. /\ CanAddDeposits(rewarder, now, accounts, balances)
        /\ rewarder' = AddDeposits(rewarder, now, accounts, balances)
    BY <1>3 DEF AddDepositsOf
  <2> HIDE DEF balances
  <2>. QED BY <1>1, <2>1, <2>2, EnrolKeepsCovered
<1>4. CASE RewarderStep
  <2>1. ASSUME NEW account \in Depositors, GetRewards(account) PROVE Covered(rewarder')
    BY <1>1, <2>1, ClaimKeepsCovered DEF GetRewards, Accounts
  <2>2. ASSUME NEW duration, SetRewardsDuration(duration) PROVE Covered(rewarder')
    <3> DEFINE new == [rewarder EXCEPT !.duration = duration]
    <3>1. /\ rewarder' = new /\ new.funds = rewarder.funds /\ ToPay(new) = ToPay(rewarder)
          /\ new.rewardPerTokenStored = rewarder.rewardPerTokenStored
          /\ OwedTo(new, rewarder.rewardPerTokenStored)
               = OwedTo(rewarder, rewarder.rewardPerTokenStored)
      BY <1>1, <2>2 DEF SetRewardsDuration, Rewarders, ToPay, OwedTo
    <3> HIDE DEF new
    <3>. QED BY <3>1 DEF Covered, Owed
  <2>. QED BY <1>1, <1>3, <1>4, <2>1, <2>2, NotifyKeepsCovered DEF RewarderStep
<1>5. CASE ProcessBatch
  BY <1>3, <1>5, BatchOK DEF ProcessBatch, Balanced
<1>. QED BY <1>2, <1>4, <1>5
         DEF LaunchNext, LaunchStep, StartListing, FetchPage, FetchFails, BatchFails,
             launchVars

\* What Covered says of the rewards as they are claimed.
LEMMA CoveredClaims ==
    ASSUME Balanced, Covered(rewarder) PROVE RewardsCovered
<1> DEFINE rw == rewarder
           up == UpdateReward(rw, now, Accounts)
           p == up.rewardPerTokenStored
           earned == [a \in Accounts |-> Earned(rw, now, a)]
           remaining == IF now < rw.finishAt
                        THEN (rw.finishAt - now) * rw.rewardRate
                        ELSE 0
           f == OwedTo(up, p)
           S == SumFunctionOnSet(earned, Accounts)
<1>1. /\ rw \in Rewarders /\ now \in Times /\ RewardsNeverNegative(rw, now)
      /\ rw.finishAt \in Nat /\ rw.rewardRate \in Nat /\ rw.funds \in Nat /\ now \in Nat
      /\ Accounts \in SUBSET Accounts /\ Consistent(rw)
  BY RewarderHere DEF Balanced, Rewarders, Times
<1>2. up \in Rewarders /\ Covered(up) /\ up.funds = rw.funds
  BY <1>1, UpdateRewardOK, UpdateKeepsCovered, StoredFields
<1>3. ToPay(up) = remaining /\ remaining \in Nat
  <2>1. ToPay(up) = rw.rewardRate * (rw.finishAt - Least(rw.finishAt, now))
    BY <1>1, StoredFields DEF ToPay, LastTimeRewardApplicable
  <2>2. CASE now < rw.finishAt
    <3>1. rw.finishAt - now \in Nat /\ Least(rw.finishAt, now) = now
      BY <1>1, <2>2 DEF Least
    <3>2. (rw.finishAt - now) * rw.rewardRate \in Nat
      BY <1>1, <3>1, MulNat
    <3>. QED BY <1>1, <2>1, <2>2, <3>1, <3>2
  <2>3. CASE ~(now < rw.finishAt)
    <3>1. Least(rw.finishAt, now) = rw.finishAt /\ rw.finishAt - rw.finishAt = 0
      BY <1>1, <2>3 DEF Least
    <3>2. rw.rewardRate * 0 = 0
      BY <1>1
    <3>. QED BY <2>1, <2>3, <3>1, <3>2
  <2>. QED BY <2>2, <2>3
<1>4. ASSUME NEW a \in Accounts PROVE earned[a] \in Nat /\ f[a] = WAD * earned[a]
  <2>1. Earned(rw, now, a) \in Nat
    BY <1>1, EarnedNat
  <2>2. /\ up.userRewardPerTokenPaid[a] = p /\ up.rewards[a] = Earned(rw, now, a)
        /\ up.balanceOf[a] \in Nat /\ p \in Nat
    <3>1. up.userRewardPerTokenPaid[a] = p /\ up.rewards[a] = Earned(rw, now, a)
      BY <1>1 DEF UpdateReward, Rewarders
    <3> HIDE DEF up
    <3>. QED BY <1>2, <3>1 DEF Rewarders
  <2>3. up.balanceOf[a] * (p - p) = 0 /\ WAD * Earned(rw, now, a) \in Nat
    <3> HIDE DEF up
    <3>. QED BY <2>1, <2>2, ScaleNat, MulNat
  <2>. QED BY <2>1, <2>2, <2>3 DEF OwedTo
<1> HIDE DEF earned, f
<1>5. SumFunctionOnSet(f, Accounts) = WAD * S
  BY <1>4, AccountsFinite, ScaleNat, SumScaled
<1>6. S \in Int
  BY <1>4, AccountsFinite, SumInt
<1>7. WAD * S + WAD * remaining <= WAD * rw.funds
  BY <1>2, <1>3, <1>5 DEF Covered, Owed, f
<1> HIDE DEF S, remaining
<1>8. S + remaining <= rw.funds
  BY <1>1, <1>3, <1>6, <1>7, ScaleNat
<1>9. TotalOf(LAMBDA a : Earned(rewarder, now, a)) = S
  BY DEF TotalOf, SumFunction, S, earned
<1>. QED BY <1>8, <1>9 DEF RewardsCovered, TotalOf, remaining

\* No claim can fail, if no more is ever announced than is sent with the
\* announcement: so it is with the native rewarder, whose reward is msg.value
\* (DepositRewarderNative.sol), and so it must be with the owner of the other one.
\* Everything earned so far, for every account, and what the running period still
\* has to pay are in the rewarder: for any stakes, claims, periods and enrolments.
THEOREM ClaimsCovered ==
    ASSUME \A n \in Notifications : n.sent >= n.reward
    PROVE  LaunchSpec => []RewardsCovered
<1>1. LaunchInit => Covered(rewarder)
  <2> SUFFICES ASSUME LaunchInit PROVE Covered(rewarder)
    OBVIOUS
  <2> DEFINE f == OwedTo(rewarder, 0)
  <2>1. rewarder = NewRewarder
    BY DEF LaunchInit, Init
  <2>2. \A a \in Accounts : f[a] = 0
    BY <2>1, ScaleNat DEF OwedTo, NewRewarder
  <2>3. ToPay(rewarder) = 0 /\ rewarder.funds = 0 /\ rewarder.rewardPerTokenStored = 0
    BY <2>1 DEF ToPay, NewRewarder
  <2> HIDE DEF f
  <2>4. SumFunctionOnSet(f, Accounts) = 0
    BY <2>2, AccountsFinite, SumZero
  <2>. QED BY <2>3, <2>4, ScaleNat DEF Covered, Owed, f
<1>2. Balanced /\ Covered(rewarder) /\ [LaunchNext]_launchVars => Covered(rewarder)'
  BY LaunchKeepsCovered DEF Covered, Owed, OwedTo, ToPay
<1>3. Balanced /\ Covered(rewarder) => RewardsCovered
  BY CoveredClaims
<1>. QED BY <1>1, <1>2, <1>3, InitBalanced, StaysBalanced, PTL DEF LaunchSpec

-----------------------------------------------------------------------------
(* Nobody is staked for more than its deposit *)

LEMMA StakedBalances ==
    ASSUME NEW rw \in Rewarders, NEW t \in Times, NEW n \in Nat, NEW a \in Accounts,
           NEW b \in Accounts
    PROVE  StakeFor(rw, t, n, a).balanceOf[b]
             = IF b = a THEN rw.balanceOf[b] + n ELSE rw.balanceOf[b]
BY DEF StakeFor, Restaked, UpdateReward, Rewarders

LEMMA UnstakedBalances ==
    ASSUME NEW rw \in Rewarders, NEW t \in Times, NEW n \in Nat, NEW a \in Accounts,
           NEW b \in Accounts
    PROVE  WithdrawFor(rw, t, n, a).balanceOf[b]
             = IF b = a THEN rw.balanceOf[b] - Unstaked(rw, n, a) ELSE rw.balanceOf[b]
BY DEF WithdrawFor, Restaked, UpdateReward, Rewarders

LEMMA LaterBalances == ASSUME IInv' PROVE \A h \in Holders : BalanceOf(h)' \in Nat
<1> SUFFICES ASSUME NEW h \in Holders PROVE BalanceOf(h)' \in Nat
  OBVIOUS
<1>1. /\ depositIndex' \in LinearIndices /\ now' \in Times /\ HistoryOK(depositIndex', now')
      /\ deposited'[h] \in Nat
  BY DEF IInv, TypeOK, IndexHistory
<1>. QED BY <1>1, IndexedValueBounds DEF BalanceOf

LEMMA DepositAndStake ==
    ASSUME Excluded = {}, hasRewarder, StakeIsDeposited, IInv, IInv',
           NEW u \in Depositors, NEW of \in Depositors, NEW n \in Nat, TakeDeposit(u, of, n)
    PROVE  StakeIsDeposited'
<1>1. rewarder \in Rewarders /\ now \in Times /\ of \in Accounts
  BY RewarderHere, PoolHere
<1>2. rewarder' = StakeFor(rewarder, now, n, of)
  BY DEF TakeDeposit, Rewarded
<1>3. ASSUME NEW b \in Accounts
      PROVE  rewarder'.balanceOf[b]
               = IF b = of THEN rewarder.balanceOf[b] + n ELSE rewarder.balanceOf[b]
  <2>1. StakeFor(rewarder, now, n, of).balanceOf[b]
          = IF b = of THEN rewarder.balanceOf[b] + n ELSE rewarder.balanceOf[b]
    BY <1>1, StakedBalances
  <2>. QED BY <1>2, <2>1
<1>4. BalancesGrow({of, PoolAddr}, n)
  BY TakeDepositMoves DEF Deposits
<1> SUFFICES ASSUME NEW a \in Accounts PROVE rewarder'.balanceOf[a] <= BalanceOf(a)'
  BY DEF StakeIsDeposited
<1>5. /\ BalanceOf(a)' = IF a = of THEN BalanceOf(a) + n ELSE BalanceOf(a)
      /\ BalanceOf(a) \in Nat
  BY <1>4, PoolHere, LaterBalances DEF BalancesGrow
<1>6. rewarder.balanceOf \in [Accounts -> Nat] /\ rewarder.balanceOf[a] <= BalanceOf(a)
  BY <1>1 DEF Rewarders, StakeIsDeposited
<1>. QED BY <1>1, <1>3, <1>5, <1>6

LEMMA WithdrawAndUnstake ==
    ASSUME Excluded = {}, hasRewarder, StakeIsDeposited, IInv, IInv',
           NEW u \in Depositors, NEW n \in Nat, PayOut(u, n)
    PROVE  StakeIsDeposited'
<1>1. rewarder \in Rewarders /\ now \in Times /\ u \in Accounts
  BY RewarderHere, PoolHere
<1>2. rewarder' = WithdrawFor(rewarder, now, n, u)
  BY DEF PayOut, Rewarded
<1>3. ASSUME NEW b \in Accounts
      PROVE  rewarder'.balanceOf[b]
               = IF b = u THEN rewarder.balanceOf[b] - Unstaked(rewarder, n, u)
                          ELSE rewarder.balanceOf[b]
  <2>1. WithdrawFor(rewarder, now, n, u).balanceOf[b]
          = IF b = u THEN rewarder.balanceOf[b] - Unstaked(rewarder, n, u)
                     ELSE rewarder.balanceOf[b]
    BY <1>1, UnstakedBalances
  <2>. QED BY <1>2, <2>1
<1>4. BalancesGrow({u, PoolAddr}, -n)
  BY PayOutMoves DEF Withdraws
<1> SUFFICES ASSUME NEW a \in Accounts PROVE rewarder'.balanceOf[a] <= BalanceOf(a)'
  BY DEF StakeIsDeposited
<1>5. /\ BalanceOf(a)' = IF a = u THEN BalanceOf(a) + (-n) ELSE BalanceOf(a)
      /\ BalanceOf(a) \in Nat /\ BalanceOf(a)' \in Nat
  BY <1>4, PoolHere, LaterBalances DEF BalancesGrow
<1>6. rewarder.balanceOf \in [Accounts -> Nat] /\ rewarder.balanceOf[a] <= BalanceOf(a)
  BY <1>1 DEF Rewarders, StakeIsDeposited
<1>7. Unstaked(rewarder, n, u) = Least(rewarder.balanceOf[u], n)
  BY DEF Unstaked
<1>8. rewarder'.balanceOf[a] = IF a = u THEN rewarder.balanceOf[a] - Least(rewarder.balanceOf[a], n)
                               ELSE rewarder.balanceOf[a]
  BY <1>1, <1>3, <1>6, <1>7
<1>9. rewarder.balanceOf[a] \in Nat
  BY <1>6
<1>10. CASE n <= rewarder.balanceOf[a]
  BY <1>5, <1>6, <1>8, <1>9, <1>10 DEF Least
<1>11. CASE ~(n <= rewarder.balanceOf[a])
  BY <1>5, <1>6, <1>8, <1>9, <1>11 DEF Least
<1>. QED BY <1>10, <1>11

LEMMA TransferAndRestake ==
    ASSUME Excluded = {}, hasRewarder, StakeIsDeposited, IInv, IInv',
           NEW u \in Depositors, NEW v \in Depositors, NEW n \in Nat, MoveDeposit(u, v, n)
    PROVE  StakeIsDeposited'
<1> DEFINE rw == rewarder
           out == Unstaked(rw, n, u)
           left == WithdrawFor(rw, now, n, u)
           S == rw.balanceOf
<1>1. /\ rw \in Rewarders /\ now \in Times /\ RewardsNeverNegative(rw, now)
      /\ u \in Accounts /\ v \in Accounts
  BY RewarderHere, PoolHere
<1>2. S \in [Accounts -> Nat] /\ S[u] \in Nat /\ S[v] \in Nat
  BY <1>1 DEF Rewarders
<1>3. out = Least(S[u], n) /\ out \in Nat /\ out <= n /\ out <= S[u]
  BY <1>2 DEF Unstaked, Least
<1>4. \A a \in Accounts : /\ BalanceOf(a) \in Nat /\ BalanceOf(a)' \in Nat
                          /\ S[a] \in Nat /\ S[a] <= BalanceOf(a)
  BY <1>2, PoolHere, LaterBalances DEF StakeIsDeposited
<1>5. /\ u = v => \A a \in Accounts : BalanceOf(a)' = BalanceOf(a)
      /\ u # v => \A a \in Accounts :
            BalanceOf(a)' = CASE a = u -> BalanceOf(a) - n
                              [] a = v -> BalanceOf(a) + n
                              [] OTHER -> BalanceOf(a)
  BY MoveMoves, PoolHere DEF Idles, BalancesGrow, Transfers, BalanceMoves
<1>6. CASE n = 0
  <2>1. rewarder' = rewarder
    BY <1>6 DEF MoveDeposit, MoveStake
  <2>2. \A a \in Accounts : BalanceOf(a)' = BalanceOf(a)
    BY <1>4, <1>5, <1>6
  <2>. QED BY <2>1, <2>2 DEF StakeIsDeposited
<1>7. CASE n # 0
  <2>1. CanWithdrawFor(rw, n, u)
        /\ rewarder' = IF out > 0 THEN StakeFor(left, now, out, v) ELSE left
    BY <1>7 DEF MoveDeposit, MoveStake, Rewarded
  <2>2. left \in Rewarders
    BY <1>1, <2>1, WithdrawForOK
  <2>3. \A b \in Accounts : left.balanceOf[b] = IF b = u THEN S[b] - out ELSE S[b]
    BY <1>1, <1>3, UnstakedBalances
  <2>4. \A b \in Accounts : StakeFor(left, now, out, v).balanceOf[b]
          = IF b = v THEN left.balanceOf[b] + out ELSE left.balanceOf[b]
    <3>1. out \in Nat
      BY <1>3
    <3> HIDE DEF left, out
    <3>. QED BY <1>1, <3>1, <2>2, StakedBalances
  <2> HIDE DEF out, left, S
  <2>5. ASSUME NEW a \in Accounts
        PROVE  rewarder'.balanceOf[a]
                 = CASE a = u /\ a # v -> S[a] - out
                     [] a = v /\ a # u -> S[a] + out
                     [] OTHER -> S[a]
    <3>4. S[a] \in Nat
      BY <1>2
    <3>5. CASE out > 0
      BY <2>3, <2>4, <3>4, <3>5, <2>1, <1>1, <1>3
    <3>6. CASE out = 0
      BY <2>3, <3>4, <3>6, <2>1, <1>1, <1>3
    <3>. QED BY <3>5, <3>6, <1>3
  <2> SUFFICES ASSUME NEW a \in Accounts PROVE rewarder'.balanceOf[a] <= BalanceOf(a)'
    BY DEF StakeIsDeposited
  <2>6. CASE a = u /\ a # v
    <3>1. rewarder'.balanceOf[a] = S[a] - out /\ BalanceOf(a)' = BalanceOf(a) - n
      BY <2>5, <2>6, <1>5
    <3>2. BalanceOf(a)' \in Nat /\ BalanceOf(a) \in Nat /\ S[a] \in Nat /\ S[a] <= BalanceOf(a)
      BY <1>4
    <3>3. out = Least(S[a], n)
      BY <1>3, <2>6
    <3>. QED BY <3>1, <3>2, <3>3, <1>7 DEF Least
  <2>7. CASE a = v /\ a # u
    BY <2>5, <2>7, <1>3, <1>4, <1>5
  <2>8. CASE ~(a = u /\ a # v) /\ ~(a = v /\ a # u)
    <3>1. BalanceOf(a)' = BalanceOf(a)
      BY <2>8, <1>5, <1>1
    <3>2. rewarder'.balanceOf[a] = S[a]
      BY <2>5, <2>8
    <3>. QED BY <3>1, <3>2, <1>4
  <2>. QED BY <2>6, <2>7, <2>8
<1>. QED BY <1>6, <1>7

LEMMA StakeFollowsDeposit ==
    ASSUME Excluded = {}, hasRewarder, StakeIsDeposited, IInv, [Next]_vars
    PROVE  StakeIsDeposited'
<1>0. IInv'
  BY NextKeepsIInv
<1>1. ASSUME rewarder' = rewarder, \A a \in Accounts : BalanceOf(a)' >= BalanceOf(a)
      PROVE  StakeIsDeposited'
  <2> SUFFICES ASSUME NEW a \in Accounts PROVE rewarder.balanceOf[a] <= BalanceOf(a)'
    BY <1>1 DEF StakeIsDeposited
  <2>1. BalanceOf(a) \in Nat /\ BalanceOf(a)' \in Nat /\ rewarder.balanceOf[a] \in Nat
    BY <1>0, PoolHere, LaterBalances, RewarderHere DEF Rewarders
  <2>. QED BY <1>1, <2>1 DEF StakeIsDeposited
<1>2. ASSUME rewarder' = rewarder, BalancesGrow({}, 0) PROVE StakeIsDeposited'
  BY <1>1, <1>2, PoolHere DEF BalancesGrow
<1>3. ASSUME rewarder' = rewarder, now' = now, UNCHANGED book PROVE StakeIsDeposited'
  BY <1>2, <1>3, BookUnchanged
<1>4. CASE DepositorStep
  <2>1. PICK u \in Depositors :
           \/ \E of \in Depositors, amount \in Amounts.deposit :
                  DepositOnBehalf(u, of, amount)
           \/ \E amount \in Amounts.withdraw : Withdraw(u, amount)
           \/ \E v \in Depositors, amount \in Amounts.transfer : MoveDeposit(u, v, amount)
           \/ \E amount \in Amounts.lock, lockTime \in LockTimes :
                  LockDeposit(u, amount, lockTime)
    BY <1>4 DEF DepositorStep, Transfer, TransferFrom
  <2>2. /\ Amounts.deposit \subseteq Nat /\ Amounts.withdraw \subseteq Nat
        /\ Amounts.transfer \subseteq Nat
    BY PoolAssumption
  <2>3. token[u] \in Nat /\ BalanceOf(u) \in Nat
    BY PoolHere
  <2>4. ASSUME NEW of \in Depositors, NEW amount \in Amounts.deposit,
               DepositOnBehalf(u, of, amount)
        PROVE  StakeIsDeposited'
    <3>1. Least(amount, token[u]) \in Nat
      BY <2>2, <2>3 DEF Least
    <3>. QED BY <1>0, <2>4, <3>1, DepositAndStake DEF DepositOnBehalf
  <2>5. ASSUME NEW amount \in Amounts.withdraw, Withdraw(u, amount)
        PROVE  StakeIsDeposited'
    <3>1. Least(amount, BalanceOf(u)) \in Nat
      BY <2>2, <2>3 DEF Least
    <3>. QED BY <1>0, <2>5, <3>1, WithdrawAndUnstake DEF Withdraw
  <2>6. ASSUME NEW v \in Depositors, NEW amount \in Amounts.transfer,
               MoveDeposit(u, v, amount)
        PROVE  StakeIsDeposited'
    BY <1>0, <2>2, <2>6, TransferAndRestake
  <2>7. ASSUME NEW amount, NEW lockTime, LockDeposit(u, amount, lockTime)
        PROVE  StakeIsDeposited'
    BY <1>3, <2>7 DEF LockDeposit
  <2>. QED BY <2>1, <2>4, <2>5, <2>6, <2>7
<1>5. CASE AllowanceStep
  BY <1>3, <1>5 DEF AllowanceStep, Approve, IncreaseAllowance, DecreaseAllowance, SetAllowance
<1>6. CASE BorrowerStep
  <2>1. Amounts.borrow \subseteq Nat /\ Amounts.repay \subseteq Nat
    BY PoolAssumption
  <2>2. rewarder' = rewarder
    BY <1>6 DEF BorrowerStep, Borrow, Repay
  <2>3. BalancesGrow({}, 0)
    BY <1>0, <1>6, <2>1, BorrowMoves, RepayMoves DEF BorrowerStep, Borrows, Repays
  <2>. QED BY <1>2, <2>2, <2>3
<1>7. CASE OwnerStep
  <2>1. ASSUME NEW present, SetRatesCalculator(present) PROVE StakeIsDeposited'
    BY <1>2, <2>1, CalculatorIdles DEF SetRatesCalculator, Idles
  <2>. QED BY <1>3, <1>7, <2>1
           DEF OwnerStep, RecoverSurplus, SetPoolRewarder, SetTotalSupplyCap,
               SetBorrowersRegistry, SetSpread
<1>8. CASE Tick
  <2>1. /\ rewarder' = rewarder /\ depositIndex' = depositIndex /\ deposited' = deposited
        /\ now \in Times /\ now' \in Times /\ now <= now'
    BY <1>8, PoolHere, <1>0 DEF Tick, book, Times, IInv, TypeOK
  <2>2. \A a \in Accounts : BalanceOf(a)' >= BalanceOf(a)
    <3> SUFFICES ASSUME NEW a \in Accounts PROVE BalanceOf(a)' >= BalanceOf(a)
      OBVIOUS
    <3>1. /\ depositIndex \in LinearIndices /\ HistoryOK(depositIndex, now)
          /\ a \in Holders /\ deposited[a] \in Nat
          /\ BalanceOf(a) \in Nat /\ BalanceOf(a)' \in Nat
      BY PoolHere, LaterBalances, <1>0
    <3>2. GetIndexedValue(depositIndex, now, deposited[a], a)
            <= GetIndexedValue(depositIndex, now', deposited[a], a)
      BY <2>1, <3>1, ValuesOnlyGrow
    <3>. QED BY <2>1, <3>1, <3>2 DEF BalanceOf
  <2>. QED BY <1>1, <2>1, <2>2
<1>9. CASE UNCHANGED vars
  BY <1>3, <1>9 DEF vars
<1>. QED BY <1>4, <1>5, <1>6, <1>7, <1>8, <1>9 DEF Next

LEMMA NoRewarderNoStakes ==
    ASSUME ~hasRewarder, [Next]_vars PROVE rewarder' = rewarder
<1>1. CASE DepositorStep
  <2>1. PICK u \in Depositors :
           \/ \E of, n : TakeDeposit(u, of, n)
           \/ \E n : PayOut(u, n)
           \/ \E v, n : MoveDeposit(u, v, n)
           \/ \E n, lockTime : LockDeposit(u, n, lockTime)
    BY <1>1 DEF DepositorStep, DepositOnBehalf, Withdraw, Transfer, TransferFrom
  <2>2. ASSUME NEW of, NEW n, TakeDeposit(u, of, n) PROVE rewarder' = rewarder
    BY <2>2 DEF TakeDeposit, Rewarded
  <2>3. ASSUME NEW n, PayOut(u, n) PROVE rewarder' = rewarder
    BY <2>3 DEF PayOut, Rewarded
  <2>4. ASSUME NEW v, NEW n, MoveDeposit(u, v, n) PROVE rewarder' = rewarder
    BY <2>4 DEF MoveDeposit, MoveStake, Rewarded
  <2>5. ASSUME NEW n, NEW lockTime, LockDeposit(u, n, lockTime) PROVE rewarder' = rewarder
    BY <2>5 DEF LockDeposit
  <2>. QED BY <2>1, <2>2, <2>3, <2>4, <2>5
<1>2. CASE AllowanceStep
  BY <1>2 DEF AllowanceStep, Approve, IncreaseAllowance, DecreaseAllowance, SetAllowance
<1>3. CASE BorrowerStep
  BY <1>3 DEF BorrowerStep, Borrow, Repay
<1>4. CASE OwnerStep
  BY <1>4 DEF OwnerStep, RecoverSurplus, SetRatesCalculator, SetPoolRewarder,
              SetTotalSupplyCap, SetBorrowersRegistry, SetSpread
<1>5. CASE Tick \/ UNCHANGED vars
  BY <1>5 DEF Tick, vars
<1>. QED BY <1>1, <1>2, <1>3, <1>4, <1>5 DEF Next

\* The stakes are within the deposits from the time the pool calls its rewarder.
\* What happens once a script has read the list without that is not claimed.
Enrolment ==
    \/ script.phase = "off" /\ hasRewarder /\ StakeIsDeposited
    \/ /\ script.phase = "planned" /\ StakeIsDeposited
       /\ ~hasRewarder => \A a \in Accounts : rewarder.balanceOf[a] = 0
    \/ /\ script.phase \in {"listing", "saved", "done"}
       /\ script.smooth => hasRewarder /\ StakeIsDeposited

LEMMA InitEnrolled == LaunchInit => Enrolment
<1> SUFFICES ASSUME LaunchInit PROVE Enrolment
  OBVIOUS
<1>1. IInv
  BY PoolAssumption, InitIInv DEF LaunchInit
<1>2. \A a \in Accounts : rewarder.balanceOf[a] = 0 /\ BalanceOf(a) \in Nat
  BY <1>1, PoolHere DEF LaunchInit, Init, NewRewarder
<1>3. StakeIsDeposited
  BY <1>2 DEF StakeIsDeposited
<1>4. \/ script.phase = "off" /\ hasRewarder
      \/ script.phase = "planned"
  <2>1. ASSUME NEW phase, NEW order PROVE Script(phase, order).phase = phase
    BY DEF Script
  <2>. QED BY <2>1 DEF LaunchInit
<1>. QED BY <1>2, <1>3, <1>4 DEF Enrolment

\* A batch, and a call of addDeposits, make stakes of deposits.
LEMMA EnrolmentMatches ==
    ASSUME IInv, NEW accounts, AddDepositsOf(accounts), StakeIsDeposited
    PROVE  StakeIsDeposited'
<1> SUFFICES ASSUME NEW a \in Accounts PROVE rewarder'.balanceOf[a] <= BalanceOf(a)'
  BY DEF StakeIsDeposited
<1>1. rewarder \in Rewarders
  BY RewarderHere
<1>2. rewarder'.balanceOf[a] = IF a \in accounts THEN BalanceOf(a) ELSE rewarder.balanceOf[a]
  BY <1>1 DEF AddDepositsOf, AddDeposits, UpdateReward, Rewarders
<1>3. BalanceOf(a)' = BalanceOf(a)
  BY DEF AddDepositsOf, poolState, book, BalanceOf
<1>4. BalanceOf(a) \in Nat
  BY PoolHere
<1>. QED BY <1>2, <1>3, <1>4 DEF StakeIsDeposited

LEMMA StaysEnrolled ==
    ASSUME Excluded = {}
    PROVE  Balanced /\ Enrolment /\ [LaunchNext]_launchVars => Enrolment'
<1> SUFFICES ASSUME Balanced, Enrolment, [LaunchNext]_launchVars PROVE Enrolment'
  OBVIOUS
<1>0. IInv /\ rewarder \in Rewarders /\ hasRewarder \in BOOLEAN
  BY RewarderHere DEF Balanced, IInv, TypeOK
<1>1. CASE UNCHANGED vars /\ script' = script
  <2>1. StakeIsDeposited' <=> StakeIsDeposited
    BY <1>1 DEF StakeIsDeposited, vars, book, BalanceOf
  <2>. QED BY <1>1, <2>1 DEF Enrolment, vars, config
<1>2. CASE StartListing
  <2>1. StakeIsDeposited' <=> StakeIsDeposited
    BY <1>2 DEF StartListing, StakeIsDeposited, vars, book, BalanceOf
  <2>2. /\ script.phase = "planned" /\ script'.phase = "listing"
        /\ script'.smooth = hasRewarder /\ hasRewarder' = hasRewarder
    BY <1>2 DEF StartListing, vars, config, Balanced, ScriptOK, Scripts
  <2>. QED BY <2>1, <2>2 DEF Enrolment
<1>3. ASSUME script.phase \in {"listing", "saved"}, script'.phase \in {"listing", "saved", "done"},
             script'.smooth => script.smooth, hasRewarder' = hasRewarder,
             StakeIsDeposited => StakeIsDeposited'
      PROVE  Enrolment'
  BY <1>3 DEF Enrolment
<1>4. CASE FetchPage \/ FetchFails \/ BatchFails
  <2>1. StakeIsDeposited => StakeIsDeposited'
    BY <1>4 DEF FetchPage, FetchFails, BatchFails, StakeIsDeposited, vars, book, BalanceOf
  <2>2. /\ script.phase \in {"listing", "saved"}
        /\ script'.phase \in {"listing", "saved", "done"}
        /\ script'.smooth => script.smooth
    BY <1>4 DEF FetchPage, FetchFails, BatchFails, BatchSent, Left, Balanced, ScriptOK, Scripts
  <2>3. hasRewarder' = hasRewarder
    BY <1>4 DEF FetchPage, FetchFails, BatchFails, vars, config
  <2>. QED BY <1>3, <2>1, <2>2, <2>3
<1>5. CASE ProcessBatch
  <2>1. StakeIsDeposited => StakeIsDeposited'
    BY <1>0, <1>5, EnrolmentMatches DEF ProcessBatch
  <2>2. /\ script.phase \in {"listing", "saved"}
        /\ script'.phase \in {"listing", "saved", "done"}
        /\ script'.smooth => script.smooth
    BY <1>5 DEF ProcessBatch, BatchSent, Left, Balanced, ScriptOK, Scripts
  <2>3. hasRewarder' = hasRewarder
    BY <1>5 DEF ProcessBatch, AddDepositsOf, poolState, config
  <2>. QED BY <1>3, <2>1, <2>2, <2>3
<1>6. CASE Next /\ Meanwhile
  <2>1. /\ script'.phase = script.phase /\ (script'.smooth => script.smooth)
        /\ hasRewarder => hasRewarder'
    BY <1>6 DEF Meanwhile, Balanced, ScriptOK, Scripts
  <2>2. ASSUME hasRewarder, StakeIsDeposited PROVE StakeIsDeposited'
    BY <1>0, <1>6, <2>2, StakeFollowsDeposit
  <2>3. ASSUME ~hasRewarder, \A a \in Accounts : rewarder.balanceOf[a] = 0
        PROVE  /\ \A a \in Accounts : rewarder'.balanceOf[a] = 0
               /\ StakeIsDeposited'
    <3>1. rewarder' = rewarder
      BY <1>6, <2>3, NoRewarderNoStakes
    <3>2. IInv'
      BY <1>0, <1>6, NextKeepsIInv
    <3>3. \A a \in Accounts : BalanceOf(a)' \in Nat
      BY <3>2, LaterBalances, PoolHere, <1>0
    <3>. QED BY <2>3, <3>1, <3>3 DEF StakeIsDeposited
  <2>4. CASE script.phase = "off"
    BY <2>1, <2>2, <2>4 DEF Enrolment
  <2>5. CASE script.phase = "planned"
    <3>1. CASE hasRewarder
      BY <2>1, <2>2, <2>5, <3>1 DEF Enrolment
    <3>2. CASE ~hasRewarder
      BY <2>1, <2>3, <2>5, <3>2 DEF Enrolment
    <3>. QED BY <3>1, <3>2
  <2>6. CASE script.phase \in {"listing", "saved", "done"}
    BY <2>1, <2>2, <2>6 DEF Enrolment
  <2>. QED BY <2>4, <2>5, <2>6 DEF Enrolment
<1>7. CASE script.phase = "off" /\ RewarderStep /\ UNCHANGED script
  <2>1. hasRewarder' = hasRewarder
    BY <1>7 DEF RewarderStep, GetRewards, SetRewardsDuration, Notify, AddDepositsOf,
                poolState, config
  <2>2. StakeIsDeposited
    BY <1>7 DEF Enrolment
  <2>3. ASSUME rewarder'.balanceOf = rewarder.balanceOf, UNCHANGED poolState
        PROVE  StakeIsDeposited'
    BY <2>2, <2>3 DEF StakeIsDeposited, poolState, book, BalanceOf
  <2>4. ASSUME NEW account, GetRewards(account) PROVE StakeIsDeposited'
    <3>1. rewarder'.balanceOf = rewarder.balanceOf
      BY <1>0, <2>4 DEF GetRewards, GetRewardsFor, UpdateReward, Rewarders
    <3>. QED BY <2>3, <2>4, <3>1 DEF GetRewards
  <2>5. ASSUME NEW duration, SetRewardsDuration(duration) PROVE StakeIsDeposited'
    <3>1. rewarder'.balanceOf = rewarder.balanceOf
      BY <1>0, <2>5 DEF SetRewardsDuration, Rewarders
    <3>. QED BY <2>3, <2>5, <3>1 DEF SetRewardsDuration
  <2>6. ASSUME NEW n, Notify(n) PROVE StakeIsDeposited'
    <3>1. rewarder'.balanceOf = rewarder.balanceOf
      BY <1>0, <2>6 DEF Notify, NotifyRewardAmount, UpdateReward, Rewarders
    <3>. QED BY <2>3, <2>6, <3>1 DEF Notify
  <2>7. StakeIsDeposited'
    BY <1>0, <1>7, <2>2, <2>4, <2>5, <2>6, EnrolmentMatches DEF RewarderStep
  <2>. QED BY <1>7, <2>1, <2>7 DEF Enrolment
<1>. QED BY <1>1, <1>2, <1>4, <1>5, <1>6, <1>7 DEF LaunchNext, LaunchStep, launchVars

\* Nobody earns rewards for deposits it does not have, when nobody is excluded
\* from the rewarder (a transfer to an excluded account leaves the sender's stake
\* behind): for any depositors, amounts, rates, pages and batches, in every order
\* of deposits, withdrawals and transfers with the steps of the scripts.
THEOREM StakesWithinDeposits ==
    ASSUME Excluded = {} PROVE LaunchSpec => []NeverOverstaked
<1>1. Balanced /\ Enrolment => NeverOverstaked
  BY DEF Enrolment, NeverOverstaked, Balanced, ScriptOK, Scripts
<1>. QED BY <1>1, InitBalanced, StaysBalanced, InitEnrolled, StaysEnrolled, PTL DEF LaunchSpec

=============================================================================
