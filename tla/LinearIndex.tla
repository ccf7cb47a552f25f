----------------------------- MODULE LinearIndex -----------------------------
(***************************************************************************)
(* The linear index (LinearIndex.sol) that turns a stored principal into a *)
(* balance with interest.  A pool owns two of them, one for deposits and   *)
(* one for loans; each is a record                                         *)
(*   index, indexUpdateTime   the index and when it was last persisted     *)
(*   prevIndex[t]             the index recorded for time t, 0 if none     *)
(*   userUpdateTime[u]        when u's principal was last brought up to    *)
(*                            date, 0 if never                             *)
(*   rate                     the rate that applies since indexUpdateTime  *)
(* and each method an operator from a record and the block time to a value *)
(* or to the next record.                                                  *)
(***************************************************************************)
EXTENDS PoolBase

CONSTANTS RateToRay,        \* the conversion from rate units to ray, 1e9
          SECONDS_IN_YEAR

ASSUME IndexAssumption ==
    /\ RateToRay \in Nat \ {0}
    /\ SECONDS_IN_YEAR \in Nat \ {0}

BASE_RATE == WAD
RAY == RateToRay * WAD

LinearIndices ==
    [index : Nat, indexUpdateTime : Times, rate : Nat,
     prevIndex : [Times -> Nat], userUpdateTime : [Holders -> {0} \cup Times]]

NewIndex(now) ==
    [index |-> BASE_RATE, indexUpdateTime |-> now, rate |-> 0,
     prevIndex |-> [t \in Times |-> 0],
     userUpdateTime |-> [u \in Holders |-> 0]]

LinearFactor(ix, period) ==
    (ix.rate * period * RateToRay) \div SECONDS_IN_YEAR + RAY

GetIndex(ix, now) ==
    IF now > ix.indexUpdateTime
    THEN (ix.index * LinearFactor(ix, now - ix.indexUpdateTime)) \div RAY
    ELSE ix.index

\* The index a user's principal was last brought up to date with.
PrevUserIndex(ix, now, user) ==
    IF ix.userUpdateTime[user] = 0
    THEN GetIndex(ix, now)
    ELSE ix.prevIndex[ix.userUpdateTime[user]]

GetIndexedValue(ix, now, value, user) ==
    (value * GetIndex(ix, now)) \div PrevUserIndex(ix, now, user)

\* Mutant of UpdateUser: the entry is the index persisted last, without the
\* interest since.
UpdateUserStale(ix, now, user) ==
    [ix EXCEPT !.userUpdateTime = [@ EXCEPT ![user] = now],
               !.prevIndex = [@ EXCEPT ![now] = ix.index]]

UpdateUser(ix, now, user) ==
    [ix EXCEPT !.userUpdateTime = [@ EXCEPT ![user] = now],
               !.prevIndex = [@ EXCEPT ![now] = GetIndex(ix, now)]]

\* Mutant of UpdateIndex: the time moves on, the index does not.
UpdateIndexTime(ix, now) ==
    [ix EXCEPT !.prevIndex = [@ EXCEPT ![ix.indexUpdateTime] = ix.index],
               !.indexUpdateTime = now]

UpdateIndex(ix, now) ==
    [ix EXCEPT !.prevIndex = [@ EXCEPT ![ix.indexUpdateTime] = ix.index],
               !.index = GetIndex(ix, now),
               !.indexUpdateTime = now]

SetRate(ix, now, rate) == [UpdateIndex(ix, now) EXCEPT !.rate = rate]

-----------------------------------------------------------------------------
(* Properties *)

\* What the index rests on: the entry a holder's principal is scaled by is set,
\* is no later than now and is never above the current index; it is the current
\* index when the holder was updated in this very block, and what updateIndex
\* is about to write there when it was updated in the block of the last rate
\* change (updateUser and updateIndex, LinearIndex.sol:57-60 and 92-97, write
\* the same entries and must agree on them).
HistoryOK(ix, now) ==
    /\ ix.indexUpdateTime <= now
    /\ ix.index >= BASE_RATE
    /\ \A h \in Holders :
          LET t == ix.userUpdateTime[h]
          IN t # 0 => /\ t <= now
                      /\ ix.prevIndex[t] >= BASE_RATE
                      /\ ix.prevIndex[t] <= GetIndex(ix, now)
                      /\ t = now => ix.prevIndex[t] = GetIndex(ix, now)
                      /\ t = ix.indexUpdateTime => ix.prevIndex[t] = ix.index
==============================================================================
