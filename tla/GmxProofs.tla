------------------------------ MODULE GmxProofs ------------------------------
(***************************************************************************)
(* Prime Accounts and a GMX market, for any accounts, assets, orders,      *)
(* prices and limits, and whatever the exchange pays.                      *)
(*                                                                         *)
(* First the records: an account is frozen while one request of it is open;*)
(* what is pending is what open requests wait for; the exposure of the     *)
(* protocol is what accounts count; and what an account holds is counted.  *)
(* Then solvency: no transaction makes an account insolvent that is healthy*)
(* whichever way its request ends.  A weighted value with every product    *)
(* rounded down is superadditive, so what a transaction puts in weighs at  *)
(* least what the check before it has weighed.                             *)
(* Last, a liquidation: in dollars, what settles the debts is what leaves  *)
(* the account and the liquidator, and what is paid out is at most that    *)
(* share of the account which the liquidator is owed.                      *)
(***************************************************************************)
EXTENDS GmxV2, SumLemmas, FiniteSetTheorems, TLAPS

Tokens == [Assets -> Nat]

Debts == [PoolAssets -> Nat]

LEMMA MaxOfTwo ==
    ASSUME NEW m \in Int, NEW n \in Int
    PROVE  Max({m, n}) = IF m >= n THEN m ELSE n
<1> DEFINE k == IF m >= n THEN m ELSE n
<1>1. k \in {m, n} /\ \A j \in {m, n} : k >= j
  OBVIOUS
<1>2. \A j \in {m, n} : (\A i \in {m, n} : j >= i) => j = k
  OBVIOUS
<1>. QED BY <1>1, <1>2 DEF Max

LEMMA MinIsLeast ==
    ASSUME NEW S \in SUBSET Int, NEW n \in S, \A m \in S : n <= m
    PROVE  Min(S) = n
<1>1. \A j \in S : (\A i \in S : j <= i) => j = n
  OBVIOUS
<1>. QED BY <1>1 DEF Min

LEMMA MinOfTwo ==
    ASSUME NEW m \in Nat, NEW n \in Nat
    PROVE  Min({m, n}) \in Nat /\ Min({m, n}) <= m /\ Min({m, n}) <= n
<1> DEFINE k == IF m <= n THEN m ELSE n
<1>1. k \in {m, n} /\ \A j \in {m, n} : k <= j
  OBVIOUS
<1>2. k \in Nat /\ {m, n} \in SUBSET Int
  OBVIOUS
<1>3. Min({m, n}) = k
  BY <1>1, <1>2, MinIsLeast
<1>. QED BY <1>1, <1>3

LEMMA MinOfThree ==
    ASSUME NEW l \in Nat, NEW m \in Nat, NEW n \in Nat
    PROVE  /\ Min({l, m, n}) \in Nat
           /\ Min({l, m, n}) <= l /\ Min({l, m, n}) <= m /\ Min({l, m, n}) <= n
<1> DEFINE k == IF l <= m /\ l <= n THEN l ELSE IF m <= n THEN m ELSE n
<1>1. k \in {l, m, n} /\ \A j \in {l, m, n} : k <= j
  OBVIOUS
<1>2. k \in Nat /\ {l, m, n} \in SUBSET Int
  OBVIOUS
<1>3. Min({l, m, n}) = k
  BY <1>1, <1>2, MinIsLeast
<1>. QED BY <1>1, <1>3

LEMMA OnlyTyped ==
    ASSUME NEW x \in Assets, NEW n \in Nat
    PROVE  /\ Only(x, n) \in Tokens
           /\ \A y \in Assets : Only(x, n)[y] = IF y = x THEN n ELSE 0
BY DEF Only, Tokens

-----------------------------------------------------------------------------
(* The exposure of a group follows what is held of it *)

\* What is held leaves less exposure than it would without failed callbacks, and
\* without them exactly the exposure.
Follows(current, holdings, exactly) ==
    /\ current \in [Groups -> Nat]
    /\ \A g \in Groups : Limited(g) =>
          /\ current[g] <= InGroup(holdings, g)
          /\ exactly => current[g] = InGroup(holdings, g)

LEMMA InGroupNat ==
    ASSUME NEW amounts \in Tokens, NEW g PROVE InGroup(amounts, g) \in Nat
<1> DEFINE S == {x \in Assets : GroupOf[x] = g}
<1>1. IsFiniteSet(S)
  BY ExposureAssumption, FS_Subset
<1>2. \A x \in S : amounts[x] \in Nat
  BY DEF Tokens
<1> HIDE DEF S
<1>3. SumFunctionOnSet(amounts, S) \in Nat
  BY <1>1, <1>2, SumNat
<1>. QED BY <1>3 DEF InGroup, S

LEMMA InGroupLinear ==
    ASSUME NEW f \in Tokens, NEW d \in Tokens, NEW h \in Tokens, NEW k \in {1, -1},
           \A x \in Assets : h[x] = f[x] + k * d[x], NEW g
    PROVE  InGroup(h, g) = InGroup(f, g) + k * InGroup(d, g)
<1> DEFINE S == {x \in Assets : GroupOf[x] = g}
<1>1. IsFiniteSet(S)
  BY ExposureAssumption, FS_Subset
<1>2. k \in Int /\ \A x \in S : f[x] \in Int /\ d[x] \in Int /\ h[x] = f[x] + k * d[x]
  BY DEF Tokens
<1> HIDE DEF S
<1>3. SumFunctionOnSet(h, S) = SumFunctionOnSet(f, S) + k * SumFunctionOnSet(d, S)
  BY <1>1, <1>2, SumLinear
<1>. QED BY <1>3 DEF InGroup, S

LEMMA IncreasedFollows ==
    ASSUME NEW current, NEW f \in Tokens, NEW d \in Tokens, NEW h \in Tokens,
           NEW exactly \in BOOLEAN, Follows(current, f, exactly),
           \A x \in Assets : h[x] = f[x] + d[x]
    PROVE  Follows(Increased(current, d), h, exactly)
<1>1. \A x \in Assets : h[x] = f[x] + 1 * d[x]
  BY DEF Tokens
<1>2. \A g : InGroup(h, g) = InGroup(f, g) + 1 * InGroup(d, g)
  BY <1>1, InGroupLinear
<1>3. \A g : InGroup(h, g) \in Nat /\ InGroup(f, g) \in Nat /\ InGroup(d, g) \in Nat
  BY InGroupNat
<1>. QED BY <1>2, <1>3 DEF Follows, Increased

LEMMA DecreasedFollows ==
    ASSUME NEW current, NEW f \in Tokens, NEW d \in Tokens, NEW h \in Tokens,
           NEW exactly \in BOOLEAN, Follows(current, f, exactly),
           \A x \in Assets : h[x] = f[x] - d[x]
    PROVE  Follows(Decreased(current, d), h, exactly)
<1>1. \A x \in Assets : h[x] = f[x] + (-1) * d[x]
  BY DEF Tokens
<1>2. \A g : InGroup(h, g) = InGroup(f, g) + (-1) * InGroup(d, g)
  BY <1>1, InGroupLinear
<1>3. \A g : InGroup(h, g) \in Nat /\ InGroup(f, g) \in Nat /\ InGroup(d, g) \in Nat
  BY InGroupNat
<1>4. \A g \in Groups : current[g] \in Nat
  BY DEF Follows
<1>5. \A g \in Groups : Max({0, current[g] - InGroup(d, g)})
        = IF 0 >= current[g] - InGroup(d, g) THEN 0 ELSE current[g] - InGroup(d, g)
  BY <1>3, <1>4, MaxOfTwo
<1>. QED BY <1>2, <1>3, <1>4, <1>5 DEF Follows, Decreased

-----------------------------------------------------------------------------
(* Changes of one account *)

\* Everything the account has is listed.
Listed(acc) == \A x \in Assets : acc.tokens[x] > 0 => x \in acc.ownedAssets

\* new is acc with other tokens and debts: it is as frozen, and as well listed.
Turns(acc, new, tokens, borrowed) ==
    /\ new \in AccountType
    /\ new.tokens = tokens
    /\ new.borrowed = borrowed
    /\ new.frozenSince = acc.frozenSince
    /\ Listed(acc) => Listed(new)

LEMMA PlusTyped ==
    ASSUME NEW f \in Tokens, NEW d \in Tokens
    PROVE  /\ Plus(f, d) \in Tokens
           /\ \A x \in Assets : Plus(f, d)[x] = f[x] + d[x]
BY DEF Plus, Tokens

LEMMA MinusTyped ==
    ASSUME NEW f \in Tokens, NEW d \in Tokens, \A x \in Assets : d[x] <= f[x]
    PROVE  /\ Minus(f, d) \in Tokens
           /\ \A x \in Assets : Minus(f, d)[x] = f[x] - d[x]
BY DEF Minus, Tokens

LEMMA AccountParts ==
    ASSUME NEW acc \in AccountType
    PROVE  /\ acc.tokens \in Tokens /\ acc.borrowed \in Debts
           /\ acc.ownedAssets \subseteq Assets
           /\ acc.lastBorrow \in Times \cup {0} /\ acc.frozenSince \in Times \cup {0}
BY DEF AccountType, Tokens, Debts

LEMMA Receiving ==
    ASSUME NEW acc \in AccountType, NEW d \in Tokens
    PROVE  Turns(acc, WithReceived(acc, d), Plus(acc.tokens, d), acc.borrowed)
<1> DEFINE listed == acc.ownedAssets \cup {x \in Assets : d[x] > 0}
           tokens == Plus(acc.tokens, d)
           new == WithReceived(acc, d)
<1>1. tokens \in Tokens /\ \A x \in Assets : tokens[x] = acc.tokens[x] + d[x]
  BY PlusTyped, AccountParts
<1>2. listed \subseteq Assets
  BY AccountParts
<1>3. new = [acc EXCEPT !.tokens = tokens, !.ownedAssets = listed]
  BY DEF WithReceived
<1> HIDE DEF new, tokens
<1>4. /\ new \in AccountType /\ new.tokens = tokens /\ new.ownedAssets = listed
      /\ new.borrowed = acc.borrowed /\ new.frozenSince = acc.frozenSince
  BY <1>1, <1>2, <1>3 DEF AccountType, Tokens
<1>5. Listed(acc) => Listed(new)
  <2>1. acc.tokens \in Tokens
    BY AccountParts
  <2>. QED BY <1>1, <1>4, <2>1 DEF Listed, Tokens
<1>. QED BY <1>4, <1>5 DEF Turns, new, tokens

LEMMA Spending ==
    ASSUME NEW acc \in AccountType, NEW d \in Tokens,
           \A x \in Assets : d[x] <= acc.tokens[x]
    PROVE  Turns(acc, WithSpent(acc, d), Minus(acc.tokens, d), acc.borrowed)
<1> DEFINE tokens == Minus(acc.tokens, d)
           listed == {x \in acc.ownedAssets : ~(d[x] > 0 /\ tokens[x] = 0)}
           new == WithSpent(acc, d)
<1>1. tokens \in Tokens /\ \A x \in Assets : tokens[x] = acc.tokens[x] - d[x]
  BY MinusTyped, AccountParts
<1>2. listed \subseteq Assets
  BY AccountParts
<1>3. new = [acc EXCEPT !.tokens = tokens, !.ownedAssets = listed]
  BY DEF WithSpent
<1> HIDE DEF new, tokens
<1>4. /\ new \in AccountType /\ new.tokens = tokens /\ new.ownedAssets = listed
      /\ new.borrowed = acc.borrowed /\ new.frozenSince = acc.frozenSince
  BY <1>1, <1>2, <1>3 DEF AccountType, Tokens
<1>5. Listed(acc) => Listed(new)
  <2>1. acc.tokens \in Tokens
    BY AccountParts
  <2>. QED BY <1>1, <1>4, <2>1 DEF Listed, Tokens
<1>. QED BY <1>4, <1>5 DEF Turns, new, tokens

LEMMA Indebting ==
    ASSUME NEW acc \in AccountType, NEW debts \in Debts
    PROVE  Turns(acc, [acc EXCEPT !.borrowed = debts], acc.tokens, debts)
BY DEF AccountType, Debts, Turns, Listed

LEMMA Owing ==
    ASSUME NEW acc \in AccountType, NEW x \in PoolAssets, NEW n \in Int,
           acc.borrowed[x] + n \in Nat
    PROVE  Turns(acc, WithDebt(acc, x, n), acc.tokens,
                 [acc.borrowed EXCEPT ![x] = @ + n])
<1> DEFINE debts == [acc.borrowed EXCEPT ![x] = @ + n]
<1>1. debts \in Debts
  BY AccountParts DEF Debts
<1>2. WithDebt(acc, x, n) = [acc EXCEPT !.borrowed = debts]
  BY DEF WithDebt
<1> HIDE DEF debts
<1>3. Turns(acc, [acc EXCEPT !.borrowed = debts], acc.tokens, debts)
  BY <1>1, Indebting
<1>. QED BY <1>2, <1>3 DEF debts

\* Only the account of a changes, and what it becomes.
Effect(a, tokens, borrowed) ==
    /\ account' \in [Accounts -> AccountType]
    /\ \A b \in Accounts \ {a} : account'[b] = account[b]
    /\ Turns(account[a], account'[a], tokens, borrowed)
    /\ UNCHANGED <<now, price, pendingUserExposure, pendingProtocolExposure>>

LEMMA Replaced ==
    ASSUME AccountTypeOK, NEW a \in Accounts, NEW new \in AccountType, Becomes(a, new)
    PROVE  /\ account' \in [Accounts -> AccountType]
           /\ account'[a] = new
           /\ \A b \in Accounts \ {a} : account'[b] = account[b]
BY DEF AccountTypeOK, Becomes

LEMMA Effects ==
    ASSUME AccountTypeOK, NEW a \in Accounts, NEW new, Becomes(a, new),
           NEW tokens, NEW borrowed, Turns(account[a], new, tokens, borrowed),
           UNCHANGED <<now, price>>, UnchangedPending
    PROVE  Effect(a, tokens, borrowed) /\ account'[a] = new
<1>1. new \in AccountType
  BY DEF Turns
<1>2. /\ account' \in [Accounts -> AccountType]
      /\ account'[a] = new
      /\ \A b \in Accounts \ {a} : account'[b] = account[b]
  BY <1>1, Replaced
<1>. QED BY <1>2 DEF Effect, UnchangedPending

LEMMA FundEffect ==
    ASSUME AccountTypeOK, NEW a \in Accounts, NEW x \in Assets, NEW n \in Nat, Fund(a, x, n)
    PROVE  /\ Only(x, n) \in Tokens
           /\ Effect(a, Plus(account[a].tokens, Only(x, n)), account[a].borrowed)
           /\ exposure' = Increased(exposure, Only(x, n))
<1> DEFINE d == Only(x, n)
           new == WithReceived(account[a], d)
<1>1. /\ Becomes(a, new) /\ exposure' = Increased(exposure, d)
      /\ UNCHANGED <<now, price>> /\ UnchangedPending
  BY DEF Fund
<1>2. account[a] \in AccountType
  BY DEF AccountTypeOK
<1>3. d \in Tokens
  BY OnlyTyped
<1> HIDE DEF d
<1>4. Turns(account[a], new, Plus(account[a].tokens, d), account[a].borrowed)
  BY <1>2, <1>3, Receiving
<1> HIDE DEF new
<1>5. Effect(a, Plus(account[a].tokens, d), account[a].borrowed)
  BY <1>1, <1>4, Effects
<1>. QED BY <1>1, <1>3, <1>5 DEF d

LEMMA WithdrawEffect ==
    ASSUME AccountTypeOK, NEW a \in Accounts, NEW x \in Assets, NEW n \in Nat,
           Withdraw(a, x, n)
    PROVE  /\ IsSolvent(account'[a])
           /\ \E d \in Tokens :
                 /\ \A y \in Assets : d[y] <= account[a].tokens[y]
                 /\ Effect(a, Minus(account[a].tokens, d), account[a].borrowed)
                 /\ exposure' = Decreased(exposure, d)
<1> DEFINE amount == Min({n, account[a].tokens[x]})
           d == Only(x, amount)
           new == WithSpent(account[a], d)
<1>1. /\ Becomes(a, new) /\ IsSolvent(new) /\ exposure' = Decreased(exposure, d)
      /\ UNCHANGED <<now, price>> /\ UnchangedPending
  BY DEF Withdraw
<1>2. account[a] \in AccountType /\ account[a].tokens \in Tokens
  BY AccountParts DEF AccountTypeOK
<1>3. amount \in Nat /\ amount <= account[a].tokens[x]
  BY <1>2, MinOfTwo DEF Tokens
<1> HIDE DEF amount
<1>4. d \in Tokens /\ \A y \in Assets : d[y] <= account[a].tokens[y]
  <2>1. d \in Tokens /\ \A y \in Assets : d[y] = IF y = x THEN amount ELSE 0
    BY <1>2, <1>3, OnlyTyped
  <2> HIDE DEF d
  <2>. QED BY <2>1, <1>2, <1>3 DEF Tokens
<1> HIDE DEF d
<1>5. Turns(account[a], new, Minus(account[a].tokens, d), account[a].borrowed)
  BY <1>2, <1>4, Spending
<1> HIDE DEF new
<1>6. Effect(a, Minus(account[a].tokens, d), account[a].borrowed) /\ account'[a] = new
  BY <1>1, <1>5, Effects
<1>. QED BY <1>1, <1>4, <1>6

LEMMA BorrowEffect ==
    ASSUME AccountTypeOK, NEW a \in Accounts, NEW x \in PoolAssets, NEW n \in Nat,
           Borrow(a, x, n)
    PROVE  /\ IsSolvent(account'[a])
           /\ Only(x, n) \in Tokens
           /\ Effect(a, Plus(account[a].tokens, Only(x, n)),
                     [account[a].borrowed EXCEPT ![x] = @ + n])
           /\ exposure' = Increased(exposure, Only(x, n))
<1> DEFINE d == Only(x, n)
           debts == [account[a].borrowed EXCEPT ![x] = @ + n]
           tokens == Plus(account[a].tokens, d)
           owing == WithDebt(account[a], x, n)
           acc == WithReceived(owing, d)
           new == [acc EXCEPT !.lastBorrow = now]
<1>1. /\ Becomes(a, new) /\ IsSolvent(acc) /\ exposure' = Increased(exposure, d)
      /\ UNCHANGED <<now, price>> /\ UnchangedPending
  BY DEF Borrow
<1>2. account[a] \in AccountType /\ account[a].borrowed \in Debts /\ now \in Times
  BY AccountParts DEF AccountTypeOK
<1>3. d \in Tokens
  BY OnlyTyped, PrimeAccountAssumption
<1>4. Turns(account[a], owing, account[a].tokens, debts)
  BY <1>2, Owing DEF Debts
<1> HIDE DEF d, debts, owing
<1>5. Turns(owing, acc, Plus(owing.tokens, d), owing.borrowed)
  BY <1>3, <1>4, Receiving DEF Turns
<1>6. Turns(account[a], acc, tokens, debts)
  BY <1>4, <1>5 DEF Turns
<1> HIDE DEF acc, tokens
<1>7. Turns(account[a], new, tokens, debts) /\ new.ownedAssets = acc.ownedAssets
  BY <1>2, <1>6 DEF Turns, Listed, AccountType
<1>8. new.tokens = acc.tokens /\ new.borrowed = acc.borrowed /\ new.frozenSince = acc.frozenSince
  BY <1>6, <1>7 DEF Turns
<1>9. IsSolvent(new)
  BY <1>1, <1>7, <1>8 DEF IsSolvent, Healthy, Counted
<1> HIDE DEF new
<1>10. Effect(a, tokens, debts) /\ account'[a] = new
  BY <1>1, <1>7, Effects
<1>. QED BY <1>1, <1>3, <1>9, <1>10 DEF d, debts, tokens

LEMMA RepayEffect ==
    ASSUME AccountTypeOK, NEW a \in Accounts, NEW x \in PoolAssets, NEW n \in Nat,
           Repay(a, x, n)
    PROVE  /\ account[a].frozenSince = 0
           /\ \E m \in Nat :
                 /\ m <= account[a].tokens[x] /\ m <= account[a].borrowed[x]
                 /\ Only(x, m) \in Tokens
                 /\ Effect(a, Minus(account[a].tokens, Only(x, m)),
                           [account[a].borrowed EXCEPT ![x] = @ + (-m)])
                 /\ exposure' = Decreased(exposure, Only(x, m))
<1> DEFINE amount == Min({n, account[a].tokens[x], account[a].borrowed[x]})
           d == Only(x, amount)
           spent == WithSpent(account[a], d)
           debts == [account[a].borrowed EXCEPT ![x] = @ + (-amount)]
           tokens == Minus(account[a].tokens, d)
           new == WithDebt(spent, x, -amount)
<1>1. /\ account[a].frozenSince = 0
      /\ Becomes(a, new) /\ exposure' = Decreased(exposure, d)
      /\ UNCHANGED <<now, price>> /\ UnchangedPending
  BY DEF Repay
<1>2. /\ account[a] \in AccountType /\ account[a].borrowed \in Debts
      /\ account[a].tokens \in Tokens /\ x \in Assets
  BY AccountParts, PrimeAccountAssumption DEF AccountTypeOK
<1>3. /\ amount \in Nat
      /\ amount <= account[a].tokens[x] /\ amount <= account[a].borrowed[x]
  BY <1>2, MinOfThree DEF Tokens, Debts
<1> HIDE DEF amount
<1>4. d \in Tokens /\ \A y \in Assets : d[y] <= account[a].tokens[y]
  <2>1. d \in Tokens /\ \A y \in Assets : d[y] = IF y = x THEN amount ELSE 0
    BY <1>2, <1>3, OnlyTyped
  <2> HIDE DEF d
  <2>. QED BY <2>1, <1>2, <1>3 DEF Tokens
<1> HIDE DEF d
<1>5. Turns(account[a], spent, tokens, account[a].borrowed)
  BY <1>2, <1>4, Spending
<1> HIDE DEF tokens, spent
<1>6. /\ spent \in AccountType /\ spent.borrowed = account[a].borrowed
      /\ spent.borrowed[x] + (-amount) \in Nat /\ -amount \in Int
  BY <1>2, <1>3, <1>5 DEF Turns, Debts
<1>7. Turns(spent, new, spent.tokens, [spent.borrowed EXCEPT ![x] = @ + (-amount)])
  BY <1>6, Owing
<1>8. Turns(account[a], new, tokens, debts)
  BY <1>5, <1>6, <1>7 DEF Turns
<1> HIDE DEF new, debts
<1>9. Effect(a, tokens, debts)
  BY <1>1, <1>8, Effects
<1>. QED BY <1>1, <1>3, <1>4, <1>9 DEF d, debts, tokens

LEMMA ListingEffect ==
    ASSUME AccountTypeOK, NEW a \in Accounts, NEW x \in Assets, AddOwnedAsset(a, x)
    PROVE  /\ Effect(a, account[a].tokens, account[a].borrowed)
           /\ exposure' = exposure
<1> DEFINE listed == account[a].ownedAssets \cup {x}
           new == [account[a] EXCEPT !.ownedAssets = listed]
<1>1. /\ Becomes(a, new) /\ exposure' = exposure
      /\ UNCHANGED <<now, price>> /\ UnchangedPending
  BY DEF AddOwnedAsset
<1>2. account[a] \in AccountType
  BY DEF AccountTypeOK
<1>3. Turns(account[a], new, account[a].tokens, account[a].borrowed)
  BY <1>2 DEF Turns, AccountType, Listed
<1> HIDE DEF new
<1>. QED BY <1>1, <1>3, Effects

LEMMA SwapEffect ==
    ASSUME AccountTypeOK, NEW a \in Accounts, NEW x \in PoolAssets, NEW y \in PoolAssets,
           NEW n \in Nat, SwapDebt(a, x, y, n, n, n)
    PROVE  /\ IsSolvent(account'[a])
           /\ x # y
           /\ \E m \in Nat :
                 /\ m <= n /\ m <= account[a].borrowed[x]
                 /\ Only(x, n - m) \in Tokens
                 /\ Effect(a, Plus(account[a].tokens, Only(x, n - m)),
                           [[account[a].borrowed EXCEPT ![y] = @ + n]
                                EXCEPT ![x] = @ + (-m)])
                 /\ exposure' = Increased(exposure, Only(x, n - m))
<1> DEFINE asked == Min({n, account[a].borrowed[x]})
           d == Only(x, n - asked)
           tokens == Plus(account[a].tokens, d)
           more == [account[a].borrowed EXCEPT ![y] = @ + n]
           debts == [more EXCEPT ![x] = @ + (-asked)]
           kept == WithReceived(account[a], d)
           owing == WithDebt(kept, y, n)
           new == WithDebt(owing, x, -asked)
<1>1. /\ x # y /\ Becomes(a, new) /\ IsSolvent(new) /\ exposure' = Increased(exposure, d)
      /\ UNCHANGED <<now, price>> /\ UnchangedPending
  BY DEF SwapDebt
<1>2. /\ account[a] \in AccountType /\ account[a].borrowed \in Debts /\ x \in Assets
  BY AccountParts, PrimeAccountAssumption DEF AccountTypeOK
<1>3. asked \in Nat /\ asked <= n /\ asked <= account[a].borrowed[x]
  BY <1>2, MinOfTwo DEF Debts
<1> HIDE DEF asked
<1>4. d \in Tokens
  <2>1. n - asked \in Nat
    BY <1>3
  <2>. QED BY <2>1, <1>2, OnlyTyped
<1> HIDE DEF d
<1>5. Turns(account[a], kept, tokens, account[a].borrowed)
  BY <1>2, <1>4, Receiving
<1> HIDE DEF tokens, kept
<1>6. kept \in AccountType /\ kept.borrowed = account[a].borrowed /\ kept.borrowed[y] + n \in Nat
  BY <1>2, <1>5 DEF Turns, Debts
<1>7. Turns(kept, owing, kept.tokens, [kept.borrowed EXCEPT ![y] = @ + n])
  BY <1>6, Owing
<1>8. Turns(account[a], owing, tokens, more)
  BY <1>5, <1>6, <1>7 DEF Turns
<1>9. more[x] = account[a].borrowed[x]
  BY <1>1, <1>2 DEF Debts
<1> HIDE DEF owing, more
<1>10. /\ owing \in AccountType /\ owing.borrowed = more
       /\ owing.borrowed[x] + (-asked) \in Nat /\ -asked \in Int
  BY <1>2, <1>3, <1>8, <1>9 DEF Turns, Debts
<1>11. Turns(owing, new, owing.tokens, [owing.borrowed EXCEPT ![x] = @ + (-asked)])
  BY <1>10, Owing
<1>12. Turns(account[a], new, tokens, debts)
  BY <1>8, <1>10, <1>11 DEF Turns
<1> HIDE DEF new, debts
<1>13. Effect(a, tokens, debts) /\ account'[a] = new
  BY <1>1, <1>12, Effects
<1>. QED BY <1>1, <1>3, <1>4, <1>13 DEF d, debts, tokens, more

\* What is received beyond the repayment comes in, or what it lacks goes out.
LEMMA ParaSwapEffect ==
    ASSUME AccountTypeOK, NEW a \in Accounts, NEW x \in PoolAssets, NEW y \in PoolAssets,
           NEW n \in Nat, NEW m \in Nat, SwapDebtParaSwap(a, x, y, n, n, m)
    PROVE  /\ IsSolvent(account'[a])
           /\ \E d \in Tokens : \E debts :
                 \/ /\ Effect(a, Plus(account[a].tokens, d), debts)
                    /\ exposure' = Increased(exposure, d)
                 \/ /\ \A z \in Assets : d[z] <= account[a].tokens[z]
                    /\ Effect(a, Minus(account[a].tokens, d), debts)
                    /\ exposure' = Decreased(exposure, d)
<1> DEFINE asked == Min({n, account[a].borrowed[x], account[a].tokens[x] + m})
           more == [account[a].borrowed EXCEPT ![y] = @ + n]
           debts == [more EXCEPT ![x] = @ + (-asked)]
           indebted == WithDebt(account[a], y, n)
           owing == WithDebt(indebted, x, -asked)
           kept == Only(x, m - asked)
           spent == Only(x, asked - m)
           new == IF m > asked THEN WithReceived(owing, kept) ELSE WithSpent(owing, spent)
<1>1. /\ x # y /\ Becomes(a, new) /\ IsSolvent(new)
      /\ IF m > asked THEN exposure' = Increased(exposure, kept)
                      ELSE exposure' = Decreased(exposure, spent)
      /\ UNCHANGED <<now, price>> /\ UnchangedPending
  BY DEF SwapDebtParaSwap
<1>2. /\ account[a] \in AccountType /\ account[a].borrowed \in Debts
      /\ account[a].tokens \in Tokens /\ x \in Assets
      /\ account[a].tokens[x] \in Nat /\ account[a].borrowed[x] \in Nat
  BY AccountParts, PrimeAccountAssumption DEF AccountTypeOK, Tokens, Debts
<1>3. /\ asked \in Nat /\ asked <= account[a].borrowed[x]
      /\ asked <= account[a].tokens[x] + m
  BY <1>2, MinOfThree
<1> HIDE DEF asked
<1>4. more[x] = account[a].borrowed[x]
  BY <1>1, <1>2 DEF Debts
<1>5. Turns(account[a], indebted, account[a].tokens, more)
  <2>1. account[a].borrowed[y] + n \in Nat
    BY <1>2 DEF Debts
  <2>. QED BY <1>2, <2>1, Owing
<1> HIDE DEF more, indebted
<1>6. /\ indebted \in AccountType /\ indebted.borrowed = more
      /\ indebted.borrowed[x] + (-asked) \in Nat /\ -asked \in Int
  BY <1>2, <1>3, <1>4, <1>5 DEF Turns
<1>7. Turns(indebted, owing, indebted.tokens, [indebted.borrowed EXCEPT ![x] = @ + (-asked)])
  BY <1>6, Owing
<1>8. Turns(account[a], owing, account[a].tokens, debts)
  BY <1>5, <1>6, <1>7 DEF Turns
<1> HIDE DEF owing, debts
<1>9. /\ owing \in AccountType /\ owing.tokens = account[a].tokens /\ owing.borrowed = debts
  BY <1>8 DEF Turns
<1>10. CASE m > asked
  <2>1. kept \in Tokens
    <3>1. m - asked \in Nat
      BY <1>3, <1>10
    <3>. QED BY <1>2, <3>1, OnlyTyped
  <2> HIDE DEF kept
  <2>2. Turns(owing, new, Plus(owing.tokens, kept), owing.borrowed)
    BY <1>9, <1>10, <2>1, Receiving
  <2>3. Turns(account[a], new, Plus(account[a].tokens, kept), debts)
    BY <1>8, <1>9, <2>2 DEF Turns
  <2> HIDE DEF new
  <2>4. Effect(a, Plus(account[a].tokens, kept), debts) /\ account'[a] = new
    BY <1>1, <2>3, Effects
  <2>. QED BY <1>1, <1>10, <2>1, <2>4
<1>11. CASE ~(m > asked)
  <2>1. spent \in Tokens /\ \A z \in Assets : spent[z] <= account[a].tokens[z]
    <3>1. asked - m \in Nat /\ asked - m <= account[a].tokens[x]
      BY <1>2, <1>3, <1>11
    <3>2. spent \in Tokens /\ \A z \in Assets : spent[z] = IF z = x THEN asked - m ELSE 0
      BY <1>2, <3>1, OnlyTyped
    <3> HIDE DEF spent
    <3>. QED BY <1>2, <3>1, <3>2 DEF Tokens
  <2> HIDE DEF spent
  <2>2. Turns(owing, new, Minus(owing.tokens, spent), owing.borrowed)
    BY <1>9, <1>11, <2>1, Spending
  <2>3. Turns(account[a], new, Minus(account[a].tokens, spent), debts)
    BY <1>8, <1>9, <2>2 DEF Turns
  <2> HIDE DEF new
  <2>4. Effect(a, Minus(account[a].tokens, spent), debts) /\ account'[a] = new
    BY <1>1, <2>3, Effects
  <2>. QED BY <1>1, <1>11, <2>1, <2>4
<1>. QED BY <1>10, <1>11

-----------------------------------------------------------------------------
(* Liquidations: the parts of liquidate *)

Asked(repay) == [x \in Assets |-> IF x \in PoolAssets THEN repay[x] ELSE 0]

Supplied(acc, repay) == [x \in Assets |-> Max({0, Asked(repay)[x] - acc.tokens[x]})]

Repaid(acc, repay) ==
    [x \in Assets |->
        IF x \in PoolAssets THEN Min({acc.borrowed[x], Asked(repay)[x]}) ELSE 0]

Added(acc, repay) ==
    [x \in Assets |-> Max({0, Supplied(acc, repay)[x] - Repaid(acc, repay)[x]})]

Taken(acc, repay) ==
    [x \in Assets |-> Max({0, Repaid(acc, repay)[x] - Supplied(acc, repay)[x]})]

DebtsLeft(acc, repay) == [x \in PoolAssets |-> acc.borrowed[x] - Repaid(acc, repay)[x]]

Settled(acc, repay) ==
    LET repaid == Repaid(acc, repay)
    IN [WithSpent(WithReceived(acc, Added(acc, repay)), Taken(acc, repay)) EXCEPT
           !.borrowed = [x \in PoolAssets |-> @[x] - repaid[x]]]

\* How much of each listed asset goes out, per mille.
Part(owed, value, healing) ==
    IF ~healing /\ value >= owed THEN (owed * ONE) \div Max({1, value}) ELSE ONE

Out(settled, part) ==
    [x \in Assets |->
        IF x \in settled.ownedAssets THEN 3 * Third(settled.tokens[x], part) ELSE 0]

LEMMA RepaidWithin ==
    ASSUME NEW acc \in AccountType, NEW repay \in Debts
    PROVE  /\ Asked(repay) \in Tokens /\ Supplied(acc, repay) \in Tokens
           /\ Repaid(acc, repay) \in Tokens
           /\ Added(acc, repay) \in Tokens /\ Taken(acc, repay) \in Tokens
           /\ DebtsLeft(acc, repay) \in Debts
           /\ \A x \in Assets :
                 /\ Taken(acc, repay)[x] <= acc.tokens[x]
                 /\ Added(acc, repay)[x] - Taken(acc, repay)[x]
                       = Supplied(acc, repay)[x] - Repaid(acc, repay)[x]
                 /\ acc.tokens[x] = 0 /\ (x \in PoolAssets => repay[x] <= acc.borrowed[x])
                       => Added(acc, repay)[x] = 0
           /\ \A x \in PoolAssets : Repaid(acc, repay)[x] <= acc.borrowed[x]
           /\ \A x \in Assets \ PoolAssets : Repaid(acc, repay)[x] = 0
<1> DEFINE asked == Asked(repay)
           supplied == Supplied(acc, repay)
           repaid == Repaid(acc, repay)
           added == Added(acc, repay)
           taken == Taken(acc, repay)
           left == DebtsLeft(acc, repay)
<1>1. acc.tokens \in Tokens /\ acc.borrowed \in Debts
  BY AccountParts
<1>2. /\ asked \in Tokens
      /\ \A x \in Assets : asked[x] = IF x \in PoolAssets THEN repay[x] ELSE 0
  BY DEF Asked, Tokens, Debts
<1>3. supplied = [x \in Assets |-> Max({0, asked[x] - acc.tokens[x]})]
  BY DEF Supplied
<1>4. repaid = [x \in Assets |->
                  IF x \in PoolAssets THEN Min({acc.borrowed[x], asked[x]}) ELSE 0]
  BY DEF Repaid
<1>5. added = [x \in Assets |-> Max({0, supplied[x] - repaid[x]})]
  BY DEF Added
<1>6. taken = [x \in Assets |-> Max({0, repaid[x] - supplied[x]})]
  BY DEF Taken
<1>7. left = [x \in PoolAssets |-> acc.borrowed[x] - repaid[x]]
  BY DEF DebtsLeft
<1> HIDE DEF asked, supplied, repaid, added, taken, left
<1>8. \A x \in Assets : acc.tokens[x] \in Nat /\ asked[x] \in Nat
  BY <1>1, <1>2 DEF Tokens
<1>9. \A x \in Assets :
        supplied[x] = IF 0 >= asked[x] - acc.tokens[x] THEN 0 ELSE asked[x] - acc.tokens[x]
  <2>1. \A x \in Assets : asked[x] - acc.tokens[x] \in Int
    BY <1>8
  <2>. QED BY <2>1, <1>3, MaxOfTwo
<1>10. \A x \in PoolAssets :
         /\ x \in Assets /\ acc.borrowed[x] \in Nat
         /\ repaid[x] \in Nat /\ repaid[x] <= acc.borrowed[x] /\ repaid[x] <= asked[x]
         /\ acc.borrowed[x] >= asked[x] => repaid[x] = asked[x]
  <2> SUFFICES ASSUME NEW x \in PoolAssets
               PROVE  /\ x \in Assets /\ acc.borrowed[x] \in Nat
                      /\ repaid[x] \in Nat /\ repaid[x] <= acc.borrowed[x]
                      /\ repaid[x] <= asked[x]
                      /\ acc.borrowed[x] >= asked[x] => repaid[x] = asked[x]
    OBVIOUS
  <2>1. x \in Assets /\ acc.borrowed[x] \in Nat /\ asked[x] \in Nat
    BY <1>1, <1>8, PrimeAccountAssumption DEF Debts
  <2>2. repaid[x] = Min({acc.borrowed[x], asked[x]})
    BY <1>4, <2>1
  <2>3. /\ repaid[x] \in Nat /\ repaid[x] <= acc.borrowed[x] /\ repaid[x] <= asked[x]
    BY <2>1, <2>2, MinOfTwo
  <2>4. ASSUME acc.borrowed[x] >= asked[x] PROVE repaid[x] = asked[x]
    <3>1. {acc.borrowed[x], asked[x]} \in SUBSET Int /\ asked[x] \in {acc.borrowed[x], asked[x]}
          /\ \A m \in {acc.borrowed[x], asked[x]} : asked[x] <= m
      BY <2>1, <2>4
    <3>. QED BY <3>1, <2>2, MinIsLeast
  <2>. QED BY <2>1, <2>3, <2>4
<1>11. \A x \in Assets : repaid[x] \in Nat /\ repaid[x] <= asked[x]
  BY <1>4, <1>8, <1>10
<1>12. \A x \in Assets : supplied[x] \in Nat
  BY <1>8, <1>9
<1>13. \A x \in Assets :
         /\ added[x] = IF 0 >= supplied[x] - repaid[x] THEN 0 ELSE supplied[x] - repaid[x]
         /\ taken[x] = IF 0 >= repaid[x] - supplied[x] THEN 0 ELSE repaid[x] - supplied[x]
  <2>1. \A x \in Assets : supplied[x] - repaid[x] \in Int /\ repaid[x] - supplied[x] \in Int
    BY <1>11, <1>12
  <2>. QED BY <2>1, <1>5, <1>6, MaxOfTwo
<1>14. \A x \in Assets : added[x] \in Nat /\ taken[x] \in Nat
  BY <1>11, <1>12, <1>13
<1>15. supplied \in Tokens /\ repaid \in Tokens /\ added \in Tokens /\ taken \in Tokens
  BY <1>3, <1>4, <1>5, <1>6, <1>11, <1>12, <1>14 DEF Tokens
<1>16. left \in Debts
  BY <1>7, <1>10 DEF Debts
<1>17. \A x \in Assets :
         /\ taken[x] <= acc.tokens[x]
         /\ added[x] - taken[x] = supplied[x] - repaid[x]
  BY <1>8, <1>9, <1>11, <1>12, <1>13
<1>18. ASSUME NEW x \in Assets, acc.tokens[x] = 0,
              x \in PoolAssets => repay[x] <= acc.borrowed[x]
       PROVE  added[x] = 0
  <2>1. supplied[x] = asked[x]
    BY <1>8, <1>9, <1>18
  <2>2. repaid[x] = asked[x]
    BY <1>2, <1>4, <1>8, <1>10, <1>18
  <2>. QED BY <2>1, <2>2, <1>8, <1>13
<1>19. \A x \in Assets \ PoolAssets : repaid[x] = 0
  BY <1>4
<1>. QED BY <1>2, <1>10, <1>15, <1>16, <1>17, <1>18, <1>19
         DEF asked, supplied, repaid, added, taken, left

LEMMA Settling ==
    ASSUME NEW acc \in AccountType, NEW repay \in Debts
    PROVE  Turns(acc, Settled(acc, repay),
                 Minus(Plus(acc.tokens, Added(acc, repay)), Taken(acc, repay)),
                 DebtsLeft(acc, repay))
<1> DEFINE added == Added(acc, repay)
           taken == Taken(acc, repay)
           repaid == Repaid(acc, repay)
           left == DebtsLeft(acc, repay)
           tokens == Plus(acc.tokens, added)
           received == WithReceived(acc, added)
           spent == WithSpent(received, taken)
           new == Settled(acc, repay)
<1>1. /\ added \in Tokens /\ taken \in Tokens /\ left \in Debts
      /\ \A x \in Assets : taken[x] <= acc.tokens[x]
  BY RepaidWithin
<1>2. new = [spent EXCEPT !.borrowed = [x \in PoolAssets |-> spent.borrowed[x] - repaid[x]]]
  BY DEF Settled
<1>3. left = [x \in PoolAssets |-> acc.borrowed[x] - repaid[x]]
  BY DEF DebtsLeft
<1>4. acc.tokens \in Tokens
  BY AccountParts
<1>5. tokens \in Tokens /\ \A x \in Assets : tokens[x] = acc.tokens[x] + added[x]
  BY <1>1, <1>4, PlusTyped
<1> HIDE DEF added, taken, repaid, left
<1>6. Turns(acc, received, tokens, acc.borrowed)
  BY <1>1, Receiving
<1> HIDE DEF tokens, received
<1>7. received \in AccountType /\ received.tokens = tokens
  BY <1>6 DEF Turns
<1>8. \A x \in Assets : taken[x] <= received.tokens[x]
  BY <1>1, <1>4, <1>5, <1>7 DEF Tokens
<1>9. Turns(received, spent, Minus(tokens, taken), received.borrowed)
  BY <1>1, <1>7, <1>8, Spending
<1> HIDE DEF spent, new
<1>10. Turns(acc, spent, Minus(tokens, taken), acc.borrowed)
  BY <1>6, <1>9 DEF Turns
<1>11. new = [spent EXCEPT !.borrowed = left]
  BY <1>2, <1>3, <1>10 DEF Turns
<1>12. Turns(spent, new, spent.tokens, left)
  BY <1>1, <1>10, <1>11, Indebting DEF Turns
<1>13. Turns(acc, new, Minus(tokens, taken), left)
  BY <1>10, <1>12 DEF Turns
<1>. QED BY <1>13 DEF new, tokens, added, taken, left

LEMMA OutWithin ==
    ASSUME NEW acc \in AccountType, NEW part \in 0..ONE
    PROVE  /\ Out(acc, part) \in Tokens
           /\ \A x \in Assets :
                 /\ Out(acc, part)[x] <= acc.tokens[x]
                 /\ Out(acc, part)[x] * ONE <= acc.tokens[x] * part
<1>1. \A x \in Assets : acc.tokens[x] \in Nat
  BY AccountParts DEF Tokens
<1>2. ASSUME NEW n \in Nat
      PROVE  /\ 3 * Third(n, part) \in Nat /\ 3 * Third(n, part) <= n
             /\ 3 * Third(n, part) * ONE <= n * part
  <2> DEFINE q == (n * part) \div 3000
  <2>1. n * part \in Nat /\ n * part <= n * 1000
    BY DEF ONE
  <2>2. Third(n, part) = q
    BY DEF Third, ONE
  <2>3. q \in Nat /\ 3000 * q <= n * part
    <3> DEFINE p == n * part
    <3>1. p \in Nat
      BY <2>1
    <3> HIDE DEF p
    <3>2. p \div 3000 \in Nat /\ 3000 * (p \div 3000) <= p
      BY <3>1
    <3>. QED BY <3>2 DEF p
  <2> HIDE DEF q
  <2>4. 3 * q \in Nat /\ 3 * q <= n /\ 3 * q * 1000 <= n * part
    BY <2>1, <2>3
  <2>. QED BY <2>2, <2>4 DEF ONE
<1>3. \A x \in Assets :
        /\ Out(acc, part)[x] \in Nat
        /\ Out(acc, part)[x] <= acc.tokens[x]
        /\ Out(acc, part)[x] * ONE <= acc.tokens[x] * part
  <2> SUFFICES ASSUME NEW x \in Assets
               PROVE  /\ Out(acc, part)[x] \in Nat
                      /\ Out(acc, part)[x] <= acc.tokens[x]
                      /\ Out(acc, part)[x] * ONE <= acc.tokens[x] * part
    OBVIOUS
  <2> DEFINE n == acc.tokens[x]
  <2>1. n \in Nat /\ n * part \in Nat
    BY <1>1 DEF ONE
  <2>2. Out(acc, part)[x] = IF x \in acc.ownedAssets THEN 3 * Third(n, part) ELSE 0
    BY DEF Out
  <2> HIDE DEF n
  <2>3. /\ 3 * Third(n, part) \in Nat /\ 3 * Third(n, part) <= n
        /\ 3 * Third(n, part) * ONE <= n * part
    BY <1>2, <2>1
  <2>4. 0 * ONE = 0
    BY DEF ONE
  <2>. QED BY <2>1, <2>2, <2>3, <2>4 DEF n
<1>. QED BY <1>3 DEF Out, Tokens

\* What liquidate computes for an account.
Healing(acc) == Debt(acc.borrowed) > TotalValue(acc.tokens, Counted(acc))

OwedFor(acc, repay, bonus) ==
    Owed(TotalValue(Supplied(acc, repay), Assets), TotalValue(Repaid(acc, repay), Assets), bonus)

ValueLeft(acc, repay) == TotalValue(Settled(acc, repay).tokens, Counted(acc))

PartOut(acc, repay, bonus) ==
    Part(OwedFor(acc, repay, bonus), ValueLeft(acc, repay), Healing(acc))

LEMMA LiquidateSteps ==
    ASSUME NEW a \in Accounts, NEW repay, NEW bonus, NEW unprofitable,
           Liquidate(a, repay, bonus, unprofitable)
    PROVE  LET acc == account[a]
               part == PartOut(acc, repay, bonus)
               out == Out(Settled(acc, repay), part)
               after == WithSpent(Settled(acc, repay), out)
           IN /\ acc.frozenSince = 0 /\ ~Healthy(acc)
              /\ \/ Healing(acc)
                 \/ ValueLeft(acc, repay) < OwedFor(acc, repay, bonus)
                 \/ ValueLeft(acc, repay) > 0
              /\ Healing(acc) => Debt(after.borrowed) = 0
              /\ Becomes(a, after)
              /\ exposure' = Decreased(Decreased(Increased(exposure, Added(acc, repay)),
                                                 Taken(acc, repay)), out)
              /\ UNCHANGED <<now, price>> /\ UnchangedPending
BY DEF Liquidate, PartOut, Part, Out, Settled, Added, Taken, Supplied, Repaid, Asked,
       Healing, OwedFor, ValueLeft

-----------------------------------------------------------------------------
(* Values, at given prices *)

ValueAt(prices, amounts, S) ==
    SumFunctionOnSet([x \in S |-> prices[x] * amounts[x]], S)

LEMMA ValueNat ==
    ASSUME NEW prices \in Tokens, NEW S \in SUBSET Assets, NEW amounts,
           \A x \in S : amounts[x] \in Nat
    PROVE  ValueAt(prices, amounts, S) \in Nat
<1> DEFINE f == [x \in S |-> prices[x] * amounts[x]]
<1>1. IsFiniteSet(S)
  BY ExposureAssumption, FS_Subset
<1>2. \A x \in S : f[x] \in Nat
  <2> SUFFICES ASSUME NEW x \in S PROVE f[x] \in Nat
    OBVIOUS
  <2>1. prices[x] \in Nat /\ amounts[x] \in Nat
    BY DEF Tokens
  <2>. QED BY <2>1, MulNat
<1> HIDE DEF f
<1>3. SumFunctionOnSet(f, S) \in Nat
  BY <1>1, <1>2, SumNat
<1>. QED BY <1>3 DEF ValueAt, f

LEMMA PriceTyped ==
    ASSUME AccountTypeOK PROVE price \in Tokens
BY PrimeAccountAssumption DEF AccountTypeOK, Tokens

LEMMA TotalValueNat ==
    ASSUME AccountTypeOK, NEW S \in SUBSET Assets, NEW amounts,
           \A x \in S : amounts[x] \in Nat
    PROVE  TotalValue(amounts, S) \in Nat
<1>1. ValueAt(price, amounts, S) \in Nat
  BY PriceTyped, ValueNat
<1>. QED BY <1>1 DEF TotalValue, ValueAt

LEMMA LiquidationNumbers ==
    ASSUME AccountTypeOK, NEW a \in Accounts, NEW repay \in Debts, NEW bonus \in Nat
    PROVE  /\ TotalValue(Supplied(account[a], repay), Assets) \in Nat
           /\ TotalValue(Repaid(account[a], repay), Assets) \in Nat
           /\ OwedFor(account[a], repay, bonus) \in Nat
           /\ ValueLeft(account[a], repay) \in Nat
           /\ PartOut(account[a], repay, bonus) \in 0..ONE
<1> DEFINE acc == account[a]
           owed == OwedFor(acc, repay, bonus)
           value == ValueLeft(acc, repay)
           part == PartOut(acc, repay, bonus)
           s == TotalValue(Supplied(acc, repay), Assets)
           r == TotalValue(Repaid(acc, repay), Assets)
<1>1. acc \in AccountType
  BY DEF AccountTypeOK
<1>2. Counted(acc) \subseteq Assets
  BY <1>1, AccountParts, PrimeAccountAssumption DEF Counted
<1> HIDE DEF acc
<1>3. /\ \A x \in Assets : Supplied(acc, repay)[x] \in Nat /\ Repaid(acc, repay)[x] \in Nat
  BY <1>1, RepaidWithin DEF Tokens
<1>4. s \in Nat /\ r \in Nat
  BY <1>3, TotalValueNat
<1>5. \A x \in Assets : Settled(acc, repay).tokens[x] \in Nat
  BY <1>1, Settling, AccountParts DEF Turns, Tokens
<1>6. value \in Nat
  BY <1>2, <1>5, TotalValueNat DEF ValueLeft
<1>7. owed = s + (r * bonus) \div 1000
  BY DEF OwedFor, Owed
<1> HIDE DEF s, r, owed, value
<1>8. owed \in Nat
  <2> DEFINE p == r * bonus
  <2>1. p \in Nat
    BY <1>4, MulNat
  <2> HIDE DEF p
  <2>2. p \div 1000 \in Nat
    BY <2>1
  <2>. QED BY <1>4, <1>7, <2>2 DEF p
<1>9. part \in 0..ONE
  <2>1. part = IF ~Healing(acc) /\ value >= owed THEN (owed * ONE) \div Max({1, value}) ELSE ONE
    BY DEF PartOut, Part, owed, value
  <2>2. Max({1, value}) = IF 1 >= value THEN 1 ELSE value
    BY <1>6, MaxOfTwo
  <2> DEFINE m == Max({1, value})
  <2>3. m \in Nat \ {0} /\ value <= m
    BY <2>2, <1>6
  <2> HIDE DEF m
  <2>4. ASSUME value >= owed PROVE (owed * ONE) \div m \in 0..ONE
    <3>1. owed <= m
      BY <2>3, <2>4, <1>6, <1>8
    <3> DEFINE p == owed * 1000
    <3>2. p \in Nat /\ p <= 1000 * m
      BY <3>1, <1>8, <2>3
    <3> HIDE DEF p
    <3>3. p \div m \in Nat /\ p \div m <= 1000
      BY <3>2, <2>3, DivAtMost, DivNat
    <3>. QED BY <3>3 DEF p, ONE
  <2>. QED BY <2>1, <2>4 DEF m, ONE
<1>. QED BY <1>4, <1>6, <1>8, <1>9 DEF acc, s, r, owed, value, part

LEMMA LiquidateEffect ==
    ASSUME AccountTypeOK, NEW a \in Accounts, NEW repay \in Debts, NEW bonus \in Nat,
           NEW unprofitable, Liquidate(a, repay, bonus, unprofitable)
    PROVE  LET acc == account[a]
               settled == Settled(acc, repay)
               out == Out(settled, PartOut(acc, repay, bonus))
           IN /\ acc.frozenSince = 0 /\ ~Healthy(acc)
              /\ settled \in AccountType
              /\ out \in Tokens /\ \A x \in Assets : out[x] <= settled.tokens[x]
              /\ Effect(a, Minus(settled.tokens, out), DebtsLeft(acc, repay))
              /\ exposure' = Decreased(Decreased(Increased(exposure, Added(acc, repay)),
                                                 Taken(acc, repay)), out)
              /\ \/ Healing(acc)
                 \/ ValueLeft(acc, repay) < OwedFor(acc, repay, bonus)
                 \/ ValueLeft(acc, repay) > 0
              /\ Healing(acc) => Debt(DebtsLeft(acc, repay)) = 0
<1> DEFINE acc == account[a]
           settled == Settled(acc, repay)
           part == PartOut(acc, repay, bonus)
           out == Out(settled, part)
           after == WithSpent(settled, out)
           debts == DebtsLeft(acc, repay)
<1>1. /\ acc.frozenSince = 0 /\ ~Healthy(acc)
      /\ \/ Healing(acc)
         \/ ValueLeft(acc, repay) < OwedFor(acc, repay, bonus)
         \/ ValueLeft(acc, repay) > 0
      /\ Healing(acc) => Debt(after.borrowed) = 0
      /\ Becomes(a, after)
      /\ exposure' = Decreased(Decreased(Increased(exposure, Added(acc, repay)),
                                         Taken(acc, repay)), out)
      /\ UNCHANGED <<now, price>> /\ UnchangedPending
  BY LiquidateSteps
<1>2. acc \in AccountType
  BY DEF AccountTypeOK
<1>3. Turns(acc, settled, settled.tokens, debts)
  BY <1>2, Settling DEF Turns
<1>4. part \in 0..ONE
  BY LiquidationNumbers
<1>5. settled \in AccountType
  BY <1>3 DEF Turns
<1>6. out \in Tokens /\ \A x \in Assets : out[x] <= settled.tokens[x]
  BY <1>4, <1>5, OutWithin
<1> HIDE DEF settled, out, debts
<1>7. Turns(settled, after, Minus(settled.tokens, out), settled.borrowed)
  BY <1>5, <1>6, Spending
<1>8. Turns(acc, after, Minus(settled.tokens, out), debts) /\ after.borrowed = debts
  BY <1>3, <1>7 DEF Turns
<1> HIDE DEF after
<1>9. Effect(a, Minus(settled.tokens, out), debts)
  BY <1>1, <1>8, Effects
<1>. QED BY <1>1, <1>5, <1>6, <1>8, <1>9 DEF settled, out, debts, part

-----------------------------------------------------------------------------
(* The inductive invariant *)

\* What a request of r waits for, and what a cancellation returns.
Awaited(r) == IF r.deposit THEN {GmToken} ELSE MarketTokens

Offered(r) == IF r.deposit THEN MarketTokens ELSE {GmToken}

RequestsMatch ==
    \A key \in DOMAIN requests : \A x \in Assets :
        /\ requests[key].minimum[x] > 0 => x \in Awaited(requests[key])
        /\ requests[key].sent[x] > 0 => x \in Offered(requests[key])

\* FrozenWhileRequested without cardinalities.
OneWhileFrozen ==
    \A a \in Accounts \ alarms :
        IF account[a].frozenSince # 0
        THEN \E key \in open : OpenRequests(a) = {key}
        ELSE OpenRequests(a) = {}

\* PendingIsRequested without a sum over the requests of an account.
PendingTotals ==
    \A x \in Assets : pendingProtocolExposure[x]
        = SumFunctionOnSet([a \in Accounts |-> pendingUserExposure[a][x]], Accounts)

PendingOfAccounts ==
    \A a \in Accounts \ alarms, x \in Assets :
        IF account[a].frozenSince # 0
        THEN \A key \in OpenRequests(a) :
                pendingUserExposure[a][x] = requests[key].minimum[x]
        ELSE pendingUserExposure[a][x] = 0

AllListed == \A a \in Accounts \ alarms : Listed(account[a])

Holdings == [x \in Assets |-> Held(x)]

ExposureFollows == Follows(exposure, Holdings, alarms = {})

IInv ==
    /\ TypeOK
    /\ RequestsMatch
    /\ OneWhileFrozen
    /\ PendingTotals
    /\ PendingOfAccounts
    /\ AllListed
    /\ ExposureFollows

-----------------------------------------------------------------------------
(* Steps of owners and liquidators *)

\* The exposure goes with the tokens of an account, from old to new.
Carried(old, new) ==
    \A f \in Tokens, h \in Tokens, exactly \in BOOLEAN :
        (/\ Follows(exposure, f, exactly)
         /\ \A x \in Assets : old[x] <= f[x] /\ h[x] = f[x] - old[x] + new[x])
        => Follows(exposure', h, exactly)

LEMMA CarriedWithPlus ==
    ASSUME NEW old \in Tokens, NEW d \in Tokens, exposure' = Increased(exposure, d)
    PROVE  Carried(old, Plus(old, d))
<1> SUFFICES ASSUME NEW f \in Tokens, NEW h \in Tokens, NEW exactly \in BOOLEAN,
                    Follows(exposure, f, exactly),
                    \A x \in Assets :
                       old[x] <= f[x] /\ h[x] = f[x] - old[x] + Plus(old, d)[x]
             PROVE  Follows(exposure', h, exactly)
  BY DEF Carried
<1>1. \A x \in Assets : h[x] = f[x] + d[x]
  BY DEF Plus, Tokens
<1>. QED BY <1>1, IncreasedFollows

LEMMA CarriedWithMinus ==
    ASSUME NEW old \in Tokens, NEW d \in Tokens, exposure' = Decreased(exposure, d)
    PROVE  Carried(old, Minus(old, d))
<1> SUFFICES ASSUME NEW f \in Tokens, NEW h \in Tokens, NEW exactly \in BOOLEAN,
                    Follows(exposure, f, exactly),
                    \A x \in Assets :
                       old[x] <= f[x] /\ h[x] = f[x] - old[x] + Minus(old, d)[x]
             PROVE  Follows(exposure', h, exactly)
  BY DEF Carried
<1>1. \A x \in Assets : h[x] = f[x] - d[x]
  BY DEF Minus, Tokens
<1>. QED BY <1>1, DecreasedFollows

LEMMA CarriedAlone ==
    ASSUME NEW old \in Tokens, exposure' = exposure
    PROVE  Carried(old, old)
<1> SUFFICES ASSUME NEW f \in Tokens, NEW h \in Tokens, NEW exactly \in BOOLEAN,
                    Follows(exposure, f, exactly),
                    \A x \in Assets : old[x] <= f[x] /\ h[x] = f[x] - old[x] + old[x]
             PROVE  Follows(exposure', h, exactly)
  BY DEF Carried
<1>1. h = f
  BY DEF Tokens
<1>. QED BY <1>1

LEMMA CarriedInLiquidation ==
    ASSUME NEW acc \in AccountType, NEW repay \in Debts, NEW out \in Tokens,
           \A x \in Assets : out[x] <= Settled(acc, repay).tokens[x],
           exposure' = Decreased(Decreased(Increased(exposure, Added(acc, repay)),
                                           Taken(acc, repay)), out)
    PROVE  Carried(acc.tokens, Minus(Settled(acc, repay).tokens, out))
<1> DEFINE old == acc.tokens
           added == Added(acc, repay)
           taken == Taken(acc, repay)
           settled == Settled(acc, repay).tokens
           new == Minus(settled, out)
<1>1. /\ old \in Tokens /\ added \in Tokens /\ taken \in Tokens
      /\ \A x \in Assets : taken[x] <= old[x]
  BY RepaidWithin, AccountParts
<1>2. settled = Minus(Plus(old, added), taken) /\ settled \in Tokens
  BY Settling, AccountParts DEF Turns
<1> HIDE DEF old, added, taken, settled
<1>3. \A x \in Assets : settled[x] = old[x] + added[x] - taken[x]
  BY <1>1, <1>2 DEF Plus, Minus, Tokens
<1>4. \A x \in Assets : new[x] = settled[x] - out[x]
  BY DEF Minus
<1> HIDE DEF new
<1>5. ASSUME NEW f \in Tokens, NEW h \in Tokens, NEW exactly \in BOOLEAN,
             Follows(exposure, f, exactly),
             \A x \in Assets : old[x] <= f[x] /\ h[x] = f[x] - old[x] + new[x]
      PROVE  Follows(exposure', h, exactly)
  <2> DEFINE f1 == [x \in Assets |-> f[x] + added[x]]
             f2 == [x \in Assets |-> f1[x] - taken[x]]
  <2>1. f1 \in Tokens /\ \A x \in Assets : f1[x] = f[x] + added[x]
    BY <1>1 DEF Tokens
  <2>2. Follows(Increased(exposure, added), f1, exactly)
    BY <2>1, <1>1, <1>5, IncreasedFollows
  <2> HIDE DEF f1
  <2>3. f2 \in Tokens /\ \A x \in Assets : f2[x] = f1[x] - taken[x]
    BY <1>1, <1>5, <2>1 DEF Tokens
  <2>4. Follows(Decreased(Increased(exposure, added), taken), f2, exactly)
    BY <2>1, <2>2, <2>3, <1>1, DecreasedFollows
  <2> HIDE DEF f2
  <2>5. \A x \in Assets : h[x] = f2[x] - out[x]
    <3> SUFFICES ASSUME NEW x \in Assets PROVE h[x] = f2[x] - out[x]
      OBVIOUS
    <3>1. /\ f[x] \in Nat /\ old[x] \in Nat /\ added[x] \in Nat /\ taken[x] \in Nat
          /\ settled[x] \in Nat /\ out[x] \in Nat
      BY <1>1, <1>2 DEF Tokens
    <3>2. h[x] = f[x] - old[x] + new[x]
      BY <1>5
    <3>. QED BY <3>1, <3>2, <1>3, <1>4, <2>1, <2>3
  <2>6. Follows(Decreased(Decreased(Increased(exposure, added), taken), out), h, exactly)
    BY <2>3, <2>4, <2>5, <1>5, DecreasedFollows
  <2>. QED BY <2>6 DEF added, taken
<1>6. Carried(old, new)
  BY <1>5 DEF Carried
<1>. QED BY <1>6 DEF old, new, settled

\* What a step of an owner or of a liquidator does.
Moves(a, tokens, borrowed) ==
    Effect(a, tokens, borrowed) /\ Carried(account[a].tokens, tokens)

LEMMA OwnerMoves ==
    ASSUME AccountTypeOK, NEW a \in Accounts, OwnerStep(a)
    PROVE  \E tokens, borrowed : Moves(a, tokens, borrowed)
<1>0. account[a].tokens \in Tokens
  BY AccountParts DEF AccountTypeOK
<1>1. ASSUME NEW x \in Assets, NEW n \in Nat, Fund(a, x, n)
      PROVE  \E tokens, borrowed : Moves(a, tokens, borrowed)
  BY <1>0, <1>1, FundEffect, CarriedWithPlus DEF Moves
<1>2. ASSUME NEW x \in Assets, NEW n \in Nat, Withdraw(a, x, n)
      PROVE  \E tokens, borrowed : Moves(a, tokens, borrowed)
  BY <1>0, <1>2, WithdrawEffect, CarriedWithMinus DEF Moves
<1>3. ASSUME NEW x \in PoolAssets, NEW n \in Nat, Borrow(a, x, n)
      PROVE  \E tokens, borrowed : Moves(a, tokens, borrowed)
  BY <1>0, <1>3, BorrowEffect, CarriedWithPlus DEF Moves
<1>4. ASSUME NEW x \in PoolAssets, NEW n \in Nat, Repay(a, x, n)
      PROVE  \E tokens, borrowed : Moves(a, tokens, borrowed)
  BY <1>0, <1>4, RepayEffect, CarriedWithMinus DEF Moves
<1>5. ASSUME NEW x \in PoolAssets, NEW y \in PoolAssets, NEW n \in Nat,
             SwapDebt(a, x, y, n, n, n)
      PROVE  \E tokens, borrowed : Moves(a, tokens, borrowed)
  BY <1>0, <1>5, SwapEffect, CarriedWithPlus DEF Moves
<1>6. ASSUME NEW x \in PoolAssets, NEW y \in PoolAssets, NEW n \in Nat, NEW m \in Nat,
             SwapDebtParaSwap(a, x, y, n, n, m)
      PROVE  \E tokens, borrowed : Moves(a, tokens, borrowed)
  <2>1. PICK d, debts :
           /\ d \in Tokens
           /\ \/ /\ Effect(a, Plus(account[a].tokens, d), debts)
                 /\ exposure' = Increased(exposure, d)
              \/ /\ Effect(a, Minus(account[a].tokens, d), debts)
                 /\ exposure' = Decreased(exposure, d)
    BY <1>6, ParaSwapEffect
  <2>. QED BY <1>0, <2>1, CarriedWithPlus, CarriedWithMinus DEF Moves
<1>7. \A operation \in {"fund", "withdraw", "borrow", "repay", "swap", "received"} :
        Amounts[operation] \subseteq Nat
  BY PrimeAccountAssumption
<1>. QED BY <1>1, <1>2, <1>3, <1>4, <1>5, <1>6, <1>7 DEF OwnerStep

LEMMA LiquidatorMoves ==
    ASSUME AccountTypeOK, NEW a \in Accounts, LiquidatorStep(a)
    PROVE  \E tokens, borrowed : Moves(a, tokens, borrowed)
<1>0. account[a] \in AccountType /\ account[a].tokens \in Tokens
  BY AccountParts DEF AccountTypeOK
<1>1. ASSUME NEW repay \in Debts, NEW bonus \in Nat, NEW unprofitable,
             Liquidate(a, repay, bonus, unprofitable)
      PROVE  \E tokens, borrowed : Moves(a, tokens, borrowed)
  <2> DEFINE out == Out(Settled(account[a], repay), PartOut(account[a], repay, bonus))
             tokens == Minus(Settled(account[a], repay).tokens, out)
  <2>1. /\ out \in Tokens
        /\ \A x \in Assets : out[x] <= Settled(account[a], repay).tokens[x]
        /\ Effect(a, tokens, DebtsLeft(account[a], repay))
        /\ exposure' = Decreased(Decreased(Increased(exposure, Added(account[a], repay)),
                                           Taken(account[a], repay)), out)
    BY <1>1, LiquidateEffect
  <2> HIDE DEF out
  <2>2. Carried(account[a].tokens, tokens)
    BY <1>0, <2>1, CarriedInLiquidation
  <2>. QED BY <2>1, <2>2 DEF Moves
<1>2. ASSUME NEW x \in Assets, AddOwnedAsset(a, x)
      PROVE  \E tokens, borrowed : Moves(a, tokens, borrowed)
  BY <1>0, <1>2, ListingEffect, CarriedAlone DEF Moves
<1>3. Repayments \subseteq Debts /\ {0, MAX_LIQUIDATION_BONUS} \subseteq Nat
  BY PrimeAccountAssumption DEF Debts
<1>. QED BY <1>1, <1>2, <1>3 DEF LiquidatorStep

LEMMA HeldNat ==
    ASSUME AccountTypeOK, NEW x \in Assets
    PROVE  /\ Held(x) \in Nat
           /\ \A a \in Accounts : account[a].tokens[x] \in Nat /\ account[a].tokens[x] <= Held(x)
<1> DEFINE f == [b \in Accounts |-> account[b].tokens[x]]
<1>1. \A b \in Accounts : f[b] \in Nat
  BY AccountParts DEF AccountTypeOK, Tokens
<1>2. Held(x) = SumFunctionOnSet(f, Accounts)
  BY DEF Held
<1>3. \A b \in Accounts : f[b] = account[b].tokens[x]
  OBVIOUS
<1> HIDE DEF f
<1>4. Held(x) \in Nat
  BY <1>1, <1>2, SumNat, ExposureAssumption
<1>5. ASSUME NEW a \in Accounts PROVE f[a] <= Held(x)
  <2>1. \A b \in Accounts : f[b] \in Int
    BY <1>1
  <2>2. SumFunctionOnSet(f, Accounts) = f[a] + SumFunctionOnSet(f, Accounts \ {a})
    BY <2>1, SumWithout, ExposureAssumption
  <2>3. IsFiniteSet(Accounts \ {a})
    BY FS_Subset, ExposureAssumption
  <2>4. SumFunctionOnSet(f, Accounts \ {a}) \in Nat
    BY <1>1, <2>3, SumNat
  <2>. QED BY <1>1, <1>2, <2>2, <2>4
<1>. QED BY <1>1, <1>3, <1>4, <1>5

\* With the tokens of one account, what is held of every asset changes.
LEMMA HoldingsChange ==
    ASSUME AccountTypeOK, NEW a \in Accounts, account' \in [Accounts -> AccountType],
           \A b \in Accounts \ {a} : account'[b] = account[b]
    PROVE  /\ Holdings \in Tokens /\ Holdings' \in Tokens
           /\ \A x \in Assets :
                 /\ account[a].tokens[x] <= Holdings[x]
                 /\ Holdings'[x]
                      = Holdings[x] - account[a].tokens[x] + account'[a].tokens[x]
<1>1. ASSUME NEW x \in Assets
      PROVE  /\ account[a].tokens[x] \in Nat /\ account'[a].tokens[x] \in Nat
             /\ Held(x) \in Nat /\ account[a].tokens[x] <= Held(x) /\ Held(x)' \in Nat
             /\ Held(x)' = Held(x) - account[a].tokens[x] + account'[a].tokens[x]
  <2> DEFINE f == [b \in Accounts |-> account[b].tokens[x]]
             g == [b \in Accounts |-> account'[b].tokens[x]]
  <2>1. \A b \in Accounts : f[b] \in Int /\ g[b] \in Nat /\ g[b] \in Int
    BY AccountParts DEF AccountTypeOK, Tokens
  <2>2. \A b \in Accounts \ {a} : g[b] = f[b]
    OBVIOUS
  <2>3. Held(x) = SumFunctionOnSet(f, Accounts) /\ Held(x)' = SumFunctionOnSet(g, Accounts)
    BY DEF Held
  <2>4. f[a] = account[a].tokens[x] /\ g[a] = account'[a].tokens[x]
    OBVIOUS
  <2> HIDE DEF f, g
  <2>5. SumFunctionOnSet(g, Accounts) = SumFunctionOnSet(f, Accounts) - f[a] + g[a]
    BY <2>1, <2>2, SumChanged, ExposureAssumption
  <2>6. SumFunctionOnSet(g, Accounts) \in Nat
    BY <2>1, SumNat, ExposureAssumption
  <2>. QED BY <2>1, <2>3, <2>4, <2>5, <2>6, HeldNat
<1>2. Holdings = [x \in Assets |-> Held(x)] /\ Holdings' = [x \in Assets |-> Held(x)']
  BY DEF Holdings
<1>3. Holdings \in Tokens /\ Holdings' \in Tokens
  BY <1>1, <1>2 DEF Tokens
<1>. QED BY <1>1, <1>2, <1>3

LEMMA CarriedKeeps ==
    ASSUME AccountTypeOK, NEW a \in Accounts, account' \in [Accounts -> AccountType],
           \A b \in Accounts \ {a} : account'[b] = account[b],
           Carried(account[a].tokens, account'[a].tokens),
           NEW exactly \in BOOLEAN, Follows(exposure, Holdings, exactly)
    PROVE  Follows(exposure', Holdings', exactly)
<1>1. /\ Holdings \in Tokens /\ Holdings' \in Tokens
      /\ \A x \in Assets :
            /\ account[a].tokens[x] <= Holdings[x]
            /\ Holdings'[x] = Holdings[x] - account[a].tokens[x] + account'[a].tokens[x]
  BY HoldingsChange
<1> DEFINE old == account[a].tokens
           new == account'[a].tokens
           before == Holdings
           after == Holdings'
<1>2. \A x \in Assets : old[x] <= before[x] /\ after[x] = before[x] - old[x] + new[x]
  BY <1>1
<1>3. before \in Tokens /\ after \in Tokens
  BY <1>1
<1> HIDE DEF old, new, before, after
<1>4. Carried(old, new) /\ Follows(exposure, before, exactly)
  BY DEF old, new, before
<1>5. Follows(exposure', after, exactly)
  BY <1>2, <1>3, <1>4 DEF Carried
<1>. QED BY <1>5 DEF after

LEMMA MoveKeeps ==
    ASSUME IInv, NEW a \in Accounts, NEW tokens, NEW borrowed, Moves(a, tokens, borrowed),
           UNCHANGED gmxVars
    PROVE  IInv'
<1>1. /\ requests' = requests /\ open' = open /\ alarms' = alarms
      /\ now' = now /\ price' = price
      /\ pendingUserExposure' = pendingUserExposure
      /\ pendingProtocolExposure' = pendingProtocolExposure
  BY DEF gmxVars, Moves, Effect
<1>2. /\ account' \in [Accounts -> AccountType]
      /\ \A b \in Accounts \ {a} : account'[b] = account[b]
      /\ Turns(account[a], account'[a], tokens, borrowed)
      /\ Carried(account[a].tokens, account'[a].tokens)
  BY DEF Moves, Effect, Turns
<1>3. \A b \in Accounts : /\ account'[b].frozenSince = account[b].frozenSince
                          /\ Listed(account[b]) => Listed(account'[b])
  BY <1>2 DEF Turns
<1>4. Follows(exposure', Holdings', alarms = {})
  BY <1>2, CarriedKeeps DEF IInv, TypeOK, ExposureFollows
<1>5. ExposureFollows'
  BY <1>1, <1>4 DEF ExposureFollows
<1>6. TypeOK'
  BY <1>1, <1>2, <1>4 DEF IInv, TypeOK, AccountTypeOK, ExposureTypeOK, Follows
<1>7. AllListed'
  BY <1>1, <1>3 DEF IInv, AllListed, Listed
<1>8. RequestsMatch'
  BY <1>1 DEF IInv, RequestsMatch, Awaited, Offered
<1>9. OneWhileFrozen'
  BY <1>1, <1>3 DEF IInv, OneWhileFrozen, OpenRequests
<1>10. PendingTotals'
  BY <1>1 DEF IInv, PendingTotals
<1>11. PendingOfAccounts'
  BY <1>1, <1>3 DEF IInv, PendingOfAccounts, OpenRequests
<1>. QED BY <1>5, <1>6, <1>7, <1>8, <1>9, <1>10, <1>11 DEF IInv

LEMMA TickKeeps ==
    ASSUME IInv, NEW prices \in Prices, Tick(prices), UNCHANGED gmxVars PROVE IInv'
<1>1. /\ requests' = requests /\ open' = open /\ alarms' = alarms
      /\ now' = now + 1 /\ now < MaxTime /\ price' = prices
      /\ pendingUserExposure' = pendingUserExposure
      /\ pendingProtocolExposure' = pendingProtocolExposure /\ exposure' = exposure
      /\ account' = [a \in Accounts |->
           [account[a] EXCEPT !.borrowed =
              [x \in PoolAssets |-> account[a].borrowed[x]
                                      + (account[a].borrowed[x] * INTEREST) \div 100]]]
  BY DEF Tick, gmxVars, exposureVars
<1>2. now' \in Times
  BY <1>1, PrimeAccountAssumption DEF IInv, TypeOK, AccountTypeOK, Times
<1>3. ASSUME NEW a \in Accounts
      PROVE  Turns(account[a], account'[a], account[a].tokens, account'[a].borrowed)
  <2> DEFINE debts == [x \in PoolAssets |-> account[a].borrowed[x]
                                              + (account[a].borrowed[x] * INTEREST) \div 100]
  <2>1. account[a] \in AccountType /\ account[a].borrowed \in Debts
    BY AccountParts DEF IInv, TypeOK, AccountTypeOK
  <2>2. ASSUME NEW n \in Nat PROVE n + (n * INTEREST) \div 100 \in Nat
    <3> DEFINE p == n * INTEREST
    <3>1. p \in Nat
      BY MulNat, PrimeAccountAssumption
    <3> HIDE DEF p
    <3>2. p \div 100 \in Nat
      BY <3>1
    <3>. QED BY <3>2 DEF p
  <2>3. debts \in Debts
    BY <2>1, <2>2 DEF Debts
  <2>4. account'[a] = [account[a] EXCEPT !.borrowed = debts]
    BY <1>1
  <2> HIDE DEF debts
  <2>5. Turns(account[a], account'[a], account[a].tokens, debts)
    BY <2>1, <2>3, <2>4, Indebting
  <2>. QED BY <2>5 DEF Turns
<1>4. account' \in [Accounts -> AccountType]
  <2>1. account' = [a \in Accounts |-> account'[a]]
    BY <1>1
  <2>2. \A a \in Accounts : account'[a] \in AccountType
    BY <1>3 DEF Turns
  <2>. QED BY <2>1, <2>2
<1>5. \A b \in Accounts : /\ account'[b].frozenSince = account[b].frozenSince
                          /\ account'[b].tokens = account[b].tokens
                          /\ Listed(account[b]) => Listed(account'[b])
  BY <1>3 DEF Turns
<1>6. ASSUME NEW x \in Assets PROVE Held(x)' = Held(x)
  <2> DEFINE f == [b \in Accounts |-> account[b].tokens[x]]
             g == [b \in Accounts |-> account'[b].tokens[x]]
  <2>1. Held(x) = SumFunctionOnSet(f, Accounts) /\ Held(x)' = SumFunctionOnSet(g, Accounts)
    BY DEF Held
  <2>2. \A b \in Accounts : g[b] = f[b]
    BY <1>5
  <2> HIDE DEF f, g
  <2>. QED BY <2>1, <2>2, SumSame, ExposureAssumption
<1>7. Holdings' = Holdings
  <2>1. Holdings = [x \in Assets |-> Held(x)] /\ Holdings' = [x \in Assets |-> Held(x)']
    BY DEF Holdings
  <2>. QED BY <2>1, <1>6
<1>8. ExposureFollows'
  BY <1>1, <1>7 DEF IInv, ExposureFollows
<1>9. TypeOK'
  BY <1>1, <1>2, <1>4 DEF IInv, TypeOK, AccountTypeOK, ExposureTypeOK
<1>10. AllListed'
  BY <1>1, <1>5 DEF IInv, AllListed, Listed
<1>11. RequestsMatch'
  BY <1>1 DEF IInv, RequestsMatch, Awaited, Offered
<1>12. OneWhileFrozen'
  <2>1. requests' = requests /\ open' = open /\ alarms' = alarms
    BY <1>1
  <2>. QED BY <2>1, <1>5 DEF IInv, OneWhileFrozen, OpenRequests
<1>13. PendingTotals'
  BY <1>1 DEF IInv, PendingTotals
<1>14. PendingOfAccounts'
  BY <1>1, <1>5 DEF IInv, PendingOfAccounts, OpenRequests
<1>. QED BY <1>8, <1>9, <1>10, <1>11, <1>12, <1>13, <1>14 DEF IInv

LEMMA UnfreezeKeeps ==
    ASSUME IInv, NEW a \in Accounts, UnfreezeAccount(a) PROVE IInv'
<1> DEFINE new == [account[a] EXCEPT !.frozenSince = 0]
<1>1. /\ Becomes(a, new) /\ alarms' = alarms \cup {a}
      /\ requests' = requests /\ open' = open /\ now' = now /\ price' = price
      /\ pendingUserExposure' = pendingUserExposure
      /\ pendingProtocolExposure' = pendingProtocolExposure /\ exposure' = exposure
  BY DEF UnfreezeAccount, exposureVars
<1>2. /\ new \in AccountType /\ new.tokens = account[a].tokens
  BY DEF IInv, TypeOK, AccountTypeOK, AccountType
<1> HIDE DEF new
<1>3. /\ account' \in [Accounts -> AccountType]
      /\ account'[a] = new
      /\ \A b \in Accounts \ {a} : account'[b] = account[b]
  BY <1>1, <1>2, Replaced DEF IInv, TypeOK
<1>4. Carried(account[a].tokens, account'[a].tokens)
  BY <1>1, <1>2, <1>3, CarriedAlone, AccountParts
<1>5. Follows(exposure', Holdings', FALSE) /\ alarms' # {}
  BY <1>1, <1>3, <1>4, CarriedKeeps DEF IInv, TypeOK, ExposureFollows, Follows
<1>6. ExposureFollows'
  BY <1>5 DEF ExposureFollows, Follows
<1>7. TypeOK'
  BY <1>1, <1>3 DEF IInv, TypeOK, AccountTypeOK, ExposureTypeOK
<1>8. AllListed'
  BY <1>1, <1>3 DEF IInv, AllListed, Listed
<1>9. RequestsMatch'
  BY <1>1 DEF IInv, RequestsMatch, Awaited, Offered
<1>10. OneWhileFrozen'
  BY <1>1, <1>3 DEF IInv, OneWhileFrozen, OpenRequests
<1>11. PendingTotals'
  BY <1>1 DEF IInv, PendingTotals
<1>12. PendingOfAccounts'
  BY <1>1, <1>3 DEF IInv, PendingOfAccounts, OpenRequests
<1>. QED BY <1>6, <1>7, <1>8, <1>9, <1>10, <1>11, <1>12 DEF IInv

-----------------------------------------------------------------------------
(* Requests and their answers *)

\* With the row of one account, the protocol's pending exposure changes.
LEMMA PendingChange ==
    ASSUME IInv, NEW a \in Accounts, NEW row \in Tokens,
           pendingUserExposure' = [pendingUserExposure EXCEPT ![a] = row],
           pendingProtocolExposure' =
              [x \in Assets |-> pendingProtocolExposure[x] - pendingUserExposure[a][x] + row[x]]
    PROVE  /\ pendingUserExposure' \in [Accounts -> Tokens]
           /\ pendingProtocolExposure' \in Tokens
           /\ PendingTotals'
           /\ \A b \in Accounts :
                 pendingUserExposure'[b] = IF b = a THEN row ELSE pendingUserExposure[b]
<1>1. pendingUserExposure \in [Accounts -> Tokens] /\ pendingProtocolExposure \in Tokens
  BY DEF IInv, TypeOK, ExposureTypeOK, Tokens
<1>2. /\ pendingUserExposure' \in [Accounts -> Tokens]
      /\ \A b \in Accounts :
            pendingUserExposure'[b] = IF b = a THEN row ELSE pendingUserExposure[b]
  BY <1>1
<1>3. ASSUME NEW x \in Assets
      PROVE  /\ pendingProtocolExposure'[x] \in Nat
             /\ pendingProtocolExposure'[x]
                  = SumFunctionOnSet([b \in Accounts |-> pendingUserExposure'[b][x]], Accounts)
  <2> DEFINE f == [b \in Accounts |-> pendingUserExposure[b][x]]
             g == [b \in Accounts |-> pendingUserExposure'[b][x]]
  <2>1. \A b \in Accounts : f[b] \in Int /\ g[b] \in Int /\ g[b] \in Nat
    BY <1>1, <1>2 DEF Tokens
  <2>2. /\ f[a] = pendingUserExposure[a][x] /\ g[a] = row[x]
        /\ \A b \in Accounts \ {a} : g[b] = f[b]
    BY <1>2
  <2>3. pendingProtocolExposure[x] = SumFunctionOnSet(f, Accounts)
    BY DEF IInv, PendingTotals
  <2> HIDE DEF f, g
  <2>4. SumFunctionOnSet(g, Accounts) = SumFunctionOnSet(f, Accounts) - f[a] + g[a]
    BY <2>1, <2>2, SumChanged, ExposureAssumption
  <2>5. SumFunctionOnSet(g, Accounts) \in Nat
    BY <2>1, SumNat, ExposureAssumption
  <2>6. pendingProtocolExposure'[x] = SumFunctionOnSet(g, Accounts)
    BY <2>2, <2>3, <2>4
  <2>. QED BY <2>5, <2>6 DEF g
<1>4. pendingProtocolExposure' \in Tokens
  BY <1>3 DEF Tokens
<1>5. PendingTotals'
  BY <1>3 DEF PendingTotals
<1>. QED BY <1>2, <1>4, <1>5

\* What a request does to the account that sends it, and to the requests.
IsRequested(a, deposit, sent, minimum) ==
    /\ now' = now /\ price' = price /\ alarms' = alarms
    /\ exposure' = Decreased(exposure, sent)
    /\ account[a].frozenSince = 0
    /\ account' \in [Accounts -> AccountType]
    /\ \A b \in Accounts \ {a} : account'[b] = account[b]
    /\ account'[a].tokens = Minus(account[a].tokens, sent)
    /\ account'[a].borrowed = account[a].borrowed
    /\ account'[a].frozenSince # 0
    /\ Listed(account[a]) => Listed(account'[a])
    /\ \E new :
          /\ requests' \in Seq(Requests)
          /\ DOMAIN requests' = DOMAIN requests \cup {new}
          /\ open' = open \cup {new} /\ new \notin open
          /\ requests'[new] = [account |-> a, deposit |-> deposit,
                               sent |-> sent, minimum |-> minimum]
          /\ \A key \in DOMAIN requests : requests'[key] = requests[key]
          /\ \A b : OpenRequests(b)' = IF b = a THEN OpenRequests(b) \cup {new}
                                       ELSE OpenRequests(b)

LEMMA RequestEffect ==
    ASSUME AccountTypeOK, requests \in Seq(Requests), open \subseteq DOMAIN requests,
           NEW a \in Accounts, NEW deposit \in BOOLEAN,
           NEW sent \in Tokens, NEW minimum \in Tokens, NEW awaited,
           \A x \in Assets : sent[x] <= account[a].tokens[x],
           SendRequest(a, deposit, sent, minimum, awaited)
    PROVE  IsRequested(a, deposit, sent, minimum)
<1> DEFINE r == [account |-> a, deposit |-> deposit, sent |-> sent, minimum |-> minimum]
           new == Len(requests) + 1
           spent == WithSpent(account[a], sent)
           frozen == [spent EXCEPT !.frozenSince = now]
<1>1. /\ account[a].frozenSince = 0 /\ Becomes(a, frozen) /\ now' = now /\ price' = price
      /\ requests' = Append(requests, r) /\ open' = open \cup {Len(requests')}
      /\ alarms' = alarms /\ exposure' = Decreased(exposure, sent)
  BY DEF SendRequest
<1>2. account[a] \in AccountType /\ now \in Times /\ now # 0
  BY DEF AccountTypeOK, Times
<1>3. r \in Requests /\ r.account = a
  BY DEF Requests, Tokens
<1>4. Turns(account[a], spent, Minus(account[a].tokens, sent), account[a].borrowed)
  BY <1>2, Spending
<1> HIDE DEF r, spent
<1>5. /\ frozen \in AccountType /\ frozen.tokens = Minus(account[a].tokens, sent)
      /\ frozen.borrowed = account[a].borrowed /\ frozen.frozenSince = now
      /\ Listed(account[a]) => Listed(frozen)
  BY <1>2, <1>4 DEF Turns, AccountType, Listed
<1> HIDE DEF frozen
<1>6. /\ account' \in [Accounts -> AccountType]
      /\ account'[a] = frozen
      /\ \A b \in Accounts \ {a} : account'[b] = account[b]
  BY <1>1, <1>5, Replaced
<1>7. /\ Len(requests) \in Nat /\ DOMAIN requests = 1..Len(requests)
      /\ requests' \in Seq(Requests) /\ Len(requests') = new
      /\ DOMAIN requests' = 1..new /\ requests'[new] = r
      /\ \A key \in DOMAIN requests : requests'[key] = requests[key]
  BY <1>1, <1>3
<1>8. open' = open \cup {new} /\ new \notin open
  BY <1>1, <1>7
<1>9. DOMAIN requests' = DOMAIN requests \cup {new}
  BY <1>7
<1> HIDE DEF new
<1>10. \A b : OpenRequests(b)' = IF b = a THEN OpenRequests(b) \cup {new}
                                 ELSE OpenRequests(b)
  <2>1. \A key \in open : requests'[key].account = requests[key].account
    BY <1>7
  <2>2. requests'[new].account = a
    BY <1>3, <1>7
  <2>. QED BY <2>1, <2>2, <1>8 DEF OpenRequests
<1>. QED BY <1>1, <1>2, <1>5, <1>6, <1>7, <1>8, <1>9, <1>10 DEF r, IsRequested

LEMMA RequestKeeps ==
    ASSUME IInv, NEW a \in Accounts, NEW deposit \in BOOLEAN,
           NEW sent \in Tokens, NEW minimum \in Tokens, NEW awaited,
           \A x \in Assets :
              /\ sent[x] <= account[a].tokens[x]
              /\ minimum[x] > 0 => x \in (IF deposit THEN {GmToken} ELSE MarketTokens)
              /\ sent[x] > 0 => x \in (IF deposit THEN MarketTokens ELSE {GmToken}),
           SendRequest(a, deposit, sent, minimum, awaited)
    PROVE  IInv'
<1> DEFINE r == [account |-> a, deposit |-> deposit, sent |-> sent, minimum |-> minimum]
           row == [x \in Assets |-> pendingUserExposure[a][x] + minimum[x]]
<1>1. /\ pendingUserExposure' = [pendingUserExposure EXCEPT ![a] = row]
      /\ pendingProtocolExposure'
           = [x \in Assets |-> pendingProtocolExposure[x] + minimum[x]]
  BY DEF SendRequest, IncreasePendingExposure
<1>2. /\ requests \in Seq(Requests) /\ open \subseteq DOMAIN requests /\ AccountTypeOK
      /\ \A x \in Assets : sent[x] <= account[a].tokens[x]
  BY DEF IInv, TypeOK
<1>3. IsRequested(a, deposit, sent, minimum)
  BY <1>2, RequestEffect
<1>4. /\ now' = now /\ price' = price /\ alarms' = alarms
      /\ exposure' = Decreased(exposure, sent)
      /\ account[a].frozenSince = 0
      /\ account' \in [Accounts -> AccountType]
      /\ \A b \in Accounts \ {a} : account'[b] = account[b]
      /\ account'[a].tokens = Minus(account[a].tokens, sent)
      /\ account'[a].frozenSince # 0
      /\ Listed(account[a]) => Listed(account'[a])
  BY <1>3 DEF IsRequested
<1>5. PICK new :
        /\ requests' \in Seq(Requests)
        /\ DOMAIN requests' = DOMAIN requests \cup {new}
        /\ open' = open \cup {new} /\ new \notin open
        /\ requests'[new] = r
        /\ \A key \in DOMAIN requests : requests'[key] = requests[key]
        /\ \A b : OpenRequests(b)' = IF b = a THEN OpenRequests(b) \cup {new}
                                     ELSE OpenRequests(b)
  BY <1>3 DEF IsRequested
<1>6. r.deposit = deposit /\ r.sent = sent /\ r.minimum = minimum
  OBVIOUS
<1> HIDE DEF r
<1>7. account[a].tokens \in Tokens
  BY <1>2, AccountParts DEF AccountTypeOK
<1>8. Carried(account[a].tokens, account'[a].tokens)
  BY <1>4, <1>7, CarriedWithMinus
<1>9. Follows(exposure', Holdings', alarms = {})
  BY <1>4, <1>8, CarriedKeeps DEF IInv, TypeOK, ExposureFollows
<1>10. ExposureFollows'
  BY <1>4, <1>9 DEF ExposureFollows
<1>11. AllListed'
  BY <1>4 DEF IInv, AllListed, Listed
<1>12. /\ pendingUserExposure' \in [Accounts -> Tokens]
       /\ pendingProtocolExposure' \in Tokens
       /\ PendingTotals'
       /\ \A b \in Accounts :
             pendingUserExposure'[b] = IF b = a THEN row ELSE pendingUserExposure[b]
  <2>1. \A x \in Assets : /\ pendingUserExposure[a][x] \in Nat
                          /\ pendingProtocolExposure[x] \in Nat /\ minimum[x] \in Nat
    BY DEF IInv, TypeOK, ExposureTypeOK, Tokens
  <2>2. row \in Tokens /\ \A x \in Assets : row[x] = pendingUserExposure[a][x] + minimum[x]
    BY <2>1 DEF Tokens
  <2> HIDE DEF row
  <2>3. pendingProtocolExposure'
          = [x \in Assets |-> pendingProtocolExposure[x] - pendingUserExposure[a][x] + row[x]]
    <3>1. \A x \in Assets :
            pendingProtocolExposure[x] + minimum[x]
              = pendingProtocolExposure[x] - pendingUserExposure[a][x] + row[x]
      BY <2>1, <2>2
    <3>. QED BY <3>1, <1>1
  <2>. QED BY <2>2, <2>3, <1>1, PendingChange
<1>13. open' \subseteq DOMAIN requests'
  BY <1>2, <1>5
<1>14. TypeOK'
  BY <1>4, <1>5, <1>9, <1>12, <1>13
     DEF IInv, TypeOK, AccountTypeOK, ExposureTypeOK, Follows, Tokens
<1>15. RequestsMatch'
  <2> SUFFICES ASSUME NEW key \in DOMAIN requests', NEW x \in Assets
               PROVE  /\ requests'[key].minimum[x] > 0 => x \in Awaited(requests'[key])
                      /\ requests'[key].sent[x] > 0 => x \in Offered(requests'[key])
    BY DEF RequestsMatch
  <2>1. CASE key = new
    BY <2>1, <1>5, <1>6 DEF Awaited, Offered
  <2>2. CASE key \in DOMAIN requests
    BY <2>2, <1>5 DEF IInv, RequestsMatch
  <2>. QED BY <2>1, <2>2, <1>5
<1>16. a \notin alarms => OpenRequests(a) = {}
  BY <1>4 DEF IInv, OneWhileFrozen
<1>17. OneWhileFrozen'
  <2> SUFFICES ASSUME NEW b \in Accounts \ alarms'
               PROVE  IF account'[b].frozenSince # 0
                      THEN \E key \in open' : OpenRequests(b)' = {key}
                      ELSE OpenRequests(b)' = {}
    BY DEF OneWhileFrozen
  <2>1. CASE b = a
    BY <2>1, <1>4, <1>5, <1>16
  <2>2. CASE b # a
    BY <2>2, <1>4, <1>5 DEF IInv, OneWhileFrozen
  <2>. QED BY <2>1, <2>2
<1>18. PendingOfAccounts'
  <2> SUFFICES ASSUME NEW b \in Accounts \ alarms', NEW x \in Assets
               PROVE  IF account'[b].frozenSince # 0
                      THEN \A key \in OpenRequests(b)' :
                              pendingUserExposure'[b][x] = requests'[key].minimum[x]
                      ELSE pendingUserExposure'[b][x] = 0
    BY DEF PendingOfAccounts
  <2>1. CASE b = a
    <3>1. OpenRequests(b)' = {new} /\ requests'[new].minimum = minimum
      BY <2>1, <1>4, <1>5, <1>6, <1>16
    <3>2. pendingUserExposure[a][x] = 0
      BY <2>1, <1>4 DEF IInv, PendingOfAccounts
    <3>3. pendingUserExposure'[b][x] = minimum[x]
      BY <2>1, <3>2, <1>12 DEF Tokens
    <3>. QED BY <3>1, <3>3, <2>1, <1>4
  <2>2. CASE b # a
    <3>1. /\ OpenRequests(b)' = OpenRequests(b)
          /\ pendingUserExposure'[b] = pendingUserExposure[b]
          /\ account'[b].frozenSince = account[b].frozenSince
      BY <2>2, <1>4, <1>5, <1>12
    <3>2. \A key \in OpenRequests(b) : requests'[key] = requests[key]
      BY <1>2, <1>5 DEF OpenRequests
    <3>3. IF account[b].frozenSince # 0
          THEN \A key \in OpenRequests(b) :
                  pendingUserExposure[b][x] = requests[key].minimum[x]
          ELSE pendingUserExposure[b][x] = 0
      <4>1. b \in Accounts \ alarms
        BY <1>4
      <4>. QED BY <4>1 DEF IInv, PendingOfAccounts
    <3>. QED BY <3>1, <3>2, <3>3
  <2>. QED BY <2>1, <2>2
<1>. QED BY <1>10, <1>11, <1>12, <1>14, <1>15, <1>17, <1>18 DEF IInv

\* What an answer does to the account that waited for it.
LEMMA SettleEffect ==
    ASSUME AccountTypeOK, NEW key \in open, requests[key].account \in Accounts,
           NEW received \in Tokens, NEW listed \in SUBSET Assets,
           \A x \in Assets : received[x] > 0 => x \in listed,
           Settle(key, received, listed)
    PROVE  LET a == requests[key].account
           IN /\ open' = open \ {key} /\ requests' = requests
              /\ now' = now /\ price' = price
              /\ account' \in [Accounts -> AccountType]
              /\ \A b \in Accounts \ {a} : account'[b] = account[b]
              /\ account'[a].tokens = Plus(account[a].tokens, received)
              /\ account'[a].borrowed = account[a].borrowed
              /\ \A b : OpenRequests(b)' = OpenRequests(b) \ {key}
              /\ key \in OpenRequests(a) /\ \A b : b # a => key \notin OpenRequests(b)
              /\ \/ /\ CallbackSucceeds(a, received)
                    /\ account[a].frozenSince # 0 /\ account'[a].frozenSince = 0
                    /\ Listed(account[a]) => Listed(account'[a])
                    /\ exposure' = Increased(exposure, received)
                    /\ SetPendingExposureToZero(a, Awaited(requests[key]))
                    /\ alarms' = alarms
                 \/ /\ ~CallbackSucceeds(a, received)
                    /\ UNCHANGED exposureVars
                    /\ alarms' = alarms \cup {a}
<1> DEFINE a == requests[key].account
           awaited == Awaited(requests[key])
           tokens == Plus(account[a].tokens, received)
           succeeds == CallbackSucceeds(a, received)
           assets == account[a].ownedAssets
                       \cup {x \in listed : account[a].tokens[x] + received[x] > 0}
           new == IF succeeds
                  THEN [account[a] EXCEPT !.tokens = tokens, !.ownedAssets = assets,
                                          !.frozenSince = 0]
                  ELSE [account[a] EXCEPT !.tokens = tokens]
<1>1. /\ open' = open \ {key} /\ requests' = requests /\ now' = now /\ price' = price
      /\ Becomes(a, new)
      /\ succeeds => /\ account[a].frozenSince # 0
                     /\ exposure' = Increased(exposure, received)
                     /\ SetPendingExposureToZero(a, awaited)
                     /\ alarms' = alarms
      /\ ~succeeds => UNCHANGED exposureVars /\ alarms' = alarms \cup {a}
  <2>1. CASE succeeds
    BY <2>1 DEF Settle, CalledBack, Awaited, CallbackSucceeds
  <2>2. CASE ~succeeds
    BY <2>2 DEF Settle, CallbackFailed
  <2>. QED BY <2>1, <2>2
<1>2. /\ account[a] \in AccountType /\ account[a].tokens \in Tokens
  BY AccountParts DEF AccountTypeOK
<1> HIDE DEF succeeds, awaited
<1>3. tokens \in Tokens /\ \A x \in Assets : tokens[x] = account[a].tokens[x] + received[x]
  BY <1>2, PlusTyped
<1>4. assets \subseteq Assets
  BY <1>2, AccountParts
<1> HIDE DEF tokens, a
<1>5. /\ new \in AccountType /\ new.tokens = tokens
      /\ new.borrowed = account[a].borrowed
      /\ new.frozenSince = IF succeeds THEN 0 ELSE account[a].frozenSince
      /\ succeeds => new.ownedAssets = assets
  BY <1>2, <1>3, <1>4 DEF AccountType, Tokens, Times
<1> HIDE DEF new
<1>6. succeeds /\ Listed(account[a]) => Listed(new)
  BY <1>2, <1>3, <1>5 DEF Listed, Tokens
<1> HIDE DEF assets
<1>7. /\ account' \in [Accounts -> AccountType]
      /\ account'[a] = new
      /\ \A b \in Accounts \ {a} : account'[b] = account[b]
  BY <1>1, <1>5, Replaced DEF a
<1>8. /\ \A b : OpenRequests(b)' = OpenRequests(b) \ {key}
      /\ key \in OpenRequests(a) /\ \A b : b # a => key \notin OpenRequests(b)
  BY <1>1 DEF OpenRequests, a
<1>. QED BY <1>1, <1>5, <1>6, <1>7, <1>8 DEF a, tokens, succeeds, awaited

LEMMA SettleKeeps ==
    ASSUME IInv, NEW key \in open, NEW received \in Tokens, NEW listed \in SUBSET Assets,
           \A x \in Assets : received[x] > 0 => x \in listed,
           Settle(key, received, listed)
    PROVE  IInv'
<1> DEFINE a == requests[key].account
           awaited == Awaited(requests[key])
           succeeds == CallbackSucceeds(a, received)
<1>1. /\ requests \in Seq(Requests) /\ open \subseteq DOMAIN requests
      /\ key \in DOMAIN requests
  BY DEF IInv, TypeOK
<1>2. a \in Accounts
  <2>1. requests[key] \in Requests
    BY <1>1
  <2>. QED BY <2>1 DEF Requests
<1>3. /\ open' = open \ {key} /\ requests' = requests
      /\ now' = now /\ price' = price
      /\ account' \in [Accounts -> AccountType]
      /\ \A b \in Accounts \ {a} : account'[b] = account[b]
      /\ account'[a].tokens = Plus(account[a].tokens, received)
      /\ \A b : OpenRequests(b)' = OpenRequests(b) \ {key}
      /\ key \in OpenRequests(a) /\ \A b : b # a => key \notin OpenRequests(b)
      /\ succeeds => /\ account[a].frozenSince # 0 /\ account'[a].frozenSince = 0
                     /\ Listed(account[a]) => Listed(account'[a])
                     /\ exposure' = Increased(exposure, received)
                     /\ SetPendingExposureToZero(a, awaited)
                     /\ alarms' = alarms
      /\ ~succeeds => UNCHANGED exposureVars /\ alarms' = alarms \cup {a}
  BY <1>2, SettleEffect DEF IInv, TypeOK
<1>4. account[a].tokens \in Tokens
  BY <1>2, AccountParts DEF IInv, TypeOK, AccountTypeOK
<1> HIDE DEF succeeds, awaited, a
<1>5. ExposureFollows' /\ exposure' \in [Groups -> Nat]
  <2>1. CASE succeeds
    <3>1. Carried(account[a].tokens, account'[a].tokens)
      BY <2>1, <1>3, <1>4, CarriedWithPlus
    <3>2. Follows(exposure', Holdings', alarms = {})
      BY <3>1, <1>2, <1>3, CarriedKeeps DEF IInv, TypeOK, ExposureFollows
    <3>. QED BY <3>2, <2>1, <1>3 DEF ExposureFollows, Follows
  <2>2. CASE ~succeeds
    <3>1. exposure' = exposure /\ alarms' # {}
      BY <2>2, <1>3 DEF exposureVars
    <3>2. /\ Holdings \in Tokens /\ Holdings' \in Tokens
          /\ \A x \in Assets :
                Holdings'[x] = Holdings[x] - account[a].tokens[x] + account'[a].tokens[x]
      BY <1>2, <1>3, HoldingsChange DEF IInv, TypeOK
    <3> DEFINE before == Holdings
               after == Holdings'
    <3>3. before \in Tokens /\ after \in Tokens
      BY <3>2
    <3>4. \A x \in Assets : after[x] = before[x] + 1 * received[x]
      BY <3>2, <1>3, <1>4 DEF Plus, Tokens
    <3>5. Follows(exposure, before, alarms = {})
      BY DEF IInv, ExposureFollows
    <3> HIDE DEF before, after
    <3>6. \A g : /\ InGroup(after, g) = InGroup(before, g) + 1 * InGroup(received, g)
                 /\ InGroup(before, g) \in Nat /\ InGroup(received, g) \in Nat
      BY <3>3, <3>4, InGroupLinear, InGroupNat
    <3>7. Follows(exposure, after, FALSE)
      BY <3>5, <3>6 DEF Follows
    <3>. QED BY <3>1, <3>7 DEF ExposureFollows, Follows, after
  <2>. QED BY <2>1, <2>2
<1>6. /\ pendingUserExposure' \in [Accounts -> Tokens]
      /\ pendingProtocolExposure' \in Tokens
      /\ PendingTotals'
      /\ \A b \in Accounts \ {a} : pendingUserExposure'[b] = pendingUserExposure[b]
      /\ succeeds => \A x \in Assets : pendingUserExposure'[a][x]
                               = IF x \in awaited THEN 0 ELSE pendingUserExposure[a][x]
  <2>1. CASE succeeds
    <3> DEFINE row == [x \in Assets |->
                  IF x \in awaited THEN 0 ELSE pendingUserExposure[a][x]]
               cleared == [x \in Assets |->
                  IF x \in awaited THEN pendingUserExposure[a][x] ELSE 0]
    <3>1. /\ pendingUserExposure' = [pendingUserExposure EXCEPT ![a] =
               [x \in Assets |-> pendingUserExposure[a][x] - cleared[x]]]
          /\ pendingProtocolExposure' =
               [x \in Assets |-> pendingProtocolExposure[x] - cleared[x]]
      BY <2>1, <1>3 DEF SetPendingExposureToZero
    <3>2. \A x \in Assets :
            /\ pendingUserExposure[a][x] \in Nat /\ pendingProtocolExposure[x] \in Nat
      BY <1>2 DEF IInv, TypeOK, ExposureTypeOK
    <3>3. row \in Tokens
      BY <3>2 DEF Tokens
    <3>4. \A x \in Assets :
            /\ pendingUserExposure[a][x] - cleared[x] = row[x]
            /\ pendingProtocolExposure[x] - cleared[x]
                 = pendingProtocolExposure[x] - pendingUserExposure[a][x] + row[x]
      BY <3>2
    <3>5. row = [x \in Assets |-> row[x]]
      OBVIOUS
    <3> HIDE DEF row, cleared
    <3>6. /\ pendingUserExposure' = [pendingUserExposure EXCEPT ![a] = row]
          /\ pendingProtocolExposure' = [x \in Assets |->
                pendingProtocolExposure[x] - pendingUserExposure[a][x] + row[x]]
      BY <3>1, <3>4, <3>5
    <3>7. /\ pendingUserExposure' \in [Accounts -> Tokens]
          /\ pendingProtocolExposure' \in Tokens /\ PendingTotals'
          /\ \A b \in Accounts \ {a} : pendingUserExposure'[b] = pendingUserExposure[b]
          /\ pendingUserExposure'[a] = row
      BY <3>3, <3>6, <1>2, PendingChange
    <3>8. \A x \in Assets : row[x] = IF x \in awaited THEN 0 ELSE pendingUserExposure[a][x]
      BY DEF row
    <3>. QED BY <3>7, <3>8
  <2>2. CASE ~succeeds
    <3>1. /\ pendingUserExposure' = pendingUserExposure
          /\ pendingProtocolExposure' = pendingProtocolExposure
      BY <2>2, <1>3 DEF exposureVars
    <3>. QED BY <3>1, <2>2 DEF IInv, TypeOK, ExposureTypeOK, PendingTotals, Tokens
  <2>. QED BY <2>1, <2>2
<1>7. TypeOK'
  <2>1. /\ requests' = requests /\ open' \subseteq open /\ alarms' \subseteq alarms \cup {a}
        /\ now' = now /\ price' = price /\ account' \in [Accounts -> AccountType]
    BY <1>3
  <2>2. /\ pendingUserExposure' \in [Accounts -> Tokens]
        /\ pendingProtocolExposure' \in Tokens
        /\ exposure' \in [Groups -> Nat]
    BY <1>5, <1>6
  <2>. QED BY <2>1, <2>2, <1>2 DEF IInv, TypeOK, AccountTypeOK, ExposureTypeOK, Tokens
<1>8. AllListed'
  BY <1>2, <1>3 DEF IInv, AllListed, Listed
<1>9. RequestsMatch'
  BY <1>3 DEF IInv, RequestsMatch, Awaited, Offered
<1>10. a \notin alarms' => succeeds /\ a \notin alarms
  BY <1>3
<1>11. a \notin alarms => OpenRequests(a) = {key}
  BY <1>2, <1>3 DEF IInv, OneWhileFrozen
<1>12. \A b \in Accounts : b \notin alarms' => b \notin alarms
  BY <1>3
<1>13. \A b \in Accounts \ {a} : /\ OpenRequests(b)' = OpenRequests(b)
                                 /\ key \notin OpenRequests(b)
                                 /\ account'[b].frozenSince = account[b].frozenSince
                                 /\ pendingUserExposure'[b] = pendingUserExposure[b]
  <2> SUFFICES ASSUME NEW b \in Accounts \ {a}
               PROVE  /\ OpenRequests(b)' = OpenRequests(b)
                      /\ key \notin OpenRequests(b)
                      /\ account'[b].frozenSince = account[b].frozenSince
                      /\ pendingUserExposure'[b] = pendingUserExposure[b]
    OBVIOUS
  <2>1. /\ OpenRequests(b)' = OpenRequests(b) \ {key} /\ key \notin OpenRequests(b)
        /\ account'[b] = account[b]
    BY <1>3
  <2>2. pendingUserExposure'[b] = pendingUserExposure[b]
    BY <1>6
  <2>. QED BY <2>1, <2>2
<1>14. OneWhileFrozen'
  <2> SUFFICES ASSUME NEW b \in Accounts \ alarms'
               PROVE  IF account'[b].frozenSince # 0
                      THEN \E k \in open' : OpenRequests(b)' = {k}
                      ELSE OpenRequests(b)' = {}
    BY DEF OneWhileFrozen
  <2>1. CASE b = a
    BY <2>1, <1>3, <1>10, <1>11
  <2>2. CASE b # a
    BY <2>2, <1>3, <1>12, <1>13 DEF IInv, OneWhileFrozen
  <2>. QED BY <2>1, <2>2
<1>15. PendingOfAccounts'
  <2> SUFFICES ASSUME NEW b \in Accounts \ alarms', NEW x \in Assets
               PROVE  IF account'[b].frozenSince # 0
                      THEN \A k \in OpenRequests(b)' :
                              pendingUserExposure'[b][x] = requests'[k].minimum[x]
                      ELSE pendingUserExposure'[b][x] = 0
    BY DEF PendingOfAccounts
  <2>1. CASE b = a
    <3>1. /\ account'[b].frozenSince = 0 /\ account[a].frozenSince # 0 /\ a \notin alarms
          /\ succeeds
      BY <2>1, <1>3, <1>10
    <3>2. pendingUserExposure[a][x] = requests[key].minimum[x]
      BY <3>1, <1>2, <1>3 DEF IInv, PendingOfAccounts
    <3>3. x \notin awaited => requests[key].minimum[x] = 0
      <4>1. requests[key].minimum[x] \in Nat
        <5>1. requests[key] \in Requests
          BY <1>1
        <5>. QED BY <5>1 DEF Requests
      <4>. QED BY <4>1, <1>1 DEF IInv, RequestsMatch, awaited
    <3>4. pendingUserExposure'[b][x]
            = IF x \in awaited THEN 0 ELSE pendingUserExposure[a][x]
      BY <3>1, <2>1, <1>6
    <3>. QED BY <3>1, <3>2, <3>3, <3>4
  <2>2. CASE b # a
    BY <2>2, <1>3, <1>12, <1>13 DEF IInv, PendingOfAccounts
  <2>. QED BY <2>1, <2>2
<1>. QED BY <1>5, <1>6, <1>7, <1>8, <1>9, <1>14, <1>15 DEF IInv

\* The steps of the exchange's users, as what they send and ask for.
Asks(a, deposit, sent, minimum, awaited) ==
    /\ SendRequest(a, deposit, sent, minimum, awaited)
    /\ \A x \in Assets :
          /\ sent[x] <= account[a].tokens[x]
          /\ minimum[x] > 0 => x \in (IF deposit THEN {GmToken} ELSE MarketTokens)
          /\ sent[x] > 0 => x \in (IF deposit THEN MarketTokens ELSE {GmToken})
    /\ \/ StaysSolventWith(WithSpent(account[a], sent), minimum)
       \/ ~Healthy(account[a])

LEMMA Requesting ==
    ASSUME AccountTypeOK, NEW a \in Accounts, RequestStep(a)
    PROVE  \E deposit \in BOOLEAN, sent \in Tokens, minimum \in Tokens : \E awaited :
              Asks(a, deposit, sent, minimum, awaited)
<1>1. /\ account[a].tokens \in Tokens
      /\ MarketTokens \subseteq Assets /\ GmToken \in Assets /\ GmToken \notin MarketTokens
  BY AccountParts, MarketAssumption DEF AccountTypeOK, MarketTokens
<1>2. ASSUME NEW token \in MarketTokens, NEW order \in DepositOrders, Deposit(a, token, order)
      PROVE  \E deposit \in BOOLEAN, sent \in Tokens, minimum \in Tokens : \E awaited :
                Asks(a, deposit, sent, minimum, awaited)
  <2> DEFINE amount == Min({order.amount, account[a].tokens[token]})
             sent == Only(token, amount)
             minimum == Only(GmToken, order.minGm)
  <2>1. /\ SendRequest(a, TRUE, sent, minimum, {GmToken})
        /\ StaysSolventWith(WithSpent(account[a], sent), minimum)
    BY <1>2 DEF Deposit
  <2>2. order.amount \in Nat /\ order.minGm \in Nat
    BY MarketAssumption
  <2>3. amount \in Nat /\ amount <= account[a].tokens[token]
    BY <1>1, <2>2, MinOfTwo DEF Tokens
  <2> HIDE DEF amount
  <2>4. /\ sent \in Tokens /\ minimum \in Tokens
        /\ \A x \in Assets : /\ sent[x] = IF x = token THEN amount ELSE 0
                             /\ minimum[x] = IF x = GmToken THEN order.minGm ELSE 0
    BY <1>1, <2>2, <2>3, OnlyTyped
  <2> HIDE DEF sent, minimum
  <2>5. \A x \in Assets : /\ sent[x] <= account[a].tokens[x]
                          /\ minimum[x] > 0 => x \in {GmToken}
                          /\ sent[x] > 0 => x \in MarketTokens
    BY <1>1, <2>3, <2>4 DEF Tokens
  <2>6. Asks(a, TRUE, sent, minimum, {GmToken})
    BY <2>1, <2>5 DEF Asks
  <2>. QED BY <2>4, <2>6
<1>3. ASSUME NEW order \in WithdrawalOrders, NEW byLiquidator \in BOOLEAN,
             Withdrawal(a, order, byLiquidator)
      PROVE  \E deposit \in BOOLEAN, sent \in Tokens, minimum \in Tokens : \E awaited :
                Asks(a, deposit, sent, minimum, awaited)
  <2> DEFINE amount == Min({order.amount, account[a].tokens[GmToken]})
             sent == Only(GmToken, amount)
             minimum == [x \in Assets |-> CASE x = LongToken -> order.minLong
                                            [] x = ShortToken -> order.minShort
                                            [] OTHER -> 0]
  <2>1. /\ SendRequest(a, FALSE, sent, minimum, MarketTokens)
        /\ \/ StaysSolventWith(WithSpent(account[a], sent), minimum)
           \/ ~Healthy(account[a])
    BY <1>3 DEF Withdrawal
  <2>2. order.amount \in Nat /\ order.minLong \in Nat /\ order.minShort \in Nat
    BY MarketAssumption
  <2>3. amount \in Nat /\ amount <= account[a].tokens[GmToken]
    BY <1>1, <2>2, MinOfTwo DEF Tokens
  <2> HIDE DEF amount
  <2>4. /\ sent \in Tokens
        /\ \A x \in Assets : sent[x] = IF x = GmToken THEN amount ELSE 0
    BY <1>1, <2>3, OnlyTyped
  <2>5. /\ minimum \in Tokens
        /\ \A x \in Assets : minimum[x] > 0 => x \in MarketTokens
    BY <2>2 DEF Tokens, MarketTokens
  <2> HIDE DEF sent, minimum
  <2>6. \A x \in Assets : /\ sent[x] <= account[a].tokens[x]
                          /\ sent[x] > 0 => x \in {GmToken}
    BY <1>1, <2>3, <2>4 DEF Tokens
  <2>7. Asks(a, FALSE, sent, minimum, MarketTokens)
    BY <2>1, <2>5, <2>6 DEF Asks
  <2>. QED BY <2>4, <2>5, <2>7
<1>. QED BY <1>2, <1>3 DEF RequestStep

LEMMA RequestStepKeeps ==
    ASSUME IInv, NEW a \in Accounts, RequestStep(a) PROVE IInv'
<1>1. AccountTypeOK
  BY DEF IInv, TypeOK
<1>2. PICK deposit \in BOOLEAN, sent \in Tokens, minimum \in Tokens : \E awaited :
         /\ SendRequest(a, deposit, sent, minimum, awaited)
         /\ \A x \in Assets :
               /\ sent[x] <= account[a].tokens[x]
               /\ minimum[x] > 0 => x \in (IF deposit THEN {GmToken} ELSE MarketTokens)
               /\ sent[x] > 0 => x \in (IF deposit THEN MarketTokens ELSE {GmToken})
  BY <1>1, Requesting DEF Asks
<1>. QED BY <1>2, RequestKeeps

\* What an execution brings, and what a cancellation returns.
LEMMA Answers ==
    ASSUME TypeOK, RequestsMatch, NEW key \in open, NEW extra \in Nat
    PROVE  /\ requests[key] \in Requests /\ requests[key].account \in Accounts
           /\ requests[key].sent \in Tokens
           /\ requests[key].minimum \in Tokens
           /\ Executed(key, extra) \in Tokens
           /\ \A x \in Assets :
                 /\ requests[key].minimum[x] <= Executed(key, extra)[x]
                 /\ Executed(key, extra)[x] > 0 => x \in Awaited(requests[key])
                 /\ requests[key].sent[x] > 0 => x \in Offered(requests[key])
<1>1. /\ requests[key] \in Requests /\ key \in DOMAIN requests
  BY DEF TypeOK
<1>2. /\ requests[key].account \in Accounts
      /\ requests[key].sent \in Tokens /\ requests[key].minimum \in Tokens
  BY <1>1 DEF Requests, Tokens
<1>3. \A x \in Assets :
        /\ requests[key].minimum[x] > 0 => x \in Awaited(requests[key])
        /\ requests[key].sent[x] > 0 => x \in Offered(requests[key])
  BY <1>1 DEF RequestsMatch
<1>4. Executed(key, extra)
        = [x \in Assets |-> IF x \in Awaited(requests[key])
                            THEN requests[key].minimum[x] + extra ELSE 0]
  BY DEF Executed, Awaited
<1> DEFINE minimum == requests[key].minimum
           awaited == Awaited(requests[key])
           received == Executed(key, extra)
<1>5. /\ minimum \in Tokens
      /\ \A x \in Assets : minimum[x] > 0 => x \in awaited
      /\ received = [x \in Assets |-> IF x \in awaited THEN minimum[x] + extra ELSE 0]
  BY <1>2, <1>3, <1>4
<1> HIDE DEF minimum, awaited, received
<1>6. /\ received \in Tokens
      /\ \A x \in Assets : minimum[x] <= received[x] /\ (received[x] > 0 => x \in awaited)
  BY <1>5 DEF Tokens
<1>. QED BY <1>1, <1>2, <1>3, <1>6 DEF minimum, awaited, received

\* The exchange's steps, as what they settle and what is listed.
LEMMA ExchangeSettles ==
    ASSUME TypeOK, RequestsMatch, NEW key \in open, ExchangeStep(key)
    PROVE  \E received \in Tokens, listed \in SUBSET Assets :
              /\ Settle(key, received, listed)
              /\ \A x \in Assets : received[x] > 0 => x \in listed
              /\ \/ received = requests[key].sent
                 \/ \A x \in Assets : requests[key].minimum[x] <= received[x]
<1>0. /\ {GmToken} \in SUBSET Assets /\ MarketTokens \in SUBSET Assets
      /\ Slippage \subseteq Nat
  BY MarketAssumption DEF MarketTokens
<1>1. ASSUME NEW extra \in Slippage,
             AfterDepositExecution(key, extra) \/ AfterWithdrawalExecution(key, extra)
      PROVE  \E received \in Tokens, listed \in SUBSET Assets :
                /\ Settle(key, received, listed)
                /\ \A x \in Assets : received[x] > 0 => x \in listed
                /\ \A x \in Assets : requests[key].minimum[x] <= received[x]
  <2> DEFINE received == Executed(key, extra)
             listed == Awaited(requests[key])
  <2>1. Settle(key, received, listed) /\ listed \in SUBSET Assets
    BY <1>0, <1>1 DEF AfterDepositExecution, AfterWithdrawalExecution, Awaited
  <2>2. /\ received \in Tokens
        /\ \A x \in Assets : /\ requests[key].minimum[x] <= received[x]
                             /\ received[x] > 0 => x \in listed
    BY <1>0, Answers
  <2> HIDE DEF received, listed
  <2>. QED BY <2>1, <2>2
<1>2. ASSUME AfterDepositCancellation(key) \/ AfterWithdrawalCancellation(key)
      PROVE  \E received \in Tokens, listed \in SUBSET Assets :
                /\ Settle(key, received, listed)
                /\ \A x \in Assets : received[x] > 0 => x \in listed
                /\ received = requests[key].sent
  <2> DEFINE received == requests[key].sent
             listed == Offered(requests[key])
  <2>1. Settle(key, received, listed) /\ listed \in SUBSET Assets
    BY <1>0, <1>2 DEF AfterDepositCancellation, AfterWithdrawalCancellation, Offered
  <2>2. received \in Tokens /\ \A x \in Assets : received[x] > 0 => x \in listed
    BY <1>0, Answers
  <2> HIDE DEF listed
  <2>. QED BY <2>1, <2>2
<1>. QED BY <1>1, <1>2 DEF ExchangeStep

-----------------------------------------------------------------------------
(* The invariant holds *)

LEMMA InitIInv == Init => IInv
<1> SUFFICES ASSUME Init PROVE IInv
  OBVIOUS
<1> DEFINE fresh == [tokens |-> [x \in Assets |-> 0], ownedAssets |-> {},
                     borrowed |-> [x \in PoolAssets |-> 0],
                     lastBorrow |-> 0, frozenSince |-> 0]
<1>1. /\ now = 1 /\ price \in Prices /\ account = [a \in Accounts |-> fresh]
      /\ requests = <<>> /\ open = {} /\ alarms = {}
      /\ exposure = [g \in Groups |-> 0]
      /\ pendingUserExposure = [a \in Accounts |-> [x \in Assets |-> 0]]
      /\ pendingProtocolExposure = [x \in Assets |-> 0]
  BY DEF Init, InitAccount, InitExposure
<1>2. /\ fresh \in AccountType /\ fresh.frozenSince = 0
      /\ fresh.tokens = [x \in Assets |-> 0]
  BY DEF AccountType
<1> HIDE DEF fresh
<1>3. TypeOK
  BY <1>1, <1>2, PrimeAccountAssumption
     DEF TypeOK, AccountTypeOK, ExposureTypeOK, Times
<1>4. RequestsMatch
  BY <1>1 DEF RequestsMatch
<1>5. OneWhileFrozen /\ PendingOfAccounts
  BY <1>1, <1>2 DEF OneWhileFrozen, PendingOfAccounts, OpenRequests
<1>6. AllListed
  BY <1>1, <1>2 DEF AllListed, Listed
<1>7. PendingTotals
  <2> SUFFICES ASSUME NEW x \in Assets
               PROVE  pendingProtocolExposure[x]
                        = SumFunctionOnSet([a \in Accounts |-> pendingUserExposure[a][x]], Accounts)
    BY DEF PendingTotals
  <2> DEFINE f == [a \in Accounts |-> pendingUserExposure[a][x]]
  <2>1. \A a \in Accounts : f[a] = 0
    BY <1>1
  <2> HIDE DEF f
  <2>2. SumFunctionOnSet(f, Accounts) = 0
    BY <2>1, SumZero, ExposureAssumption
  <2>. QED BY <2>2, <1>1 DEF f
<1>8. ExposureFollows
  <2>1. ASSUME NEW x \in Assets PROVE Held(x) = 0
    <3> DEFINE f == [a \in Accounts |-> account[a].tokens[x]]
    <3>1. \A a \in Accounts : f[a] = 0
      BY <1>1, <1>2
    <3>2. Held(x) = SumFunctionOnSet(f, Accounts)
      BY DEF Held
    <3> HIDE DEF f
    <3>. QED BY <3>1, <3>2, SumZero, ExposureAssumption
  <2>2. \A x \in Assets : Holdings[x] = 0
    BY <2>1 DEF Holdings
  <2>3. ASSUME NEW g PROVE InGroup(Holdings, g) = 0
    <3> DEFINE S == {x \in Assets : GroupOf[x] = g}
    <3>1. IsFiniteSet(S) /\ \A x \in S : Holdings[x] = 0
      BY <2>2, FS_Subset, ExposureAssumption
    <3> HIDE DEF S
    <3>2. SumFunctionOnSet(Holdings, S) = 0
      BY <3>1, SumZero
    <3>. QED BY <3>2 DEF InGroup, S
  <2>. QED BY <2>3, <1>1 DEF ExposureFollows, Follows
<1>. QED BY <1>3, <1>4, <1>5, <1>6, <1>7, <1>8 DEF IInv

LEMMA NextKeepsIInv == IInv /\ [Next]_vars => IInv'
<1> SUFFICES ASSUME IInv, [Next]_vars PROVE IInv'
  OBVIOUS
<1>0. AccountTypeOK /\ TypeOK /\ RequestsMatch
  BY DEF IInv, TypeOK
<1>1. ASSUME NEW prices \in Prices, Tick(prices), UNCHANGED gmxVars PROVE IInv'
  BY <1>1, TickKeeps
<1>2. ASSUME NEW a \in Accounts, OwnerStep(a) \/ LiquidatorStep(a), UNCHANGED gmxVars
      PROVE  IInv'
  BY <1>0, <1>2, OwnerMoves, LiquidatorMoves, MoveKeeps
<1>3. ASSUME NEW a \in Accounts, RequestStep(a) PROVE IInv'
  BY <1>3, RequestStepKeeps
<1>4. ASSUME NEW a \in Accounts, UnfreezeAccount(a) PROVE IInv'
  BY <1>4, UnfreezeKeeps
<1>5. ASSUME NEW key \in open, ExchangeStep(key) PROVE IInv'
  BY <1>0, <1>5, ExchangeSettles, SettleKeeps
<1>6. CASE UNCHANGED vars
  <2>1. /\ now' = now /\ price' = price /\ account' = account
        /\ requests' = requests /\ open' = open /\ alarms' = alarms /\ exposure' = exposure
        /\ pendingUserExposure' = pendingUserExposure
        /\ pendingProtocolExposure' = pendingProtocolExposure
    BY <1>6 DEF vars, accountVars, exposureVars, gmxVars
  <2>2. Holdings' = Holdings
    BY <2>1 DEF Holdings, Held
  <2>3. ExposureFollows'
    BY <2>1, <2>2 DEF IInv, ExposureFollows
  <2>4. TypeOK' /\ RequestsMatch' /\ PendingTotals'
    BY <2>1 DEF IInv, TypeOK, AccountTypeOK, ExposureTypeOK, RequestsMatch, Awaited, Offered,
                PendingTotals
  <2>5. OneWhileFrozen' /\ PendingOfAccounts' /\ AllListed'
    BY <2>1 DEF IInv, OneWhileFrozen, PendingOfAccounts, OpenRequests, AllListed, Listed
  <2>. QED BY <2>3, <2>4, <2>5 DEF IInv
<1>. QED BY <1>1, <1>2, <1>3, <1>4, <1>5, <1>6 DEF Next

LEMMA AlwaysIInv == Spec => []IInv
BY InitIInv, NextKeepsIInv, PTL DEF Spec

\* However requests, answers that fail, liquidators and owners interleave, an
\* account is frozen exactly while one request of it is open: nothing it has at
\* the exchange is forgotten, and no second request is made on top of the first.
THEOREM FrozenHolds == Spec => []FrozenWhileRequested
<1>1. ASSUME IInv PROVE FrozenWhileRequested
  <2> SUFFICES ASSUME NEW a \in Accounts \ alarms
               PROVE  Cardinality(OpenRequests(a)) = IF account[a].frozenSince # 0 THEN 1 ELSE 0
    BY DEF FrozenWhileRequested
  <2>1. CASE account[a].frozenSince # 0
    BY <1>1, <2>1, FS_Singleton DEF IInv, OneWhileFrozen
  <2>2. CASE account[a].frozenSince = 0
    BY <1>1, <2>2, FS_EmptySet DEF IInv, OneWhileFrozen
  <2>. QED BY <2>1, <2>2
<1>. QED BY <1>1, AlwaysIInv, PTL

\* What an account waits for is what its open request brings at least, and what the
\* protocol waits for is the sum over accounts: increasePendingExposure and
\* setPendingExposureToZero keep the two in step whatever comes in between.
THEOREM PendingHolds == Spec => []PendingIsRequested
<1>1. ASSUME IInv PROVE PendingIsRequested
  <2>1. ASSUME NEW a \in Accounts \ alarms, NEW x \in Assets
        PROVE  pendingUserExposure[a][x]
                 = SumFunctionOnSet([key \in open |-> requests[key].minimum[x]], OpenRequests(a))
    <3> DEFINE f == [key \in open |-> requests[key].minimum[x]]
    <3>1. CASE account[a].frozenSince # 0
      <4>1. PICK key \in open : OpenRequests(a) = {key}
        BY <1>1, <3>1 DEF IInv, OneWhileFrozen
      <4>2. pendingUserExposure[a][x] = f[key]
        BY <1>1, <3>1, <4>1 DEF IInv, PendingOfAccounts
      <4>3. f[key] \in Int
        BY <1>1, Answers DEF IInv, Tokens
      <4> HIDE DEF f
      <4>4. SumFunctionOnSet(f, {key}) = f[key] + SumFunctionOnSet(f, {key} \ {key})
        <5>1. IsFiniteSet({key}) /\ key \in {key} /\ \A y \in {key} : f[y] \in Int
          BY <4>3, FS_Singleton
        <5>. QED BY <5>1, SumWithout
      <4>5. {key} \ {key} = {} /\ SumFunctionOnSet(f, {}) = 0
        BY SumEmpty
      <4>6. SumFunctionOnSet(f, OpenRequests(a)) = pendingUserExposure[a][x]
        BY <4>1, <4>2, <4>3, <4>4, <4>5
      <4>. QED BY <4>6 DEF f
    <3>2. CASE account[a].frozenSince = 0
      <4>1. OpenRequests(a) = {} /\ pendingUserExposure[a][x] = 0
        BY <1>1, <3>2 DEF IInv, OneWhileFrozen, PendingOfAccounts
      <4>. QED BY <4>1, SumEmpty
    <3>. QED BY <3>1, <3>2
  <2>. QED BY <1>1, <2>1 DEF IInv, PendingTotals, PendingIsRequested
<1>. QED BY <1>1, AlwaysIInv, PTL

\* The exposure that the limits are compared with never is more than what accounts
\* hold of a group, and exactly that as long as every callback succeeded.
THEOREM ExposureHolds == Spec => []ExposureIsHeld
<1>1. ASSUME IInv PROVE ExposureIsHeld
  BY <1>1 DEF IInv, ExposureFollows, Follows, Holdings, ExposureIsHeld
<1>. QED BY <1>1, AlwaysIInv, PTL

\* What an account holds is listed, so that the solvency check and a liquidation see
\* it, through every transfer in and out of it.
THEOREM HeldHolds == Spec => []HeldIsCounted
<1>1. ASSUME IInv PROVE HeldIsCounted
  BY <1>1 DEF IInv, AllListed, Listed, HeldIsCounted
<1>. QED BY <1>1, AlwaysIInv, PTL

-----------------------------------------------------------------------------
(* What accounts are worth *)

\* What one asset counts for: no more than its value, and less by what is rounded.
Weight(cost, amount, coverage) == (cost * amount * coverage) \div 100

LEMMA WeightNat ==
    ASSUME NEW p \in Nat, NEW n \in Nat, NEW c \in 0..83
    PROVE  /\ Weight(p, n, c) \in Nat
           /\ Weight(p, 0, c) = 0
<1> DEFINE v == p * n
           w == v * c
<1>1. v \in Nat
  BY MulNat
<1> HIDE DEF v
<1>2. w \in Nat
  BY <1>1
<1>3. p * 0 * c = 0
  OBVIOUS
<1> HIDE DEF w
<1>4. w \div 100 \in Nat /\ 0 \div 100 = 0
  BY <1>2
<1>. QED BY <1>1, <1>2, <1>3, <1>4 DEF Weight, v, w

LEMMA WeightAdds ==
    ASSUME NEW p \in Nat, NEW m \in Nat, NEW n \in Nat, NEW c \in 0..83
    PROVE  /\ Weight(p, m, c) + Weight(p, n, c) <= Weight(p, m + n, c)
           /\ Weight(p, m + n, c) <= Weight(p, m, c) + p * n
<1> DEFINE u == p * m
           v == p * n
           x == u * c
           y == v * c
<1>1. u \in Nat /\ v \in Nat /\ p * (m + n) = u + v
  BY MulNat
<1> HIDE DEF u, v
<1>2. x \in Nat /\ y \in Nat /\ (u + v) * c = x + y /\ y <= 83 * v
  BY <1>1
<1> HIDE DEF x, y
<1>3. /\ x \div 100 + y \div 100 <= (x + y) \div 100
      /\ (x + y) \div 100 <= x \div 100 + v
  BY <1>1, <1>2
<1>. QED BY <1>1, <1>2, <1>3 DEF Weight, u, v, x, y

LEMMA WeightGrows ==
    ASSUME NEW p \in Nat, NEW m \in Nat, NEW n \in Nat, m <= n, NEW c \in 0..83
    PROVE  Weight(p, m, c) <= Weight(p, n, c)
<1>1. n - m \in Nat /\ m + (n - m) = n
  OBVIOUS
<1>2. Weight(p, m, c) + Weight(p, n - m, c) <= Weight(p, m + (n - m), c)
  BY <1>1, WeightAdds
<1>3. Weight(p, m, c) \in Nat /\ Weight(p, n, c) \in Nat /\ Weight(p, n - m, c) \in Nat
  BY <1>1, WeightNat
<1>. QED BY <1>1, <1>2, <1>3

Weights(prices, amounts) ==
    [x \in Assets |-> Weight(prices[x], amounts[x], DebtCoverage[x])]

Worth(prices, amounts) == SumFunctionOnSet(Weights(prices, amounts), Assets)

LEMMA WeightsTyped ==
    ASSUME NEW prices \in Tokens, NEW amounts \in Tokens
    PROVE  /\ \A x \in Assets :
                 /\ prices[x] \in Nat /\ amounts[x] \in Nat /\ DebtCoverage[x] \in 0..83
                 /\ Weights(prices, amounts)[x]
                      = Weight(prices[x], amounts[x], DebtCoverage[x])
                 /\ Weights(prices, amounts)[x] \in Nat
                 /\ amounts[x] = 0 => Weights(prices, amounts)[x] = 0
           /\ Worth(prices, amounts) \in Nat
<1>1. \A x \in Assets :
        /\ prices[x] \in Nat /\ amounts[x] \in Nat /\ DebtCoverage[x] \in 0..83
  BY PrimeAccountAssumption DEF Tokens
<1>2. \A x \in Assets :
        Weights(prices, amounts)[x] = Weight(prices[x], amounts[x], DebtCoverage[x])
  BY DEF Weights
<1>3. \A x \in Assets : /\ Weights(prices, amounts)[x] \in Nat
                        /\ amounts[x] = 0 => Weights(prices, amounts)[x] = 0
  <2> SUFFICES ASSUME NEW x \in Assets
               PROVE  /\ Weights(prices, amounts)[x] \in Nat
                      /\ amounts[x] = 0 => Weights(prices, amounts)[x] = 0
    OBVIOUS
  <2>1. /\ Weight(prices[x], amounts[x], DebtCoverage[x]) \in Nat
        /\ Weight(prices[x], 0, DebtCoverage[x]) = 0
    BY <1>1, WeightNat
  <2>. QED BY <2>1, <1>2
<1>4. Worth(prices, amounts) \in Nat
  BY <1>3, SumNat, ExposureAssumption DEF Worth
<1>. QED BY <1>1, <1>2, <1>3, <1>4

LEMMA WorthGrows ==
    ASSUME NEW prices \in Tokens, NEW f \in Tokens, NEW g \in Tokens,
           \A x \in Assets : f[x] <= g[x]
    PROVE  Worth(prices, f) <= Worth(prices, g)
<1>1. \A x \in Assets : /\ Weights(prices, f)[x] \in Int /\ Weights(prices, g)[x] \in Int
                        /\ Weights(prices, f)[x] <= Weights(prices, g)[x]
  <2> SUFFICES ASSUME NEW x \in Assets
               PROVE  /\ Weights(prices, f)[x] \in Int /\ Weights(prices, g)[x] \in Int
                      /\ Weights(prices, f)[x] <= Weights(prices, g)[x]
    OBVIOUS
  <2>1. Weight(prices[x], f[x], DebtCoverage[x]) <= Weight(prices[x], g[x], DebtCoverage[x])
    BY WeightsTyped, WeightGrows
  <2>. QED BY <2>1, WeightsTyped
<1>. QED BY <1>1, SumAtMost, ExposureAssumption DEF Worth

LEMMA WorthAdds ==
    ASSUME NEW prices \in Tokens, NEW f \in Tokens, NEW d \in Tokens, NEW h \in Tokens,
           \A x \in Assets : h[x] = f[x] + d[x]
    PROVE  Worth(prices, f) + Worth(prices, d) <= Worth(prices, h)
<1> DEFINE both == [x \in Assets |-> Weights(prices, f)[x] + 1 * Weights(prices, d)[x]]
<1>1. \A x \in Assets : /\ Weights(prices, f)[x] \in Int /\ Weights(prices, d)[x] \in Int
                        /\ Weights(prices, h)[x] \in Int
  BY WeightsTyped
<1>2. \A x \in Assets : both[x] = Weights(prices, f)[x] + 1 * Weights(prices, d)[x]
  OBVIOUS
<1> HIDE DEF both
<1>3. SumFunctionOnSet(both, Assets) = Worth(prices, f) + 1 * Worth(prices, d)
  BY <1>1, <1>2, SumLinear, ExposureAssumption DEF Worth
<1>4. \A x \in Assets : both[x] \in Int /\ both[x] <= Weights(prices, h)[x]
  <2> SUFFICES ASSUME NEW x \in Assets
               PROVE  both[x] \in Int /\ both[x] <= Weights(prices, h)[x]
    OBVIOUS
  <2>1. Weight(prices[x], f[x], DebtCoverage[x]) + Weight(prices[x], d[x], DebtCoverage[x])
          <= Weight(prices[x], f[x] + d[x], DebtCoverage[x])
    BY WeightsTyped, WeightAdds
  <2>. QED BY <2>1, <1>1, <1>2, WeightsTyped
<1>5. SumFunctionOnSet(both, Assets) <= Worth(prices, h)
  BY <1>1, <1>4, SumAtMost, ExposureAssumption DEF Worth
<1>. QED BY <1>3, <1>5, WeightsTyped

\* More of one asset is worth at most its value more.
LEMMA WorthOfOne ==
    ASSUME NEW prices \in Tokens, NEW f \in Tokens, NEW g \in Tokens, NEW x \in Assets,
           f[x] <= g[x], \A y \in Assets \ {x} : f[y] = g[y]
    PROVE  Worth(prices, g) <= Worth(prices, f) + prices[x] * (g[x] - f[x])
<1> DEFINE u == Weights(prices, f)
           v == Weights(prices, g)
           n == g[x] - f[x]
<1>1. \A y \in Assets : u[y] \in Int /\ v[y] \in Int
  BY WeightsTyped
<1>2. \A y \in Assets \ {x} : v[y] = u[y]
  BY WeightsTyped
<1>3. v[x] <= u[x] + prices[x] * n
  <2>1. n \in Nat /\ f[x] + n = g[x]
    BY DEF Tokens
  <2> HIDE DEF n
  <2>2. Weight(prices[x], f[x] + n, DebtCoverage[x])
          <= Weight(prices[x], f[x], DebtCoverage[x]) + prices[x] * n
    BY <2>1, WeightsTyped, WeightAdds
  <2>. QED BY <2>1, <2>2, WeightsTyped
<1>4. Worth(prices, f) \in Nat /\ prices[x] * n \in Int
  <2>1. prices[x] \in Nat /\ n \in Nat
    BY DEF Tokens
  <2>. QED BY <2>1, MulNat, WeightsTyped
<1> HIDE DEF u, v, n
<1>5. SumFunctionOnSet(v, Assets) = SumFunctionOnSet(u, Assets) - u[x] + v[x]
  BY <1>1, <1>2, SumChanged, ExposureAssumption
<1>6. Worth(prices, g) = Worth(prices, f) - u[x] + v[x]
  BY <1>5 DEF Worth, u, v
<1>. QED BY <1>1, <1>3, <1>4, <1>6 DEF n

\* What accounts owe for one asset more.
LEMMA DebtOfOne ==
    ASSUME NEW prices \in Tokens, NEW b \in Debts, NEW x \in PoolAssets, NEW n \in Int,
           b[x] + n \in Nat
    PROVE  LET c == [b EXCEPT ![x] = @ + n]
           IN /\ c \in Debts
              /\ ValueAt(prices, b, PoolAssets) \in Nat
              /\ prices[x] * n \in Int
              /\ ValueAt(prices, c, PoolAssets) = ValueAt(prices, b, PoolAssets) + prices[x] * n
<1> DEFINE c == [b EXCEPT ![x] = @ + n]
           u == [y \in PoolAssets |-> prices[y] * b[y]]
           v == [y \in PoolAssets |-> prices[y] * c[y]]
<1>1. c \in Debts /\ c[x] = b[x] + n /\ \A y \in PoolAssets \ {x} : c[y] = b[y]
  BY DEF Debts
<1>2. IsFiniteSet(PoolAssets) /\ PoolAssets \subseteq Assets
  BY PrimeAccountAssumption, ExposureAssumption, FS_Subset
<1>3. \A y \in PoolAssets : prices[y] \in Nat /\ b[y] \in Nat /\ c[y] \in Nat
  BY <1>1, <1>2 DEF Tokens, Debts
<1> HIDE DEF c
<1>4. \A y \in PoolAssets : u[y] \in Int /\ v[y] \in Int
  <2> SUFFICES ASSUME NEW y \in PoolAssets PROVE u[y] \in Int /\ v[y] \in Int
    OBVIOUS
  <2>1. prices[y] * b[y] \in Nat /\ prices[y] * c[y] \in Nat
    BY <1>3, MulNat
  <2>. QED BY <2>1
<1>5. \A y \in PoolAssets \ {x} : v[y] = u[y]
  BY <1>1
<1>6. v[x] - u[x] = prices[x] * n /\ prices[x] * n \in Int
  BY <1>1, <1>3
<1> DEFINE w == prices[x] * n
<1>7. v[x] - u[x] = w /\ w \in Int
  BY <1>6
<1>8. ValueAt(prices, b, PoolAssets) = SumFunctionOnSet(u, PoolAssets)
      /\ ValueAt(prices, c, PoolAssets) = SumFunctionOnSet(v, PoolAssets)
  BY DEF ValueAt
<1>9. ValueAt(prices, b, PoolAssets) \in Nat
  BY <1>2, <1>3, ValueNat
<1> HIDE DEF u, v, w
<1>10. SumFunctionOnSet(v, PoolAssets) = SumFunctionOnSet(u, PoolAssets) - u[x] + v[x]
  BY <1>2, <1>4, <1>5, SumChanged
<1>11. ValueAt(prices, c, PoolAssets) = ValueAt(prices, b, PoolAssets) + w
  BY <1>4, <1>7, <1>8, <1>9, <1>10
<1>. QED BY <1>1, <1>7, <1>9, <1>11 DEF c, w

-----------------------------------------------------------------------------
(* Solvent accounts stay solvent *)

HealthyAt(prices, tokens, borrowed) ==
    Worth(prices, tokens) >= ValueAt(prices, borrowed, PoolAssets)

LEMMA HealthyGrows ==
    ASSUME NEW prices \in Tokens, NEW f \in Tokens, NEW g \in Tokens, NEW borrowed \in Debts,
           \A x \in Assets : f[x] <= g[x], HealthyAt(prices, f, borrowed)
    PROVE  HealthyAt(prices, g, borrowed)
<1>1. Worth(prices, f) <= Worth(prices, g)
  BY WorthGrows
<1>2. Worth(prices, f) \in Nat /\ Worth(prices, g) \in Nat
  BY WeightsTyped
<1>3. ValueAt(prices, borrowed, PoolAssets) \in Nat
  BY ValueNat, PrimeAccountAssumption DEF Debts
<1>. QED BY <1>1, <1>2, <1>3 DEF HealthyAt

\* An asset of which there is nothing adds nothing, whether it is counted or not.
LEMMA WorthOfCounted ==
    ASSUME AccountTypeOK, NEW amounts \in Tokens, NEW S \in SUBSET Assets,
           \A x \in Assets \ S : amounts[x] = 0
    PROVE  ThresholdWeightedValue(amounts, S) = Worth(price, amounts)
<1> DEFINE f == [x \in S |-> Weighted(x, amounts[x])]
           g == Weights(price, amounts)
<1>1. price \in Tokens
  BY PriceTyped
<1>2. \A x \in Assets : g[x] \in Nat /\ (amounts[x] = 0 => g[x] = 0)
  BY <1>1, WeightsTyped
<1>3. \A x \in S : g[x] = f[x]
  BY DEF Weights, Weight, Weighted
<1>4. /\ \A x \in S : f[x] \in Int /\ g[x] = f[x]
      /\ \A x \in Assets \ S : g[x] = 0
  BY <1>2, <1>3
<1> HIDE DEF f, g
<1>5. SumFunctionOnSet(g, Assets) = SumFunctionOnSet(f, S)
  BY <1>4, SumOnSupport, ExposureAssumption
<1>. QED BY <1>5 DEF ThresholdWeightedValue, Worth, f, g

LEMMA DebtIsValue == \A borrowed : Debt(borrowed) = ValueAt(price, borrowed, PoolAssets)
BY DEF Debt, TotalValue, ValueAt

\* The solvency check of an account that lists what it holds.
LEMMA HealthyMeans ==
    ASSUME AccountTypeOK, NEW acc \in AccountType, Listed(acc)
    PROVE  /\ ThresholdWeightedValue(acc.tokens, Counted(acc)) = Worth(price, acc.tokens)
           /\ Healthy(acc) <=> HealthyAt(price, acc.tokens, acc.borrowed)
<1>1. acc.tokens \in Tokens /\ Counted(acc) \in SUBSET Assets
  BY AccountParts, PrimeAccountAssumption DEF Counted
<1>2. \A x \in Assets \ Counted(acc) : acc.tokens[x] = 0
  BY <1>1 DEF Listed, Counted, Tokens
<1>3. ThresholdWeightedValue(acc.tokens, Counted(acc)) = Worth(price, acc.tokens)
  BY <1>1, <1>2, WorthOfCounted
<1>. QED BY <1>3, DebtIsValue DEF Healthy, HealthyAt

\* The simulated check before a request, which comes out on the safe side of what
\* the account is worth when the minimum has come in.
LEMMA SimulatedMeans ==
    ASSUME AccountTypeOK, NEW acc \in AccountType, Listed(acc), NEW minimum \in Tokens,
           StaysSolventWith(acc, minimum)
    PROVE  HealthyAt(price, Plus(acc.tokens, minimum), acc.borrowed)
<1>1. /\ price \in Tokens /\ acc.tokens \in Tokens /\ acc.borrowed \in Debts
      /\ Plus(acc.tokens, minimum) \in Tokens
      /\ \A x \in Assets : Plus(acc.tokens, minimum)[x] = acc.tokens[x] + minimum[x]
  BY PriceTyped, AccountParts, PlusTyped
<1>2. ThresholdWeightedValue(minimum, Assets) = Worth(price, minimum)
  BY WorthOfCounted
<1>3. Worth(price, acc.tokens) + Worth(price, minimum) > ValueAt(price, acc.borrowed, PoolAssets)
  BY <1>2, HealthyMeans, DebtIsValue DEF StaysSolventWith
<1>4. Worth(price, acc.tokens) + Worth(price, minimum)
        <= Worth(price, Plus(acc.tokens, minimum))
  BY <1>1, WorthAdds
<1>5. /\ Worth(price, acc.tokens) \in Nat /\ Worth(price, minimum) \in Nat
      /\ Worth(price, Plus(acc.tokens, minimum)) \in Nat
  BY <1>1, WeightsTyped
<1>6. ValueAt(price, acc.borrowed, PoolAssets) \in Nat
  BY <1>1, ValueNat, PrimeAccountAssumption DEF Debts
<1>. QED BY <1>3, <1>4, <1>5, <1>6 DEF HealthyAt

\* SurelyHealthy without the lists of assets.
Sure(a) ==
    IF OpenRequests(a) = {}
    THEN HealthyAt(price, account[a].tokens, account[a].borrowed)
    ELSE \A key \in OpenRequests(a) :
            /\ HealthyAt(price, Plus(account[a].tokens, requests[key].sent),
                         account[a].borrowed)
            /\ HealthyAt(price, Plus(account[a].tokens, requests[key].minimum),
                         account[a].borrowed)

SureMeans == IInv => \A a \in Accounts \ alarms : SurelyHealthy(a) <=> Sure(a)

LEMMA SurelyIsSure == SureMeans
<1> SUFFICES ASSUME IInv, NEW a \in Accounts \ alarms
             PROVE  SurelyHealthy(a) <=> Sure(a)
  BY DEF SureMeans
<1>1. AccountTypeOK /\ account[a] \in AccountType /\ Listed(account[a])
  BY DEF IInv, TypeOK, AccountTypeOK, AllListed
<1>2. ASSUME NEW d \in Tokens
      PROVE  Healthy(WithReceived(account[a], d))
               <=> HealthyAt(price, Plus(account[a].tokens, d), account[a].borrowed)
  <2>1. Turns(account[a], WithReceived(account[a], d),
              Plus(account[a].tokens, d), account[a].borrowed)
    BY <1>1, Receiving
  <2> DEFINE acc == WithReceived(account[a], d)
  <2>2. /\ acc \in AccountType /\ Listed(acc)
        /\ acc.tokens = Plus(account[a].tokens, d) /\ acc.borrowed = account[a].borrowed
    BY <1>1, <2>1 DEF Turns
  <2> HIDE DEF acc
  <2>3. Healthy(acc) <=> HealthyAt(price, acc.tokens, acc.borrowed)
    BY <1>1, <2>2, HealthyMeans
  <2>. QED BY <2>2, <2>3 DEF acc
<1>3. \A key \in OpenRequests(a) :
         requests[key].sent \in Tokens /\ requests[key].minimum \in Tokens
  BY Answers DEF IInv, OpenRequests
<1>4. Healthy(account[a]) <=> HealthyAt(price, account[a].tokens, account[a].borrowed)
  BY <1>1, HealthyMeans
<1>. QED BY <1>2, <1>3, <1>4 DEF SurelyHealthy, Sure

LEMMA Untouched ==
    ASSUME NEW a, Sure(a), price' = price, account'[a] = account[a],
           OpenRequests(a)' = OpenRequests(a),
           \A key \in OpenRequests(a) : requests'[key] = requests[key]
    PROVE  Sure(a)'
BY DEF Sure

LEMMA StillOpen ==
    ASSUME UNCHANGED gmxVars
    PROVE  /\ requests' = requests /\ alarms' = alarms
           /\ \A a : OpenRequests(a)' = OpenRequests(a)
BY DEF gmxVars, OpenRequests

\* The health of an account that has no request open.
LEMMA SureWhenThawed ==
    ASSUME IInv, NEW a \in Accounts \ alarms, account[a].frozenSince = 0, UNCHANGED gmxVars
    PROVE  /\ Sure(a) <=> HealthyAt(price, account[a].tokens, account[a].borrowed)
           /\ Sure(a)' <=> HealthyAt(price', account'[a].tokens, account'[a].borrowed)
           /\ Sure(a) <=> Healthy(account[a])
<1>1. OpenRequests(a) = {} /\ OpenRequests(a)' = {}
  BY StillOpen DEF IInv, OneWhileFrozen
<1>2. AccountTypeOK /\ account[a] \in AccountType /\ Listed(account[a])
  BY DEF IInv, TypeOK, AccountTypeOK, AllListed
<1>3. /\ Sure(a) <=> HealthyAt(price, account[a].tokens, account[a].borrowed)
      /\ Sure(a)' <=> HealthyAt(price', account'[a].tokens, account'[a].borrowed)
  BY <1>1 DEF Sure
<1>4. Healthy(account[a]) <=> HealthyAt(price, account[a].tokens, account[a].borrowed)
  BY <1>2, HealthyMeans
<1>. QED BY <1>3, <1>4

\* An account that gets more and owes the same.
LEMMA SureGains ==
    ASSUME IInv, NEW a \in Accounts \ alarms, Sure(a), UNCHANGED gmxVars,
           NEW tokens \in Tokens, Effect(a, tokens, account[a].borrowed),
           \A x \in Assets : account[a].tokens[x] <= tokens[x]
    PROVE  Sure(a)'
<1> DEFINE old == account[a].tokens
           borrowed == account[a].borrowed
<1>1. /\ price \in Tokens /\ price' = price /\ old \in Tokens /\ borrowed \in Debts
      /\ account'[a].tokens = tokens /\ account'[a].borrowed = borrowed
  BY PriceTyped, AccountParts DEF IInv, TypeOK, AccountTypeOK, Effect, Turns
<1>2. requests' = requests /\ OpenRequests(a)' = OpenRequests(a)
  BY StillOpen
<1>3. \A x \in Assets : old[x] <= tokens[x]
  OBVIOUS
<1>4. \A key \in OpenRequests(a) :
         requests[key].sent \in Tokens /\ requests[key].minimum \in Tokens
  BY Answers DEF IInv, OpenRequests
<1>5. CASE OpenRequests(a) = {}
  <2>1. HealthyAt(price, old, borrowed)
    BY <1>5 DEF Sure
  <2> HIDE DEF old, borrowed
  <2>2. HealthyAt(price, tokens, borrowed)
    BY <2>1, <1>1, <1>3, HealthyGrows
  <2>. QED BY <2>2, <1>1, <1>2, <1>5 DEF Sure
<1>6. CASE OpenRequests(a) # {}
  <2>1. \A key \in OpenRequests(a) :
           /\ HealthyAt(price, Plus(old, requests[key].sent), borrowed)
           /\ HealthyAt(price, Plus(old, requests[key].minimum), borrowed)
    BY <1>6 DEF Sure
  <2> HIDE DEF old, borrowed
  <2>2. ASSUME NEW d \in Tokens, HealthyAt(price, Plus(old, d), borrowed)
        PROVE  HealthyAt(price, Plus(tokens, d), borrowed)
    <3>1. /\ Plus(old, d) \in Tokens /\ Plus(tokens, d) \in Tokens
          /\ \A x \in Assets : Plus(old, d)[x] <= Plus(tokens, d)[x]
      <4>1. \A x \in Assets : old[x] \in Nat /\ tokens[x] \in Nat /\ d[x] \in Nat
        BY <1>1 DEF Tokens
      <4>. QED BY <4>1, <1>1, <1>3, PlusTyped
    <3>. QED BY <2>2, <3>1, <1>1, HealthyGrows
  <2>3. \A key \in OpenRequests(a) :
           /\ HealthyAt(price, Plus(tokens, requests[key].sent), borrowed)
           /\ HealthyAt(price, Plus(tokens, requests[key].minimum), borrowed)
    BY <2>1, <2>2, <1>4
  <2>. QED BY <2>3, <1>1, <1>2, <1>6 DEF Sure
<1>. QED BY <1>5, <1>6

\* A repayment takes as much value from the account as from its debt.
LEMMA SureRepaid ==
    ASSUME IInv, NEW a \in Accounts \ alarms, Sure(a), UNCHANGED gmxVars,
           NEW x \in PoolAssets, NEW n \in Nat, Repay(a, x, n)
    PROVE  Sure(a)'
<1>1. AccountTypeOK /\ account[a] \in AccountType /\ x \in Assets /\ price \in Tokens
  BY PriceTyped, PrimeAccountAssumption DEF IInv, TypeOK, AccountTypeOK
<1>2. PICK m \in Nat :
         /\ account[a].frozenSince = 0
         /\ m <= account[a].tokens[x] /\ m <= account[a].borrowed[x]
         /\ Only(x, m) \in Tokens
         /\ Effect(a, Minus(account[a].tokens, Only(x, m)),
                   [account[a].borrowed EXCEPT ![x] = @ + (-m)])
  BY <1>1, RepayEffect
<1> DEFINE old == account[a].tokens
           owed == account[a].borrowed
           d == Only(x, m)
           new == Minus(old, d)
           owing == [owed EXCEPT ![x] = @ + (-m)]
           v == price[x] * m
<1>3. old \in Tokens /\ owed \in Debts
  BY <1>1, AccountParts
<1>4. \A y \in Assets : d[y] = IF y = x THEN m ELSE 0
  BY <1>1, OnlyTyped
<1>5. \A y \in Assets : d[y] <= old[y]
  BY <1>2, <1>3, <1>4 DEF Tokens
<1>6. account'[a].tokens = new /\ account'[a].borrowed = owing /\ price' = price
  BY <1>2 DEF Effect, Turns
<1>7. HealthyAt(price, old, owed)
  BY <1>2, SureWhenThawed
<1>8. v \in Nat /\ price[x] * (-m) = -v
  <2>1. price[x] \in Nat
    BY <1>1 DEF Tokens
  <2>. QED BY <2>1, MulNat
<1>9. m <= old[x] /\ m <= owed[x] /\ d \in Tokens
  BY <1>2
<1> HIDE DEF old, owed, d, v
<1>10. new \in Tokens /\ \A y \in Assets : new[y] = old[y] - d[y]
  BY <1>3, <1>5, <1>9, MinusTyped
<1> HIDE DEF new
<1>11. /\ new[x] <= old[x] /\ old[x] - new[x] = m
       /\ \A y \in Assets \ {x} : new[y] = old[y]
  BY <1>1, <1>3, <1>4, <1>10, <1>9 DEF Tokens
<1>12. Worth(price, old) <= Worth(price, new) + v
  BY <1>1, <1>3, <1>10, <1>11, WorthOfOne DEF v
<1>13. owed[x] + (-m) \in Nat /\ -m \in Int
  BY <1>3, <1>9 DEF Debts
<1>14. ValueAt(price, owing, PoolAssets) = ValueAt(price, owed, PoolAssets) - v
       /\ ValueAt(price, owed, PoolAssets) \in Nat
  BY <1>1, <1>3, <1>8, <1>13, DebtOfOne
<1>15. Worth(price, old) \in Nat /\ Worth(price, new) \in Nat
  BY <1>1, <1>3, <1>10, WeightsTyped
<1>16. HealthyAt(price, new, owing)
  BY <1>7, <1>8, <1>12, <1>14, <1>15 DEF HealthyAt
<1>. QED BY <1>2, <1>6, <1>16, SureWhenThawed

\* The owner's steps on the own account.
LEMMA OwnerSure ==
    ASSUME IInv, NEW a \in Accounts \ alarms, Sure(a), UNCHANGED gmxVars, OwnerStep(a)
    PROVE  Sure(a)'
<1>1. AccountTypeOK /\ account[a] \in AccountType /\ PoolAssets \subseteq Assets
  BY PrimeAccountAssumption DEF IInv, TypeOK, AccountTypeOK
<1>2. ASSUME NEW x \in Assets, NEW n \in Nat, Fund(a, x, n) PROVE Sure(a)'
  <2>1. /\ Only(x, n) \in Tokens
        /\ Effect(a, Plus(account[a].tokens, Only(x, n)), account[a].borrowed)
    BY <1>1, <1>2, FundEffect
  <2>2. /\ Plus(account[a].tokens, Only(x, n)) \in Tokens
        /\ \A y \in Assets : account[a].tokens[y] <= Plus(account[a].tokens, Only(x, n))[y]
    <3>1. account[a].tokens \in Tokens
      BY <1>1, AccountParts
    <3>. QED BY <2>1, <3>1, PlusTyped DEF Tokens
  <2>. QED BY <2>1, <2>2, SureGains
<1>3. ASSUME NEW tokens, NEW borrowed, Effect(a, tokens, borrowed), IsSolvent(account'[a])
      PROVE  Sure(a)'
  <2>1. /\ account'[a] \in AccountType /\ Listed(account'[a]) /\ price' = price
        /\ account[a].frozenSince = 0
    BY <1>3 DEF IInv, AllListed, Effect, Turns, IsSolvent
  <2>2. HealthyAt(price, account'[a].tokens, account'[a].borrowed)
    BY <1>1, <1>3, <2>1, HealthyMeans DEF IsSolvent
  <2>. QED BY <2>1, <2>2, SureWhenThawed
<1>4. ASSUME NEW x \in Assets, NEW n \in Nat, Withdraw(a, x, n) PROVE Sure(a)'
  BY <1>1, <1>3, <1>4, WithdrawEffect
<1>5. ASSUME NEW x \in PoolAssets, NEW n \in Nat, Borrow(a, x, n) PROVE Sure(a)'
  BY <1>1, <1>3, <1>5, BorrowEffect
<1>6. ASSUME NEW x \in PoolAssets, NEW y \in PoolAssets, NEW n \in Nat,
             SwapDebt(a, x, y, n, n, n)
      PROVE  Sure(a)'
  BY <1>1, <1>3, <1>6, SwapEffect
<1>7. ASSUME NEW x \in PoolAssets, NEW n \in Nat, Repay(a, x, n) PROVE Sure(a)'
  BY <1>7, SureRepaid
<1>8. ASSUME NEW x \in PoolAssets, NEW y \in PoolAssets, NEW n \in Nat, NEW m \in Nat,
             SwapDebtParaSwap(a, x, y, n, n, m)
      PROVE  Sure(a)'
  BY <1>1, <1>3, <1>8, ParaSwapEffect
<1>9. \A operation \in {"fund", "withdraw", "borrow", "repay", "swap", "received"} :
         Amounts[operation] \subseteq Nat
  BY PrimeAccountAssumption
<1>. QED BY <1>2, <1>4, <1>5, <1>6, <1>7, <1>8, <1>9 DEF OwnerStep

\* No liquidation happens to an account that is healthy.
LEMMA LiquidatorSure ==
    ASSUME IInv, NEW a \in Accounts \ alarms, Sure(a), UNCHANGED gmxVars, LiquidatorStep(a)
    PROVE  Sure(a)'
<1>1. AccountTypeOK /\ account[a] \in AccountType
  BY DEF IInv, TypeOK, AccountTypeOK
<1>2. ASSUME NEW repay, NEW bonus, NEW unprofitable, Liquidate(a, repay, bonus, unprofitable)
      PROVE  FALSE
  <2>1. account[a].frozenSince = 0 /\ ~Healthy(account[a])
    BY <1>2 DEF Liquidate
  <2>. QED BY <2>1, SureWhenThawed
<1>3. ASSUME NEW x \in Assets, AddOwnedAsset(a, x) PROVE Sure(a)'
  <2>1. Effect(a, account[a].tokens, account[a].borrowed)
    BY <1>1, <1>3, ListingEffect
  <2>2. /\ account[a].tokens \in Tokens
        /\ \A y \in Assets : account[a].tokens[y] <= account[a].tokens[y]
    BY <1>1, AccountParts DEF Tokens
  <2>. QED BY <2>1, <2>2, SureGains
<1>. QED BY <1>2, <1>3 DEF LiquidatorStep

\* A request is only sent when the account stays solvent with the least that comes
\* of it, and when all of it comes back the account is what it was.
LEMMA RequestSure ==
    ASSUME IInv, NEW a \in Accounts \ alarms, Sure(a), RequestStep(a)
    PROVE  Sure(a)'
<1>1. AccountTypeOK /\ account[a] \in AccountType /\ Listed(account[a])
  BY DEF IInv, TypeOK, AccountTypeOK, AllListed
<1>2. PICK deposit \in BOOLEAN, sent \in Tokens, minimum \in Tokens : \E awaited :
         /\ SendRequest(a, deposit, sent, minimum, awaited)
         /\ \A x \in Assets : sent[x] <= account[a].tokens[x]
         /\ \/ StaysSolventWith(WithSpent(account[a], sent), minimum)
            \/ ~Healthy(account[a])
  BY <1>1, Requesting DEF Asks
<1>3. IsRequested(a, deposit, sent, minimum)
  BY <1>1, <1>2, RequestEffect DEF IInv, TypeOK
<1>4. /\ account[a].frozenSince = 0 /\ price' = price
      /\ account'[a].tokens = Minus(account[a].tokens, sent)
      /\ account'[a].borrowed = account[a].borrowed
  BY <1>3 DEF IsRequested
<1>5. OpenRequests(a) = {}
  BY <1>4 DEF IInv, OneWhileFrozen
<1>6. PICK new : /\ OpenRequests(a)' = {new}
                 /\ requests'[new].sent = sent /\ requests'[new].minimum = minimum
  <2>1. PICK new :
           /\ requests'[new] = [account |-> a, deposit |-> deposit,
                                sent |-> sent, minimum |-> minimum]
           /\ \A b : OpenRequests(b)' = IF b = a THEN OpenRequests(b) \cup {new}
                                        ELSE OpenRequests(b)
    BY <1>3 DEF IsRequested
  <2>. QED BY <2>1, <1>5
<1>7. /\ HealthyAt(price, account[a].tokens, account[a].borrowed)
      /\ Healthy(account[a])
  BY <1>1, <1>5, HealthyMeans DEF Sure
<1> DEFINE old == account[a].tokens
           left == Minus(old, sent)
           owed == account[a].borrowed
<1>8. old \in Tokens /\ \A x \in Assets : sent[x] <= old[x]
  BY <1>1, <1>2, AccountParts
<1>9. HealthyAt(price, Plus(left, minimum), owed)
  <2>1. Turns(account[a], WithSpent(account[a], sent), left, owed)
    BY <1>1, <1>2, Spending
  <2> DEFINE acc == WithSpent(account[a], sent)
  <2>2. /\ acc \in AccountType /\ Listed(acc) /\ acc.tokens = left /\ acc.borrowed = owed
        /\ StaysSolventWith(acc, minimum)
    BY <2>1, <1>1, <1>2, <1>7 DEF Turns
  <2> HIDE DEF acc, left, owed
  <2>3. HealthyAt(price, Plus(acc.tokens, minimum), acc.borrowed)
    BY <2>2, <1>1, SimulatedMeans
  <2>. QED BY <2>2, <2>3
<1>10. Plus(left, sent) = old
  <2> HIDE DEF old
  <2>1. left \in Tokens /\ \A x \in Assets : left[x] = old[x] - sent[x]
    BY <1>8, MinusTyped
  <2> HIDE DEF left
  <2>2. Plus(left, sent) \in Tokens /\ \A x \in Assets : Plus(left, sent)[x] = left[x] + sent[x]
    BY <2>1, PlusTyped
  <2>3. \A x \in Assets : Plus(left, sent)[x] = old[x]
    BY <1>8, <2>1, <2>2 DEF Tokens
  <2>. QED BY <1>8, <2>2, <2>3 DEF Tokens
<1>11. account'[a].tokens = left /\ account'[a].borrowed = owed
  BY <1>4
<1>12. HealthyAt(price, old, owed)
  BY <1>7
<1> HIDE DEF old, left, owed
<1>13. HealthyAt(price, Plus(left, sent), owed)
  BY <1>10, <1>12
<1>. QED BY <1>4, <1>6, <1>9, <1>11, <1>13 DEF Sure

\* An answer brings what was sent or at least the minimum; the account is thawed,
\* and nothing of it is open any more.
LEMMA AnswerSure ==
    ASSUME IInv, NEW a \in Accounts \ alarms, a \notin alarms', Sure(a),
           NEW key \in open, ExchangeStep(key)
    PROVE  Sure(a)'
<1>1. TypeOK /\ AccountTypeOK /\ RequestsMatch
  BY DEF IInv, TypeOK
<1>2. PICK received \in Tokens, listed \in SUBSET Assets :
         /\ Settle(key, received, listed)
         /\ \A x \in Assets : received[x] > 0 => x \in listed
         /\ \/ received = requests[key].sent
            \/ \A x \in Assets : requests[key].minimum[x] <= received[x]
  BY <1>1, ExchangeSettles
<1> DEFINE b == requests[key].account
<1>3. /\ b \in Accounts
      /\ requests[key].sent \in Tokens /\ requests[key].minimum \in Tokens
  BY <1>1, Answers
<1>4. /\ requests' = requests /\ price' = price
      /\ \A c \in Accounts \ {b} : account'[c] = account[c]
      /\ account'[b].tokens = Plus(account[b].tokens, received)
      /\ account'[b].borrowed = account[b].borrowed
      /\ \A c : OpenRequests(c)' = OpenRequests(c) \ {key}
      /\ key \in OpenRequests(b) /\ \A c : c # b => key \notin OpenRequests(c)
  BY <1>1, <1>2, <1>3, SettleEffect
<1> HIDE DEF b
<1>5. CASE a # b
  BY <1>4, <1>5, Untouched
<1>6. CASE a = b
  <2>1. OpenRequests(a) = {key} /\ OpenRequests(a)' = {}
    BY <1>4, <1>6 DEF IInv, OneWhileFrozen
  <2> DEFINE old == account[a].tokens
             owed == account[a].borrowed
             sent == requests[key].sent
             minimum == requests[key].minimum
  <2>2. HealthyAt(price, Plus(old, sent), owed) /\ HealthyAt(price, Plus(old, minimum), owed)
    BY <2>1 DEF Sure
  <2>3. /\ old \in Tokens /\ owed \in Debts /\ sent \in Tokens /\ minimum \in Tokens
        /\ price \in Tokens
    BY <1>1, <1>3, AccountParts, PriceTyped DEF AccountTypeOK
  <2>4. received = sent \/ \A x \in Assets : minimum[x] <= received[x]
    BY <1>2
  <2>5. account'[a].tokens = Plus(old, received) /\ account'[a].borrowed = owed
    BY <1>4, <1>6
  <2> HIDE DEF old, owed, sent, minimum
  <2>6. HealthyAt(price, Plus(old, received), owed)
    <3>1. CASE received = sent
      BY <3>1, <2>2
    <3>2. CASE \A x \in Assets : minimum[x] <= received[x]
      <4>1. \A x \in Assets : /\ Plus(old, minimum)[x] = old[x] + minimum[x]
                              /\ Plus(old, received)[x] = old[x] + received[x]
                              /\ old[x] \in Nat /\ minimum[x] \in Nat /\ received[x] \in Nat
        BY <2>3, PlusTyped DEF Tokens
      <4>2. /\ Plus(old, minimum) \in Tokens /\ Plus(old, received) \in Tokens
            /\ \A x \in Assets : Plus(old, minimum)[x] <= Plus(old, received)[x]
        BY <2>3, <3>2, <4>1, PlusTyped
      <4>. QED BY <2>2, <2>3, <4>2, HealthyGrows
    <3>. QED BY <2>4, <3>1, <3>2
  <2>. QED BY <2>1, <2>5, <2>6, <1>4 DEF Sure
<1>. QED BY <1>5, <1>6

LEMMA SureStays ==
    ASSUME IInv, [Next]_vars, NEW a \in Accounts, a \notin alarms',
           now' = now, a \notin alarms => Sure(a)
    PROVE  a \notin alarms /\ Sure(a)'
<1>1. AccountTypeOK /\ TypeOK /\ now \in Nat
  BY DEF IInv, TypeOK, AccountTypeOK, Times
<1>2. ASSUME NEW prices \in Prices, Tick(prices) PROVE FALSE
  BY <1>1, <1>2 DEF Tick
<1>3. ASSUME NEW b \in Accounts, OwnerStep(b) \/ LiquidatorStep(b), UNCHANGED gmxVars
      PROVE  a \notin alarms /\ Sure(a)'
  <2>1. a \notin alarms
    BY <1>3, StillOpen
  <2>2. CASE b = a
    BY <1>3, <2>1, <2>2, OwnerSure, LiquidatorSure
  <2>3. CASE b # a
    <3>1. PICK tokens, borrowed : Moves(b, tokens, borrowed)
      BY <1>1, <1>3, OwnerMoves, LiquidatorMoves
    <3>2. account'[a] = account[a] /\ price' = price
      BY <2>3, <3>1 DEF Moves, Effect
    <3>. QED BY <1>3, <2>1, <3>2, StillOpen, Untouched
  <2>. QED BY <2>2, <2>3
<1>4. ASSUME NEW b \in Accounts, RequestStep(b) PROVE a \notin alarms /\ Sure(a)'
  <2>1. PICK deposit \in BOOLEAN, sent \in Tokens, minimum \in Tokens :
           IsRequested(b, deposit, sent, minimum)
    <3>1. PICK deposit \in BOOLEAN, sent \in Tokens, minimum \in Tokens : \E awaited :
             /\ SendRequest(b, deposit, sent, minimum, awaited)
             /\ \A x \in Assets : sent[x] <= account[b].tokens[x]
      BY <1>1, <1>4, Requesting DEF Asks
    <3>2. IsRequested(b, deposit, sent, minimum)
      BY <1>1, <3>1, RequestEffect DEF TypeOK
    <3>. QED BY <3>2
  <2>2. a \notin alarms
    BY <2>1 DEF IsRequested
  <2>3. CASE b = a
    BY <1>4, <2>2, <2>3, RequestSure
  <2>4. CASE b # a
    <3>1. account'[a] = account[a] /\ price' = price /\ OpenRequests(a)' = OpenRequests(a)
      BY <2>1, <2>4 DEF IsRequested
    <3>2. \A key \in DOMAIN requests : requests'[key] = requests[key]
      BY <2>1 DEF IsRequested
    <3>3. \A key \in OpenRequests(a) : requests'[key] = requests[key]
      BY <1>1, <3>2 DEF TypeOK, OpenRequests
    <3>. QED BY <2>2, <3>1, <3>3, Untouched
  <2>. QED BY <2>3, <2>4
<1>5. ASSUME NEW b \in Accounts, UnfreezeAccount(b) PROVE a \notin alarms /\ Sure(a)'
  <2>1. /\ alarms' = alarms \cup {b} /\ price' = price /\ requests' = requests /\ open' = open
        /\ account' = [account EXCEPT ![b] = [account[b] EXCEPT !.frozenSince = 0]]
    BY <1>5 DEF UnfreezeAccount, Becomes
  <2>2. a \notin alarms /\ a # b
    BY <2>1
  <2>3. account'[a] = account[a] /\ OpenRequests(a)' = OpenRequests(a)
    BY <1>1, <2>1, <2>2 DEF AccountTypeOK, OpenRequests
  <2>. QED BY <2>1, <2>2, <2>3, Untouched
<1>6. ASSUME NEW key \in open, ExchangeStep(key) PROVE a \notin alarms /\ Sure(a)'
  <2>1. a \notin alarms
    BY <1>6 DEF ExchangeStep, AfterDepositExecution, AfterWithdrawalExecution,
                AfterDepositCancellation, AfterWithdrawalCancellation, Settle, CallbackFailed
  <2>. QED BY <1>6, <2>1, AnswerSure
<1>7. CASE UNCHANGED vars
  <2>1. alarms' = alarms /\ price' = price /\ account' = account /\ UNCHANGED gmxVars
    BY <1>7 DEF vars, accountVars, gmxVars
  <2>2. OpenRequests(a)' = OpenRequests(a) /\ requests' = requests
    BY <2>1, StillOpen
  <2>. QED BY <2>1, <2>2, Untouched
<1>. QED BY <1>2, <1>3, <1>4, <1>5, <1>6, <1>7 DEF Next

\* Only time and prices make an account insolvent: no order of what its owner, other
\* accounts, liquidators and the exchange do, with a request executed at its minimum,
\* above it or cancelled, takes a solvent account's health away.
THEOREM SolventStays == Spec => StaysSolvent
<1>1. SureMeans /\ SureMeans'
  BY SurelyIsSure, PTL
<1>2. ASSUME IInv, IInv', [Next]_vars
      PROVE  [\A a \in Accounts : (now' = now /\ SurelyHealthy(a) /\ a \notin alarms')
                 => SurelyHealthy(a)']_vars
  <2> SUFFICES ASSUME NEW a \in Accounts, now' = now, SurelyHealthy(a), a \notin alarms'
               PROVE  SurelyHealthy(a)'
    OBVIOUS
  <2>1. a \notin alarms => Sure(a)
    BY <1>1, <1>2 DEF SureMeans
  <2>2. Sure(a)'
    BY <1>2, <2>1, SureStays
  <2>. QED BY <1>1, <1>2, <2>2 DEF SureMeans
<1>. QED BY <1>2, AlwaysIInv, PTL DEF Spec, StaysSolvent

-----------------------------------------------------------------------------
(* Liquidations are fair *)

LEMMA ValueOnSupport ==
    ASSUME NEW prices \in Tokens, NEW amounts \in Tokens, NEW S \in SUBSET Assets,
           \A x \in Assets \ S : amounts[x] = 0
    PROVE  ValueAt(prices, amounts, S) = ValueAt(prices, amounts, Assets)
<1> DEFINE f == [x \in S |-> prices[x] * amounts[x]]
           g == [x \in Assets |-> prices[x] * amounts[x]]
<1>1. \A x \in Assets : prices[x] \in Nat /\ amounts[x] \in Nat
  BY DEF Tokens
<1>2. \A x \in S : f[x] \in Int /\ g[x] = f[x]
  BY <1>1, MulNat
<1>3. \A x \in Assets \ S : g[x] = 0
  BY <1>1
<1> HIDE DEF f, g
<1>4. SumFunctionOnSet(g, Assets) = SumFunctionOnSet(f, S)
  BY <1>2, <1>3, SumOnSupport, ExposureAssumption
<1>. QED BY <1>4 DEF ValueAt, f, g

LEMMA ValueMoves ==
    ASSUME NEW prices \in Tokens, NEW S \in SUBSET Assets, NEW f, NEW d, NEW h,
           \A x \in S : f[x] \in Nat /\ d[x] \in Nat /\ h[x] = f[x] + d[x]
    PROVE  ValueAt(prices, h, S) = ValueAt(prices, f, S) + ValueAt(prices, d, S)
<1> DEFINE u == [x \in S |-> prices[x] * f[x]]
           v == [x \in S |-> prices[x] * d[x]]
           w == [x \in S |-> prices[x] * h[x]]
<1>1. IsFiniteSet(S) /\ \A x \in S : prices[x] \in Nat
  BY FS_Subset, ExposureAssumption DEF Tokens
<1>2. ASSUME NEW x \in S
      PROVE  u[x] \in Int /\ v[x] \in Int /\ w[x] = u[x] + 1 * v[x]
  <2>1. /\ prices[x] \in Nat /\ f[x] \in Nat /\ d[x] \in Nat /\ h[x] = f[x] + d[x]
    BY <1>1
  <2>2. prices[x] * f[x] \in Nat /\ prices[x] * d[x] \in Nat
    BY <2>1, MulNat
  <2>3. prices[x] * h[x] = prices[x] * f[x] + prices[x] * d[x]
    BY <2>1
  <2>. QED BY <2>2, <2>3
<1>3. \A x \in S : u[x] \in Int /\ v[x] \in Int /\ w[x] = u[x] + 1 * v[x]
  BY <1>2
<1>4. ValueAt(prices, d, S) \in Nat
  BY ValueNat
<1>5. /\ ValueAt(prices, f, S) = SumFunctionOnSet(u, S)
      /\ ValueAt(prices, d, S) = SumFunctionOnSet(v, S)
      /\ ValueAt(prices, h, S) = SumFunctionOnSet(w, S)
  BY DEF ValueAt
<1> HIDE DEF u, v, w
<1>6. SumFunctionOnSet(w, S) = SumFunctionOnSet(u, S) + 1 * SumFunctionOnSet(v, S)
  BY <1>1, <1>3, SumLinear
<1>. QED BY <1>4, <1>5, <1>6

\* What goes out of every asset is the same part of it, rounded down.
LEMMA ValueOfPart ==
    ASSUME NEW prices \in Tokens, NEW out \in Tokens, NEW tokens \in Tokens, NEW part \in Nat,
           \A x \in Assets : out[x] * ONE <= tokens[x] * part
    PROVE  ONE * ValueAt(prices, out, Assets) <= part * ValueAt(prices, tokens, Assets)
<1> DEFINE u == [x \in Assets |-> prices[x] * out[x]]
           v == [x \in Assets |-> prices[x] * tokens[x]]
           gone == [x \in Assets |-> ONE * u[x]]
           due == [x \in Assets |-> part * v[x]]
<1>1. \A x \in Assets : prices[x] \in Nat /\ out[x] \in Nat /\ tokens[x] \in Nat
  BY DEF Tokens
<1>2. ASSUME NEW x \in Assets
      PROVE  /\ u[x] \in Int /\ v[x] \in Int
             /\ ONE * u[x] \in Int /\ part * v[x] \in Int /\ ONE * u[x] <= part * v[x]
  <2> DEFINE p == prices[x]
             m == out[x]
             n == tokens[x]
             mm == m * ONE
             nn == n * part
  <2>1. p \in Nat /\ m \in Nat /\ n \in Nat /\ mm <= nn
    BY <1>1
  <2>2. u[x] = p * m /\ v[x] = p * n
    OBVIOUS
  <2> HIDE DEF p, m, n, u, v
  <2>3. p * m \in Nat /\ p * n \in Nat /\ mm \in Nat /\ nn \in Nat
    BY <2>1, MulNat DEF ONE
  <2>4. ONE * (p * m) = p * mm /\ part * (p * n) = p * nn
    BY <2>1 DEF ONE
  <2>5. ONE * (p * m) \in Nat /\ part * (p * n) \in Nat
    BY <2>3, MulNat DEF ONE
  <2> HIDE DEF mm, nn
  <2>6. p * mm <= p * nn
    BY <2>1, <2>3, MulMonotone
  <2>. QED BY <2>2, <2>3, <2>4, <2>5, <2>6
<1>3. ONE \in Int /\ part \in Int
  BY DEF ONE
<1>4. \A x \in Assets : /\ gone[x] = ONE * u[x] /\ due[x] = part * v[x]
                        /\ u[x] \in Int /\ v[x] \in Int
                        /\ gone[x] \in Int /\ due[x] \in Int /\ gone[x] <= due[x]
  BY <1>2
<1>5. /\ ValueAt(prices, out, Assets) = SumFunctionOnSet(u, Assets)
      /\ ValueAt(prices, tokens, Assets) = SumFunctionOnSet(v, Assets)
  BY DEF ValueAt
<1> HIDE DEF u, v, gone, due
<1>6. SumFunctionOnSet(gone, Assets) = ONE * SumFunctionOnSet(u, Assets)
  BY <1>3, <1>4, SumScaled, ExposureAssumption
<1>7. SumFunctionOnSet(due, Assets) = part * SumFunctionOnSet(v, Assets)
  BY <1>3, <1>4, SumScaled, ExposureAssumption
<1>8. SumFunctionOnSet(gone, Assets) <= SumFunctionOnSet(due, Assets)
  BY <1>4, SumAtMost, ExposureAssumption
<1>. QED BY <1>5, <1>6, <1>7, <1>8

\* What a liquidation repays, adds and takes, in value.
LEMMA LiquidationBalances ==
    ASSUME NEW prices \in Tokens, NEW acc \in AccountType, NEW repay \in Debts
    PROVE  LET value(amounts) == ValueAt(prices, amounts, Assets)
               owing(borrowed) == ValueAt(prices, borrowed, PoolAssets)
               settled == Settled(acc, repay)
           IN /\ value(settled.tokens) + value(Repaid(acc, repay))
                    = value(acc.tokens) + value(Supplied(acc, repay))
              /\ owing(DebtsLeft(acc, repay)) + value(Repaid(acc, repay)) = owing(acc.borrowed)
              /\ settled.tokens \in Tokens
<1> DEFINE tokens == acc.tokens
           borrowed == acc.borrowed
           supplied == Supplied(acc, repay)
           repaid == Repaid(acc, repay)
           added == Added(acc, repay)
           taken == Taken(acc, repay)
           left == DebtsLeft(acc, repay)
           settled == Settled(acc, repay)
<1>1. tokens \in Tokens /\ borrowed \in Debts
  BY AccountParts
<1>2. /\ supplied \in Tokens /\ repaid \in Tokens /\ added \in Tokens /\ taken \in Tokens
      /\ left \in Debts
      /\ \A x \in Assets : /\ taken[x] <= tokens[x]
                           /\ added[x] - taken[x] = supplied[x] - repaid[x]
      /\ \A x \in PoolAssets : repaid[x] <= borrowed[x]
      /\ \A x \in Assets \ PoolAssets : repaid[x] = 0
  BY RepaidWithin
<1>3. settled \in AccountType /\ settled.tokens = Minus(Plus(tokens, added), taken)
  BY Settling DEF Turns
<1>4. \A x \in PoolAssets : left[x] = borrowed[x] - repaid[x]
  BY DEF DebtsLeft
<1>5. settled.tokens \in Tokens
  BY <1>3, AccountParts
<1> HIDE DEF tokens, borrowed, supplied, repaid, added, taken, left, settled
<1>6. \A x \in Assets : settled.tokens[x] + repaid[x] = tokens[x] + supplied[x]
  BY <1>1, <1>2, <1>3 DEF Plus, Minus, Tokens
<1> DEFINE both == [x \in Assets |-> tokens[x] + supplied[x]]
<1>7. \A x \in Assets : /\ settled.tokens[x] \in Nat /\ repaid[x] \in Nat
                        /\ tokens[x] \in Nat /\ supplied[x] \in Nat
                        /\ both[x] = tokens[x] + supplied[x]
                        /\ both[x] = settled.tokens[x] + repaid[x]
  BY <1>1, <1>2, <1>5, <1>6 DEF Tokens
<1> HIDE DEF both
<1>8. /\ ValueAt(prices, both, Assets)
           = ValueAt(prices, tokens, Assets) + ValueAt(prices, supplied, Assets)
      /\ ValueAt(prices, both, Assets)
           = ValueAt(prices, settled.tokens, Assets) + ValueAt(prices, repaid, Assets)
  BY <1>7, ValueMoves
<1>9. PoolAssets \in SUBSET Assets
  BY PrimeAccountAssumption
<1>10. \A x \in PoolAssets : /\ left[x] \in Nat /\ repaid[x] \in Nat
                             /\ borrowed[x] = left[x] + repaid[x]
  BY <1>1, <1>2, <1>4, <1>9 DEF Tokens, Debts
<1>11. ValueAt(prices, borrowed, PoolAssets)
         = ValueAt(prices, left, PoolAssets) + ValueAt(prices, repaid, PoolAssets)
  BY <1>9, <1>10, ValueMoves
<1>12. ValueAt(prices, repaid, PoolAssets) = ValueAt(prices, repaid, Assets)
  BY <1>2, <1>9, ValueOnSupport
<1>. QED BY <1>5, <1>8, <1>11, <1>12
        DEF tokens, borrowed, supplied, repaid, left, settled

\* What is not counted is not there after the debts have been repaid, unless more
\* of it was supplied than was owed.
LEMMA SettledIsCounted ==
    ASSUME NEW acc \in AccountType, Listed(acc), NEW repay \in Debts,
           \A x \in PoolAssets : repay[x] > acc.borrowed[x] => x \in Counted(acc),
           NEW x \in Assets \ Counted(acc)
    PROVE  acc.tokens[x] = 0 /\ Settled(acc, repay).tokens[x] = 0
<1>1. acc.tokens \in Tokens /\ acc.borrowed \in Debts
  BY AccountParts
<1>2. acc.tokens[x] = 0
  BY <1>1 DEF Listed, Counted, Tokens
<1>3. x \in PoolAssets => repay[x] <= acc.borrowed[x]
  BY <1>1 DEF Debts
<1>4. /\ Added(acc, repay) \in Tokens /\ Taken(acc, repay) \in Tokens
      /\ Taken(acc, repay)[x] <= acc.tokens[x] /\ Added(acc, repay)[x] = 0
  BY <1>2, <1>3, RepaidWithin
<1>5. Settled(acc, repay).tokens = Minus(Plus(acc.tokens, Added(acc, repay)), Taken(acc, repay))
  BY Settling DEF Turns
<1>. QED BY <1>2, <1>4, <1>5 DEF Plus, Minus, Tokens

\* As long as the account can pay, what goes out is worth no more than what the
\* liquidator added and the bonus.
LEMMA PaidOut ==
    ASSUME AccountTypeOK, NEW a \in Accounts, Listed(account[a]),
           NEW repay \in Debts, NEW bonus \in Nat,
           \A x \in PoolAssets :
              repay[x] > account[a].borrowed[x] => x \in Counted(account[a]),
           ~Healing(account[a]),
           \/ ValueLeft(account[a], repay) < OwedFor(account[a], repay, bonus)
           \/ ValueLeft(account[a], repay) > 0
    PROVE  ValueAt(price, Out(Settled(account[a], repay), PartOut(account[a], repay, bonus)),
                   Assets)
             <= OwedFor(account[a], repay, bonus)
<1> DEFINE acc == account[a]
           settled == Settled(acc, repay)
           tokens == settled.tokens
           owed == OwedFor(acc, repay, bonus)
           value == ValueLeft(acc, repay)
           part == PartOut(acc, repay, bonus)
           out == Out(settled, part)
           paid == ValueAt(price, out, Assets)
<1>1. /\ acc \in AccountType /\ price \in Tokens
      /\ Counted(acc) \in SUBSET Assets
  BY PriceTyped, AccountParts, PrimeAccountAssumption DEF AccountTypeOK, Counted
<1>2. owed \in Nat /\ value \in Nat /\ part \in 0..ONE
  BY LiquidationNumbers
<1>3. settled \in AccountType /\ tokens \in Tokens
  BY <1>1, Settling, AccountParts DEF Turns
<1>4. part = IF value >= owed THEN (owed * ONE) \div Max({1, value}) ELSE ONE
  BY DEF PartOut, Part
<1>5. value = ValueAt(price, tokens, Counted(acc))
  BY DEF ValueLeft, TotalValue, ValueAt
<1>6. \A x \in Assets \ Counted(acc) : tokens[x] = 0
  BY <1>1, SettledIsCounted
<1>7. value < owed \/ value > 0
  OBVIOUS
<1>8. /\ out \in Tokens
      /\ \A x \in Assets : out[x] <= tokens[x] /\ out[x] * ONE <= tokens[x] * part
  BY <1>2, <1>3, OutWithin
<1> SUFFICES paid <= owed
  OBVIOUS
<1> HIDE DEF acc, owed, value, part, out, tokens
<1>9. value = ValueAt(price, tokens, Assets)
  BY <1>1, <1>3, <1>5, <1>6, ValueOnSupport
<1>10. paid \in Nat
  BY <1>1, <1>8, ValueNat DEF Tokens
<1>11. ONE * paid <= part * value
  BY <1>1, <1>2, <1>3, <1>8, <1>9, ValueOfPart DEF ONE
<1> HIDE DEF paid
<1>12. CASE value < owed
  <2>1. part = ONE
    BY <1>2, <1>4, <1>12
  <2>. QED BY <2>1, <1>2, <1>10, <1>11, <1>12 DEF ONE
<1>13. CASE value >= owed
  <2>1. value \in Nat \ {0}
    BY <1>2, <1>7, <1>13
  <2>2. Max({1, value}) = value
    <3>1. Max({1, value}) = IF 1 >= value THEN 1 ELSE value
      BY <2>1, MaxOfTwo
    <3>. QED BY <2>1, <3>1
  <2>3. part = (owed * 1000) \div value
    BY <2>2, <1>4, <1>13 DEF ONE
  <2>4. part * value <= owed * 1000
    <3> DEFINE n == owed * 1000
    <3>1. n \in Nat
      BY <1>2
    <3> HIDE DEF n
    <3>2. (n \div value) * value <= n
      BY <2>1, <3>1, DivLE
    <3>. QED BY <2>3, <3>2 DEF n
  <2> DEFINE gone == part * value
  <2>5. gone \in Nat
    BY <1>2, MulNat DEF ONE
  <2>6. 1000 * paid <= gone /\ gone <= owed * 1000
    BY <2>4, <1>11 DEF ONE
  <2> HIDE DEF gone
  <2>. QED BY <2>5, <2>6, <1>2, <1>10
<1>. QED BY <1>2, <1>12, <1>13

LEMMA LiquidationIsFairly ==
    ASSUME IInv, NEW a \in Accounts \ alarms, NEW repay \in Repayments, NEW bonus \in Nat,
           NEW unprofitable, Liquidate(a, repay, bonus, unprofitable),
           \A x \in PoolAssets :
              repay[x] > account[a].borrowed[x] => x \in Counted(account[a])
    PROVE  LET repaid == Debt(account[a].borrowed) - Debt(account[a].borrowed)'
           IN Equity(a)' >= Equity(a) - (repaid * bonus) \div 1000
<1> DEFINE acc == account[a]
           settled == Settled(acc, repay)
           out == Out(settled, PartOut(acc, repay, bonus))
           owed == OwedFor(acc, repay, bonus)
           new == Minus(settled.tokens, out)
           left == DebtsLeft(acc, repay)
           value(amounts) == ValueAt(price, amounts, Assets)
           owing(borrowed) == ValueAt(price, borrowed, PoolAssets)
           r == value(Repaid(acc, repay))
           s == value(Supplied(acc, repay))
<1>1. /\ AccountTypeOK /\ acc \in AccountType /\ Listed(acc) /\ price \in Tokens
      /\ repay \in Debts /\ Counted(acc) \in SUBSET Assets /\ acc.tokens \in Tokens
  BY PriceTyped, AccountParts, PrimeAccountAssumption
     DEF IInv, TypeOK, AccountTypeOK, AllListed, Counted, Debts
<1>2. /\ settled \in AccountType
      /\ out \in Tokens /\ \A x \in Assets : out[x] <= settled.tokens[x]
      /\ Effect(a, new, left)
      /\ \/ Healing(acc)
         \/ ValueLeft(acc, repay) < owed
         \/ ValueLeft(acc, repay) > 0
      /\ Healing(acc) => Debt(left) = 0
  BY <1>1, LiquidateEffect
<1>3. account'[a].tokens = new /\ account'[a].borrowed = left /\ price' = price
  BY <1>2 DEF Effect, Turns
<1>4. /\ Equity(a) = value(acc.tokens) - owing(acc.borrowed)
      /\ Equity(a)' = value(new) - owing(left)
      /\ Debt(acc.borrowed) = owing(acc.borrowed)
      /\ Debt(account[a].borrowed)' = owing(left)
      /\ Debt(left) = owing(left)
  BY <1>3 DEF Equity, Debt, TotalValue, ValueAt
<1>5. /\ value(settled.tokens) + r = value(acc.tokens) + s
      /\ owing(left) + r = owing(acc.borrowed)
      /\ settled.tokens \in Tokens
  BY <1>1, LiquidationBalances
<1>6. owed = s + (r * bonus) \div 1000
  BY DEF OwedFor, Owed, TotalValue, ValueAt
<1>7. r \in Nat /\ s \in Nat /\ owed \in Nat
  BY <1>1, LiquidationNumbers DEF TotalValue, ValueAt
<1>8. ~Healing(acc) => value(out) <= owed
  BY <1>1, <1>2, PaidOut
<1>9. Healing(acc) => owing(acc.borrowed) > value(acc.tokens)
  <2>1. \A x \in Assets \ Counted(acc) : acc.tokens[x] = 0
    BY <1>1, SettledIsCounted
  <2>2. TotalValue(acc.tokens, Counted(acc)) = value(acc.tokens)
    <3>1. ValueAt(price, acc.tokens, Counted(acc)) = ValueAt(price, acc.tokens, Assets)
      BY <1>1, <2>1, ValueOnSupport
    <3>. QED BY <3>1 DEF TotalValue, ValueAt
  <2>. QED BY <2>2, <1>4 DEF Healing
<1> HIDE DEF left, out, settled, owed
<1>10. /\ new \in Tokens
       /\ \A x \in Assets : settled.tokens[x] = new[x] + out[x]
  <2>1. new \in Tokens /\ \A x \in Assets : new[x] = settled.tokens[x] - out[x]
    BY <1>2, <1>5, MinusTyped
  <2>. QED BY <2>1, <1>2, <1>5 DEF Tokens
<1> HIDE DEF new
<1>11. value(settled.tokens) = value(new) + value(out)
  BY <1>1, <1>2, <1>10, ValueMoves DEF Tokens
<1>12. value(new) \in Nat /\ value(out) \in Nat /\ value(acc.tokens) \in Nat
  BY <1>1, <1>2, <1>10, ValueNat DEF Tokens
<1>13. owing(left) \in Nat /\ owing(acc.borrowed) \in Nat
  <2>1. left \in Debts /\ acc.borrowed \in Debts
    BY <1>1, RepaidWithin, AccountParts DEF left
  <2>. QED BY <2>1, <1>1, ValueNat, PrimeAccountAssumption DEF Debts
<1> DEFINE b == (r * bonus) \div 1000
<1>14. b \in Nat
  <2> DEFINE p == r * bonus
  <2>1. p \in Nat
    BY <1>7, MulNat
  <2> HIDE DEF p
  <2>2. p \div 1000 \in Nat
    BY <2>1
  <2>. QED BY <2>2 DEF p
<1>15. Debt(account[a].borrowed) - Debt(account[a].borrowed)' = r
  BY <1>4, <1>5, <1>7, <1>13
<1> DEFINE before == value(acc.tokens)
           after == value(new)
           gone == value(out)
           debt == owing(acc.borrowed)
           rest == owing(left)
           kept == value(settled.tokens)
<1>16. /\ Equity(a) = before - debt /\ Equity(a)' = after - rest
       /\ kept + r = before + s /\ rest + r = debt /\ kept = after + gone
       /\ owed = s + b
       /\ Healing(acc) => debt > before /\ rest = 0
       /\ ~Healing(acc) => gone <= owed
  BY <1>2, <1>4, <1>5, <1>6, <1>8, <1>9, <1>11
<1>17. /\ before \in Nat /\ after \in Nat /\ gone \in Nat /\ debt \in Nat /\ rest \in Nat
       /\ r \in Nat /\ s \in Nat /\ b \in Nat
  BY <1>7, <1>12, <1>13, <1>14
<1>18. kept \in Nat
  BY <1>16, <1>17
<1> HIDE DEF before, after, gone, debt, rest, kept, r, s, b
<1>19. Equity(a)' >= Equity(a) - b
  <2>1. CASE Healing(acc)
    BY <2>1, <1>16, <1>17
  <2>2. CASE ~Healing(acc)
    BY <2>2, <1>16, <1>17, <1>18
  <2>. QED BY <2>1, <2>2
<1>. QED BY <1>15, <1>19 DEF b

\* A liquidation costs the account at most the bonus on the debt that it repays,
\* whatever the liquidator supplies and whichever assets are paid out: for any
\* prices, debts, coverage and bonus, with every division rounding down.
THEOREM LiquidationFair == Spec => LiquidationIsFair
<1>1. ASSUME IInv, NEW a \in Accounts \ alarms, NEW repay \in Repayments,
             NEW bonus \in {0, MAX_LIQUIDATION_BONUS}, NEW unprofitable \in BOOLEAN,
             Liquidate(a, repay, bonus, unprofitable),
             \A x \in PoolAssets :
                repay[x] > account[a].borrowed[x] => x \in Counted(account[a])
      PROVE  LET repaid == Debt(account[a].borrowed) - Debt(account[a].borrowed)'
             IN Equity(a)' >= Equity(a) - (repaid * bonus) \div 1000
  <2>1. bonus \in Nat
    BY PrimeAccountAssumption
  <2>. QED BY <1>1, <2>1, LiquidationIsFairly
<1>2. IInv => [\A a \in Accounts \ alarms, repay \in Repayments,
                  bonus \in {0, MAX_LIQUIDATION_BONUS}, unprofitable \in BOOLEAN :
        (/\ Liquidate(a, repay, bonus, unprofitable)
         /\ \A x \in PoolAssets :
                repay[x] > account[a].borrowed[x] => x \in Counted(account[a]))
        => LET repaid == Debt(account[a].borrowed) - Debt(account[a].borrowed)'
           IN Equity(a)' >= Equity(a) - (repaid * bonus) \div 1000]_vars
  BY <1>1
<1>. QED BY <1>2, AlwaysIInv, PTL DEF LiquidationIsFair
==============================================================================
