----------------------------- MODULE SumLemmas ------------------------------
(***************************************************************************)
(* Products, quotients and sums over finite sets.                          *)
(*                                                                         *)
(* A sum is, in the community modules, a fold that takes an arbitrary      *)
(* element out of the set until none is left.  The library's induction     *)
(* theorems take an operator as a parameter, which no installed prover can *)
(* instantiate, so the induction is done here by hand, with a smallest     *)
(* counterexample: a collection of finite sets has a minimal one (the      *)
(* strict subset ordering is well founded).                                *)
(*                                                                         *)
(* What the other modules cite of sums are the facts at the end: what type *)
(* a sum has, that equal terms give equal sums, that any element can be    *)
(* taken out, and what one changed term, or terms that grow, do to the sum.*)
(***************************************************************************)
EXTENDS Integers, FiniteSets, Functions, FiniteSetTheorems, WellFoundedInduction, TLAPS

-----------------------------------------------------------------------------
(* Products and quotients: what the provers find only one at a time *)

LEMMA DivNat == ASSUME NEW a \in Nat, NEW p \in Nat \ {0} PROVE a \div p \in Nat
BY SMT

LEMMA DivGE ==
    ASSUME NEW a \in Nat, NEW b \in Nat, NEW p \in Nat \ {0}, a >= b * p
    PROVE  a \div p >= b
BY SMT

LEMMA DivLE ==
    ASSUME NEW a \in Nat, NEW p \in Nat \ {0}
    PROVE  (a \div p) * p <= a
BY SMT

LEMMA DivExact ==
    ASSUME NEW b \in Nat, NEW p \in Nat \ {0}
    PROVE  (b * p) \div p = b
BY SMT

LEMMA DivMonotone ==
    ASSUME NEW a \in Nat, NEW b \in Nat, NEW p \in Nat \ {0}, a <= b
    PROVE  a \div p <= b \div p
BY SMT

LEMMA MulMonotone ==
    ASSUME NEW a \in Nat, NEW b \in Nat, NEW c \in Nat, a <= b
    PROVE  c * a <= c * b
BY SMT

LEMMA MulNat == ASSUME NEW a \in Nat, NEW b \in Nat PROVE a * b \in Nat
BY SMT

LEMMA DivAtMost ==
    ASSUME NEW a \in Nat, NEW b \in Nat, NEW p \in Nat \ {0}, a <= b * p
    PROVE  a \div p <= b
BY SMT

-----------------------------------------------------------------------------
(* The recursion of a sum *)

\* The element the fold takes out next.
Chosen(s) == CHOOSE x \in s : TRUE

\* The recursive function of the fold: what its definition says of it, ...
Body(f, S, iter) ==
    [s \in SUBSET S |-> IF s = {} THEN 0 ELSE f[Chosen(s)] + iter[s \ {Chosen(s)}]]

\* ... and the function itself.
Iter(f, S) == CHOOSE iter : iter = Body(f, S, iter)

\* A sum over a set is the value of that function at the set.
LEMMA SumIsIter ==
    ASSUME NEW f, NEW S
    PROVE  SumFunctionOnSet(f, S) = Iter(f, S)[S]
BY Zenon DEF SumFunctionOnSet, FoldFunctionOnSet, MapThenFoldSet, Iter, Body, Chosen

\* The principle of every induction below: of subsets of a finite set, some one
\* contains no other.
LEMMA SmallestSet ==
    ASSUME NEW S, IsFiniteSet(S), NEW TT, TT # {}, \A T \in TT : T \subseteq S
    PROVE  \E T \in TT : \A U \in TT : U \subseteq T => U = T
<1>1. TT \subseteq FiniteSubsetsOf(S)
  BY FS_Subset DEF FiniteSubsetsOf
<1>2. IsWellFoundedOn(StrictSubsetOrdering(S), FiniteSubsetsOf(S))
  BY FS_StrictSubsetOrderingWellFounded, Zenon
<1>3. PICK T \in TT : \A U \in TT : ~ (<<U, T>> \in StrictSubsetOrdering(S))
  BY <1>1, <1>2, WFMin, Zenon
<1>4. QED
  BY <1>3 DEF StrictSubsetOrdering

\* And so there is a smallest number in every set of natural numbers.
LEMMA SmallestNumber ==
    ASSUME NEW N \in SUBSET Nat, N # {}
    PROVE  \E m \in N : \A k \in N : m <= k
<1>1. PICK n \in N : TRUE
  OBVIOUS
<1> DEFINE TT == {0..k : k \in N \cap 0..n}
<1>2. /\ 0..n \in TT
      /\ \A T \in TT : T \subseteq 0..n
  <2>1. \A k \in N \cap 0..n : 0..k \subseteq 0..n
    OBVIOUS
  <2>2. n \in N \cap 0..n
    OBVIOUS
  <2>3. QED
    BY <2>1, <2>2
<1>3. PICK T \in TT : \A U \in TT : U \subseteq T => U = T
  <2>1. IsFiniteSet(0..n)
    BY FS_Interval
  <2> HIDE DEF TT
  <2> QED BY <1>2, <2>1, SmallestSet
<1>4. PICK m \in N \cap 0..n : T = 0..m
  OBVIOUS
<1>5. ASSUME NEW k \in N, k < m PROVE FALSE
  <2>1. 0..k \in TT /\ 0..k \subseteq 0..m
    BY <1>5
  <2>2. m \in 0..m /\ m \notin 0..k
    BY <1>5
  <2>3. QED
    BY <2>1, <2>2, <1>3, <1>4
<1>6. QED
  BY <1>5

\* g satisfies the recursion on all sets of at most n elements.
Solves(f, S, g, n) ==
    \A s \in SUBSET S : Cardinality(s) <= n => g[s] = Body(f, S, g)[s]

\* A recursive definition only promises something when a function satisfies it: one
\* does, for sets of up to n elements, for every n.
LEMMA IterExists ==
    ASSUME NEW f, NEW S, IsFiniteSet(S)
    PROVE  Iter(f, S) = Body(f, S, Iter(f, S))
<1>0. \A s \in SUBSET S : IsFiniteSet(s) /\ Cardinality(s) \in Nat
  BY FS_Subset, FS_CardinalityType
<1>1. ASSUME NEW s \in SUBSET S, s # {}
      PROVE  /\ Chosen(s) \in s
             /\ s \ {Chosen(s)} \in SUBSET S
             /\ Cardinality(s \ {Chosen(s)}) = Cardinality(s) - 1
             /\ Cardinality(s) > 0
  <2>1. Chosen(s) \in s
    BY <1>1 DEF Chosen
  <2>2. Cardinality(s) # 0
    BY <1>0, <1>1, FS_EmptySet
  <2>3. QED
    BY <2>1, <2>2, <1>0, FS_RemoveElement
<1> DEFINE N == {n \in Nat : ~ \E g : Solves(f, S, g, n)}
<1>2. N = {}
  <2> SUFFICES ASSUME N # {} PROVE FALSE
    OBVIOUS
  <2>1. PICK n \in N : \A k \in N : n <= k
    <3> N \in SUBSET Nat
      OBVIOUS
    <3> HIDE DEF N
    <3> QED BY SmallestNumber
  <2>2. n # 0
    <3> DEFINE g == [s \in SUBSET S |-> 0]
    <3>1. ASSUME NEW s \in SUBSET S, Cardinality(s) <= 0 PROVE s = {}
      BY <1>0, <3>1, FS_EmptySet
    <3>2. Solves(f, S, g, 0)
      BY <3>1 DEF Solves, Body
    <3> QED BY <3>2
  <2>3. PICK g : Solves(f, S, g, n - 1)
    <3>1. n - 1 \in Nat /\ n - 1 \notin N
      BY <2>1, <2>2
    <3> QED BY <3>1
  <2> DEFINE h == Body(f, S, g)
  <2>4. \A s \in SUBSET S : Cardinality(s) <= n - 1 => h[s] = g[s]
    BY <2>3 DEF Solves
  <2>5. Solves(f, S, h, n)
    <3> SUFFICES ASSUME NEW s \in SUBSET S, Cardinality(s) <= n
                 PROVE  h[s] = Body(f, S, h)[s]
      BY Zenon DEF Solves
    <3>1. CASE s = {}
      BY <3>1 DEF Body
    <3>2. CASE s # {}
      <4>1. h[s \ {Chosen(s)}] = g[s \ {Chosen(s)}]
        BY <1>0, <1>1, <2>4, <3>2
      <4>2. h[s] = f[Chosen(s)] + g[s \ {Chosen(s)}]
        BY <3>2 DEF Body
      <4>3. Body(f, S, h)[s] = f[Chosen(s)] + h[s \ {Chosen(s)}]
        BY <3>2 DEF Body
      <4>4. QED
        BY <4>1, <4>2, <4>3, Zenon
    <3>3. QED
      BY <3>1, <3>2
  <2>6. QED
    BY <2>5, <2>1
<1>3. PICK g : Solves(f, S, g, Cardinality(S))
  BY <1>0, <1>2
<1> DEFINE h == Body(f, S, g)
<1>4. \A s \in SUBSET S : h[s] = g[s]
  <2>1. \A s \in SUBSET S : Cardinality(s) <= Cardinality(S)
    BY FS_Subset
  <2>2. QED
    BY <2>1, <1>3 DEF Solves
<1>5. h = Body(f, S, h)
  <2>1. \A s \in SUBSET S : s # {} => s \ {Chosen(s)} \in SUBSET S
    OBVIOUS
  <2>2. QED
    BY <1>4, <2>1 DEF Body
<1>6. QED
  BY <1>5, Zenon DEF Iter

\* The defining equation, at every subset.
Unfolds(f, S, s) ==
    Iter(f, S)[s] = IF s = {} THEN 0
                    ELSE f[Chosen(s)] + Iter(f, S)[s \ {Chosen(s)}]

LEMMA IterUnfolds ==
    ASSUME NEW f, NEW S, IsFiniteSet(S), NEW s \in SUBSET S
    PROVE  Unfolds(f, S, s)
<1> DEFINE iter == Iter(f, S)
<1>1. iter = Body(f, S, iter)
  BY IterExists
<1>2. iter[s] = Body(f, S, iter)[s]
  <2> HIDE DEF iter
  <2> QED BY <1>1
<1>3. QED
  BY <1>2 DEF Body, Unfolds

\* The fold over a set and the fold over a larger one agree where they overlap, when
\* their terms do.
LEMMA IterSame ==
    ASSUME NEW f, NEW g, NEW S, NEW T, IsFiniteSet(S), T \subseteq S,
           \A x \in T : f[x] = g[x]
    PROVE  Iter(f, S)[T] = Iter(g, T)[T]
<1> DEFINE bad == {s \in SUBSET T : Iter(f, S)[s] # Iter(g, T)[s]}
<1>1. IsFiniteSet(T) /\ \A s \in bad : IsFiniteSet(s)
  BY FS_Subset
<1>2. SUFFICES ASSUME bad # {} PROVE FALSE
  OBVIOUS
<1>3. PICK s \in bad : \A u \in bad : u \subseteq s => u = s
  <2>1. \A u \in bad : u \subseteq T
    OBVIOUS
  <2> HIDE DEF bad
  <2> QED BY <1>1, <1>2, <2>1, SmallestSet
<1>4. Unfolds(f, S, s) /\ Unfolds(g, T, s)
  <2>1. s \in SUBSET S /\ s \in SUBSET T
    OBVIOUS
  <2>2. QED
    BY <1>1, <2>1, IterUnfolds, Zenon
<1>5. s # {}
  BY <1>4 DEF Unfolds
<1>6. Chosen(s) \in s
  BY <1>5 DEF Chosen
<1>7. Iter(f, S)[s \ {Chosen(s)}] = Iter(g, T)[s \ {Chosen(s)}]
  BY <1>3, <1>6
<1>8. QED
  BY <1>4, <1>5, <1>6, <1>7 DEF Unfolds

-----------------------------------------------------------------------------
(* Sums *)

\* Equal terms give equal sums: the pool's locks, stakes and exposures are compared
\* term by term.
LEMMA SumSame ==
    ASSUME NEW f, NEW g, NEW S, IsFiniteSet(S), \A x \in S : f[x] = g[x]
    PROVE  SumFunctionOnSet(f, S) = SumFunctionOnSet(g, S)
BY IterSame, SumIsIter

\* Nothing adds up to zero.
LEMMA SumEmpty == \A f : SumFunctionOnSet(f, {}) = 0
<1> TAKE f
<1>1. IsFiniteSet({})
  BY FS_EmptySet
<1>2. QED
  BY <1>1, IterUnfolds, SumIsIter DEF Unfolds

\* A sum without its first element.
LEMMA SumUnfolds ==
    ASSUME NEW f, NEW S, IsFiniteSet(S), S # {}
    PROVE  /\ Chosen(S) \in S
           /\ SumFunctionOnSet(f, S)
                = f[Chosen(S)] + SumFunctionOnSet(f, S \ {Chosen(S)})
<1>1. Chosen(S) \in S
  BY DEF Chosen
<1>2. Iter(f, S)[S \ {Chosen(S)}] = Iter(f, S \ {Chosen(S)})[S \ {Chosen(S)}]
  BY IterSame
<1>3. QED
  BY <1>1, <1>2, SumIsIter, IterUnfolds DEF Unfolds

\* Sums of integers are integers.
LEMMA SumInt ==
    ASSUME NEW f, NEW S, IsFiniteSet(S), \A x \in S : f[x] \in Int
    PROVE  SumFunctionOnSet(f, S) \in Int
<1> DEFINE bad == {s \in SUBSET S : SumFunctionOnSet(f, s) \notin Int}
<1>1. \A s \in bad : IsFiniteSet(s)
  BY FS_Subset
<1>2. SUFFICES ASSUME bad # {} PROVE FALSE
  OBVIOUS
<1>3. PICK s \in bad : \A u \in bad : u \subseteq s => u = s
  <2>1. \A u \in bad : u \subseteq S
    OBVIOUS
  <2> HIDE DEF bad
  <2> QED BY <1>1, <1>2, <2>1, SmallestSet
<1>4. s # {}
  BY SumEmpty
<1>5. /\ Chosen(s) \in s
      /\ SumFunctionOnSet(f, s) = f[Chosen(s)] + SumFunctionOnSet(f, s \ {Chosen(s)})
  BY <1>1, <1>4, SumUnfolds
<1>6. SumFunctionOnSet(f, s \ {Chosen(s)}) \in Int
  BY <1>3, <1>5
<1>7. QED
  BY <1>5, <1>6

\* Any element can be taken out of a sum, not only the one that is chosen.
LEMMA SumWithout ==
    ASSUME NEW f, NEW S, IsFiniteSet(S), \A y \in S : f[y] \in Int, NEW x \in S
    PROVE  SumFunctionOnSet(f, S) = f[x] + SumFunctionOnSet(f, S \ {x})
<1> DEFINE bad == {s \in SUBSET S : \E y \in s :
                     SumFunctionOnSet(f, s) # f[y] + SumFunctionOnSet(f, s \ {y})}
<1>0. \A s \in SUBSET S : IsFiniteSet(s)
  BY FS_Subset
<1>2. SUFFICES ASSUME bad # {} PROVE FALSE
  OBVIOUS
<1>3. PICK s \in bad : \A u \in bad : u \subseteq s => u = s
  <2>1. \A u \in bad : u \subseteq S
    OBVIOUS
  <2> HIDE DEF bad
  <2> QED BY <1>2, <2>1, SmallestSet
<1>4. PICK y \in s : SumFunctionOnSet(f, s) # f[y] + SumFunctionOnSet(f, s \ {y})
  OBVIOUS
<1> DEFINE c == Chosen(s)
<1>5. /\ c \in s
      /\ SumFunctionOnSet(f, s) = f[c] + SumFunctionOnSet(f, s \ {c})
  BY <1>0, <1>4, SumUnfolds
<1> HIDE DEF c
<1>6. c # y
  BY <1>4, <1>5
<1>7. SumFunctionOnSet(f, s \ {c}) = f[y] + SumFunctionOnSet(f, (s \ {c}) \ {y})
  BY <1>3, <1>5, <1>6
<1>8. SumFunctionOnSet(f, s \ {y}) = f[c] + SumFunctionOnSet(f, (s \ {c}) \ {y})
  <2>1. SumFunctionOnSet(f, s \ {y}) = f[c] + SumFunctionOnSet(f, (s \ {y}) \ {c})
    BY <1>3, <1>5, <1>6
  <2>2. (s \ {c}) \ {y} = (s \ {y}) \ {c}
    OBVIOUS
  <2>3. QED
    BY <2>1, <2>2, Zenon
<1> DEFINE rest == SumFunctionOnSet(f, (s \ {c}) \ {y})
<1>9. rest \in Int
  <2>1. IsFiniteSet((s \ {c}) \ {y})
    BY <1>0
  <2>2. QED
    BY <2>1, SumInt
<1>10. f[c] \in Int /\ f[y] \in Int
  BY <1>5
<1>11. f[c] + (f[y] + rest) = f[y] + (f[c] + rest)
  <2> HIDE DEF rest
  <2> QED BY <1>9, <1>10
<1>12. QED
  BY <1>4, <1>5, <1>7, <1>8, <1>11, Zenon

\* Terms that grow make the sum grow.
LEMMA SumAtMost ==
    ASSUME NEW f, NEW g, NEW S, IsFiniteSet(S),
           \A x \in S : f[x] \in Int /\ g[x] \in Int /\ f[x] <= g[x]
    PROVE  SumFunctionOnSet(f, S) <= SumFunctionOnSet(g, S)
<1> DEFINE bad == {s \in SUBSET S :
                     ~ (SumFunctionOnSet(f, s) <= SumFunctionOnSet(g, s))}
<1>0. \A s \in SUBSET S : IsFiniteSet(s)
  BY FS_Subset
<1>2. SUFFICES ASSUME bad # {} PROVE FALSE
  OBVIOUS
<1>3. PICK s \in bad : \A u \in bad : u \subseteq s => u = s
  <2>1. \A u \in bad : u \subseteq S
    OBVIOUS
  <2> HIDE DEF bad
  <2> QED BY <1>2, <2>1, SmallestSet
<1>4. s # {}
  BY SumEmpty
<1>5. PICK x \in s : TRUE
  BY <1>4
<1>6. SumFunctionOnSet(f, s \ {x}) <= SumFunctionOnSet(g, s \ {x})
  BY <1>3
<1>7. /\ SumFunctionOnSet(f, s) = f[x] + SumFunctionOnSet(f, s \ {x})
      /\ SumFunctionOnSet(g, s) = g[x] + SumFunctionOnSet(g, s \ {x})
  BY <1>0, SumWithout
<1>8. SumFunctionOnSet(f, s \ {x}) \in Int /\ SumFunctionOnSet(g, s \ {x}) \in Int
  BY <1>0, SumInt
<1>9. QED
  BY <1>6, <1>7, <1>8

\* One changed term changes the sum by as much.
LEMMA SumChanged ==
    ASSUME NEW f, NEW g, NEW S, IsFiniteSet(S), NEW x \in S,
           \A y \in S : f[y] \in Int /\ g[y] \in Int,
           \A y \in S \ {x} : g[y] = f[y]
    PROVE  SumFunctionOnSet(g, S) = SumFunctionOnSet(f, S) - f[x] + g[x]
<1>1. IsFiniteSet(S \ {x})
  BY FS_Subset
<1>2. SumFunctionOnSet(g, S \ {x}) = SumFunctionOnSet(f, S \ {x})
  BY <1>1, SumSame
<1>3. SumFunctionOnSet(f, S \ {x}) \in Int
  BY <1>1, SumInt
<1>4. QED
  BY <1>2, <1>3, SumWithout

\* Sums are linear in their terms.
LEMMA SumLinear ==
    ASSUME NEW f, NEW g, NEW h, NEW k \in Int, NEW S, IsFiniteSet(S),
           \A x \in S : f[x] \in Int /\ g[x] \in Int /\ h[x] = f[x] + k * g[x]
    PROVE  SumFunctionOnSet(h, S) = SumFunctionOnSet(f, S) + k * SumFunctionOnSet(g, S)
<1> DEFINE Holds(T) ==
        SumFunctionOnSet(h, T) = SumFunctionOnSet(f, T) + k * SumFunctionOnSet(g, T)
           bad == {s \in SUBSET S : ~ Holds(s)}
<1>0. \A s \in SUBSET S : IsFiniteSet(s)
  BY FS_Subset
<1>1. SUFFICES ASSUME bad # {} PROVE FALSE
  OBVIOUS
<1>2. PICK s \in bad : \A u \in bad : u \subseteq s => u = s
  <2>1. \A u \in bad : u \subseteq S
    OBVIOUS
  <2> HIDE DEF bad
  <2> QED BY <1>1, <2>1, SmallestSet
<1>3. s # {}
  <2>1. SumFunctionOnSet(f, {}) = 0 /\ SumFunctionOnSet(g, {}) = 0 /\ SumFunctionOnSet(h, {}) = 0
    BY SumEmpty
  <2>2. 0 = 0 + k * 0
    OBVIOUS
  <2>3. Holds({})
    BY <2>1, <2>2
  <2>. QED BY <2>3
<1>4. PICK x \in s : TRUE
  BY <1>3
<1>5. Holds(s \ {x})
  BY <1>2
<1> DEFINE F == SumFunctionOnSet(f, s \ {x})
           G == SumFunctionOnSet(g, s \ {x})
<1>6. h[x] = f[x] + k * g[x] /\ f[x] \in Int /\ g[x] \in Int /\ k * g[x] \in Int
  OBVIOUS
<1>7. \A y \in S : h[y] \in Int
  <2>1. \A y \in S : k * g[y] \in Int
    OBVIOUS
  <2>. QED BY <2>1
<1>8. /\ SumFunctionOnSet(f, s) = f[x] + F
      /\ SumFunctionOnSet(g, s) = g[x] + G
      /\ SumFunctionOnSet(h, s) = h[x] + SumFunctionOnSet(h, s \ {x})
  BY <1>0, <1>7, SumWithout
<1>9. F \in Int /\ G \in Int
  BY <1>0, SumInt
<1>10. k * (g[x] + G) = k * g[x] + k * G /\ k * G \in Int
  <2> HIDE DEF G
  <2>. QED BY <1>6, <1>9
<1>11. Holds(s)
  <2>1. SumFunctionOnSet(h, s) = (f[x] + k * g[x]) + (F + k * G)
    BY <1>5, <1>6, <1>8
  <2>2. k * SumFunctionOnSet(g, s) = k * g[x] + k * G
    BY <1>8, <1>10
  <2> DEFINE p == k * g[x]
             q == k * G
  <2>3. p \in Int /\ q \in Int /\ F \in Int /\ f[x] \in Int
    BY <1>6, <1>9, <1>10
  <2>4. SumFunctionOnSet(h, s) = (f[x] + p) + (F + q)
    BY <2>1
  <2>5. SumFunctionOnSet(f, s) + k * SumFunctionOnSet(g, s) = (f[x] + F) + (p + q)
    BY <2>2, <1>8
  <2> HIDE DEF p, q, F
  <2>. QED BY <2>3, <2>4, <2>5
<1>. QED BY <1>11

\* A sum of zeros is zero.
LEMMA SumZero ==
    ASSUME NEW f, NEW S, IsFiniteSet(S), \A x \in S : f[x] = 0
    PROVE  SumFunctionOnSet(f, S) = 0
<1>1. \A x \in S : f[x] \in Int /\ f[x] = f[x] + 1 * f[x]
  OBVIOUS
<1>2. SumFunctionOnSet(f, S) = SumFunctionOnSet(f, S) + 1 * SumFunctionOnSet(f, S)
  BY <1>1, SumLinear
<1>. QED BY <1>1, <1>2, SumInt

\* A sum of natural numbers is a natural number.
LEMMA SumNat ==
    ASSUME NEW f, NEW S, IsFiniteSet(S), \A x \in S : f[x] \in Nat
    PROVE  SumFunctionOnSet(f, S) \in Nat
<1> DEFINE zero == [x \in S |-> 0]
<1>1. SumFunctionOnSet(zero, S) = 0
  BY SumZero
<1>2. \A x \in S : zero[x] \in Int /\ f[x] \in Int /\ zero[x] <= f[x]
  OBVIOUS
<1> HIDE DEF zero
<1>3. SumFunctionOnSet(zero, S) <= SumFunctionOnSet(f, S)
  BY <1>2, SumAtMost
<1>4. SumFunctionOnSet(f, S) \in Int
  BY SumInt
<1>. QED BY <1>1, <1>3, <1>4

\* A factor can be taken out of a sum.
LEMMA SumScaled ==
    ASSUME NEW g, NEW h, NEW k \in Int, NEW S, IsFiniteSet(S),
           \A x \in S : g[x] \in Int /\ h[x] = k * g[x]
    PROVE  SumFunctionOnSet(h, S) = k * SumFunctionOnSet(g, S)
<1> DEFINE zero == [x \in S |-> 0]
<1>1. SumFunctionOnSet(zero, S) = 0
  BY SumZero
<1>2. \A x \in S : zero[x] \in Int /\ g[x] \in Int /\ h[x] = zero[x] + k * g[x]
  <2>1. \A x \in S : k * g[x] \in Int
    OBVIOUS
  <2>. QED BY <2>1
<1> HIDE DEF zero
<1>3. SumFunctionOnSet(h, S) = SumFunctionOnSet(zero, S) + k * SumFunctionOnSet(g, S)
  BY <1>2, SumLinear
<1>4. k * SumFunctionOnSet(g, S) \in Int
  BY SumInt
<1>. QED BY <1>1, <1>3, <1>4

\* A sum whose terms change on a part of the set changes by the sum of the changes.
LEMMA SumShifted ==
    ASSUME NEW f, NEW g, NEW d, NEW S, IsFiniteSet(S), NEW T \in SUBSET S,
           \A x \in S : f[x] \in Int,
           \A x \in T : d[x] \in Int,
           \A x \in S : g[x] = IF x \in T THEN f[x] + d[x] ELSE f[x]
    PROVE  SumFunctionOnSet(g, S) = SumFunctionOnSet(f, S) + SumFunctionOnSet(d, T)
<1> DEFINE upto(s) == [x \in S |-> IF x \in s THEN f[x] + d[x] ELSE f[x]]
           Holds(s) == SumFunctionOnSet(upto(s), S)
                         = SumFunctionOnSet(f, S) + SumFunctionOnSet(d, s)
           bad == {s \in SUBSET T : ~ Holds(s)}
<1>0. \A s \in SUBSET T : IsFiniteSet(s)
  BY FS_Subset
<1>1. \A s \in SUBSET T : \A x \in S : upto(s)[x] \in Int
  OBVIOUS
<1>2. SumFunctionOnSet(f, S) \in Int
  BY SumInt
<1>3. bad = {}
  <2> SUFFICES ASSUME bad # {} PROVE FALSE
    OBVIOUS
  <2>1. PICK s \in bad : \A u \in bad : u \subseteq s => u = s
    <3>1. \A u \in bad : u \subseteq T
      OBVIOUS
    <3>2. IsFiniteSet(T)
      BY <1>0
    <3> HIDE DEF bad
    <3> QED BY <3>1, <3>2, SmallestSet
  <2>2. s # {}
    <3>1. \A x \in S : upto({})[x] = f[x]
      OBVIOUS
    <3>2. SumFunctionOnSet(upto({}), S) = SumFunctionOnSet(f, S)
      BY <3>1, SumSame
    <3>. QED BY <3>2, <1>2, SumEmpty
  <2>3. PICK x \in s : TRUE
    BY <2>2
  <2> DEFINE before == upto(s \ {x})
             after == upto(s)
  <2>4. Holds(s \ {x})
    BY <2>1
  <2>5. /\ x \in S /\ f[x] \in Int /\ d[x] \in Int
        /\ \A y \in S : before[y] \in Int /\ after[y] \in Int
        /\ \A y \in S \ {x} : after[y] = before[y]
        /\ before[x] = f[x] /\ after[x] = f[x] + d[x]
    BY <1>1
  <2>6. SumFunctionOnSet(before, S)
          = SumFunctionOnSet(f, S) + SumFunctionOnSet(d, s \ {x})
    BY <2>4
  <2>7. ~ (SumFunctionOnSet(after, S) = SumFunctionOnSet(f, S) + SumFunctionOnSet(d, s))
    OBVIOUS
  <2> HIDE DEF before, after, Holds
  <2>8. SumFunctionOnSet(after, S) = SumFunctionOnSet(before, S) - before[x] + after[x]
    BY <2>5, SumChanged
  <2>9. /\ SumFunctionOnSet(d, s) = d[x] + SumFunctionOnSet(d, s \ {x})
        /\ SumFunctionOnSet(d, s \ {x}) \in Int
    <3>1. IsFiniteSet(s) /\ IsFiniteSet(s \ {x}) /\ \A y \in s : d[y] \in Int
      BY <1>0
    <3>. QED BY <3>1, SumWithout, SumInt
  <2>. QED BY <1>2, <2>5, <2>6, <2>7, <2>8, <2>9
<1>4. Holds(T)
  BY <1>3
<1>5. SumFunctionOnSet(g, S) = SumFunctionOnSet(upto(T), S)
  <2>1. \A x \in S : g[x] = upto(T)[x]
    OBVIOUS
  <2> HIDE DEF upto
  <2>. QED BY <2>1, SumSame
<1>. QED BY <1>4, <1>5

\* What is zero outside a part of a set adds up to the sum over the part.
LEMMA SumOnSupport ==
    ASSUME NEW f, NEW g, NEW S, IsFiniteSet(S), NEW T \in SUBSET S,
           \A x \in T : f[x] \in Int /\ g[x] = f[x],
           \A x \in S \ T : g[x] = 0
    PROVE  SumFunctionOnSet(g, S) = SumFunctionOnSet(f, T)
<1> DEFINE zero == [x \in S |-> 0]
<1>1. SumFunctionOnSet(zero, S) = 0
  BY SumZero
<1>2. /\ \A x \in S : zero[x] \in Int
      /\ \A x \in S : g[x] = IF x \in T THEN zero[x] + f[x] ELSE zero[x]
  OBVIOUS
<1> HIDE DEF zero
<1>3. SumFunctionOnSet(g, S) = SumFunctionOnSet(zero, S) + SumFunctionOnSet(f, T)
  BY <1>2, SumShifted
<1>4. SumFunctionOnSet(f, T) \in Int
  BY FS_Subset, SumInt
<1>. QED BY <1>1, <1>3, <1>4
=============================================================================
