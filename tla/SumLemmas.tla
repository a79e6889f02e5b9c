----------------------------- MODULE SumLemmas -----------------------------
(***************************************************************************)
(* Induction without an operator parameter, and what it gives: the sum of  *)
(* a function over a finite set may be taken in any order, and changes by  *)
(* what the function changes.                                              *)
(*                                                                         *)
(* A property of all numbers is proved by looking at the least number      *)
(* without it, a property of all finite sets through their cardinalities.  *)
(***************************************************************************)
EXTENDS Integers, FiniteSets, Functions, FiniteSetTheorems, WellFoundedInduction, TLAPS

\* Every set of numbers has a least one.
LEMMA LeastNatural ==
  ASSUME NEW T, T \subseteq Nat, T # {}
  PROVE  \E x \in T : \A y \in T : x <= y
<1> DEFINE Below == {ss \in Nat \X Nat : ss[1] < ss[2]}
<1>1. IsWellFoundedOn(Below, Nat)
  BY NatLessThanWellFounded DEF OpToRel
<1>2. PICK x \in T : \A y \in T : ~ (<<y, x>> \in Below)
  <2> HIDE DEF Below
  <2> QED
    BY <1>1, WFMin
<1>3. \A y \in T : ~ (y < x)
  BY <1>2
<1> QED
  BY <1>3

LEMMA Induction ==
  ASSUME NEW S, 0 \in S, \A n \in Nat : n \in S => n + 1 \in S
  PROVE  Nat \subseteq S
<1> SUFFICES ASSUME Nat \ S # {} PROVE FALSE
  OBVIOUS
<1>1. PICK x \in Nat \ S : \A y \in Nat \ S : x <= y
  BY LeastNatural
<1>2. x - 1 \in Nat /\ x - 1 \in S
  BY <1>1
<1> QED
  BY <1>1, <1>2

\* A function over 0..n whose values are made from each other, one after the next.
Runs(f, D, first, n, step) ==
  /\ f \in [0..n -> D]
  /\ f[0] = first
  /\ \A i \in 1..n : f[i] = step[i][f[i - 1]]

\* There is one for every way of making them.
LEMMA Recursion ==
  ASSUME NEW D, NEW first \in D, NEW n \in Nat, NEW step \in [1..n -> [D -> D]]
  PROVE  \E f : Runs(f, D, first, n, step)
<1> DEFINE Upto(m, f) == f[0] = first /\ \A i \in 1..m : f[i] = step[i][f[i - 1]]
           N == {m \in Nat : m <= n => \E f \in [0..m -> D] : Upto(m, f)}
<1>1. 0 \in N
  <2> DEFINE f == [i \in 0..0 |-> first]
  <2>1. f \in [0..0 -> D] /\ Upto(0, f)
    OBVIOUS
  <2> HIDE DEF f
  <2> QED
    BY <2>1
<1>2. ASSUME NEW m \in Nat, m \in N
      PROVE  m + 1 \in N
  <2> SUFFICES ASSUME m + 1 <= n PROVE \E f \in [0..(m + 1) -> D] : Upto(m + 1, f)
    OBVIOUS
  <2>1. PICK f \in [0..m -> D] : Upto(m, f)
    BY <1>2
  <2> DEFINE g == [i \in 0..(m + 1) |-> IF i = m + 1 THEN step[m + 1][f[m]] ELSE f[i]]
  <2>2. step[m + 1][f[m]] \in D
    OBVIOUS
  <2>3. g \in [0..(m + 1) -> D]
    BY <2>2
  <2>4. ASSUME NEW i \in 0..m
        PROVE  g[i] = f[i]
    <3>1. i \in 0..(m + 1) /\ i # m + 1
      OBVIOUS
    <3> QED
      BY <3>1
  <2>5. g[m + 1] = step[m + 1][g[m]]
    <3>1. g[m] = f[m] /\ m + 1 \in 0..(m + 1)
      BY <2>4
    <3> QED
      BY <3>1
  <2> HIDE DEF g
  <2>6. ASSUME NEW i \in 1..m
        PROVE  g[i] = step[i][g[i - 1]]
    <3>1. i \in 0..m /\ i - 1 \in 0..m
      OBVIOUS
    <3>2. g[i] = f[i] /\ g[i - 1] = f[i - 1]
      BY <2>4, <3>1
    <3> QED
      BY <2>1, <3>2
  <2>7. Upto(m + 1, g)
    <3>1. ASSUME NEW i \in 1..(m + 1)
          PROVE  g[i] = step[i][g[i - 1]]
      <4>1. i \in 1..m \/ (i = m + 1 /\ i - 1 = m)
        OBVIOUS
      <4> QED
        BY <2>5, <2>6, <4>1
    <3>2. g[0] = first
      BY <2>1, <2>4
    <3> QED
      BY <3>1, <3>2
  <2> HIDE DEF Upto
  <2> QED
    BY <2>3, <2>7
<1>3. Nat \subseteq N
  <2> HIDE DEF N
  <2> QED
    BY <1>1, <1>2, Induction
<1> QED
  BY <1>3 DEF Runs

----------------------------------------------------------------------------
(* The sums of f over the subsets of S, as FoldFunctionOnSet takes them:   *)
(* one element after the other, in an order of its choice.                 *)

Pick(s) == CHOOSE x \in s : TRUE

Summed(f, sum, s) == IF s = {} THEN 0 ELSE f[Pick(s)] + sum[s \ {Pick(s)}]

IsSum(f, S, sum) == sum = [s \in SUBSET S |-> Summed(f, sum, s)]

Sums(f, S) == CHOOSE sum : IsSum(f, S, sum)

LEMMA PickIn == ASSUME NEW s, s # {} PROVE Pick(s) \in s
BY DEF Pick

\* Induction over the subsets of a finite set, by their size.
LEMMA SizeInduction ==
  ASSUME NEW S, IsFiniteSet(S), NEW Good,
         {} \in Good,
         \A s \in SUBSET S : s # {} /\ (\A t \in SUBSET S : Cardinality(t) < Cardinality(s) => t \in Good)
                               => s \in Good
  PROVE  SUBSET S \subseteq Good
<1> DEFINE N == {n \in Nat : \A s \in SUBSET S : Cardinality(s) <= n => s \in Good}
<1>1. \A s \in SUBSET S : IsFiniteSet(s) /\ Cardinality(s) \in Nat /\ (Cardinality(s) = 0 <=> s = {})
  BY FS_Subset, FS_CardinalityType, FS_EmptySet
<1>2. 0 \in N
  BY <1>1
<1>3. ASSUME NEW n \in Nat, n \in N
      PROVE  n + 1 \in N
  <2> SUFFICES ASSUME NEW s \in SUBSET S, Cardinality(s) <= n + 1
               PROVE  s \in Good
    OBVIOUS
  <2>1. CASE s = {}
    BY <2>1
  <2>2. CASE s # {}
    <3>1. \A t \in SUBSET S : Cardinality(t) < Cardinality(s) => t \in Good
      BY <1>1, <1>3
    <3> QED
      BY <2>2, <3>1
  <2> QED
    BY <2>1, <2>2
<1>4. Nat \subseteq N
  <2> HIDE DEF N
  <2> QED
    BY <1>2, <1>3, Induction
<1> QED
  BY <1>1, <1>4

LEMMA SumsExist ==
  ASSUME NEW S, IsFiniteSet(S), NEW f
  PROVE  \E sum : IsSum(f, S, sum)
<1> DEFINE Upto(n, sum) == \A s \in SUBSET S : Cardinality(s) <= n => sum[s] = Summed(f, sum, s)
           N == {n \in Nat : \E sum : Upto(n, sum)}
<1>1. \A s \in SUBSET S : IsFiniteSet(s) /\ Cardinality(s) \in Nat /\ (Cardinality(s) = 0 <=> s = {})
  BY FS_Subset, FS_CardinalityType, FS_EmptySet
<1>2. 0 \in N
  <2>1. Upto(0, [s \in SUBSET S |-> 0])
    BY <1>1 DEF Summed
  <2> QED
    BY <2>1
<1>3. ASSUME NEW n \in Nat, n \in N
      PROVE  n + 1 \in N
  <2>1. PICK sum : Upto(n, sum)
    BY <1>3
  <2> DEFINE next == [s \in SUBSET S |-> Summed(f, sum, s)]
  <2>2. ASSUME NEW s \in SUBSET S, Cardinality(s) <= n + 1
        PROVE  next[s] = Summed(f, next, s)
    <3>1. CASE s = {}
      BY <3>1 DEF Summed
    <3>2. CASE s # {}
      <4> DEFINE t == s \ {Pick(s)}
      <4>1. t \in SUBSET S /\ Cardinality(t) <= n
        BY <1>1, <2>2, <3>2, PickIn, FS_RemoveElement
      <4>2. next[t] = sum[t]
        BY <2>1, <4>1
      <4> QED
        BY <3>2, <4>2 DEF Summed
    <3> QED
      BY <3>1, <3>2
  <2>3. Upto(n + 1, next)
    BY <2>2
  <2> HIDE DEF next
  <2> QED
    BY <2>3
<1>4. Nat \subseteq N
  <2> HIDE DEF N
  <2> QED
    BY <1>2, <1>3, Induction
<1>5. PICK sum : Upto(Cardinality(S), sum)
  BY <1>1, <1>4
<1> DEFINE all == [s \in SUBSET S |-> Summed(f, sum, s)]
<1>6. \A s \in SUBSET S : sum[s] = Summed(f, sum, s)
  <2>1. \A s \in SUBSET S : Cardinality(s) <= Cardinality(S)
    BY FS_Subset
  <2> QED
    BY <1>5, <2>1
<1>7. \A s \in SUBSET S : all[s] = sum[s]
  BY <1>6
<1>8. ASSUME NEW s \in SUBSET S
      PROVE  Summed(f, sum, s) = Summed(f, all, s)
  BY <1>7 DEF Summed
<1>9. IsSum(f, S, all)
  BY <1>8 DEF IsSum
<1> QED
  BY <1>9

LEMMA SumsAre ==
  ASSUME NEW S, IsFiniteSet(S), NEW f
  PROVE  \A s \in SUBSET S : Sums(f, S)[s] = Summed(f, Sums(f, S), s)
<1>1. IsSum(f, S, Sums(f, S))
  BY SumsExist DEF Sums
<1> QED
  BY <1>1 DEF IsSum

LEMMA SumFunctionIs ==
  ASSUME NEW f
  PROVE  SumFunction(f) = Sums(f, DOMAIN f)[DOMAIN f]
BY DEF SumFunction, SumFunctionOnSet, FoldFunctionOnSet, MapThenFoldSet, Sums, IsSum, Summed, Pick

\* Sums of integers are integers.
LEMMA SumsTyped ==
  ASSUME NEW S, IsFiniteSet(S), NEW f, \A x \in S : f[x] \in Int
  PROVE  \A s \in SUBSET S : Sums(f, S)[s] \in Int
<1> DEFINE sum == Sums(f, S)
           Good == {s \in SUBSET S : sum[s] \in Int}
<1>1. \A s \in SUBSET S : sum[s] = Summed(f, sum, s)
  BY SumsAre
<1> HIDE DEF sum
<1>2. {} \in Good
  BY <1>1 DEF Summed
<1>3. ASSUME NEW s \in SUBSET S, s # {},
             \A t \in SUBSET S : Cardinality(t) < Cardinality(s) => t \in Good
      PROVE  s \in Good
  <2> DEFINE t == s \ {Pick(s)}
  <2>1. t \in SUBSET S /\ Cardinality(t) < Cardinality(s)
    BY <1>3, PickIn, FS_Subset, FS_RemoveElement, FS_CardinalityType
  <2>2. sum[s] = f[Pick(s)] + sum[t] /\ f[Pick(s)] \in Int
    BY <1>1, <1>3, PickIn DEF Summed
  <2> QED
    BY <1>3, <2>1, <2>2
<1>4. SUBSET S \subseteq Good
  <2> HIDE DEF Good
  <2> QED
    BY <1>2, <1>3, SizeInduction
<1> QED
  BY <1>4 DEF sum

\* Any element may be taken first.
LEMMA SumsInAnyOrder ==
  ASSUME NEW S, IsFiniteSet(S), NEW f, \A x \in S : f[x] \in Int
  PROVE  \A s \in SUBSET S, x \in S : x \in s => Sums(f, S)[s] = f[x] + Sums(f, S)[s \ {x}]
<1> DEFINE sum == Sums(f, S)
           Good == {s \in SUBSET S : \A x \in s : sum[s] = f[x] + sum[s \ {x}]}
<1>1. \A s \in SUBSET S : sum[s] = Summed(f, sum, s) /\ sum[s] \in Int
  BY SumsAre, SumsTyped
<1> HIDE DEF sum
<1>2. {} \in Good
  OBVIOUS
<1>3. ASSUME NEW s \in SUBSET S, s # {},
             \A t \in SUBSET S : Cardinality(t) < Cardinality(s) => t \in Good
      PROVE  s \in Good
  <2> SUFFICES ASSUME NEW x \in s PROVE sum[s] = f[x] + sum[s \ {x}]
    OBVIOUS
  <2> DEFINE y == Pick(s)
  <2>1. y \in s /\ sum[s] = f[y] + sum[s \ {y}]
    BY <1>1, <1>3, PickIn DEF Summed
  <2>2. ASSUME NEW z \in s
        PROVE  s \ {z} \in SUBSET S /\ s \ {z} \in Good
    <3>1. s \ {z} \in SUBSET S /\ Cardinality(s \ {z}) < Cardinality(s)
      BY FS_Subset, FS_RemoveElement, FS_CardinalityType
    <3> QED
      BY <1>3, <3>1
  <2> HIDE DEF y
  <2>3. CASE x # y
    <3>1. sum[s \ {y}] = f[x] + sum[(s \ {y}) \ {x}]
      BY <2>1, <2>2, <2>3
    <3>2. sum[s \ {x}] = f[y] + sum[(s \ {x}) \ {y}]
      BY <2>1, <2>2, <2>3
    <3> DEFINE rest == sum[(s \ {x}) \ {y}]
    <3>3. sum[s \ {y}] = f[x] + rest
      <4>1. (s \ {y}) \ {x} = (s \ {x}) \ {y}
        OBVIOUS
      <4> QED
        BY <3>1, <4>1
    <3>4. f[x] \in Int /\ f[y] \in Int /\ rest \in Int
      BY <1>1, <2>1
    <3>5. sum[s \ {x}] = f[y] + rest
      BY <3>2
    <3> HIDE DEF rest, Good
    <3> QED
      BY <2>1, <3>3, <3>4, <3>5
  <2> QED
    BY <2>1, <2>3
<1>4. SUBSET S \subseteq Good
  <2> HIDE DEF Good
  <2> QED
    BY <1>2, <1>3, SizeInduction
<1> QED
  BY <1>4 DEF sum

\* Where two functions agree their sums do.
LEMMA SumsAgree ==
  ASSUME NEW S, IsFiniteSet(S), NEW f, NEW g, NEW T \in SUBSET S, \A x \in T : f[x] = g[x]
  PROVE  Sums(f, S)[T] = Sums(g, S)[T]
<1> DEFINE sum == Sums(f, S)
           other == Sums(g, S)
           Good == {s \in SUBSET T : sum[s] = other[s]}
<1>1. \A s \in SUBSET S : sum[s] = Summed(f, sum, s) /\ other[s] = Summed(g, other, s)
  BY SumsAre
<1> HIDE DEF sum, other
<1>2. {} \in Good
  BY <1>1 DEF Summed
<1>3. ASSUME NEW s \in SUBSET T, s # {},
             \A t \in SUBSET T : Cardinality(t) < Cardinality(s) => t \in Good
      PROVE  s \in Good
  <2> DEFINE t == s \ {Pick(s)}
  <2>1. t \in SUBSET T /\ Cardinality(t) < Cardinality(s)
    BY <1>3, PickIn, FS_Subset, FS_RemoveElement, FS_CardinalityType
  <2>2. sum[s] = f[Pick(s)] + sum[t] /\ other[s] = g[Pick(s)] + other[t] /\ f[Pick(s)] = g[Pick(s)]
    BY <1>1, <1>3, PickIn DEF Summed
  <2> QED
    BY <1>3, <2>1, <2>2
<1>4. SUBSET T \subseteq Good
  <2> HIDE DEF Good
  <2>1. IsFiniteSet(T)
    BY FS_Subset
  <2> QED
    BY <1>2, <1>3, <2>1, SizeInduction
<1> QED
  BY <1>4 DEF sum, other

\* A sum is the same among fewer.
LEMMA SumsWithin ==
  ASSUME NEW S, IsFiniteSet(S), NEW f, NEW T \in SUBSET S
  PROVE  \A s \in SUBSET T : Sums(f, S)[s] = Sums(f, T)[s]
<1> DEFINE sum == Sums(f, S)
           other == Sums(f, T)
           Good == {s \in SUBSET T : sum[s] = other[s]}
<1>1. \A s \in SUBSET T : sum[s] = Summed(f, sum, s) /\ other[s] = Summed(f, other, s)
  <2>1. IsFiniteSet(T)
    BY FS_Subset
  <2>2. \A s \in SUBSET T : other[s] = Summed(f, other, s)
    BY <2>1, SumsAre
  <2>3. \A s \in SUBSET S : sum[s] = Summed(f, sum, s)
    BY SumsAre
  <2> QED
    BY <2>2, <2>3
<1> HIDE DEF sum, other
<1>2. {} \in Good
  BY <1>1 DEF Summed
<1>3. ASSUME NEW s \in SUBSET T, s # {},
             \A t \in SUBSET T : Cardinality(t) < Cardinality(s) => t \in Good
      PROVE  s \in Good
  <2> DEFINE t == s \ {Pick(s)}
  <2>1. t \in SUBSET T /\ Cardinality(t) < Cardinality(s)
    BY <1>3, PickIn, FS_Subset, FS_RemoveElement, FS_CardinalityType
  <2>2. sum[s] = f[Pick(s)] + sum[t] /\ other[s] = f[Pick(s)] + other[t]
    BY <1>1, <1>3, PickIn DEF Summed
  <2> QED
    BY <1>3, <2>1, <2>2
<1>4. SUBSET T \subseteq Good
  <2> HIDE DEF Good
  <2>1. IsFiniteSet(T)
    BY FS_Subset
  <2> QED
    BY <1>2, <1>3, <2>1, SizeInduction
<1> QED
  BY <1>4 DEF sum, other

----------------------------------------------------------------------------
(* What the models use: SumFunction. *)

LEMMA SumOfFunction ==
  ASSUME NEW S, IsFiniteSet(S), NEW f \in [S -> Int]
  PROVE  SumFunction(f) \in Int
BY SumFunctionIs, SumsTyped

LEMMA SumOfZeros ==
  ASSUME NEW S, IsFiniteSet(S), NEW f, f = [x \in S |-> 0]
  PROVE  SumFunction(f) = 0
<1> DEFINE sum == Sums(f, S)
           Good == {s \in SUBSET S : sum[s] = 0}
<1>1. \A s \in SUBSET S : sum[s] = Summed(f, sum, s)
  BY SumsAre
<1>0. SumFunction(f) = sum[S]
  BY SumFunctionIs
<1> HIDE DEF sum
<1>2. {} \in Good
  BY <1>1 DEF Summed
<1>3. ASSUME NEW s \in SUBSET S, s # {},
             \A t \in SUBSET S : Cardinality(t) < Cardinality(s) => t \in Good
      PROVE  s \in Good
  <2> DEFINE t == s \ {Pick(s)}
  <2>1. t \in SUBSET S /\ Cardinality(t) < Cardinality(s)
    BY <1>3, PickIn, FS_Subset, FS_RemoveElement, FS_CardinalityType
  <2>2. sum[s] = f[Pick(s)] + sum[t] /\ f[Pick(s)] = 0
    BY <1>1, <1>3, PickIn DEF Summed
  <2> QED
    BY <1>3, <2>1, <2>2
<1>4. SUBSET S \subseteq Good
  <2> HIDE DEF Good
  <2> QED
    BY <1>2, <1>3, SizeInduction
<1> QED
  BY <1>0, <1>4

LEMMA SumFirst ==
  ASSUME NEW S, IsFiniteSet(S), NEW f \in [S -> Int], NEW a \in S
  PROVE  SumFunction(f) = f[a] + Sums(f, S)[S \ {a}]
<1>1. SumFunction(f) = Sums(f, S)[S]
  BY SumFunctionIs
<1>2. \A s \in SUBSET S, x \in S : x \in s => Sums(f, S)[s] = f[x] + Sums(f, S)[s \ {x}]
  BY SumsInAnyOrder
<1> QED
  BY <1>1, <1>2

\* A sum changes by what one value changes.
LEMMA SumOfChange ==
  ASSUME NEW S, IsFiniteSet(S), NEW f \in [S -> Int], NEW g \in [S -> Int],
         NEW a \in S, \A x \in S \ {a} : g[x] = f[x]
  PROVE  SumFunction(g) = SumFunction(f) + (g[a] - f[a])
<1>1. SumFunction(f) = f[a] + Sums(f, S)[S \ {a}]
  BY SumFirst
<1>2. SumFunction(g) = g[a] + Sums(g, S)[S \ {a}]
  BY SumFirst
<1>3. Sums(f, S)[S \ {a}] = Sums(g, S)[S \ {a}] /\ Sums(f, S)[S \ {a}] \in Int
  BY SumsAgree, SumsTyped
<1> QED
  BY <1>1, <1>2, <1>3

LEMMA SumsOfNaturals ==
  ASSUME NEW S, IsFiniteSet(S), NEW f, \A x \in S : f[x] \in Nat
  PROVE  \A s \in SUBSET S : Sums(f, S)[s] \in Nat
<1> DEFINE sum == Sums(f, S)
           Good == {s \in SUBSET S : sum[s] \in Nat}
<1>1. \A s \in SUBSET S : sum[s] = Summed(f, sum, s)
  BY SumsAre
<1> HIDE DEF sum
<1>2. {} \in Good
  BY <1>1 DEF Summed
<1>3. ASSUME NEW s \in SUBSET S, s # {},
             \A t \in SUBSET S : Cardinality(t) < Cardinality(s) => t \in Good
      PROVE  s \in Good
  <2> DEFINE t == s \ {Pick(s)}
  <2>1. t \in SUBSET S /\ Cardinality(t) < Cardinality(s)
    BY <1>3, PickIn, FS_Subset, FS_RemoveElement, FS_CardinalityType, SMTT(30)
  <2>2. sum[s] = f[Pick(s)] + sum[t] /\ f[Pick(s)] \in Nat
    BY <1>1, <1>3, PickIn DEF Summed
  <2> QED
    BY <1>3, <2>1, <2>2
<1>4. SUBSET S \subseteq Good
  <2> HIDE DEF Good
  <2> QED
    BY <1>2, <1>3, SizeInduction
<1> QED
  BY <1>4 DEF sum

\* A sum of amounts is an amount, and no less than any of them.
LEMMA SumOfNaturals ==
  ASSUME NEW S, IsFiniteSet(S), NEW f \in [S -> Nat]
  PROVE  SumFunction(f) \in Nat /\ \A a \in S : f[a] <= SumFunction(f)
<1>1. \A s \in SUBSET S : Sums(f, S)[s] \in Nat
  BY SumsOfNaturals
<1>2. SumFunction(f) = Sums(f, S)[S]
  BY SumFunctionIs
<1>3. ASSUME NEW a \in S
      PROVE  f[a] <= SumFunction(f)
  <2>1. f \in [S -> Int]
    OBVIOUS
  <2>2. SumFunction(f) = f[a] + Sums(f, S)[S \ {a}]
    BY <2>1, SumFirst
  <2>3. Sums(f, S)[S \ {a}] \in Nat /\ f[a] \in Nat
    BY <1>1
  <2> QED
    BY <2>2, <2>3
<1> QED
  BY <1>1, <1>2, <1>3

LEMMA Distributes ==
  ASSUME NEW p \in Int, NEW x \in Int, NEW y \in Int
  PROVE  p * (x + y) = p * x + p * y /\ p * x \in Int /\ p * y \in Int
OBVIOUS

\* A function within another one and a multiple of a third: so are the sums.
LEMMA SumsWeighed ==
  ASSUME NEW S, IsFiniteSet(S), NEW f \in [S -> Int], NEW g \in [S -> Int], NEW h \in [S -> Int], NEW p \in Int,
         \A x \in S : g[x] <= f[x] + p * h[x]
  PROVE  SumFunction(g) <= SumFunction(f) + p * SumFunction(h)
<1> DEFINE F == Sums(f, S)
           G == Sums(g, S)
           H == Sums(h, S)
           Good == {s \in SUBSET S : G[s] <= F[s] + p * H[s]}
<1>1. \A s \in SUBSET S : F[s] = Summed(f, F, s) /\ G[s] = Summed(g, G, s) /\ H[s] = Summed(h, H, s)
  BY SumsAre
<1>2. \A s \in SUBSET S : F[s] \in Int /\ G[s] \in Int /\ H[s] \in Int
  BY SumsTyped
<1>3. SumFunction(f) = F[S] /\ SumFunction(g) = G[S] /\ SumFunction(h) = H[S]
  BY SumFunctionIs
<1> HIDE DEF F, G, H
<1>4. {} \in Good
  <2>1. F[{}] = 0 /\ G[{}] = 0 /\ H[{}] = 0
    BY <1>1 DEF Summed
  <2> QED
    BY <2>1
<1>5. ASSUME NEW s \in SUBSET S, s # {},
             \A t \in SUBSET S : Cardinality(t) < Cardinality(s) => t \in Good
      PROVE  s \in Good
  <2> DEFINE x == Pick(s)
             t == s \ {x}
  <2>1. t \in SUBSET S /\ Cardinality(t) < Cardinality(s) /\ x \in s
    <3>1. x \in s
      BY <1>5, PickIn
    <3> HIDE DEF x
    <3>2. IsFiniteSet(s)
      BY FS_Subset
    <3>3. Cardinality(t) = Cardinality(s) - 1 /\ Cardinality(s) \in Nat
      BY <3>1, <3>2, FS_RemoveElement, FS_CardinalityType
    <3> QED
      BY <3>1, <3>3
  <2>2. F[s] = f[x] + F[t] /\ G[s] = g[x] + G[t] /\ H[s] = h[x] + H[t]
    BY <1>1, <1>5 DEF Summed
  <2> HIDE DEF x
  <2>3. t \in Good
    BY <1>5, <2>1
  <2>4. f[x] \in Int /\ g[x] \in Int /\ h[x] \in Int /\ F[t] \in Int /\ G[t] \in Int /\ H[t] \in Int
    BY <1>2, <2>1
  <2>5. p * (h[x] + H[t]) = p * h[x] + p * H[t] /\ p * h[x] \in Int /\ p * H[t] \in Int
    BY <2>4, Distributes
  <2>6. g[x] <= f[x] + p * h[x] /\ G[t] <= F[t] + p * H[t]
    BY <2>1, <2>3
  <2> HIDE DEF t
  <2>7. G[s] <= F[s] + p * H[s]
    BY <2>2, <2>4, <2>5, <2>6
  <2> QED
    BY <2>7
<1>6. SUBSET S \subseteq Good
  <2> HIDE DEF Good
  <2> QED
    BY <1>4, <1>5, SizeInduction
<1> QED
  BY <1>3, <1>6

\* The greater function has the greater sum.
LEMMA SumsGrow ==
  ASSUME NEW S, IsFiniteSet(S), NEW f \in [S -> Int], NEW g \in [S -> Int], \A x \in S : g[x] <= f[x]
  PROVE  SumFunction(g) <= SumFunction(f)
<1>1. \A x \in S : g[x] <= f[x] + 0 * f[x]
  OBVIOUS
<1>2. SumFunction(g) <= SumFunction(f) + 0 * SumFunction(f)
  BY <1>1, SumsWeighed
<1> QED
  BY <1>2, SumOfFunction

----------------------------------------------------------------------------
(* Sums along a sequence *)

LEMMA SumOfLast ==
  ASSUME NEW n \in Nat, NEW f \in [1..(n + 1) -> Int], NEW g \in [1..n -> Int], \A i \in 1..n : f[i] = g[i]
  PROVE  SumFunction(f) = SumFunction(g) + f[n + 1] /\ SumFunction(g) \in Int
<1> DEFINE S == 1..(n + 1)
           T == 1..n
<1>1. /\ IsFiniteSet(S) /\ IsFiniteSet(T) /\ T \in SUBSET S /\ n + 1 \in S /\ S \ {n + 1} = T
      /\ f \in [S -> Int] /\ g \in [T -> Int] /\ \A i \in T : f[i] = g[i]
  <2>1. IsFiniteSet(S) /\ IsFiniteSet(T)
    BY FS_Interval
  <2>2. n + 1 \in S /\ S \ {n + 1} = T /\ T \in SUBSET S
    OBVIOUS
  <2> QED
    BY <2>1, <2>2
<1> HIDE DEF S, T
<1>2. SumFunction(f) = f[n + 1] + Sums(f, S)[T]
  BY <1>1, SumFirst
<1>3. Sums(f, S)[T] = Sums(g, T)[T]
  <2>1. T \in SUBSET T /\ T \in SUBSET S /\ IsFiniteSet(S) /\ IsFiniteSet(T) /\ \A i \in T : f[i] = g[i]
    BY <1>1
  <2>2. Sums(f, S)[T] = Sums(f, T)[T]
    BY ONLY <2>1, SumsWithin
  <2>3. Sums(f, T)[T] = Sums(g, T)[T]
    BY ONLY <2>1, SumsAgree
  <2> QED
    BY <2>2, <2>3
<1>4. SumFunction(g) = Sums(g, T)[T]
  BY <1>1, SumFunctionIs
<1>5. SumFunction(g) \in Int /\ f[n + 1] \in Int
  BY <1>1, SumOfFunction
<1> QED
  BY <1>2, <1>3, <1>4, <1>5

\* The sum along a sequence is the sum along its first part and along the rest.
LEMMA SumOfAppended ==
  ASSUME NEW m \in Nat
  PROVE  \A k \in Nat : \A f \in [1..(m + k) -> Int] :
           SumFunction(f) = SumFunction([i \in 1..m |-> f[i]]) + SumFunction([i \in 1..k |-> f[m + i]])
<1> DEFINE Front(f) == [i \in 1..m |-> f[i]]
           Back(f, k) == [i \in 1..k |-> f[m + i]]
           Good(k) == \A f \in [1..(m + k) -> Int] : SumFunction(f) = SumFunction(Front(f)) + SumFunction(Back(f, k))
           N == {k \in Nat : Good(k)}
<1>1. 0 \in N
  <2> SUFFICES ASSUME NEW f \in [1..m -> Int] PROVE SumFunction(f) = SumFunction(Front(f)) + SumFunction(Back(f, 0))
    OBVIOUS
  <2>1. Front(f) = f /\ Back(f, 0) = [x \in {} |-> 0]
    OBVIOUS
  <2>2. SumFunction([x \in {} |-> 0]) = 0
    BY FS_EmptySet, SumOfZeros
  <2>3. SumFunction(f) \in Int
    BY FS_Interval, SumOfFunction
  <2> HIDE DEF Front, Back
  <2> QED
    BY <2>1, <2>2, <2>3
<1>2. ASSUME NEW k \in Nat, k \in N
      PROVE  k + 1 \in N
  <2>0. k + 1 \in Nat
    OBVIOUS
  <2> SUFFICES ASSUME NEW f \in [1..(m + (k + 1)) -> Int]
               PROVE  SumFunction(f) = SumFunction(Front(f)) + SumFunction(Back(f, k + 1))
    <3> HIDE DEF Front, Back
    <3> QED
      BY <2>0
  <2> DEFINE g == [i \in 1..(m + k) |-> f[i]]
  <2>1. m + k \in Nat /\ m + (k + 1) = (m + k) + 1 /\ \A i \in 1..(m + k) : i \in 1..((m + k) + 1)
    OBVIOUS
  <2>2. f \in [1..((m + k) + 1) -> Int] /\ g \in [1..(m + k) -> Int] /\ \A i \in 1..(m + k) : f[i] = g[i]
    BY <2>1
  <2>3. Front(g) = Front(f)
    OBVIOUS
  <2>4. /\ Back(f, k + 1) \in [1..(k + 1) -> Int] /\ Back(g, k) \in [1..k -> Int]
        /\ \A i \in 1..k : Back(f, k + 1)[i] = Back(g, k)[i]
        /\ Back(f, k + 1)[k + 1] = f[(m + k) + 1]
    OBVIOUS
  <2>5. Front(f) \in [1..m -> Int]
    OBVIOUS
  <2>6. SumFunction(g) = SumFunction(Front(g)) + SumFunction(Back(g, k))
    BY <1>2, <2>2
  <2> HIDE DEF g, Front, Back
  <2>7. SumFunction(f) = SumFunction(g) + f[(m + k) + 1] /\ SumFunction(g) \in Int
    BY <2>1, <2>2, SumOfLast
  <2>8. SumFunction(Back(f, k + 1)) = SumFunction(Back(g, k)) + f[(m + k) + 1] /\ SumFunction(Back(g, k)) \in Int
    BY <2>4, SumOfLast
  <2>9. SumFunction(Front(f)) \in Int /\ f[(m + k) + 1] \in Int
    BY <2>1, <2>2, <2>5, FS_Interval, SumOfFunction, SMTT(30)
  <2> QED
    BY <2>3, <2>6, <2>7, <2>8, <2>9
<1>3. Nat \subseteq N
  <2> HIDE DEF N
  <2> QED
    BY <1>1, <1>2, Induction
<1> QED
  BY <1>3
=============================================================================
