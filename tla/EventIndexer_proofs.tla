------------------------ MODULE EventIndexer_proofs ------------------------
(***************************************************************************)
(* The indexer's tables, for any processes, page sizes, backfill and       *)
(* stream of events, and however often processes fail, die, restart and    *)
(* overlap.                                                                *)
(***************************************************************************)
EXTENDS EventIndexer, SumLemmas, TLAPS

----------------------------------------------------------------------------
(* Sequences and sets of numbers *)

LEMMA MinOfPair ==
  ASSUME NEW a \in Int, NEW b \in Int
  PROVE  Min({a, b}) = IF a <= b THEN a ELSE b
BY DEF Min

LEMMA MaxOfPair ==
  ASSUME NEW a \in Int, NEW b \in Int
  PROVE  Max({a, b}) = IF a >= b THEN a ELSE b
BY DEF Max

LEMMA SetOfAppended ==
  ASSUME NEW S, NEW q \in Seq(S), NEW x \in S
  PROVE  /\ Append(q, x) \in Seq(S)
         /\ Len(Append(q, x)) = Len(q) + 1
         /\ ToSet(Append(q, x)) = ToSet(q) \cup {x}
         /\ IsInjective(q) /\ x \notin ToSet(q) => IsInjective(Append(q, x))
<1> DEFINE p == Append(q, x)
           n == Len(q)
<1>1. /\ p \in Seq(S) /\ Len(p) = n + 1 /\ n \in Nat
      /\ DOMAIN p = 1..(n + 1) /\ DOMAIN q = 1..n
      /\ p[n + 1] = x /\ \A i \in 1..n : p[i] = q[i]
  OBVIOUS
<1> HIDE DEF p, n
<1>2. 1..(n + 1) = 1..n \cup {n + 1} /\ n + 1 \notin 1..n
  BY <1>1
<1>3. ToSet(p) = ToSet(q) \cup {x}
  BY <1>1, <1>2 DEF ToSet
<1>4. ASSUME IsInjective(q), x \notin ToSet(q) PROVE IsInjective(p)
  <2>1. \A i \in 1..n : q[i] # x
    BY <1>1, <1>4 DEF ToSet
  <2> QED
    BY <1>1, <1>2, <1>4, <2>1 DEF IsInjective
<1> QED
  BY <1>1, <1>3, <1>4 DEF p, n

IsKept(s, K, upTo) ==
  upTo = [i \in 0..Len(s) |->
            IF i = 0 THEN <<>>
            ELSE IF s[i] \in K THEN Append(upTo[i - 1], s[i])
            ELSE upTo[i - 1]]

KeptUpTo(s, K) == CHOOSE upTo : IsKept(s, K, upTo)

\* What is kept is in the set, and everything is kept only if everything is in it.
LEMMA KeptIs ==
  ASSUME NEW S, NEW s \in Seq(S), NEW K
  PROVE  /\ Kept(s, K) \in Seq(S)
         /\ Len(Kept(s, K)) <= Len(s)
         /\ ToSet(Kept(s, K)) = ToSet(s) \cap K
         /\ Len(Kept(s, K)) = Len(s) => Kept(s, K) = s
         /\ IsInjective(s) => IsInjective(Kept(s, K))
<1> DEFINE n == Len(s)
           next(v, i) == IF s[i] \in K THEN Append(v, s[i]) ELSE v
           step == [i \in 1..n |-> [v \in Seq(S) |-> next(v, i)]]
<1>1. n \in Nat /\ DOMAIN s = 1..n /\ \A i \in 1..n : s[i] \in S
  OBVIOUS
<1>2. \A i \in 1..n, v \in Seq(S) : next(v, i) \in Seq(S)
  BY <1>1
<1> HIDE DEF next
<1>3. step \in [1..n -> [Seq(S) -> Seq(S)]] /\ \A i \in 1..n, v \in Seq(S) : step[i][v] = next(v, i)
  BY <1>2
<1> HIDE DEF step, n
<1>4. PICK f \in [0..n -> Seq(S)] : f[0] = <<>> /\ \A i \in 1..n : f[i] = step[i][f[i - 1]]
  <2> DEFINE D == Seq(S)
             first == <<>>
  <2>1. first \in D /\ n \in Nat /\ step \in [1..n -> [D -> D]]
    BY <1>1, <1>3
  <2> HIDE DEF D, first
  <2>2. \E f : Runs(f, D, first, n, step)
    BY <2>1, Recursion
  <2> QED
    BY <2>2 DEF Runs, D, first
<1>5. \A i \in 0..n : i # 0 => i \in 1..n /\ i - 1 \in 0..n
  BY <1>1
<1>6. f = [i \in 0..n |-> IF i = 0 THEN <<>> ELSE next(f[i - 1], i)]
  <2>1. \A i \in 0..n : i # 0 => f[i] = next(f[i - 1], i)
    BY <1>3, <1>4, <1>5
  <2>2. \A i \in 0..n : f[i] = IF i = 0 THEN <<>> ELSE next(f[i - 1], i)
    BY <1>4, <2>1
  <2>3. f = [i \in 0..n |-> f[i]]
    OBVIOUS
  <2> QED
    BY <2>2, <2>3
<1>7. IsKept(s, K, f)
  BY <1>6 DEF IsKept, next, n
<1> DEFINE g == KeptUpTo(s, K)
<1>8. IsKept(s, K, g)
  BY <1>7 DEF KeptUpTo
<1>9. Kept(s, K) = g[n]
  BY DEF Kept, KeptUpTo, IsKept, n
<1> HIDE DEF g
<1>10. \A i \in 0..n : g[i] = IF i = 0 THEN <<>> ELSE next(g[i - 1], i)
  BY <1>8 DEF IsKept, next, n
<1> DEFINE Seen(i) == {s[j] : j \in 1..i}
           Good(i) == /\ g[i] \in Seq(S)
                      /\ Len(g[i]) <= i
                      /\ ToSet(g[i]) = Seen(i) \cap K
                      /\ Len(g[i]) = i => \A j \in 1..i : g[i][j] = s[j]
                      /\ IsInjective(s) => IsInjective(g[i])
           N == {i \in Nat : i <= n => Good(i)}
<1> HIDE DEF Good
<1>11. 0 \in N
  <2>1. g[0] = <<>> /\ Seen(0) = {}
    BY <1>1, <1>10
  <2>2. /\ ToSet(<<>>) = {} /\ IsInjective(<<>>) /\ Len(<<>>) = 0 /\ <<>> \in Seq(S)
        /\ \A j \in 1..0 : FALSE
    BY DEF ToSet, IsInjective
  <2> HIDE DEF Seen
  <2>3. Seen(0) \cap K = {}
    BY <2>1
  <2>4. Good(0)
    BY <2>1, <2>2, <2>3 DEF Good
  <2> QED
    BY <2>4
<1>12. ASSUME NEW i \in Nat, i \in N PROVE i + 1 \in N
  <2> SUFFICES ASSUME i + 1 <= n PROVE Good(i + 1)
    OBVIOUS
  <2>1. i + 1 \in 0..n /\ i + 1 \in 1..n /\ i + 1 # 0 /\ (i + 1) - 1 = i /\ i <= n
    BY <1>1
  <2>2. g[i + 1] = IF s[i + 1] \in K THEN Append(g[i], s[i + 1]) ELSE g[i]
    BY <1>10, <2>1 DEF next
  <2>3. Good(i)
    BY <1>12, <2>1
  <2>4. Seen(i + 1) = Seen(i) \cup {s[i + 1]}
    <3>1. 1..(i + 1) = 1..i \cup {i + 1}
      OBVIOUS
    <3> QED
      BY <3>1
  <2>5. s[i + 1] \in S
    BY <1>1, <2>1
  <2>6. IsInjective(s) => s[i + 1] \notin Seen(i)
    <3>1. \A j \in 1..i : j \in 1..n /\ j # i + 1
      BY <1>1, <2>1
    <3> QED
      BY <1>1, <2>1, <3>1 DEF IsInjective
  <2> DEFINE x == s[i + 1]
             v == g[i]
  <2>7. CASE x \notin K
    <3>1. g[i + 1] = v /\ Seen(i + 1) \cap K = Seen(i) \cap K
      BY <2>2, <2>4, <2>7
    <3>2. Len(v) \in Nat /\ Len(v) <= i
      BY <2>3 DEF Good
    <3> HIDE DEF Seen, x, v
    <3>3. Len(v) # i + 1 /\ Len(v) <= i + 1
      BY <3>2
    <3> QED
      BY <2>3, <3>1, <3>3 DEF Good, v
  <2>8. CASE x \in K
    <3>1. g[i + 1] = Append(v, x) /\ Seen(i + 1) \cap K = (Seen(i) \cap K) \cup {x}
      BY <2>2, <2>4, <2>8
    <3>2. v \in Seq(S) /\ x \in S /\ Len(v) \in Nat /\ Len(v) <= i
      BY <2>3, <2>5 DEF Good
    <3>3. /\ Append(v, x) \in Seq(S) /\ Len(Append(v, x)) = Len(v) + 1
          /\ ToSet(Append(v, x)) = ToSet(v) \cup {x}
          /\ IsInjective(v) /\ x \notin ToSet(v) => IsInjective(Append(v, x))
      BY <3>2, SetOfAppended
    <3>4. ASSUME Len(Append(v, x)) = i + 1, NEW j \in 1..(i + 1)
          PROVE  Append(v, x)[j] = s[j]
      <4>1. Len(v) = i
        BY <3>2, <3>3, <3>4
      <4>2. \A k \in 1..i : v[k] = s[k]
        BY <2>3, <4>1 DEF Good
      <4>3. CASE j = i + 1
        BY <3>2, <4>1, <4>3
      <4>4. CASE j # i + 1
        <5>1. j \in 1..i
          BY <4>4
        <5>2. Append(v, x)[j] = v[j]
          BY <3>2, <4>1, <5>1
        <5> QED
          BY <4>2, <5>1, <5>2
      <4> QED
        BY <4>3, <4>4
    <3>5. IsInjective(s) => IsInjective(v) /\ x \notin ToSet(v)
      BY <2>3, <2>6 DEF Good
    <3>6. ToSet(v) = Seen(i) \cap K
      BY <2>3 DEF Good
    <3> HIDE DEF Seen, x, v
    <3>7. Len(Append(v, x)) <= i + 1
      BY <3>2, <3>3
    <3> QED
      BY <3>1, <3>3, <3>4, <3>5, <3>6, <3>7 DEF Good
  <2> QED
    BY <2>7, <2>8
<1>13. Nat \subseteq N
  <2> HIDE DEF N
  <2> QED
    BY <1>11, <1>12, Induction
<1>14. Good(n)
  BY <1>1, <1>13
<1>15. Seen(n) = ToSet(s)
  BY <1>1 DEF ToSet
<1>16. ASSUME Len(g[n]) = n PROVE g[n] = s
  <2>1. g[n] \in Seq(S) /\ \A j \in 1..n : g[n][j] = s[j]
    BY <1>14, <1>16 DEF Good
  <2>2. DOMAIN g[n] = 1..n
    BY <1>16, <2>1
  <2> QED
    BY <1>1, <2>1, <2>2
<1> QED
  <2> HIDE DEF Seen
  <2> QED
    BY <1>9, <1>14, <1>15, <1>16 DEF n, Good

----------------------------------------------------------------------------
(* The pages of the reader.  Rows have different events, so the numbers of *)
(* newer rows are 0, 1, 2 ...: as many different numbers as rows.          *)

Above(S, r) == {q \in S : q.event > r.event}

LEMMA RanksFill ==
  ASSUME NEW S, IsFiniteSet(S), \A r \in S : r.event \in Int,
         \A q, r \in S : q.event = r.event => q = r,
         NEW r \in S, NEW k \in Nat, k < Cardinality(S)
  PROVE  \E q \in S : Cardinality(Above(S, q)) = k
<1> DEFINE T == 0..(Cardinality(S) - 1)
           rank == [q \in S |-> Cardinality(Above(S, q))]
<1>1. Cardinality(S) \in Nat /\ IsFiniteSet(T) /\ Cardinality(T) = Cardinality(S)
  <2>1. Cardinality(S) \in Nat /\ 0 \in Int /\ Cardinality(S) - 1 \in Int
    BY FS_CardinalityType
  <2>2. /\ IsFiniteSet(T)
        /\ Cardinality(T) = IF 0 > Cardinality(S) - 1 THEN 0 ELSE (Cardinality(S) - 1) - 0 + 1
    BY <2>1, FS_Interval
  <2> QED
    BY <2>1, <2>2
<1>2. ASSUME NEW q \in S
      PROVE  Cardinality(Above(S, q)) \in T
  <2>1. Above(S, q) \in SUBSET (S \ {q})
    BY DEF Above
  <2>2. IsFiniteSet(S \ {q}) /\ Cardinality(S \ {q}) = Cardinality(S) - 1
    BY FS_RemoveElement
  <2>3. IsFiniteSet(Above(S, q)) /\ Cardinality(Above(S, q)) <= Cardinality(S) - 1
    BY <2>1, <2>2, FS_Subset
  <2> QED
    BY <1>1, <2>3, FS_CardinalityType
<1>3. ASSUME NEW q \in S, NEW t \in S, q.event > t.event
      PROVE  Cardinality(Above(S, q)) < Cardinality(Above(S, t))
  <2>1. Above(S, q) \in SUBSET Above(S, t) /\ q \in Above(S, t) /\ q \notin Above(S, q)
    BY <1>3 DEF Above
  <2>2. Above(S, t) \in SUBSET S
    BY DEF Above
  <2>3. IsFiniteSet(Above(S, t))
    BY <2>2, FS_Subset
  <2>4. /\ Cardinality(Above(S, q)) <= Cardinality(Above(S, t))
        /\ Cardinality(Above(S, q)) # Cardinality(Above(S, t))
    BY <2>1, <2>3, FS_Subset
  <2> QED
    BY <1>2, <2>4
<1>4. rank \in Injection(S, T)
  <2>1. rank \in [S -> T]
    BY <1>2
  <2>2. ASSUME NEW q \in S, NEW t \in S, rank[q] = rank[t]
        PROVE  q = t
    <3>1. ~ (q.event > t.event) /\ ~ (t.event > q.event)
      BY <1>2, <1>3, <2>2
    <3> QED
      BY <3>1
  <2> HIDE DEF rank, T
  <2> QED
    BY <2>1, <2>2 DEF Injection, IsInjective
<1>5. rank \in Surjection(S, T)
  <2> HIDE DEF rank, T
  <2> QED
    BY <1>1, <1>4, FS_Injection
<1>6. k \in T
  BY <1>1
<1>7. PICK q \in S : rank[q] = k
  <2> HIDE DEF rank, T
  <2> QED
    BY <1>5, <1>6 DEF Surjection
<1> QED
  BY <1>7

\* If a row is past the n-th page, the n-th page is full.
LEMMA FullPage ==
  ASSUME NEW S, IsFiniteSet(S), \A r \in S : r.event \in Int,
         \A q, r \in S : q.event = r.event => q = r,
         NEW a \in Nat, NEW b \in Nat, a <= b,
         NEW r \in S, Cardinality(Above(S, r)) >= b
  PROVE  Cardinality({q \in S : Cardinality(Above(S, q)) \in a..(b - 1)}) >= b - a
<1> DEFINE got == {q \in S : Cardinality(Above(S, q)) \in a..(b - 1)}
           ranks == {Cardinality(Above(S, q)) : q \in got}
<1>1. Above(S, r) \in SUBSET S
  BY DEF Above
<1>2. Cardinality(Above(S, r)) <= Cardinality(S) /\ Cardinality(S) \in Nat
      /\ Cardinality(Above(S, r)) \in Nat
  BY <1>1, FS_Subset, FS_CardinalityType
<1>3. a..(b - 1) \subseteq ranks
  <2>1. ASSUME NEW k \in a..(b - 1)
        PROVE  k \in ranks
    <3>1. k \in Nat /\ k < Cardinality(S)
      BY <1>2
    <3>2. PICK q \in S : Cardinality(Above(S, q)) = k
      BY <3>1, RanksFill
    <3> QED
      BY <3>2
  <2> HIDE DEF ranks
  <2> QED
    BY <2>1
<1>4. IsFiniteSet(got) /\ Cardinality(got) \in Nat
  <2>1. got \in SUBSET S
    OBVIOUS
  <2> HIDE DEF got
  <2> QED
    BY <2>1, FS_Subset, FS_CardinalityType
<1>5. IsFiniteSet(ranks) /\ Cardinality(ranks) <= Cardinality(got) /\ Cardinality(ranks) \in Nat
  <2> DEFINE rank == [q \in got |-> Cardinality(Above(S, q))]
  <2>1. rank \in Surjection(got, ranks)
    <3>1. rank \in [got -> ranks] /\ \A k \in ranks : \E q \in got : rank[q] = k
      OBVIOUS
    <3> HIDE DEF rank, ranks, got
    <3> QED
      BY <3>1 DEF Surjection
  <2> HIDE DEF rank, ranks, got
  <2>2. IsFiniteSet(ranks) /\ Cardinality(ranks) <= Cardinality(got)
    BY <1>4, <2>1, FS_Surjection
  <2> QED
    BY <2>2, FS_CardinalityType
<1>6. Cardinality(a..(b - 1)) = b - a
  BY FS_Interval
<1>7. Cardinality(a..(b - 1)) <= Cardinality(ranks)
  <2> HIDE DEF ranks
  <2> QED
    BY <1>3, <1>5, FS_Subset
<1> HIDE DEF got, ranks
<1> QED
  BY <1>4, <1>5, <1>6, <1>7 DEF got

----------------------------------------------------------------------------
(* The inductive invariant *)

Row == [token : Nat, event : Nat]

Named(e) == [token |-> e, event |-> e]

Asking(p) == stage[p] \in {"fetch", "store"}

TypeInv ==
  /\ chain \in Seq(Kinds) /\ Len(chain) <= MaxEvents
  /\ rows \in Seq(Row)
  /\ derived \in [1..MaxEvents -> Nat]
  /\ cursor \in Nat \cup {None} /\ origin \in Nat
  /\ overlapped \in {"never", "first", "later"}
  /\ stage \in [Processes -> Stages]
  /\ page \in [Processes -> [events : Seq(Nat), from : Nat]]

\* A page asks for events the chain has, and holds those after its cursor.
PagesInv ==
  \A p \in Processes :
    /\ Asking(p) => page[p].from <= Len(chain)
    /\ stage[p] = "store" =>
         /\ Len(page[p].events) > 0
         /\ page[p].from + Len(page[p].events) <= Len(chain)
         /\ \A i \in 1..Len(page[p].events) : page[p].events[i] = page[p].from + i

RowsInv ==
  \A i, j \in 1..Len(rows) :
    rows[i].token = rows[i].event /\ (rows[i].token = rows[j].token => i = j)

Covered(upTo) ==
  \A e \in (origin + 1)..upTo : chain[e] = "failed" \/ Named(e) \in ToSet(rows)

\* Nothing is missing behind the cursor, nor behind a page that is being
\* fetched or stored: the page may have been asked for at a cursor that another
\* process has since moved, forth or back.
CoverInv ==
  /\ cursor # None => cursor <= Len(chain)
  /\ cursor = None => overlapped # "later"
  /\ overlapped # "first" /\ cursor # None =>
       /\ origin <= cursor /\ Covered(cursor)
       /\ \A p \in Processes : Asking(p) => origin <= page[p].from /\ Covered(page[p].from)

\* A process that has always been alone stores the page after the cursor.
AloneInv ==
  overlapped = "never" =>
    /\ \A p, q \in Processes : stage[p] # "down" /\ stage[q] # "down" => p = q
    /\ cursor # None => \A p \in Processes : Asking(p) => page[p].from = cursor

DerivedInv ==
  overlapped = "never" => \A e \in 1..MaxEvents :
    derived[e] = IF e <= Len(chain) /\ chain[e] = "typed" /\ cursor # None /\ origin < e /\ e <= cursor
                 THEN 1 ELSE 0

\* What the reader has not seen is on the pages before it.
WalkInv ==
  walk # None =>
    /\ walk \in [page : Nat \cup {None}, seen : SUBSET Row, owed : SUBSET Row]
    /\ walk.owed \subseteq ToSet(rows)
    /\ walk.page # None =>
         /\ walk.page > 0
         /\ \A r \in walk.owed \ walk.seen : Cardinality(Newer(r)) >= (walk.page - 1) * PageSize
    /\ walk.page = None => walk.owed \subseteq walk.seen

IndexerInv ==
  TypeInv /\ PagesInv /\ RowsInv /\ CoverInv /\ AloneInv /\ DerivedInv /\ WalkInv

\* Different rows hold different events.
LEMMA FiniteRows ==
  ASSUME IndexerInv
  PROVE  /\ ToSet(rows) \subseteq Row /\ IsFiniteSet(ToSet(rows))
         /\ \A r, q \in ToSet(rows) : r.event = q.event => r = q
<1>1. Len(rows) \in Nat /\ rows \in [1..Len(rows) -> Row]
  BY DEF IndexerInv, TypeInv
<1>2. ToSet(rows) = {rows[i] : i \in 1..Len(rows)}
  BY <1>1 DEF ToSet
<1>3. rows \in Surjection(1..Len(rows), ToSet(rows))
  <2>1. rows \in [1..Len(rows) -> ToSet(rows)] /\ \A r \in ToSet(rows) : \E i \in 1..Len(rows) : rows[i] = r
    BY <1>1, <1>2
  <2> QED
    BY <2>1 DEF Surjection
<1>4. IsFiniteSet(ToSet(rows))
  BY <1>1, <1>3, FS_Interval, FS_Surjection
<1>5. ASSUME NEW r \in ToSet(rows), NEW q \in ToSet(rows), r.event = q.event
      PROVE  r = q
  <2>1. PICK i \in 1..Len(rows), j \in 1..Len(rows) : r = rows[i] /\ q = rows[j]
    BY <1>2
  <2>2. rows[i].token = rows[i].event /\ rows[j].token = rows[j].event
    BY DEF IndexerInv, RowsInv
  <2>3. i = j
    BY <1>5, <2>1, <2>2 DEF IndexerInv, RowsInv
  <2> QED
    BY <2>1, <2>3
<1> QED
  BY <1>1, <1>2, <1>4, <1>5

\* A step that neither touches the tables nor moves a process to a request.
Quiet ==
  /\ UNCHANGED <<chain, tables, overlapped, walk>>
  /\ stage' \in [Processes -> Stages]
  /\ page' \in [Processes -> [events : Seq(Nat), from : Nat]]
  /\ \A p \in Processes :
       /\ stage'[p] \in {"fetch", "store"} => stage'[p] = stage[p] /\ page'[p] = page[p]
       /\ stage'[p] # "down" => stage[p] # "down"

----------------------------------------------------------------------------
(* Each step keeps the invariant *)

LEMMA InitInv == Init => IndexerInv
<1> SUFFICES ASSUME Init PROVE IndexerInv
  OBVIOUS
<1> USE IndexerAssumption DEF Init, Stages, NoPage
<1>1. TypeInv
  BY DEF TypeInv
<1>2. PagesInv /\ RowsInv /\ WalkInv
  BY DEF PagesInv, RowsInv, WalkInv, Asking
<1>3. CoverInv /\ AloneInv /\ DerivedInv
  BY DEF CoverInv, AloneInv, DerivedInv, Asking
<1> QED
  BY <1>1, <1>2, <1>3 DEF IndexerInv

LEMMA QuietKeeps == IndexerInv /\ Quiet => IndexerInv'
<1> SUFFICES ASSUME IndexerInv, Quiet PROVE IndexerInv'
  OBVIOUS
<1>1. UNCHANGED <<chain, rows, derived, cursor, origin, overlapped, walk>>
  BY DEF Quiet, tables
<1>2. TypeInv'
  BY <1>1 DEF IndexerInv, TypeInv, Quiet
<1>3. PagesInv'
  BY <1>1 DEF IndexerInv, PagesInv, Quiet, Asking
<1>4. RowsInv'
  BY <1>1 DEF IndexerInv, RowsInv
<1>5. CoverInv'
  BY <1>1 DEF IndexerInv, CoverInv, Covered, Quiet, Asking
<1>6. AloneInv'
  BY <1>1 DEF IndexerInv, AloneInv, Quiet, Asking
<1>7. DerivedInv'
  BY <1>1 DEF IndexerInv, DerivedInv
<1>8. WalkInv'
  BY <1>1 DEF IndexerInv, WalkInv, Newer
<1> QED
  BY <1>2, <1>3, <1>4, <1>5, <1>6, <1>7, <1>8 DEF IndexerInv

\* Most steps are quiet.
LEMMA QuietSteps ==
  ASSUME IndexerInv, NEW p \in Processes,
         Migrate(p) \/ RecordMigration(p) \/ StartPoller(p) \/ FetchFails(p) \/ Rollback(p)
           \/ Shutdown(p) \/ Exit(p) \/ Crash(p)
  PROVE  Quiet
<1> USE DEF db, procs, Go, Quiet, Stages
<1>0. /\ stage \in [Processes -> Stages]
      /\ page \in [Processes -> [events : Seq(Nat), from : Nat]]
      /\ NoPage \in [events : Seq(Nat), from : Nat]
  BY DEF IndexerInv, TypeInv, NoPage
<1>1. CASE Migrate(p)
  BY <1>0, <1>1 DEF Migrate
<1>2. CASE RecordMigration(p)
  BY <1>0, <1>2 DEF RecordMigration
<1>3. CASE StartPoller(p)
  BY <1>0, <1>3 DEF StartPoller
<1>4. CASE FetchFails(p)
  BY <1>0, <1>4 DEF FetchFails, Reschedule
<1>5. CASE Rollback(p)
  BY <1>0, <1>5 DEF Rollback, Reschedule
<1>6. CASE Shutdown(p)
  BY <1>0, <1>6 DEF Shutdown
<1>7. CASE Exit(p)
  BY <1>0, <1>7 DEF Exit
<1>8. CASE Crash(p)
  BY <1>0, <1>8 DEF Crash
<1> QED
  BY <1>1, <1>2, <1>3, <1>4, <1>5, <1>6, <1>7, <1>8

LEMMA EmitKeeps ==
  ASSUME IndexerInv, NEW kind \in Kinds, Emit(kind)
  PROVE  IndexerInv'
<1>1. /\ UNCHANGED <<rows, derived, cursor, origin, overlapped, stage, page, walk>>
      /\ chain' = Append(chain, kind) /\ Len(chain) < MaxEvents
  BY DEF Emit, db, tables, procs
<1>2. /\ chain \in Seq(Kinds) /\ chain' \in Seq(Kinds)
      /\ Len(chain) \in Nat /\ Len(chain') = Len(chain) + 1
      /\ \A e \in 1..Len(chain) : chain'[e] = chain[e]
  BY <1>1 DEF IndexerInv, TypeInv
<1>3. TypeInv'
  BY <1>1, <1>2, IndexerAssumption DEF IndexerInv, TypeInv
<1>4. PagesInv'
  BY <1>1, <1>2 DEF IndexerInv, TypeInv, PagesInv, Asking
<1>5. RowsInv' /\ AloneInv' /\ WalkInv'
  BY <1>1 DEF IndexerInv, RowsInv, AloneInv, WalkInv, Newer, Asking
<1>6. CoverInv'
  <2> DEFINE Cov(upTo) == \A e \in (origin + 1)..upTo : chain'[e] = "failed" \/ Named(e) \in ToSet(rows)
  <2>1. ASSUME NEW upTo \in Nat, upTo <= Len(chain), Covered(upTo)
        PROVE  Cov(upTo)
    BY <1>1, <1>2, <2>1 DEF Covered, IndexerInv, TypeInv
  <2>2. \A p \in Processes : page[p].from \in Nat
    BY DEF IndexerInv, TypeInv
  <2>3. cursor # None => cursor \in Nat /\ cursor <= Len(chain)
    BY DEF IndexerInv, TypeInv, CoverInv
  <2> HIDE DEF Cov
  <2>4. ASSUME overlapped # "first", cursor # None
        PROVE  /\ origin <= cursor /\ Cov(cursor)
               /\ \A p \in Processes : Asking(p) => origin <= page[p].from /\ Cov(page[p].from)
    <3>1. origin <= cursor /\ Covered(cursor)
      BY <2>4 DEF IndexerInv, CoverInv
    <3>2. ASSUME NEW p \in Processes, Asking(p)
          PROVE  origin <= page[p].from /\ Covered(page[p].from) /\ page[p].from <= Len(chain)
      BY <2>4, <3>2 DEF IndexerInv, CoverInv, PagesInv
    <3> QED
      BY <2>1, <2>2, <2>3, <2>4, <3>1, <3>2
  <2>5. \A p \in Processes : Asking(p)' <=> Asking(p)
    BY <1>1 DEF Asking
  <2>6. cursor = None => overlapped # "later"
    BY DEF IndexerInv, CoverInv
  <2>7. cursor # None => cursor <= Len(chain')
    BY <1>2, <2>3
  <2> QED
    BY <1>1, <2>4, <2>5, <2>6, <2>7 DEF CoverInv, Covered, Cov
<1>7. DerivedInv'
  <2> SUFFICES ASSUME overlapped = "never", NEW e \in 1..MaxEvents
               PROVE  derived[e] = IF e <= Len(chain') /\ chain'[e] = "typed" /\ cursor # None
                                       /\ origin < e /\ e <= cursor
                                   THEN 1 ELSE 0
    BY <1>1 DEF DerivedInv
  <2>1. derived[e] = IF e <= Len(chain) /\ chain[e] = "typed" /\ cursor # None
                           /\ origin < e /\ e <= cursor
                     THEN 1 ELSE 0
    BY DEF IndexerInv, DerivedInv
  <2>2. cursor # None => cursor \in Nat /\ cursor <= Len(chain)
    BY DEF IndexerInv, TypeInv, CoverInv
  <2>3. e <= Len(chain) => chain'[e] = chain[e]
    BY <1>2
  <2> QED
    BY <1>2, <2>1, <2>2, <2>3, IndexerAssumption
<1> QED
  BY <1>3, <1>4, <1>5, <1>6, <1>7 DEF IndexerInv

LEMMA BootKeeps ==
  ASSUME IndexerInv, NEW p \in Processes, Boot(p)
  PROVE  IndexerInv'
<1>1. /\ UNCHANGED <<chain, rows, derived, cursor, origin, page, walk>>
      /\ stage[p] = "down" /\ stage' = [stage EXCEPT ![p] = "migrate"]
      /\ overlapped' = IF overlapped = "first" \/ \A q \in Processes : stage[q] = "down"
                       THEN overlapped
                       ELSE IF cursor = None THEN "first" ELSE "later"
  BY DEF Boot, db, tables, Go
<1>2. stage \in [Processes -> Stages] /\ overlapped \in {"never", "first", "later"}
  BY DEF IndexerInv, TypeInv
<1>3. TypeInv'
  BY <1>1, <1>2 DEF IndexerInv, TypeInv, Stages
<1>4. \A q \in Processes : /\ Asking(q)' => Asking(q)
                           /\ stage'[q] = "store" => stage[q] = "store"
                           /\ q # p => stage'[q] = stage[q]
  BY <1>1, <1>2 DEF Asking
<1>5. PagesInv'
  BY <1>1, <1>4 DEF IndexerInv, PagesInv
<1>6. RowsInv' /\ WalkInv'
  BY <1>1 DEF IndexerInv, RowsInv, WalkInv, Newer
<1>7. CoverInv'
  <2>1. /\ overlapped' # "first" => overlapped # "first"
        /\ cursor = None => overlapped' # "later"
    BY <1>1 DEF IndexerInv, CoverInv
  <2> QED
    BY <1>1, <1>4, <2>1 DEF IndexerInv, CoverInv, Covered
<1>8. AloneInv' /\ DerivedInv'
  <2>1. overlapped' = "never" => overlapped = "never" /\ \A q \in Processes : stage[q] = "down"
    BY <1>1
  <2>2. DerivedInv'
    BY <1>1, <2>1 DEF IndexerInv, DerivedInv
  <2>3. AloneInv'
    BY <1>1, <1>2, <1>4, <2>1 DEF IndexerInv, AloneInv, Asking
  <2> QED
    BY <2>2, <2>3
<1> QED
  BY <1>3, <1>5, <1>6, <1>7, <1>8 DEF IndexerInv

LEMMA PollKeeps ==
  ASSUME IndexerInv, NEW p \in Processes, Poll(p)
  PROVE  IndexerInv'
<1>1. PICK from \in IF cursor # None THEN {cursor} ELSE {0, Max({0, Len(chain) - Backfill})} :
        page' = [page EXCEPT ![p] = [events |-> <<>>, from |-> from]]
  BY DEF Poll
<1>2. /\ UNCHANGED <<chain, rows, derived, cursor, origin, overlapped, walk>>
      /\ stage[p] = "timer" /\ stage' = [stage EXCEPT ![p] = "fetch"]
  BY DEF Poll, db, tables, Go
<1>3. TypeInv /\ CoverInv /\ Len(chain) \in Nat
  BY DEF IndexerInv, TypeInv
<1>4. from \in Nat /\ from <= Len(chain) /\ (cursor # None => from = cursor)
  <2>1. CASE cursor # None
    BY <1>3, <2>1 DEF TypeInv, CoverInv
  <2>2. CASE cursor = None
    <3>1. Max({0, Len(chain) - Backfill}) = IF 0 >= Len(chain) - Backfill THEN 0 ELSE Len(chain) - Backfill
      BY <1>3, IndexerAssumption, MaxOfPair
    <3>2. from = 0 \/ from = Max({0, Len(chain) - Backfill})
      BY <2>2
    <3> HIDE DEF Max
    <3> QED
      BY <1>3, <2>2, <3>1, <3>2, IndexerAssumption
  <2> QED
    BY <2>1, <2>2
<1>5. /\ stage \in [Processes -> Stages] /\ page \in [Processes -> [events : Seq(Nat), from : Nat]]
      /\ stage'[p] = "fetch" /\ page'[p].from = from
      /\ \A q \in Processes : q # p => stage'[q] = stage[q] /\ page'[q] = page[q]
  BY <1>1, <1>2, <1>3 DEF TypeInv
<1> HIDE DEF Max
<1>6. TypeInv'
  <2>1. [events |-> <<>>, from |-> from] \in [events : Seq(Nat), from : Nat]
    BY <1>4
  <2> QED
    BY <1>1, <1>2, <1>3, <2>1 DEF TypeInv, Stages
<1>7. PagesInv'
  BY <1>2, <1>4, <1>5 DEF IndexerInv, PagesInv, Asking
<1>8. RowsInv' /\ WalkInv' /\ DerivedInv'
  BY <1>2 DEF IndexerInv, RowsInv, WalkInv, Newer, DerivedInv
<1>9. CoverInv'
  <2>1. ASSUME overlapped # "first", cursor # None, NEW q \in Processes, Asking(q)'
        PROVE  origin <= page'[q].from
               /\ \A e \in (origin + 1)..page'[q].from : chain[e] = "failed" \/ Named(e) \in ToSet(rows)
    <3>1. CASE q = p
      BY <1>3, <1>4, <1>5, <2>1, <3>1 DEF CoverInv, Covered
    <3>2. CASE q # p
      BY <1>3, <1>5, <2>1, <3>2 DEF CoverInv, Covered, Asking
    <3> QED
      BY <3>1, <3>2
  <2> QED
    BY <1>2, <1>3, <2>1 DEF CoverInv, Covered
<1>10. AloneInv'
  BY <1>2, <1>4, <1>5 DEF IndexerInv, AloneInv, Asking
<1> QED
  BY <1>6, <1>7, <1>8, <1>9, <1>10 DEF IndexerInv

LEMMA FetchKeeps ==
  ASSUME IndexerInv, NEW p \in Processes, Fetch(p)
  PROVE  IndexerInv'
<1> DEFINE from == page[p].from
           upto == Min({Len(chain), from + Limit})
           found == [i \in 1..(upto - from) |-> from + i]
<1>1. TypeInv /\ Len(chain) \in Nat /\ from \in Nat /\ stage[p] = "fetch"
  BY DEF IndexerInv, TypeInv, Fetch
<1>2. from <= Len(chain)
  BY <1>1 DEF IndexerInv, PagesInv, Asking
<1>3. upto \in Nat /\ from <= upto /\ upto <= Len(chain)
  <2>1. upto = IF Len(chain) <= from + Limit THEN Len(chain) ELSE from + Limit
    <3>1. Len(chain) \in Int /\ from + Limit \in Int
      BY <1>1, IndexerAssumption
    <3> QED
      BY <3>1, MinOfPair
  <2> HIDE DEF upto
  <2> QED
    BY <1>1, <1>2, <2>1, IndexerAssumption
<1>4. /\ UNCHANGED <<chain, rows, derived, cursor, origin, overlapped, walk>>
      /\ IF found = <<>>
         THEN stage' = [stage EXCEPT ![p] = "timer"] /\ page' = [page EXCEPT ![p] = NoPage]
         ELSE stage' = [stage EXCEPT ![p] = "store"] /\ page' = [page EXCEPT ![p].events = found]
  BY DEF Fetch, db, tables, Go, Reschedule
<1> HIDE DEF upto, from
<1>5. found \in Seq(Nat) /\ Len(found) = upto - from /\ \A i \in 1..Len(found) : found[i] = from + i
  BY <1>1, <1>3
<1> HIDE DEF found
<1>6. CASE found = <<>>
  <2>1. Quiet
    <3>1. stage' = [stage EXCEPT ![p] = "timer"] /\ page' = [page EXCEPT ![p] = NoPage]
      BY <1>4, <1>6
    <3>2. NoPage \in [events : Seq(Nat), from : Nat]
      BY DEF NoPage
    <3> QED
      BY <1>1, <1>4, <3>1, <3>2 DEF Quiet, tables, TypeInv, Stages
  <2> QED
    BY <2>1, QuietKeeps
<1>7. CASE found # <<>>
  <2>1. /\ stage' = [stage EXCEPT ![p] = "store"] /\ page' = [page EXCEPT ![p].events = found]
        /\ Len(found) > 0
    BY <1>4, <1>5, <1>7
  <2>2. /\ stage'[p] = "store" /\ page'[p].from = from /\ page'[p].events = found
        /\ \A q \in Processes : q # p => stage'[q] = stage[q] /\ page'[q] = page[q]
    BY <1>1, <2>1 DEF TypeInv, from
  <2>3. \A q \in Processes : /\ (Asking(q)' <=> Asking(q)) /\ page'[q].from = page[q].from
                             /\ (stage'[q] # "down" <=> stage[q] # "down")
    BY <1>1, <2>2 DEF Asking, from
  <2>4. TypeInv'
    BY <1>1, <1>4, <1>5, <2>1 DEF TypeInv, Stages
  <2>5. PagesInv'
    <3>1. ASSUME NEW q \in Processes
          PROVE  (stage'[q] = "store" =>
                   /\ Len(page'[q].events) > 0
                   /\ page'[q].from + Len(page'[q].events) <= Len(chain)
                   /\ \A i \in 1..Len(page'[q].events) : page'[q].events[i] = page'[q].from + i)
      <4>1. CASE q = p
        BY <1>1, <1>3, <1>5, <2>1, <2>2, <4>1
      <4>2. CASE q # p
        BY <2>2, <4>2 DEF IndexerInv, PagesInv
      <4> QED
        BY <4>1, <4>2
    <3> QED
      BY <1>4, <2>3, <3>1 DEF IndexerInv, PagesInv
  <2>6. RowsInv' /\ WalkInv' /\ DerivedInv'
    BY <1>4 DEF IndexerInv, RowsInv, WalkInv, Newer, DerivedInv
  <2>7. CoverInv'
    BY <1>4, <2>3 DEF IndexerInv, CoverInv, Covered
  <2>8. AloneInv'
    BY <1>4, <2>3 DEF IndexerInv, AloneInv
  <2> QED
    BY <2>4, <2>5, <2>6, <2>7, <2>8 DEF IndexerInv
<1> QED
  BY <1>6, <1>7

LEMMA WalkStartKeeps == IndexerInv /\ WalkStart => IndexerInv'
<1> SUFFICES ASSUME IndexerInv, WalkStart PROVE IndexerInv'
  OBVIOUS
<1>1. /\ UNCHANGED <<chain, rows, derived, cursor, origin, overlapped, stage, page>>
      /\ walk' = [page |-> 1, seen |-> {}, owed |-> ToSet(rows)]
  BY DEF WalkStart, db, tables, procs
<1>2. TypeInv' /\ PagesInv' /\ RowsInv' /\ CoverInv' /\ AloneInv' /\ DerivedInv'
  BY <1>1 DEF IndexerInv, TypeInv, PagesInv, RowsInv, CoverInv, Covered, AloneInv, DerivedInv, Asking
<1>3. ToSet(rows) \subseteq Row
  BY DEF IndexerInv, TypeInv, ToSet
<1>4. \A r \in ToSet(rows) : Cardinality(Newer(r)) \in Nat
  <2>1. IsFiniteSet(ToSet(rows))
    BY FiniteRows
  <2>2. \A r \in ToSet(rows) : Newer(r) \in SUBSET ToSet(rows)
    BY DEF Newer
  <2> QED
    BY <2>1, <2>2, FS_Subset, FS_CardinalityType
<1>5. WalkInv'
  BY <1>1, <1>3, <1>4, IndexerAssumption DEF WalkInv, Newer
<1> QED
  BY <1>2, <1>5 DEF IndexerInv

LEMMA WalkPageKeeps == IndexerInv /\ WalkPage => IndexerInv'
<1> SUFFICES ASSUME IndexerInv, WalkPage PROVE IndexerInv'
  OBVIOUS
<1> DEFINE n == walk.page
           S == ToSet(rows)
           got == queryEvents(n)
           rank(r) == Cardinality(Newer(r))
<1>1. /\ UNCHANGED <<chain, rows, derived, cursor, origin, overlapped, stage, page>>
      /\ walk # None /\ n # None
      /\ walk' = [walk EXCEPT !.page = IF Cardinality(got) < PageSize THEN None ELSE @ + 1,
                              !.seen = @ \cup got]
  BY DEF WalkPage, db, tables, procs
<1>2. TypeInv' /\ PagesInv' /\ RowsInv' /\ CoverInv' /\ AloneInv' /\ DerivedInv'
  BY <1>1 DEF IndexerInv, TypeInv, PagesInv, RowsInv, CoverInv, Covered, AloneInv, DerivedInv, Asking
<1>3. /\ S \subseteq Row /\ IsFiniteSet(S)
      /\ \A r, q \in S : r.event = q.event => r = q
  BY FiniteRows DEF IndexerInv, TypeInv
<1>4. /\ walk \in [page : Nat \cup {None}, seen : SUBSET Row, owed : SUBSET Row]
      /\ n \in Nat /\ n > 0 /\ walk.owed \subseteq S
      /\ \A r \in walk.owed \ walk.seen : rank(r) >= (n - 1) * PageSize
  BY <1>1 DEF IndexerInv, WalkInv
<1> DEFINE a == (n - 1) * PageSize
           b == n * PageSize
<1>5. a \in Nat /\ b \in Nat /\ b = a + PageSize /\ PageSize \in Nat
  <2>1. PageSize \in Nat /\ n - 1 \in Nat /\ n \in Nat
    BY <1>4, IndexerAssumption
  <2>2. \A x, y \in Nat : x * y \in Nat
    OBVIOUS
  <2>3. \A x, y \in Int : x * y = (x - 1) * y + y
    OBVIOUS
  <2> QED
    BY <2>1, <2>2, <2>3
<1>6. got = {r \in S : rank(r) \in a..(b - 1)}
  BY DEF queryEvents
<1>7. \A r \in S : rank(r) \in Nat /\ Newer(r) = Above(S, r)
  <2>1. \A r \in S : Newer(r) \in SUBSET S
    BY DEF Newer
  <2> QED
    BY <1>3, <2>1, FS_Subset, FS_CardinalityType DEF Newer, Above
<1> HIDE DEF got, a, b, rank, S, n
<1>8. \A r \in walk.owed \ (walk.seen \cup got) : rank(r) >= b
  BY <1>4, <1>5, <1>6, <1>7 DEF a
<1>9. ASSUME Cardinality(got) < PageSize
      PROVE  walk.owed \subseteq walk.seen \cup got
  <2> SUFFICES ASSUME NEW r \in walk.owed \ (walk.seen \cup got) PROVE FALSE
    OBVIOUS
  <2>1. r \in S /\ Cardinality(Above(S, r)) >= b
    BY <1>4, <1>7, <1>8 DEF rank
  <2>2. \A q \in S : q.event \in Int
    BY <1>3 DEF Row
  <2>3. Cardinality({q \in S : Cardinality(Above(S, q)) \in a..(b - 1)}) >= b - a
    BY <1>3, <1>5, <2>1, <2>2, FullPage
  <2>4. got = {q \in S : Cardinality(Above(S, q)) \in a..(b - 1)}
    BY <1>6, <1>7 DEF rank
  <2>5. got \in SUBSET S
    BY <1>6
  <2>6. Cardinality(got) \in Nat
    BY <1>3, <2>5, FS_Subset, FS_CardinalityType
  <2>7. Cardinality(got) >= b - a
    BY <2>3, <2>4
  <2> QED
    BY <1>5, <1>9, <2>6, <2>7
<1>10. WalkInv'
  <2>1. got \subseteq Row
    BY <1>3, <1>6
  <2>2. CASE Cardinality(got) < PageSize
    BY <1>1, <1>4, <1>9, <2>1, <2>2 DEF WalkInv, Newer, S, n
  <2>3. CASE ~ (Cardinality(got) < PageSize)
    <3>1. /\ walk'.page = n + 1 /\ walk'.seen = walk.seen \cup got /\ walk'.owed = walk.owed
          /\ walk' \in [page : Nat \cup {None}, seen : SUBSET Row, owed : SUBSET Row]
      <4>1. walk' = [walk EXCEPT !.page = n + 1, !.seen = @ \cup got]
        BY <1>1, <2>3 DEF n
      <4>2. n + 1 \in Nat \cup {None} /\ walk.seen \in SUBSET Row /\ walk.owed \in SUBSET Row
        BY <1>4
      <4>3. walk.seen \cup got \in SUBSET Row
        BY <2>1, <4>2
      <4>4. walk' = [page |-> n + 1, seen |-> walk.seen \cup got, owed |-> walk.owed]
        BY <1>4, <4>1
      <4> QED
        BY <4>2, <4>3, <4>4
    <3>2. n + 1 # None /\ n + 1 > 0 /\ ((n + 1) - 1) = n
      BY <1>4, IndexerAssumption
    <3>3. \A r \in walk.owed \ (walk.seen \cup got) : Cardinality(Newer(r)) >= ((n + 1) - 1) * PageSize
      BY <1>8, <3>2 DEF rank, b
    <3>4. \A r : Newer(r)' = Newer(r)
      BY <1>1 DEF Newer
    <3> QED
      BY <1>1, <1>4, <3>1, <3>2, <3>3, <3>4 DEF WalkInv, S
  <2> QED
    BY <2>2, <2>3
<1> QED
  BY <1>2, <1>10 DEF IndexerInv

\* A batch that does not throw writes exactly the events of its page.
LEMMA BatchIs ==
  ASSUME IndexerInv, NEW p \in Processes, stage[p] = "store", ~ Throws(p)
  PROVE  /\ page[p].from \in Nat /\ Len(page[p].events) \in Nat \ {0}
         /\ page[p].from + Len(page[p].events) <= Len(chain)
         /\ Last(page[p].events) = page[p].from + Len(page[p].events)
         /\ Written(p) \in Seq(Row) /\ IsInjective(Written(p))
         /\ Len(Written(p)) = Len(page[p].events)
         /\ \A i \in 1..Len(page[p].events) : Written(p)[i] = Named(page[p].from + i)
<1> DEFINE evs == page[p].events
           from == page[p].from
           n == Len(evs)
<1>1. evs \in Seq(Nat) /\ from \in Nat /\ n \in Nat
  BY DEF IndexerInv, TypeInv
<1>2. n > 0 /\ from + n <= Len(chain) /\ \A i \in 1..n : evs[i] = from + i
  BY DEF IndexerInv, PagesInv
<1>3. parseEvents(evs) = evs
  <2> DEFINE K == {e \in 1..Len(chain) : chain[e] # "failed"}
  <2>1. ~ (Len(Kept(evs, K)) < n)
    BY DEF Throws, parseEvents
  <2> HIDE DEF K
  <2>2. /\ Kept(evs, K) \in Seq(Nat) /\ Len(Kept(evs, K)) <= n
        /\ Len(Kept(evs, K)) = n => Kept(evs, K) = evs
    BY <1>1, KeptIs
  <2>3. Len(Kept(evs, K)) \in Nat
    BY <2>2
  <2>4. Len(Kept(evs, K)) = n
    BY <1>1, <2>1, <2>2, <2>3
  <2> QED
    BY <2>2, <2>4 DEF parseEvents, K
<1> DEFINE new == Written(p)
<1>4. new = [i \in 1..n |-> [token |-> evs[i], event |-> evs[i]]]
  BY <1>3 DEF Written
<1> HIDE DEF evs, from, n, new
<1>5. /\ new \in Seq(Row) /\ Len(new) = n /\ DOMAIN new = 1..n
      /\ \A i \in 1..n : new[i] = Named(from + i)
  <2>1. \A i \in 1..n : [token |-> evs[i], event |-> evs[i]] = Named(from + i) /\ Named(from + i) \in Row
    BY <1>1, <1>2 DEF Named, Row
  <2>2. new = [i \in 1..n |-> Named(from + i)]
    BY <1>4, <2>1
  <2> HIDE DEF Named
  <2>3. new \in [1..n -> Row] /\ \A i \in 1..n : new[i] = Named(from + i)
    BY <2>1, <2>2
  <2>4. new \in Seq(Row) /\ DOMAIN new = 1..n
    BY <1>1, <2>3
  <2> QED
    BY <1>1, <2>3, <2>4
<1>6. IsInjective(new)
  <2>1. \A i, j \in 1..n : Named(from + i) = Named(from + j) => i = j
    <3>1. ASSUME NEW i \in 1..n, NEW j \in 1..n, Named(from + i) = Named(from + j) PROVE i = j
      <4>1. Named(from + i).event = from + i /\ Named(from + j).event = from + j
        BY DEF Named
      <4> QED
        BY <1>1, <3>1, <4>1
    <3> QED
      BY <3>1
  <2> QED
    BY <1>5, <2>1 DEF IsInjective
<1>7. Last(evs) = from + n
  <2>1. n \in 1..n
    BY <1>1, <1>2
  <2> QED
    BY <1>2, <2>1 DEF Last, n
<1> QED
  BY <1>1, <1>2, <1>5, <1>6, <1>7 DEF evs, from, n, new

\* ON CONFLICT DO NOTHING: afterwards every token of the batch has one row.
LEMMA UpsertedSound ==
  ASSUME IndexerInv, NEW new \in Seq(Row), IsInjective(new),
         \A r \in ToSet(new) : r.token = r.event, upsertEvent(new)
  PROVE  /\ rows' \in Seq(Row) /\ RowsInv'
         /\ ToSet(rows) \subseteq ToSet(rows') /\ ToSet(new) \subseteq ToSet(rows')
<1> DEFINE K == {r \in ToSet(new) : \A i \in 1..Len(rows) : rows[i].token # r.token}
           kept == Kept(new, K)
           m == Len(rows)
           k == Len(kept)
<1>1. rows' = rows \o kept
  BY DEF upsertEvent
<1> HIDE DEF K
<1>2. kept \in Seq(Row) /\ ToSet(kept) = ToSet(new) \cap K /\ IsInjective(kept)
  BY KeptIs
<1> HIDE DEF kept
<1>3. /\ rows \in Seq(Row) /\ m \in Nat /\ k \in Nat
      /\ rows' \in Seq(Row) /\ Len(rows') = m + k
      /\ \A i \in 1..m : rows'[i] = rows[i]
      /\ \A i \in (m + 1)..(m + k) : i - m \in 1..k /\ rows'[i] = kept[i - m]
  BY <1>1, <1>2 DEF IndexerInv, TypeInv
<1>4. /\ DOMAIN rows = 1..m /\ DOMAIN kept = 1..k /\ DOMAIN rows' = 1..(m + k)
      /\ \A i \in 1..m : i \in 1..(m + k)
      /\ \A i \in 1..k : m + i \in (m + 1)..(m + k) /\ m + i \in 1..(m + k) /\ (m + i) - m = i
      /\ \A i \in 1..(m + k) : i \in 1..m \/ i \in (m + 1)..(m + k)
  BY <1>2, <1>3
<1> HIDE DEF m, k
<1>5. \A i \in 1..k : kept[i] \in ToSet(new) /\ kept[i] \in K
  BY <1>2, <1>4 DEF ToSet
<1>6. ToSet(rows) \subseteq ToSet(rows')
  BY <1>3, <1>4 DEF ToSet
<1>7. ToSet(kept) \subseteq ToSet(rows')
  <2>1. \A i \in 1..k : kept[i] = rows'[m + i]
    BY <1>3, <1>4
  <2> QED
    BY <1>4, <2>1 DEF ToSet
<1>8. \A i, j \in 1..m : rows[i].token = rows[i].event /\ (rows[i].token = rows[j].token => i = j)
  BY DEF IndexerInv, RowsInv, m
<1>9. \A i \in 1..m : rows[i] \in Row
  BY <1>3 DEF m
<1>10. ASSUME NEW r \in ToSet(new) PROVE r \in ToSet(rows')
  <2>1. CASE r \in K
    BY <1>2, <1>7, <2>1
  <2>2. CASE r \notin K
    <3>1. PICK i \in 1..m : rows[i].token = r.token
      BY <2>2 DEF K, m
    <3>2. r \in Row /\ r.token = r.event
      BY DEF ToSet
    <3>3. rows[i] = r
      BY <1>8, <1>9, <3>1, <3>2 DEF Row
    <3>4. rows[i] \in ToSet(rows)
      BY <1>4 DEF ToSet
    <3> QED
      BY <1>6, <3>3, <3>4
  <2> QED
    BY <2>1, <2>2
<1>11. RowsInv'
  <2>1. \A i \in 1..k : /\ kept[i].token = kept[i].event /\ kept[i] \in Row
                        /\ \A j \in 1..m : rows[j].token # kept[i].token
    <3>1. \A r \in ToSet(new) : r \in Row
      BY DEF ToSet
    <3> QED
      BY <1>5, <3>1 DEF K, m
  <2>2. ASSUME NEW i \in 1..k, NEW j \in 1..k, kept[i].token = kept[j].token
        PROVE  i = j
    <3>1. /\ kept[i] \in Row /\ kept[j] \in Row
          /\ kept[i].token = kept[j].token /\ kept[i].event = kept[j].event
      BY <2>1, <2>2
    <3>2. \A r, q \in Row : r.token = q.token /\ r.event = q.event => r = q
      BY DEF Row
    <3>3. kept[i] = kept[j]
      BY <3>1, <3>2
    <3> QED
      BY <1>2, <1>4, <3>3 DEF IsInjective
  <2>3. ASSUME NEW i \in 1..(m + k), NEW j \in 1..(m + k)
        PROVE  rows'[i].token = rows'[i].event /\ (rows'[i].token = rows'[j].token => i = j)
    <3>1. CASE i \in 1..m /\ j \in 1..m
      BY <1>3, <1>8, <3>1, SMTT(30)
    <3>2. CASE i \in (m + 1)..(m + k) /\ j \in (m + 1)..(m + k)
      <4>1. i - m \in 1..k /\ rows'[i] = kept[i - m] /\ j - m \in 1..k /\ rows'[j] = kept[j - m]
        BY <1>3, <3>2
      <4>2. rows'[i].token = rows'[j].token => i - m = j - m
        BY <2>2, <4>1
      <4> QED
        BY <1>3, <2>1, <4>1, <4>2
    <3>3. CASE i \in 1..m /\ j \in (m + 1)..(m + k)
      BY <1>3, <1>8, <2>1, <3>3
    <3>4. CASE i \in (m + 1)..(m + k) /\ j \in 1..m
      <4>1. i - m \in 1..k /\ rows'[i] = kept[i - m] /\ rows'[j] = rows[j]
        BY <1>3, <3>4
      <4>2. rows[j].token # kept[i - m].token /\ kept[i - m].token = kept[i - m].event
        BY <2>1, <3>4, <4>1
      <4> QED
        BY <4>1, <4>2
    <3> QED
      BY <1>4, <3>1, <3>2, <3>3, <3>4
  <2> QED
    BY <1>3, <2>3 DEF RowsInv
<1> QED
  BY <1>3, <1>6, <1>10, <1>11

LEMMA CommitKeeps ==
  ASSUME IndexerInv, NEW p \in Processes, Commit(p)
  PROVE  IndexerInv'
<1> DEFINE evs == page[p].events
           from == page[p].from
           n == Len(evs)
           new == Written(p)
<1>1. /\ stage[p] = "store" /\ upsertEvent(new) /\ insertDerived(new)
      /\ cursor' = Last(evs) /\ origin' = IF cursor = None THEN from ELSE origin
      /\ UNCHANGED <<chain, overlapped, walk>>
      /\ stage' = [stage EXCEPT ![p] = "timer"] /\ page' = [page EXCEPT ![p] = NoPage]
  BY DEF Commit, Go, Reschedule
<1>2. ~ Throws(p)
  BY DEF Commit
<1>3. /\ from \in Nat /\ n \in Nat \ {0} /\ from + n <= Len(chain) /\ Last(evs) = from + n
      /\ new \in Seq(Row) /\ IsInjective(new) /\ Len(new) = n
      /\ \A i \in 1..n : new[i] = Named(from + i)
  BY <1>1, <1>2, BatchIs
<1> HIDE DEF evs, from, n, new
<1>4. /\ TypeInv /\ CoverInv /\ AloneInv /\ DerivedInv /\ Len(chain) \in Nat
      /\ None \notin Nat /\ MaxEvents \in Nat
  BY IndexerAssumption DEF IndexerInv, TypeInv
<1>5. /\ cursor' = from + n /\ cursor' \in Nat /\ cursor' # None /\ cursor' <= Len(chain)
      /\ origin \in Nat /\ origin' \in Nat
  BY <1>1, <1>3, <1>4 DEF TypeInv
<1>6. \A i \in 1..n : new[i].token = from + i /\ new[i].event = from + i
  BY <1>3 DEF Named
<1>7. /\ rows' \in Seq(Row) /\ RowsInv' /\ ToSet(rows) \subseteq ToSet(rows')
      /\ ToSet(new) \subseteq ToSet(rows')
  <2>1. \A r \in ToSet(new) : r.token = r.event
    BY <1>3, <1>6 DEF ToSet
  <2> QED
    BY <1>1, <1>3, <2>1, UpsertedSound
<1>8. \A e \in (from + 1)..(from + n) : Named(e) \in ToSet(rows')
  <2>1. ASSUME NEW e \in (from + 1)..(from + n) PROVE Named(e) \in ToSet(rows')
    <3>1. e - from \in 1..n /\ from + (e - from) = e
      BY <1>3
    <3>2. Named(e) = new[e - from] /\ DOMAIN new = 1..n
      BY <1>3, <3>1
    <3> QED
      BY <1>7, <3>1, <3>2 DEF ToSet
  <2> QED
    BY <2>1
<1>9. /\ stage \in [Processes -> Stages] /\ page \in [Processes -> [events : Seq(Nat), from : Nat]]
      /\ stage'[p] = "timer" /\ ~ Asking(p)'
      /\ \A q \in Processes : q # p => stage'[q] = stage[q] /\ page'[q] = page[q]
  BY <1>1, <1>4 DEF TypeInv, Asking
<1>10. \A q \in Processes : /\ Asking(q)' => q # p /\ Asking(q) /\ page'[q] = page[q]
                            /\ stage'[q] # "down" => stage[q] # "down"
  BY <1>1, <1>9 DEF Asking
<1>11. TypeInv'
  <2>1. NoPage \in [events : Seq(Nat), from : Nat]
    BY DEF NoPage
  <2>2. derived' \in [1..MaxEvents -> Nat]
    BY <1>1, <1>4 DEF insertDerived, TypeInv
  <2> QED
    BY <1>1, <1>4, <1>5, <1>7, <1>9, <2>1, <2>2 DEF TypeInv, Stages
<1>12. PagesInv'
  <2>1. \A q \in Processes : stage'[q] = "store" => Asking(q)' /\ stage[q] = "store"
    BY <1>9 DEF Asking
  <2> QED
    BY <1>1, <1>10, <2>1 DEF IndexerInv, PagesInv
<1>13. CoverInv'
  <2>1. ASSUME overlapped # "first"
        PROVE  /\ origin' <= cursor'
               /\ \A e \in (origin' + 1)..cursor' : chain[e] = "failed" \/ Named(e) \in ToSet(rows')
    <3>1. CASE cursor = None
      BY <1>1, <1>3, <1>5, <1>8, <3>1
    <3>2. CASE cursor # None
      <4>1. origin' = origin /\ origin <= from /\ Covered(from)
        BY <1>1, <1>4, <2>1, <3>2 DEF CoverInv, Asking, from
      <4>2. ASSUME NEW e \in (origin + 1)..(from + n)
            PROVE  chain[e] = "failed" \/ Named(e) \in ToSet(rows')
        <5>1. e \in (origin + 1)..from \/ e \in (from + 1)..(from + n)
          BY <1>3, <1>5
        <5> QED
          BY <1>7, <1>8, <4>1, <5>1 DEF Covered
      <4> QED
        BY <1>3, <1>5, <4>1, <4>2
    <3> QED
      BY <3>1, <3>2
  <2>2. ASSUME overlapped # "first", NEW q \in Processes, Asking(q)'
        PROVE  /\ origin' <= page'[q].from
               /\ \A e \in (origin' + 1)..page'[q].from : chain[e] = "failed" \/ Named(e) \in ToSet(rows')
    <3>1. q # p /\ Asking(q) /\ page'[q] = page[q]
      BY <1>10, <2>2
    <3>2. cursor # None
      <4>1. SUFFICES ASSUME cursor = None PROVE FALSE
        OBVIOUS
      <4>2. overlapped = "never"
        BY <1>4, <2>2, <4>1 DEF CoverInv, TypeInv
      <4> QED
        BY <1>1, <1>4, <3>1, <4>2 DEF AloneInv, Asking
    <3>3. origin' = origin /\ origin <= page[q].from /\ Covered(page[q].from)
      BY <1>1, <1>4, <2>2, <3>1, <3>2 DEF CoverInv
    <3> QED
      BY <1>7, <3>1, <3>3 DEF Covered
  <2> QED
    BY <1>1, <1>5, <2>1, <2>2 DEF CoverInv, Covered
<1>14. AloneInv'
  <2> SUFFICES ASSUME overlapped = "never" PROVE AloneInv'
    BY <1>1 DEF AloneInv
  <2>1. \A q, t \in Processes : stage[q] # "down" /\ stage[t] # "down" => q = t
    BY <1>4 DEF AloneInv
  <2>2. \A q \in Processes : ~ Asking(q)'
    BY <1>1, <1>10, <2>1 DEF Asking
  <2> QED
    BY <1>10, <2>1, <2>2 DEF AloneInv
<1>15. DerivedInv'
  <2> SUFFICES ASSUME overlapped = "never", NEW e \in 1..MaxEvents
               PROVE  derived'[e] = IF e <= Len(chain) /\ chain[e] = "typed" /\ origin' < e /\ e <= cursor'
                                    THEN 1 ELSE 0
    BY <1>1, <1>5 DEF DerivedInv
  <2> DEFINE typed == e <= Len(chain) /\ chain[e] = "typed"
             fresh == from < e /\ e <= from + n
  <2>1. derived[e] = IF typed /\ cursor # None /\ origin < e /\ e <= cursor THEN 1 ELSE 0
    BY <1>4 DEF DerivedInv
  <2>2. derived'[e] = derived[e] + IF typed /\ fresh THEN 1 ELSE 0
    <3>1. (\E i \in 1..Len(new) : new[i].event = e) <=> fresh
      <4>1. ASSUME NEW i \in 1..n, new[i].event = e PROVE fresh
        BY <1>3, <1>6, <4>1
      <4>2. ASSUME fresh PROVE \E i \in 1..n : new[i].event = e
        <5>1. e - from \in 1..n /\ from + (e - from) = e
          BY <1>3, <4>2
        <5> QED
          BY <1>6, <5>1
      <4> QED
        BY <1>3, <4>1, <4>2
    <3>2. e \in 1..Len(chain) <=> e <= Len(chain)
      BY <1>4
    <3> HIDE DEF fresh
    <3> QED
      BY <1>1, <3>1, <3>2 DEF insertDerived
  <2> HIDE DEF typed
  <2>3. CASE cursor = None
    BY <1>1, <1>5, <2>1, <2>2, <2>3 DEF typed
  <2>4. CASE cursor # None
    <3>1. cursor \in Nat /\ cursor = from /\ origin <= cursor /\ origin' = origin
      BY <1>1, <1>4, <2>4 DEF TypeInv, AloneInv, CoverInv, Asking, from
    <3> QED
      BY <1>3, <1>5, <2>1, <2>2, <2>4, <3>1 DEF typed
  <2> QED
    BY <2>3, <2>4
<1>16. WalkInv'
  <2> SUFFICES ASSUME walk # None PROVE WalkInv'
    BY <1>1 DEF WalkInv
  <2>1. /\ walk \in [page : Nat \cup {None}, seen : SUBSET Row, owed : SUBSET Row]
        /\ walk.owed \subseteq ToSet(rows')
        /\ walk.page = None => walk.owed \subseteq walk.seen
        /\ walk.page # None => walk.page > 0
    BY <1>7 DEF IndexerInv, WalkInv
  <2>2. ASSUME walk.page # None, NEW r \in walk.owed \ walk.seen
        PROVE  Cardinality(Newer(r)') >= (walk.page - 1) * PageSize
    <3>1. Cardinality(Newer(r)) >= (walk.page - 1) * PageSize
      BY <2>2 DEF IndexerInv, WalkInv
    <3>2. IsFiniteSet(ToSet(rows'))
      <4>1. Len(rows') \in Nat /\ DOMAIN rows' = 1..Len(rows')
        BY <1>7
      <4>2. rows' \in Surjection(1..Len(rows'), ToSet(rows'))
        <5>1. /\ rows' \in [1..Len(rows') -> ToSet(rows')]
              /\ \A t \in ToSet(rows') : \E i \in 1..Len(rows') : rows'[i] = t
          BY <1>7, <4>1 DEF ToSet
        <5> QED
          BY <5>1 DEF Surjection
      <4> QED
        BY <4>1, <4>2, FS_Interval, FS_Surjection
    <3>3. Newer(r)' \in SUBSET ToSet(rows') /\ Newer(r) \in SUBSET (Newer(r)')
      BY <1>7 DEF Newer
    <3>4. IsFiniteSet(Newer(r)')
      BY <3>2, <3>3, FS_Subset
    <3>5. /\ Cardinality(Newer(r)) <= Cardinality(Newer(r)')
          /\ Cardinality(Newer(r)) \in Nat /\ Cardinality(Newer(r)') \in Nat
      BY <3>3, <3>4, FS_Subset, FS_CardinalityType
    <3>6. (walk.page - 1) * PageSize \in Int
      <4>1. walk.page \in Nat /\ PageSize \in Nat
        BY <2>1, <2>2, IndexerAssumption
      <4>2. \A x, y \in Int : x * y \in Int
        OBVIOUS
      <4> QED
        BY <4>1, <4>2
    <3> QED
      BY <3>1, <3>5, <3>6
  <2> QED
    BY <1>1, <2>1, <2>2 DEF WalkInv
<1> QED
  BY <1>7, <1>11, <1>12, <1>13, <1>14, <1>15, <1>16 DEF IndexerInv

LEMMA StepInv == IndexerInv /\ [Next]_vars => IndexerInv'
<1> SUFFICES ASSUME IndexerInv, [Next]_vars PROVE IndexerInv'
  OBVIOUS
<1>1. ASSUME NEW kind \in Kinds, Emit(kind) PROVE IndexerInv'
  BY <1>1, EmitKeeps
<1>2. ASSUME NEW p \in Processes, Boot(p) PROVE IndexerInv'
  BY <1>2, BootKeeps
<1>3. ASSUME NEW p \in Processes,
             Migrate(p) \/ RecordMigration(p) \/ StartPoller(p) \/ FetchFails(p) \/ Rollback(p)
               \/ Shutdown(p) \/ Exit(p) \/ Crash(p)
      PROVE  IndexerInv'
  BY <1>3, QuietSteps, QuietKeeps
<1>4. ASSUME NEW p \in Processes, Poll(p) PROVE IndexerInv'
  BY <1>4, PollKeeps
<1>5. ASSUME NEW p \in Processes, Fetch(p) PROVE IndexerInv'
  BY <1>5, FetchKeeps
<1>6. ASSUME NEW p \in Processes, Commit(p) PROVE IndexerInv'
  BY <1>6, CommitKeeps
<1>7. CASE WalkStart
  BY <1>7, WalkStartKeeps
<1>8. CASE WalkPage
  BY <1>8, WalkPageKeeps
<1>9. CASE UNCHANGED vars
  <2>1. UNCHANGED <<chain, rows, derived, cursor, origin, overlapped, walk, stage, page>>
    BY <1>9 DEF vars, db, tables, procs
  <2>2. stage \in [Processes -> Stages] /\ page \in [Processes -> [events : Seq(Nat), from : Nat]]
    BY DEF IndexerInv, TypeInv
  <2>3. Quiet
    BY <2>1, <2>2 DEF Quiet, tables
  <2> QED
    BY <2>3, QuietKeeps
<1> QED
  BY <1>1, <1>2, <1>3, <1>4, <1>5, <1>6, <1>7, <1>8, <1>9 DEF Next, Serve

LEMMA IndexerInvHolds == Spec => []IndexerInv
BY InitInv, StepInv, PTL DEF Spec

\* The tables are what the chain makes of them (poller.ts, queries.ts): rows name
\* their events and no token has two, nothing is missing behind the cursor unless
\* two first runs overlapped, rows without a key are single while no two
\* processes overlap, and a walk over the pages misses no row it began with.
THEOREM TablesHold == Spec => []TablesSound
<1>1. IndexerInv => TablesSound
  <2> SUFFICES ASSUME IndexerInv PROVE TablesSound
    OBVIOUS
  <2>1. TableMatchesChain
    BY DEF IndexerInv, RowsInv, CoverInv, Covered, Named, TableMatchesChain
  <2>2. DerivedOnce
    <3>1. Len(chain) <= MaxEvents /\ Len(chain) \in Nat /\ MaxEvents \in Nat
      BY IndexerAssumption DEF IndexerInv, TypeInv
    <3>2. \A e \in 1..Len(chain) : e \in 1..MaxEvents /\ e <= Len(chain)
      BY <3>1
    <3> QED
      BY <3>2 DEF IndexerInv, DerivedInv, DerivedOnce
  <2>3. WalkMissesNothing
    BY DEF IndexerInv, WalkInv, WalkMissesNothing
  <2> QED
    BY <2>1, <2>2, <2>3 DEF TablesSound
<1> QED
  BY <1>1, IndexerInvHolds, PTL
=============================================================================
