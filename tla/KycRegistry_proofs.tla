------------------------- MODULE KycRegistry_proofs -------------------------
(***************************************************************************)
(* The registry's office, records, journal, lists, expiry keys and logs,   *)
(* for any people, expiries and batches.  A decision is a function from    *)
(* one book to the next: what it keeps of a sound book is proved once, and *)
(* holds for every decision and every batch of them.                       *)
(***************************************************************************)
EXTENDS KycRegistry, SumLemmas, TLAPS

\* The second migration, when it is used, goes through the whole log: in smaller
\* parts it would forget decisions and close logs.
WholeMigrations == MigrationBatches \subseteq {0}

----------------------------------------------------------------------------
(* Sequences *)

\* What holds of the first and is kept from one to the next holds of all.
LEMMA KeptAlong ==
    ASSUME NEW n \in Nat, NEW f, NEW D, f[0] \in D,
           \A i \in 1..n : f[i - 1] \in D => f[i] \in D
    PROVE  \A i \in 0..n : f[i] \in D
<1> DEFINE N == {i \in Nat : i <= n => f[i] \in D}
<1>1. 0 \in N
    OBVIOUS
<1>2. ASSUME NEW i \in Nat, i \in N PROVE i + 1 \in N
    <2> SUFFICES ASSUME i + 1 <= n PROVE f[i + 1] \in D
        OBVIOUS
    <2>1. i + 1 \in 1..n /\ (i + 1) - 1 = i
        OBVIOUS
    <2> QED
        BY <1>2, <2>1
<1>3. Nat \subseteq N
    <2> HIDE DEF N
    <2> QED
        BY <1>1, <1>2, Induction
<1> QED
    BY <1>3

LEMMA Appended ==
    ASSUME NEW S, NEW q \in Seq(S), NEW x \in S
    PROVE  /\ Append(q, x) \in Seq(S)
           /\ Len(Append(q, x)) = Len(q) + 1
           /\ ToSet(Append(q, x)) = ToSet(q) \cup {x}
           /\ IsInjective(q) /\ x \notin ToSet(q) => IsInjective(Append(q, x))
<1> DEFINE p == Append(q, x)
           n == Len(q)
<1>1. /\ p \in Seq(S) /\ Len(p) = n + 1 /\ n \in Nat
      /\ DOMAIN p = 1..(n + 1) /\ DOMAIN q = 1..n
      /\ p[n + 1] = x /\ \A i \in 1..n : p[i] = q[i]
    OBVIOUS
<1> HIDE DEF p, n
<1>2. 1..(n + 1) = 1..n \cup {n + 1} /\ n + 1 \notin 1..n
    BY <1>1
<1>3. ToSet(p) = ToSet(q) \cup {x}
    BY <1>1, <1>2 DEF ToSet
<1>4. ASSUME IsInjective(q), x \notin ToSet(q) PROVE IsInjective(p)
    <2>1. \A i \in 1..n : q[i] # x
        BY <1>1, <1>4 DEF ToSet
    <2> QED
        BY <1>1, <1>2, <1>4, <2>1 DEF IsInjective
<1> QED
    BY <1>1, <1>3, <1>4 DEF p, n

IsPushed(list, addr, upTo) ==
    upTo = [i \in 0..Len(list) |->
              IF i = 0 THEN <<>>
              ELSE IF list[i] = addr THEN upTo[i - 1]
              ELSE Append(upTo[i - 1], list[i])]

Pushed(list, addr) == CHOOSE upTo : IsPushed(list, addr, upTo)

\* A list without repeats loses the address, and nothing else.
LEMMA WithoutIs ==
    ASSUME NEW S, NEW list \in Seq(S), IsInjective(list), NEW addr
    PROVE  /\ Without(list, addr) \in Seq(S)
           /\ IsInjective(Without(list, addr))
           /\ ToSet(Without(list, addr)) = ToSet(list) \ {addr}
           /\ addr \in ToSet(list) => Len(Without(list, addr)) = Len(list) - 1
           /\ addr \notin ToSet(list) => Len(Without(list, addr)) = Len(list)
<1> DEFINE n == Len(list)
           next(v, i) == IF list[i] = addr THEN v ELSE Append(v, list[i])
           step == [i \in 1..n |-> [v \in Seq(S) |-> next(v, i)]]
<1>1. n \in Nat /\ DOMAIN list = 1..n /\ \A i \in 1..n : list[i] \in S
    OBVIOUS
<1>2. \A i \in 1..n, v \in Seq(S) : next(v, i) \in Seq(S)
    BY <1>1
<1> HIDE DEF next
<1>3. step \in [1..n -> [Seq(S) -> Seq(S)]] /\ \A i \in 1..n, v \in Seq(S) : step[i][v] = next(v, i)
    BY <1>2
<1> HIDE DEF step, n
<1>4. PICK f \in [0..n -> Seq(S)] : f[0] = <<>> /\ \A i \in 1..n : f[i] = step[i][f[i - 1]]
    <2> DEFINE D == Seq(S)
               first == <<>>
    <2>1. first \in D /\ n \in Nat /\ step \in [1..n -> [D -> D]]
        BY <1>1, <1>3
    <2> HIDE DEF D, first
    <2>2. \E f : Runs(f, D, first, n, step)
        BY <2>1, Recursion
    <2> QED
        BY <2>2 DEF Runs, D, first
<1>5. \A i \in 0..n : i # 0 => i \in 1..n /\ i - 1 \in 0..n
    BY <1>1
<1>6. f = [i \in 0..n |-> IF i = 0 THEN <<>> ELSE next(f[i - 1], i)]
    <2>1. \A i \in 0..n : i # 0 => f[i] = next(f[i - 1], i)
        BY <1>3, <1>4, <1>5
    <2>2. \A i \in 0..n : f[i] = IF i = 0 THEN <<>> ELSE next(f[i - 1], i)
        BY <1>4, <2>1
    <2>3. f = [i \in 0..n |-> f[i]]
        OBVIOUS
    <2> QED
        BY <2>2, <2>3
<1>7. IsPushed(list, addr, f)
    BY <1>6 DEF IsPushed, next, n
<1> DEFINE g == Pushed(list, addr)
<1>8. IsPushed(list, addr, g)
    BY <1>7 DEF Pushed
<1>9. Without(list, addr) = g[n]
    BY DEF Without, Pushed, IsPushed, n
<1> HIDE DEF g
<1>10. \A i \in 0..n : g[i] = IF i = 0 THEN <<>> ELSE next(g[i - 1], i)
    BY <1>8 DEF IsPushed, next, n
<1> DEFINE Seen(i) == {list[j] : j \in 1..i}
           Good(i) == /\ g[i] \in Seq(S)
                      /\ IsInjective(g[i])
                      /\ ToSet(g[i]) = Seen(i) \ {addr}
                      /\ addr \in Seen(i) => Len(g[i]) = i - 1
                      /\ addr \notin Seen(i) => Len(g[i]) = i
           N == {i \in Nat : i <= n => Good(i)}
<1> HIDE DEF Good
<1>11. 0 \in N
    <2>1. g[0] = <<>> /\ Seen(0) = {}
        BY <1>1, <1>10
    <2>2. ToSet(<<>>) = {} /\ IsInjective(<<>>) /\ Len(<<>>) = 0 /\ <<>> \in Seq(S)
        BY DEF ToSet, IsInjective
    <2> HIDE DEF Seen
    <2>3. addr \notin Seen(0) /\ Seen(0) \ {addr} = {}
        BY <2>1
    <2>5. Good(0)
        BY <2>1, <2>2, <2>3, Zenon DEF Good
    <2> QED
        BY <2>5
<1>12. ASSUME NEW i \in Nat, i \in N PROVE i + 1 \in N
    <2> SUFFICES ASSUME i + 1 <= n PROVE Good(i + 1)
        OBVIOUS
    <2>1. i + 1 \in 0..n /\ i + 1 \in 1..n /\ i + 1 # 0 /\ (i + 1) - 1 = i /\ i <= n
        BY <1>1
    <2>2. g[i + 1] = IF list[i + 1] = addr THEN g[i] ELSE Append(g[i], list[i + 1])
        BY <1>10, <2>1 DEF next
    <2>3. Good(i)
        BY <1>12, <2>1
    <2>4. Seen(i + 1) = Seen(i) \cup {list[i + 1]}
        <3>1. 1..(i + 1) = 1..i \cup {i + 1}
            OBVIOUS
        <3> QED
            BY <3>1
    <2>5. list[i + 1] \in S /\ list[i + 1] \notin Seen(i)
        <3>1. \A j \in 1..i : j \in 1..n /\ j # i + 1
            BY <1>1, <2>1
        <3> QED
            BY <1>1, <2>1, <3>1 DEF IsInjective
    <2> DEFINE x == list[i + 1]
    <2>6. CASE x = addr
        <3>1. g[i + 1] = g[i] /\ addr \in Seen(i + 1) /\ addr \notin Seen(i)
            BY <2>2, <2>4, <2>5, <2>6
        <3>2. Seen(i + 1) \ {addr} = Seen(i) \ {addr}
            BY <2>4, <2>6
        <3> HIDE DEF Seen, x
        <3> QED
            BY <2>3, <3>1, <3>2 DEF Good
    <2>7. CASE x # addr
        <3>1. g[i + 1] = Append(g[i], x) /\ (addr \in Seen(i + 1) <=> addr \in Seen(i))
            BY <2>2, <2>4, <2>7
        <3>2. x \notin ToSet(g[i]) /\ Seen(i + 1) \ {addr} = (Seen(i) \ {addr}) \cup {x} /\ x \in S
            BY <2>3, <2>4, <2>5, <2>7 DEF Good
        <3> DEFINE v == g[i]
        <3>3. v \in Seq(S) /\ IsInjective(v) /\ x \notin ToSet(v)
            BY <2>3, <3>2 DEF Good
        <3> HIDE DEF Seen, x, v
        <3>4. /\ Append(v, x) \in Seq(S) /\ Len(Append(v, x)) = Len(v) + 1
              /\ ToSet(Append(v, x)) = ToSet(v) \cup {x} /\ IsInjective(Append(v, x))
            BY <3>2, <3>3, Appended
        <3>5. /\ ToSet(v) = Seen(i) \ {addr}
              /\ (addr \in Seen(i) => Len(v) = i - 1) /\ (addr \notin Seen(i) => Len(v) = i)
            BY <2>3 DEF Good, v
        <3>6. g[i + 1] = Append(v, x)
            BY <3>1 DEF v
        <3> QED
            BY <3>1, <3>2, <3>4, <3>5, <3>6 DEF Good
    <2> QED
        BY <2>6, <2>7
<1>13. Nat \subseteq N
    <2> HIDE DEF N
    <2> QED
        BY <1>11, <1>12, Induction
<1>14. Good(n)
    <2>1. n \in N /\ n <= n
        BY <1>1, <1>13
    <2> QED
        BY <2>1
<1>15. Seen(n) = ToSet(list)
    BY <1>1 DEF ToSet
<1> QED
    <2> HIDE DEF Seen
    <2> QED
        BY <1>9, <1>14, <1>15 DEF n, Good

\* A log holds one more entry about the subject that is appended to it.
LEMMA OneMoreEntry ==
    ASSUME NEW q \in Seq(Subjects), NEW s \in Subjects, NEW t \in Subjects
    PROVE  /\ EntriesAbout(s, q) \in Nat
           /\ s = t => EntriesAbout(s, Append(q, t)) = EntriesAbout(s, q) + 1
           /\ s # t => EntriesAbout(s, Append(q, t)) = EntriesAbout(s, q)
<1> DEFINE n == Len(q)
           At == {i \in 1..n : q[i] = s}
           p == Append(q, t)
<1>1. /\ DOMAIN p = 1..(n + 1) /\ DOMAIN q = 1..n /\ n \in Nat
      /\ p[n + 1] = t /\ \A i \in 1..n : p[i] = q[i]
    OBVIOUS
<1> HIDE DEF p, n
<1>2. IsFiniteSet(At) /\ Cardinality(At) \in Nat
    <2>1. IsFiniteSet(1..n)
        BY <1>1, FS_Interval
    <2>2. IsFiniteSet(At)
        BY <2>1, FS_Subset
    <2> HIDE DEF At
    <2> QED
        BY <2>2, FS_CardinalityType
<1>3. EntriesAbout(s, q) = Cardinality(At)
    BY <1>1 DEF EntriesAbout
<1>4. 1..(n + 1) = 1..n \cup {n + 1} /\ n + 1 \notin At
    BY <1>1
<1>5. {i \in DOMAIN p : p[i] = s} = IF s = t THEN At \cup {n + 1} ELSE At
    BY <1>1, <1>4
<1>6. Cardinality(At \cup {n + 1}) = Cardinality(At) + 1
    <2> HIDE DEF At
    <2> QED
        BY <1>2, <1>4, FS_AddElement
<1>7. EntriesAbout(s, p) = Cardinality(IF s = t THEN At \cup {n + 1} ELSE At)
    BY <1>5 DEF EntriesAbout
<1>8. /\ s = t => EntriesAbout(s, p) = Cardinality(At) + 1
      /\ s # t => EntriesAbout(s, p) = Cardinality(At)
    <2> HIDE DEF At
    <2> QED
        BY <1>2, <1>6, <1>7
<1> QED
    BY <1>2, <1>3, <1>8 DEF p

----------------------------------------------------------------------------
(* Books *)

BookType ==
    [record : [Subjects -> Option(KycRecord)], last : [Subjects -> Option(KycTransition)],
     subjectExpiry : [Subjects -> Option(Nat \ {0})], bucket : SUBSET (Nat \X Subjects),
     subjectsOf : [Verifiers -> Seq(Subjects)], log : Seq(Subjects),
     slots : [Subjects -> Nat], logCount : [Subjects -> Nat]]

\* The journal tells the record.
Told(b, s) ==
    /\ b.record[s] = {} <=> b.last[s] = {}
    /\ \A r \in b.record[s], t \in b.last[s] :
          r.status = Outcome(t.kind) /\ r.tier = t.tier /\ r.expiry = t.expiry

Listed(b, s) == \A r \in b.record[s] : s \in ToSet(b.subjectsOf[r.verifier])

\* An approved record's expiry is the key, and the key is in the bucket of its
\* day unless compaction has passed the day.
Keyed(b, s) ==
    /\ \A r \in b.record[s] : r.status = "Approved" => b.subjectExpiry[s] = ExpiryKey(r)
    /\ \A e \in b.subjectExpiry[s] : DayOf(e) >= earliestDay => <<DayOf(e), s>> \in b.bucket

Logged(b, s) == b.logCount[s] = b.slots[s] /\ b.logCount[s] = EntriesAbout(s, b.log)

Books ==
    {b \in BookType :
        /\ \A v \in Verifiers : IsInjective(b.subjectsOf[v])
        /\ \A s \in Subjects : Told(b, s) /\ Listed(b, s) /\ Keyed(b, s) /\ Logged(b, s)}

LEMMA BookFields ==
    ASSUME NEW b \in BookType
    PROVE  /\ b.record \in [Subjects -> Option(KycRecord)]
           /\ b.last \in [Subjects -> Option(KycTransition)]
           /\ b.subjectExpiry \in [Subjects -> Option(Nat \ {0})]
           /\ b.bucket \subseteq Nat \X Subjects
           /\ b.subjectsOf \in [Verifiers -> Seq(Subjects)]
           /\ b.log \in Seq(Subjects)
           /\ b.slots \in [Subjects -> Nat]
           /\ b.logCount \in [Subjects -> Nat]
BY DEF BookType

LEMMA OneOrNone == \A S : {} \in Option(S) /\ \A x \in S : {x} \in Option(S)
BY DEF Option

LEMMA Keys ==
    ASSUME NEW r, r.expiry \in Nat
    PROVE  /\ ExpiryKey(r) \in Option(Nat \ {0})
           /\ \A e \in ExpiryKey(r) : e = r.expiry /\ DayOf(e) \in Nat
<1>1. ExpiryKey(r) \in Option(Nat \ {0}) /\ \A e \in ExpiryKey(r) : e = r.expiry
    BY DEF ExpiryKey, Option
<1>2. DayOf(r.expiry) \in Nat
    BY DayIsPositive DEF DayOf
<1> QED
    BY <1>1, <1>2

\* A verifier's list gains the subject, once.
LEMMA IndexedIs ==
    ASSUME NEW b \in BookType, NEW s \in Subjects, NEW r \in KycRecord
    PROVE  /\ Indexed(b, s, r) \in Seq(Subjects)
           /\ IsInjective(b.subjectsOf[r.verifier]) => IsInjective(Indexed(b, s, r))
           /\ ToSet(Indexed(b, s, r)) = ToSet(b.subjectsOf[r.verifier]) \cup {s}
<1> DEFINE q == b.subjectsOf[r.verifier]
<1>1. q \in Seq(Subjects)
    BY BookFields DEF KycRecord
<1>2. Indexed(b, s, r) = IF s \in ToSet(q) THEN q ELSE Append(q, s)
    BY DEF Indexed
<1> HIDE DEF q
<1>3. /\ Indexed(b, s, r) \in Seq(Subjects)
      /\ IsInjective(q) => IsInjective(Indexed(b, s, r))
      /\ ToSet(Indexed(b, s, r)) = ToSet(q) \cup {s}
    BY <1>1, <1>2, Appended
<1> QED
    BY <1>3 DEF q

Written(b, s, kind, actor, r) == WriteRecord(RecordTransition(b, s, kind, actor, r), s, r)

Kinds == {"Approve", "Reject", "Revoke", "TierUpdate"}

Noted(kind, actor, r) == [kind |-> kind, verifier |-> actor, tier |-> r.tier, expiry |-> r.expiry]

\* What a decision writes, before it is logged.
IsWritten(w, b, s, t, r) ==
    /\ w.record = [b.record EXCEPT ![s] = {r}]
    /\ w.last = [b.last EXCEPT ![s] = {t}]
    /\ w.subjectExpiry = [b.subjectExpiry EXCEPT ![s] = ExpiryKey(r)]
    /\ w.bucket = b.bucket \cup {<<DayOf(e), s>> : e \in ExpiryKey(r)}
    /\ w.subjectsOf = [b.subjectsOf EXCEPT ![r.verifier] = Indexed(b, s, r)]
    /\ w.log = b.log /\ w.slots = b.slots /\ w.logCount = b.logCount
    /\ w \in BookType

LEMMA WrittenFields ==
    ASSUME NEW b \in BookType, NEW s \in Subjects, NEW kind \in Kinds, NEW actor \in Verifiers, NEW r \in KycRecord
    PROVE  IsWritten(Written(b, s, kind, actor, r), b, s, Noted(kind, actor, r), r)
<1> DEFINE t == Noted(kind, actor, r)
           u == RecordTransition(b, s, kind, actor, r)
           w == WriteRecord(u, s, r)
           key == ExpiryKey(r)
<1>1. u = [b EXCEPT !.last[s] = {t}]
    BY DEF RecordTransition, Noted
<1>2. /\ u.record = b.record /\ u.subjectExpiry = b.subjectExpiry /\ u.bucket = b.bucket
      /\ u.subjectsOf = b.subjectsOf /\ u.log = b.log /\ u.slots = b.slots /\ u.logCount = b.logCount
      /\ u.last = [b.last EXCEPT ![s] = {t}]
      /\ u \in [record : {b.record}, last : {u.last}, subjectExpiry : {b.subjectExpiry}, bucket : {b.bucket},
                subjectsOf : {b.subjectsOf}, log : {b.log}, slots : {b.slots}, logCount : {b.logCount}]
    BY <1>1 DEF BookType
<1> HIDE DEF u, t
<1>3. Indexed(u, s, r) = Indexed(b, s, r)
    BY <1>2 DEF Indexed
<1>4. /\ w.record = [b.record EXCEPT ![s] = {r}]
      /\ w.last = u.last
      /\ w.subjectExpiry = [b.subjectExpiry EXCEPT ![s] = key]
      /\ w.bucket = b.bucket \cup {<<DayOf(e), s>> : e \in key}
      /\ w.subjectsOf = [b.subjectsOf EXCEPT ![r.verifier] = Indexed(b, s, r)]
      /\ w.log = b.log /\ w.slots = b.slots /\ w.logCount = b.logCount
      /\ w = [record |-> w.record, last |-> w.last, subjectExpiry |-> w.subjectExpiry, bucket |-> w.bucket,
              subjectsOf |-> w.subjectsOf, log |-> w.log, slots |-> w.slots, logCount |-> w.logCount]
    <2>1. w = [u EXCEPT !.record[s] = {r}, !.subjectExpiry[s] = key,
                        !.bucket = @ \cup {<<DayOf(e), s>> : e \in key},
                        !.subjectsOf[r.verifier] = Indexed(b, s, r)]
        BY <1>3, Zenon DEF WriteRecord
    <2>2. DOMAIN u = {"record", "last", "subjectExpiry", "bucket", "subjectsOf", "log", "slots", "logCount"}
        BY <1>2
    <2> DEFINE more == {<<DayOf(e), s>> : e \in key}
    <2> HIDE DEF w, key, more
    <2>3. w = [u EXCEPT !.record[s] = {r}, !.subjectExpiry[s] = key, !.bucket = @ \cup more,
                        !.subjectsOf[r.verifier] = Indexed(b, s, r)]
        BY <2>1, Zenon DEF more
    <2>4. /\ w.record = [b.record EXCEPT ![s] = {r}]
          /\ w.last = u.last
          /\ w.subjectExpiry = [b.subjectExpiry EXCEPT ![s] = key]
          /\ w.bucket = b.bucket \cup more
        BY <1>2, <2>2, <2>3
    <2>5. /\ w.subjectsOf = [b.subjectsOf EXCEPT ![r.verifier] = Indexed(b, s, r)]
          /\ w.log = b.log /\ w.slots = b.slots /\ w.logCount = b.logCount
        BY <1>2, <2>2, <2>3
    <2>6. w = [record |-> w.record, last |-> w.last, subjectExpiry |-> w.subjectExpiry, bucket |-> w.bucket,
               subjectsOf |-> w.subjectsOf, log |-> w.log, slots |-> w.slots, logCount |-> w.logCount]
        BY <2>2, <2>3
    <2> QED
        BY <2>4, <2>5, <2>6 DEF more
<1>5. r.verifier \in Verifiers /\ r.expiry \in Nat /\ r.tier \in Nat
    BY DEF KycRecord
<1>6. Indexed(b, s, r) \in Seq(Subjects)
    BY IndexedIs
<1>7. t \in KycTransition /\ {t} \in Option(KycTransition) /\ {r} \in Option(KycRecord)
    <2>1. t \in KycTransition
        BY <1>5 DEF t, Noted, KycTransition, Kinds
    <2> QED
        BY <2>1, OneOrNone
<1>8. key \in Option(Nat \ {0}) /\ {<<DayOf(e), s>> : e \in key} \subseteq Nat \X Subjects
    BY <1>5, Keys
<1> HIDE DEF key, w
<1>9. w \in BookType
    <2>1. /\ w.record \in [Subjects -> Option(KycRecord)]
          /\ w.last \in [Subjects -> Option(KycTransition)]
          /\ w.subjectExpiry \in [Subjects -> Option(Nat \ {0})]
        BY <1>2, <1>4, <1>7, <1>8, BookFields
    <2>2. w.bucket \subseteq Nat \X Subjects
        BY <1>4, <1>8, BookFields
    <2>4. w.subjectsOf \in [Verifiers -> Seq(Subjects)]
        BY <1>4, <1>5, <1>6, BookFields
    <2>3. w.log \in Seq(Subjects) /\ w.slots \in [Subjects -> Nat] /\ w.logCount \in [Subjects -> Nat]
        BY <1>4, BookFields
    <2> QED
        BY <1>4, <2>1, <2>2, <2>3, <2>4 DEF BookType
<1> QED
    BY <1>2, <1>4, <1>6, <1>9 DEF IsWritten, Written, w, u, t, key

LEMMA WrittenSound ==
    ASSUME NEW b \in Books, NEW s \in Subjects, NEW kind \in Kinds, NEW actor \in Verifiers, NEW r \in KycRecord,
           r.status = Outcome(kind)
    PROVE  Written(b, s, kind, actor, r) \in Books
<1> DEFINE w == Written(b, s, kind, actor, r)
           t == Noted(kind, actor, r)
<1>1. b \in BookType /\ (\A v \in Verifiers : IsInjective(b.subjectsOf[v]))
    BY DEF Books
<1>2. IsWritten(w, b, s, t, r)
    BY <1>1, WrittenFields
<1>3. /\ IsInjective(b.subjectsOf[r.verifier]) => IsInjective(Indexed(b, s, r))
      /\ ToSet(Indexed(b, s, r)) = ToSet(b.subjectsOf[r.verifier]) \cup {s}
    BY <1>1, IndexedIs
<1>4. r.verifier \in Verifiers
    BY DEF KycRecord
<1> HIDE DEF w
<1>5. ASSUME NEW v \in Verifiers
      PROVE  /\ IsInjective(w.subjectsOf[v])
             /\ ToSet(b.subjectsOf[v]) \subseteq ToSet(w.subjectsOf[v])
             /\ v = r.verifier => s \in ToSet(w.subjectsOf[v])
    <2>1. w.subjectsOf[v] = IF v = r.verifier THEN Indexed(b, s, r) ELSE b.subjectsOf[v]
        BY <1>1, <1>2, BookFields DEF IsWritten
    <2> QED
        BY <1>1, <1>3, <2>1
<1>6. ASSUME NEW u \in Subjects
      PROVE  Told(w, u) /\ Listed(w, u) /\ Keyed(w, u) /\ Logged(w, u)
    <2>1. Told(b, u) /\ Listed(b, u) /\ Keyed(b, u) /\ Logged(b, u)
        BY DEF Books
    <2>2. /\ w.record[u] = IF u = s THEN {r} ELSE b.record[u]
          /\ w.last[u] = IF u = s THEN {t} ELSE b.last[u]
          /\ w.subjectExpiry[u] = IF u = s THEN ExpiryKey(r) ELSE b.subjectExpiry[u]
        BY <1>1, <1>2, BookFields DEF IsWritten
    <2>3. Told(w, u)
        <3>1. CASE u = s
            <4>1. t.kind = kind /\ t.tier = r.tier /\ t.expiry = r.expiry
                BY DEF Noted
            <4>2. w.record[u] = {r} /\ w.last[u] = {t}
                BY <2>2, <3>1
            <4> HIDE DEF t
            <4> QED
                BY <4>1, <4>2 DEF Told
        <3>2. CASE u # s
            BY <2>1, <2>2, <3>2 DEF Told
        <3> QED
            BY <3>1, <3>2
    <2>4. Listed(w, u)
        <3>1. CASE u = s
            BY <1>4, <1>5, <2>2, <3>1 DEF Listed
        <3>2. CASE u # s
            <4>1. \A x \in b.record[u] : x.verifier \in Verifiers
                BY <1>1, BookFields DEF Option, KycRecord
            <4> QED
                BY <1>5, <2>1, <2>2, <3>2, <4>1 DEF Listed
        <3> QED
            BY <3>1, <3>2
    <2>5. Keyed(w, u)
        <3>1. CASE u = s
            BY <1>2, <2>2, <3>1 DEF Keyed, IsWritten
        <3>2. CASE u # s
            BY <1>2, <2>1, <2>2, <3>2 DEF Keyed, IsWritten
        <3> QED
            BY <3>1, <3>2
    <2>6. Logged(w, u)
        BY <1>2, <2>1 DEF Logged, IsWritten
    <2> QED
        BY <2>3, <2>4, <2>5, <2>6
<1> QED
    BY <1>2, <1>5, <1>6 DEF Books, IsWritten, w

LEMMA LoggedSound ==
    ASSUME NEW b \in Books, NEW s \in Subjects
    PROVE  /\ AppendLog(b, s) \in Books
           /\ AppendLog(b, s).record = b.record /\ AppendLog(b, s).last = b.last
<1> DEFINE w == AppendLog(b, s)
<1>1. b \in BookType /\ (\A v \in Verifiers : IsInjective(b.subjectsOf[v]))
    BY DEF Books
<1>2. /\ w = [record |-> b.record, last |-> b.last, subjectExpiry |-> b.subjectExpiry, bucket |-> b.bucket,
              subjectsOf |-> b.subjectsOf, log |-> Append(b.log, s),
              slots |-> [b.slots EXCEPT ![s] = @ + 1], logCount |-> [b.logCount EXCEPT ![s] = @ + 1]]
    <2>1. w = [b EXCEPT !.log = Append(@, s), !.slots[s] = @ + 1, !.logCount[s] = @ + 1]
        BY DEF AppendLog
    <2>2. b = [record |-> b.record, last |-> b.last, subjectExpiry |-> b.subjectExpiry, bucket |-> b.bucket,
               subjectsOf |-> b.subjectsOf, log |-> b.log, slots |-> b.slots, logCount |-> b.logCount]
        BY <1>1 DEF BookType
    <2>3. DOMAIN b = {"record", "last", "subjectExpiry", "bucket", "subjectsOf", "log", "slots", "logCount"}
        BY <2>2
    <2> HIDE DEF w
    <2> QED
        BY <2>1, <2>3
<1> HIDE DEF w
<1>3. /\ Append(b.log, s) \in Seq(Subjects)
      /\ [b.slots EXCEPT ![s] = @ + 1] \in [Subjects -> Nat]
      /\ [b.logCount EXCEPT ![s] = @ + 1] \in [Subjects -> Nat]
    BY <1>1, BookFields
<1>4. w \in BookType
    BY <1>1, <1>2, <1>3, BookFields DEF BookType
<1>5. /\ w.record = b.record /\ w.last = b.last /\ w.subjectExpiry = b.subjectExpiry /\ w.bucket = b.bucket
      /\ w.subjectsOf = b.subjectsOf /\ w.log = Append(b.log, s)
      /\ w.slots = [b.slots EXCEPT ![s] = @ + 1] /\ w.logCount = [b.logCount EXCEPT ![s] = @ + 1]
    BY <1>2
<1>6. ASSUME NEW u \in Subjects
      PROVE  Told(w, u) /\ Listed(w, u) /\ Keyed(w, u) /\ Logged(w, u)
    <2>1. Told(b, u) /\ Listed(b, u) /\ Keyed(b, u) /\ Logged(b, u)
        BY DEF Books
    <2>2. Told(w, u) /\ Listed(w, u) /\ Keyed(w, u)
        BY <1>5, <2>1 DEF Told, Listed, Keyed
    <2>3. /\ w.slots[u] = IF u = s THEN b.slots[u] + 1 ELSE b.slots[u]
          /\ w.logCount[u] = IF u = s THEN b.logCount[u] + 1 ELSE b.logCount[u]
        BY <1>1, <1>5, BookFields
    <2>4. /\ u = s => EntriesAbout(u, w.log) = EntriesAbout(u, b.log) + 1
          /\ u # s => EntriesAbout(u, w.log) = EntriesAbout(u, b.log)
        BY <1>1, <1>5, BookFields, OneMoreEntry
    <2>5. EntriesAbout(u, b.log) \in Nat
        BY <1>1, BookFields, OneMoreEntry
    <2>6. Logged(w, u)
        <3>1. CASE u = s
            BY <2>1, <2>3, <2>4, <2>5, <3>1 DEF Logged
        <3>2. CASE u # s
            BY <2>1, <2>3, <2>4, <2>5, <3>2 DEF Logged
        <3> QED
            BY <3>1, <3>2
    <2> QED
        BY <2>2, <2>6
<1>7. \A v \in Verifiers : IsInjective(w.subjectsOf[v])
    BY <1>1, <1>5
<1> QED
    BY <1>4, <1>5, <1>6, <1>7 DEF Books, w

\* A subject of the book stands as it does in the registry, or is not approved,
\* or was approved by a verifier in office.
Grounded(b, s) ==
    \/ \A r \in b.record[s] : \E q \in record[s] : q.status = r.status /\ q.expiry = r.expiry
    \/ \A r \in b.record[s] : r.status # "Approved"
    \/ \E t \in b.last[s] : t.kind = "Approve" /\ t.verifier \in ToSet(verifiers)

FairBooks == {b \in Books : \A s \in Subjects : Grounded(b, s)}

LEMMA DecidedFair ==
    ASSUME NEW b \in FairBooks, NEW s \in Subjects, NEW kind \in {"Approve", "Reject", "Revoke"},
           NEW actor \in Verifiers, NEW r \in KycRecord, r.status = Outcome(kind),
           kind = "Approve" => actor \in ToSet(verifiers)
    PROVE  Decide(b, s, kind, actor, r) \in FairBooks
<1> DEFINE w == Written(b, s, kind, actor, r)
           d == AppendLog(w, s)
           t == Noted(kind, actor, r)
<1>1. b \in Books /\ b \in BookType /\ kind \in Kinds
    BY DEF FairBooks, Books, Kinds
<1>2. IsWritten(w, b, s, t, r)
    BY <1>1, WrittenFields
<1>3. w \in Books
    BY <1>1, WrittenSound
<1> HIDE DEF w
<1>4. d \in Books /\ d.record = w.record /\ d.last = w.last
    BY <1>3, LoggedSound
<1>5. Decide(b, s, kind, actor, r) = d
    BY DEF Decide, w, Written
<1> HIDE DEF d
<1>6. ASSUME NEW u \in Subjects PROVE Grounded(d, u)
    <2>1. /\ d.record[u] = IF u = s THEN {r} ELSE b.record[u]
          /\ d.last[u] = IF u = s THEN {t} ELSE b.last[u]
        BY <1>1, <1>2, <1>4, BookFields DEF IsWritten
    <2>2. CASE u = s
        <3>1. CASE kind = "Approve"
            <4>1. t.kind = "Approve" /\ t.verifier \in ToSet(verifiers) /\ d.last[u] = {t}
                BY <2>1, <2>2, <3>1 DEF Noted
            <4> HIDE DEF t
            <4> QED
                BY <4>1 DEF Grounded
        <3>2. CASE kind # "Approve"
            BY <2>1, <2>2, <3>2 DEF Grounded, Outcome
        <3> QED
            BY <3>1, <3>2
    <2>3. CASE u # s
        BY <2>1, <2>3 DEF FairBooks, Grounded
    <2> QED
        BY <2>2, <2>3
<1> QED
    BY <1>4, <1>5, <1>6 DEF FairBooks

LEMMA ApprovedFair ==
    ASSUME NEW b \in FairBooks, NEW v \in Verifiers, v \in ToSet(verifiers), NEW e \in Entry
    PROVE  Approved(b, v, e) \in FairBooks
<1> DEFINE r == [status |-> "Approved", verifier |-> v, tier |-> e.tier, expiry |-> e.expiry]
<1>1. e.tier \in Nat /\ e.expiry \in Nat /\ e.subject \in Subjects
    BY NumbersAreNats DEF Entry
<1>2. r \in KycRecord /\ r.status = Outcome("Approve")
    BY <1>1 DEF KycRecord, Outcome
<1> HIDE DEF r
<1>3. Decide(b, e.subject, "Approve", v, r) \in FairBooks
    BY <1>1, <1>2, DecidedFair
<1> QED
    BY <1>3 DEF Approved, r

LEMMA ClosedFair ==
    ASSUME NEW b \in FairBooks, NEW s \in Subjects, NEW v \in Verifiers,
           NEW kind \in {"Reject", "Revoke"}
    PROVE  Closed(b, s, v, kind, Outcome(kind)) \in FairBooks
<1> DEFINE old == RecordOr(b, s, v)
           r == [old EXCEPT !.status = Outcome(kind)]
<1>1. old \in KycRecord
    <2>1. b.record[s] \subseteq KycRecord
        BY BookFields DEF FairBooks, Books, Option
    <2>2. b.record[s] # {} => (CHOOSE x \in b.record[s] : TRUE) \in b.record[s]
        OBVIOUS
    <2>3. [status |-> "Pending", verifier |-> v, tier |-> 0, expiry |-> 0] \in KycRecord
        BY DEF KycRecord
    <2> QED
        BY <2>1, <2>2, <2>3 DEF RecordOr
<1> HIDE DEF old
<1>2. r \in KycRecord /\ r.status = Outcome(kind)
    <2>1. Outcome(kind) \in {"Rejected", "Revoked"}
        BY DEF Outcome
    <2> QED
        BY <1>1, <2>1 DEF KycRecord
<1> HIDE DEF r
<1>3. Decide(b, s, kind, v, r) \in FairBooks
    BY <1>2, DecidedFair
<1> QED
    BY <1>3 DEF Closed, r, old

----------------------------------------------------------------------------
(* Batches *)

IsApprovals(v, entries, after) ==
    after = [n \in 0..Len(entries) |-> IF n = 0 THEN Book ELSE Approved(after[n - 1], v, entries[n])]

Approvals(v, entries) == CHOOSE after : IsApprovals(v, entries, after)

\* A batch of approvals leads from one fair book to another.
LEMMA ApprovalsFair ==
    ASSUME Book \in FairBooks, NEW v \in Verifiers, v \in ToSet(verifiers),
           NEW n \in Nat, NEW entries \in [1..n -> Entry]
    PROVE  Approvals(v, entries)[Len(entries)] \in FairBooks
<1> DEFINE next(b, i) == Approved(b, v, entries[i])
           step == [i \in 1..n |-> [b \in FairBooks |-> next(b, i)]]
           D == FairBooks
           first == Book
<1>1. Len(entries) = n
    OBVIOUS
<1>2. \A i \in 1..n, b \in D : next(b, i) \in D
    BY ApprovedFair
<1>3. first \in D
    OBVIOUS
<1> HIDE DEF D, next, first
<1>4. step \in [1..n -> [D -> D]] /\ \A i \in 1..n, b \in D : step[i][b] = next(b, i)
    BY <1>2 DEF D
<1> HIDE DEF step
<1>5. PICK f : Runs(f, D, first, n, step)
    BY <1>3, <1>4, Recursion
<1>6. f \in [0..n -> D] /\ f[0] = first /\ \A i \in 1..n : f[i] = step[i][f[i - 1]]
    BY <1>5 DEF Runs
<1>7. \A i \in 0..n : i # 0 => i \in 1..n /\ i - 1 \in 0..n
    OBVIOUS
<1>8. f = [i \in 0..n |-> IF i = 0 THEN first ELSE next(f[i - 1], i)]
    <2>1. \A i \in 0..n : i # 0 => f[i] = next(f[i - 1], i)
        BY <1>4, <1>6, <1>7
    <2>2. \A i \in 0..n : f[i] = IF i = 0 THEN first ELSE next(f[i - 1], i)
        BY <1>6, <2>1
    <2>3. f = [i \in 0..n |-> f[i]]
        BY <1>6
    <2> QED
        BY <2>2, <2>3
<1>9. IsApprovals(v, entries, f)
    BY <1>1, <1>8 DEF IsApprovals, next, first
<1> DEFINE g == Approvals(v, entries)
<1>10. IsApprovals(v, entries, g)
    BY <1>9 DEF Approvals
<1> HIDE DEF g
<1>11. \A i \in 0..n : g[i] = IF i = 0 THEN first ELSE next(g[i - 1], i)
    BY <1>1, <1>10 DEF IsApprovals, next, first
<1>12. g[0] \in D /\ \A i \in 1..n : g[i - 1] \in D => g[i] \in D
    <2>1. 0 \in 0..n /\ \A i \in 1..n : i \in 0..n /\ i # 0
        OBVIOUS
    <2> QED
        BY <1>2, <1>3, <1>11, <2>1
<1>13. \A i \in 0..n : g[i] \in D
    BY <1>12, KeptAlong
<1> QED
    BY <1>1, <1>13 DEF g, D

IsRevocations(v, subjects, after) ==
    after = [n \in 0..Len(subjects) |->
               IF n = 0 THEN Book ELSE Closed(after[n - 1], subjects[n], v, "Revoke", "Revoked")]

Revocations(v, subjects) == CHOOSE after : IsRevocations(v, subjects, after)

\* So does a batch of revocations.
LEMMA RevocationsFair ==
    ASSUME Book \in FairBooks, NEW v \in Verifiers,
           NEW n \in Nat, NEW subjects \in [1..n -> Subjects]
    PROVE  Revocations(v, subjects)[Len(subjects)] \in FairBooks
<1> DEFINE next(b, i) == Closed(b, subjects[i], v, "Revoke", "Revoked")
           step == [i \in 1..n |-> [b \in FairBooks |-> next(b, i)]]
           D == FairBooks
           first == Book
<1>1. Len(subjects) = n
    OBVIOUS
<1>2. \A i \in 1..n, b \in D : next(b, i) \in D
    <2>1. Outcome("Revoke") = "Revoked"
        BY DEF Outcome
    <2> QED
        BY <2>1, ClosedFair
<1>3. first \in D
    OBVIOUS
<1> HIDE DEF D, next, first
<1>4. step \in [1..n -> [D -> D]] /\ \A i \in 1..n, b \in D : step[i][b] = next(b, i)
    BY <1>2 DEF D
<1> HIDE DEF step
<1>5. PICK f : Runs(f, D, first, n, step)
    BY <1>3, <1>4, Recursion
<1>6. f \in [0..n -> D] /\ f[0] = first /\ \A i \in 1..n : f[i] = step[i][f[i - 1]]
    BY <1>5 DEF Runs
<1>7. \A i \in 0..n : i # 0 => i \in 1..n /\ i - 1 \in 0..n
    OBVIOUS
<1>8. f = [i \in 0..n |-> IF i = 0 THEN first ELSE next(f[i - 1], i)]
    <2>1. \A i \in 0..n : i # 0 => f[i] = next(f[i - 1], i)
        BY <1>4, <1>6, <1>7
    <2>2. \A i \in 0..n : f[i] = IF i = 0 THEN first ELSE next(f[i - 1], i)
        BY <1>6, <2>1
    <2>3. f = [i \in 0..n |-> f[i]]
        BY <1>6
    <2> QED
        BY <2>2, <2>3
<1>9. IsRevocations(v, subjects, f)
    BY <1>1, <1>8 DEF IsRevocations, next, first
<1> DEFINE g == Revocations(v, subjects)
<1>10. IsRevocations(v, subjects, g)
    BY <1>9 DEF Revocations
<1> HIDE DEF g
<1>11. \A i \in 0..n : g[i] = IF i = 0 THEN first ELSE next(g[i - 1], i)
    BY <1>1, <1>10 DEF IsRevocations, next, first
<1>12. g[0] \in D /\ \A i \in 1..n : g[i - 1] \in D => g[i] \in D
    <2>1. 0 \in 0..n /\ \A i \in 1..n : i \in 0..n /\ i # 0
        OBVIOUS
    <2> QED
        BY <1>2, <1>3, <1>11, <2>1
<1>13. \A i \in 0..n : g[i] \in D
    BY <1>12, KeptAlong
<1> QED
    BY <1>1, <1>13 DEF g, D

----------------------------------------------------------------------------
(* The invariant *)

OfficeInv ==
    /\ admins \in Seq(Officers) /\ Len(admins) > 0 /\ IsInjective(admins)
    /\ pendingAdmin \in Option(Officers)
    /\ verifiers \in Seq(Verifiers) /\ IsInjective(verifiers)
    /\ verifierCount = Len(verifiers)

KycInv ==
    /\ OfficeInv
    /\ Book \in Books
    /\ earliestDay \in Nat /\ schema \in Nat /\ now \in Nat

\* Every decision turns the registry's book into a fair one.
LEMMA DecisionsFair == KycInv /\ DecisionNext => \E b \in FairBooks : SetBook(b)
<1> SUFFICES ASSUME KycInv, NEW v \in Verifiers,
                    \/ \E e \in Entry : Approve(v, e)
                    \/ \E n \in 1..BatchLimit : \E entries \in [1..n -> Entry] : ApproveBatch(v, entries)
                    \/ \E s \in Subjects : Reject(v, s) \/ Revoke(v, s)
                    \/ \E n \in 0..BatchLimit : \E list \in [1..n -> Subjects] : RevokeBatch(v, list)
                    \/ \E s \in Subjects, t \in NewTiers : UpdateTier(v, s, t)
             PROVE  \E b \in FairBooks : SetBook(b)
    BY DEF DecisionNext
<1>0. Book \in FairBooks
    BY DEF KycInv, FairBooks, Grounded, Book
<1>1. ASSUME NEW n \in Nat, NEW entries \in [1..n -> Entry], ApproveBatch(v, entries)
      PROVE  \E b \in FairBooks : SetBook(b)
    <2>1. SetBook(Approvals(v, entries)[Len(entries)]) /\ v \in ToSet(verifiers)
        BY <1>1 DEF ApproveBatch, Approvals, IsApprovals, MayDecide
    <2>2. Approvals(v, entries)[Len(entries)] \in FairBooks
        BY <1>0, <2>1, ApprovalsFair
    <2> QED
        BY <2>1, <2>2
<1>2. ASSUME NEW n \in Nat, NEW subjects \in [1..n -> Subjects], RevokeBatch(v, subjects)
      PROVE  \E b \in FairBooks : SetBook(b)
    <2>1. SetBook(Revocations(v, subjects)[Len(subjects)])
        BY <1>2 DEF RevokeBatch, Revocations, IsRevocations
    <2>2. Revocations(v, subjects)[Len(subjects)] \in FairBooks
        BY <1>0, RevocationsFair
    <2> QED
        BY <2>1, <2>2
<1>3. ASSUME NEW e \in Entry, Approve(v, e) PROVE \E b \in FairBooks : SetBook(b)
    <2>1. <<e>> \in [1..1 -> Entry] /\ ApproveBatch(v, <<e>>)
        BY <1>3 DEF Approve
    <2> QED
        BY <1>1, <2>1
<1>4. ASSUME NEW s \in Subjects, Reject(v, s) \/ Revoke(v, s) PROVE \E b \in FairBooks : SetBook(b)
    <2>1. \/ SetBook(Closed(Book, s, v, "Reject", Outcome("Reject")))
          \/ SetBook(Closed(Book, s, v, "Revoke", Outcome("Revoke")))
        BY <1>4 DEF Reject, Revoke, Outcome
    <2>2. /\ Closed(Book, s, v, "Reject", Outcome("Reject")) \in FairBooks
          /\ Closed(Book, s, v, "Revoke", Outcome("Revoke")) \in FairBooks
        BY <1>0, ClosedFair
    <2> QED
        BY <2>1, <2>2
<1>5. ASSUME NEW s \in Subjects, NEW t \in NewTiers, UpdateTier(v, s, t)
      PROVE  \E b \in FairBooks : SetBook(b)
    <2>1. PICK q \in record[s] : q.status = "Approved" /\ SetBook(TierUpdated(s, v, [q EXCEPT !.tier = t]))
        BY <1>5 DEF UpdateTier
    <2> DEFINE r == [q EXCEPT !.tier = t]
               w == Written(Book, s, "TierUpdate", v, r)
    <2>2. Book \in Books /\ Book \in BookType /\ Book.record = record
        BY DEF KycInv, Books, Book
    <2>3. q \in KycRecord
        BY <2>2, BookFields DEF Option
    <2>4. r \in KycRecord /\ r.status = "Approved" /\ r.expiry = q.expiry
        BY <2>1, <2>3, NumbersAreNats DEF KycRecord
    <2>5. TierUpdated(s, v, r) = w
        BY DEF TierUpdated, Written
    <2> HIDE DEF r
    <2>6. w \in Books
        BY <2>2, <2>4, WrittenSound DEF Kinds, Outcome
    <2>7. IsWritten(w, Book, s, Noted("TierUpdate", v, r), r)
        BY <2>2, <2>4, WrittenFields DEF Kinds
    <2> HIDE DEF w
    <2>8. ASSUME NEW u \in Subjects PROVE Grounded(w, u)
        <3>1. w.record[u] = IF u = s THEN {r} ELSE record[u]
            BY <2>2, <2>7, BookFields DEF IsWritten
        <3>2. CASE u = s
            BY <2>1, <2>4, <3>1, <3>2 DEF Grounded
        <3>3. CASE u # s
            BY <3>1, <3>3 DEF Grounded
        <3> QED
            BY <3>2, <3>3
    <2>9. w \in FairBooks
        BY <2>6, <2>8 DEF FairBooks
    <2> QED
        BY <2>1, <2>5, <2>9 DEF r
<1> QED
    BY <1>1, <1>2, <1>3, <1>4, <1>5, NumbersAreNats

LEMMA OfficeStep == KycInv /\ [Next]_vars => OfficeInv'
<1> SUFFICES ASSUME KycInv, OfficeInv, [Next]_vars PROVE OfficeInv'
    BY DEF KycInv
<1> USE DEF OfficeInv
<1>1. ASSUME NEW c \in Officers, NEW a \in Officers, ProposeAdmin(c, a) PROVE OfficeInv'
    BY <1>1, OneOrNone DEF ProposeAdmin
<1>2. ASSUME NEW c \in Officers, NEW a \in Officers, AddAdmin(c, a) PROVE OfficeInv'
    <2>1. /\ admins' = Append(admins, a) /\ a \notin ToSet(admins)
          /\ UNCHANGED <<pendingAdmin, verifiers, verifierCount>>
        BY <1>2 DEF AddAdmin
    <2>2. admins' \in Seq(Officers) /\ Len(admins') = Len(admins) + 1 /\ IsInjective(admins')
        BY <2>1, Appended
    <2> QED
        BY <2>1, <2>2
<1>3. ASSUME NEW c \in Officers, NEW a \in Officers, RemoveAdmin(c, a) PROVE OfficeInv'
    <2>1. /\ admins' = Without(admins, a) /\ Len(admins) > 1
          /\ UNCHANGED <<pendingAdmin, verifiers, verifierCount>>
        BY <1>3 DEF RemoveAdmin
    <2>2. /\ admins' \in Seq(Officers) /\ IsInjective(admins')
          /\ Len(admins') \in {Len(admins), Len(admins) - 1}
        BY <2>1, WithoutIs
    <2> QED
        BY <2>1, <2>2
<1>4. CASE AcceptAdmin
    <2>1. PICK p \in pendingAdmin : /\ p \notin ToSet(admins) /\ admins' = Append(admins, p)
                                    /\ pendingAdmin' = {} /\ UNCHANGED <<verifiers, verifierCount>>
        BY <1>4 DEF AcceptAdmin
    <2>2. p \in Officers
        BY DEF Option
    <2>3. admins' \in Seq(Officers) /\ Len(admins') = Len(admins) + 1 /\ IsInjective(admins')
        BY <2>1, <2>2, Appended
    <2> QED
        BY <2>1, <2>3, OneOrNone
<1>5. ASSUME NEW c \in Officers, NEW v \in Verifiers, AddVerifier(c, v) PROVE OfficeInv'
    <2>1. /\ verifiers' = Append(verifiers, v) /\ v \notin ToSet(verifiers)
          /\ verifierCount' = verifierCount + 1 /\ UNCHANGED <<admins, pendingAdmin>>
        BY <1>5 DEF AddVerifier
    <2>2. verifiers' \in Seq(Verifiers) /\ Len(verifiers') = Len(verifiers) + 1 /\ IsInjective(verifiers')
        BY <2>1, Appended
    <2> QED
        BY <2>1, <2>2
<1>6. ASSUME NEW c \in Officers, NEW v \in Verifiers, RemoveVerifier(c, v) PROVE OfficeInv'
    <2>1. /\ verifiers' = Without(verifiers, v) /\ UNCHANGED <<admins, pendingAdmin>>
          /\ verifierCount' = IF v \in ToSet(verifiers) /\ verifierCount > 0
                              THEN verifierCount - 1 ELSE verifierCount
        BY <1>6 DEF RemoveVerifier
    <2>2. /\ verifiers' \in Seq(Verifiers) /\ IsInjective(verifiers')
          /\ v \in ToSet(verifiers) => Len(verifiers') = Len(verifiers) - 1
          /\ v \notin ToSet(verifiers) => Len(verifiers') = Len(verifiers)
        BY <2>1, WithoutIs
    <2>3. v \in ToSet(verifiers) => Len(verifiers) > 0
        BY DEF ToSet
    <2> QED
        BY <2>1, <2>2, <2>3
<1>7. CASE UNCHANGED peopleVars
    BY <1>7 DEF peopleVars
<1>8. DecisionNext => UNCHANGED peopleVars
    BY DecisionsFair DEF SetBook
<1>9. AdminNext \/ Tick \/ UNCHANGED vars => UNCHANGED peopleVars
    BY DEF AdminNext, Tick, vars, RevokeAllByVerifier, CompactExpiryBuckets, MigrateSchema
<1> QED
    BY <1>1, <1>2, <1>3, <1>4, <1>5, <1>6, <1>7, <1>8, <1>9 DEF Next, PeopleNext

\* A book is sound after a step if it was, and the days compacted did not change.
LEMMA BookCarried ==
    ASSUME NEW b \in Books, SetBook(b) PROVE Book' \in Books'
<1>1. b \in BookType /\ earliestDay' = earliestDay
    BY DEF Books, SetBook
<1>2. b = [record |-> b.record, last |-> b.last, subjectExpiry |-> b.subjectExpiry, bucket |-> b.bucket,
           subjectsOf |-> b.subjectsOf, log |-> b.log, slots |-> b.slots, logCount |-> b.logCount]
    BY <1>1 DEF BookType
<1>3. Book' = b
    BY <1>2 DEF SetBook, Book
<1>4. \A s \in Subjects : Keyed(b, s) <=> Keyed(b, s)'
    BY <1>1 DEF Keyed
<1>5. b \in Books'
    BY <1>4 DEF Books
<1> QED
    BY <1>3, <1>5

LEMMA BookUntouched ==
    ASSUME Book \in Books, UNCHANGED <<bookVars, earliestDay>> PROVE Book' \in Books'
<1>1. Book' = Book
    BY DEF bookVars, logVars, Book
<1>2. \A s \in Subjects : Keyed(Book, s) <=> Keyed(Book, s)'
    BY <1>1 DEF Keyed
<1> QED
    BY <1>1, <1>2 DEF Books

\* A bulk revocation leaves keys, lists and log as they are.
LEMMA BulkSound ==
    ASSUME Book \in Books, NEW v \in Verifiers, NEW c, RevokeAllByVerifier(c, v)
    PROVE  Book' \in Books'
<1> DEFINE Gone == Reached(v)
<1>1. /\ record' = [s \in Subjects |-> IF s \in Gone THEN {[r EXCEPT !.status = "Revoked"] : r \in record[s]}
                                       ELSE record[s]]
      /\ lastTransition' = [s \in Subjects |->
            IF s \in Gone
            THEN {[kind |-> "Revoke", verifier |-> v, tier |-> r.tier, expiry |-> r.expiry] : r \in record[s]}
            ELSE lastTransition[s]]
      /\ UNCHANGED <<subjectExpiry, bucket, subjectsOf, log, slots, logCount, earliestDay>>
    BY DEF RevokeAllByVerifier, logVars
<1> HIDE DEF Gone
<1>2. /\ Book \in BookType /\ Book.record = record /\ Book.last = lastTransition
      /\ Book.subjectExpiry = subjectExpiry /\ Book.bucket = bucket /\ Book.subjectsOf = subjectsOf
      /\ Book.log = log /\ Book.slots = slots /\ Book.logCount = logCount
    BY DEF Books, Book
<1>3. /\ record \in [Subjects -> Option(KycRecord)] /\ lastTransition \in [Subjects -> Option(KycTransition)]
    BY <1>2, BookFields
<1>4. ASSUME NEW s \in Subjects
      PROVE  /\ \A r \in record[s] : r \in KycRecord /\ \A q \in record[s] : q = r
             /\ Told(Book, s) /\ Listed(Book, s) /\ Keyed(Book, s) /\ Logged(Book, s)
    BY <1>3 DEF Books, Option
<1>5. ASSUME NEW s \in Subjects, s \in Gone
      PROVE  /\ record'[s] \in Option(KycRecord) /\ lastTransition'[s] \in Option(KycTransition)
             /\ \A r \in record'[s] : /\ r.status = "Revoked"
                                      /\ \E q \in record[s] : q.verifier = r.verifier
             /\ record'[s] = {} <=> lastTransition'[s] = {}
             /\ \A r \in record'[s], t \in lastTransition'[s] :
                   t.kind = "Revoke" /\ r.tier = t.tier /\ r.expiry = t.expiry
    <2>1. record'[s] = {[r EXCEPT !.status = "Revoked"] : r \in record[s]}
        BY <1>1, <1>5
    <2>2. lastTransition'[s] =
            {[kind |-> "Revoke", verifier |-> v, tier |-> r.tier, expiry |-> r.expiry] : r \in record[s]}
        BY <1>1, <1>5
    <2>3. CASE record[s] = {}
        <3>1. record'[s] = {} /\ lastTransition'[s] = {}
            BY <2>1, <2>2, <2>3
        <3> QED
            BY <3>1, OneOrNone
    <2>4. CASE record[s] # {}
        <3>1. PICK q \in record[s] : record[s] = {q} /\ q \in KycRecord
            BY <1>4, <2>4
        <3> DEFINE r == [q EXCEPT !.status = "Revoked"]
                   t == [kind |-> "Revoke", verifier |-> v, tier |-> q.tier, expiry |-> q.expiry]
        <3>2. record'[s] = {r} /\ lastTransition'[s] = {t}
            BY <2>1, <2>2, <3>1
        <3>3. /\ r \in KycRecord /\ r.status = "Revoked" /\ r.verifier = q.verifier
              /\ r.tier = q.tier /\ r.expiry = q.expiry
            BY <3>1 DEF KycRecord
        <3>4. t \in KycTransition /\ t.kind = "Revoke" /\ t.tier = q.tier /\ t.expiry = q.expiry
            BY <3>1 DEF KycRecord, KycTransition
        <3> HIDE DEF r, t
        <3> QED
            BY <3>1, <3>2, <3>3, <3>4, OneOrNone
    <2> QED
        BY <2>3, <2>4
<1>6. ASSUME NEW s \in Subjects, s \notin Gone
      PROVE  record'[s] = record[s] /\ lastTransition'[s] = lastTransition[s]
    BY <1>1, <1>6
<1>7. /\ record' \in [Subjects -> Option(KycRecord)]
      /\ lastTransition' \in [Subjects -> Option(KycTransition)]
    <2>1. \A s \in Subjects : record'[s] \in Option(KycRecord) /\ lastTransition'[s] \in Option(KycTransition)
        BY <1>3, <1>5, <1>6
    <2>2. record' = [s \in Subjects |-> record'[s]] /\ lastTransition' = [s \in Subjects |-> lastTransition'[s]]
        BY <1>1
    <2> QED
        BY <2>1, <2>2
<1> DEFINE new == Book'
<1>8. /\ new = [record |-> record', last |-> lastTransition', subjectExpiry |-> subjectExpiry, bucket |-> bucket,
                subjectsOf |-> subjectsOf, log |-> log, slots |-> slots, logCount |-> logCount]
      /\ new.record = record' /\ new.last = lastTransition' /\ new.subjectExpiry = subjectExpiry
      /\ new.bucket = bucket /\ new.subjectsOf = subjectsOf /\ new.log = log /\ new.slots = slots
      /\ new.logCount = logCount
    BY <1>1 DEF Book
<1>9. new \in BookType
    BY <1>2, <1>7, <1>8, BookFields DEF BookType
<1>10. \A w \in Verifiers : IsInjective(new.subjectsOf[w])
    BY <1>2, <1>8 DEF Books
<1> HIDE DEF new
<1>11. ASSUME NEW s \in Subjects
       PROVE  Told(new, s) /\ Listed(new, s) /\ Keyed(Book, s)' /\ Logged(new, s)
    <2>1. Logged(new, s)
        BY <1>2, <1>4, <1>8 DEF Logged
    <2>2. CASE s \notin Gone
        <3>1. new.record[s] = record[s] /\ new.last[s] = lastTransition[s]
            BY <1>6, <1>8, <2>2
        <3>2. Told(new, s)
            BY <1>2, <1>4, <3>1 DEF Told
        <3>3. Listed(new, s)
            BY <1>2, <1>4, <1>8, <3>1 DEF Listed
        <3>4. Keyed(Book, s)'
            <4>1. /\ new.subjectExpiry = Book.subjectExpiry /\ new.bucket = Book.bucket
                  /\ new.record[s] = Book.record[s] /\ earliestDay' = earliestDay
                BY <1>1, <1>2, <1>8, <3>1
            <4> QED
                BY <1>4, <4>1 DEF Keyed, new
        <3> QED
            BY <2>1, <3>2, <3>3, <3>4
    <2>3. CASE s \in Gone
        <3>1. Told(new, s)
            BY <1>5, <1>8, <2>3 DEF Told, Outcome
        <3>2. Listed(new, s)
            BY <1>2, <1>4, <1>5, <1>8, <2>3 DEF Listed
        <3>3. Keyed(Book, s)'
            <4>1. /\ new.subjectExpiry = Book.subjectExpiry /\ new.bucket = Book.bucket
                  /\ (\A r \in new.record[s] : r.status # "Approved") /\ earliestDay' = earliestDay
                BY <1>1, <1>2, <1>5, <1>8, <2>3
            <4> QED
                BY <1>4, <4>1 DEF Keyed, new
        <3> QED
            BY <2>1, <3>1, <3>2, <3>3
    <2> QED
        BY <2>2, <2>3
<1> QED
    BY <1>9, <1>10, <1>11 DEF Books, new

\* Compaction stops no later than the day it was given.
LEMMA StopDayIs ==
    ASSUME NEW before \in Nat, NEW limit, earliestDay \in Nat, before >= earliestDay
    PROVE  StopDay(before, limit) \in earliestDay..before
<1> DEFINE stops(k) == \/ k = before
                       \/ Cardinality({e \in StaleDays(before) : e < k}) = limit
           T == {k \in earliestDay..before : stops(k)}
           fits(d) == stops(d) /\ \A k \in earliestDay..(d - 1) : ~stops(k)
<1>1. before \in T /\ T \subseteq Nat
    OBVIOUS
<1>2. PICK d \in T : \A k \in T : d <= k
    <2> HIDE DEF T
    <2> QED
        BY <1>1, LeastNatural
<1> HIDE DEF stops
<1>3. fits(d)
    <2>1. \A k \in earliestDay..(d - 1) : k \in earliestDay..before /\ ~ (d <= k)
        BY <1>2
    <2> QED
        BY <1>2, <2>1
<1>4. StopDay(before, limit) = CHOOSE d_1 \in earliestDay..before : fits(d_1)
    BY DEF StopDay, stops
<1> HIDE DEF fits
<1> QED
    BY <1>2, <1>3, <1>4

\* Keys of days before the new first day are all that compaction takes away.
LEMMA CompactionSound ==
    ASSUME Book \in Books, earliestDay \in Nat, NEW c, NEW before \in Nat, NEW limit,
           CompactExpiryBuckets(c, before, limit)
    PROVE  Book' \in Books' /\ earliestDay' \in Nat
<1> DEFINE stop == StopDay(before, limit)
<1>1. /\ before >= earliestDay /\ bucket' = bucket \ Compacted(stop) /\ earliestDay' = stop
      /\ UNCHANGED <<record, lastTransition, subjectExpiry, subjectsOf, log, slots, logCount>>
    BY DEF CompactExpiryBuckets, logVars
<1>2. stop \in earliestDay..before
    BY <1>1, StopDayIs
<1> HIDE DEF stop
<1> DEFINE new == Book'
<1>3. /\ Book \in BookType /\ Book.record = record /\ Book.last = lastTransition
      /\ Book.subjectExpiry = subjectExpiry /\ Book.bucket = bucket /\ Book.subjectsOf = subjectsOf
      /\ Book.log = log /\ Book.slots = slots /\ Book.logCount = logCount
    BY DEF Books, Book
<1>4. new = [record |-> record, last |-> lastTransition, subjectExpiry |-> subjectExpiry, bucket |-> bucket',
             subjectsOf |-> subjectsOf, log |-> log, slots |-> slots, logCount |-> logCount]
    BY <1>1 DEF Book
<1>5. /\ new.record = record /\ new.last = lastTransition /\ new.subjectExpiry = subjectExpiry
      /\ new.bucket = bucket' /\ new.subjectsOf = subjectsOf /\ new.log = log /\ new.slots = slots
      /\ new.logCount = logCount
    BY <1>4
<1>6. bucket \subseteq Nat \X Subjects /\ bucket' \subseteq bucket
    BY <1>1, <1>3, BookFields
<1>7. new \in BookType
    BY <1>3, <1>4, <1>6, BookFields DEF BookType
<1> HIDE DEF new
<1>8. ASSUME NEW s \in Subjects
      PROVE  Told(new, s) /\ Listed(new, s) /\ Keyed(Book, s)' /\ Logged(new, s)
    <2>1. Told(Book, s) /\ Listed(Book, s) /\ Keyed(Book, s) /\ Logged(Book, s)
        BY DEF Books
    <2>2. Told(new, s) /\ Listed(new, s) /\ Logged(new, s)
        BY <1>3, <1>5, <2>1 DEF Told, Listed, Logged
    <2>3. ASSUME NEW e \in subjectExpiry[s], DayOf(e) >= stop
          PROVE  <<DayOf(e), s>> \in bucket'
        <3>1. e \in Nat
            BY <1>3, BookFields DEF Option
        <3>2. DayOf(e) \in Nat
            BY <3>1, DayIsPositive DEF DayOf
        <3>3. DayOf(e) >= earliestDay /\ ~ (DayOf(e) < stop)
            BY <1>2, <2>3, <3>2
        <3>4. <<DayOf(e), s>> \in bucket
            BY <1>3, <2>1, <3>3 DEF Keyed
        <3> QED
            BY <1>1, <3>3, <3>4 DEF Compacted
    <2>4. Keyed(Book, s)'
        <3>1. \A r \in record[s] : r.status = "Approved" => subjectExpiry[s] = ExpiryKey(r)
            BY <1>3, <2>1 DEF Keyed
        <3> QED
            BY <1>1, <1>5, <2>3, <3>1 DEF Keyed, new
    <2> QED
        BY <2>2, <2>4
<1>9. \A v \in Verifiers : IsInjective(new.subjectsOf[v])
    BY <1>3, <1>5 DEF Books
<1>10. Book' \in Books'
    BY <1>7, <1>8, <1>9 DEF Books, new
<1>11. earliestDay' \in Nat
    BY <1>1, <1>2
<1> QED
    BY <1>10, <1>11

\* Rebuilding the logs of all decisions gives the logs.
LEMMA MigrationSound ==
    ASSUME WholeMigrations, Book \in Books, NEW c, NEW to, NEW batch \in MigrationBatches,
           MigrateSchema(c, to, batch)
    PROVE  Book' \in Books'
<1>1. batch = 0
    BY DEF WholeMigrations
<1>2. /\ Book \in BookType /\ Book.log = log /\ Book.slots = slots /\ Book.logCount = logCount
      /\ \A s \in Subjects : Logged(Book, s)
    BY DEF Books, Book
<1>3. /\ log \in Seq(Subjects) /\ slots \in [Subjects -> Nat] /\ logCount \in [Subjects -> Nat]
    BY <1>2, BookFields
<1>4. \A s \in Subjects : Rebuilt(s, log) = logCount[s] /\ slots[s] = logCount[s]
    BY <1>2 DEF Rebuilt, Logged
<1>5. CASE to = 2
    <2>1. /\ logCount' = [s \in Subjects |-> Rebuilt(s, log)]
          /\ slots' = [s \in Subjects |-> IF slots[s] < Rebuilt(s, log) THEN Rebuilt(s, log) ELSE slots[s]]
        BY <1>1, <1>5 DEF MigrateSchema
    <2>2. \A s \in Subjects : logCount'[s] = logCount[s] /\ slots'[s] = slots[s]
        BY <1>3, <1>4, <2>1
    <2>3. logCount' = logCount /\ slots' = slots
        BY <1>3, <2>1, <2>2
    <2>4. UNCHANGED <<bookVars, earliestDay>>
        BY <2>3 DEF MigrateSchema, bookVars, logVars
    <2> QED
        BY <2>4, BookUntouched
<1>6. CASE to # 2
    <2>1. UNCHANGED <<bookVars, earliestDay>>
        BY <1>6 DEF MigrateSchema, bookVars, logVars
    <2> QED
        BY <2>1, BookUntouched
<1> QED
    BY <1>5, <1>6

LEMMA KycStart == Init => KycInv
<1> SUFFICES ASSUME Init PROVE KycInv
    OBVIOUS
<1>1. OfficeInv
    <2>1. PICK a \in Officers : admins = <<a>>
        BY DEF Init
    <2>2. IsInjective(<<a>>) /\ IsInjective(<<>>)
        BY DEF IsInjective
    <2> QED
        BY <2>1, <2>2, OneOrNone DEF Init, OfficeInv
<1>2. Book = [record |-> [s \in Subjects |-> {}], last |-> [s \in Subjects |-> {}],
              subjectExpiry |-> [s \in Subjects |-> {}], bucket |-> {}, subjectsOf |-> [v \in Verifiers |-> <<>>],
              log |-> <<>>, slots |-> [s \in Subjects |-> 0], logCount |-> [s \in Subjects |-> 0]]
    BY DEF Init, Book
<1>3. \A S : {} \in Option(S)
    BY OneOrNone
<1>4. Book \in BookType
    BY <1>2, <1>3 DEF BookType
<1>5. \A v \in Verifiers : IsInjective(Book.subjectsOf[v])
    BY <1>2 DEF IsInjective
<1>6. ASSUME NEW s \in Subjects PROVE Told(Book, s) /\ Listed(Book, s) /\ Keyed(Book, s) /\ Logged(Book, s)
    <2>1. /\ Book.record[s] = {} /\ Book.last[s] = {} /\ Book.subjectExpiry[s] = {}
          /\ Book.log = <<>> /\ Book.slots[s] = 0 /\ Book.logCount[s] = 0
        BY <1>2
    <2>2. EntriesAbout(s, <<>>) = 0
        <3>1. {i \in DOMAIN <<>> : <<>>[i] = s} = {}
            OBVIOUS
        <3> QED
            BY <3>1, FS_EmptySet DEF EntriesAbout
    <2> QED
        BY <2>1, <2>2 DEF Told, Listed, Keyed, Logged
<1> QED
    BY <1>1, <1>4, <1>5, <1>6 DEF KycInv, Books, Init

LEMMA KycStep == WholeMigrations /\ KycInv /\ [Next]_vars => KycInv'
<1> SUFFICES ASSUME WholeMigrations, KycInv, [Next]_vars PROVE KycInv'
    OBVIOUS
<1>1. OfficeInv'
    BY OfficeStep
<1>2. Book \in Books /\ earliestDay \in Nat /\ schema \in Nat /\ now \in Nat
    BY DEF KycInv
<1>3. CASE DecisionNext
    <2>1. PICK b \in FairBooks : SetBook(b)
        BY <1>3, DecisionsFair
    <2>2. b \in Books
        BY DEF FairBooks
    <2>3. Book' \in Books'
        BY <2>1, <2>2, BookCarried
    <2>4. UNCHANGED <<earliestDay, schema, now>>
        BY <2>1 DEF SetBook
    <2> QED
        BY <1>1, <1>2, <2>3, <2>4 DEF KycInv
<1>4. CASE PeopleNext \/ Tick \/ UNCHANGED vars
    <2>1. UNCHANGED <<bookVars, earliestDay>> /\ schema' = schema /\ now' \in Nat
        BY <1>2, <1>4 DEF PeopleNext, ProposeAdmin, AddAdmin, RemoveAdmin, AcceptAdmin, AddVerifier, RemoveVerifier,
                          Tick, vars
    <2>2. Book' \in Books'
        BY <1>2, <2>1, BookUntouched
    <2> QED
        BY <1>1, <1>2, <2>1, <2>2 DEF KycInv
<1>5. ASSUME NEW c \in Officers, NEW v \in Verifiers, RevokeAllByVerifier(c, v) PROVE KycInv'
    <2>1. Book' \in Books'
        BY <1>2, <1>5, BulkSound
    <2>2. UNCHANGED <<earliestDay, schema, now>>
        BY <1>5 DEF RevokeAllByVerifier
    <2> QED
        BY <1>1, <1>2, <2>1, <2>2 DEF KycInv
<1>6. ASSUME NEW c \in Officers, NEW d \in Horizons, NEW n, CompactExpiryBuckets(c, d, n) PROVE KycInv'
    <2>1. d \in Nat
        BY NumbersAreNats
    <2>2. Book' \in Books' /\ earliestDay' \in Nat
        BY <1>2, <1>6, <2>1, CompactionSound
    <2>3. UNCHANGED <<schema, now>>
        BY <1>6 DEF CompactExpiryBuckets
    <2> QED
        BY <1>1, <1>2, <2>2, <2>3 DEF KycInv
<1>7. ASSUME NEW c \in Officers, NEW t \in 2..MaxSchema, NEW n \in MigrationBatches, MigrateSchema(c, t, n)
      PROVE  KycInv'
    <2>1. Book' \in Books'
        BY <1>2, <1>7, MigrationSound
    <2>2. schema' \in Nat /\ UNCHANGED <<earliestDay, now>>
        BY <1>7, NumbersAreNats DEF MigrateSchema
    <2> QED
        BY <1>1, <1>2, <2>1, <2>2 DEF KycInv
<1> QED
    BY <1>3, <1>4, <1>5, <1>6, <1>7 DEF Next, AdminNext

LEMMA KycInvHolds == ASSUME WholeMigrations PROVE Spec => []KycInv
<1>1. KycInv /\ [Next]_vars => KycInv'
    BY KycStep
<1> QED
    BY <1>1, KycStart, PTL DEF Spec

----------------------------------------------------------------------------
(* Records *)

\* Later moments fall on no earlier days.
LEMMA DaysInOrder ==
    ASSUME NEW a \in Nat, NEW b \in Nat, a <= b
    PROVE  DayOf(a) \in Nat /\ DayOf(a) <= DayOf(b)
<1>1. Day \in Nat /\ Day > 0
    BY DayIsPositive
<1> DEFINE p == a \div Day
           q == b \div Day
<1>2. p \in Nat /\ q \in Nat /\ Day * p <= a /\ b < Day * (q + 1)
    BY <1>1
<1> HIDE DEF p, q
<1>3. p <= q
    <2> SUFFICES ASSUME q + 1 <= p PROVE FALSE
        BY <1>2
    <2>1. Day * (q + 1) <= Day * p
        BY <1>1, <1>2
    <2>2. Day * (q + 1) \in Int /\ Day * p \in Int
        BY <1>1, <1>2
    <2> QED
        BY <1>2, <2>1, <2>2
<1> QED
    BY <1>2, <1>3 DEF DayOf, p, q

LEMMA BookOfInv ==
    ASSUME KycInv
    PROVE  /\ record \in [Subjects -> Option(KycRecord)]
           /\ lastTransition \in [Subjects -> Option(KycTransition)]
           /\ subjectExpiry \in [Subjects -> Option(Nat \ {0})]
           /\ bucket \subseteq Nat \X Subjects
           /\ subjectsOf \in [Verifiers -> Seq(Subjects)]
           /\ log \in Seq(Subjects)
           /\ slots \in [Subjects -> Nat]
           /\ logCount \in [Subjects -> Nat]
           /\ \A v \in Verifiers : IsInjective(subjectsOf[v])
           /\ \A s \in Subjects : Told(Book, s) /\ Listed(Book, s) /\ Keyed(Book, s) /\ Logged(Book, s)
<1>1. Book \in BookType
    BY DEF KycInv, Books
<1>2. /\ Book.record = record /\ Book.last = lastTransition
      /\ Book.subjectExpiry = subjectExpiry /\ Book.bucket = bucket /\ Book.subjectsOf = subjectsOf
      /\ Book.log = log /\ Book.slots = slots /\ Book.logCount = logCount
    BY DEF Book
<1>3. /\ \A v \in Verifiers : IsInjective(Book.subjectsOf[v])
      /\ \A s \in Subjects : Told(Book, s) /\ Listed(Book, s) /\ Keyed(Book, s) /\ Logged(Book, s)
    BY DEF KycInv, Books
<1> QED
    BY <1>1, <1>2, <1>3, BookFields

\* The query by days lists exactly the approvals that expire in the window and on
\* a day that was not compacted away, each once.
LEMMA ListingExact == KycInv => ExpiringSoonExact
<1> SUFFICES ASSUME KycInv, NEW w \in Windows
             PROVE  LET due == {s \in Subjects : \E r \in record[s] :
                                 r.status = "Approved" /\ r.expiry > now /\ r.expiry <= now + w}
                        listed == GetExpiringSoon(w)
                    IN  /\ {p[2] : p \in listed} \subseteq due
                        /\ \A p, q \in listed : p[2] = q[2] => p = q
                        /\ \A s \in due : (\E r \in record[s] : DayOf(r.expiry) >= earliestDay)
                                             => \E p \in listed : p[2] = s
    BY DEF ExpiringSoonExact
<1> DEFINE due == {s \in Subjects : \E r \in record[s] :
                     r.status = "Approved" /\ r.expiry > now /\ r.expiry <= now + w}
           listed == GetExpiringSoon(w)
<1>1. now \in Nat /\ w \in Nat /\ now + w \in Nat
    BY NumbersAreNats DEF KycInv
<1>2. ASSUME NEW s \in Subjects
      PROVE  /\ \A r \in record[s] : r.expiry \in Nat /\ \A q \in record[s] : q = r
             /\ \A r \in record[s] : r.status = "Approved" => subjectExpiry[s] = ExpiryKey(r)
             /\ \A e \in subjectExpiry[s] : e \in Nat /\ e # 0 /\ \A f \in subjectExpiry[s] : f = e
             /\ \A e \in subjectExpiry[s] : DayOf(e) >= earliestDay => <<DayOf(e), s>> \in bucket
    <2>1. record[s] \in Option(KycRecord) /\ subjectExpiry[s] \in Option(Nat \ {0}) /\ Keyed(Book, s)
        BY BookOfInv
    <2>2. Book.record = record /\ Book.subjectExpiry = subjectExpiry /\ Book.bucket = bucket
        BY DEF Book
    <2>3. \A r \in record[s] : r.expiry \in Nat /\ \A q \in record[s] : q = r
        BY <2>1 DEF Option, KycRecord
    <2>4. \A e \in subjectExpiry[s] : e \in Nat /\ e # 0 /\ \A f \in subjectExpiry[s] : f = e
        BY <2>1 DEF Option
    <2> QED
        BY <2>1, <2>2, <2>3, <2>4 DEF Keyed
<1>3. ASSUME NEW p \in listed
      PROVE  /\ p \in Nat \X Subjects /\ p[2] \in Subjects
             /\ p = <<p[1], p[2]>>
             /\ \E e \in subjectExpiry[p[2]] : DayOf(e) = p[1] /\ e > now /\ e <= now + w
             /\ \E r \in record[p[2]] : r.status = "Approved"
    BY BookOfInv DEF GetExpiringSoon, Expiring
<1>4. \A p \in listed : p[2] \in due
    <2> SUFFICES ASSUME NEW p \in listed PROVE p[2] \in due
        OBVIOUS
    <2>1. PICK e \in subjectExpiry[p[2]] : e > now /\ e <= now + w
        BY <1>3
    <2>2. PICK r \in record[p[2]] : r.status = "Approved"
        BY <1>3
    <2>3. subjectExpiry[p[2]] = ExpiryKey(r)
        BY <1>2, <1>3, <2>2
    <2>4. r.expiry = e
        BY <2>1, <2>3 DEF ExpiryKey
    <2> QED
        BY <1>3, <2>1, <2>2, <2>4
<1>5. \A p, q \in listed : p[2] = q[2] => p = q
    <2> SUFFICES ASSUME NEW p \in listed, NEW q \in listed, p[2] = q[2] PROVE p = q
        OBVIOUS
    <2>1. PICK e \in subjectExpiry[p[2]] : DayOf(e) = p[1]
        BY <1>3
    <2>2. PICK f \in subjectExpiry[p[2]] : DayOf(f) = q[1]
        BY <1>3
    <2>3. e = f
        BY <1>2, <1>3
    <2>4. p = <<p[1], p[2]>> /\ q = <<q[1], q[2]>>
        BY <1>3
    <2> QED
        BY <2>1, <2>2, <2>3, <2>4
<1>6. ASSUME NEW s \in due, \E r \in record[s] : DayOf(r.expiry) >= earliestDay
      PROVE  \E p \in listed : p[2] = s
    <2>1. PICK r \in record[s] : r.status = "Approved" /\ r.expiry > now /\ r.expiry <= now + w
        OBVIOUS
    <2> DEFINE e == r.expiry
               p == <<DayOf(e), s>>
    <2>2. s \in Subjects /\ e \in Nat /\ e # 0
        BY <1>1, <1>2, <2>1
    <2>3. subjectExpiry[s] = {e} /\ DayOf(e) >= earliestDay
        BY <1>2, <1>6, <2>1, <2>2 DEF ExpiryKey
    <2>4. p \in bucket
        BY <1>2, <2>2, <2>3
    <2>5. DayOf(now) <= DayOf(e) /\ DayOf(e) <= DayOf(now + w)
        BY <1>1, <2>1, <2>2, DaysInOrder
    <2>6. DayOf(now) \in Nat /\ DayOf(e) \in Nat /\ DayOf(now + w) \in Nat
        BY <1>1, <2>2, DaysInOrder
    <2> HIDE DEF e
    <2>7. DayOf(e) \in DayOf(now)..(DayOf(now + w) + 1)
        BY <2>5, <2>6
    <2>8. Expiring(DayOf(e), s, w)
        BY <2>1, <2>3 DEF Expiring, e
    <2>9. p \in listed
        BY <2>1, <2>4, <2>7, <2>8 DEF GetExpiringSoon
    <2> QED
        BY <2>9
<1> HIDE DEF due, listed
<1>7. /\ {p[2] : p \in listed} \subseteq due
      /\ \A p, q \in listed : p[2] = q[2] => p = q
      /\ \A s \in due : (\E r \in record[s] : DayOf(r.expiry) >= earliestDay) => \E p \in listed : p[2] = s
    BY <1>4, <1>5, <1>6
<1> QED
    BY <1>7 DEF due, listed

\* Record, journal, lists, keys and logs agree, for any subjects, verifiers, days
\* and batches, while the second migration goes through the log in one piece.
THEOREM RecordsHold == ASSUME WholeMigrations PROVE Spec => []RecordsSound
<1>1. KycInv => RecordsSound
    <2> SUFFICES ASSUME KycInv PROVE RecordsSound
        OBVIOUS
    <2>1. /\ Book.record = record /\ Book.last = lastTransition /\ Book.subjectsOf = subjectsOf
          /\ Book.log = log /\ Book.slots = slots /\ Book.logCount = logCount
        BY DEF Book
    <2>2. \A s \in Subjects : Told(Book, s) /\ Listed(Book, s) /\ Logged(Book, s)
        BY BookOfInv
    <2>3. \A s \in Subjects : record[s] \subseteq KycRecord /\ lastTransition[s] \subseteq KycTransition
        BY BookOfInv DEF Option
    <2>4. TypeOK
        BY <2>3, BookOfInv DEF TypeOK, KycInv, OfficeInv
    <2>5. OfficeSound
        BY DEF OfficeSound, KycInv, OfficeInv
    <2>6. JournalTellsRecord
        BY <2>1, <2>2 DEF JournalTellsRecord, Told
    <2>7. ListsCoverRecords
        BY <2>1, <2>2, BookOfInv DEF ListsCoverRecords, Listed
    <2>8. LogComplete
        BY <2>1, <2>2 DEF LogComplete, Logged
    <2> QED
        BY <2>4, <2>5, <2>6, <2>7, <2>8, ListingExact DEF RecordsSound
<1> QED
    BY <1>1, KycInvHolds, PTL

----------------------------------------------------------------------------
(* Approvals *)

\* Nobody becomes approved but by a verifier in office.
LEMMA ApprovalStep ==
    ASSUME KycInv, [Next]_vars, NEW s \in Subjects, ~IsApproved(s), IsApproved(s)'
    PROVE  \E t \in lastTransition'[s] : t.kind = "Approve" /\ t.verifier \in ToSet(verifiers)
<1>1. PICK r \in record'[s] : r.status = "Approved" /\ (r.expiry = 0 \/ r.expiry > now')
    BY DEF IsApproved
<1>2. \A q \in record[s] : q.status = "Approved" => q.expiry # 0 /\ ~ (q.expiry > now)
    BY DEF IsApproved
<1>3. CASE DecisionNext
    <2>1. PICK b \in FairBooks : SetBook(b)
        BY <1>3, DecisionsFair
    <2>2. record' = b.record /\ lastTransition' = b.last /\ now' = now
        BY <2>1 DEF SetBook
    <2>3. Grounded(b, s)
        BY DEF FairBooks
    <2>4. ~ \E q \in record[s] : q.status = r.status /\ q.expiry = r.expiry
        BY <1>1, <1>2, <2>2
    <2> QED
        BY <1>1, <2>2, <2>3, <2>4 DEF Grounded
<1>4. CASE record' = record /\ now' \in {now, now + 1}
    <2>1. r.expiry \in Nat /\ now \in Nat
        BY <1>1, <1>4, BookOfInv DEF Option, KycRecord, KycInv
    <2>2. r.expiry = 0 \/ r.expiry > now
        BY <1>1, <1>4, <2>1
    <2> QED
        BY <1>1, <1>2, <1>4, <2>2
<1>5. ASSUME NEW c \in Officers, NEW v \in Verifiers, RevokeAllByVerifier(c, v) PROVE FALSE
    <2>1. /\ record'[s] = IF s \in Reached(v) THEN {[q EXCEPT !.status = "Revoked"] : q \in record[s]} ELSE record[s]
          /\ now' = now
        BY <1>5 DEF RevokeAllByVerifier
    <2>2. CASE s \in Reached(v)
        <3>1. PICK q \in record[s] : r = [q EXCEPT !.status = "Revoked"]
            BY <1>1, <2>1, <2>2
        <3>2. q \in KycRecord
            BY BookOfInv DEF Option
        <3> QED
            BY <1>1, <3>1, <3>2 DEF KycRecord
    <2>3. CASE s \notin Reached(v)
        BY <1>1, <1>2, <2>1, <2>3
    <2> QED
        BY <2>2, <2>3
<1>6. PeopleNext \/ Tick \/ UNCHANGED vars => record' = record /\ now' \in {now, now + 1}
    BY DEF PeopleNext, ProposeAdmin, AddAdmin, RemoveAdmin, AcceptAdmin, AddVerifier, RemoveVerifier, Tick, vars, bookVars
<1>7. ASSUME NEW c \in Officers,
             \/ \E d \in Horizons, n \in {1, 2} : CompactExpiryBuckets(c, d, n)
             \/ \E t \in 2..MaxSchema, n \in MigrationBatches : MigrateSchema(c, t, n)
      PROVE  record' = record /\ now' = now
    BY <1>7 DEF CompactExpiryBuckets, MigrateSchema
<1> QED
    BY <1>3, <1>4, <1>5, <1>6, <1>7 DEF Next, AdminNext

\* Tier changes, bulk operations, migrations, the clock and former verifiers bring
\* no approval about.
THEOREM ApprovalsAreByVerifiers == ASSUME WholeMigrations PROVE Spec => ApprovedByVerifier
<1>1. KycInv /\ [Next]_vars =>
        [\A s \in Subjects : ~IsApproved(s) /\ IsApproved(s)' =>
          \E t \in lastTransition'[s] : t.kind = "Approve" /\ t.verifier \in ToSet(verifiers)]_vars
    BY ApprovalStep
<1> QED
    BY <1>1, KycInvHolds, PTL DEF Spec, ApprovedByVerifier
=============================================================================
