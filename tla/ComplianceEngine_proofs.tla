----------------------- MODULE ComplianceEngine_proofs -----------------------
(***************************************************************************)
(* The engine's records, counters and time lock, for any addresses, rules, *)
(* legacy vectors and delays.  The invariant has one part per area of the  *)
(* state; each entry point writes one area, and the history beside it.     *)
(***************************************************************************)
EXTENDS EngineDecisions, SumLemmas, TLAPS

----------------------------------------------------------------------------
(* Address lists *)

Members(A) == UNION {[0..(k - 1) -> A] : k \in Nat}

\* The lists over A whose entries, slots and size agree.
SoundLists(A) == {l \in [entry : SUBSET A, member : Members(A), size : Nat] : ListSound(l)}

LEMMA SoundListParts ==
    ASSUME NEW A, NEW l \in SoundLists(A)
    PROVE  /\ l.entry \subseteq A /\ l.size \in Nat
           /\ l = [entry |-> l.entry, member |-> l.member, size |-> l.size]
           /\ l.member \in [0..(l.size - 1) -> A]
           /\ \A i, j \in 0..(l.size - 1) : l.member[i] = l.member[j] => i = j
           /\ l.entry = {l.member[i] : i \in 0..(l.size - 1)}
           /\ ListSound(l)
<1>1. l \in [entry : SUBSET A, member : Members(A), size : Nat] /\ ListSound(l)
    BY DEF SoundLists
<1>2. DOMAIN l.member = 0..(l.size - 1) /\ l.size \in Nat /\ l.entry \subseteq A
    BY <1>1 DEF ListSound
<1>3. PICK k \in Nat : l.member \in [0..(k - 1) -> A]
    BY <1>1 DEF Members
<1>4. l.member \in [0..(l.size - 1) -> A]
    BY <1>2, <1>3
<1> QED
    BY <1>1, <1>2, <1>4 DEF ListSound

LEMMA SoundListOf ==
    ASSUME NEW A, NEW n \in Nat, NEW m \in [0..(n - 1) -> A],
           \A i, j \in 0..(n - 1) : m[i] = m[j] => i = j,
           NEW e, e = {m[i] : i \in 0..(n - 1)}
    PROVE  [entry |-> e, member |-> m, size |-> n] \in SoundLists(A)
<1> DEFINE l == [entry |-> e, member |-> m, size |-> n]
<1>1. m \in Members(A)
    BY DEF Members
<1>2. e \in SUBSET A
    OBVIOUS
<1>3. l \in [entry : SUBSET A, member : Members(A), size : Nat]
    BY <1>1, <1>2
<1>4. l.entry = e /\ l.member = m /\ l.size = n /\ DOMAIN m = 0..(n - 1)
    OBVIOUS
<1>5. ListSound(l)
    <2> HIDE DEF l
    <2> QED
        BY <1>4 DEF ListSound
<1> QED
    BY <1>3, <1>5 DEF SoundLists

LEMMA EmptyListSound == ASSUME NEW A PROVE EmptyList \in SoundLists(A)
<1> DEFINE m == [i \in {} |-> i]
<1>1. 0..(0 - 1) = {}
    OBVIOUS
<1>2. m \in [0..(0 - 1) -> A] /\ {} = {m[i] : i \in 0..(0 - 1)}
    BY <1>1
<1>3. \A i, j \in 0..(0 - 1) : m[i] = m[j] => i = j
    BY <1>1
<1> HIDE DEF m
<1>4. [entry |-> {}, member |-> m, size |-> 0] \in SoundLists(A)
    BY <1>2, <1>3, SoundListOf
<1> QED
    BY <1>4 DEF EmptyList, m

\* A new address takes the slot after the last.
LEMMA AddedSound ==
    ASSUME NEW A, NEW l \in SoundLists(A), NEW a \in A, a \notin l.entry
    PROVE  Added(l, a) \in SoundLists(A) /\ Added(l, a).entry = l.entry \cup {a}
<1> DEFINE n == l.size
           m == [i \in 0..n |-> IF i = n THEN a ELSE l.member[i]]
<1>1. /\ n \in Nat /\ l.member \in [0..(n - 1) -> A]
      /\ \A i, j \in 0..(n - 1) : l.member[i] = l.member[j] => i = j
      /\ l.entry = {l.member[i] : i \in 0..(n - 1)}
    BY SoundListParts
<1>2. 0..(n - 1) \cup {n} = 0..n /\ (n + 1) - 1 = n /\ n + 1 \in Nat
    BY <1>1
<1>3. \A i \in 0..n : i # n => i \in 0..(n - 1)
    BY <1>1
<1>4. Added(l, a) = [entry |-> l.entry \cup {a}, member |-> m, size |-> n + 1]
    <2>1. DOMAIN l.member = 0..(n - 1)
        BY <1>1
    <2> QED
        BY <1>2, <2>1 DEF Added
<1> HIDE DEF n
<1>5. m \in [0..n -> A]
    BY <1>1, <1>3
<1>6. \A i \in 0..n : m[i] = IF i = n THEN a ELSE l.member[i]
    OBVIOUS
<1> HIDE DEF m
<1>7. \A i \in 0..(n - 1) : l.member[i] # a
    BY <1>1
<1>8. \A i, j \in 0..n : m[i] = m[j] => i = j
    BY <1>1, <1>3, <1>6, <1>7
<1>9. l.entry \cup {a} = {m[i] : i \in 0..n}
    <2>1. \A i \in 0..(n - 1) : i \in 0..n /\ i # n
        BY <1>1
    <2>2. n \in 0..n
        BY <1>1
    <2> QED
        BY <1>1, <1>3, <1>6, <2>1, <2>2, SMTT(30)
<1> DEFINE k == n + 1
<1>10. k \in Nat /\ k - 1 = n
    BY <1>2
<1> HIDE DEF k
<1>11. [entry |-> l.entry \cup {a}, member |-> m, size |-> k] \in SoundLists(A)
    BY <1>5, <1>8, <1>9, <1>10, SoundListOf
<1> QED
    BY <1>4, <1>11 DEF k

\* The last address fills the slot of the removed one.
LEMMA RemovedSound ==
    ASSUME NEW A, NEW l \in SoundLists(A), NEW a \in l.entry
    PROVE  Removed(l, a) \in SoundLists(A) /\ Removed(l, a).entry = l.entry \ {a}
<1> DEFINE n == l.size
           last == n - 1
           pos == CHOOSE i \in Positions(l, a) : \A j \in Positions(l, a) : i <= j
           m == [i \in 0..(last - 1) |-> IF i = pos THEN l.member[last] ELSE l.member[i]]
<1>1. /\ n \in Nat /\ l.member \in [0..last -> A]
      /\ \A i, j \in 0..last : l.member[i] = l.member[j] => i = j
      /\ l.entry = {l.member[i] : i \in 0..last}
    BY SoundListParts
<1>2. PICK p \in 0..last : l.member[p] = a
    BY <1>1
<1>3. Positions(l, a) = {p}
    BY <1>1, <1>2 DEF Positions
<1>4. pos = p
    BY <1>2, <1>3
<1>5. last \in Nat /\ p \in 0..last /\ 0..last \ {last} = 0..(last - 1)
    BY <1>1, <1>2
<1>6. Removed(l, a) = [entry |-> l.entry \ {a}, member |-> m, size |-> last]
    <2>1. DOMAIN l.member = 0..last
        BY <1>1
    <2>2. DOMAIN l.member \ {last} = 0..(last - 1)
        BY <1>5, <2>1
    <2>3. Positions(l, a) # {}
        BY <1>3
    <2> HIDE DEF pos
    <2> QED
        BY <2>2, <2>3 DEF Removed, pos
<1>7. \A i \in 0..(last - 1) : i \in 0..last /\ i # last
    BY <1>5
<1>8. \A i \in 0..(last - 1) : m[i] = IF i = p THEN l.member[last] ELSE l.member[i]
    BY <1>4
<1>9. last \in 0..last /\ \A i \in 0..last : i # last => i \in 0..(last - 1)
    BY <1>5
<1>10. m \in [0..(last - 1) -> A]
    BY <1>1, <1>7, <1>9
<1> HIDE DEF m, last, n, pos
<1>11. \A i, j \in 0..(last - 1) : m[i] = m[j] => i = j
    BY <1>1, <1>5, <1>7, <1>8, <1>9
<1>12. l.entry \ {a} = {m[i] : i \in 0..(last - 1)}
    <2>1. ASSUME NEW x \in l.entry \ {a}
          PROVE  \E i \in 0..(last - 1) : x = m[i]
        <3>1. PICK i \in 0..last : x = l.member[i]
            BY <1>1, <2>1
        <3>2. i # p
            BY <1>2, <2>1, <3>1
        <3>3. CASE i = last
            <4>1. p \in 0..(last - 1)
                BY <1>5, <1>9, <3>2, <3>3
            <4>2. m[p] = x
                BY <1>8, <3>1, <3>3, <4>1
            <4> QED
                BY <4>1, <4>2
        <3>4. CASE i # last
            <4>1. i \in 0..(last - 1)
                BY <1>9, <3>4
            <4>2. m[i] = x
                BY <1>8, <3>1, <3>2, <4>1
            <4> QED
                BY <4>1, <4>2
        <3> QED
            BY <3>3, <3>4
    <2>2. ASSUME NEW i \in 0..(last - 1)
          PROVE  m[i] \in l.entry \ {a}
        <3>1. PICK j \in 0..last : m[i] = l.member[j] /\ j # p
            BY <1>5, <1>7, <1>8, <1>9
        <3> QED
            BY <1>1, <1>2, <1>5, <3>1
    <2> QED
        BY <2>1, <2>2
<1>13. [entry |-> l.entry \ {a}, member |-> m, size |-> last] \in SoundLists(A)
    BY <1>5, <1>10, <1>11, <1>12, SoundListOf
<1> QED
    BY <1>6, <1>13

IsMigrated(l, old, upTo) ==
    upTo = [i \in 0..Len(old) |->
              IF i = 0 THEN l
              ELSE IF old[i] \in upTo[i - 1].entry THEN upTo[i - 1]
              ELSE Added(upTo[i - 1], old[i])]

MigratedUpTo(l, old) == CHOOSE upTo : IsMigrated(l, old, upTo)

\* A migration lists the old vector's addresses beside the new ones.
LEMMA MigratedSound ==
    ASSUME NEW A, NEW l \in SoundLists(A), NEW old \in Seq(A)
    PROVE  Migrated(l, old) \in SoundLists(A) /\ Migrated(l, old).entry = l.entry \cup Elems(old)
<1> DEFINE n == Len(old)
           D == SoundLists(A)
           next(v, i) == IF old[i] \in v.entry THEN v ELSE Added(v, old[i])
           step == [i \in 1..n |-> [v \in D |-> next(v, i)]]
<1>1. n \in Nat /\ DOMAIN old = 1..n /\ \A i \in 1..n : old[i] \in A
    OBVIOUS
<1>2. \A i \in 1..n, v \in D : next(v, i) \in D /\ next(v, i).entry = v.entry \cup {old[i]}
    BY <1>1, AddedSound
<1> HIDE DEF D, next
<1>3. step \in [1..n -> [D -> D]] /\ \A i \in 1..n, v \in D : step[i][v] = next(v, i)
    BY <1>2
<1>4. l \in D
    BY DEF D
<1> HIDE DEF step, n
<1>5. PICK f \in [0..n -> D] : f[0] = l /\ \A i \in 1..n : f[i] = step[i][f[i - 1]]
    <2>1. \E f : Runs(f, D, l, n, step)
        BY <1>1, <1>3, <1>4, Recursion
    <2> QED
        BY <2>1 DEF Runs
<1>6. \A i \in 1..n : i - 1 \in 0..n /\ i \in 0..n /\ i # 0
    BY <1>1
<1>7. \A i \in 1..n : f[i] = next(f[i - 1], i)
    BY <1>3, <1>5, <1>6
<1>8. \A i \in 0..n : i # 0 => i \in 1..n
    BY <1>1
<1>9. f = [i \in 0..n |-> IF i = 0 THEN l ELSE next(f[i - 1], i)]
    <2>1. \A i \in 0..n : f[i] = IF i = 0 THEN l ELSE next(f[i - 1], i)
        BY <1>5, <1>7, <1>8
    <2>2. f = [i \in 0..n |-> f[i]]
        BY <1>5
    <2> QED
        BY <2>1, <2>2
<1>10. IsMigrated(l, old, f)
    BY <1>9 DEF IsMigrated, next, n
<1> DEFINE g == MigratedUpTo(l, old)
<1>11. IsMigrated(l, old, g)
    BY <1>10 DEF MigratedUpTo
<1>12. Migrated(l, old) = g[n]
    BY DEF Migrated, MigratedUpTo, IsMigrated, n
<1> HIDE DEF g
<1>13. \A i \in 0..n : g[i] = IF i = 0 THEN l ELSE next(g[i - 1], i)
    BY <1>11 DEF IsMigrated, next, n
<1> DEFINE Seen(i) == {old[j] : j \in 1..i}
           N == {i \in Nat : i <= n => g[i] \in D /\ g[i].entry = l.entry \cup Seen(i)}
<1>14. 0 \in N
    <2>1. 0 \in 0..n /\ Seen(0) = {}
        BY <1>1
    <2> HIDE DEF Seen
    <2> QED
        BY <1>4, <1>13, <2>1
<1>15. ASSUME NEW i \in Nat, i \in N
       PROVE  i + 1 \in N
    <2> SUFFICES ASSUME i + 1 <= n PROVE g[i + 1] \in D /\ g[i + 1].entry = l.entry \cup Seen(i + 1)
        OBVIOUS
    <2>1. i + 1 \in 0..n /\ i + 1 \in 1..n /\ i + 1 # 0 /\ (i + 1) - 1 = i /\ i <= n
        BY <1>1
    <2>2. g[i + 1] = next(g[i], i + 1)
        BY <1>13, <2>1
    <2>3. g[i] \in D /\ g[i].entry = l.entry \cup Seen(i)
        BY <1>15, <2>1
    <2>4. Seen(i + 1) = Seen(i) \cup {old[i + 1]}
        <3>1. 1..(i + 1) = 1..i \cup {i + 1}
            OBVIOUS
        <3> QED
            BY <3>1
    <2> HIDE DEF Seen
    <2> QED
        BY <1>2, <2>1, <2>2, <2>3, <2>4
<1>16. Nat \subseteq N
    <2> HIDE DEF N
    <2> QED
        BY <1>14, <1>15, Induction
<1>17. g[n] \in D /\ g[n].entry = l.entry \cup Seen(n)
    BY <1>1, <1>16
<1>18. Seen(n) = Elems(old)
    BY <1>1 DEF Elems
<1> QED
    BY <1>12, <1>17, <1>18 DEF D

----------------------------------------------------------------------------
(* The invariant, one part for each area of the state *)

OfficesInv == admin \in Admins /\ pendingAdmin \subseteq Admins

\* At most one proposal waits, and it may be activated a delay after it was made.
RulesInv ==
    /\ rules \in RuleFields
    /\ \A p \in pending : /\ p \in PendingProposal
                          /\ p.activateAt = proposedAt + Delay
                          /\ pending = {p}
    /\ proposedAt \in Nat
    /\ now \in Nat
    /\ history \in Seq(PolicyRecord) \ {<<>>}
    /\ HistoryCurrent
    /\ HistoryWithoutRepeats

ListsInv ==
    /\ blocklist \in SoundLists(Accounts)
    /\ allowlist \in SoundLists(Accounts)
    /\ legacyBlock \in Seq(Accounts)
    /\ legacyAllow \in Seq(Accounts)
    /\ schema \in Nat

\* A holder has one stamp; finitely many have one.
HoldersInv ==
    /\ DOMAIN holderSince = Accounts
    /\ \A a \in Accounts : holderSince[a] = {} \/ \E t \in Nat : holderSince[a] = {t}
    /\ IsFiniteSet(Holders)
    /\ holderCount = Cardinality(Holders)

Tiered == {p \in TierPairs : tierPolicy[p] # {}}

TiersInv ==
    /\ DOMAIN tierPolicy = TierPairs
    /\ \A p \in TierPairs : Cardinality(tierPolicy[p]) \in 0..1
    /\ IsFiniteSet(Tiered)
    /\ tierCount = Cardinality(Tiered)

EngineInv == OfficesInv /\ RulesInv /\ ListsInv /\ HoldersInv /\ TiersInv

----------------------------------------------------------------------------
(* Each part is kept *)

LEMMA OfficesStep == OfficesInv /\ [Next]_vars => OfficesInv'
<1> SUFFICES ASSUME OfficesInv, [Next]_vars PROVE OfficesInv'
    OBVIOUS
<1>1. ASSUME AdminNext PROVE OfficesInv'
    BY <1>1 DEF AdminNext, ProposeAdmin, AcceptAdmin, OfficesInv
<1>2. ASSUME RulesNext \/ ListsNext PROVE UNCHANGED adminVars
    BY <1>2 DEF RulesNext, ListsNext, SetRules, ProposeRules, ActivateRules, Pause, Unpause, Enforce,
                AppendPolicyRecord, AddToBlocklist, RemoveFromBlocklist, AddToAllowlist,
                RemoveFromAllowlist, MigrateSchema
<1>3. ASSUME HoldersNext \/ ScreeningNext PROVE UNCHANGED adminVars
    BY <1>3 DEF HoldersNext, ScreeningNext, RegisterHolder, UpdateHolderSince, UnregisterHolder,
                StampHolder, SetTierPolicy, ClearTierPolicy, AddBlockedJurisdiction,
                RemoveBlockedJurisdiction, SetRiskConfig, SetJurisdictionRiskScore,
                ClearJurisdictionRiskScore
<1>4. ASSUME Tick \/ UNCHANGED vars PROVE UNCHANGED adminVars
    BY <1>4 DEF Tick, vars
<1>5. ASSUME UNCHANGED adminVars PROVE OfficesInv'
    BY <1>5 DEF OfficesInv, adminVars
<1> QED
    BY <1>1, <1>2, <1>3, <1>4, <1>5 DEF Next

\* A record of the rules r leaves them the newest, and repeats nothing.
LEMMA RecordKept ==
    ASSUME history \in Seq(PolicyRecord) \ {<<>>}, HistoryWithoutRepeats,
           NEW r \in RuleFields, NEW kind \in Kinds, NEW note \in Notes \cup {NoNote},
           WriteRecord(r, kind, note)
    PROVE  /\ history' \in Seq(PolicyRecord) \ {<<>>}
           /\ history'[Len(history')].rules = r
           /\ HistoryWithoutRepeats'
           /\ kind \in ListKinds =>
                 Len(history') = Len(history) + 1 /\ history'[Len(history')].kind = kind
<1> DEFINE rec == [rules |-> r, kind |-> kind, note |-> note]
           n == Len(history)
<1>1. rec \in PolicyRecord /\ rec.rules = r /\ rec.kind = kind
    BY DEF PolicyRecord
<1>2. n \in Nat /\ n > 0 /\ DOMAIN history = 1..n
    OBVIOUS
<1>3. CASE RepeatsLast(rec) /\ UNCHANGED history
    BY <1>1, <1>3 DEF RepeatsLast, Current, HistoryWithoutRepeats
<1>4. CASE ~RepeatsLast(rec) /\ history' = Append(history, rec)
    <2> HIDE DEF rec
    <2>1. /\ history' \in Seq(PolicyRecord) /\ Len(history') = n + 1
          /\ history'[n + 1] = rec /\ \A i \in 1..n : history'[i] = history[i]
        BY <1>1, <1>4
    <2>2. ASSUME NEW i \in 2..(n + 1), history'[i].kind \notin ListKinds
          PROVE  history'[i] # history'[i - 1]
        <3>1. CASE i = n + 1
            <4>1. history'[i] = rec /\ history'[i - 1] = history[n]
                <5>1. i - 1 = n /\ n \in 1..n
                    BY <1>2, <3>1
                <5> QED
                    BY <2>1, <3>1, <5>1
            <4> QED
                BY <1>4, <2>2, <4>1 DEF RepeatsLast, Current
        <3>2. CASE i \in 2..n
            <4>1. i \in 1..n /\ i - 1 \in 1..n
                BY <3>2
            <4>2. history'[i] = history[i] /\ history'[i - 1] = history[i - 1]
                BY <2>1, <4>1
            <4> QED
                BY <2>2, <3>2, <4>2 DEF HistoryWithoutRepeats
        <3> QED
            BY <1>2, <3>1, <3>2
    <2>3. HistoryWithoutRepeats'
        BY <2>1, <2>2 DEF HistoryWithoutRepeats
    <2>4. history' # <<>>
        BY <1>2, <2>1
    <2> QED
        BY <1>1, <2>1, <2>3, <2>4
<1> QED
    BY <1>3, <1>4 DEF WriteRecord

LEMMA RulesStep == RulesInv /\ [Next]_vars => RulesInv'
<1> SUFFICES ASSUME RulesInv, [Next]_vars PROVE RulesInv'
    OBVIOUS
<1>0. /\ rules \in RuleFields /\ now \in Nat /\ proposedAt \in Nat
      /\ history \in Seq(PolicyRecord) \ {<<>>} /\ HistoryWithoutRepeats
      /\ Delay \in Nat
    BY NumbersTyped DEF RulesInv
<1>1. ASSUME NEW r \in RuleFields, NEW kind \in Kinds, Enforce(r, kind)
      PROVE  RulesInv'
    <2>1. rules' = r /\ WriteRecord(r, kind, NoNote) /\ UNCHANGED <<pending, proposedAt, now>>
        BY <1>1 DEF Enforce
    <2>2. /\ history' \in Seq(PolicyRecord) \ {<<>>} /\ history'[Len(history')].rules = r
          /\ HistoryWithoutRepeats'
        BY <1>0, <2>1, RecordKept
    <2> QED
        BY <2>1, <2>2 DEF RulesInv, HistoryCurrent, Current
<1>2. ASSUME NEW r \in RuleChoices, SetRules(r) PROVE RulesInv'
    BY <1>1, <1>2, RulesTyped DEF SetRules, Kinds
<1>3. ASSUME Pause \/ Unpause PROVE RulesInv'
    <2>1. [rules EXCEPT !.paused = TRUE] \in RuleFields /\ [rules EXCEPT !.paused = FALSE] \in RuleFields
        BY <1>0 DEF RuleFields
    <2> QED
        BY <1>1, <1>3, <2>1 DEF Pause, Unpause, Kinds
<1>4. ASSUME NEW r \in RuleChoices, NEW n \in Notes, ProposeRules(r, n) PROVE RulesInv'
    <2> DEFINE p == [rules |-> r, note |-> n, activateAt |-> now + Delay]
    <2>1. p \in PendingProposal /\ p.activateAt = now + Delay
        BY <1>0, RulesTyped DEF PendingProposal
    <2>2. pending' = {p} /\ proposedAt' = now /\ UNCHANGED <<rules, history, now>>
        BY <1>4 DEF ProposeRules
    <2> HIDE DEF p
    <2> QED
        BY <1>0, <2>1, <2>2 DEF RulesInv, HistoryCurrent, Current, HistoryWithoutRepeats
<1>5. ASSUME ActivateRules PROVE RulesInv'
    <2>1. PICK p \in pending :
              /\ rules' = p.rules /\ pending' = {}
              /\ WriteRecord(p.rules, "DelayedRuleActivation", p.note)
              /\ UNCHANGED <<proposedAt, now>>
        BY <1>5 DEF ActivateRules
    <2>2. p.rules \in RuleFields /\ p.note \in Notes \cup {NoNote}
        BY DEF RulesInv, PendingProposal
    <2>3. /\ history' \in Seq(PolicyRecord) \ {<<>>} /\ history'[Len(history')].rules = p.rules
          /\ HistoryWithoutRepeats'
        BY <1>0, <2>1, <2>2, RecordKept DEF Kinds
    <2> QED
        BY <1>0, <2>1, <2>2, <2>3 DEF RulesInv, HistoryCurrent, Current
<1>6. ASSUME NEW kind \in Kinds, NEW note \in Notes \cup {NoNote},
             WriteRecord(rules, kind, note), UNCHANGED <<ruleVars, now>>
      PROVE  RulesInv'
    <2>1. /\ history' \in Seq(PolicyRecord) \ {<<>>} /\ history'[Len(history')].rules = rules
          /\ HistoryWithoutRepeats'
        BY <1>0, <1>6, RecordKept
    <2> QED
        BY <1>6, <2>1 DEF RulesInv, HistoryCurrent, Current, ruleVars
<1>7. ASSUME NEW n \in Notes, AppendPolicyRecord(n) PROVE RulesInv'
    BY <1>6, <1>7 DEF AppendPolicyRecord, Kinds
<1>8. ASSUME NEW a \in Listable, \/ AddToBlocklist(a) \/ RemoveFromBlocklist(a)
                                 \/ AddToAllowlist(a) \/ RemoveFromAllowlist(a)
      PROVE  RulesInv'
    BY <1>6, <1>8 DEF AddToBlocklist, RemoveFromBlocklist, AddToAllowlist, RemoveFromAllowlist,
                      Kinds, ListKinds
<1>9. ASSUME UNCHANGED <<ruleVars, history>>, now' \in Nat PROVE RulesInv'
    BY <1>9 DEF RulesInv, ruleVars, HistoryCurrent, Current, HistoryWithoutRepeats
<1>10. ASSUME Tick PROVE RulesInv'
    BY <1>0, <1>9, <1>10 DEF Tick
<1>11. ASSUME MigrateSchema \/ HoldersNext \/ AdminNext PROVE RulesInv'
    <2>1. UNCHANGED <<ruleVars, history, now>>
        BY <1>11 DEF MigrateSchema, HoldersNext, AdminNext, RegisterHolder, UpdateHolderSince,
                     UnregisterHolder, StampHolder, ProposeAdmin, AcceptAdmin
    <2> QED
        BY <1>0, <1>9, <2>1
<1>12. ASSUME ScreeningNext PROVE RulesInv'
    <2>1. UNCHANGED <<ruleVars, history, now>>
        BY <1>12 DEF ScreeningNext, SetTierPolicy, ClearTierPolicy, AddBlockedJurisdiction,
                     RemoveBlockedJurisdiction, SetRiskConfig, SetJurisdictionRiskScore,
                     ClearJurisdictionRiskScore
    <2> QED
        BY <1>0, <1>9, <2>1
<1>13. ASSUME UNCHANGED vars PROVE RulesInv'
    BY <1>0, <1>9, <1>13 DEF vars
<1> QED
    BY <1>2, <1>3, <1>4, <1>5, <1>7, <1>8, <1>10, <1>11, <1>12, <1>13 DEF Next, RulesNext, ListsNext

\* What the list operations do to who is listed.
LEMMA ListsStep ==
    ASSUME ListsInv, [Next]_vars
    PROVE  /\ ListsInv'
           /\ \/ blocklist.entry \cup Elems(legacyBlock) \subseteq blocklist'.entry \cup Elems(legacyBlock')
              \/ \E a \in Listable : /\ RemoveFromBlocklist(a)
                                     /\ blocklist'.entry = blocklist.entry \ {a}
<1> DEFINE Kept == blocklist.entry \cup Elems(legacyBlock) \subseteq blocklist'.entry \cup Elems(legacyBlock')
<1>1. ASSUME NEW a \in Listable, AddToBlocklist(a) PROVE ListsInv' /\ Kept
    <2>1. a \in Accounts /\ a \notin blocklist.entry /\ blocklist' = Added(blocklist, a)
          /\ UNCHANGED <<allowlist, legacyBlock, legacyAllow, schema>>
        BY <1>1, SubjectsTyped DEF AddToBlocklist
    <2>2. blocklist' \in SoundLists(Accounts) /\ blocklist'.entry = blocklist.entry \cup {a}
        BY <2>1, AddedSound DEF ListsInv
    <2> QED
        BY <2>1, <2>2 DEF ListsInv
<1>2. ASSUME NEW a \in Listable, RemoveFromBlocklist(a)
      PROVE  ListsInv' /\ blocklist'.entry = blocklist.entry \ {a}
    <2>1. a \in blocklist.entry /\ blocklist' = Removed(blocklist, a)
          /\ UNCHANGED <<allowlist, legacyBlock, legacyAllow, schema>>
        BY <1>2 DEF RemoveFromBlocklist
    <2>2. blocklist' \in SoundLists(Accounts) /\ blocklist'.entry = blocklist.entry \ {a}
        BY <2>1, RemovedSound DEF ListsInv
    <2> QED
        BY <2>1, <2>2 DEF ListsInv
<1>3. ASSUME NEW a \in Listable, AddToAllowlist(a) PROVE ListsInv' /\ Kept
    <2>1. a \in Accounts /\ a \notin allowlist.entry /\ allowlist' = Added(allowlist, a)
          /\ UNCHANGED <<blocklist, legacyBlock, legacyAllow, schema>>
        BY <1>3, SubjectsTyped DEF AddToAllowlist
    <2>2. allowlist' \in SoundLists(Accounts)
        BY <2>1, AddedSound DEF ListsInv
    <2> QED
        BY <2>1, <2>2 DEF ListsInv
<1>4. ASSUME NEW a \in Listable, RemoveFromAllowlist(a) PROVE ListsInv' /\ Kept
    <2>1. a \in allowlist.entry /\ allowlist' = Removed(allowlist, a)
          /\ UNCHANGED <<blocklist, legacyBlock, legacyAllow, schema>>
        BY <1>4 DEF RemoveFromAllowlist
    <2>2. allowlist' \in SoundLists(Accounts)
        BY <2>1, RemovedSound DEF ListsInv
    <2> QED
        BY <2>1, <2>2 DEF ListsInv
<1>5. ASSUME MigrateSchema PROVE ListsInv' /\ Kept
    <2>1. schema' \in Nat
        BY <1>5 DEF MigrateSchema, ListsInv
    <2>2. CASE UNCHANGED <<blocklist, allowlist, legacyBlock, legacyAllow>>
        BY <2>1, <2>2 DEF ListsInv
    <2>3. CASE /\ blocklist' = Migrated(blocklist, legacyBlock)
               /\ allowlist' = Migrated(allowlist, legacyAllow)
               /\ legacyBlock' = <<>> /\ legacyAllow' = <<>>
        <3>1. /\ blocklist' \in SoundLists(Accounts)
              /\ blocklist'.entry = blocklist.entry \cup Elems(legacyBlock)
              /\ allowlist' \in SoundLists(Accounts)
            BY <2>3, MigratedSound DEF ListsInv
        <3>2. <<>> \in Seq(Accounts)
            OBVIOUS
        <3> QED
            BY <2>1, <2>3, <3>1, <3>2 DEF ListsInv
    <2> QED
        BY <1>5, <2>2, <2>3 DEF MigrateSchema
<1>6. ASSUME UNCHANGED listVars PROVE ListsInv' /\ Kept
    BY <1>6 DEF ListsInv, listVars
<1>7. ASSUME RulesNext \/ HoldersNext \/ AdminNext \/ Tick \/ UNCHANGED vars PROVE UNCHANGED listVars
    BY <1>7 DEF RulesNext, HoldersNext, AdminNext, Tick, vars, SetRules, ProposeRules, ActivateRules, Pause,
                Unpause, Enforce, AppendPolicyRecord, RegisterHolder, UpdateHolderSince,
                UnregisterHolder, StampHolder, ProposeAdmin, AcceptAdmin
<1>8. ASSUME ScreeningNext PROVE UNCHANGED listVars
    BY <1>8 DEF ScreeningNext, SetTierPolicy, ClearTierPolicy, AddBlockedJurisdiction,
                RemoveBlockedJurisdiction, SetRiskConfig, SetJurisdictionRiskScore,
                ClearJurisdictionRiskScore
<1> QED
    BY <1>1, <1>2, <1>3, <1>4, <1>5, <1>6, <1>7, <1>8 DEF Next, ListsNext

LEMMA HoldersStep == HoldersInv /\ now \in Nat /\ [Next]_vars => HoldersInv'
<1> SUFFICES ASSUME HoldersInv, now \in Nat, [Next]_vars PROVE HoldersInv'
    OBVIOUS
<1>1. /\ DOMAIN holderSince = Accounts /\ IsFiniteSet(Holders)
      /\ holderCount = Cardinality(Holders) /\ holderCount \in Nat
    BY FS_CardinalityType DEF HoldersInv
<1>2. ASSUME NEW a \in Registrable, NEW t \in Nat, StampHolder(a, t) PROVE HoldersInv'
    <2>1. a \in Accounts /\ holderSince' = [holderSince EXCEPT ![a] = {t}] /\ holderCount' = CountNew(a)
        BY <1>2, SubjectsTyped DEF StampHolder
    <2>2. /\ DOMAIN holderSince' = Accounts /\ holderSince'[a] = {t}
          /\ \A b \in Accounts : b # a => holderSince'[b] = holderSince[b]
        BY <1>1, <2>1
    <2>3. Holders' = Holders \cup {a}
        BY <2>1, <2>2 DEF Holders
    <2>4. IsFiniteSet(Holders \cup {a}) /\ Cardinality(Holders \cup {a}) =
             IF a \in Holders THEN Cardinality(Holders) ELSE Cardinality(Holders) + 1
        BY <1>1, FS_AddElement
    <2>5. holderCount' = Cardinality(Holders')
        BY <1>1, <2>1, <2>3, <2>4 DEF CountNew, Holders
    <2> QED
        BY <2>2, <2>3, <2>4, <2>5 DEF HoldersInv
<1>3. ASSUME NEW a \in Registrable, UnregisterHolder(a) PROVE HoldersInv'
    <2>1. /\ a \in Accounts /\ holderSince[a] # {} /\ holderSince' = [holderSince EXCEPT ![a] = {}]
          /\ holderCount' = IF holderCount = 0 THEN 0 ELSE holderCount - 1
        BY <1>3, SubjectsTyped DEF UnregisterHolder
    <2>2. /\ DOMAIN holderSince' = Accounts /\ holderSince'[a] = {}
          /\ \A b \in Accounts : b # a => holderSince'[b] = holderSince[b]
        BY <1>1, <2>1
    <2>3. Holders' = Holders \ {a} /\ a \in Holders
        BY <2>1, <2>2 DEF Holders
    <2>4. IsFiniteSet(Holders \ {a}) /\ Cardinality(Holders \ {a}) = Cardinality(Holders) - 1
        BY <1>1, <2>3, FS_RemoveElement
    <2>5. holderCount # 0
        BY <1>1, <2>3, FS_EmptySet
    <2>6. holderCount' = Cardinality(Holders')
        BY <1>1, <2>1, <2>3, <2>4, <2>5
    <2> QED
        BY <2>2, <2>3, <2>4, <2>6 DEF HoldersInv
<1>4. ASSUME HoldersNext PROVE HoldersInv'
    <2>1. ASSUME NEW a \in Registrable, NEW t \in Stamps, UpdateHolderSince(a, t) PROVE HoldersInv'
        <3>1. t \in Nat /\ StampHolder(a, t)
            BY <2>1, NumbersTyped DEF UpdateHolderSince
        <3> QED
            BY <1>2, <3>1
    <2> QED
        BY <1>2, <1>3, <1>4, <2>1 DEF HoldersNext, RegisterHolder
<1>5. ASSUME UNCHANGED holderVars PROVE HoldersInv'
    BY <1>5 DEF HoldersInv, Holders, holderVars
<1>6. ASSUME RulesNext \/ ListsNext \/ AdminNext \/ Tick \/ UNCHANGED vars PROVE UNCHANGED holderVars
    BY <1>6 DEF RulesNext, ListsNext, AdminNext, Tick, vars, SetRules, ProposeRules, ActivateRules, Pause,
                Unpause, Enforce, AppendPolicyRecord, AddToBlocklist, RemoveFromBlocklist,
                AddToAllowlist, RemoveFromAllowlist, MigrateSchema, ProposeAdmin, AcceptAdmin
<1>7. ASSUME ScreeningNext PROVE UNCHANGED holderVars
    BY <1>7 DEF ScreeningNext, SetTierPolicy, ClearTierPolicy, AddBlockedJurisdiction,
                RemoveBlockedJurisdiction, SetRiskConfig, SetJurisdictionRiskScore,
                ClearJurisdictionRiskScore
<1> QED
    BY <1>4, <1>5, <1>6, <1>7 DEF Next

LEMMA TiersStep == TiersInv /\ [Next]_vars => TiersInv'
<1> SUFFICES ASSUME TiersInv, [Next]_vars PROVE TiersInv'
    OBVIOUS
<1>1. /\ DOMAIN tierPolicy = TierPairs /\ IsFiniteSet(Tiered)
      /\ tierCount = Cardinality(Tiered) /\ tierCount \in Nat
    BY FS_CardinalityType DEF TiersInv
<1>2. ASSUME NEW p \in TierPairs, NEW pol \in TierPolicies, SetTierPolicy(p, pol) PROVE TiersInv'
    <2>1. /\ tierPolicy' = [tierPolicy EXCEPT ![p] = {pol}]
          /\ tierCount' = IF tierPolicy[p] = {} THEN tierCount + 1 ELSE tierCount
        BY <1>2 DEF SetTierPolicy
    <2>2. /\ DOMAIN tierPolicy' = TierPairs /\ tierPolicy'[p] = {pol}
          /\ \A q \in TierPairs : q # p => tierPolicy'[q] = tierPolicy[q]
        BY <1>1, <2>1
    <2>3. Tiered' = Tiered \cup {p}
        BY <2>2 DEF Tiered
    <2>4. IsFiniteSet(Tiered \cup {p}) /\ Cardinality(Tiered \cup {p}) =
             IF p \in Tiered THEN Cardinality(Tiered) ELSE Cardinality(Tiered) + 1
        BY <1>1, FS_AddElement
    <2>5. tierCount' = Cardinality(Tiered')
        BY <1>1, <2>1, <2>3, <2>4 DEF Tiered
    <2>6. Cardinality({pol}) = 1
        BY FS_Singleton
    <2> QED
        BY <2>2, <2>3, <2>4, <2>5, <2>6 DEF TiersInv
<1>3. ASSUME NEW p \in TierPairs, ClearTierPolicy(p) PROVE TiersInv'
    <2>1. /\ tierPolicy[p] # {} /\ tierPolicy' = [tierPolicy EXCEPT ![p] = {}]
          /\ tierCount' = IF tierCount = 0 THEN 0 ELSE tierCount - 1
        BY <1>3 DEF ClearTierPolicy
    <2>2. /\ DOMAIN tierPolicy' = TierPairs /\ tierPolicy'[p] = {}
          /\ \A q \in TierPairs : q # p => tierPolicy'[q] = tierPolicy[q]
        BY <1>1, <2>1
    <2>3. Tiered' = Tiered \ {p} /\ p \in Tiered
        BY <2>1, <2>2 DEF Tiered
    <2>4. IsFiniteSet(Tiered \ {p}) /\ Cardinality(Tiered \ {p}) = Cardinality(Tiered) - 1
        BY <1>1, <2>3, FS_RemoveElement
    <2>5. tierCount # 0
        BY <1>1, <2>3, FS_EmptySet
    <2>6. tierCount' = Cardinality(Tiered') /\ Cardinality({}) = 0
        BY <1>1, <2>1, <2>3, <2>4, <2>5, FS_EmptySet
    <2> QED
        BY <2>2, <2>3, <2>4, <2>6 DEF TiersInv
<1>4. ASSUME UNCHANGED tierVars PROVE TiersInv'
    BY <1>4 DEF TiersInv, Tiered, tierVars
<1>5. ASSUME ScreeningNext PROVE TiersInv'
    BY <1>2, <1>3, <1>4, <1>5
    DEF ScreeningNext, AddBlockedJurisdiction, RemoveBlockedJurisdiction, SetRiskConfig,
        SetJurisdictionRiskScore, ClearJurisdictionRiskScore
<1>6. ASSUME RulesNext \/ ListsNext \/ AdminNext \/ Tick \/ UNCHANGED vars PROVE UNCHANGED tierVars
    BY <1>6 DEF RulesNext, ListsNext, AdminNext, Tick, vars, SetRules, ProposeRules, ActivateRules, Pause,
                Unpause, Enforce, AppendPolicyRecord, AddToBlocklist, RemoveFromBlocklist,
                AddToAllowlist, RemoveFromAllowlist, MigrateSchema, ProposeAdmin, AcceptAdmin
<1>7. ASSUME HoldersNext PROVE UNCHANGED tierVars
    BY <1>7 DEF HoldersNext, RegisterHolder, UpdateHolderSince, UnregisterHolder, StampHolder
<1> QED
    BY <1>4, <1>5, <1>6, <1>7 DEF Next

----------------------------------------------------------------------------
LEMMA EngineStart == Init => EngineInv
<1> SUFFICES ASSUME Init PROVE EngineInv
    OBVIOUS
<1>1. OfficesInv
    BY DEF Init, OfficesInv
<1>2. RulesInv
    <2> DEFINE rec == [rules |-> DefaultRules, kind |-> "ImmediateRuleUpdate", note |-> NoNote]
    <2>1. DefaultRules \in RuleFields
        BY DEF DefaultRules, RuleFields
    <2>2. rec \in PolicyRecord /\ rec.rules = DefaultRules
        BY <2>1 DEF PolicyRecord, Kinds
    <2>3. history = <<rec>>
        BY DEF Init
    <2> HIDE DEF rec
    <2>4. history \in Seq(PolicyRecord) \ {<<>>} /\ Len(history) = 1 /\ history[1] = rec
        BY <2>2, <2>3
    <2>5. HistoryCurrent /\ HistoryWithoutRepeats
        BY <2>2, <2>4 DEF Init, HistoryCurrent, Current, HistoryWithoutRepeats
    <2> QED
        BY <2>1, <2>4, <2>5 DEF Init, RulesInv
<1>3. ListsInv
    <2>1. {<<>>} \cup LegacyLists \subseteq Seq(Accounts)
        <3>1. <<>> \in Seq(Accounts)
            OBVIOUS
        <3> QED
            BY <3>1, ListsTyped
    <2> QED
        BY <2>1, EmptyListSound DEF Init, ListsInv
<1>4. HoldersInv
    <2>1. Holders = {}
        BY DEF Init, Holders
    <2> QED
        BY <2>1, FS_EmptySet DEF Init, HoldersInv
<1>5. TiersInv
    <2>1. Tiered = {}
        BY DEF Init, Tiered
    <2> QED
        BY <2>1, FS_EmptySet DEF Init, TiersInv
<1> QED
    BY <1>1, <1>2, <1>3, <1>4, <1>5 DEF EngineInv

LEMMA EngineInvHolds == Spec => []EngineInv
<1>1. EngineInv /\ [Next]_vars => EngineInv'
    BY OfficesStep, RulesStep, ListsStep, HoldersStep, TiersStep DEF EngineInv, RulesInv
<1> QED
    BY <1>1, EngineStart, PTL DEF Spec

\* The history and the lists stay whole.
THEOREM RecordsHold == Spec => []RecordsSound
<1>1. EngineInv => RecordsSound
    <2> SUFFICES ASSUME EngineInv PROVE RecordsSound
        OBVIOUS
    <2>1. ListsSound /\ blocklist.entry \subseteq Accounts /\ allowlist.entry \subseteq Accounts
        BY SoundListParts DEF EngineInv, ListsInv, ListsSound
    <2>2. holderCount \in Nat /\ tierCount \in Nat
        BY FS_CardinalityType DEF EngineInv, HoldersInv, TiersInv
    <2>3. \A a \in Accounts : holderSince[a] \subseteq Nat
        BY DEF EngineInv, HoldersInv
    <2>4. TypeOK
        BY <2>1, <2>2, <2>3 DEF EngineInv, OfficesInv, RulesInv, ListsInv, TiersInv, TypeOK
    <2> QED
        BY <2>1, <2>4 DEF EngineInv, RulesInv, RecordsSound
<1> QED
    BY <1>1, EngineInvHolds, PTL

\* The engine counts its holders and tells each how long it is held.
THEOREM HoldersHold == Spec => []HoldersSound
<1>1. EngineInv => HoldersSound
    <2> SUFFICES ASSUME EngineInv PROVE HoldersSound
        OBVIOUS
    <2>1. CountsExact
        BY DEF EngineInv, HoldersInv, TiersInv, Tiered, CountsExact
    <2>2. ASSUME NEW a \in Accounts
          PROVE  /\ LockupStatus(a).locked <=> HeldAt(a, now)
                 /\ \A w \in LockupStatus(a).wait :
                       w > 0 /\ HeldAt(a, now + w - 1) /\ ~HeldAt(a, now + w)
        <3> DEFINE hold == rules.minHolding
        <3>1. now \in Nat /\ hold \in Nat
            BY DEF EngineInv, RulesInv, RuleFields
        <3>2. CASE holderSince[a] = {}
            BY <3>2 DEF LockupStatus, HeldAt
        <3>3. ASSUME NEW t \in Nat, holderSince[a] = {t}
              PROVE  /\ LockupStatus(a).locked <=> HeldAt(a, now)
                     /\ \A w \in LockupStatus(a).wait :
                           w > 0 /\ HeldAt(a, now + w - 1) /\ ~HeldAt(a, now + w)
            <4>1. \A u : HeldAt(a, u) <=> hold > 0 /\ (IF u < t THEN 0 ELSE u - t) < hold
                BY <3>3 DEF HeldAt
            <4>2. LockupStatus(a).locked <=> hold > 0 /\ now < t + hold
                BY <3>3 DEF LockupStatus, LockedBefore
            <4>3. \A w \in LockupStatus(a).wait : hold > 0 /\ now < t + hold /\ w = (t + hold) - now
                BY <3>3 DEF LockupStatus, LockedBefore
            <4> HIDE DEF hold
            <4>4. hold > 0 => (now < t + hold <=> (IF now < t THEN 0 ELSE now - t) < hold)
                BY <3>1
            <4>5. ASSUME NEW w \in LockupStatus(a).wait
                  PROVE  w > 0 /\ HeldAt(a, now + w - 1) /\ ~HeldAt(a, now + w)
                <5>1. hold > 0 /\ now < t + hold /\ w = (t + hold) - now
                    BY <4>3
                <5>2. now + w - 1 = t + hold - 1 /\ now + w = t + hold /\ w > 0
                    BY <3>1, <5>1
                <5>3. /\ (IF t + hold - 1 < t THEN 0 ELSE (t + hold - 1) - t) < hold
                      /\ ~ ((IF t + hold < t THEN 0 ELSE (t + hold) - t) < hold)
                    BY <3>1, <5>1
                <5> QED
                    BY <4>1, <5>1, <5>2, <5>3
            <4> QED
                BY <4>1, <4>2, <4>4, <4>5
        <3> QED
            BY <3>2, <3>3 DEF EngineInv, HoldersInv
    <2>3. LockupTellsTheTruth
        BY <2>2 DEF LockupTellsTheTruth
    <2> QED
        BY <2>1, <2>3 DEF HoldersSound
<1> QED
    BY <1>1, EngineInvHolds, PTL

\* Rules wait out the delay after the proposal they were part of.
THEOREM TimelockHolds == Spec => TimelockHonoured
<1>1. EngineInv /\ [Next]_vars =>
          [\A p \in pending : pending' = {} =>
              /\ now >= proposedAt + Delay
              /\ rules' = p.rules]_vars
    <2> SUFFICES ASSUME EngineInv, [Next]_vars, NEW p \in pending, pending' = {}
                 PROVE  now >= proposedAt + Delay /\ rules' = p.rules
        OBVIOUS
    <2>1. pending = {p} /\ p.activateAt = proposedAt + Delay
        BY DEF EngineInv, RulesInv
    <2>2. ASSUME ActivateRules PROVE now >= proposedAt + Delay /\ rules' = p.rules
        BY <2>1, <2>2 DEF ActivateRules
    <2>3. ASSUME NEW r, NEW n, ProposeRules(r, n) PROVE FALSE
        BY <2>3 DEF ProposeRules
    <2>4. ASSUME \/ \E r \in RuleChoices : SetRules(r)
                 \/ Pause \/ Unpause \/ \E n \in Notes : AppendPolicyRecord(n)
                 \/ ListsNext \/ HoldersNext \/ AdminNext \/ Tick \/ UNCHANGED vars
          PROVE  pending' = pending
        BY <2>4 DEF SetRules, Pause, Unpause, Enforce, AppendPolicyRecord, ListsNext, HoldersNext,
                    AdminNext, Tick, vars, ruleVars, AddToBlocklist, RemoveFromBlocklist, AddToAllowlist,
                    RemoveFromAllowlist, MigrateSchema, RegisterHolder, UpdateHolderSince,
                    UnregisterHolder, StampHolder, ProposeAdmin, AcceptAdmin
    <2>5. ASSUME ScreeningNext PROVE pending' = pending
        BY <2>5 DEF ScreeningNext, SetTierPolicy, ClearTierPolicy, AddBlockedJurisdiction, ruleVars,
                    RemoveBlockedJurisdiction, SetRiskConfig, SetJurisdictionRiskScore,
                    ClearJurisdictionRiskScore
    <2> QED
        BY <2>1, <2>2, <2>3, <2>4, <2>5 DEF Next, RulesNext
<1> QED
    BY <1>1, EngineInvHolds, PTL DEF Spec, TimelockHonoured

\* Whoever is blocked stays so until an admin removes that address.
THEOREM BlockedStay == Spec => BlockedUntilRemoved
<1>1. EngineInv /\ [Next]_vars =>
          [\A a \in blocklist.entry \cup Elems(legacyBlock) :
              a \notin blocklist'.entry \cup Elems(legacyBlock') =>
                 /\ a \in blocklist.entry
                 /\ Len(history') = Len(history) + 1
                 /\ history'[Len(history')].kind = "BlocklistRemove"]_vars
    <2> SUFFICES ASSUME EngineInv, [Next]_vars,
                        NEW a \in blocklist.entry \cup Elems(legacyBlock),
                        a \notin blocklist'.entry \cup Elems(legacyBlock')
                 PROVE  /\ a \in blocklist.entry
                        /\ Len(history') = Len(history) + 1
                        /\ history'[Len(history')].kind = "BlocklistRemove"
        OBVIOUS
    <2>1. PICK b \in Listable : RemoveFromBlocklist(b) /\ blocklist'.entry = blocklist.entry \ {b}
        BY ListsStep DEF EngineInv
    <2>2. WriteRecord(rules, "BlocklistRemove", NoNote) /\ b \in blocklist.entry /\ legacyBlock' = legacyBlock
        BY <2>1 DEF RemoveFromBlocklist
    <2>3. a = b
        BY <2>1, <2>2
    <2>4. /\ history \in Seq(PolicyRecord) \ {<<>>} /\ HistoryWithoutRepeats /\ rules \in RuleFields
        BY DEF EngineInv, RulesInv
    <2>5. "BlocklistRemove" \in Kinds /\ "BlocklistRemove" \in ListKinds
        BY DEF Kinds, ListKinds
    <2>6. Len(history') = Len(history) + 1 /\ history'[Len(history')].kind = "BlocklistRemove"
        BY <2>2, <2>4, <2>5, RecordKept
    <2> QED
        BY <2>2, <2>3, <2>6
<1> QED
    BY <1>1, EngineInvHolds, PTL DEF Spec, BlockedUntilRemoved

----------------------------------------------------------------------------
(* The transfer decision, for any rules, lists, policies, scores, records, *)
(* stamps and amounts.  It is the first of nineteen reasons that applies,  *)
(* so two decisions agree where the reasons between them do.               *)

\* What an admin of the engine set up stays, and is well formed.
SetUp ==
    /\ {inForce.maxAmount, inForce.minHolding} \subseteq Int
    /\ \A pair \in DOMAIN policies : \A p \in policies[pair] : p.maxAmount \in Int
    /\ \A c, d \in scores.config : c = d

DecisionInv ==
    /\ SetUp
    /\ time \in Nat
    /\ DOMAIN stamped = Decision!Parties
    /\ \A a \in Decision!Parties : stamped[a] \subseteq Nat

----------------------------------------------------------------------------
Reasons == {Decision!Precedence[i] : i \in 1..19}

LEMMA ReasonNames ==
    /\ DOMAIN Decision!Precedence = 1..19
    /\ Reasons = {"CompliancePaused", "FromBlocklisted", "ToBlocklisted", "FromNotAllowlisted",
                  "ToNotAllowlisted", "FromKyc", "ToKyc", "FromJurisdictionBlocked",
                  "ToJurisdictionBlocked", "SameJurisdictionRequired", "AmountExceeded",
                  "HoldingPeriodNotMet", "RecipientHoldingPeriodExceeded", "MaxHoldersReached",
                  "TierPolicyBlocked", "TierFromBelowMin", "TierToBelowMin", "TierAmountExceeded",
                  "RiskScoreTooHigh"}
    /\ "Allow" \notin Reasons
<1>1. DOMAIN Decision!Precedence = 1..19
    BY DEF Decision!Precedence
<1>2. \A i \in 1..19 : \/ i = 1 \/ i = 2 \/ i = 3 \/ i = 4 \/ i = 5 \/ i = 6 \/ i = 7 \/ i = 8 \/ i = 9
                       \/ i = 10 \/ i = 11 \/ i = 12 \/ i = 13 \/ i = 14 \/ i = 15 \/ i = 16
                       \/ i = 17 \/ i = 18 \/ i = 19
    OBVIOUS
<1>3. Reasons = {Decision!Precedence[1], Decision!Precedence[2], Decision!Precedence[3], Decision!Precedence[4],
                 Decision!Precedence[5], Decision!Precedence[6], Decision!Precedence[7], Decision!Precedence[8],
                 Decision!Precedence[9], Decision!Precedence[10], Decision!Precedence[11], Decision!Precedence[12],
                 Decision!Precedence[13], Decision!Precedence[14], Decision!Precedence[15], Decision!Precedence[16],
                 Decision!Precedence[17], Decision!Precedence[18], Decision!Precedence[19]}
    BY <1>2 DEF Reasons
<1>4. Reasons = {"CompliancePaused", "FromBlocklisted", "ToBlocklisted", "FromNotAllowlisted",
                 "ToNotAllowlisted", "FromKyc", "ToKyc", "FromJurisdictionBlocked",
                 "ToJurisdictionBlocked", "SameJurisdictionRequired", "AmountExceeded",
                 "HoldingPeriodNotMet", "RecipientHoldingPeriodExceeded", "MaxHoldersReached",
                 "TierPolicyBlocked", "TierFromBelowMin", "TierToBelowMin", "TierAmountExceeded",
                 "RiskScoreTooHigh"}
    BY <1>3 DEF Decision!Precedence
<1>5. "Allow" \notin Reasons
    BY <1>4
<1> QED
    BY <1>1, <1>4, <1>5

\* The decision allows when no reason applies, and else names one that does.
LEMMA FirstApplies ==
    ASSUME NEW d
    PROVE  /\ Decision!First(Decision!Precedence, d) = "Allow" <=> \A f \in Reasons : ~ d[f]
           /\ Decision!First(Decision!Precedence, d) # "Allow" =>
                 Decision!First(Decision!Precedence, d) \in Reasons /\ d[Decision!First(Decision!Precedence, d)]
<1> DEFINE failing == {i \in DOMAIN Decision!Precedence : d[Decision!Precedence[i]]}
           least == CHOOSE i \in failing : \A j \in failing : i <= j
<1>1. failing = {i \in 1..19 : d[Decision!Precedence[i]]}
    BY ReasonNames
<1>2. CASE failing = {}
    <2>1. \A f \in Reasons : ~ d[f]
        BY <1>1, <1>2 DEF Reasons
    <2>2. Decision!First(Decision!Precedence, d) = "Allow"
        BY <1>2 DEF Decision!First
    <2> QED
        BY <2>1, <2>2
<1>3. CASE failing # {}
    <2>1. \E i \in failing : \A j \in failing : i <= j
        BY <1>1, <1>3, LeastNatural
    <2>2. least \in failing
        BY <2>1
    <2>3. Decision!First(Decision!Precedence, d) = Decision!Precedence[least]
        BY <1>3 DEF Decision!First
    <2> HIDE DEF least
    <2>4. Decision!Precedence[least] \in Reasons /\ d[Decision!Precedence[least]]
        BY <1>1, <2>2 DEF Reasons
    <2> QED
        BY <2>3, <2>4, ReasonNames
<1> QED
    BY <1>2, <1>3

\* Fewer reasons allow more.
LEMMA FewerReasons ==
    ASSUME NEW d, NEW e, Decision!First(Decision!Precedence, d) = "Allow", \A f \in Reasons : e[f] => d[f]
    PROVE  Decision!First(Decision!Precedence, e) = "Allow"
BY FirstApplies

\* Each reason by its name.
LEMMA DenialFields ==
    ASSUME NEW from, NEW to, NEW m, NEW k
    PROVE  LET d == Decision!Denials(from, to, m, k) IN
           /\ d["CompliancePaused"] <=> inForce.paused
           /\ d["FromBlocklisted"] <=> from \in blocked
           /\ d["ToBlocklisted"] <=> to \in blocked
           /\ d["FromNotAllowlisted"] <=> inForce.allowlistMode /\ from \notin allowed
           /\ d["ToNotAllowlisted"] <=> inForce.allowlistMode /\ to \notin allowed
           /\ d["FromKyc"] <=> k /\ ~Decision!Approved(from)
           /\ d["ToKyc"] <=> k /\ ~Decision!Approved(to)
           /\ d["FromJurisdictionBlocked"] <=> Decision!BlockedThere(from)
           /\ d["ToJurisdictionBlocked"] <=> Decision!BlockedThere(to)
           /\ d["SameJurisdictionRequired"] <=>
                 /\ inForce.sameJurisdiction
                 /\ Decision!OnRecord(from) # Decision!OnRecord(to) \/ Decision!OnRecord(from) = {}
           /\ d["AmountExceeded"] <=> Decision!Above(m, inForce.maxAmount)
           /\ d["HoldingPeriodNotMet"] <=> inForce.minHolding > 0 /\ Decision!TooYoung(from)
           /\ d["MaxHoldersReached"] <=>
                 /\ inForce.maxHolders > 0
                 /\ to \notin {a \in Accounts : stamped[a] # {}}
                 /\ Decision!HolderCount >= inForce.maxHolders
           /\ d["TierPolicyBlocked"] <=> \E p \in Decision!TierPolicy(from, to) : p.blocked
           /\ d["TierFromBelowMin"] <=> \E p \in Decision!TierPolicy(from, to) : Decision!Tier(from) < p.minFrom
           /\ d["TierToBelowMin"] <=> \E p \in Decision!TierPolicy(from, to) : Decision!Tier(to) < p.minTo
           /\ d["TierAmountExceeded"] <=>
                 \E p \in Decision!TierPolicy(from, to) : Decision!Above(m, Decision!TierCap(p))
           /\ d["RiskScoreTooHigh"] <=>
                 Decision!RiskTooHigh(Decision!Jurisdiction(from), Decision!Jurisdiction(to))
BY Zenon DEF Decision!Denials

----------------------------------------------------------------------------
\* The exact pair is looked up first.
LEMMA ExactFirst == Decision!ExactPolicyDecides
<1> SUFFICES ASSUME NEW t \in Decision!Transfers,
                    Decision!PolicyAt(<<Decision!Tier(t[1]), Decision!Tier(t[2])>>) # {}
             PROVE  Decision!TierPolicy(t[1], t[2]) =
                       Decision!PolicyAt(<<Decision!Tier(t[1]), Decision!Tier(t[2])>>)
    BY DEF Decision!ExactPolicyDecides
<1> DEFINE keys == Decision!Lookups(Decision!Tier(t[1]), Decision!Tier(t[2]))
           found == {i \in DOMAIN keys : Decision!PolicyAt(keys[i]) # {}}
           own == Decision!PolicyAt(<<Decision!Tier(t[1]), Decision!Tier(t[2])>>)
<1>1. DOMAIN keys = 1..4 /\ keys[1] = <<Decision!Tier(t[1]), Decision!Tier(t[2])>>
    BY DEF Decision!Lookups
<1> HIDE DEF keys
<1>2. 1 \in found /\ found \subseteq 1..4
    BY <1>1
<1>3. {j \in found : \A k \in found : j <= k} = {1}
    <2> HIDE DEF found
    <2>1. \A k \in found : k \in Int /\ 1 <= k
        BY <1>2
    <2>2. \A j \in found : (\A k \in found : j <= k) => j = 1
        <3> SUFFICES ASSUME NEW j \in found, \A k \in found : j <= k PROVE j = 1
            OBVIOUS
        <3>1. j <= 1 /\ j \in Int /\ 1 <= j
            BY <1>2, <2>1
        <3> QED
            BY <3>1
    <2>3. 1 \in {j \in found : \A k \in found : j <= k}
        BY <1>2, <2>1
    <2> QED
        BY <2>2, <2>3, Zenon
<1>4. {Decision!PolicyAt(keys[i]) : i \in {j \in found : \A k \in found : j <= k}} = {own}
    BY <1>1, <1>3
<1>5. Decision!TierPolicy(t[1], t[2]) =
         UNION {Decision!PolicyAt(keys[i]) : i \in {j \in found : \A k \in found : j <= k}}
    BY DEF Decision!TierPolicy, keys
<1> QED
    BY <1>4, <1>5

LEMMA PoliciesTyped ==
    ASSUME SetUp, NEW from, NEW to
    PROVE  \A p \in Decision!TierPolicy(from, to) : Decision!TierCap(p) \in Int
<1> SUFFICES ASSUME NEW p \in Decision!TierPolicy(from, to) PROVE p.maxAmount \in Int
    BY DEF Decision!TierCap, SetUp
<1>1. PICK key : p \in Decision!PolicyAt(key)
    BY DEF Decision!TierPolicy
<1> QED
    BY <1>1 DEF Decision!PolicyAt, SetUp

\* A smaller amount is refused for no reason the larger one was not.
LEMMA SmallerFits == SetUp => Decision!SmallerIsAllowed
<1> SUFFICES ASSUME SetUp, NEW t \in Decision!Transfers, NEW m \in Amounts, NEW n \in Amounts, n < m,
                    Decision!Evaluate(t[1], t[2], m) = "Allow"
             PROVE  Decision!Evaluate(t[1], t[2], n) = "Allow"
    BY DEF Decision!SmallerIsAllowed
<1> DEFINE d == Decision!Denials(t[1], t[2], m, TRUE)
           e == Decision!Denials(t[1], t[2], n, TRUE)
<1>1. m \in Int /\ n \in Int /\ inForce.maxAmount \in Int
    BY DecisionInstance DEF Decision!SettingsTyped, SetUp
<1>2. \A cap \in Int : Decision!Above(n, cap) => Decision!Above(m, cap)
    BY <1>1 DEF Decision!Above
<1>3. e["AmountExceeded"] => d["AmountExceeded"]
    BY <1>1, <1>2, DenialFields
<1>4. e["TierAmountExceeded"] => d["TierAmountExceeded"]
    BY <1>2, PoliciesTyped, DenialFields
<1>5. \A f \in Reasons \ {"AmountExceeded", "TierAmountExceeded"} : e[f] => d[f]
    BY ReasonNames DEF Decision!Denials
<1>6. Decision!First(Decision!Precedence, d) = "Allow"
    BY DEF Decision!Evaluate
<1> HIDE DEF d, e
<1>7. \A f \in Reasons : e[f] => d[f]
    BY <1>3, <1>4, <1>5
<1>8. Decision!First(Decision!Precedence, e) = "Allow"
    BY <1>6, <1>7, FewerReasons
<1> QED
    BY <1>8 DEF Decision!Evaluate, e

\* The view answers from the one configuration the decision used.
LEMMA ViewAgrees == SetUp => Decision!RiskViewAgrees
<1> SUFFICES ASSUME SetUp, NEW t \in Decision!Transfers, NEW m \in Amounts
             PROVE  LET told == Decision!RiskView(Decision!Jurisdiction(t[1]), Decision!Jurisdiction(t[2]))
                    IN  Decision!Denials(t[1], t[2], m, TRUE).RiskScoreTooHigh <=>
                           \E v \in told : v[1] > (CHOOSE c \in scores.config : TRUE).max
                                        \/ v[2] > (CHOOSE c \in scores.config : TRUE).max
    BY DEF Decision!RiskViewAgrees
<1> DEFINE fj == Decision!Jurisdiction(t[1])
           tj == Decision!Jurisdiction(t[2])
           told == Decision!RiskView(fj, tj)
           conf == CHOOSE c \in scores.config : TRUE
<1>1. Decision!Denials(t[1], t[2], m, TRUE).RiskScoreTooHigh <=> Decision!RiskTooHigh(fj, tj)
    BY DenialFields
<1>2. \A c \in scores.config : c = conf
    BY DEF SetUp
<1> HIDE DEF fj, tj, conf
<1>3. ASSUME NEW v \in told
      PROVE  \E c \in scores.config :
                c.max > 0 /\ v = <<Decision!Score(c, fj), Decision!Score(c, tj), Decision!RiskTooHigh(fj, tj)>>
    BY <1>3 DEF Decision!RiskView
<1>4. ASSUME NEW c \in scores.config, c.max > 0
      PROVE  <<Decision!Score(c, fj), Decision!Score(c, tj), Decision!RiskTooHigh(fj, tj)>> \in told
    BY <1>4 DEF Decision!RiskView
<1> HIDE DEF told
<1>5. Decision!RiskTooHigh(fj, tj) => \E v \in told : v[1] > conf.max \/ v[2] > conf.max
    <2> SUFFICES ASSUME Decision!RiskTooHigh(fj, tj) PROVE \E v \in told : v[1] > conf.max \/ v[2] > conf.max
        OBVIOUS
    <2>1. PICK c \in scores.config : c.max > 0 /\ (Decision!Score(c, fj) > c.max \/ Decision!Score(c, tj) > c.max)
        BY DEF Decision!RiskTooHigh
    <2> DEFINE v == <<Decision!Score(c, fj), Decision!Score(c, tj), Decision!RiskTooHigh(fj, tj)>>
    <2>2. v \in told /\ v[1] = Decision!Score(c, fj) /\ v[2] = Decision!Score(c, tj)
        BY <1>4, <2>1
    <2> QED
        BY <1>2, <2>1, <2>2
<1>6. ASSUME NEW v \in told, v[1] > conf.max \/ v[2] > conf.max
      PROVE  Decision!RiskTooHigh(fj, tj)
    <2>1. PICK c \in scores.config : c.max > 0 /\ v = <<Decision!Score(c, fj), Decision!Score(c, tj), Decision!RiskTooHigh(fj, tj)>>
        BY <1>3
    <2>2. v[1] = Decision!Score(c, fj) /\ v[2] = Decision!Score(c, tj)
        BY <2>1
    <2> QED
        BY <1>2, <1>6, <2>1, <2>2 DEF Decision!RiskTooHigh
<1> QED
    BY <1>1, <1>5, <1>6 DEF told, fj, tj, conf

\* Whoever is allowed is on record, and not where transfers are blocked.
LEMMA BlockedOut == Decision!BlockedStayOut
<1> SUFFICES ASSUME NEW from \in Decision!Parties, NEW to \in Accounts, NEW m \in Amounts,
                    Decision!CanTransfer(from, to, m), closed # {}, NEW p \in {from, to}
             PROVE  Decision!OnRecord(p) # {} /\ Decision!OnRecord(p) \cap closed = {}
    BY DEF Decision!BlockedStayOut
<1> DEFINE d == Decision!Denials(from, to, m, FALSE)
<1>1. \A f \in Reasons : ~ d[f]
    BY FirstApplies DEF Decision!CanTransfer
<1>2. ~ d["FromJurisdictionBlocked"] /\ ~ d["ToJurisdictionBlocked"]
    BY <1>1, ReasonNames
<1>3. ~ Decision!BlockedThere(p)
    BY <1>2, DenialFields
<1> QED
    BY <1>3 DEF Decision!BlockedThere, Decision!OnRecord

----------------------------------------------------------------------------
LEMMA DecisionInvHolds == Decision!Spec => []DecisionInv
<1>1. Decision!Init => DecisionInv
    <2> SUFFICES ASSUME Decision!Init PROVE DecisionInv
        OBVIOUS
    <2>1. SetUp
        BY DecisionInstance DEF Decision!Init, Decision!SettingsTyped, SetUp
    <2>2. DOMAIN stamped = Decision!Parties /\ \A a \in Decision!Parties : stamped[a] \subseteq Nat
        BY DEF Decision!Init, Decision!Options
    <2> QED
        BY <2>1, <2>2 DEF Decision!Init, DecisionInv
<1>2. DecisionInv /\ [Decision!Next]_(Decision!vars) => DecisionInv'
    <2> SUFFICES ASSUME DecisionInv, [Decision!Next]_(Decision!vars) PROVE DecisionInv'
        OBVIOUS
    <2>1. UNCHANGED Decision!engineVars
        BY DEF Decision!Next, Decision!KycChange, Decision!Stamp, Decision!Tick, Decision!vars
    <2>2. SetUp'
        BY <2>1 DEF DecisionInv, SetUp, Decision!engineVars
    <2>3. ASSUME NEW a \in Accounts, Decision!Stamp(a) PROVE DecisionInv'
        <3>1. stamped' = [stamped EXCEPT ![a] = {time}] /\ time' = time
            BY <2>3 DEF Decision!Stamp
        <3>2. DOMAIN stamped' = Decision!Parties /\ \A b \in Decision!Parties : stamped'[b] \subseteq Nat
            BY <3>1 DEF DecisionInv
        <3> QED
            BY <2>2, <3>1, <3>2 DEF DecisionInv
    <2>4. ASSUME \/ \E a \in Accounts : Decision!KycChange(a)
                 \/ Decision!Tick \/ UNCHANGED Decision!vars
          PROVE  DecisionInv'
        <3>1. stamped' = stamped /\ time' \in Nat
            BY <2>4 DEF Decision!KycChange, Decision!Tick, Decision!vars, DecisionInv
        <3> QED
            BY <2>2, <3>1 DEF DecisionInv
    <2> QED
        BY <2>3, <2>4 DEF Decision!Next
<1> QED
    BY <1>1, <1>2, PTL DEF Decision!Spec

\* Each decision fits the others.
THEOREM DecisionsFit == Decision!Spec => []DecisionsAgree
<1>1. DecisionInv => DecisionsAgree
    BY ExactFirst, SmallerFits, ViewAgrees, BlockedOut DEF DecisionInv, DecisionsAgree, Decision!DecisionsAgree
<1> QED
    BY <1>1, DecisionInvHolds, PTL

\* What stays when only the clock moves.
LEMMA ClockMoves ==
    ASSUME DecisionInv, time' \in Nat, time <= time', UNCHANGED <<Decision!engineVars, stamped, kyc>>,
           NEW from \in Accounts, NEW to, NEW m, Decision!Evaluate(from, to, m) = "Allow"
    PROVE  Decision!Evaluate(from, to, m)' \in {"Allow", "RecipientHoldingPeriodExceeded"}
<1> DEFINE d == Decision!Denials(from, to, m, TRUE)
           dn == d'
           after == Decision!First(Decision!Precedence, dn)
<1>1. UNCHANGED <<inForce, blocked, allowed, closed, policies, scores, stamped, kyc>>
    BY DEF Decision!engineVars
<1>2. \A f \in Reasons : ~ d[f]
    BY FirstApplies DEF Decision!Evaluate
<1>3. Decision!TooYoung(from)' => Decision!TooYoung(from)
    <2> SUFFICES ASSUME Decision!TooYoung(from)' PROVE Decision!TooYoung(from)
        OBVIOUS
    <2>1. PICK s \in stamped[from] : (IF time' < s THEN 0 ELSE time' - s) < inForce.minHolding
        BY <1>1 DEF Decision!TooYoung, Decision!Age
    <2>2. s \in Nat /\ time \in Nat /\ inForce.minHolding \in Int
        BY <2>1 DEF DecisionInv, Decision!Parties, SetUp
    <2>3. (IF time < s THEN 0 ELSE time - s) < inForce.minHolding
        BY <2>1, <2>2
    <2> QED
        BY <2>1, <2>3 DEF Decision!TooYoung, Decision!Age
<1>4. dn["HoldingPeriodNotMet"] => d["HoldingPeriodNotMet"]
    BY <1>1, <1>3 DEF Decision!Denials
<1>5. \A f \in Reasons \ {"HoldingPeriodNotMet", "RecipientHoldingPeriodExceeded"} : dn[f] => d[f]
    <2>1. /\ \A a : Decision!Approved(a)' = Decision!Approved(a)
          /\ \A a : Decision!OnRecord(a)' = Decision!OnRecord(a)
          /\ \A a : Decision!Tier(a)' = Decision!Tier(a)
        BY <1>1 DEF Decision!Approved, Decision!OnRecord, Decision!Tier
    <2>2. \A a : Decision!BlockedThere(a)' = Decision!BlockedThere(a) /\ Decision!Jurisdiction(a)' = Decision!Jurisdiction(a)
        <3> SUFFICES ASSUME NEW a
                     PROVE  Decision!BlockedThere(a)' = Decision!BlockedThere(a) /\ Decision!Jurisdiction(a)' = Decision!Jurisdiction(a)
            OBVIOUS
        <3>1. Decision!OnRecord(a)' = Decision!OnRecord(a) /\ kyc' = kyc /\ closed' = closed
            BY <1>1, <2>1
        <3>2. Decision!Jurisdiction(a)' = Decision!Jurisdiction(a)
            BY <3>1 DEF Decision!Jurisdiction, Decision!OnRecord
        <3>3. Decision!BlockedThere(a)' = Decision!BlockedThere(a)
            BY <3>1, Zenon DEF Decision!BlockedThere
        <3> QED
            BY <3>2, <3>3
    <2>3. Decision!HolderCount' = Decision!HolderCount
        BY <1>1 DEF Decision!HolderCount
    <2>4. \A k : Decision!PolicyAt(k)' = Decision!PolicyAt(k)
        BY <1>1 DEF Decision!PolicyAt
    <2>5. Decision!TierPolicy(from, to)' = Decision!TierPolicy(from, to)
        BY <2>1, <2>4 DEF Decision!TierPolicy
    <2>6. \A p : Decision!TierCap(p)' = Decision!TierCap(p)
        BY <1>1 DEF Decision!TierCap
    <2>7. Decision!RiskTooHigh(Decision!Jurisdiction(from), Decision!Jurisdiction(to))' = Decision!RiskTooHigh(Decision!Jurisdiction(from), Decision!Jurisdiction(to))
        BY <1>1, <2>2 DEF Decision!RiskTooHigh, Decision!Score
    <2> QED
        BY <1>1, <2>1, <2>2, <2>3, <2>5, <2>6, <2>7, ReasonNames DEF Decision!Denials
<1>6. after = "Allow" \/ (after \in Reasons /\ dn[after])
    <2> HIDE DEF dn
    <2> QED
        BY FirstApplies
<1>7. after \in {"Allow", "RecipientHoldingPeriodExceeded"}
    <2> HIDE DEF d, dn, after
    <2> QED
        BY <1>2, <1>4, <1>5, <1>6
<1>8. Decision!Evaluate(from, to, m)' = after
    BY DEF Decision!Evaluate, Decision!First, Decision!Precedence
<1> QED
    BY <1>7, <1>8

\* The clock alone only releases.
THEOREM ClockReleasesOnly == Decision!Spec => ClockReleases
<1>1. DecisionInv /\ [Decision!Next]_(Decision!vars) =>
          [scenario = "decisions" => Decision!ClockOnlyReleases]_decisionVars
    <2> SUFFICES ASSUME DecisionInv, [Decision!Next]_(Decision!vars),
                        NEW t \in Decision!Transfers, NEW m \in Amounts,
                        UNCHANGED <<Decision!engineVars, stamped, kyc>>,
                        Decision!Evaluate(t[1], t[2], m) = "Allow"
                 PROVE  Decision!Evaluate(t[1], t[2], m)' \in {"Allow", "RecipientHoldingPeriodExceeded"}
        BY DEF Decision!ClockOnlyReleases
    <2>1. time \in Nat /\ (time' = time \/ time' = time + 1)
        BY DEF DecisionInv, Decision!Next, Decision!KycChange, Decision!Stamp, Decision!Tick, Decision!vars
    <2>2. time' \in Nat /\ time <= time'
        BY <2>1
    <2>3. t[1] \in Accounts
        BY DEF Decision!Transfers
    <2> QED
        BY <2>2, <2>3, ClockMoves
<1> QED
    BY <1>1, DecisionInvHolds, PTL DEF Decision!Spec, ClockReleases
=============================================================================
