---------------------------- MODULE KycRegistry ----------------------------
(***************************************************************************)
(* The KYC registry (contracts/kyc-registry): admins and verifiers, the    *)
(* record of every subject, and what is kept beside the records -- the     *)
(* last lifecycle transition, the expiry key and day buckets behind        *)
(* get_expiring_soon, the verifier's list of subjects behind the bulk      *)
(* revocation, and the verifier log with its per-subject copy.             *)
(*                                                                         *)
(* Every action is one transaction.  A log entry is the subject it is      *)
(* about; of the lifecycle journal, which nothing but record_transition    *)
(* writes, the last entry is kept.  Jurisdictions are valid and left out.  *)
(* Deployments start with this code: the index of expiries that older code *)
(* kept (ExpiryIndex), which the second migration reads, is empty.         *)
(*                                                                         *)
(* An operator named Op_Slip is Op with a slip a programmer could make;    *)
(* nothing uses it.  The runs are repeated with Op replaced by it, to see  *)
(* that a property of theirs fails.                                        *)
(***************************************************************************)
EXTENDS Integers, SequencesExt

CONSTANTS
    Officers,       \* addresses that may be or become admins
    Verifiers,      \* addresses that may be or become verifiers
    Subjects,       \* addresses that records are about
    Tiers,          \* tiers a verifier may approve for
    NewTiers,       \* tiers a verifier may change a record to
    Expiries,       \* expiry timestamps a verifier may name, 0 for none
    Day,            \* 86_400
    Windows,        \* within_seconds a reader may ask about
    Horizons,       \* before_day an admin may compact up to
    BatchLimit,     \* 20
    RevokeCap,      \* MAX_REVOKE_BATCH, 50
    MigrationBatches, \* batch sizes an admin may migrate with, 0 for all
    MaxSchema,      \* bound on the schema version
    MaxLog,         \* bound on the log
    MaxNow          \* bound on the ledger timestamp

ASSUME DayIsPositive == Day \in Nat \ {0}
ASSUME NumbersAreNats ==
    /\ {BatchLimit, RevokeCap, MaxSchema, MaxLog, MaxNow} \subseteq Nat
    /\ Tiers \cup NewTiers \cup Expiries \cup Windows \cup Horizons \cup MigrationBatches \subseteq Nat

VARIABLES
    admins,         \* AdminList
    pendingAdmin,   \* PendingAdmin, an Option
    verifiers,      \* VerifierList
    verifierCount,  \* VerifierCount
    record,         \* KycStatus(addr), an Option for every subject
    lastTransition, \* the last LifecycleEntry of a subject, an Option
    subjectExpiry,  \* SubjectExpiry(addr), an Option for every subject
    bucket,         \* ExpiryBucket(day), as pairs of a day and a subject
    earliestDay,    \* EarliestBucketDay
    subjectsOf,     \* VerifierSubjects(verifier)
    log,            \* VerifierLog
    slots,          \* per subject: SubjectVerifierLog entries stored
    logCount,       \* per subject: SubjectVerifierLogCount
    schema,         \* StorageVersion
    now             \* ledger timestamp

peopleVars == <<admins, pendingAdmin, verifiers, verifierCount>>
logVars    == <<log, slots, logCount>>
bookVars   == <<record, lastTransition, subjectExpiry, bucket, subjectsOf, logVars>>
vars == <<peopleVars, bookVars, earliestDay, schema, now>>

Option(S) == {T \in SUBSET S : \A x, y \in T : x = y}

Entry == [subject : Subjects, tier : Tiers, expiry : Expiries]

Init ==
    /\ admins \in {<<a>> : a \in Officers}
    /\ pendingAdmin = {}
    /\ verifiers = <<>>
    /\ verifierCount = 0
    /\ record = [s \in Subjects |-> {}]
    /\ lastTransition = [s \in Subjects |-> {}]
    /\ subjectExpiry = [s \in Subjects |-> {}]
    /\ bucket = {}
    /\ earliestDay = 0
    /\ subjectsOf = [v \in Verifiers |-> <<>>]
    /\ log = <<>>
    /\ slots = [s \in Subjects |-> 0]
    /\ logCount = [s \in Subjects |-> 0]
    /\ schema = 1
    /\ now = 0

----------------------------------------------------------------------------
(* Admins and verifiers *)

\* A list pushed over again, entry by entry, without one address.
Without(list, addr) ==
    LET upTo[i \in 0..Len(list)] ==
          IF i = 0 THEN <<>>
          ELSE IF list[i] = addr THEN upTo[i - 1]
          ELSE Append(upTo[i - 1], list[i])
    IN  upTo[Len(list)]

ProposeAdmin(caller, newAdmin) ==
    /\ caller \in ToSet(admins)
    /\ newAdmin \notin ToSet(admins)
    /\ pendingAdmin' = {newAdmin}
    /\ UNCHANGED <<admins, verifiers, verifierCount, bookVars, earliestDay, schema, now>>

\* Tested again: the pending admin may have been added since.
AcceptAdmin ==
    \E p \in pendingAdmin :
        /\ p \notin ToSet(admins)
        /\ admins' = Append(admins, p)
        /\ pendingAdmin' = {}
        /\ UNCHANGED <<verifiers, verifierCount, bookVars, earliestDay, schema, now>>

AddAdmin(caller, newAdmin) ==
    /\ caller \in ToSet(admins)
    /\ newAdmin \notin ToSet(admins)
    /\ admins' = Append(admins, newAdmin)
    /\ UNCHANGED <<pendingAdmin, verifiers, verifierCount, bookVars, earliestDay, schema, now>>

RemoveAdmin(caller, admin) ==
    /\ caller \in ToSet(admins)
    /\ Len(admins) > 1
    /\ admins' = Without(admins, admin)
    /\ UNCHANGED <<pendingAdmin, verifiers, verifierCount, bookVars, earliestDay, schema, now>>

AddVerifier(caller, v) ==
    /\ caller \in ToSet(admins)
    /\ v \notin ToSet(verifiers)
    /\ verifiers' = Append(verifiers, v)
    /\ verifierCount' = verifierCount + 1
    /\ UNCHANGED <<admins, pendingAdmin, bookVars, earliestDay, schema, now>>

\* A verifier's records and list of subjects outlive its removal.
RemoveVerifier(caller, v) ==
    /\ caller \in ToSet(admins)
    /\ verifiers' = Without(verifiers, v)
    /\ verifierCount' = IF v \in ToSet(verifiers) /\ verifierCount > 0
                        THEN verifierCount - 1 ELSE verifierCount
    /\ UNCHANGED <<admins, pendingAdmin, bookVars, earliestDay, schema, now>>

----------------------------------------------------------------------------
(* The book: what a decision about a subject writes *)

Book == [record |-> record, last |-> lastTransition, subjectExpiry |-> subjectExpiry,
         bucket |-> bucket, subjectsOf |-> subjectsOf, log |-> log, slots |-> slots,
         logCount |-> logCount]

SetBook(b) ==
    /\ record' = b.record
    /\ lastTransition' = b.last
    /\ subjectExpiry' = b.subjectExpiry
    /\ bucket' = b.bucket
    /\ subjectsOf' = b.subjectsOf
    /\ log' = b.log
    /\ slots' = b.slots
    /\ logCount' = b.logCount
    /\ UNCHANGED <<peopleVars, earliestDay, schema, now>>

DayOf(t) == t \div Day

\* get_record_or_default
RecordOr(b, s, verifier) ==
    IF b.record[s] = {}
    THEN [status |-> "Pending", verifier |-> verifier, tier |-> 0, expiry |-> 0]
    ELSE CHOOSE r \in b.record[s] : TRUE

\* record_transition
RecordTransition(b, s, kind, actor, r) ==
    [b EXCEPT !.last[s] = {[kind |-> kind, verifier |-> actor, tier |-> r.tier,
                            expiry |-> r.expiry]}]

\* A record that is not approved, or does not expire, has no expiry key.
ExpiryKey(r) ==
    IF r.status = "Approved" /\ r.expiry # 0 THEN {r.expiry} ELSE {}

\* The verifier's list gains the subject once, and never loses it.
Indexed(b, s, r) ==
    IF s \in ToSet(b.subjectsOf[r.verifier]) THEN b.subjectsOf[r.verifier]
    ELSE Append(b.subjectsOf[r.verifier], s)

\* write_record; a bucket of an earlier expiry keeps its entry.
WriteRecord(b, s, r) ==
    [b EXCEPT !.record[s] = {r},
              !.subjectExpiry[s] = ExpiryKey(r),
              !.bucket = @ \cup {<<DayOf(e), s>> : e \in ExpiryKey(r)},
              !.subjectsOf[r.verifier] = Indexed(b, s, r)]

\* append_log refuses to overwrite a slot that is taken.
LogOpen(s) == logCount[s] >= slots[s]

\* append_log
AppendLog(b, s) ==
    [b EXCEPT !.log = Append(@, s), !.slots[s] = @ + 1, !.logCount[s] = @ + 1]

\* Journal, record and log, in this order.
Decide(b, s, kind, actor, r) ==
    AppendLog(WriteRecord(RecordTransition(b, s, kind, actor, r), s, r), s)

----------------------------------------------------------------------------
(* Decisions of verifiers *)

MayDecide_AnyCaller(verifier) == verifier \in Verifiers

MayDecide(verifier) == verifier \in ToSet(verifiers)

\* validate_expiry
ValidExpiry(expiry) == expiry = 0 \/ expiry > now

Approved(b, verifier, e) ==
    Decide(b, e.subject, "Approve", verifier,
           [status |-> "Approved", verifier |-> verifier, tier |-> e.tier, expiry |-> e.expiry])

\* One refused entry refuses the batch; a subject may come twice.
ApproveBatch(verifier, entries) ==
    LET after[n \in 0..Len(entries)] ==
          IF n = 0 THEN Book ELSE Approved(after[n - 1], verifier, entries[n])
    IN  /\ MayDecide(verifier)
        /\ Len(entries) \in 1..BatchLimit
        /\ Len(log) + Len(entries) <= MaxLog
        /\ \A i \in DOMAIN entries : ValidExpiry(entries[i].expiry) /\ LogOpen(entries[i].subject)
        /\ SetBook(after[Len(entries)])

Approve(verifier, entry) == ApproveBatch(verifier, <<entry>>)

\* Keeps the verifier, tier and expiry on record.
Closed(b, s, verifier, kind, status) ==
    Decide(b, s, kind, verifier, [RecordOr(b, s, verifier) EXCEPT !.status = status])

Reject(verifier, s) ==
    /\ MayDecide(verifier)
    /\ LogOpen(s)
    /\ Len(log) < MaxLog
    /\ SetBook(Closed(Book, s, verifier, "Reject", "Rejected"))

Revoke(verifier, s) ==
    /\ MayDecide(verifier)
    /\ RecordOr(Book, s, verifier).tier <= 2
    /\ LogOpen(s)
    /\ Len(log) < MaxLog
    /\ SetBook(Closed(Book, s, verifier, "Revoke", "Revoked"))

\* Unlike revoke, whatever the tier on record.
RevokeBatch(verifier, subjects) ==
    LET after[n \in 0..Len(subjects)] ==
          IF n = 0 THEN Book ELSE Closed(after[n - 1], subjects[n], verifier, "Revoke", "Revoked")
    IN  /\ MayDecide(verifier)
        /\ Len(subjects) <= BatchLimit
        /\ Len(log) + Len(subjects) <= MaxLog
        /\ \A s \in ToSet(subjects) : LogOpen(s)
        /\ SetBook(after[Len(subjects)])

TierUpdated_Unrecorded(s, verifier, r) == WriteRecord(Book, s, r)

TierUpdated(s, verifier, r) ==
    WriteRecord(RecordTransition(Book, s, "TierUpdate", verifier, r), s, r)

\* Journalled, but not logged.
UpdateTier(verifier, s, tier) ==
    /\ MayDecide(verifier)
    /\ tier <= 2
    /\ \E r \in record[s] :
          /\ r.status = "Approved"
          /\ SetBook(TierUpdated(s, verifier, [r EXCEPT !.tier = tier]))

----------------------------------------------------------------------------
(* Administration of records *)

\* The approved subjects a bulk revocation of this verifier revokes.
Reached(v) ==
    {s \in {subjectsOf[v][i] : i \in {j \in DOMAIN subjectsOf[v] : j <= RevokeCap}} :
        \E r \in record[s] : r.status = "Approved"}

\* revoke_all_by_verifier writes records directly: expiry keys, lists and log
\* stay as they are.
RevokeAllByVerifier(caller, v) ==
    /\ caller \in ToSet(admins)
    /\ record' = [s \in Subjects |-> IF s \in Reached(v)
                                     THEN {[r EXCEPT !.status = "Revoked"] : r \in record[s]}
                                     ELSE record[s]]
    /\ lastTransition' = [s \in Subjects |->
          IF s \in Reached(v)
          THEN {[kind |-> "Revoke", verifier |-> v, tier |-> r.tier, expiry |-> r.expiry]
                  : r \in record[s]}
          ELSE lastTransition[s]]
    /\ UNCHANGED <<peopleVars, subjectExpiry, bucket, subjectsOf, logVars, earliestDay,
                   schema, now>>

\* The buckets compaction looks at, and the day it stops before: the limit of
\* buckets is met, or everything before the given day is gone.
StaleDays(before) == {p[1] : p \in bucket} \cap (earliestDay..(before - 1))

StopDay(before, limit) ==
    CHOOSE d \in earliestDay..before :
        LET stops(k) == \/ k = before
                        \/ Cardinality({e \in StaleDays(before) : e < k}) = limit
        IN  stops(d) /\ \A k \in earliestDay..(d - 1) : ~stops(k)

Compacted(stop) == {p \in bucket : earliestDay <= p[1] /\ p[1] < stop}

CompactExpiryBuckets(caller, before, limit) ==
    /\ caller \in ToSet(admins)
    /\ before >= earliestDay
    /\ bucket' = bucket \ Compacted(StopDay(before, limit))
    /\ earliestDay' = StopDay(before, limit)
    /\ UNCHANGED <<peopleVars, record, lastTransition, subjectExpiry, subjectsOf, logVars,
                   schema, now>>

EntriesAbout(s, entries) == Cardinality({i \in DOMAIN entries : entries[i] = s})

\* The counts of the subjects in the part of the log migrated start over.
Rebuilt(s, prefix) ==
    IF s \in ToSet(prefix) THEN EntriesAbout(s, prefix) ELSE logCount[s]

\* Version 2 rebuilds the per-subject logs from the first entries of the log.
MigrateSchema(caller, to, batch) ==
    LET prefix == IF batch = 0 \/ batch > Len(log) THEN log ELSE SubSeq(log, 1, batch)
    IN  /\ caller \in ToSet(admins)
        /\ to = schema + 1
        /\ to <= MaxSchema
        /\ schema' = to
        /\ IF to = 2
           THEN /\ logCount' = [s \in Subjects |-> Rebuilt(s, prefix)]
                /\ slots' = [s \in Subjects |->
                                IF slots[s] < Rebuilt(s, prefix) THEN Rebuilt(s, prefix)
                                ELSE slots[s]]
           ELSE UNCHANGED <<logCount, slots>>
        /\ UNCHANGED <<peopleVars, record, lastTransition, subjectExpiry, bucket, subjectsOf,
                       log, earliestDay, now>>

Tick ==
    /\ now < MaxNow
    /\ now' = now + 1
    /\ UNCHANGED <<peopleVars, bookVars, earliestDay, schema>>

PeopleNext ==
    \/ \E c, a \in Officers : ProposeAdmin(c, a) \/ AddAdmin(c, a) \/ RemoveAdmin(c, a)
    \/ AcceptAdmin
    \/ \E c \in Officers, v \in Verifiers : AddVerifier(c, v) \/ RemoveVerifier(c, v)

DecisionNext ==
    \E v \in Verifiers :
        \/ \E e \in Entry : Approve(v, e)
        \/ \E n \in 1..BatchLimit : \E entries \in [1..n -> Entry] : ApproveBatch(v, entries)
        \/ \E s \in Subjects : Reject(v, s) \/ Revoke(v, s)
        \/ \E n \in 0..BatchLimit : \E list \in [1..n -> Subjects] : RevokeBatch(v, list)
        \/ \E s \in Subjects, t \in NewTiers : UpdateTier(v, s, t)

AdminNext ==
    \E c \in Officers :
        \/ \E v \in Verifiers : RevokeAllByVerifier(c, v)
        \/ \E d \in Horizons, n \in {1, 2} : CompactExpiryBuckets(c, d, n)
        \/ \E t \in 2..MaxSchema, n \in MigrationBatches : MigrateSchema(c, t, n)

Next == PeopleNext \/ DecisionNext \/ AdminNext \/ Tick

Spec == Init /\ [][Next]_vars

----------------------------------------------------------------------------
(* Queries *)

IsApproved(s) ==
    \E r \in record[s] : r.status = "Approved" /\ (r.expiry = 0 \/ r.expiry > now)

Expiring_StaleToo(day, s, within) ==
    \E e \in subjectExpiry[s] : e > now /\ e <= now + within

\* An entry of a bucket counts if it is of the day of the current expiry.
Expiring(day, s, within) ==
    \E e \in subjectExpiry[s] : DayOf(e) = day /\ e > now /\ e <= now + within

\* get_expiring_soon: what is listed, with the day it is listed under.
GetExpiringSoon(within) ==
    {p \in bucket :
        /\ p[1] \in DayOf(now)..(DayOf(now + within) + 1)
        /\ Expiring(p[1], p[2], within)
        /\ \E r \in record[p[2]] : r.status = "Approved"}

----------------------------------------------------------------------------
(* Properties *)

KycRecord == [status : {"Pending", "Approved", "Rejected", "Revoked"},
              verifier : Verifiers, tier : Nat, expiry : Nat]

KycTransition == [kind : {"Approve", "Reject", "Revoke", "TierUpdate"},
                  verifier : Verifiers, tier : Nat, expiry : Nat]

\* Every variable has its type.
TypeOK ==
    /\ admins \in Seq(Officers)
    /\ pendingAdmin \in Option(Officers)
    /\ verifiers \in Seq(Verifiers)
    /\ verifierCount \in Nat
    /\ \A s \in Subjects : record[s] \subseteq KycRecord
    /\ \A s \in Subjects : lastTransition[s] \subseteq KycTransition
    /\ subjectExpiry \in [Subjects -> Option(Nat \ {0})]
    /\ bucket \subseteq Nat \X Subjects
    /\ earliestDay \in Nat
    /\ subjectsOf \in [Verifiers -> Seq(Subjects)]
    /\ log \in Seq(Subjects)
    /\ slots \in [Subjects -> Nat]
    /\ logCount \in [Subjects -> Nat]
    /\ schema \in Nat
    /\ now \in Nat

\* The registry never loses its last admin, nobody is admin or verifier twice --
\* a removal would leave the other entry in office -- and the counter counts.
OfficeSound ==
    /\ Len(admins) > 0
    /\ IsInjective(admins)
    /\ IsInjective(verifiers)
    /\ verifierCount = Len(verifiers)

Outcome(kind) ==
    CASE kind \in {"Approve", "TierUpdate"} -> "Approved"
      [] kind = "Reject" -> "Rejected"
      [] kind = "Revoke" -> "Revoked"

\* The record can be reconstructed from the journal: its last entry, whichever
\* of the six ways wrote it, tells the status, tier and expiry on record.
JournalTellsRecord ==
    \A s \in Subjects :
        /\ record[s] = {} <=> lastTransition[s] = {}
        /\ \A r \in record[s], t \in lastTransition[s] :
              r.status = Outcome(t.kind) /\ r.tier = t.tier /\ r.expiry = t.expiry

\* A record is listed under the verifier it names, once: what a bulk revocation
\* goes through leaves out no record of the verifier.
ListsCoverRecords ==
    /\ \A v \in Verifiers : IsInjective(subjectsOf[v])
    /\ \A s \in Subjects : \A r \in record[s] : s \in ToSet(subjectsOf[r.verifier])

\* get_expiring_soon lists approved subjects whose expiry falls in the window,
\* each once however often it was approved again, and all of them as long as
\* compaction has not gone past the day they expire on.
ExpiringSoonExact ==
    \A w \in Windows :
        LET due == {s \in Subjects : \E r \in record[s] :
                        r.status = "Approved" /\ r.expiry > now /\ r.expiry <= now + w}
            listed == GetExpiringSoon(w)
        IN  /\ {p[2] : p \in listed} \subseteq due
            /\ \A p, q \in listed : p[2] = q[2] => p = q
            /\ \A s \in due : (\E r \in record[s] : DayOf(r.expiry) >= earliestDay)
                                 => \E p \in listed : p[2] = s

\* A subject's log has room for its next decision, and holds every logged
\* decision about it: nothing a verifier may decide is refused for want of a slot.
LogComplete ==
    \A s \in Subjects :
        logCount[s] = slots[s] /\ logCount[s] = EntriesAbout(s, log)

\* A subject becomes approved only by an approval, not yet expired, of a verifier
\* in office at that moment: tier updates, migrations, bulk operations, the clock
\* and verifiers removed since bring nobody back.
ApprovedByVerifier ==
    [][\A s \in Subjects : ~IsApproved(s) /\ IsApproved(s)' =>
          \E t \in lastTransition'[s] : t.kind = "Approve" /\ t.verifier \in ToSet(verifiers)]_vars

\* docs/incident-response.md:183 "If the verifier approved more than 50 addresses,
\* call repeatedly until it returns `revoked: 0`."  A call that would revoke nothing
\* should mean that no approval by the verifier is left.
BulkRevokeFinishes ==
    \A v \in Verifiers :
        Reached(v) = {} => \A s \in Subjects : \A r \in record[s] :
                              r.verifier = v => r.status # "Approved"

\* The record, its journal, the verifiers' lists and logs, and the office, written
\* one after the other by every decision, agree after it.
RecordsSound ==
    TypeOK /\ OfficeSound /\ JournalTellsRecord /\ ListsCoverRecords /\ LogComplete /\ ExpiringSoonExact
=============================================================================
