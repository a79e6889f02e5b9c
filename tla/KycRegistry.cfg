\* Decisions of two verifiers about two subjects, approvals renewed for another
\* day included, with bulk revocations that reach one subject a call, changes of
\* office, compaction, the migration in one piece, and the clock.
SPECIFICATION Spec
CONSTANTS
    Officers = {o1, o2}
    Verifiers = {v1, v2}
    Subjects = {s1, s2}
    Tiers = {3}
    NewTiers = {1, 3}
    Expiries = {0, 1, 3}
    Day = 2
    Windows = {1, 2}
    Horizons = {1, 2}
    BatchLimit = 2
    RevokeCap = 1
    MigrationBatches = {0}
    MaxSchema = 2
    MaxLog = 2
    MaxNow = 2
SYMMETRY Interchangeable
INVARIANTS
    RecordsSound
PROPERTIES
    ApprovedByVerifier
