\* A verifier with more approvals than one bulk revocation reaches.
SPECIFICATION Spec
CONSTANTS
    Officers = {o1, o2}
    Verifiers = {v1, v2}
    Subjects = {s1, s2}
    Tiers = {3}
    NewTiers = {1, 3}
    Expiries = {0}
    Day = 2
    Windows = {1, 2}
    Horizons = {1, 2}
    BatchLimit = 2
    RevokeCap = 1
    MigrationBatches = {0}
    MaxSchema = 2
    MaxLog = 2
    MaxNow = 0
SYMMETRY Interchangeable
INVARIANT BulkRevokeFinishes
