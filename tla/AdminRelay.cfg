\* Signed calls and their delivery in one scenario, recovery in the other (MCAdminRelay).  One
\* address may hold every role.
SPECIFICATION MCSpec
CONSTANTS
    a1 = a1
    a2 = a2
    a3 = a3
    Parties = {a1, a2, a3}
    Roles = {officer}
    Governance = officer
    Registry = officer
    Compliance = officer
    Contracts = {k1, k2}
    Versions = {v1, v2}
    GuardianLists <- Trio
    Thresholds = {2}
    Cooldowns = {0}
    MaxGuardians = 3
    MaxNonce = 2
    LastLedger = 0
    MaxSigned = 2
SYMMETRY Interchangeable
INVARIANTS
    AppliedInContext
    RecoveryVoidsSigned
    RecoverySound
PROPERTIES
    RecoveryByQuorum
    ProtectedCostsNonce
