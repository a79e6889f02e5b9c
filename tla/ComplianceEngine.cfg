\* Rules and holders, lists and their migration, and decisions (MCComplianceEngine).
SPECIFICATION MCSpec
CONSTANTS
    a1 = a1
    a2 = a2
    a3 = a3
    t1 = t1
    p1 = p1
    j1 = j1
    j2 = j2
    Token = token
    Unknown = unknown
    Settings <- TwoAreas
    KycRecords <- Records
    Wildcard <- AnyTier
    Amounts = {1, 2, 3}
    Horizon = 2
    Admins = {d1}
    Accounts = {a1, a2}
    Listable = {}
    Registrable = {a1, a2}
    RuleChoices <- Proposals
    MaxHoldingDays = 8
    Delay = 2
    Notes = {n1}
    NoNote = none
    LegacyLists = {}
    Stamps <- Moments
    TierPairs = {t1}
    TierPolicies = {}
    Jurisdictions = {}
    Scores = {}
    MaxHistory = 4
    MaxSchema = 1
    MaxNow = 4
INVARIANTS
    RecordsSound
    HoldersSound
    DecisionsAgree
PROPERTIES
    TimelockHonoured
    
    
