SPECIFICATION MCSpec
CONSTANTS
    Submissions = {s1, s2}
    InitialFee = 2
    MaxFee = 7
    MaxRetries = 3
    Configured <- MCBooleans
    PageSize = 2
    Emitted = 5
    LastEmitted = 6
    TableSlots <- MCSlots
    MaxFetches = 5
    Addresses = {a1}
    Limit = 2
    Lookback = 0
    MaxSeen = 2
    QueueCap = 1
    Threshold = 2
    Window = 1
    MaxEvents = 3
    MaxNow = 1
    MaxPolls = 3
    Accounts = {A, B}
    Attempts <- MCSlots
    Verifiers = {A}
    Operators = {B}
    MaxReloads = 1
    Admins = {o1, o2}
    DeskCalls <- MCSlots
    Limits = {1}
    MaxDeskReloads = 1
    Fraction = 9
    PageSlots <- MCSlots
    MaxQueue = 2
    Grid <- MCGrid
    Wildcard = "any"
    Files <- MCFiles
    MAX_SNAPSHOTS = 2
    MaxActions = 3
    StatusContracts = {"kyc", "engine"}
    Rows = {"engine", "blocklist"}
    MaxStarts = 2
    MaxChanges = 1
    Callers = {"alice", "bob", "mallory"}
    Menus <- MCMenus
    MalformedCallers = {"mallory"}
    MaxDividend = 2
    MaxCalls = 4
INVARIANTS
    CallersTold SessionSound PagesHonest  NothingInvented AnswersSound
PROPERTIES
     AlertsSound DeskSound
SYMMETRY Alike
CHECK_DEADLOCK FALSE
