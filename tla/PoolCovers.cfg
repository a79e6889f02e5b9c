\* Claims and dust against the pool, as the contract reference has it.
SPECIFICATION MCSpec
CONSTANTS
    a1 = a1
    a2 = a2
    a3 = a3
    i1 = i1
    i2 = i2
    Invoices = {i1}
    Accounts = {a1, a2, a3}
    NoOne = none
    NoMeta = unknown
    Metas <- MCMetas
    Amounts = {1, 2}
    MaxBatch = 1
    MaxNow = 1
    MaxNotes = 1
    Spenders = {}
    Watched = {}
    Switches = {}
    CreditAccounts = {a1, a2}
    CreditAmounts = {0, 1}
    CreditsWatched = {a2}
    CreditBatch = 2
    MaxMinted = 2
    MaxReceipts = 3
    ShareAccounts = {a1, a2}
    Shares = {1}
    Deposits = {2}
    Authorized = 3
    Scale <- Scaled
    Upgrades <- MCUpgrades
    NoCheckpoint = unknown
    ShareSpenders = {}
    SharesWatched = {}
    MaxDeposits = 2
    ShareNow = 1
    Traded = i1
INVARIANT
    PoolCovers
