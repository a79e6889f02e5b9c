\* Holders and officers in one scenario, spenders and the ledger clock in the other (MCRwaToken).
SPECIFICATION MCSpec
CONSTANTS
    a1 = a1
    a2 = a2
    a3 = a3
    Accounts = {a1, a2, a3}
    Token = token
    Issuers = {a1}
    Officers = {a1}
    Amounts = {0, 1, 2}
    MaxSupply = 4
    MaxBatch = 3
    I128Max = 5
    Caps = {0, 1, 2}
    Screened = {a2, a3}
    Spenders = {}
    MaxLedger = 1
INVARIANTS
    BooksSound
    SupplyWithinCap
PROPERTIES
    UnapprovedNeverMoves
    DeniedNeverTransfers
    CallsScreened
    ImplementsLedger
