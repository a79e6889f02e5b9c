SPECIFICATION Spec
CONSTANTS
    Callers = {"alice", "bob", "mallory"}
    Menus <- MCMenus
    MalformedCallers = {"mallory"}
    MaxDividend = 2
    MaxCalls = 4
INVARIANTS
    DenialReachesCaller
CHECK_DEADLOCK FALSE
