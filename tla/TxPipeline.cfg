\* The transaction pipeline or the deployment script (MCTxPipeline).  Calls end,
\* and so may a deployment.
SPECIFICATION MCSpec
CONSTANTS
    w1 = w1
    w2 = w2
    r1 = r1
    d1 = d1
    Writes = {w1, w2}
    Reads = {r1}
    Direct = {d1}
    Timed = {d1}
    Content <- MCContent
    Seconds = {1}
    MaxRetries = 1
    MaxCalls = 2
    None = None
    Names = {"kyc", "engine", "token"}
    DependsOn <- Needs
    Configs <- MCConfigs
    MaxVersion = 2
    MaxInstances = 14
    MaxFaults = 2
INVARIANTS
    ReportedLanded
    FirstTriesSound
    
PROPERTIES
    EveryWriteAnswers
    OnlyChangesMove
    
CHECK_DEADLOCK FALSE
