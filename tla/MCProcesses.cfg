SPECIFICATION ProcessesSpec
CONSTANTS
    ConsumeTasks = {t1, t2, t3}
    NoTask = NoTask
    MaxCommands = 4
    KgWorkspaces = {w1, w2}
    CircuitThreshold = 2
    MaxDisturbances = 3
    Searches = {"s1", "s2", "s3"}
    Backends = {"b1", "b2"}
    BackendOf <- MCBackendOf
    LocalLimit = 2
    GlobalLimit = 1
    PermitTtl = 2
    WaitTimeout = 1
    MaxRedisFaults = 2
    MaxIterations = 2
    MaxPlanSteps = 3
    MaxAgentFaults = 1
INVARIANTS
    ProcessesTypeOK
PROPERTIES
    ConsumesAsTold
    KgWorkerKeepsUp
    PermitsAreKept
    
CHECK_DEADLOCK FALSE
