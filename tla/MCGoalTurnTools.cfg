CONSTANTS
    MaxTurns = 2
    MaxFailures = 1
    MaxRejections = 1
    CompactEvery = 0
    Budgeted = FALSE
    WorkerCalls = {"complete","block","progress","notify"}
    OwnerCalls = {"pause","resume"}
    MaxOwnerCalls = 2
    Faults = {"prepareFails","promptRefused"}
    MaxFaults = 0
    MaxRuns = 2
SPECIFICATION Spec
PROPERTIES
    StoppedStaysStopped
CHECK_DEADLOCK FALSE
