CONSTANTS
    MaxTurns = 2
    MaxFailures = 2
    MaxRejections = 1
    CompactEvery = 1
    Budgeted = TRUE
    WorkerCalls = {}
    OwnerCalls = {}
    MaxOwnerCalls = 0
    Faults = {"failed","foreign","leaseExpires","interrupted","retry","createFails","toolCalls","unread"}
    MaxFaults = 1
    MaxRuns = 2
SPECIFICATION FairSpec
PROPERTIES
    ClosesEndedTurns NeverStallsSilently LeaksCleared
CHECK_DEADLOCK FALSE
