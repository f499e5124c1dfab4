CONSTANTS
    MaxTurns = 1
    MaxFailures = 1
    MaxRejections = 1
    CompactEvery = 0
    Budgeted = FALSE
    WorkerCalls = {}
    OwnerCalls = {"pause","resume","retry","nudge","manual","abort","clear","forceComplete","forceBlock"}
    MaxOwnerCalls = 2
    Faults = {"restart","promptTimesOut"}
    MaxFaults = 1
    MaxRuns = 2
SPECIFICATION Spec
INVARIANTS
    TypeOK OneTurnAtATime ParkedIsQuiet
PROPERTIES
    ClearIsFinal LedgerSpec
CHECK_DEADLOCK FALSE
