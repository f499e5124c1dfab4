CONSTANTS
    Names = {dev}
    Callers = {t1, t2}
    Boot = boot
    Timer = timer
    MaxCommands = 2
    MaxRuns = 2
    MaxVerbs = 4
    Faults <- AnyFault
    MaxFaults = 2
SPECIFICATION FairSpec
INVARIANTS
    ServersFenced
PROPERTIES
    StaleServersEnd
CHECK_DEADLOCK FALSE
