CONSTANTS
    Callers = {t1}
    Plugin = plugin
    MaxCommands = 1
    Specs <- Ending
    Watches = {"filter"}
    NoticeRetries = 1
    MaxVerbs = 2
    MaxLines = 1
    Faults = {"start", "prompt", "crash"}
    MaxFaults = 3
SPECIFICATION FairSpec
PROPERTIES
    EndsRecorded AwaitedEndWakes OwnerPinged UntilStops 
CHECK_DEADLOCK FALSE
