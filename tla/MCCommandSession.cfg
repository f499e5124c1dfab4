CONSTANTS
    Callers = {t1, t2}
    Plugin = plugin
    MaxCommands = 2
    Specs <- Unlimited
    Watches = {"none"}
    NoticeRetries = 1
    MaxVerbs = 3
    MaxLines = 0
    Faults = {"start", "prompt", "dispose", "crash"}
    MaxFaults = 1
SPECIFICATION Spec
SYMMETRY Alike
INVARIANTS
    WakesAddUp PingedOnce OrphansFenced
PROPERTIES
    TerminalIsFinal
CHECK_DEADLOCK FALSE
