CONSTANTS
    MaxFailures = 2
    UnknownLimit = 1
    Verbs <- AnyVerb
    Faults <- AnyFault
    MaxVerbs = 1
    MaxTurns = 2
    MaxEvents = 1
SPECIFICATION Spec
INVARIANTS
    TurnsReallyOver OutputlessFails
CHECK_DEADLOCK FALSE
