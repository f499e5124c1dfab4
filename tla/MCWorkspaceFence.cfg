CONSTANTS
    f1 = f1
    Goals = {g1, g2}
    Files = {f1}
    Calls = {c1, c2}
    Owner = owner
    Stranger = stranger
    NoGoal = noGoal
    NoCall = noCall
    Contracts <- AnyContract
    Operations = {"check", "approved"}
    MaxWorkers = 2
    MaxTurns = 2
    MaxVerbs = 3
    MaxFaults = 1
    MaxMoves = 3
SYMMETRY Alike
SPECIFICATION Spec
INVARIANTS
    FenceHeld TicketsExclude OneOwnerPerFile ParkedWakes
PROPERTIES
    QuietActivation
CHECK_DEADLOCK FALSE
