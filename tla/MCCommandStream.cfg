CONSTANTS
    s1 = s1
    s2 = s2
    h1 = h1
    h2 = h2
    Sockets <- TwoSockets
    Sinks <- TwoSinks
    NoSocket = NoSocket
    NoSink = NoSink
    MaxOutput = 2
    Retain = 1
    Window = 1
    MaxResyncs = 1
    MaxMoves = 4

SPECIFICATION Spec
SYMMETRY Alike

INVARIANTS
    ShownIsTrue
    ExitSeenLast
    SinksAreHeld
    RestsCurrent

CHECK_DEADLOCK FALSE
