CONSTANTS
    c1 = c1
    c2 = c2
    c3 = c3
    c4 = c4
    p1 = p1
    p2 = p2
    NoCall = NoCall
    Processes <- MCProcesses
    ProcessOf <- TwoProcesses
    Calls <- ThreeLockedOneDirect
    DirectCalls <- OneDirectCall
    MaxCrashes = 1
SPECIFICATION LockFairSpec
INVARIANTS
    ExclusiveUnlessRobbed
    NoLostMutation
PROPERTIES
    ReleaseOwnLock
    EveryCallEnds
CHECK_DEADLOCK FALSE
