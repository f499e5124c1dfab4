CONSTANTS
    s1 = s1
    s2 = s2
    g1 = g1
    g2 = g2
    NumRequests = 2
    Servers <- TwoServers
    Resident <- OneServer
    GoalOf <- FirstApart
    Wedged <- FirstGoal
    Faults = {"unwritable", "lockDeadline", "crash", "dispose"}
    Unchecked = {2}
    MaxFaults = 1
SPECIFICATION FairSpec
INVARIANTS
    AtMostOnce AnswersAreTrue
PROPERTIES
    EveryRequestAnswered
CHECK_DEADLOCK FALSE
