CONSTANTS
    m1 = m1
    m2 = m2
    m3 = m3
    Models = {m1, m2, m3}
    Agents = {a1, a2}
    None = none
    Fallbacks <- Later
    Surfaces <- AnySurface
    Faults <- AnyFault
    MaxFaults = 2
    MaxTurns = 2
    MaxVerbs = 2
SYMMETRY Alike
SPECIFICATION Spec
INVARIANTS
    IdentityHolds
PROPERTIES
    QuotaYields
CHECK_DEADLOCK FALSE
