SPECIFICATION Spec
CONSTANTS
    Workers = {w1, w2}
    Domains = {d1}
    NoDomain = NoDomain
    None = None
    Window = 1
    DayLength = 2
    Floor = 1
    Limits = {0, 2}
    Policies <- MCPolicies
    MaxTime = 2
    MaxSlots = 3
SYMMETRY WorkerSymmetry
INVARIANTS
    WindowsRespected
    DeferralJustified
CHECK_DEADLOCK FALSE
