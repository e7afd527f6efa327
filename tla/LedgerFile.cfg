CONSTANTS
    Plan <- MCPlan
    Labels <- MCLabels
    Surface <- MCSurface
    Locks = {"stdlib", "pinned"}
    Outcomes <- MCOutcomes
    Lock = "stdlib"
    Requests = {"q1"}
    Digests = {"d1"}
    None = none
    Writers = {w1, w2}
    OrderId = "order-1"
    Menu <- MCMenu
    MaxIterations = 2
    MaxEvents = 3
    MaxFaults = 1
SPECIFICATION FairSpec
CHECK_DEADLOCK FALSE
INVARIANTS
    DiskReplays
    AckedIsKept
PROPERTIES
    ImplementsLifecycle
    AppendReturns
