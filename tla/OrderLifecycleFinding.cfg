CONSTANTS
    Plan <- MCPlan
    Labels <- MCLabels
    Surface <- MCSurface
    Locks = {"stdlib", "pinned"}
    Outcomes <- MCOutcomes
    Lock = "stdlib"
    Requests = {"q1", "q2"}
    Digests = {"d1", "d2"}
    None = none
    MaxIterations = 2
    Runners = {r1, r2}
    Candidates = {sound, faulty}
    Good = {sound}
    DeskEvents <- MCDesk
    MaxRounds = 2
    MaxCrashes = 1
    Cells = 3
    Cap = 3
    MaxCalls = 1
    MaxStarts = 3
    Torn = torn
    Writers = {w1, w2}
    Nobody = nobody
    MaxRecords = 3
    MaxStops = 1
    Hosts = {1, 2}
    Unowned = unowned
    Deployers = {1}
    MaxAttempts = 2
    MaxSeeds = 2
    MaxBriefs = 1
SPECIFICATION MCSpec
CHECK_DEADLOCK FALSE
INVARIANT
    CommissionedAsProposed
