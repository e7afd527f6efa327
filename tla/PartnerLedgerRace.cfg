CONSTANTS
    Ids = {1, 2, 3}
    Principals = {"p1"}
    Keys = {"k1", "k2", "k3"}
    Operations <- MCOps
    Threads = {t1, t2}
    MaxOpenRequests = 1
    MaxOpenProposals = 1
    MinGrant = 1
    MaxGrant = 3
    MaxInvokes = 2
    Hour = 2
    Closable = {"actuate", "agent"}
    MaxTime = 3
    MaxFaults = 1
    None = none
    Menu <- MCMenu
    Stories = {"race"}
SPECIFICATION MCSpec
CHECK_DEADLOCK FALSE
SYMMETRY Alike
INVARIANTS
    StreamLoads
