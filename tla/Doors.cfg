CONSTANTS
    None = none
    Doors = {1, 2}
    Known = {2}
    Evidence <- MCEvidence
    Lease = 2
    Fresh = 1
    HoldTime = 1
    Delay = 1
    MaxActs = 2
    LastAct = 1
    MaxTime = 3
    MaxWire = 1
    Stories = {"device", "forming"}
    Nodes = {1, 2, 3}
    Seekers = {1, 2, 3}
    MaxOutages = 1
SPECIFICATION MCFairSpec
CHECK_DEADLOCK FALSE
INVARIANTS
    SpentIsGone
    NothingNewIsAgreement
PROPERTIES
    MeshSettles
