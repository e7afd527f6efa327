CONSTANTS
    None = none
    Doors = {1, 2}
    Known = {2}
    Evidence <- MCEvidence
    Lease = 1
    Fresh = 1
    HoldTime = 1
    Delay = 0
    MaxActs = 1
    LastAct = 1
    MaxTime = 2
    MaxWire = 1
    Stories = {"device"}
    Nodes = {1, 2, 3}
    Seekers = {1, 2, 3}
    MaxOutages = 1
SPECIFICATION MCFairSpec
CHECK_DEADLOCK FALSE
PROPERTY
    ReleaseStands
