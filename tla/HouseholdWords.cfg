CONSTANTS
    None = none
    Stories = {"consults"}
    DoorA = doorA
    DoorB = doorB
    Claims = {p}
    Horizon = 1
    SyncCap = 2
    SmallCap = 1
    MaxOps = 3
    MaxLost = 1
    MaxDay = 3
    Addrs = {lan, tail}
    Hourly = 1
    MaxNetworks = 1
    MaxStated = 2
    Her = ada
    Him = bo
    AnswerRest = 1
    DismissRest = 1
    DismissMax = 1
    Hold = 1
    LastTalk = 1
    MaxVisits = 2
    MaxHalts = 1
    MaxHour = 4
    Calls = {c1, c2}
    Humans = {}
    Processes = {daemon, factory}
    Hub = hub
    Peers = {p1}
    Newcomers = {n1, n2}
    Things = {q1}
    GrantLife = 1
    DenyHold = 1
    MaxTime = 1
    MaxDone = 2
SPECIFICATION MCSpec
CHECK_DEADLOCK FALSE
INVARIANT
    OwnWords
