CONSTANTS
    None = none
    NoClaim = noclaim
    Window = 1
    Rest = 1
    Poll = 1
    SurfaceTime = 2
    Budgets <- MCBudgets
    Corrections = {"c1"}
    Reversals = {"r1"}
    Cooldown = 1
    MaxResults = 4
    MaxTime = 2
    MaxStops = 1
    Claims = {p1}
    Within = 1
    Grace = 2
    MaxDelay = 2
    MaxEvents = 2
    LastMint = 2
    MaxHalts = 1
    MaxHour = 6
    Words = {w1, w2}
    Corrupting = {w2}
    Talk <- MCTalk
    ReplyWindow = 1
    DialogueStops = 1
    DialogueTime = 2
SPECIFICATION MCFairSpec
CHECK_DEADLOCK FALSE
INVARIANTS
    TickTypeOK
    AssentedIsPaired
    ScoresAreSound
    RepliesKeepFaith
PROPERTIES
    BeliefsMoveForCause
    AsidesArePaced
    NoIsHeeded
    YesIsKept
    SettledAndHeard
