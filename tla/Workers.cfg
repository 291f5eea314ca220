SPECIFICATION WorkersSpec
CONSTANTS
    MaxInvocations = 2
    MaxInfra = 1
    GateAttempts = 3
    MaxWork = 2
    MaxKills = 2
    Tasks = {t1, t2}
    Untracked = {t2}
    LossLimit = 3
    MaxDeaths = 1
    NoTask = noTask
INVARIANTS
    WorkersTypeOK
    CallsAreCharged
    CompletedIsMerged
    RequeuesBounded
PROPERTIES
    VerdictStands
    
    RequeuedIsServed
CHECK_DEADLOCK FALSE
