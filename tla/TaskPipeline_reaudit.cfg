SPECIFICATION FairSpec
CONSTANTS
    MaxInvocations = 2
    MaxInfra = 1
    GateAttempts = 2
    MaxWork = 2
    MaxKills = 0
PROPERTY ReAudited
CHECK_DEADLOCK FALSE
