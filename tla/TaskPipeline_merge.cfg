SPECIFICATION Spec
CONSTANTS
    MaxInvocations = 3
    MaxInfra = 1
    GateAttempts = 2
    MaxWork = 2
    MaxKills = 1
PROPERTY MergedIsReviewed
CHECK_DEADLOCK FALSE
