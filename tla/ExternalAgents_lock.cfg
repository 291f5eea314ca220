SPECIFICATION ExtFairSpec
CONSTANTS
    NumUmrs = 1
    NumAttempts = 3
    MaxAttempts = 2
    MaxSubKills = 1
PROPERTY SubmissionEnds
CHECK_DEADLOCK FALSE
