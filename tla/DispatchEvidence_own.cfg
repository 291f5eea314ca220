SPECIFICATION EvidenceSpec
CONSTANTS
    NumTries = 2
    MaxLinked = 5
    MaxWorked = 2
INVARIANTS
    SupersededByOthers
CHECK_DEADLOCK FALSE
