SPECIFICATION DispatchSpec
CONSTANTS
    Dispatchers = {tick, phase, governor}
    NoDispatcher = none
    Tasks = {t1}
    Cap = 1
    StartLimitBurst = 2
    LowestTier = 2
    MaxWaiting = 3
    MaxMeddling = 2
    NumTries = 2
    MaxLinked = 5
    MaxWorked = 2
    MaxAsked = 2
    Waiting = {q1}
    Flaggers = {f1, f2}
    Seams = {"report"}
    MaxTurns = 2
    Closers = {k1, k2}
    Commits = {c1}
    NoCommit = noCommit
    MaxMoves = 3
INVARIANTS
    DispatchTypeOK
    
    RefusedOnEvidence
    ClosedOnEvidence
PROPERTIES
    
    AnswersStand
    AgedIsServed
CHECK_DEADLOCK FALSE
