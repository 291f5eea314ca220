SPECIFICATION Spec
CONSTANTS
    Dispatchers = {tick, governor}
    NoDispatcher = none
    Tasks = {t1, t2}
    Cap = 2
    StartLimitBurst = 2
INVARIANT RunningWithinCap
