SPECIFICATION BuildSpec
CONSTANTS
    t1 = t1
    t2 = t2
    Tasks = {t1, t2}
    Untracked = {t2}
    LossLimit = 1
    MaxDeaths = 0
    NoTask = noTask
PROPERTY GuardSeesHolder
CHECK_DEADLOCK FALSE
