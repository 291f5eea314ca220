SPECIFICATION FairSpec
CONSTANTS
    Idents = {i1}
    Units = {u1}
    Governors = {g1, g2}
    Sweepers = {s1}
    NoGovernor = noGovernor
    NoUnit = noUnit
    NoIdent = noIdent
    TargetUnit <- CreateOnly
    MaxRows = 2
    MaxRestarts = 1
PROPERTIES
    RefusalsAreFinal
    DeadWorkerNoticed
CHECK_DEADLOCK FALSE
