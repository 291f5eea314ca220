SPECIFICATION Spec
CONSTANTS
    Idents = {i1}
    Units = {u1}
    Governors = {g1}
    Sweepers = {s1, s2}
    NoGovernor = noGovernor
    NoUnit = noUnit
    NoIdent = noIdent
    TargetUnit <- CreateOnly
    MaxRows = 1
    MaxRestarts = 1
PROPERTY RequeueKeepsActive
CHECK_DEADLOCK FALSE
