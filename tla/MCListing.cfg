SPECIFICATION Spec
CONSTANTS
    w = w
    m = m
    x = x
    y = y
    Walleted = {w}
    Mailed = {m}
    Outputs <- MCOutputs
    MaxReceives = 2
    MaxReorgs = 0
    MaxCrashes = 1
    MaxFaults = 0
INVARIANT StartMapsAll
CHECK_DEADLOCK FALSE
