SPECIFICATION FairSpec
CONSTANTS
    w = w
    m = m
    x = x
    y = y
    Walleted = {w}
    Mailed = {m}
    Outputs <- MCOutputs
    MaxReceives = 1
    MaxReorgs = 1
    MaxCrashes = 1
    MaxFaults = 1
INVARIANTS HeldIsWatched CompletedIsHeld 
PROPERTY Settles
CHECK_DEADLOCK FALSE
