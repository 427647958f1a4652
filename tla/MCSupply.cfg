SPECIFICATION FairSpec
CONSTANTS
    Mints = {m1}
    Others = {o1}
    Callers = {c1}
    MaxMachines = 2
    MaxCommits = 2
    MaxHeight = 3
    MaxQueue = 1
    MaxFaults = 1
    MaxForeign = 1
CHECK_DEADLOCK FALSE
INVARIANTS NoUpdateLost   ServerFollows
PROPERTIES CommittedForever Unattended
