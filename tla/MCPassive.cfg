SPECIFICATION Spec
CONSTANTS
    a = a
    b = b
    f = f
    c1 = c1
    c2 = c2
    Transfers = {a, b}
    Foreign = {f}
    Coins = {c1, c2}
    Hosts = {c1}
    Anchored = {b}
    Addressed = {a}
    Spends <- MCSpends
    MaxReorgs = 0
    MaxFaults = 0
CHECK_DEADLOCK FALSE
INVARIANT HoldingsKept
