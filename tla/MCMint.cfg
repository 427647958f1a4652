SPECIFICATION FairSpec
CONSTANTS
    MaxBatches = 2
    Coins = {c1, c2}
    Seedlings = {s1}
    Grouped = {s1}
    MaxBlocks = 2
    MaxFaults = 1
CHECK_DEADLOCK FALSE
INVARIANTS
    SlotOwned
    
    CancelledNeverSent
    PublishedOnlyBuried
PROPERTIES
    CallerAnswered
    MintSettles
