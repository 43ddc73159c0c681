SPECIFICATION PushSpec
CONSTANTS
    StoneLine = {1, 2, 3, 4}
    Sold = {1, 2}
    MaxFaults = 0
    MaxNews = 3
INVARIANT
    SwapIsNeverRefused
CHECK_DEADLOCK FALSE
