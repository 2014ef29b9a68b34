SPECIFICATION StoreSpec
CONSTANTS
    Ids = {1, 2, 3}
    Handlers = {h1}
    Readers = {r1}
    Orders = {TRUE}
    Limit = 1
    MaxTime = 2
    MaxFaults = 0
INVARIANT ReplayGoesForward
CHECK_DEADLOCK FALSE
