SPECIFICATION PeersSpec
CONSTANTS
    Ids = {1, 2, 3}
    Handlers = {h1}
    Readers = {r1}
    Sessions = {s1}
    Orders = {FALSE}
    Limit = 1
    MaxTime = 2
    MaxFaults = 1
    MaxMessages = 1
INVARIANTS LeftIsLast OwnJoinIsSeen NoEventIsLost PagesAreExact
PROPERTY EndedSessionCloses
CHECK_DEADLOCK FALSE
