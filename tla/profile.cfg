SPECIFICATION Spec
CONSTANTS
    Users = {u1}
    Handlers = {h1, h2}
    Jobs = {j1, j2}
    Pictures = {p1, p2, p3}
    Broken = {p3}
    MaxFaults = 1
INVARIANT ShownAvatarExists
PROPERTIES RemovedWasUsed PostedIsUsed
CHECK_DEADLOCK FALSE
