SPECIFICATION Spec
CONSTANTS
    Emails = {e1}
    Passwords = {p, q}
    Ids = {i1, i2}
    Keys = {k1, k2}
    Requests = {r1, r2}
    MaxChanges = 3
    MaxFaults = 1
INVARIANTS OneUserPerIdent LogoutEndsSessions
PROPERTY UpdateReplacesOld
CHECK_DEADLOCK FALSE
