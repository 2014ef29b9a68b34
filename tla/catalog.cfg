SPECIFICATION Spec
CONSTANTS
    Users = {u1, u2}
    Confas = {c1, c2}
    Talks = {t1}
    Handles = {a}
    Requests = {q1, q2}
    MaxFaults = 1
    MaxMails = 1
INVARIANTS TalksGoFirst TalksAreTheOwners
PROPERTY OwnerIsTold
CHECK_DEADLOCK FALSE
