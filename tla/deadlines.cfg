SPECIFICATION FairSpec
CONSTANTS
    Runs = {r1, r2}
    Users = {u1, u2, u3}
    CheckOrder <- Order
    Due <- DueItems
    Newcomers = {u3}
    MaxFaults = 1
    s = s
    c = c
    p = p
CHECK_DEADLOCK FALSE
INVARIANTS
    TypeOK
    NotifiedOnce
    ReportedIsStored
    DueNotified
PROPERTY
    RunsReturn
