SPECIFICATION FairSpec
CONSTANTS
    Compliance = {u1, u2, u3}
    Mlro = {u1, u2}
    Ifti = {i}
    Ttr = {t}
    Smr = {s}
    Requests = {p}
    Bodies = {good, bad}
    ValidBodies = {good}
    PatchedColumns = {"status"}
    MaxRedrafts = 2
    None = None
ACTION_CONSTRAINT LoneReport
CHECK_DEADLOCK FALSE
INVARIANTS
    TypeOK
    MakerChecker
    SubmittedAsApproved
PROPERTY
    SubmissionGetsRegistered
