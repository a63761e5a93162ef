SPECIFICATION Spec
CONSTANTS
    Compliance = {u1, u2}
    Mlro = {u1, u2}
    Ifti = {}
    Ttr = {t}
    Smr = {}
    Requests = {p, q}
    Bodies = {good}
    ValidBodies = {good}
    PatchedColumns = {}
    MaxRedrafts = 0
    None = None
ACTION_CONSTRAINT LoneReport
CHECK_DEADLOCK FALSE
INVARIANT MakerChecker
