SPECIFICATION Spec
CONSTANTS
    Compliance = {u1, u2}
    Mlro = {u1, u2}
    Ifti = {i}
    Ttr = {}
    Smr = {s}
    Requests = {p, q}
    Bodies = {good}
    ValidBodies = {good}
    PatchedColumns = {"status"}
    MaxRedrafts = 1
    None = None
ACTION_CONSTRAINTS
    LoneReport
    PatchedWithoutReject
CHECK_DEADLOCK FALSE
SYMMETRY Symmetry
INVARIANTS
    RegisterOnce
    AuditedIsRegistered
    RegisteredSmrWasSignedOff
    SubmittedHasRegisterRow
PROPERTY
    LedgerRefined
