SPECIFICATION Spec
CONSTANTS
    c1 = c1
    p = p
    q = q
    Entities = {c1}
    CustomerIds = {c1}
    Requests = {p, q}
    MaxTouched = 1
    Overlapping = {c1}
    Checks <- TheChecks
    KindOf <- TheKinds
    Asked = {"active", "closed"}
    Documents = {passport}
    Sections = {funds}
    MaxLinks = 2
ACTION_CONSTRAINT Scenes
CHECK_DEADLOCK FALSE
SYMMETRY Symmetry
INVARIANTS
    TypeOK
    ReviewedAfterAssessment
    SubmittedComplete
PROPERTIES
    ClearedWhenOpened
    SubmittedStays
