SPECIFICATION Spec
CONSTANTS
    r1 = r1
    r2 = r2
    alerts = alerts
    opens = opens
    Rules <- Order
    Defs = {alerts, opens}
    Actions <- ActionLists
    Panels = {panel1}
    Reviewers = {u, v}
    Requests = {p, q}
    Evaluations = {e}
    MaxVersions = 2
    MaxReviews = 2
    None = None
ACTION_CONSTRAINT Apart
CHECK_DEADLOCK FALSE
SYMMETRY Symmetry
INVARIANTS
    TypeOK
    ExecutionsTraceable
    ExecutedRulesStay
PROPERTY FinalDecisionStands
