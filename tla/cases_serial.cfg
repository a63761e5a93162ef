SPECIFICATION Spec
CONSTANTS
    Txns = {t}
    Alerts = {a, b}
    Cases = {c, d}
    Mlro = {m}
    Reasons = {reason}
    Requests = {q}
    Handlers = {"run_monitoring", "assign_alert", "review_alert", "escalate_alert",
                "flag_smr_candidate", "record_result", "create_case_from_alert",
                "create_case", "update_case", "escalate_case", "transition_status",
                "close_case", "link_alert", "smr_consider", "smr_lodge", "generate_smr"}
    MaxRepeat = 2
    None = None
ACTION_CONSTRAINT FewRows
CHECK_DEADLOCK FALSE
SYMMETRY Symmetry
PROPERTIES
    NotLinkedAgain
    NoSecondAlert
    ClosedAlertsStayClosed
    ClosedCasesStayClosed
