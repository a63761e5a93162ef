SPECIFICATION Spec
CONSTANTS
    Txns = {t}
    Alerts = {a}
    Cases = {c}
    Mlro = {m}
    Reasons = {reason}
    Requests = {p, q}
    Handlers = {"run_monitoring", "review_alert", "flag_smr_candidate", "create_case_from_alert",
                "create_case", "update_case", "close_case",
                "smr_consider", "smr_lodge", "generate_smr"}
    MaxRepeat = 2
    None = None
CHECK_DEADLOCK FALSE
SYMMETRY Symmetry
INVARIANT TypeOK
PROPERTY SmrDecisionsKept
