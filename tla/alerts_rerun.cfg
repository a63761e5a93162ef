SPECIFICATION Spec
CONSTANTS
    Txns = {t}
    Alerts = {a, b}
    Cases = {}
    Mlro = {m}
    Reasons = {reason}
    Requests = {p, q}
    Handlers = {"run_monitoring"}
    MaxRepeat = 1
    None = None
CHECK_DEADLOCK FALSE
SYMMETRY Symmetry
PROPERTY NoSecondAlert
