SPECIFICATION Spec
CONSTANTS
    p = p
    q = q
    training = training
    review = review
    matter = matter
    board = board
    policy = policy
    control = control
    risk = risk
    matrix = matrix
    program = program
    generated = generated
    transfer = transfer
    receipts = receipts
    profile = profile
    rescored = rescored
    account = account
    payer = payer
    team = team
    task = task
    agenda = agenda
    file = file
    retained = retained
    evidence = evidence
    register = register
    hub = hub
    hook = hook
    check = check
    login = login
    firm = firm
    pack = pack
    checklist = checklist
    monitor = monitor
    group = group
    solution = solution
    examined = examined
    wallet = wallet
    kp = kp
    ru = ru
    ht = ht
    au = au
    Entities = {policy, generated, receipts, file, retained, evidence, register, payer, hub, hook, check, examined, wallet}
    Requests = {p, q}
    MaxTouched = 1
    Overlapping = {policy, generated, receipts, examined, wallet}
    Trainees = {}
    MaxAttempts = 2
    Reviews = {}
    Findings = {f1}
    Reviewers = {ann, bob}
    Matters = {}
    Items = {i1, i2}
    Boards = {}
    Data = {before, after}
    PolicyIds = {policy}
    Staff = {ann}
    MaxPublished = 2
    Controls = {}
    Tests = {1, 2}
    RiskModels = {}
    Marks = {1, 5}
    Matrices = {}
    Programs = {}
    Generated = {generated}
    MaxVersion = 2
    MaxRetrievals = 1
    Transfers = {}
    ReceiptChains = {receipts}
    MaxReceipts = 3
    Profiles = {}
    Rescored = {}
    Countries = {kp, ru, ht, au}
    Blacklist = {kp}
    Greylist = {ht}
    Sanctioned = {kp, ru}
    HighRisk = {ht}
    People <- SomePeople
    Entered <- SomeEntered
    Questions = {i1, i2}
    WeightLimit = 40
    Accounts = {}
    MaxCheckouts = 2
    MaxQueue = 2
    Payers = {payer}
    PaymentFacts <- SomePayments
    PayerFacts <- SomePayers
    MonitoringRules <- SomeRules
    Watched = {}
    Australia = au
    Teams = {}
    Trained = {ann, bob}
    TriggerRules <- SomeTriggers
    MaxGiven = 2
    Tasks = {}
    Calendars = {}
    Files = {file}
    Retained = {retained}
    Years = {0, 10}
    OnFile = {evidence}
    Imported = {register}
    ImportFiles <- SomeFiles
    Addresses = {x1, x2}
    Hubs = {hub}
    MaxErrors = 2
    MaxStarts = 2
    Hooks = {hook}
    Checks = {check}
    Users = {}
    MaxSessions = 2
    Companies = {}
    Members = {ann, bob}
    Packs = {}
    Asked = {"ifti_register", "policy_register", "smr_register"}
    Checklists = {}
    Template = {t1, t2}
    Monitors = {}
    MaxRuns = 3
    Groups = {}
    Firms = {ann, bob, cat}
    Holding = ann
    Solutions = {}
    Writings = {before, after}
    Examined = {examined}
    Screened = {wallet}
ACTION_CONSTRAINT OverlapScenes
CHECK_DEADLOCK FALSE
SYMMETRY Symmetry
INVARIANT HistoryKept
PROPERTY RepeatedAsBefore
