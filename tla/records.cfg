SPECIFICATION Spec
CONSTANTS
    p = p
    q = q
    training = training
    review = review
    matter = matter
    board = board
    policy = policy
    control = control
    risk = risk
    matrix = matrix
    program = program
    generated = generated
    transfer = transfer
    receipts = receipts
    profile = profile
    rescored = rescored
    account = account
    payer = payer
    team = team
    task = task
    agenda = agenda
    file = file
    retained = retained
    evidence = evidence
    register = register
    hub = hub
    hook = hook
    check = check
    login = login
    firm = firm
    pack = pack
    checklist = checklist
    monitor = monitor
    group = group
    solution = solution
    examined = examined
    wallet = wallet
    kp = kp
    ru = ru
    ht = ht
    au = au
    Entities = {training, review, matter, board, control, risk, matrix,
                program, transfer, profile, rescored, account, team, task, agenda, login, firm, pack, checklist, monitor, group, solution}
    Requests = {p}
    MaxTouched = 1
    Overlapping = {}
    Trainees = {training}
    MaxAttempts = 2
    Reviews = {review}
    Findings = {f1}
    Reviewers = {ann, bob}
    Matters = {matter}
    Items = {i1, i2}
    Boards = {board}
    Data = {before, after}
    PolicyIds = {}
    Staff = {ann}
    MaxPublished = 2
    Controls = {control}
    Tests = {1, 2}
    RiskModels = {risk}
    Marks = {1, 5}
    Matrices = {matrix}
    Programs = {program}
    Generated = {}
    MaxVersion = 3
    MaxRetrievals = 1
    Transfers = {transfer}
    ReceiptChains = {}
    MaxReceipts = 3
    Profiles = {profile}
    Rescored = {rescored}
    Countries = {kp, ru, ht, au}
    Blacklist = {kp}
    Greylist = {ht}
    Sanctioned = {kp, ru}
    HighRisk = {ht}
    People <- SomePeople
    Entered <- SomeEntered
    Questions = {i1, i2}
    WeightLimit = 40
    Accounts = {account}
    MaxCheckouts = 2
    MaxQueue = 2
    Payers = {}
    PaymentFacts <- SomePayments
    PayerFacts <- SomePayers
    MonitoringRules <- SomeRules
    Watched = {}
    Australia = au
    Teams = {team}
    Trained = {ann, bob}
    TriggerRules <- SomeTriggers
    MaxGiven = 2
    Tasks = {task}
    Calendars = {agenda}
    Files = {}
    Retained = {}
    Years = {0, 10}
    OnFile = {}
    Imported = {}
    ImportFiles <- SomeFiles
    Addresses = {x1, x2}
    Hubs = {}
    MaxErrors = 2
    MaxStarts = 2
    Hooks = {}
    Checks = {}
    Users = {login}
    MaxSessions = 2
    Companies = {firm}
    Members = {ann, bob}
    Packs = {pack}
    Asked = {"ifti_register", "policy_register", "smr_register"}
    Checklists = {checklist}
    Template = {t1, t2}
    Monitors = {monitor}
    MaxRuns = 3
    Groups = {group}
    Firms = {ann, bob, cat}
    Holding = ann
    Solutions = {solution}
    Writings = {before, after}
    Examined = {}
    Screened = {}
ACTION_CONSTRAINT SerialScenes
CHECK_DEADLOCK FALSE
INVARIANTS
    TypeOK
    AsSigned
    BooksAgree
    RatingsSound
PROPERTIES
    OutcomesStand
