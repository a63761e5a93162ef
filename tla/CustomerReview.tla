--------------------------- MODULE CustomerReview ---------------------------
(***************************************************************************)
(* A customer from its creation to an open relationship:                   *)
(* app/api/routes/customers.py (status, checklist, screening reviews),     *)
(* app/api/routes/kyc.py, the identity score of app/api/routes/            *)
(* screening.py, and the review workflow of                                *)
(* app/api/routes/customer_workflow.py.  There are five ways to become     *)
(* active and each looks at something else.                                *)
(*                                                                         *)
(* Every handler is about one customer: its row, its onboarding checklist, *)
(* its screening records and its workflow, which is a draft until the      *)
(* first request that needs it creates it.                                 *)
(***************************************************************************)
EXTENDS RowRequests, Naturals

CONSTANTS
    CustomerIds,  \* customers
    Checks,       \* screening records, numbered in the order they are made
    KindOf,       \* their screening types
    Asked         \* statuses that the staff's requests ask for

CustomerStatuses == {"draft", "pending", "under_review", "edd_required",
                     "active", "suspended", "rejected", "closed"}
ASSUME ChecksAssumption == Checks \subseteq Nat /\ KindOf \in [Checks -> {"pep", "sanctions"}]
ASSUME AskedAssumption == Asked \subseteq CustomerStatuses

(* ScreeningStatus: in progress is like pending, a false positive like clear, *)
(* and a match that requires EDD like a potential one.                        *)
CheckStatuses == {"pending", "clear", "potential", "confirmed"}

WorkflowStates == {"draft", "data_collection", "verification_pending",
    "verification_complete", "screening_in_progress", "risk_assessment",
    "cdd_review", "edd_required", "edd_collection", "edd_senior_approval",
    "pending_approval", "on_hold", "active", "periodic_review", "rejected"}

(* WORKFLOW_TRANSITIONS without decision_gateway, which no commit leaves a   *)
(* workflow in.                                                              *)
Transitions ==
    {<<"draft", "data_collection">>, <<"data_collection", "verification_pending">>,
     <<"verification_pending", "verification_complete">>,
     <<"verification_pending", "data_collection">>,
     <<"verification_complete", "screening_in_progress">>,
     <<"screening_in_progress", "risk_assessment">>,
     <<"edd_required", "edd_collection">>, <<"edd_collection", "edd_senior_approval">>}
    \union {"edd_senior_approval"} \X {"cdd_review", "edd_collection"}
    \union {"cdd_review"} \X {"pending_approval", "on_hold", "edd_required"}
    \union {"pending_approval"} \X {"active", "rejected", "on_hold"}
    \union {"on_hold"} \X {"data_collection", "edd_collection", "cdd_review", "verification_pending"}
    \union {<<"active", "periodic_review">>}
    \union {"periodic_review"} \X {"active", "edd_required", "on_hold"}

(* The rows of a customer, by table. *)
CustomerTables ==
    [customer  |-> [status : CustomerStatuses \union {"none"}, cdd : {"standard", "enhanced"},
                    by : {"none", "status", "kyc", "score", "workflow", "override"}],
     checklist |-> [identity : BOOLEAN, pep : BOOLEAN, sanctions : BOOLEAN, senior : BOOLEAN],
     screening |-> [Checks -> CheckStatuses \union {"none"}],
     workflow  |-> [state : WorkflowStates, triggered : BOOLEAN, assessed : BOOLEAN]]

(* customer.by is the path by which an active customer became active, and    *)
(* workflow.assessed whether the workflow has a risk profile.                *)
NewCustomer ==
    [customer  |-> [status |-> "none", cdd |-> "standard", by |-> "none"],
     checklist |-> [identity |-> FALSE, pep |-> FALSE, sanctions |-> FALSE, senior |-> FALSE],
     screening |-> [k \in Checks |-> "none"],
     workflow  |-> [state |-> "draft", triggered |-> FALSE, assessed |-> FALSE]]

Known(c) == rows[c].customer.status # "none"

(* The customer's status, and by which path when it becomes active. *)
WithStatus(r, s, path) ==
    [r EXCEPT !.customer.status = s,
              !.customer.by = IF s = "active" THEN path ELSE "none"]

-----------------------------------------------------------------------------
(* app/api/routes/customers.py *)

(* create_customer makes the checklist with the customer: none is without. *)
CreateCustomer(q, c) ==
    /\ Free(c, "customer", "status", "none")
    /\ Handle(q, c, [rows[c] EXCEPT !.customer.status = "draft"])

(* A row of an uploaded file. *)
ImportCustomer(q, c) == CreateCustomer(q, c)

Screened(r) == r.checklist.pep /\ r.checklist.sanctions /\ r.checklist.identity

(* _SCREENING_BLOCKING_STATUSES *)
Unresolved(r) == \E k \in Checks : r.screening[k] \in {"potential", "confirmed"}

UpdateStatus(q, c, s) ==
    /\ Known(c)
    /\ s = "active" => Screened(rows[c]) /\ ~Unresolved(rows[c])
    /\ s = "active" /\ rows[c].customer.cdd = "enhanced" => rows[c].checklist.senior
    /\ Handle(q, c, WithStatus(rows[c], s, "status"))

VerifyIdentityDocument(q, c) ==
    /\ Known(c)
    /\ Handle(q, c, [rows[c] EXCEPT !.checklist.identity = TRUE])

(* A screening that is asked for is pending until it is reviewed; one that is *)
(* run, or run again, comes back clear: no provider is connected.             *)
NextCheck(c, k) ==
    /\ Known(c)
    /\ Free(c, "screening", k, "none")
    /\ \A j \in Checks : j < k => rows[c].screening[j] # "none"

TriggerScreening(q, c, k) ==
    /\ NextCheck(c, k)
    /\ Handle(q, c, [rows[c] EXCEPT !.screening[k] = "pending"])

RunScreening(q, c, k) ==
    /\ NextCheck(c, k)
    /\ Handle(q, c, [rows[c] EXCEPT !.screening[k] = "clear"])

(* Mutant of ChecklistFlag: a flag once set stays set. *)
ChecklistFlagSticky(r, k, clear) == [r EXCEPT !.checklist[KindOf[k]] = @ \/ clear]

(* _update_checklist_flag *)
ChecklistFlag(r, k, clear) == [r EXCEPT !.checklist[KindOf[k]] = clear]

ReviewScreening(q, c, k, s) ==
    /\ rows[c].screening[k] # "none"
    /\ Handle(q, c, ChecklistFlag([rows[c] EXCEPT !.screening[k] = s], k, s = "clear"))

(* create_review and override_customer set the CDD level; the MLRO's override *)
(* sets any status as well.                                                   *)
CreateReview(q, c, level) ==
    /\ Known(c)
    /\ Handle(q, c, [rows[c] EXCEPT !.customer.cdd = level])

OverrideCustomer(q, c, s) ==
    /\ Known(c)
    /\ Handle(q, c, WithStatus(rows[c], s, "override"))

-----------------------------------------------------------------------------
(* app/api/routes/kyc.py and the identity score *)

InitiateKyc(q, c) ==
    /\ rows[c].customer.status \in {"draft", "rejected", "closed"}
    /\ Handle(q, c, WithStatus(rows[c], "pending", "kyc"))

(* A document puts the customer under review whatever the status was. *)
UploadKycDocument(q, c) ==
    /\ Known(c)
    /\ Handle(q, c, WithStatus(rows[c], "under_review", "kyc"))

(* "high": a PEP, or a risk score of 61 and more. *)
ReviewKyc(q, c, approve, high) ==
    /\ Known(c)
    /\ approve /\ ~Unresolved(rows[c]) => Screened(rows[c])
    /\ Handle(q, c, WithStatus(rows[c],
            IF Unresolved(rows[c]) \/ ~approve THEN "rejected"
            ELSE IF high THEN "edd_required" ELSE "active", "kyc"))

(* Mutant of SumsubWebhook: the provider's word for it is stored. *)
SumsubWebhookRaw(q, c) ==
    /\ rows[c].customer.status = "pending"
    /\ Handle(q, c, WithStatus(rows[c], "reviewed", "kyc"))

SumsubWebhook(q, c) ==
    /\ rows[c].customer.status = "pending"
    /\ Handle(q, c, WithStatus(rows[c], "under_review", "kyc"))

(* compute_identity_score: six categories of equal weight, of which the four *)
(* that are neither PEP nor sanctions are the environment's.  The newest     *)
(* record of a kind counts.                                                  *)
Latest(r, kind) ==
    {k \in Checks : /\ KindOf[k] = kind /\ r.screening[k] # "none"
                    /\ \A j \in Checks : KindOf[j] = kind /\ r.screening[j] # "none" => j <= k}

CategoryScore(r, kind) ==
    IF \E k \in Latest(r, kind) : r.screening[k] = "clear" THEN 100
    ELSE IF \E k \in Latest(r, kind) : r.screening[k] = "potential" THEN 50
    ELSE 0

IdentityDecision(r, others) ==
    LET total == others + CategoryScore(r, "pep") + CategoryScore(r, "sanctions")
        confirmed == \E kind \in {"pep", "sanctions"} :
                        \E k \in Latest(r, kind) : r.screening[k] = "confirmed"
    IN  IF total < 6 * 50 THEN "rejected"
        ELSE IF confirmed \/ total < 6 * 80 THEN "edd_required"
        ELSE "active"

DecideIdentityScore(q, c, others) ==
    /\ Known(c)
    /\ Handle(q, c, WithStatus(rows[c], IdentityDecision(rows[c], others), "score"))

-----------------------------------------------------------------------------
(* app/api/routes/customer_workflow.py *)

(* _transition tests the state the action leads to, not the action. *)
May(c, to) == Known(c) /\ <<rows[c].workflow.state, to>> \in Transitions

Move(q, c, to) == May(c, to) /\ Handle(q, c, [rows[c] EXCEPT !.workflow.state = to])

StartDataCollection(q, c) == Move(q, c, "data_collection")
SubmitForVerification(q, c) == Move(q, c, "verification_pending")
RecordVerificationResult(q, c, passed) ==
    Move(q, c, IF passed THEN "verification_complete" ELSE "data_collection")
TriggerScreeningPhase(q, c) == Move(q, c, "screening_in_progress")
MarkScreeningComplete(q, c) == Move(q, c, "risk_assessment")

(* run_risk_assessment with the decision gateway, in one transaction.  A     *)
(* workflow has one risk profile, which the first assessment inserts.        *)
RunRiskAssessment(q, c, edd) ==
    /\ rows[c].workflow.state = "risk_assessment"
    /\ rows[c].workflow.assessed \/ Free(c, "workflow", "assessed", FALSE)
    /\ Handle(q, c, [rows[c] EXCEPT
            !.customer.cdd = IF edd THEN "enhanced" ELSE "standard",
            !.workflow.state = IF edd THEN "edd_required" ELSE "cdd_review",
            !.workflow.triggered = @ \/ edd,
            !.workflow.assessed = TRUE])

StartEddCollection(q, c) == Move(q, c, "edd_collection")

(* submit_edd_for_approval asks for verified sources of funds and of wealth,  *)
(* which no handler ever sets, and is left out.  For want of a submission     *)
(* approve_edd is met only by a workflow that is on hold, from where its      *)
(* targets can be reached too.                                               *)
ApproveEdd(q, c, approved) ==
    IF approved
      THEN /\ May(c, "cdd_review")
           /\ Handle(q, c, [rows[c] EXCEPT !.workflow.state = "cdd_review",
                                           !.checklist.senior = TRUE])
      ELSE Move(q, c, "edd_collection")

(* Mutant of RequestMoreInformation: the state is not tested. *)
RequestInformationAnywhere(q, c) ==
    /\ Known(c)
    /\ Handle(q, c, [rows[c] EXCEPT !.workflow.state = "on_hold"])

RequestMoreInformation(q, c) == Move(q, c, "on_hold")
SubmitForFinalReview(q, c) == Move(q, c, "pending_approval")

EscalateToEdd(q, c) ==
    /\ May(c, "edd_required")
    /\ Handle(q, c, [rows[c] EXCEPT !.workflow.state = "edd_required",
                                    !.workflow.triggered = TRUE])

FinalDecision(q, c, decision) ==
    /\ rows[c].workflow.state = "pending_approval"
    /\ Handle(q, c, WithStatus([rows[c] EXCEPT !.workflow.state = decision], decision, "workflow"))

StartPeriodicReview(q, c) == Move(q, c, "periodic_review")
CompletePeriodicReview(q, c) == Move(q, c, "active")

CustomerRequest(q, c) ==
    \/ CreateCustomer(q, c) \/ ImportCustomer(q, c)
    \/ \E s \in Asked : UpdateStatus(q, c, s) \/ OverrideCustomer(q, c, s)
    \/ VerifyIdentityDocument(q, c)
    \/ \E k \in Checks : TriggerScreening(q, c, k) \/ RunScreening(q, c, k)
    \/ \E k \in Checks, s \in CheckStatuses : ReviewScreening(q, c, k, s)
    \/ \E level \in {"standard", "enhanced"} : CreateReview(q, c, level)
    \/ InitiateKyc(q, c) \/ UploadKycDocument(q, c) \/ SumsubWebhook(q, c)
    \/ \E approve, high \in BOOLEAN : ReviewKyc(q, c, approve, high)
    \/ \E others \in {0, 200, 400} : DecideIdentityScore(q, c, others)
    \/ StartDataCollection(q, c) \/ SubmitForVerification(q, c)
    \/ \E passed \in BOOLEAN : RecordVerificationResult(q, c, passed)
    \/ TriggerScreeningPhase(q, c) \/ MarkScreeningComplete(q, c)
    \/ \E edd \in BOOLEAN : RunRiskAssessment(q, c, edd)
    \/ StartEddCollection(q, c)
    \/ \E approved \in BOOLEAN : ApproveEdd(q, c, approved)
    \/ SubmitForFinalReview(q, c) \/ RequestMoreInformation(q, c) \/ EscalateToEdd(q, c)
    \/ \E decision \in {"active", "rejected"} : FinalDecision(q, c, decision)
    \/ StartPeriodicReview(q, c) \/ CompletePeriodicReview(q, c)

-----------------------------------------------------------------------------
(* The states of a workflow that is being, or is about to be, looked at for  *)
(* enhanced due diligence.                                                   *)
EddStates == {"edd_required", "edd_collection", "edd_senior_approval"}

(* The states that the decision gateway leads to, and those behind them. *)
BehindGateway ==
    EddStates \union {"cdd_review", "pending_approval", "on_hold", "active",
                      "periodic_review", "rejected"}

(* Nobody is reviewed, put on hold or decided on before the risk assessment,  *)
(* though a transition tests its target only, requests overlap and commit     *)
(* outdated copies, and a workflow on hold may start again from its data: a   *)
(* workflow behind the gateway, and a customer it made active, has a risk     *)
(* profile.                                                                   *)
Assessed(r) ==
    \/ r.workflow.assessed
    \/ r.workflow.state \notin BehindGateway /\ r.customer.by # "workflow"

ReviewedAfterAssessment == \A c \in CustomerIds : Assessed(rows[c])

(* The status endpoint and the KYC review let a customer become active only  *)
(* when a PEP and a sanctions screening stand cleared and no screening       *)
(* stands as a match: the checklist flags agree with the records for as long *)
(* as no two requests overlap on the customer.                               *)
Opens(c, paths) ==
    /\ rows[c].customer.status # "active"
    /\ rows'[c].customer.status = "active"
    /\ rows'[c].customer.by \in paths

ClearedWhenOpened ==
    [][\A c \in CustomerIds :
         Opens(c, {"status", "kyc"}) /\ c \notin raced'
           => /\ \A kind \in {"pep", "sanctions"} :
                   \E k \in Checks : KindOf[k] = kind /\ rows'[c].screening[k] = "clear"
              /\ \A k \in Checks : rows'[c].screening[k] \notin {"potential", "confirmed"}
      ]_rows

=============================================================================
