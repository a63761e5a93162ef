------------------------ MODULE CustomerPortal_proofs ------------------------
(***************************************************************************)
(* Proofs about CustomerPortal, for any number of customers, requests,     *)
(* screening records, documents and sections, and whichever customers'     *)
(* requests overlap.                                                       *)
(*                                                                         *)
(* Every handler reads one customer and computes what it will commit from  *)
(* what it read.  Legal says what all of them respect in that computation; *)
(* what is then left to show is about commits only, whose copy is the      *)
(* present one or else makes the customer a raced one.                     *)
(***************************************************************************)
EXTENDS CustomerPortal, TLAPS

(* A flag of the checklist has a clear record behind it. *)
Cleared(r) ==
    \A kind \in {"pep", "sanctions"} :
        r.checklist[kind] => \E k \in Checks : KindOf[k] = kind /\ r.screening[k] = "clear"

(* Documents, answers and the risk profile do not get lost. *)
Kept(r, new) ==
    /\ r.workflow.assessed => new.workflow.assessed
    /\ \A d \in Documents : r.documents[d] # "none" => new.documents[d] # "none"
    /\ \A s \in Sections : r.sections[s] => new.sections[s]

(* The relationship was open, or opens by another path, or on cleared checks. *)
Opened(r, new) ==
    new.customer.status = "active" /\ new.customer.by \in {"status", "kyc"}
        => r.customer.status = "active" \/ (Screened(new) /\ ~Unresolved(new))

(* What a handler that read r may commit. *)
Legal(r, new) ==
    /\ Assessed(r) => Assessed(new)
    /\ Cleared(r) => Cleared(new)
    /\ Opened(r, new)
    /\ r.session.status = "submitted" => new.session.status = "submitted"
    /\ new.session.status = "submitted" => r.session.status = "submitted" \/ ReadyToSubmit(r)
    /\ Kept(r, new)

-----------------------------------------------------------------------------
(* What handlers compute, table by table. *)

LEMMA NewStatus ==
    ASSUME NEW r \in CustomerRows, NEW s \in CustomerStatuses,
           NEW path \in {"status", "kyc", "score", "workflow", "override"},
           s = "active" /\ path \in {"status", "kyc"} => Screened(r) /\ ~Unresolved(r),
           path = "workflow" /\ Assessed(r) => r.workflow.assessed
    PROVE  WithStatus(r, s, path) \in CustomerRows /\ Legal(r, WithStatus(r, s, path))
  <1> DEFINE new == WithStatus(r, s, path)
  <1>1. /\ new.checklist = r.checklist /\ new.screening = r.screening
        /\ new.workflow = r.workflow /\ new.session = r.session
        /\ new.documents = r.documents /\ new.sections = r.sections
        /\ new.customer.status = s
        /\ new.customer.by = IF s = "active" THEN path ELSE "none"
    BY DEF WithStatus, CustomerRows, CustomerTables, PortalTables
  <1>2. new \in CustomerRows
    BY DEF WithStatus, CustomerRows, CustomerTables, PortalTables
  <1> HIDE DEF new
  <1>3. Legal(r, new)
    BY <1>1 DEF Legal, Assessed, Cleared, Kept, Opened, Screened, Unresolved
  <1> QED  BY <1>2, <1>3 DEF new

(* A move of the workflow, with what may go with it. *)
LEMMA MoveIsLegal ==
    ASSUME NEW r, NEW new,
           new.screening = r.screening, new.session = r.session,
           new.documents = r.documents, new.sections = r.sections,
           new.checklist.pep = r.checklist.pep,
           new.checklist.sanctions = r.checklist.sanctions,
           new.customer.status = r.customer.status, new.customer.by = r.customer.by,
           r.workflow.assessed => new.workflow.assessed,
           new.workflow.state \in BehindGateway
               => r.workflow.state \in BehindGateway \/ new.workflow.assessed
    PROVE  Legal(r, new)
  <1>1. Cleared(r) => Cleared(new)
    BY DEF Cleared
  <1>2. Assessed(r) => Assessed(new)
    BY DEF Assessed
  <1>3. Kept(r, new)
    BY Zenon DEF Kept
  <1>4. Opened(r, new)
    BY DEF Opened
  <1> QED  BY <1>1, <1>2, <1>3, <1>4 DEF Legal

LEMMA NewState ==
    ASSUME NEW r \in CustomerRows, NEW to \in WorkflowStates,
           to \in BehindGateway => r.workflow.state \in BehindGateway
    PROVE  LET new == [r EXCEPT !.workflow.state = to]
           IN  new \in CustomerRows /\ Legal(r, new)
  <1> DEFINE new == [r EXCEPT !.workflow.state = to]
  <1>1. /\ new.screening = r.screening /\ new.session = r.session
        /\ new.documents = r.documents /\ new.sections = r.sections
        /\ new.checklist = r.checklist /\ new.customer = r.customer
        /\ new.workflow.state = to /\ new.workflow.assessed = r.workflow.assessed
        /\ new \in CustomerRows
    BY DEF CustomerRows, CustomerTables, PortalTables
  <1> HIDE DEF new
  <1>2. Legal(r, new)
    BY <1>1, MoveIsLegal
  <1> QED  BY <1>1, <1>2 DEF new

(* The moves with which something else is set. *)
LEMMA NewApproval ==
    ASSUME NEW r \in CustomerRows, r.workflow.state \in BehindGateway
    PROVE  LET new == [r EXCEPT !.workflow.state = "cdd_review", !.checklist.senior = TRUE]
           IN  new \in CustomerRows /\ Legal(r, new)
  <1> DEFINE new == [r EXCEPT !.workflow.state = "cdd_review", !.checklist.senior = TRUE]
  <1>1. /\ new.screening = r.screening /\ new.session = r.session
        /\ new.documents = r.documents /\ new.sections = r.sections
        /\ new.checklist.pep = r.checklist.pep
        /\ new.checklist.sanctions = r.checklist.sanctions
        /\ new.customer = r.customer
        /\ new.workflow.state = "cdd_review"
        /\ new.workflow.assessed = r.workflow.assessed
        /\ new \in CustomerRows
    BY DEF CustomerRows, CustomerTables, PortalTables, WorkflowStates
  <1> HIDE DEF new
  <1>2. Legal(r, new)
    BY <1>1, MoveIsLegal
  <1> QED  BY <1>1, <1>2 DEF new

LEMMA NewEscalation ==
    ASSUME NEW r \in CustomerRows, r.workflow.state \in BehindGateway
    PROVE  LET new == [r EXCEPT !.workflow.state = "edd_required",
                                !.workflow.triggered = TRUE]
           IN  new \in CustomerRows /\ Legal(r, new)
  <1> DEFINE new == [r EXCEPT !.workflow.state = "edd_required", !.workflow.triggered = TRUE]
  <1>1. /\ new.screening = r.screening /\ new.session = r.session
        /\ new.documents = r.documents /\ new.sections = r.sections
        /\ new.checklist = r.checklist /\ new.customer = r.customer
        /\ new.workflow.state = "edd_required"
        /\ new.workflow.assessed = r.workflow.assessed
        /\ new \in CustomerRows
    BY DEF CustomerRows, CustomerTables, PortalTables, WorkflowStates
  <1> HIDE DEF new
  <1>2. Legal(r, new)
    BY <1>1, MoveIsLegal
  <1> QED  BY <1>1, <1>2 DEF new

LEMMA NewAssessment ==
    ASSUME NEW r \in CustomerRows, NEW edd \in BOOLEAN
    PROVE  LET new == [r EXCEPT
                         !.customer.cdd = IF edd THEN "enhanced" ELSE "standard",
                         !.workflow.state = IF edd THEN "edd_required" ELSE "cdd_review",
                         !.workflow.triggered = @ \/ edd,
                         !.workflow.assessed = TRUE]
           IN  new \in CustomerRows /\ Legal(r, new)
  <1> DEFINE new == [r EXCEPT
                       !.customer.cdd = IF edd THEN "enhanced" ELSE "standard",
                       !.workflow.state = IF edd THEN "edd_required" ELSE "cdd_review",
                       !.workflow.triggered = @ \/ edd,
                       !.workflow.assessed = TRUE]
  <1>1. /\ new.screening = r.screening /\ new.session = r.session
        /\ new.documents = r.documents /\ new.sections = r.sections
        /\ new.checklist = r.checklist /\ new.customer.status = r.customer.status
        /\ new.customer.by = r.customer.by /\ new.workflow.assessed
        /\ new \in CustomerRows
    BY DEF CustomerRows, CustomerTables, PortalTables, WorkflowStates
  <1> HIDE DEF new
  <1>2. Legal(r, new)
    BY <1>1, MoveIsLegal
  <1> QED  BY <1>1, <1>2 DEF new

(* A decision moves the workflow and then sets the status. *)
LEMMA NewDecision ==
    ASSUME NEW r \in CustomerRows, NEW decision \in {"active", "rejected"},
           r.workflow.state \in BehindGateway
    PROVE  LET new == WithStatus([r EXCEPT !.workflow.state = decision], decision, "workflow")
           IN  new \in CustomerRows /\ Legal(r, new)
  <1> DEFINE mid == [r EXCEPT !.workflow.state = decision]
             new == WithStatus(mid, decision, "workflow")
  <1>1. mid \in CustomerRows /\ Legal(r, mid)
    BY NewState DEF WorkflowStates
  <1>0. Assessed(mid) => mid.workflow.assessed
    BY DEF Assessed, BehindGateway, CustomerRows, CustomerTables, PortalTables
  <1>2. mid.session = r.session /\ mid.documents = r.documents /\ mid.sections = r.sections
    BY DEF CustomerRows, CustomerTables, PortalTables
  <1> HIDE DEF mid
  <1>3. new \in CustomerRows /\ Legal(mid, new)
    BY <1>0, <1>1, NewStatus DEF CustomerStatuses
  <1>4. new.customer.by \notin {"status", "kyc"}
    BY <1>1 DEF WithStatus, CustomerRows, CustomerTables, PortalTables
  <1> HIDE DEF new
  <1>5. Kept(r, new) /\ Opened(r, new) /\ (ReadyToSubmit(mid) => ReadyToSubmit(r))
    BY <1>1, <1>2, <1>3, <1>4 DEF Legal, Kept, Opened, ReadyToSubmit
  <1>6. Legal(r, new)
    BY <1>1, <1>3, <1>5 DEF Legal
  <1> QED  BY <1>3, <1>6 DEF new, mid

(* A record that is made, where there was none. *)
LEMMA NewRecord ==
    ASSUME NEW r \in CustomerRows, NEW k \in Checks, NEW x \in CheckStatuses,
           r.screening[k] = "none"
    PROVE  LET new == [r EXCEPT !.screening[k] = x]
           IN  new \in CustomerRows /\ Legal(r, new)
  <1> DEFINE new == [r EXCEPT !.screening[k] = x]
  <1>1. /\ new.customer = r.customer /\ new.checklist = r.checklist
        /\ new.workflow = r.workflow /\ new.session = r.session
        /\ new.documents = r.documents /\ new.sections = r.sections
        /\ \A j \in Checks : j # k => new.screening[j] = r.screening[j]
    BY DEF CustomerRows, CustomerTables, PortalTables
  <1>2. new \in CustomerRows
    BY DEF CustomerRows, CustomerTables, PortalTables
  <1> HIDE DEF new
  <1>3. Cleared(r) => Cleared(new)
    BY <1>1 DEF Cleared
  <1>4. (Assessed(r) => Assessed(new)) /\ Kept(r, new) /\ Opened(r, new)
    BY <1>1 DEF Assessed, Kept, Opened
  <1>5. Legal(r, new)
    BY <1>1, <1>3, <1>4 DEF Legal
  <1> QED  BY <1>2, <1>5 DEF new

(* A review sets the flag with the record: it is up only with a clear one. *)
LEMMA NewReview ==
    ASSUME NEW r \in CustomerRows, NEW k \in Checks, NEW x \in CheckStatuses
    PROVE  LET new == ChecklistFlag([r EXCEPT !.screening[k] = x], k, x = "clear")
           IN  new \in CustomerRows /\ Legal(r, new)
  <1> DEFINE kind == KindOf[k]
             mid == [r EXCEPT !.screening[k] = x]
             new == [mid EXCEPT !.checklist[kind] = (x = "clear")]
  <1>1. kind \in {"pep", "sanctions"}
    BY ChecksAssumption
  <1>2. /\ mid \in CustomerRows
        /\ mid.customer = r.customer /\ mid.checklist = r.checklist
        /\ mid.workflow = r.workflow /\ mid.session = r.session
        /\ mid.documents = r.documents /\ mid.sections = r.sections
        /\ \A j \in Checks : j # k => mid.screening[j] = r.screening[j]
        /\ mid.screening[k] = x
    BY DEF CustomerRows, CustomerTables, PortalTables
  <1> HIDE DEF mid
  <1>3. /\ new.customer = r.customer /\ new.screening = mid.screening
        /\ new.workflow = r.workflow /\ new.session = r.session
        /\ new.documents = r.documents /\ new.sections = r.sections
    BY <1>1, <1>2 DEF CustomerRows, CustomerTables, PortalTables
  <1>4. new \in CustomerRows
    <2>1. mid.checklist \in CustomerTables.checklist
      BY <1>2 DEF CustomerRows
    <2>2. [mid.checklist EXCEPT ![kind] = (x = "clear")] \in CustomerTables.checklist
      BY <1>1, <2>1 DEF CustomerTables
    <2> QED  BY <1>2, <2>2 DEF CustomerRows
  <1>5. /\ new.checklist[kind] = (x = "clear")
        /\ \A other \in {"pep", "sanctions"} :
                other # kind => new.checklist[other] = r.checklist[other]
    BY <1>1, <1>2 DEF CustomerRows, CustomerTables
  <1> HIDE DEF new
  <1>6. Cleared(r) => Cleared(new)
    <2> SUFFICES ASSUME Cleared(r), NEW other \in {"pep", "sanctions"}, new.checklist[other]
                 PROVE  \E j \in Checks : KindOf[j] = other /\ new.screening[j] = "clear"
      BY DEF Cleared
    <2>1. CASE other = kind
      BY <1>2, <1>3, <1>5, <2>1
    <2>2. CASE other # kind
      <3>1. PICK j \in Checks : KindOf[j] = other /\ r.screening[j] = "clear"
        BY <1>5, <2>2 DEF Cleared
      <3> QED  BY <1>2, <1>3, <2>2, <3>1
    <2> QED  BY <2>1, <2>2
  <1>7. (Assessed(r) => Assessed(new)) /\ Kept(r, new) /\ Opened(r, new)
    BY <1>3 DEF Assessed, Kept, Opened
  <1>8. Legal(r, new)
    BY <1>3, <1>6, <1>7 DEF Legal
  <1> QED  BY <1>4, <1>8 DEF ChecklistFlag, new, mid

(* The identity flag and the CDD level. *)
LEMMA NewIdentity ==
    ASSUME NEW r \in CustomerRows
    PROVE  LET new == [r EXCEPT !.checklist.identity = TRUE]
           IN  new \in CustomerRows /\ Legal(r, new)
  <1> DEFINE new == [r EXCEPT !.checklist.identity = TRUE]
  <1>1. /\ new.screening = r.screening /\ new.session = r.session
        /\ new.documents = r.documents /\ new.sections = r.sections
        /\ new.checklist.pep = r.checklist.pep
        /\ new.checklist.sanctions = r.checklist.sanctions
        /\ new.workflow = r.workflow /\ new.customer = r.customer
        /\ new \in CustomerRows
    BY DEF CustomerRows, CustomerTables, PortalTables
  <1> HIDE DEF new
  <1>2. Cleared(r) => Cleared(new)
    BY <1>1 DEF Cleared
  <1>3. (Assessed(r) => Assessed(new)) /\ Kept(r, new) /\ Opened(r, new)
    BY <1>1 DEF Assessed, Kept, Opened
  <1> QED  BY <1>1, <1>2, <1>3 DEF Legal, new

(* What is about other tables, or leaves the customer closed or as it was. *)
LEMMA OthersLegal ==
    ASSUME NEW r, NEW new,
           new.screening = r.screening, new.checklist = r.checklist,
           new.workflow = r.workflow,
           new.customer.status = "active" => r.customer.status = "active",
           new.customer.by = r.customer.by,
           r.session.status = "submitted" => new.session.status = "submitted",
           new.session.status = "submitted"
               => r.session.status = "submitted" \/ ReadyToSubmit(r),
           Kept(r, new)
    PROVE  Legal(r, new)
  <1>1. Cleared(r) => Cleared(new)
    BY DEF Cleared
  <1>2. Assessed(r) => Assessed(new)
    BY DEF Assessed
  <1>3. Opened(r, new)
    BY DEF Opened
  <1> QED  BY <1>1, <1>2, <1>3 DEF Legal

-----------------------------------------------------------------------------
(* Every request that reads customer c goes on to commit a legal row, or    *)
(* commits it at once.                                                       *)
Change(q, c) ==
    \E new \in CustomerRows :
        /\ Legal(rows[c], new)
        /\ Handle(q, c, new) \/ \E then \in {"idle", "portal"} : Save(q, c, new, then)

LEMMA Handled ==
    ASSUME NEW q, NEW c, NEW new \in CustomerRows, Legal(rows[c], new), Handle(q, c, new)
    PROVE  Change(q, c)
  BY DEF Change

(* Behind the gateway no transition leads but from there: the gateway does. *)
LEMMA FromBehind ==
    ASSUME NEW from, NEW to \in BehindGateway, <<from, to>> \in Transitions
    PROVE  from \in BehindGateway
  BY DEF Transitions, BehindGateway, EddStates

LEMMA MoveChange ==
    ASSUME NEW q, NEW c, rows[c] \in CustomerRows, NEW to \in WorkflowStates,
           Move(q, c, to)
    PROVE  Change(q, c)
  <1>1. <<rows[c].workflow.state, to>> \in Transitions
        /\ Handle(q, c, [rows[c] EXCEPT !.workflow.state = to])
    BY DEF Move, May
  <1>2. to \in BehindGateway => rows[c].workflow.state \in BehindGateway
    BY <1>1, FromBehind
  <1> QED  BY <1>1, <1>2, NewState, Handled

(* The workflow's handlers. *)
LEMMA WorkflowChange ==
    ASSUME NEW q, NEW c, rows[c] \in CustomerRows,
           \/ StartDataCollection(q, c) \/ SubmitForVerification(q, c)
           \/ \E passed \in BOOLEAN : RecordVerificationResult(q, c, passed)
           \/ TriggerScreeningPhase(q, c) \/ MarkScreeningComplete(q, c)
           \/ \E edd \in BOOLEAN : RunRiskAssessment(q, c, edd)
           \/ StartEddCollection(q, c)
           \/ \E approved \in BOOLEAN : ApproveEdd(q, c, approved)
           \/ SubmitForFinalReview(q, c) \/ RequestMoreInformation(q, c) \/ EscalateToEdd(q, c)
           \/ \E decision \in {"active", "rejected"} : FinalDecision(q, c, decision)
           \/ StartPeriodicReview(q, c) \/ CompletePeriodicReview(q, c)
    PROVE  Change(q, c)
  <1> USE DEF WorkflowStates
  <1>1. CASE StartDataCollection(q, c)
    BY <1>1, MoveChange DEF StartDataCollection
  <1>2. CASE SubmitForVerification(q, c)
    BY <1>2, MoveChange DEF SubmitForVerification
  <1>3. CASE \E passed \in BOOLEAN : RecordVerificationResult(q, c, passed)
    <2>1. PICK passed \in BOOLEAN : RecordVerificationResult(q, c, passed)
      BY <1>3
    <2>2. CASE passed
      BY <2>1, <2>2, MoveChange DEF RecordVerificationResult
    <2>3. CASE ~passed
      BY <2>1, <2>3, MoveChange DEF RecordVerificationResult
    <2> QED  BY <2>2, <2>3
  <1>4. CASE TriggerScreeningPhase(q, c)
    BY <1>4, MoveChange DEF TriggerScreeningPhase
  <1>5. CASE MarkScreeningComplete(q, c)
    BY <1>5, MoveChange DEF MarkScreeningComplete
  <1>6. CASE \E edd \in BOOLEAN : RunRiskAssessment(q, c, edd)
    <2>1. PICK edd \in BOOLEAN : RunRiskAssessment(q, c, edd)
      BY <1>6
    <2> QED  BY <2>1, NewAssessment, Handled DEF RunRiskAssessment
  <1>7. CASE StartEddCollection(q, c)
    BY <1>7, MoveChange DEF StartEddCollection
  <1>8. CASE \E approved \in BOOLEAN : ApproveEdd(q, c, approved)
    <2>1. PICK approved \in BOOLEAN : ApproveEdd(q, c, approved)
      BY <1>8
    <2>2. CASE approved
      <3>1. <<rows[c].workflow.state, "cdd_review">> \in Transitions
        BY <2>1, <2>2 DEF ApproveEdd, May
      <3>2. rows[c].workflow.state \in BehindGateway
        BY <3>1, FromBehind DEF BehindGateway
      <3> QED  BY <2>1, <2>2, <3>2, NewApproval, Handled DEF ApproveEdd
    <2>3. CASE ~approved
      BY <2>1, <2>3, MoveChange DEF ApproveEdd
    <2> QED  BY <2>2, <2>3
  <1>9. CASE SubmitForFinalReview(q, c)
    BY <1>9, MoveChange DEF SubmitForFinalReview
  <1>10. CASE RequestMoreInformation(q, c)
    BY <1>10, MoveChange DEF RequestMoreInformation
  <1>11. CASE EscalateToEdd(q, c)
    <2>1. rows[c].workflow.state \in BehindGateway
      BY <1>11, FromBehind DEF EscalateToEdd, May, BehindGateway, EddStates
    <2> QED  BY <1>11, <2>1, NewEscalation, Handled DEF EscalateToEdd
  <1>12. CASE \E decision \in {"active", "rejected"} : FinalDecision(q, c, decision)
    <2>1. PICK decision \in {"active", "rejected"} : FinalDecision(q, c, decision)
      BY <1>12
    <2>2. rows[c].workflow.state \in BehindGateway
      BY <2>1 DEF FinalDecision, BehindGateway
    <2> QED  BY <2>1, <2>2, NewDecision, Handled DEF FinalDecision
  <1>13. CASE StartPeriodicReview(q, c)
    BY <1>13, MoveChange DEF StartPeriodicReview
  <1>14. CASE CompletePeriodicReview(q, c)
    BY <1>14, MoveChange DEF CompletePeriodicReview
  <1> QED  BY <1>1, <1>2, <1>3, <1>4, <1>5, <1>6, <1>7, <1>8, <1>9, <1>10,
              <1>11, <1>12, <1>13, <1>14

(* The onboarding, KYC and screening handlers. *)
LEMMA CustomerChange ==
    ASSUME NEW q, NEW c, rows[c] \in CustomerRows, CustomerRequest(q, c)
    PROVE  Change(q, c)
  <1>1. CASE CreateCustomer(q, c) \/ ImportCustomer(q, c)
    <2> DEFINE new == [rows[c] EXCEPT !.customer.status = "draft"]
    <2>1. Handle(q, c, new)
      BY <1>1 DEF CreateCustomer, ImportCustomer
    <2>2. /\ new.screening = rows[c].screening /\ new.checklist = rows[c].checklist
          /\ new.workflow = rows[c].workflow /\ new.session = rows[c].session
          /\ new.documents = rows[c].documents /\ new.sections = rows[c].sections
          /\ new.customer.status = "draft" /\ new \in CustomerRows
          /\ new.customer.by = rows[c].customer.by
      BY DEF CustomerRows, CustomerTables, PortalTables, CustomerStatuses
    <2> HIDE DEF new
    <2>3. Kept(rows[c], new)
      BY <2>2 DEF Kept
    <2>4. Legal(rows[c], new)
      BY <2>2, <2>3, OthersLegal
    <2> QED  BY <2>1, <2>2, <2>4, Handled
  <1>2. CASE \E s \in Asked : UpdateStatus(q, c, s) \/ OverrideCustomer(q, c, s)
    <2>1. PICK s \in Asked : UpdateStatus(q, c, s) \/ OverrideCustomer(q, c, s)
      BY <1>2
    <2>2. s \in CustomerStatuses
      BY AskedAssumption
    <2>3. CASE UpdateStatus(q, c, s)
      BY <2>2, <2>3, NewStatus, Handled DEF UpdateStatus
    <2>4. CASE OverrideCustomer(q, c, s)
      BY <2>2, <2>4, NewStatus, Handled DEF OverrideCustomer
    <2> QED  BY <2>1, <2>3, <2>4
  <1>3. CASE VerifyIdentityDocument(q, c)
    BY <1>3, NewIdentity, Handled DEF VerifyIdentityDocument
  <1>4. CASE \E k \in Checks : TriggerScreening(q, c, k) \/ RunScreening(q, c, k)
    <2>1. PICK k \in Checks : TriggerScreening(q, c, k) \/ RunScreening(q, c, k)
      BY <1>4
    <2>2. rows[c].screening[k] = "none"
      BY <2>1 DEF TriggerScreening, RunScreening, NextCheck, Free
    <2>3. CASE TriggerScreening(q, c, k)
      BY <2>2, <2>3, NewRecord, Handled DEF TriggerScreening, CheckStatuses
    <2>4. CASE RunScreening(q, c, k)
      BY <2>2, <2>4, NewRecord, Handled DEF RunScreening, CheckStatuses
    <2> QED  BY <2>1, <2>3, <2>4
  <1>5. CASE \E k \in Checks, s \in CheckStatuses : ReviewScreening(q, c, k, s)
    BY <1>5, NewReview, Handled DEF ReviewScreening
  <1>6. CASE \E level \in {"standard", "enhanced"} : CreateReview(q, c, level)
    <2>1. PICK level \in {"standard", "enhanced"} : CreateReview(q, c, level)
      BY <1>6
    <2> DEFINE new == [rows[c] EXCEPT !.customer.cdd = level]
    <2>2. Handle(q, c, new)
      BY <2>1 DEF CreateReview
    <2>3. /\ new.screening = rows[c].screening /\ new.checklist = rows[c].checklist
          /\ new.workflow = rows[c].workflow /\ new.session = rows[c].session
          /\ new.documents = rows[c].documents /\ new.sections = rows[c].sections
          /\ new.customer.status = rows[c].customer.status /\ new \in CustomerRows
          /\ new.customer.by = rows[c].customer.by
      BY DEF CustomerRows, CustomerTables, PortalTables
    <2> HIDE DEF new
    <2>4. Kept(rows[c], new)
      BY <2>3 DEF Kept
    <2>5. Legal(rows[c], new)
      BY <2>3, <2>4, OthersLegal
    <2> QED  BY <2>2, <2>3, <2>5, Handled
  <1>7. CASE InitiateKyc(q, c) \/ UploadKycDocument(q, c) \/ SumsubWebhook(q, c)
    BY <1>7, NewStatus, Handled
       DEF InitiateKyc, UploadKycDocument, SumsubWebhook, CustomerStatuses
  <1>8. CASE \E approve, high \in BOOLEAN : ReviewKyc(q, c, approve, high)
    <2>1. PICK approve \in BOOLEAN, high \in BOOLEAN : ReviewKyc(q, c, approve, high)
      BY <1>8
    <2> DEFINE s == IF Unresolved(rows[c]) \/ ~approve THEN "rejected"
                    ELSE IF high THEN "edd_required" ELSE "active"
    <2>2. Handle(q, c, WithStatus(rows[c], s, "kyc"))
      BY <2>1 DEF ReviewKyc
    <2>3. s \in CustomerStatuses
      BY DEF CustomerStatuses
    <2>4. s = "active" => Screened(rows[c]) /\ ~Unresolved(rows[c])
      BY <2>1 DEF ReviewKyc
    <2> HIDE DEF s
    <2> QED  BY <2>2, <2>3, <2>4, NewStatus, Handled
  <1>9. CASE \E others \in {0, 200, 400} : DecideIdentityScore(q, c, others)
    <2>1. PICK others \in {0, 200, 400} : DecideIdentityScore(q, c, others)
      BY <1>9
    <2>2. IdentityDecision(rows[c], others) \in CustomerStatuses
      BY DEF IdentityDecision, CustomerStatuses
    <2> QED  BY <2>1, <2>2, NewStatus, Handled DEF DecideIdentityScore
  <1> QED  BY <1>1, <1>2, <1>3, <1>4, <1>5, <1>6, <1>7, <1>8, <1>9, WorkflowChange
           DEF CustomerRequest

(* A session that is created, cancelled, sent again, opened or has expired: *)
(* it was not submitted and is not.                                          *)
LEMMA SessionChange ==
    ASSUME NEW q, NEW c, rows[c] \in CustomerRows, NEW session \in PortalTables.session,
           rows[c].session.status # "submitted", session.status # "submitted",
           LET new == [rows[c] EXCEPT !.session = session]
           IN  Handle(q, c, new) \/ \E then \in {"idle", "portal"} : Save(q, c, new, then)
    PROVE  Change(q, c)
  <1> DEFINE r == rows[c]
             new == [r EXCEPT !.session = session]
  <1>1. /\ new.screening = r.screening /\ new.checklist = r.checklist
        /\ new.workflow = r.workflow /\ new.session = session
        /\ new.documents = r.documents /\ new.sections = r.sections
        /\ new.customer = r.customer /\ new \in CustomerRows
    BY DEF CustomerRows, CustomerTables, PortalTables
  <1>2. Handle(q, c, new) \/ \E then \in {"idle", "portal"} : Save(q, c, new, then)
    OBVIOUS
  <1> HIDE DEF new
  <1>3. Kept(r, new)
    BY <1>1 DEF Kept
  <1>4. Legal(r, new)
    BY <1>1, <1>3, OthersLegal
  <1> QED  BY <1>1, <1>2, <1>4 DEF Change

(* A document gets a status, and keeps one. *)
LEMMA DocumentChange ==
    ASSUME NEW q, NEW c, rows[c] \in CustomerRows, NEW d \in Documents,
           NEW status \in DocumentStatuses, status # "none",
           LET new == [rows[c] EXCEPT !.documents[d] = status]
           IN  Handle(q, c, new) \/ Save(q, c, new, "idle")
    PROVE  Change(q, c)
  <1> DEFINE r == rows[c]
             new == [r EXCEPT !.documents[d] = status]
  <1>1. /\ new.screening = r.screening /\ new.checklist = r.checklist
        /\ new.workflow = r.workflow /\ new.session = r.session
        /\ new.sections = r.sections /\ new.customer = r.customer
        /\ \A e \in Documents : new.documents[e] = IF e = d THEN status ELSE r.documents[e]
        /\ new \in CustomerRows
    BY DEF CustomerRows, CustomerTables, PortalTables
  <1>2. Handle(q, c, new) \/ Save(q, c, new, "idle")
    OBVIOUS
  <1> HIDE DEF new
  <1>3. Kept(r, new)
    BY <1>1 DEF Kept
  <1>4. Legal(r, new)
    BY <1>1, <1>3, OthersLegal
  <1> QED  BY <1>1, <1>2, <1>4 DEF Change

(* The portal's handlers, the staff's and the customer's. *)
LEMMA PortalChange ==
    ASSUME NEW q, NEW c, rows[c] \in CustomerRows, PortalRequest(q, c)
    PROVE  Change(q, c)
  <1> DEFINE r == rows[c]
  <1>0. r.session \in PortalTables.session
    BY DEF CustomerRows
  <1>1. CASE CreateSession(q, c)
    <2>1. r.session.status = "none"
          /\ Handle(q, c, [r EXCEPT !.session = [status |-> "pending", link |-> 1]])
      BY <1>1 DEF CreateSession, Free
    <2>2. [status |-> "pending", link |-> 1] \in PortalTables.session
      BY LinksAssumption DEF PortalTables, SessionStatuses
    <2> QED  BY <2>1, <2>2, SessionChange
  <1>2. CASE CancelSession(q, c)
    <2> DEFINE session == [r.session EXCEPT !.status = "cancelled"]
    <2>1. r.session.status # "submitted"
          /\ Handle(q, c, [r EXCEPT !.session = session])
      BY <1>2 DEF CancelSession
    <2>2. session \in PortalTables.session /\ session.status # "submitted"
      BY <1>0 DEF PortalTables, SessionStatuses
    <2> QED  BY <2>1, <2>2, SessionChange
  <1>3. CASE ResendSession(q, c)
    <2> DEFINE session == [status |-> "pending", link |-> r.session.link + 1]
    <2>1. r.session.status # "submitted" /\ r.session.link < MaxLinks
          /\ Handle(q, c, [r EXCEPT !.session = session])
      BY <1>3 DEF ResendSession
    <2>2. r.session.link + 1 \in 0 .. MaxLinks
      BY <1>0, <2>1, LinksAssumption DEF PortalTables
    <2>3. session \in PortalTables.session
      BY <2>2 DEF PortalTables, SessionStatuses
    <2> QED  BY <2>1, <2>3, SessionChange
  <1>4. CASE \E link \in 1 .. MaxLinks : ValidatePortalToken(q, c, link)
    <2>1. PICK link \in 1 .. MaxLinks : ValidatePortalToken(q, c, link)
      BY <1>4
    <2>2. r.session.status # "submitted"
      BY <2>1 DEF ValidatePortalToken
    <2>3. PICK s \in {"expired", "in_progress"}, then \in {"idle", "portal"} :
             Save(q, c, [r EXCEPT !.session.status = s], then)
      BY <2>1 DEF ValidatePortalToken
    <2> DEFINE session == [r.session EXCEPT !.status = s]
    <2>4. session \in PortalTables.session /\ session.status # "submitted"
      BY <1>0 DEF PortalTables, SessionStatuses
    <2>5. Save(q, c, [r EXCEPT !.session = session], then)
      BY <2>3
    <2> QED  BY <2>2, <2>4, <2>5, SessionChange
  <1>5. CASE \E d \in Documents, accepted \in BOOLEAN : StaffReviewDocument(q, c, d, accepted)
    <2>1. PICK d \in Documents, accepted \in BOOLEAN : StaffReviewDocument(q, c, d, accepted)
      BY <1>5
    <2> DEFINE status == IF accepted THEN "accepted" ELSE "rejected"
    <2>2. Handle(q, c, [r EXCEPT !.documents[d] = status])
      BY <2>1 DEF StaffReviewDocument
    <2>3. status \in DocumentStatuses /\ status # "none"
      BY DEF DocumentStatuses
    <2> HIDE DEF status
    <2> QED  BY <2>2, <2>3, DocumentChange
  <1>6. CASE \E d \in Documents : UploadPortalDocument(q, c, d)
    BY <1>6, DocumentChange DEF UploadPortalDocument, DocumentStatuses
  <1>7. CASE \E s \in Sections, complete \in BOOLEAN : SaveQuestionnaire(q, c, s, complete)
    <2>1. PICK s \in Sections, complete \in BOOLEAN : SaveQuestionnaire(q, c, s, complete)
      BY <1>7
    <2> DEFINE new == [r EXCEPT !.sections[s] = @ \/ complete]
    <2>2. Save(q, c, new, "idle")
      BY <2>1 DEF SaveQuestionnaire
    <2>3. /\ new.screening = r.screening /\ new.checklist = r.checklist
          /\ new.workflow = r.workflow /\ new.session = r.session
          /\ new.documents = r.documents /\ new.customer = r.customer
          /\ \A e \in Sections :
                new.sections[e] = IF e = s THEN r.sections[e] \/ complete ELSE r.sections[e]
          /\ new \in CustomerRows
      BY DEF CustomerRows, CustomerTables, PortalTables
    <2> HIDE DEF new
    <2>4. Kept(r, new)
      BY <2>3 DEF Kept
    <2>5. Legal(r, new)
      BY <2>3, <2>4, OthersLegal
    <2> QED  BY <2>2, <2>3, <2>5 DEF Change
  <1>8. CASE SubmitPortalSession(q, c)
    <2> DEFINE new == [r EXCEPT !.session.status = "submitted",
                                !.customer.status = IF @ = "draft" THEN "pending" ELSE @]
    <2>1. ReadyToSubmit(r) /\ Save(q, c, new, "idle")
      BY <1>8 DEF SubmitPortalSession
    <2>2. /\ new.screening = r.screening /\ new.checklist = r.checklist
          /\ new.workflow = r.workflow /\ new.session.status = "submitted"
          /\ new.documents = r.documents /\ new.sections = r.sections
          /\ new.customer.status = IF r.customer.status = "draft" THEN "pending"
                                   ELSE r.customer.status
          /\ new \in CustomerRows
      BY DEF CustomerRows, CustomerTables, PortalTables, CustomerStatuses, SessionStatuses
    <2>5. new.customer.by = r.customer.by
      BY DEF CustomerRows, CustomerTables
    <2> HIDE DEF new
    <2>3. Kept(r, new)
      BY <2>2 DEF Kept
    <2>4. Legal(r, new)
      BY <2>1, <2>2, <2>3, <2>5, OthersLegal
    <2> QED  BY <2>1, <2>2, <2>4 DEF Change
  <1> QED  BY <1>1, <1>2, <1>3, <1>4, <1>5, <1>6, <1>7, <1>8 DEF PortalRequest

-----------------------------------------------------------------------------
(* A commit from an outdated copy: column by column, the stored row or the  *)
(* request's.                                                                *)

LEMMA WrittenPortal ==
    ASSUME NEW now \in CustomerRows, NEW seen \in CustomerRows, NEW new \in CustomerRows
    PROVE  LET w == Written(now, seen, new)
           IN  /\ w \in CustomerRows
               /\ w.session.status = IF new.session.status = seen.session.status
                                       THEN now.session.status ELSE new.session.status
               /\ w.workflow.state \in {now.workflow.state, new.workflow.state}
               /\ w.customer.by \in {now.customer.by, new.customer.by}
               /\ w.workflow.assessed = IF new.workflow.assessed = seen.workflow.assessed
                                          THEN now.workflow.assessed
                                          ELSE new.workflow.assessed
               /\ \A d \in Documents :
                     w.documents[d] = IF new.documents[d] = seen.documents[d]
                                        THEN now.documents[d] ELSE new.documents[d]
               /\ \A s \in Sections :
                     w.sections[s] = IF new.sections[s] = seen.sections[s]
                                       THEN now.sections[s] ELSE new.sections[s]
  <1> DEFINE W(t) == [f \in DOMAIN now[t] |->
                        IF new[t][f] = seen[t][f] THEN now[t][f] ELSE new[t][f]]
             w == [t \in DOMAIN now |-> W(t)]
  <1>1. DOMAIN now = {"customer", "checklist", "screening", "workflow",
                      "session", "documents", "sections"}
    BY DEF CustomerRows
  <1>2. /\ W("customer") \in CustomerTables.customer
        /\ W("checklist") \in CustomerTables.checklist
        /\ W("screening") \in CustomerTables.screening
        /\ W("workflow") \in CustomerTables.workflow
    BY DEF CustomerRows, CustomerTables
  <1>3. /\ W("session") \in PortalTables.session
        /\ W("documents") \in PortalTables.documents
        /\ W("sections") \in PortalTables.sections
    BY DEF CustomerRows, PortalTables
  <1>4. /\ W("session").status = IF new.session.status = seen.session.status
                                   THEN now.session.status ELSE new.session.status
        /\ \A d \in Documents :
              W("documents")[d] = IF new.documents[d] = seen.documents[d]
                                    THEN now.documents[d] ELSE new.documents[d]
        /\ \A s \in Sections :
              W("sections")[s] = IF new.sections[s] = seen.sections[s]
                                   THEN now.sections[s] ELSE new.sections[s]
    BY DEF CustomerRows, PortalTables
  <1>8. /\ W("workflow").state \in {now.workflow.state, new.workflow.state}
        /\ W("customer").by \in {now.customer.by, new.customer.by}
        /\ W("workflow").assessed = IF new.workflow.assessed = seen.workflow.assessed
                                       THEN now.workflow.assessed ELSE new.workflow.assessed
    BY DEF CustomerRows, CustomerTables
  <1> HIDE DEF W
  <1>5. w \in CustomerRows
    BY <1>2, <1>3 DEF CustomerRows
  <1>6. /\ w.session = W("session") /\ w.documents = W("documents") /\ w.sections = W("sections")
        /\ w.workflow = W("workflow") /\ w.customer = W("customer")
    BY <1>1
  <1>7. Written(now, seen, new) = w
    BY DEF Written, W
  <1> HIDE DEF w
  <1> QED  BY <1>4, <1>5, <1>6, <1>7, <1>8

LEMMA WrittenSession ==
    ASSUME NEW now \in CustomerRows, NEW seen \in CustomerRows, NEW new \in CustomerRows
    PROVE  Written(now, seen, new).session.status =
             IF new.session.status = seen.session.status
               THEN now.session.status ELSE new.session.status
  BY WrittenPortal

(* What the next commit needs of a request in flight: its customer is one     *)
(* that was touched, its row is a legal one for what it read, a submission is *)
(* of a session that is ready by now, and a risk profile that was read is     *)
(* still there.                                                               *)
Held(q) ==
    req[q].pc = "save" =>
        /\ req[q].of \in touched
        /\ Legal(req[q].seen, req[q].new)
        /\ req[q].new.session.status = "submitted" => ReadyToSubmit(rows[req[q].of])
        /\ Assessed(req[q].seen)
        /\ req[q].seen.workflow.assessed => rows[req[q].of].workflow.assessed

(* No outdated copy was committed: the checklist is right. *)
Sound == \A c \in CustomerIds \ raced : Cleared(rows[c])

PortalInv ==
    /\ TypeOK
    /\ Sound
    /\ SubmittedComplete
    /\ ReviewedAfterAssessment
    /\ \A q \in Requests : Held(q)

LEMMA ReadyStays ==
    ASSUME NEW r, NEW new, Kept(r, new), ReadyToSubmit(r)
    PROVE  ReadyToSubmit(new)
  BY DEF Kept, ReadyToSubmit

(* Writes of what a request read and made legal of it lose nothing. *)
LEMMA WrittenKeeps ==
    ASSUME NEW now \in CustomerRows, NEW seen \in CustomerRows, NEW new \in CustomerRows,
           Kept(seen, new)
    PROVE  Kept(now, Written(now, seen, new))
  <1> DEFINE w == Written(now, seen, new)
  <1>1. /\ \A d \in Documents :
              w.documents[d] = IF new.documents[d] = seen.documents[d]
                                 THEN now.documents[d] ELSE new.documents[d]
        /\ \A s \in Sections :
              w.sections[s] = IF new.sections[s] = seen.sections[s]
                                THEN now.sections[s] ELSE new.sections[s]
        /\ w.workflow.assessed = IF new.workflow.assessed = seen.workflow.assessed
                                   THEN now.workflow.assessed ELSE new.workflow.assessed
    BY WrittenPortal
  <1> HIDE DEF w
  <1>2. ASSUME NEW d \in Documents, now.documents[d] # "none"
        PROVE  w.documents[d] # "none"
    BY <1>1, <1>2 DEF Kept
  <1>3. ASSUME NEW s \in Sections, now.sections[s]
        PROVE  w.sections[s]
    <2>1. now.sections[s] \in BOOLEAN /\ seen.sections[s] \in BOOLEAN
          /\ new.sections[s] \in BOOLEAN
      BY DEF CustomerRows, PortalTables
    <2> QED  BY <1>1, <1>3, <2>1 DEF Kept
  <1>4. now.workflow.assessed => w.workflow.assessed
    <2>1. now.workflow.assessed \in BOOLEAN /\ seen.workflow.assessed \in BOOLEAN
          /\ new.workflow.assessed \in BOOLEAN
      BY DEF CustomerRows, CustomerTables
    <2> QED  BY <1>1, <2>1 DEF Kept
  <1> QED  BY <1>2, <1>3, <1>4 DEF Kept, w

(* Nor do they put a workflow behind the gateway that has no profile, if the  *)
(* profile that the request read is still there.                              *)
LEMMA WrittenAssessed ==
    ASSUME NEW now \in CustomerRows, NEW seen \in CustomerRows, NEW new \in CustomerRows,
           Legal(seen, new), Assessed(now), Assessed(seen),
           seen.workflow.assessed => now.workflow.assessed
    PROVE  Assessed(Written(now, seen, new))
  <1> DEFINE w == Written(now, seen, new)
  <1>1. /\ w.workflow.state \in {now.workflow.state, new.workflow.state}
        /\ w.customer.by \in {now.customer.by, new.customer.by}
        /\ w.workflow.assessed = IF new.workflow.assessed = seen.workflow.assessed
                                   THEN now.workflow.assessed ELSE new.workflow.assessed
    BY WrittenPortal
  <1> HIDE DEF w
  <1>2. now.workflow.assessed \in BOOLEAN /\ seen.workflow.assessed \in BOOLEAN
        /\ new.workflow.assessed \in BOOLEAN
    BY DEF CustomerRows, CustomerTables
  <1>3. Assessed(new) /\ (seen.workflow.assessed => new.workflow.assessed)
    BY DEF Legal, Kept
  <1>4. CASE ~w.workflow.assessed
    <2>1. ~now.workflow.assessed /\ ~new.workflow.assessed
      BY <1>1, <1>2, <1>3, <1>4
    <2>2. /\ now.workflow.state \notin BehindGateway /\ now.customer.by # "workflow"
          /\ new.workflow.state \notin BehindGateway /\ new.customer.by # "workflow"
      BY Zenon, <1>3, <2>1 DEF Assessed
    <2>3. w.workflow.state \notin BehindGateway /\ w.customer.by # "workflow"
      BY <1>1, <2>2
    <2>4. Assessed(w)
      BY <2>3 DEF Assessed
    <2> QED  BY <2>4 DEF w
  <1>5. CASE w.workflow.assessed
    <2>1. Assessed(w)
      BY <1>5 DEF Assessed
    <2> QED  BY <2>1 DEF w
  <1> QED  BY <1>4, <1>5

(* A new row for c, by a commit or by a request that does not overlap. *)
RowStep(c, x) ==
    /\ rows' = [rows EXCEPT ![c] = x]
    /\ Kept(rows[c], x)
    /\ Assessed(x)

LEMMA RowsStep ==
    ASSUME TypeOK, SubmittedComplete, ReviewedAfterAssessment,
           NEW c \in CustomerIds, NEW x \in CustomerRows,
           RowStep(c, x), x.session.status = "submitted" => ReadyToSubmit(x)
    PROVE  /\ rows' \in [CustomerIds -> CustomerRows]
           /\ SubmittedComplete' /\ ReviewedAfterAssessment'
           /\ \A e \in CustomerIds : ReadyToSubmit(rows[e]) => ReadyToSubmit(rows'[e])
           /\ \A e \in CustomerIds :
                 rows[e].workflow.assessed => rows'[e].workflow.assessed
  <1>1. rows \in [CustomerIds -> CustomerRows]
    BY PortalAssumption DEF TypeOK, RequestsOK
  <1>2. \A e \in CustomerIds : rows'[e] = IF e = c THEN x ELSE rows[e]
    BY <1>1 DEF RowStep
  <1>3. rows' \in [CustomerIds -> CustomerRows]
    BY <1>1 DEF RowStep
  <1>4. SubmittedComplete'
    BY <1>2 DEF SubmittedComplete, ReadyToSubmit
  <1>5. \A e \in CustomerIds : ReadyToSubmit(rows[e]) => ReadyToSubmit(rows'[e])
    BY <1>2, ReadyStays DEF RowStep
  <1>6. ReviewedAfterAssessment'
    BY <1>2 DEF RowStep, ReviewedAfterAssessment, Assessed
  <1>7. \A e \in CustomerIds : rows[e].workflow.assessed => rows'[e].workflow.assessed
    BY <1>2 DEF RowStep, Kept
  <1> QED  BY <1>3, <1>4, <1>5, <1>6, <1>7

LEMMA RequestTypes ==
    ASSUME TypeOK, NEW q \in Requests
    PROVE  /\ req[q] \in RequestStates(CustomerRows, {"portal"})
           /\ req[q] # Idle => req[q].of \in CustomerIds
           /\ req[q].pc = "save" =>
                 /\ req[q].seen \in CustomerRows /\ req[q].new \in CustomerRows
                 /\ req[q].then \in {"idle", "portal"}
  BY PortalAssumption DEF TypeOK, RequestsOK, RequestStates, Idle

(* A request that has read its customer, and one that needs no overlap. *)
LEMMA ChangeKeeps ==
    ASSUME PortalInv, NEW q \in Requests, NEW c \in CustomerIds, Change(q, c)
    PROVE  PortalInv'
  <1>1. /\ rows \in [CustomerIds -> CustomerRows]
        /\ req \in [Requests -> RequestStates(CustomerRows, {"portal"})]
        /\ raced \subseteq touched /\ touched \subseteq CustomerIds
    BY PortalAssumption DEF PortalInv, TypeOK, RequestsOK
  <1>2. PICK new \in CustomerRows :
           /\ Legal(rows[c], new)
           /\ Handle(q, c, new) \/ \E then \in {"idle", "portal"} : Save(q, c, new, then)
    BY DEF Change
  <1>3. new.session.status = "submitted" => ReadyToSubmit(rows[c])
    BY <1>2 DEF Legal, PortalInv, SubmittedComplete
  <1>4. ASSUME Touch(c)
        PROVE  /\ raced \subseteq touched' /\ touched' \subseteq CustomerIds
               /\ c \in touched' /\ touched \subseteq touched'
    BY <1>1, <1>4 DEF Touch
  <1>5. ASSUME NEW then \in {"idle", "portal"}, Save(q, c, new, then)
        PROVE  PortalInv'
    <2> DEFINE saved == [pc |-> "save", of |-> c, seen |-> rows[c], new |-> new, then |-> then]
    <2>1. /\ req' = [req EXCEPT ![q] = saved]
          /\ rows' = rows /\ raced' = raced /\ Touch(c)
      BY <1>5 DEF Save
    <2>2. saved \in RequestStates(CustomerRows, {"portal"})
      BY <1>1, PortalAssumption DEF RequestStates
    <2>3. TypeOK'
      BY <1>1, <1>4, <2>1, <2>2, PortalAssumption DEF TypeOK, RequestsOK, RequestStates
    <2>4. Sound' /\ SubmittedComplete' /\ ReviewedAfterAssessment'
      BY <2>1 DEF PortalInv, Sound, SubmittedComplete, ReviewedAfterAssessment
    <2>5. ASSUME NEW p \in Requests
          PROVE  Held(p)'
      <3>1. CASE p = q
        <4>1. req'[p] = saved
          BY <1>1, <2>1, <3>1
        <4>2. saved.of \in touched' /\ Legal(saved.seen, saved.new)
              /\ (saved.new.session.status = "submitted" => ReadyToSubmit(rows'[saved.of]))
              /\ Assessed(saved.seen)
              /\ (saved.seen.workflow.assessed => rows'[saved.of].workflow.assessed)
          BY <1>2, <1>3, <1>4, <2>1 DEF PortalInv, ReviewedAfterAssessment
        <4> QED  BY <4>1, <4>2 DEF Held
      <3>2. CASE p # q
        BY <1>1, <1>4, <2>1, <3>2 DEF PortalInv, Held
      <3> QED  BY <3>1, <3>2
    <2> QED  BY <2>3, <2>4, <2>5 DEF PortalInv
  <1>6. CASE Touch(c) /\ rows' = [rows EXCEPT ![c] = new] /\ UNCHANGED <<req, overdue, raced>>
    <2>1. RowStep(c, new)
      BY <1>2, <1>6 DEF RowStep, Legal, PortalInv, ReviewedAfterAssessment
    <2>2. new.session.status = "submitted" => ReadyToSubmit(new)
      BY <1>2, <1>3, ReadyStays DEF Legal
    <2>3. /\ rows' \in [CustomerIds -> CustomerRows]
          /\ SubmittedComplete' /\ ReviewedAfterAssessment'
          /\ \A e \in CustomerIds : ReadyToSubmit(rows[e]) => ReadyToSubmit(rows'[e])
          /\ \A e \in CustomerIds :
                rows[e].workflow.assessed => rows'[e].workflow.assessed
      BY <2>1, <2>2, RowsStep DEF PortalInv
    <2>4. TypeOK'
      BY <1>1, <1>4, <1>6, <2>3, PortalAssumption DEF TypeOK, RequestsOK, RequestStates
    <2>5. Sound'
      BY <1>1, <1>2, <1>6 DEF PortalInv, Sound, Legal
    <2>6. ASSUME NEW p \in Requests
          PROVE  Held(p)'
      <3>1. req[p].pc = "save" => req[p].of \in CustomerIds
        BY <1>1, PortalAssumption DEF RequestStates, Idle
      <3> QED  BY <1>4, <1>6, <2>3, <3>1 DEF PortalInv, Held
    <2> QED  BY <2>3, <2>4, <2>5, <2>6 DEF PortalInv
  <1>7. CASE Handle(q, c, new)
    BY <1>5, <1>6, <1>7 DEF Handle
  <1> QED  BY <1>2, <1>5, <1>7

(* A commit: of a copy that is the present row, the legal row; of another    *)
(* one a mixture, and the customer is a raced one from then on.              *)
LEMMA CommitKeeps ==
    ASSUME PortalInv, NEW q \in Requests, Commit(q)
    PROVE  PortalInv'
  <1> DEFINE c == req[q].of
             seen == req[q].seen
             new == req[q].new
             x == IF seen = rows[c] THEN new ELSE Written(rows[c], seen, new)
             next == IF req[q].then = "idle" THEN Idle ELSE [pc |-> req[q].then, of |-> c]
  <1>1. /\ rows \in [CustomerIds -> CustomerRows]
        /\ req \in [Requests -> RequestStates(CustomerRows, {"portal"})]
        /\ raced \subseteq touched /\ touched \subseteq CustomerIds
    BY PortalAssumption DEF PortalInv, TypeOK, RequestsOK
  <1>2. req[q].pc = "save" /\ c \in touched
        /\ seen \in CustomerRows /\ new \in CustomerRows
        /\ req[q].then \in {"idle", "portal"}
    BY RequestTypes DEF PortalInv, Held, Commit
  <1>3. c \in CustomerIds /\ rows[c] \in CustomerRows
    BY <1>1, <1>2
  <1>4. /\ rows' = [rows EXCEPT ![c] = x]
        /\ raced' = IF seen = rows[c] THEN raced ELSE raced \union {c}
        /\ req' = [req EXCEPT ![q] = next]
        /\ touched' = touched
    BY <1>1, <1>3 DEF Commit
  <1>5. Legal(seen, new) /\ (new.session.status = "submitted" => ReadyToSubmit(rows[c]))
    BY <1>2 DEF PortalInv, Held
  <1>14. /\ Assessed(rows[c]) /\ Assessed(seen)
         /\ seen.workflow.assessed => rows[c].workflow.assessed
    BY <1>2, <1>3 DEF PortalInv, Held, ReviewedAfterAssessment
  <1>6. x \in CustomerRows /\ Kept(rows[c], x) /\ Assessed(x)
    <2>1. CASE seen = rows[c]
      BY <1>2, <1>5, <1>14, <2>1 DEF Legal
    <2>2. CASE seen # rows[c]
      <3>1. Assessed(x)
        BY <1>2, <1>3, <1>5, <1>14, <2>2, WrittenAssessed
      <3> QED  BY <1>2, <1>3, <1>5, <2>2, <3>1, WrittenPortal, WrittenKeeps DEF Legal
    <2> QED  BY <2>1, <2>2
  <1>7. x.session.status = "submitted" => ReadyToSubmit(rows[c])
    <2>1. CASE seen = rows[c]
      BY <1>5, <2>1
    <2>2. CASE seen # rows[c]
      <3>1. x.session.status = IF new.session.status = seen.session.status
                                 THEN rows[c].session.status ELSE new.session.status
        <4> DEFINE w == Written(rows[c], seen, new)
        <4>1. x = w
          BY <2>2
        <4>2. w.session.status = IF new.session.status = seen.session.status
                                   THEN rows[c].session.status ELSE new.session.status
          BY <1>2, <1>3, WrittenSession
        <4> HIDE DEF x, w
        <4> QED  BY <4>1, <4>2
      <3> QED  BY <1>3, <1>5, <3>1 DEF PortalInv, SubmittedComplete
    <2> QED  BY <2>1, <2>2
  <1>8. x.session.status = "submitted" => ReadyToSubmit(x)
    BY <1>6, <1>7, ReadyStays
  <1>9. next \in RequestStates(CustomerRows, {"portal"}) /\ next.pc # "save"
    BY <1>2, <1>3, PortalAssumption DEF RequestStates, Idle
  <1> HIDE DEF x, next
  <1>10. /\ rows' \in [CustomerIds -> CustomerRows]
         /\ SubmittedComplete' /\ ReviewedAfterAssessment'
         /\ \A e \in CustomerIds : ReadyToSubmit(rows[e]) => ReadyToSubmit(rows'[e])
         /\ \A e \in CustomerIds :
               rows[e].workflow.assessed => rows'[e].workflow.assessed
    BY <1>3, <1>4, <1>6, <1>8, RowsStep DEF RowStep, PortalInv
  <1>11. TypeOK'
    BY <1>1, <1>2, <1>4, <1>9, <1>10, PortalAssumption DEF TypeOK, RequestsOK, RequestStates
  <1>12. Sound'
    <2> SUFFICES ASSUME NEW e \in CustomerIds \ raced'
                 PROVE  Cleared(rows'[e])
      BY DEF Sound
    <2>1. CASE e = c
      <3>1. seen = rows[c] /\ rows'[e] = new
        BY <1>1, <1>3, <1>4, <2>1 DEF x
      <3>2. Cleared(rows[c])
        BY <1>4, <2>1, <3>1 DEF PortalInv, Sound
      <3> QED  BY <1>5, <3>1, <3>2 DEF Legal
    <2>2. CASE e # c
      BY <1>1, <1>4, <2>2 DEF PortalInv, Sound
    <2> QED  BY <2>1, <2>2
  <1>13. ASSUME NEW p \in Requests
         PROVE  Held(p)'
    <2>1. CASE p = q
      BY <1>1, <1>4, <1>9, <2>1 DEF Held
    <2>2. CASE p # q
      <3>1. req'[p] = req[p]
        BY <1>1, <1>4, <2>2
      <3>2. req[p].pc = "save" => req[p].of \in CustomerIds
        BY RequestTypes DEF PortalInv, Idle
      <3> QED  BY <1>4, <1>10, <3>1, <3>2 DEF PortalInv, Held
    <2> QED  BY <2>1, <2>2
  <1> QED  BY <1>10, <1>11, <1>12, <1>13 DEF PortalInv

LEMMA LoseKeeps ==
    ASSUME PortalInv, NEW q \in Requests, Lose(q)
    PROVE  PortalInv'
  <1>1. req \in [Requests -> RequestStates(CustomerRows, {"portal"})]
    BY DEF PortalInv, TypeOK, RequestsOK
  <1>2. /\ req' = [req EXCEPT ![q] = Idle]
        /\ UNCHANGED <<rows, overdue, raced, touched>>
    BY DEF Lose
  <1>3. TypeOK' /\ Sound' /\ SubmittedComplete' /\ ReviewedAfterAssessment'
    BY <1>1, <1>2 DEF PortalInv, TypeOK, RequestsOK, RequestStates, Sound, SubmittedComplete,
                      ReviewedAfterAssessment
  <1>4. ASSUME NEW p \in Requests
        PROVE  Held(p)'
    BY <1>1, <1>2 DEF PortalInv, Held, Idle
  <1> QED  BY <1>3, <1>4 DEF PortalInv

LEMMA QuietKeeps ==
    ASSUME PortalInv, UNCHANGED <<rows, req, raced, touched>>
    PROVE  PortalInv'
  BY DEF PortalInv, TypeOK, RequestsOK, RequestStates, Sound, SubmittedComplete,
         ReviewedAfterAssessment, Held

LEMMA PortalStart == Init => PortalInv
  <1> SUFFICES ASSUME Init PROVE PortalInv
    OBVIOUS
  <1>1. /\ rows = [c \in CustomerIds |-> NewRows]
        /\ req = [q \in Requests |-> Idle] /\ raced = {} /\ touched = {}
    BY DEF Init, RequestsInit
  <1>2. NewRows \in CustomerRows
    <2>1. /\ NewCustomer.customer \in CustomerTables.customer
          /\ NewCustomer.checklist \in CustomerTables.checklist
          /\ NewCustomer.screening \in CustomerTables.screening
          /\ NewCustomer.workflow \in CustomerTables.workflow
      BY DEF NewCustomer, CustomerTables, WorkflowStates
    <2>2. /\ NewPortal.session \in PortalTables.session
          /\ NewPortal.documents \in PortalTables.documents
          /\ NewPortal.sections \in PortalTables.sections
      BY LinksAssumption DEF NewPortal, PortalTables, SessionStatuses, DocumentStatuses
    <2> QED  BY <2>1, <2>2 DEF NewRows, CustomerRows
  <1>3. Assessed(NewRows) /\ Cleared(NewRows) /\ NewRows.session.status = "none"
    BY DEF NewRows, NewCustomer, NewPortal, Assessed, BehindGateway, EddStates, Cleared
  <1>4. TypeOK
    BY <1>1, <1>2, PortalAssumption DEF TypeOK, RequestsOK, RequestStates
  <1>5. Sound /\ SubmittedComplete /\ ReviewedAfterAssessment
    BY <1>1, <1>3 DEF Sound, SubmittedComplete, ReviewedAfterAssessment
  <1>6. \A q \in Requests : Held(q)
    BY <1>1 DEF Held, Idle
  <1> QED  BY <1>4, <1>5, <1>6 DEF PortalInv

(* The steps of the system, by what they do to a customer. *)
LEMMA PortalSteps ==
    ASSUME PortalInv, Next
    PROVE  \/ \E q \in Requests, c \in CustomerIds : Change(q, c)
           \/ \E q \in Requests : Commit(q) \/ Lose(q)
           \/ UNCHANGED <<rows, req, raced, touched>>
  <1>1. ASSUME NEW q \in Requests, NEW c \in CustomerIds,
               CustomerRequest(q, c) \/ PortalRequest(q, c)
        PROVE  Change(q, c)
    <2>1. rows[c] \in CustomerRows
      BY PortalAssumption DEF PortalInv, TypeOK, RequestsOK
    <2> QED  BY <1>1, <2>1, CustomerChange, PortalChange
  <1>2. ASSUME NEW c \in CustomerIds, LinkExpires(c)
        PROVE  UNCHANGED <<rows, req, raced, touched>>
    BY <1>2 DEF LinkExpires, Pass
  <1> QED  BY <1>1, <1>2 DEF Next

LEMMA PortalStep ==
    ASSUME PortalInv, [Next]_vars
    PROVE  PortalInv'
  <1>1. CASE Next
    BY <1>1, PortalSteps, ChangeKeeps, CommitKeeps, LoseKeeps, QuietKeeps
  <1>2. CASE UNCHANGED vars
    BY <1>2, QuietKeeps DEF vars
  <1> QED  BY <1>1, <1>2

(* A customer of which no outdated copy was committed changes by legal steps. *)
LEMMA PresentIsLegal ==
    ASSUME PortalInv, [Next]_vars, NEW c \in CustomerIds \ raced'
    PROVE  rows'[c] = rows[c] \/ Legal(rows[c], rows'[c])
  <1>1. rows \in [CustomerIds -> CustomerRows]
    BY PortalAssumption DEF PortalInv, TypeOK, RequestsOK
  <1>2. ASSUME NEW q \in Requests, NEW e \in CustomerIds, Change(q, e)
        PROVE  rows'[c] = rows[c] \/ Legal(rows[c], rows'[c])
    BY <1>1, <1>2 DEF Change, Handle, Save
  <1>3. ASSUME NEW q \in Requests, Commit(q)
        PROVE  rows'[c] = rows[c] \/ Legal(rows[c], rows'[c])
    <2> DEFINE e == req[q].of
    <2>1. /\ rows' = [rows EXCEPT ![e] = IF req[q].seen = rows[e] THEN req[q].new
                                         ELSE Written(rows[e], req[q].seen, req[q].new)]
          /\ raced' = IF req[q].seen = rows[e] THEN raced ELSE raced \union {e}
          /\ req[q].pc = "save" /\ e \in CustomerIds
      BY <1>1, <1>3, RequestTypes DEF Commit, PortalInv, Idle
    <2>2. Legal(req[q].seen, req[q].new)
      BY <2>1 DEF PortalInv, Held
    <2> QED  BY <1>1, <2>1, <2>2
  <1>4. ASSUME NEW q \in Requests, Lose(q)
        PROVE  rows'[c] = rows[c]
    BY <1>4 DEF Lose
  <1> QED  BY <1>2, <1>3, <1>4, PortalSteps DEF vars

-----------------------------------------------------------------------------
(* PortalInv is inductive. *)
LEMMA PortalAlways == Spec => []PortalInv
  BY PortalStart, PortalStep, PTL DEF Spec

(* The tables and the requests in flight have their types, and a request in   *)
(* flight is at one of its handler's transactions.                            *)
THEOREM PortalTypes == Spec => []TypeOK
  <1>1. PortalInv => TypeOK
    BY DEF PortalInv
  <1> QED  BY <1>1, PortalAlways, PTL

(* Whatever requests overlap and commit outdated copies, a workflow behind    *)
(* the decision gateway has a risk profile, and so has a customer that the    *)
(* workflow made active.                                                      *)
THEOREM AssessedFirst == Spec => []ReviewedAfterAssessment
  <1>1. PortalInv => ReviewedAfterAssessment
    BY DEF PortalInv
  <1> QED  BY <1>1, PortalAlways, PTL

(* A submitted session is complete, outdated copies or not: what a request    *)
(* found there when it read the session is still there when it commits.       *)
THEOREM CompleteWhenSubmitted == Spec => []SubmittedComplete
  <1>1. PortalInv => SubmittedComplete
    BY DEF PortalInv
  <1> QED  BY <1>1, PortalAlways, PTL

(* A submitted session stays submitted. *)
THEOREM SubmissionIsFinal == Spec => SubmittedStays
  <1>1. ASSUME PortalInv, [Next]_vars
        PROVE  [\A c \in CustomerIds \ raced' :
                  rows[c].session.status = "submitted"
                    => rows'[c].session.status = "submitted"]_rows
    BY <1>1, PresentIsLegal DEF Legal
  <1> QED  BY <1>1, PortalAlways, PTL DEF Spec, SubmittedStays

(* Who becomes active by the status endpoint or the KYC review has cleared    *)
(* screening records, however many records there are and in whatever order    *)
(* they were reviewed: the flags of the checklist are backed by records.      *)
THEOREM OpenedOnClearedChecks == Spec => ClearedWhenOpened
  <1>1. ASSUME PortalInv, [Next]_vars, PortalInv',
               NEW c \in CustomerIds, Opens(c, {"status", "kyc"}), c \notin raced'
        PROVE  /\ \A kind \in {"pep", "sanctions"} :
                    \E k \in Checks : KindOf[k] = kind /\ rows'[c].screening[k] = "clear"
               /\ \A k \in Checks : rows'[c].screening[k] \notin {"potential", "confirmed"}
    <2>1. Legal(rows[c], rows'[c])
      BY <1>1, PresentIsLegal DEF Opens
    <2>2. Screened(rows'[c]) /\ ~Unresolved(rows'[c])
      BY <1>1, <2>1 DEF Legal, Opened, Opens
    <2>3. Cleared(rows'[c])
      BY <1>1 DEF PortalInv, Sound
    <2> QED  BY <2>2, <2>3 DEF Cleared, Screened, Unresolved
  <1>2. ASSUME PortalInv, [Next]_vars, PortalInv'
        PROVE  [\A c \in CustomerIds :
                  Opens(c, {"status", "kyc"}) /\ c \notin raced'
                    => /\ \A kind \in {"pep", "sanctions"} :
                            \E k \in Checks : KindOf[k] = kind
                                               /\ rows'[c].screening[k] = "clear"
                       /\ \A k \in Checks :
                            rows'[c].screening[k] \notin {"potential", "confirmed"}]_rows
    BY <1>1, <1>2
  <1> QED  BY <1>2, PortalAlways, PTL DEF Spec, ClearedWhenOpened

=============================================================================
