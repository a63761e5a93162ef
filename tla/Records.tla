------------------------------- MODULE Records -------------------------------
(***************************************************************************)
(* The record-keeping components side by side, over one database and one   *)
(* set of requests.                                                        *)
(***************************************************************************)
EXTENDS TrainingRecords, Governance, Assessments,
        ControlTests, RiskRuns, RiskMatrices, AmlPrograms, Transfers, RiskProfiles,
        Subscriptions, Payments, TrainingTriggers, Obligations, Documents,
        CustomerEvidence, Connections, SignIn, ExaminationPacks, Settings, DueDiligence

(* An entity is of one kind, with the tables of that kind.                    *)
EntityKinds ==
    <<Trainees, Reviews, Matters, Boards, PolicyIds, Controls, RiskModels,
      Matrices, Programs, Generated, Transfers, ReceiptChains, Profiles,
      Rescored, Accounts, Payers, Teams, Tasks, Calendars, Files, Retained,
      OnFile, Imported, Hubs, Hooks, Checks, Users, Companies, Packs,
      Checklists, Monitors, Groups, Solutions, Examined, Screened>>
Tables ==
    <<TrainingRows, ReviewRows, AssessmentRows, BoardRows, PolicyRows,
      ControlRows, RiskRows, MatrixRows, ProgramRows, GeneratedRows,
      TransferRows, ReceiptRows, ProfileRows, RescoredRows, AccountRows,
      PayerRows, TeamRows, TaskRows, CalendarRows, DocumentRows, RetentionRows,
      EvidenceRows, ImportedRows, HubRows, HookRows, CheckRows, UserRows,
      CompanyRows, PackRows, ChecklistRows, MonitorRows, GroupRows,
      SolutionRows, ExaminedRows, ScreenedRows>>
FirstRows ==
    <<NewTraining, NewReview, NewAssessment, NewBoard, NewPolicy, NewControl,
      NewRisk, NewMatrix, NewProgram, NewGenerated, NewTransfer, NewReceipts,
      NewProfile, NewRescored, NewAccount, NewPayer, NewTeam, NewTask,
      NewCalendar, NewDocument, NewRetained, NewEvidence, NewImported, NewHub,
      NewHook, NewCheck, NewUser, NewCompany, NewPack, NewChecklist, NewMonitor,
      NewGroup, NewSolution, NewExamined, NewScreened>>

ASSUME OneKind ==
    \A i \in DOMAIN EntityKinds :
        /\ EntityKinds[i] \subseteq Entities
        /\ \A j \in DOMAIN EntityKinds \ {i} : EntityKinds[i] \intersect EntityKinds[j] = {}

KindOf(e) == CHOOSE i \in DOMAIN EntityKinds : e \in EntityKinds[i]
RowsOf(e) == Tables[KindOf(e)]
NewOf(e) == FirstRows[KindOf(e)]

ASSUME NewRows == \A e \in Entities : NewOf(e) \in RowsOf(e)

(* The rows that no request was about are as they were at the start. *)
TypeOK ==
    /\ \A e \in touched : rows[e] \in RowsOf(e)
    /\ \A i \in Pending : req[i] \in RequestStates(RowsOf(req[i].of), Links \union Logging)

Init == rows = [e \in Entities |-> NewOf(e)] /\ RequestsInit

Next ==
    \/ \E q \in Requests :
         \/ \E e \in Trainees : TrainingRequest(q, e)
         \/ \E e \in Reviews : ReviewRequest(q, e)
         \/ \E e \in Matters : AssessmentRequest(q, e)
         \/ \E e \in Boards : BoardRequest(q, e)
         \/ \E e \in PolicyIds : PolicyRequest(q, e)
         \/ \E e \in Controls : ControlRequest(q, e)
         \/ \E e \in RiskModels : RiskRequest(q, e)
         \/ \E e \in Matrices : MatrixRequest(q, e)
         \/ \E e \in Programs : ProgramRequest(q, e)
         \/ \E e \in Generated : GeneratedRequest(q, e)
         \/ \E e \in Transfers : TransferRequest(q, e)
         \/ \E e \in ReceiptChains : ReceiptRequest(q, e)
         \/ \E e \in Profiles : ProfileRequest(q, e)
         \/ \E e \in Rescored : RescoredRequest(q, e)
         \/ \E e \in Accounts : AccountRequest(q, e)
         \/ \E e \in Payers : PayerRequest(q, e)
         \/ \E e \in Teams : TeamRequest(q, e)
         \/ \E e \in Tasks : TaskRequest(q, e)
         \/ \E e \in Calendars : CalendarRequest(q, e)
         \/ \E e \in Files : DocumentRequest(q, e)
         \/ \E e \in Retained : RetentionRequest(q, e)
         \/ \E e \in OnFile : EvidenceRequest(q, e)
         \/ \E e \in Imported : ImportedRequest(q, e)
         \/ \E e \in Hubs : HubRequest(q, e)
         \/ \E e \in Hooks : HookRequest(q, e)
         \/ \E e \in Checks : CheckRequest(q, e)
         \/ \E e \in Users : UserRequest(q, e)
         \/ \E e \in Companies : CompanyRequest(q, e)
         \/ \E e \in Packs : PackRequest(q, e)
         \/ \E e \in Checklists : ChecklistRequest(q, e)
         \/ \E e \in Monitors : MonitorRequest(q, e)
         \/ \E e \in Groups : GroupRequest(q, e)
         \/ \E e \in Solutions : SolutionRequest(q, e)
         \/ \E e \in Examined : ExaminedRequest(q, e)
         \/ \E e \in Screened : ScreenedRequest(q, e)
         \/ Commit(q)
         \/ Lose(q)
    \/ \E d \in Days : Pass(d)

Spec == Init /\ [][Next]_vars

-----------------------------------------------------------------------------
(* What was signed stays what was signed: a board report that is distributed, *)
(* the AML programs in force and an approved enterprise assessment, and a     *)
(* submitted transfer are those that were approved, activated or lodged,      *)
(* through edits, returns, new versions and reactivations; and whoever        *)
(* completed an action did not verify it. Of an entity of which an outdated   *)
(* copy was committed (`raced`) nothing of this is said: last writer wins.    *)
AsSigned ==
    /\ DistributedAsSigned /\ OneProgramAsSigned /\ InForceAsApproved
    /\ SubmittedImmutable /\ FourEyes

(* Two places that tell the same story agree: the counters of a review and    *)
(* its findings, the findings of a finalised test and their remediations, the *)
(* latest version of the risk matrix and the matrix, a subscription with its  *)
(* price and what Stripe has for it, the training people were given and the   *)
(* registers of what gave it, a task and its event log, an account with its    *)
(* links and sessions, the members of an organisation with its owner and of a  *)
(* reporting group with its holding, a pack for an examiner with the registers *)
(* it was made from, a monitoring rule with its log and its alerts, and the    *)
(* active questions with the minimum that a checklist has, for every entity of*)
(* which no outdated copy was committed.                                      *)
BooksAgree ==
    /\ FindingsCounted /\ FindingsRemediated /\ LatestSnapshot
    /\ AssignmentsCounted /\ TaskTraced /\ MirrorsStripe /\ PriceOfPlan
    /\ SignedInSound /\ PackOfItsTime
    /\ QuestionsRemain /\ LoggedRulesKept /\ MembersOnce

(* A rating on record is no better than what it is calculated from, unless an *)
(* outdated copy was committed: a submitted run has the rating of its scores, *)
(* a residual stays within its inherent risk, and a checklist makes no        *)
(* customer low.                                                              *)
RatingsSound == RatedAsScored /\ ResidualBounded /\ ChecklistNeverLow

(* What is done is neither undone nor done twice: a valid training pass stays *)
(* through sweeps, retakes and renewals, a completed assessment stays         *)
(* completed whatever is written to its sections afterwards, one event        *)
(* assigns a course to a person once, an item of the calendar has one         *)
(* reminder for each stage, and what makes a customer riskier takes nothing   *)
(* from its rating.                                                           *)
OutcomesStand ==
    PassStands /\ CompletedStands /\ AssignedOnce /\ []RemindedOnce /\ RiskierNeverLower

(* What is on record is complete.  However requests overlap and are lost      *)
(* between their commits: an attestation names a published version, every     *)
(* version of a program has its snapshot and retrievals get past their limit  *)
(* by less than the requests in flight, a voided receipt has a replacement in *)
(* force, a customer is advised by his facts, and a dismissed article was     *)
(* found false.  Unless an outdated copy was committed: retrievals keep their *)
(* limit, a document has its bytes, a checklist the files it stands for, an   *)
(* import the customers it made, an integration its failures, and an accepted *)
(* order its usage record; the baseline has the payments of the customer, the *)
(* latest alert the score of its answers, and a large payment to a            *)
(* blacklisted country an alert; a decision on a customer has its notes, and  *)
(* a screened wallet an answer.                                               *)
HistoryKept ==
    /\ TypeOK
    /\ AttestedOnRecord /\ VersionsKept /\ ReceiptInForce
    /\ DocumentsKept /\ EvidenceOnFile /\ ImportedOnce /\ ConnectionsCounted
    /\ BaselineCountsOnce /\ LatestAlertScored /\ BlacklistedAlerted
    /\ DecidedAsNoted /\ ScreenedAsAnswered

(* What is asked again is answered as before: the purge report lists what the *)
(* check of one record calls eligible; a recommendation stays decided; and a  *)
(* connection, a migration, an expiry check or a failed delivery that is      *)
(* repeated does no harm.                                                     *)
RepeatedAsBefore == PurgeAsEligible /\ AdviceStands /\ RepeatsHarmless

=============================================================================
