------------------------------- MODULE Settings -------------------------------
(***************************************************************************)
(* What an organisation sets up: the questions of its approval checklists  *)
(* (app/api/routes/org_config.py, the templates of                         *)
(* app/services/questionnaire_seed_service.py), its monitoring rules       *)
(* (app/api/routes/monitoring.py), the reporting group it belongs to       *)
(* (app/services/reporting_group_service.py) and the AML program its       *)
(* solution was delivered with (app/api/routes/aml_solution.py).           *)
(***************************************************************************)
EXTENDS RowRequests

CONSTANTS
    Checklists,  \* the approval questions of an organisation
    Template,    \* the questions of the templates, all of transactions
    Monitors,    \* a monitoring rule, with one payment it is evaluated for
    MaxRuns,     \* bound: evaluations of a rule
    Groups,      \* reporting groups
    Firms,       \* organisations
    Holding,     \* the one that makes the group
    Solutions,   \* solutions, each with its AML program
    Writings       \* what a program says

ASSUME TemplateAssumption == IsFiniteSet(Template)
ASSUME RunsAssumption == MaxRuns \in Nat
ASSUME HoldingAssumption == Holding \in Firms

MAX_APPROVAL_QUESTIONS == 5
MIN_APPROVAL_QUESTIONS == 3

-----------------------------------------------------------------------------
(* Approval questions.  "own" counts the active ones the organisation was     *)
(* given when it was made or wrote.  Of a template's question there is the    *)
(* one with its wording, and one whose wording was edited (bound: one).       *)

Contexts == {"transaction", "customer"}
ChecklistRows ==
    [own      : [Contexts -> 0 .. MAX_APPROVAL_QUESTIONS],
     template : [Template -> {"none", "active", "inactive"}],
     edited   : [Template -> {"none", "active", "inactive"}]]

(* _seed_default_approval_questions fills both contexts. *)
NewChecklist ==
    [own      |-> [c \in Contexts |-> MAX_APPROVAL_QUESTIONS],
     template |-> [t \in Template |-> "none"],
     edited   |-> [t \in Template |-> "none"]]

ActiveIn(r, c) ==
    LET asked(copies) == Cardinality({t \in Template : copies[t] = "active"})
    IN  r.own[c] + IF c = "transaction" THEN asked(r.template) + asked(r.edited) ELSE 0

CreateApprovalQuestion(q, e, c) ==
    /\ ActiveIn(rows[e], c) < MAX_APPROVAL_QUESTIONS
    /\ Handle(q, e, [rows[e] EXCEPT !.own[c] = @ + 1])

UpdateApprovalQuestion(q, e, t) ==
    /\ rows[e].template[t] = "active"
    /\ rows[e].edited[t] = "none"
    /\ Handle(q, e, [rows[e] EXCEPT !.template[t] = "none", !.edited[t] = "active"])

(* The other active questions are counted over both contexts. *)
DeactivateApprovalQuestion(q, e) ==
    /\ ActiveIn(rows[e], "transaction") + ActiveIn(rows[e], "customer") > MIN_APPROVAL_QUESTIONS
    /\ \/ \E c \in Contexts :
            rows[e].own[c] > 0 /\ Handle(q, e, [rows[e] EXCEPT !.own[c] = @ - 1])
       \/ \E copies \in {"template", "edited"}, t \in Template :
            rows[e][copies][t] = "active"
              /\ Handle(q, e, [rows[e] EXCEPT ![copies][t] = "inactive"])

(* A question whose wording is on file, active or not, is left out. *)
SeedQuestionnaire(q, e, templates) ==
    Handle(q, e, [rows[e] EXCEPT !.template =
        [t \in Template |-> IF t \in templates /\ @[t] = "none" THEN "active" ELSE @[t]]])

ChecklistRequest(q, e) ==
    \/ \E c \in Contexts : CreateApprovalQuestion(q, e, c)
    \/ \E t \in Template : UpdateApprovalQuestion(q, e, t)
    \/ DeactivateApprovalQuestion(q, e)
    \/ \E templates \in SUBSET Template : SeedQuestionnaire(q, e, templates)

-----------------------------------------------------------------------------
(* Monitoring rules.  "alert" is that of the payment: whether it is open, and *)
(* how many alerts name the rule.                                             *)

RuleStates == {"active", "inactive", "testing", "archived"}
MonitorRows ==
    [rule  : [status : RuleStates \union {"none", "deleted"}, alerts : Nat],
     log   : [executions : 0 .. MaxRuns],
     alert : [open : BOOLEAN, naming : Nat]]
NewMonitor ==
    [rule  |-> [status |-> "none", alerts |-> 0],
     log   |-> [executions |-> 0],
     alert |-> [open |-> FALSE, naming |-> 0]]

OnRecord(e) == rows[e].rule.status \notin {"none", "deleted"}

CreateMonitor(q, e) ==
    /\ rows[e].rule.status = "none"
    /\ Handle(q, e, [rows[e] EXCEPT !.rule.status = "active"])

SetRuleStatus(q, e, s) == OnRecord(e) /\ Handle(q, e, [rows[e] EXCEPT !.rule.status = s])

(* Every evaluation is logged.  An alert is raised when the rule matches, or  *)
(* something else speaks against the payment, and none is open; the rule      *)
(* counts those that it matched for.                                          *)
RunMonitor(q, e, matched, suspect) ==
    /\ rows[e].rule.status \in {"active", "testing"}
    /\ rows[e].log.executions < MaxRuns
    /\ LET raised == (matched \/ suspect) /\ ~rows[e].alert.open
           more == IF raised /\ matched THEN 1 ELSE 0
       IN  Handle(q, e, [rows[e] EXCEPT !.log.executions = @ + 1,
                                        !.alert.open = @ \/ raised,
                                        !.alert.naming = @ + more,
                                        !.rule.alerts = @ + more])

CloseMonitorAlert(q, e) ==
    rows[e].alert.open /\ Handle(q, e, [rows[e] EXCEPT !.alert.open = FALSE])

(* The log refers to the rule, so that of a rule that ran the delete fails. *)
DeleteMonitor(q, e) ==
    /\ OnRecord(e)
    /\ rows[e].log.executions = 0
    /\ Handle(q, e, [rows[e] EXCEPT !.rule.status = "deleted"])

MonitorRequest(q, e) ==
    \/ CreateMonitor(q, e) \/ DeleteMonitor(q, e) \/ CloseMonitorAlert(q, e)
    \/ \E s \in RuleStates : SetRuleStatus(q, e, s)
    \/ \E matched, suspect \in BOOLEAN : RunMonitor(q, e, matched, suspect)

-----------------------------------------------------------------------------
(* Reporting groups: "active" counts the active memberships of a firm. *)

GroupRows ==
    [group  : [status : {"none", "active", "suspended", "dissolved"}, program : BOOLEAN],
     active : [Firms -> 0 .. 2]]
NewGroup ==
    [group  |-> [status |-> "none", program |-> FALSE],
     active |-> [o \in Firms |-> 0]]

(* _get_group: requests are those of a member, whatever the group's status. *)
InGroup(e, o) == /\ rows[e].group.status # "none"
                 /\ o = Holding \/ rows[e].active[o] > 0

CreateGroup(q, e) ==
    /\ rows[e].group.status = "none"
    /\ Handle(q, e, [rows[e] EXCEPT !.group.status = "active", !.active[Holding] = 1])

UpdateGroup(q, e, s, program) ==
    /\ InGroup(e, Holding)
    /\ Handle(q, e, [rows[e] EXCEPT !.group = [status |-> s, program |-> program]])

AddGroupMember(q, e, by, o) ==
    /\ InGroup(e, by)
    /\ rows[e].active[o] = 0
    /\ Handle(q, e, [rows[e] EXCEPT !.active[o] = @ + 1])

RemoveGroupMember(q, e, by, o) ==
    /\ InGroup(e, by)
    /\ o # Holding
    /\ rows[e].active[o] > 0
    /\ Handle(q, e, [rows[e] EXCEPT !.active[o] = @ - 1])

GroupRequest(q, e) ==
    \/ CreateGroup(q, e)
    \/ \E s \in {"active", "suspended", "dissolved"}, program \in BOOLEAN :
         UpdateGroup(q, e, s, program)
    \/ \E by, o \in Firms : AddGroupMember(q, e, by, o) \/ RemoveGroupMember(q, e, by, o)

-----------------------------------------------------------------------------
(* The program of a solution.  "approved" is what was approved last. *)

SolutionRows ==
    [program  : [status : {"none", "draft", "under_review", "active"}, says : Writings,
                 dated : BOOLEAN],
     approved : [says : Writings \union {"none"}]]
NewSolution ==
    [program  |-> [status |-> "none", says |-> CHOOSE w \in Writings : TRUE, dated |-> FALSE],
     approved |-> [says |-> "none"]]

SeedSolution(q, e, w) ==
    /\ rows[e].program.status = "none"
    /\ Handle(q, e, [rows[e] EXCEPT !.program.status = "draft", !.program.says = w])

UpdateSolution(q, e, w, dated) ==
    /\ rows[e].program.status # "none"
    /\ Handle(q, e, [rows[e] EXCEPT
           !.program.status = IF @ = "active" THEN "under_review" ELSE @,
           !.program.says = w,
           !.program.dated = @ \/ dated])

SubmitSolution(q, e) ==
    /\ rows[e].program.status \in {"draft", "under_review"}
    /\ Handle(q, e, [rows[e] EXCEPT !.program.status = "under_review"])

ApproveSolution(q, e) ==
    /\ rows[e].program.status = "under_review"
    /\ Handle(q, e, [rows[e] EXCEPT !.program.status = "active", !.program.dated = TRUE,
                                    !.approved.says = rows[e].program.says])

SolutionRequest(q, e) ==
    \/ SubmitSolution(q, e) \/ ApproveSolution(q, e)
    \/ \E w \in Writings : SeedSolution(q, e, w) \/ \E dated \in BOOLEAN : UpdateSolution(q, e, w, dated)

-----------------------------------------------------------------------------
(* A checklist never runs out of questions: at least the minimum is active,   *)
(* through edits, deactivations and templates seeded anew.                    *)
QuestionsRemain ==
    \A e \in Checklists \ raced :
        ActiveIn(rows[e], "transaction") + ActiveIn(rows[e], "customer") >= MIN_APPROVAL_QUESTIONS

(* The alerts of a rule and the log of its evaluations keep the rule they are *)
(* of, whose statistics count the alerts that name it.                        *)
LoggedRulesKept ==
    \A e \in Monitors \ raced :
        LET r == rows[e]
        IN  /\ r.log.executions > 0 => OnRecord(e)
            /\ r.rule.alerts = r.alert.naming
            /\ r.alert.naming <= r.log.executions

(* A firm is in a group once, and the holding of a group is always in it. *)
MembersOnce ==
    \A e \in Groups \ raced :
        /\ \A o \in Firms : rows[e].active[o] <= 1
        /\ rows[e].group.status # "none" => rows[e].active[Holding] = 1

(* The program in force is the one that was approved: whoever edits it takes  *)
(* it out of force.                                                           *)
InForceAsApproved ==
    \A e \in Solutions \ raced :
        rows[e].program.status = "active" =>
            rows[e].program.says = rows[e].approved.says /\ rows[e].program.dated

=============================================================================
