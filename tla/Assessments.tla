----------------------------- MODULE Assessments -----------------------------
(***************************************************************************)
(* A professional services assessment with its sections and its judgment   *)
(* checklist (app/api/routes/professional_assessment.py and                *)
(* app/services/professional_assessment_service.py).                       *)
(***************************************************************************)
EXTENDS RowRequests

CONSTANTS
    Matters,  \* assessments
    Items     \* items of the checklist template

AssessmentStatuses == {"draft", "in_progress", "completed", "escalated"}
Sections5 == {"sof", "sow", "purpose", "tax", "investment"}

(* checklist.counted are the items that the last submission counted as        *)
(* checked; checked_items is their number, and is_complete says that they are *)
(* all items.                                                                 *)
AssessmentRows ==
    [assessment : [status : AssessmentStatuses \union {"none"}, rating : {"none", "low", "high"}],
     sections   : [Sections5 -> {"none", "poor", "good"}],
     checklist  : [exists : BOOLEAN, counted : SUBSET Items, stamped : BOOLEAN],
     items      : [Items -> BOOLEAN]]

NewAssessment ==
    [assessment |-> [status |-> "none", rating |-> "none"],
     sections   |-> [s \in Sections5 |-> "none"],
     checklist  |-> [exists |-> FALSE, counted |-> {}, stamped |-> FALSE],
     items      |-> [i \in Items |-> FALSE]]

CreateAssessment(q, e) ==
    /\ Free(e, "assessment", "status", "none")
    /\ Handle(q, e, [rows[e] EXCEPT !.assessment.status = "draft"])

UpdateAssessment(q, e, rating) ==
    /\ rows[e].assessment.status \in {"draft", "in_progress", "escalated"}
    /\ Handle(q, e, [rows[e] EXCEPT !.assessment.rating = rating])

CompleteAssessment(q, e, rating) ==
    /\ rows[e].assessment.status \in {"draft", "in_progress", "escalated"}
    /\ Handle(q, e, [rows[e] EXCEPT !.assessment = [status |-> "completed", rating |-> rating]])

EscalateAssessment(q, e) ==
    /\ rows[e].assessment.status # "none"
    /\ Handle(q, e, [rows[e] EXCEPT !.assessment.status = "escalated"])

(* The first section or answer takes the assessment out of draft. *)
Touched(r) == [r EXCEPT !.assessment.status = IF @ = "draft" THEN "in_progress" ELSE @]

(* Sections are written at any time, also when the assessment is completed. *)
Upsert(q, e, s, v) ==
    /\ rows[e].assessment.status # "none"
    /\ Handle(q, e, Touched([rows[e] EXCEPT !.sections[s] = v]))

UpsertSof(q, e, v) == Upsert(q, e, "sof", v)
UpsertSow(q, e, v) == Upsert(q, e, "sow", v)
UpsertPurpose(q, e, v) == Upsert(q, e, "purpose", v)
UpsertTaxRisk(q, e, v) == Upsert(q, e, "tax", v)
UpsertInvestment(q, e, v) == Upsert(q, e, "investment", v)

(* The first submission inserts the items.  A later one changes the items of  *)
(* the list that was loaded in place and assigns a list of the same items:    *)
(* old and new value are equal, and the UPDATE leaves the column out.  The    *)
(* count is made of the changed items.                                        *)
SubmitChecklist(q, e, answers) ==
    LET r == rows[e]
        merged == [i \in Items |-> IF i \in DOMAIN answers THEN answers[i] ELSE r.items[i]]
        checked == {i \in Items : merged[i]}
    IN  /\ r.assessment.status # "none"
        /\ Handle(q, e, Touched([r EXCEPT
                !.checklist = [exists |-> TRUE, counted |-> checked,
                               stamped |-> @.stamped \/ checked = Items],
                !.items = IF r.checklist.exists THEN @ ELSE merged]))

AssessmentRequest(q, e) ==
    \/ CreateAssessment(q, e) \/ EscalateAssessment(q, e)
    \/ \E rating \in {"low", "high"} : UpdateAssessment(q, e, rating) \/ CompleteAssessment(q, e, rating)
    \/ \E v \in {"poor", "good"} :
         \/ UpsertSof(q, e, v) \/ UpsertSow(q, e, v) \/ UpsertPurpose(q, e, v)
         \/ UpsertTaxRisk(q, e, v) \/ UpsertInvestment(q, e, v)
    \/ \E some \in SUBSET Items, v \in BOOLEAN : SubmitChecklist(q, e, [i \in some |-> v])

-----------------------------------------------------------------------------
(* A completed assessment is left only by escalation: no section, answer or   *)
(* update reopens it.                                                         *)
CompletedStands ==
    [][\A e \in Matters :
         rows[e].assessment.status = "completed"
           => rows'[e].assessment.status \in {"completed", "escalated"}]_rows

=============================================================================
