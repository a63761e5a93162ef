----------------------------- MODULE Governance -----------------------------
(***************************************************************************)
(* What the board and the MLRO sign: an independent review with its        *)
(* findings, a recommendation and the action that carries it out           *)
(* (app/api/routes/independent_review.py); a board report and its next     *)
(* version, each with a snapshot of the compliance data taken when it was  *)
(* generated and a narrative that the staff writes                         *)
(* (app/api/routes/board_reporting.py); and a policy, its recorded         *)
(* versions and the attestations of the staff                              *)
(* (app/api/routes/governance/policies.py, models/governance.py).          *)
(***************************************************************************)
EXTENDS RowRequests, Naturals

(* Independent reviews *)
CONSTANTS
    Reviews,    \* independent reviews
    Findings,   \* findings of a review
    Reviewers   \* users who complete and verify actions

ReviewTransitions ==
    {<<"planned", "in_progress">>, <<"in_progress", "findings_issued">>,
     <<"findings_issued", "response_due">>, <<"response_due", "completed">>,
     <<"completed", "archived">>}
ReviewStatuses == {"planned", "in_progress", "findings_issued", "response_due", "completed", "archived"}
FindingStatuses == {"open", "response_submitted", "in_remediation", "closed", "accepted_risk"}
RecommendationStatuses == {"open", "accepted", "rejected", "in_progress", "completed"}
ActionStatuses == {"planned", "in_progress", "completed", "verified", "cancelled"}

(* Two risk ratings; a review counts its findings of the high one.  "none" is *)
(* a row that does not exist or a column that is not set.                     *)
ReviewRows ==
    [review  : [status : ReviewStatuses, high : SUBSET Findings, acknowledged : BOOLEAN],
     finding : [Findings -> FindingStatuses \union {"none"}],
     risk    : [Findings -> {"low", "high"}],
     advice  : [status : RecommendationStatuses \union {"none"}],
     action  : [status : ActionStatuses \union {"none"},
                  completed : Reviewers \union {"none"}, verified : Reviewers \union {"none"}]]

NewReview ==
    [review  |-> [status |-> "planned", high |-> {}, acknowledged |-> FALSE],
     finding |-> [f \in Findings |-> "none"],
     risk    |-> [f \in Findings |-> "low"],
     advice  |-> [status |-> "none"],
     action  |-> [status |-> "none", completed |-> "none", verified |-> "none"]]

-----------------------------------------------------------------------------
TransitionReview(q, e, to) ==
    /\ <<rows[e].review.status, to>> \in ReviewTransitions
    /\ Handle(q, e, [rows[e] EXCEPT !.review.status = to])

BoardAcknowledge(q, e) == Handle(q, e, [rows[e] EXCEPT !.review.acknowledged = TRUE])

(* _recount_findings counts the rows that this transaction can see.  The      *)
(* count is kept as the set that was counted.                                 *)
Recounted(r) ==
    [r EXCEPT !.review.high = {f \in Findings : r.finding[f] # "none" /\ r.risk[f] = "high"}]

CreateFinding(q, e, f, risk) ==
    /\ rows[e].review.status # "archived"
    /\ Free(e, "finding", f, "none")
    /\ Handle(q, e, Recounted([rows[e] EXCEPT !.finding[f] = "open", !.risk[f] = risk]))

Settled == {"closed", "accepted_risk"}

UpdateFinding(q, e, f, risk) ==
    /\ rows[e].finding[f] \notin Settled \union {"none"}
    /\ risk # rows[e].risk[f]
    /\ Handle(q, e, Recounted([rows[e] EXCEPT !.risk[f] = risk]))

SetFinding(q, e, f, from, to) ==
    /\ rows[e].finding[f] \in from
    /\ Handle(q, e, [rows[e] EXCEPT !.finding[f] = to])

SubmitFindingResponse(q, e, f) == SetFinding(q, e, f, {"open"}, "response_submitted")
StartFindingRemediation(q, e, f) == SetFinding(q, e, f, {"response_submitted"}, "in_remediation")
CloseFinding(q, e, f) == SetFinding(q, e, f, {"response_submitted", "in_remediation"}, "closed")
AcceptFindingRisk(q, e, f) == SetFinding(q, e, f, FindingStatuses \ Settled, "accepted_risk")

CreateRecommendation(q, e, f) ==
    /\ rows[e].finding[f] \notin Settled \union {"none"}
    /\ Free(e, "advice", "status", "none")
    /\ Handle(q, e, [rows[e] EXCEPT !.advice.status = "open"])

SetAdvice(q, e, from, to) ==
    /\ rows[e].advice.status \in from
    /\ Handle(q, e, [rows[e] EXCEPT !.advice.status = to])

AcceptRecommendation(q, e) == SetAdvice(q, e, {"open"}, "accepted")
RejectRecommendation(q, e) == SetAdvice(q, e, {"open", "accepted"}, "rejected")
CompleteRecommendation(q, e) == SetAdvice(q, e, {"accepted", "in_progress"}, "completed")

CreateAction(q, e) ==
    /\ rows[e].advice.status \notin {"rejected", "none"}
    /\ Free(e, "action", "status", "none")
    /\ Handle(q, e, [rows[e] EXCEPT !.action.status = "planned",
            !.advice.status = IF @ = "accepted" THEN "in_progress" ELSE @])

StartAction(q, e) ==
    /\ rows[e].action.status = "planned"
    /\ Handle(q, e, [rows[e] EXCEPT !.action.status = "in_progress"])

CompleteAction(q, e, by) ==
    /\ rows[e].action.status \in {"planned", "in_progress"}
    /\ Handle(q, e, [rows[e] EXCEPT !.action.status = "completed", !.action.completed = by])

VerifyAction(q, e, by) ==
    /\ rows[e].action.status = "completed"
    /\ rows[e].action.completed # by
    /\ Handle(q, e, [rows[e] EXCEPT !.action.status = "verified", !.action.verified = by])

CancelAction(q, e) ==
    /\ rows[e].action.status \in {"planned", "in_progress", "completed"}
    /\ Handle(q, e, [rows[e] EXCEPT !.action.status = "cancelled"])

ReviewRequest(q, e) ==
    \/ \E to \in ReviewStatuses : TransitionReview(q, e, to)
    \/ BoardAcknowledge(q, e)
    \/ \E f \in Findings, risk \in {"low", "high"} :
         CreateFinding(q, e, f, risk) \/ UpdateFinding(q, e, f, risk)
    \/ \E f \in Findings :
         \/ SubmitFindingResponse(q, e, f) \/ StartFindingRemediation(q, e, f)
         \/ CloseFinding(q, e, f) \/ AcceptFindingRisk(q, e, f) \/ CreateRecommendation(q, e, f)
    \/ AcceptRecommendation(q, e) \/ RejectRecommendation(q, e) \/ CompleteRecommendation(q, e)
    \/ CreateAction(q, e) \/ StartAction(q, e) \/ CancelAction(q, e)
    \/ \E by \in Reviewers : CompleteAction(q, e, by) \/ VerifyAction(q, e, by)

-----------------------------------------------------------------------------
(* Board reports *)
CONSTANTS
    Boards,  \* report and revisions
    Data     \* states the compliance data can be found in

BoardStatuses == {"draft", "under_review", "approved", "distributed", "archived"}
Editions == {"original", "revision"}
Narratives == {"blank", "first", "second"}

BoardRow == [status : BoardStatuses \union {"none"}, snapshot : Data \union {"none"},
             text : Narratives]
BoardRows == [original : BoardRow, revision : BoardRow,
              signed : [Editions -> {<<>>} \union ((Data \union {"none"}) \X Narratives)]]

NewBoard ==
    LET none == [status |-> "none", snapshot |-> "none", text |-> "blank"]
    IN  [original |-> none, revision |-> none, signed |-> [v \in Editions |-> <<>>]]

CreateBoardReport(q, e, data) ==
    /\ Free(e, "original", "status", "none")
    /\ Handle(q, e, [rows[e] EXCEPT
            !.original = [status |-> "draft", snapshot |-> data, text |-> "blank"]])

(* From a report of any status; the narrative is copied. *)
CreateNewVersion(q, e, data) ==
    /\ rows[e].original.status # "none"
    /\ Free(e, "revision", "status", "none")
    /\ Handle(q, e, [rows[e] EXCEPT !.revision =
            [status |-> "draft", snapshot |-> data, text |-> rows[e].original.text]])

RegenerateSnapshot(q, e, v, data) ==
    /\ rows[e][v].status = "draft"
    /\ Handle(q, e, [rows[e] EXCEPT ![v].snapshot = data])

UpdateBoardReport(q, e, v, text) ==
    /\ rows[e][v].status \in {"draft", "under_review"}
    /\ Handle(q, e, [rows[e] EXCEPT ![v].text = text])

SetBoardStatus(q, e, v, from, to) ==
    /\ rows[e][v].status = from
    /\ Handle(q, e, [rows[e] EXCEPT ![v].status = to])

SubmitBoardReport(q, e, v) == SetBoardStatus(q, e, v, "draft", "under_review")
ReturnToDraft(q, e, v) == SetBoardStatus(q, e, v, "under_review", "draft")
DistributeReport(q, e, v) == SetBoardStatus(q, e, v, "approved", "distributed")
ArchiveReport(q, e, v) == SetBoardStatus(q, e, v, "distributed", "archived")

(* "signed" is history: what the MLRO had before him. *)
ApproveBoardReport(q, e, v) ==
    /\ rows[e][v].status = "under_review"
    /\ Handle(q, e, [rows[e] EXCEPT ![v].status = "approved",
                        !.signed[v] = <<rows[e][v].snapshot, rows[e][v].text>>])

BoardRequest(q, e) ==
    \/ \E data \in Data : CreateBoardReport(q, e, data) \/ CreateNewVersion(q, e, data)
    \/ \E v \in Editions :
         \/ \E data \in Data : RegenerateSnapshot(q, e, v, data)
         \/ \E text \in Narratives \ {"blank"} : UpdateBoardReport(q, e, v, text)
         \/ SubmitBoardReport(q, e, v) \/ ReturnToDraft(q, e, v) \/ ApproveBoardReport(q, e, v)
         \/ DistributeReport(q, e, v) \/ ArchiveReport(q, e, v)

-----------------------------------------------------------------------------
(* Policies *)
CONSTANTS
    PolicyIds,   \* policies
    Staff,       \* users who attest
    MaxPublished \* bound on the minor version

ASSUME PublishedAssumption == MaxPublished \in Nat

AllowedTransitions ==
    {<<"draft", "internal_review">>, <<"draft", "archived">>,
     <<"internal_review", "compliance_review">>, <<"internal_review", "draft">>,
     <<"compliance_review", "pending_approval">>, <<"compliance_review", "internal_review">>,
     <<"pending_approval", "published">>, <<"pending_approval", "compliance_review">>,
     <<"superseded", "archived">>}
    \union {"published"} \X {"periodic_review", "superseded", "archived"}
    \union {"periodic_review"} \X {"internal_review", "published", "superseded", "archived"}

PolicyStatuses == {t[1] : t \in AllowedTransitions} \union {"archived"}

Contents == {"old", "new"}
Minors == 0 .. MaxPublished
Slots == 1 .. MaxPublished  \* of the version rows of a policy

PolicyRows ==
    [policy   : [status : PolicyStatuses \union {"none"}, minor : Minors, content : Contents],
     versions : [Slots -> {<<>>} \union (Minors \X Contents)],
     attested : [Staff \X Minors -> BOOLEAN]]

NewPolicy ==
    [policy   |-> [status |-> "none", minor |-> 0, content |-> "old"],
     versions |-> [s \in Slots |-> <<>>],
     attested |-> [x \in Staff \X Minors |-> FALSE]]

CreatePolicy(q, e) ==
    /\ Free(e, "policy", "status", "none")
    /\ Handle(q, e, [rows[e] EXCEPT !.policy.status = "draft"])

(* Also while it is being approved, and after it was published. *)
UpdatePolicy(q, e, content) ==
    /\ rows[e].policy.status \notin {"none", "archived"}
    /\ Handle(q, e, [rows[e] EXCEPT !.policy.content = content])

(* submit_for_review, submit_for_compliance, submit_for_approval,            *)
(* request_changes, trigger_periodic_review, supersede and archive.          *)
WorkflowAction(q, e, to) ==
    /\ <<rows[e].policy.status, to>> \in AllowedTransitions
    /\ to \notin {"published", "draft"}
    /\ Handle(q, e, [rows[e] EXCEPT !.policy.status = to])

(* The new minor version is recorded with its content. *)
Publish(q, e, s) ==
    /\ <<rows[e].policy.status, "published">> \in AllowedTransitions
    /\ rows[e].policy.minor < MaxPublished
    /\ Free(e, "versions", s, <<>>)
    /\ LET was == rows[e].policy IN
         Handle(q, e, [rows[e] EXCEPT !.policy.status = "published", !.policy.minor = was.minor + 1,
                                      !.versions[s] = <<was.minor + 1, was.content>>])

AttestPolicy(q, e, u) ==
    /\ rows[e].policy.status = "published"
    /\ ~rows[e].attested[<<u, rows[e].policy.minor>>]
    /\ Handle(q, e, [rows[e] EXCEPT !.attested[<<u, rows[e].policy.minor>>] = TRUE])

PolicyRequest(q, e) ==
    \/ CreatePolicy(q, e)
    \/ \E content \in Contents : UpdatePolicy(q, e, content)
    \/ \E to \in PolicyStatuses : WorkflowAction(q, e, to)
    \/ \E s \in Slots : Publish(q, e, s)
    \/ \E u \in Staff : AttestPolicy(q, e, u)

-----------------------------------------------------------------------------
(* A review's count of high findings is the number of its findings that are   *)
(* rated high: what the board reads is recounted whenever it changes.         *)
FindingsCounted ==
    \A e \in Reviews \ raced :
        rows[e].review.high = {f \in Findings : /\ rows[e].finding[f] # "none"
                                               /\ rows[e].risk[f] = "high"}

(* Four eyes: nobody verifies an action that he completed himself, so the two *)
(* names on a verified action differ.                                         *)
FourEyes ==
    \A e \in Reviews \ raced :
        rows[e].action.verified # "none" => rows[e].action.verified # rows[e].action.completed

(* What reaches the board is what the MLRO approved: the figures and the      *)
(* narrative of a distributed report are those of its approval, whatever      *)
(* returns to draft, regenerations and new versions came before.              *)
DistributedAsSigned ==
    \A e \in Boards \ raced, v \in Editions :
        rows[e][v].status \in {"approved", "distributed", "archived"}
          => rows[e].signed[v] = <<rows[e][v].snapshot, rows[e][v].text>>

(* Every version that somebody attested to is on record in the version        *)
(* history, even when publications, edits and attestations overlap.           *)
AttestedOnRecord ==
    \A e \in PolicyIds, u \in Staff, m \in Minors :
        rows[e].attested[<<u, m>>]
          => \E s \in Slots, c \in Contents : rows[e].versions[s] = <<m, c>>

=============================================================================
