--------------------------- MODULE ReportWorkflow ---------------------------
(***************************************************************************)
(* The regulatory reports of app/api/routes/reports.py: IFTI, TTR and SMR  *)
(* reports go from draft to acknowledged, and submitting one adds a row to *)
(* the filing register and to the audit log.                               *)
(*                                                                         *)
(* A request handler loads the report's row (the SELECT of _get_*_or_404), *)
(* checks it in memory and commits the columns it changed.  Nothing locks  *)
(* the row between the two, so a handler is two steps, Begin and Commit,   *)
(* and other handlers may run in between.  A submit handler commits three  *)
(* times: the status, the filing-register row, the audit entry.  A request *)
(* that fails its checks changes nothing and is not modelled as a step.    *)
(***************************************************************************)
EXTENDS Naturals, FiniteSets

CONSTANTS
    Compliance,      \* users that pass require_compliance_or_above
    Mlro,            \* users that pass require_mlro_or_above
    Ifti, Ttr, Smr,  \* the reports of each kind
    Requests,        \* handlers that can be in flight at one time
    Bodies,          \* contents a report can have (all its data columns)
    ValidBodies,     \* contents that pass _validate_ifti / _ttr / _smr
    PatchedColumns,  \* the workflow columns that PATCH bodies mention
    MaxRedrafts,     \* bound on the rejections a report goes through
    None

Reports == Ifti \union Ttr \union Smr

ASSUME RolesAssumption == Mlro \subseteq Compliance
ASSUME ReportsAssumption ==
    /\ Ifti \intersect Ttr = {}
    /\ Ifti \intersect Smr = {}
    /\ Ttr \intersect Smr = {}
ASSUME BodiesAssumption == ValidBodies \subseteq Bodies
ASSUME BoundAssumption == MaxRedrafts \in Nat
ASSUME NoneAssumption == None \notin Compliance \union Bodies

VARIABLES
    row,       \* the report table: a row per generated report
    register,  \* the filing_register table
    audit,     \* "*_submitted" entries of the audit log
    req,       \* what each in-flight handler holds
    approval,  \* history: the body the last approval of a report was given for,
               \* and after how many redrafts
    cycle,     \* history: how often a report was rejected and redrafted
    astray     \* history: what went out of the ordinary on a report

vars == <<row, register, audit, req, approval, cycle, astray>>

-----------------------------------------------------------------------------
Statuses == {"draft", "under_review", "approved", "submitted",
             "acknowledged", "rejected"}

UserOrNone == Compliance \union {None}

(* Who approved is approved_by of an IFTI or TTR.  An SMR has no such column: *)
(* there it is mlro_sign_off.                                                *)
Row == [status : Statuses, reviewed_by : UserOrNone, approver : UserOrNone,
        body : Bodies]

NoRow == [status |-> "none"]

(* The cycle of an entry, how often its report was redrafted before, tells *)
(* the filings of one report apart; the table does not have it.            *)
Entry == [report : Reports, by : Compliance, cycle : Nat]
AuditEntry == [report : Reports, by : Compliance]

Approval == [body : Bodies \union {None}, cycle : Nat]
NoApproval == [body |-> None, cycle |-> 0]

Ops == {"patch", "review", "approve", "submit", "acknowledge", "reject", "redraft"}

(* A submission cut short before its register row; a workflow column that a *)
(* PATCH set.                                                               *)
Deviations == {"cut", "patched"}

Idle == [pc |-> "idle"]
Pending == [pc : {"commit"}, op : Ops, user : Compliance, report : Reports,
            before : Row, after : Row]
Filing == [pc : {"register", "audit"}, user : Compliance, report : Reports]

Init ==
    /\ row = [r \in Reports |-> NoRow]
    /\ register = {}
    /\ audit = {}
    /\ req = [q \in Requests |-> Idle]
    /\ approval = [r \in Reports |-> NoApproval]
    /\ cycle = [r \in Reports |-> 0]
    /\ astray = [r \in Reports |-> {}]

-----------------------------------------------------------------------------
(* A generate endpoint inserts a draft: one statement, one commit. *)
Generate(r) ==
    /\ row[r] = NoRow
    /\ \E b \in Bodies :
          row' = [row EXCEPT ![r] =
                    [status |-> "draft", reviewed_by |-> None,
                     approver |-> None, body |-> b]]
    /\ UNCHANGED <<register, audit, req, approval, cycle, astray>>

GenerateIfti == \E r \in Ifti : Generate(r)
GenerateTtr  == \E r \in Ttr : Generate(r)
GenerateSmr  == \E r \in Smr : Generate(r)

(* The handler of request q has loaded the row of r, its checks passed, and *)
(* it is about to commit the row after.                                     *)
Begin(q, u, r, op, after) ==
    /\ req[q] = Idle
    /\ req' = [req EXCEPT ![q] =
                 [pc |-> "commit", op |-> op, user |-> u, report |-> r,
                  before |-> row[r], after |-> after]]
    /\ UNCHANGED <<row, register, audit, approval, cycle, astray>>

(* Mutant of Editable: an approved report can be edited too. *)
EditableWhenApproved(r) == row[r].status \in {"draft", "under_review", "approved"}

(* _assert_editable *)
Editable(r) == row[r].status \in {"draft", "under_review"}

(* What the loop over the payload of a PATCH can leave in a workflow column:  *)
(* any value of its type.  The approver is in _PROTECTED, these are not.     *)
PatchedTo(r, column, values) ==
    IF column \in PatchedColumns THEN values ELSE {row[r][column]}

Patch(q, u, r) ==
    /\ u \in Compliance
    /\ Editable(r)
    /\ \E s \in PatchedTo(r, "status", Statuses),
          v \in PatchedTo(r, "reviewed_by", UserOrNone),
          b \in Bodies :
            Begin(q, u, r, "patch",
                  [row[r] EXCEPT !.status = s, !.reviewed_by = v, !.body = b])

UpdateIfti(q, u) == \E r \in Ifti : Patch(q, u, r)
UpdateTtr(q, u)  == \E r \in Ttr : Patch(q, u, r)
UpdateSmr(q, u)  == \E r \in Smr : Patch(q, u, r)

Review(q, u, r) ==
    /\ u \in Compliance
    /\ row[r].status = "draft"
    /\ Begin(q, u, r, "review",
             [row[r] EXCEPT !.status = "under_review", !.reviewed_by = u])

ReviewIfti(q, u) == \E r \in Ifti : Review(q, u, r)
ReviewTtr(q, u)  == \E r \in Ttr : Review(q, u, r)
ReviewSmr(q, u)  == \E r \in Smr : Review(q, u, r)

(* Mutant of MakerCheckerPasses: the check is gone. *)
MakerCheckerSkipped(r, u) == TRUE

(* _assert_maker_checker *)
MakerCheckerPasses(r, u) == row[r].reviewed_by = None \/ row[r].reviewed_by # u

(* approved_by, or the sign-off of an SMR *)
Approve(q, u, r) ==
    /\ u \in Mlro
    /\ row[r].status = "under_review"
    /\ MakerCheckerPasses(r, u)
    /\ Begin(q, u, r, "approve",
             [row[r] EXCEPT !.status = "approved", !.approver = u])

ApproveIfti(q, u) == \E r \in Ifti : Approve(q, u, r)
ApproveTtr(q, u)  == \E r \in Ttr : Approve(q, u, r)
MlroSignOffSmr(q, u) == \E r \in Smr : Approve(q, u, r)

(* Mutant of ValidateSmr: the sign-off is not asked for. *)
ValidateSmrUnsigned(r) == row[r].body \in ValidBodies

ValidateIfti(r) == row[r].body \in ValidBodies
ValidateTtr(r)  == row[r].body \in ValidBodies
ValidateSmr(r)  == row[r].body \in ValidBodies /\ row[r].approver # None

Approved(r) == row[r].status = "approved"

Submit(q, u, r) ==
    /\ u \in Mlro
    /\ Begin(q, u, r, "submit", [row[r] EXCEPT !.status = "submitted"])

SubmitIfti(q, u) == \E r \in Ifti : Approved(r) /\ ValidateIfti(r) /\ Submit(q, u, r)
SubmitTtr(q, u)  == \E r \in Ttr : Approved(r) /\ ValidateTtr(r) /\ Submit(q, u, r)
SubmitSmr(q, u)  == \E r \in Smr : Approved(r) /\ ValidateSmr(r) /\ Submit(q, u, r)

(* Mutant of Acknowledge: an approved report can be acknowledged. *)
AcknowledgeApproved(q, u, r) ==
    /\ u \in Compliance
    /\ row[r].status \in {"approved", "submitted"}
    /\ Begin(q, u, r, "acknowledge", [row[r] EXCEPT !.status = "acknowledged"])

Acknowledge(q, u, r) ==
    /\ u \in Compliance
    /\ row[r].status = "submitted"
    /\ Begin(q, u, r, "acknowledge", [row[r] EXCEPT !.status = "acknowledged"])

AcknowledgeIfti(q, u) == \E r \in Ifti : Acknowledge(q, u, r)
AcknowledgeTtr(q, u)  == \E r \in Ttr : Acknowledge(q, u, r)
AcknowledgeSmr(q, u)  == \E r \in Smr : Acknowledge(q, u, r)

(* Mutant of RejectIfti: no 404 for a report that was never generated. *)
RejectIftiUnfound(q, u) ==
    \E r \in Ifti :
       /\ u \in Mlro
       /\ Begin(q, u, r, "reject", [row[r] EXCEPT !.status = "rejected"])

(* Only IFTI reports have a reject endpoint, and it does not look at the status. *)
RejectIfti(q, u) ==
    \E r \in Ifti :
       /\ u \in Mlro
       /\ row[r] # NoRow
       /\ Begin(q, u, r, "reject", [row[r] EXCEPT !.status = "rejected"])

Redraft(q, u, r) ==
    /\ u \in Compliance
    /\ row[r].status = "rejected"
    /\ cycle[r] < MaxRedrafts
    /\ Begin(q, u, r, "redraft",
             [row[r] EXCEPT !.status = "draft", !.approver = None])

RedraftIfti(q, u) == \E r \in Ifti : Redraft(q, u, r)
RedraftTtr(q, u)  == \E r \in Ttr : Redraft(q, u, r)
RedraftSmr(q, u)  == \E r \in Smr : Redraft(q, u, r)

-----------------------------------------------------------------------------
(* The UPDATE of a commit names only the columns whose value the handler    *)
(* changed since it loaded the row.                                         *)
Flush(current, before, after) ==
    [c \in DOMAIN current |-> IF after[c] # before[c] THEN after[c] ELSE current[c]]

(* Mutant of Commit: the handler writes the audit entry before the filing. *)
CommitAuditFirst(q) ==
    LET h == req[q] IN
    /\ h.pc = "commit"
    /\ row' = [row EXCEPT ![h.report] = Flush(@, h.before, h.after)]
    /\ req' = [req EXCEPT ![q] =
                 IF h.op = "submit"
                   THEN [pc |-> "audit", user |-> h.user, report |-> h.report]
                   ELSE Idle]
    /\ UNCHANGED <<register, audit, approval, cycle, astray>>

(* Mutant of Commit: a submission is not registered. *)
CommitUnregistered(q) ==
    LET h == req[q] IN
    /\ h.pc = "commit"
    /\ row' = [row EXCEPT ![h.report] = Flush(@, h.before, h.after)]
    /\ req' = [req EXCEPT ![q] = Idle]
    /\ UNCHANGED <<register, audit, approval, cycle, astray>>

Noted(r, deviation, happens) ==
    astray' = IF happens THEN [astray EXCEPT ![r] = @ \union {deviation}] ELSE astray

(* A PATCH whose body names workflow columns. *)
SetsWorkflow(h) ==
    /\ h.op = "patch"
    /\ \E c \in {"status", "reviewed_by"} : h.after[c] # h.before[c]

Commit(q) ==
    LET h == req[q] IN
    /\ h.pc = "commit"
    /\ row' = [row EXCEPT ![h.report] = Flush(@, h.before, h.after)]
    /\ approval' = IF h.op = "approve"
                     THEN [approval EXCEPT ![h.report] =
                             [body |-> h.before.body, cycle |-> cycle[h.report]]]
                     ELSE approval
    /\ cycle' = IF h.op = "redraft" THEN [cycle EXCEPT ![h.report] = @ + 1] ELSE cycle
    /\ req' = [req EXCEPT ![q] =
                 IF h.op = "submit"
                   THEN [pc |-> "register", user |-> h.user, report |-> h.report]
                   ELSE Idle]
    /\ Noted(h.report, "patched", SetsWorkflow(h))
    /\ UNCHANGED <<register, audit>>

(* Mutant of RegisterSubmission: report_ref is not unique. *)
RegisterAgain(q) ==
    LET h == req[q] IN
    /\ h.pc = "register"
    /\ req' = [req EXCEPT ![q].pc = "audit"]
    /\ register' = register \union
         {[report |-> h.report, by |-> h.user, cycle |-> cycle[h.report]]}
    /\ UNCHANGED <<row, audit, approval, cycle, astray>>

(* report_ref is unique in filing_register: a second row for the same       *)
(* report is refused, and the exception ends the handler.                   *)
RegisterSubmission(q) ==
    LET h == req[q] IN
    /\ h.pc = "register"
    /\ IF \E e \in register : e.report = h.report
         THEN /\ req' = [req EXCEPT ![q] = Idle]
              /\ UNCHANGED register
         ELSE /\ req' = [req EXCEPT ![q].pc = "audit"]
              /\ register' = register \union
                   {[report |-> h.report, by |-> h.user, cycle |-> cycle[h.report]]}
    /\ UNCHANGED <<row, audit, approval, cycle, astray>>

LogAction(q) ==
    LET h == req[q] IN
    /\ h.pc = "audit"
    /\ audit' = audit \union {[report |-> h.report, by |-> h.user]}
    /\ req' = [req EXCEPT ![q] = Idle]
    /\ UNCHANGED <<row, register, approval, cycle, astray>>

(* The worker dies, or the database refuses a statement: what is not yet    *)
(* committed is lost and nothing resumes the handler.                       *)
Abort(q) ==
    /\ req[q] # Idle
    /\ req' = [req EXCEPT ![q] = Idle]
    /\ Noted(req[q].report, "cut", req[q].pc = "register")
    /\ UNCHANGED <<row, register, audit, approval, cycle>>

-----------------------------------------------------------------------------
Start(q, u) ==
    \/ UpdateIfti(q, u) \/ UpdateTtr(q, u) \/ UpdateSmr(q, u)
    \/ ReviewIfti(q, u) \/ ReviewTtr(q, u) \/ ReviewSmr(q, u)
    \/ ApproveIfti(q, u) \/ ApproveTtr(q, u) \/ MlroSignOffSmr(q, u)
    \/ SubmitIfti(q, u) \/ SubmitTtr(q, u) \/ SubmitSmr(q, u)
    \/ AcknowledgeIfti(q, u) \/ AcknowledgeTtr(q, u) \/ AcknowledgeSmr(q, u)
    \/ RejectIfti(q, u)
    \/ RedraftIfti(q, u) \/ RedraftTtr(q, u) \/ RedraftSmr(q, u)

Progress(q) == Commit(q) \/ RegisterSubmission(q) \/ LogAction(q)

Next ==
    \/ GenerateIfti \/ GenerateTtr \/ GenerateSmr
    \/ \E q \in Requests, u \in Compliance : Start(q, u)
    \/ \E q \in Requests : Progress(q) \/ Abort(q)

Spec == Init /\ [][Next]_vars

(* A handler runs to its end, unless it is cut short. *)
FairSpec == Spec /\ \A q \in Requests : WF_vars(Progress(q))

-----------------------------------------------------------------------------
(* Each variable has its type; an in-flight handler is about a report that  *)
(* exists.                                                                  *)
TypeOK ==
    /\ row \in [Reports -> Row \union {NoRow}]
    /\ register \subseteq Entry
    /\ audit \subseteq AuditEntry
    /\ req \in [Requests -> Pending \union Filing \union {Idle}]
    /\ approval \in [Reports -> Approval]
    /\ cycle \in [Reports -> Nat]
    /\ astray \in [Reports -> SUBSET Deviations]
    /\ \A q \in Requests : req[q] # Idle => row[req[q].report] # NoRow

(* A filing has at most one row in the register, however many handlers       *)
(* submit the report at the same time: two rows of one report would be two   *)
(* filings, with a redraft between them.                                    *)
RegisterOnce ==
    \A e, f \in register : e.report = f.report /\ e.cycle = f.cycle => e = f

(* The audit log never claims a submission the register does not hold: the  *)
(* entry's report is registered, by the user the entry names.               *)
AuditedIsRegistered ==
    \A a \in audit : \E e \in register : e.report = a.report /\ e.by = a.by

(* A registered SMR was signed off by an MLRO at some time before, even when *)
(* PATCH bodies set the status and handlers overlap.                         *)
RegisteredSmrWasSignedOff ==
    \A e \in register : e.report \in Smr => approval[e.report].body # None

HasRegisterRow(r) == \E e \in register : e.report = r
InRegistration(r) == \E q \in Requests : req[q].pc = "register" /\ req[q].report = r

(* A submitted or acknowledged report has its row in the filing register,   *)
(* or a submit handler is about to insert it; unless a submission was cut   *)
(* short or a PATCH set the status.                                         *)
SubmittedHasRegisterRow ==
    \A r \in Reports :
       row[r].status \in {"submitted", "acknowledged"} =>
          \/ HasRegisterRow(r)
          \/ InRegistration(r)
          \/ astray[r] # {}

(* The first submission of a report ends with its row in the register, with *)
(* the same exceptions: the handler comes to its second commit.  One after a *)
(* redraft has none: the row of the first holds the unique report_ref, though *)
(* FilingRegisterEntry says "one row per AUSTRAC submission".                *)
SubmissionGetsRegistered ==
    \A r \in Reports :
       row[r].status = "submitted" /\ cycle[r] = 0 ~>
          HasRegisterRow(r) \/ astray[r] # {}

Lodged(r) == row[r].status \in {"approved", "submitted", "acknowledged"}

(* Four eyes: who approved a report, or signed an SMR off, is not who        *)
(* reviewed it, as long as one request comes after the other and no PATCH    *)
(* names a workflow column.                                                 *)
MakerChecker ==
    \A r \in Reports : Lodged(r) =>
       \/ "patched" \in astray[r]
       \/ /\ row[r].reviewed_by # None
          /\ row[r].approver # None
          /\ row[r].reviewed_by # row[r].approver

(* What is submitted is what was approved: the body has not changed since   *)
(* the approval and the report was not redrafted since, under the same      *)
(* conditions.                                                              *)
SubmittedAsApproved ==
    \A r \in Reports : Lodged(r) =>
       \/ "patched" \in astray[r]
       \/ approval[r] = [body |-> row[r].body, cycle |-> cycle[r]]

(* The register and the audit log are a filing ledger. *)
Ledger == INSTANCE FilingLedger WITH
             Filings <- [report : Reports, by : Mlro],
             ledger <- {[report |-> e.report, by |-> e.by] : e \in register},
             log <- audit

(* Every step is a filing, a log entry or no step of the ledger. *)
LedgerRefined == Ledger!Spec

=============================================================================
