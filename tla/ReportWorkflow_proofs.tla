----------------------- MODULE ReportWorkflow_proofs -----------------------
(***************************************************************************)
(* Theorems about ReportWorkflow, for any number of users, reports and     *)
(* handlers.                                                               *)
(*                                                                         *)
(* Every handler begins in the same way: it holds the row it loaded and    *)
(* the row it will commit.  StartBegins says this once, with what the      *)
(* checks of the handlers establish; the theorems then look at the four    *)
(* steps that change tables, not at twenty endpoints.                      *)
(***************************************************************************)
EXTENDS ReportWorkflow, TLAPS

NotIssued == {"draft", "under_review", "approved", "rejected"}

(* A row that went through the workflow, given its last approval and how    *)
(* often it was redrafted.                                                 *)
Proper(x, approved, redrafts) ==
    /\ x.status = "under_review" => x.reviewed_by # None
    /\ x.status \in {"approved", "submitted", "acknowledged"} =>
          /\ x.reviewed_by # None
          /\ x.approver # None
          /\ x.reviewed_by # x.approver
          /\ approved = [body |-> x.body, cycle |-> redrafts]

Writes(op, before, after) ==
    op = "patch" /\ \E c \in {"status", "reviewed_by"} : after[c] # before[c]

ApprovalAfter(op, before, a, c) ==
    IF op = "approve" THEN [body |-> before.body, cycle |-> c] ELSE a

(* A handler that does not write workflow columns keeps rows proper. *)
Orderly(op, before, after) ==
    \/ Writes(op, before, after)
    \/ \A a, c : Proper(before, a, c) =>
          Proper(after, ApprovalAfter(op, before, a, c), IF op = "redraft" THEN c + 1 ELSE c)

(* What a handler that begins has loaded, and what it will commit. *)
Loaded(q, u, r, op, after) ==
    /\ Begin(q, u, r, op, after)
    /\ r \in Reports
    /\ op \in Ops
    /\ row[r] \in Row
    /\ after \in Row
    /\ op = "submit" => u \in Mlro /\ (r \in Smr => row[r].approver # None)
    /\ after.approver # None => op = "approve" \/ row[r].approver # None
    /\ after.status \notin NotIssued =>
          op \in {"submit", "patch"} \/ row[r].status \notin NotIssued
    /\ Orderly(op, row[r], after)

-----------------------------------------------------------------------------
(* A report that has been generated has a row of the table. *)
LEMMA RowOfReport ==
    ASSUME TypeOK, NEW r \in Reports, row[r] # NoRow
    PROVE  row[r] \in Row
  BY DEF TypeOK

(* "none" is no status of a row. *)
LEMMA RowHasStatus ==
    ASSUME TypeOK, NEW r \in Reports, row[r].status \in Statuses
    PROVE  row[r] \in Row
  <1>1. NoRow.status \notin Statuses
    BY DEF NoRow, Statuses
  <1>. QED
    BY <1>1 DEF TypeOK

LEMMA IdlePc == Idle.pc = "idle"
  BY DEF Idle

LEMMA NoRowIsNotRow == NoRow \notin Row
  BY DEF NoRow, Row, Statuses

(* Committing a handler's columns into a row gives a row. *)
LEMMA FlushedIsRow ==
    ASSUME NEW current \in Row, NEW before \in Row, NEW after \in Row
    PROVE  Flush(current, before, after) \in Row
  BY DEF Flush, Row

(* Begin with what a handler of one kind has established. *)
LEMMA PatchBegins ==
    ASSUME TypeOK, NEW q \in Requests, NEW u \in Compliance, NEW r \in Reports,
           Patch(q, u, r)
    PROVE  \E op, after : Loaded(q, u, r, op, after)
  <1>1. PICK s \in PatchedTo(r, "status", Statuses),
             v \in PatchedTo(r, "reviewed_by", UserOrNone),
             b \in Bodies :
               Begin(q, u, r, "patch",
                     [row[r] EXCEPT !.status = s, !.reviewed_by = v, !.body = b])
    BY DEF Patch
  <1>. DEFINE after == [row[r] EXCEPT !.status = s, !.reviewed_by = v, !.body = b]
  <1>2. row[r] \in Row
    BY RowHasStatus DEF Patch, Editable, Statuses
  <1>3. s \in Statuses /\ v \in UserOrNone
    BY <1>2 DEF Row, PatchedTo
  <1>5. after \in Row /\ after.approver = row[r].approver /\ after.status = s
    BY <1>2, <1>3 DEF Row
  <1>6. Orderly("patch", row[r], after)
    <2>1. CASE \E c \in {"status", "reviewed_by"} : after[c] # row[r][c]
      BY <2>1 DEF Orderly, Writes
    <2>2. CASE ~ \E c \in {"status", "reviewed_by"} : after[c] # row[r][c]
      <3>1. after.status = row[r].status /\ after.reviewed_by = row[r].reviewed_by
        BY <2>2
      <3>2. row[r].status \in {"draft", "under_review"}
        BY DEF Patch, Editable
      <3>. QED
        BY <3>1, <3>2 DEF Orderly, Proper, ApprovalAfter
    <2>. QED
      BY <2>1, <2>2
  <1>7. Loaded(q, u, r, "patch", after)
    BY <1>1, <1>2, <1>5, <1>6 DEF Loaded, Ops
  <1>. QED
    BY <1>7

LEMMA ReviewBegins ==
    ASSUME TypeOK, NEW q \in Requests, NEW u \in Compliance, NEW r \in Reports,
           Review(q, u, r)
    PROVE  \E op, after : Loaded(q, u, r, op, after)
  <1>. DEFINE after == [row[r] EXCEPT !.status = "under_review", !.reviewed_by = u]
  <1>1. row[r] \in Row
    BY RowHasStatus DEF Review, Statuses
  <1>2. Begin(q, u, r, "review", after)
    BY DEF Review
  <1>3. after \in Row /\ after.approver = row[r].approver
                      /\ after.status \in NotIssued
    BY <1>1 DEF Row, Statuses, UserOrNone, NotIssued
  <1>4. Orderly("review", row[r], after)
    BY <1>1, NoneAssumption DEF Orderly, Proper, ApprovalAfter, Row
  <1>5. Loaded(q, u, r, "review", after)
    BY <1>1, <1>2, <1>3, <1>4 DEF Loaded, Ops
  <1>. QED
    BY <1>5

LEMMA ApproveBegins ==
    ASSUME TypeOK, NEW q \in Requests, NEW u \in Compliance, NEW r \in Reports,
           Approve(q, u, r)
    PROVE  \E op, after : Loaded(q, u, r, op, after)
  <1>. DEFINE after == [row[r] EXCEPT !.status = "approved", !.approver = u]
  <1>1. row[r] \in Row
    BY RowHasStatus DEF Approve, Statuses
  <1>2. Begin(q, u, r, "approve", after)
    BY DEF Approve
  <1>3. after \in Row /\ after.status \in NotIssued
    BY <1>1 DEF Row, Statuses, UserOrNone, NotIssued
  <1>4. Orderly("approve", row[r], after)
    <2>1. /\ row[r].status = "under_review"
          /\ row[r].reviewed_by # None => row[r].reviewed_by # u
      BY DEF Approve, MakerCheckerPasses
    <2>. QED
      BY <1>1, <2>1, NoneAssumption DEF Orderly, Proper, ApprovalAfter, Row
  <1>5. Loaded(q, u, r, "approve", after)
    BY <1>1, <1>2, <1>3, <1>4 DEF Loaded, Ops
  <1>. QED
    BY <1>5

LEMMA SubmitBegins ==
    ASSUME TypeOK, NEW q \in Requests, NEW u \in Compliance, NEW r \in Reports,
           Approved(r), Submit(q, u, r), r \in Smr => ValidateSmr(r)
    PROVE  \E op, after : Loaded(q, u, r, op, after)
  <1>. DEFINE after == [row[r] EXCEPT !.status = "submitted"]
  <1>1. row[r] \in Row
    BY RowHasStatus DEF Approved, Statuses
  <1>2. Begin(q, u, r, "submit", after) /\ u \in Mlro
    BY DEF Submit
  <1>3. after \in Row /\ after.approver = row[r].approver
    BY <1>1 DEF Row, Statuses
  <1>4. Orderly("submit", row[r], after)
    BY <1>1 DEF Orderly, Proper, ApprovalAfter, Row, Approved
  <1>5. Loaded(q, u, r, "submit", after)
    BY <1>1, <1>2, <1>3, <1>4 DEF Loaded, Ops, ValidateSmr
  <1>. QED
    BY <1>5

LEMMA AcknowledgeBegins ==
    ASSUME TypeOK, NEW q \in Requests, NEW u \in Compliance, NEW r \in Reports,
           Acknowledge(q, u, r)
    PROVE  \E op, after : Loaded(q, u, r, op, after)
  <1>. DEFINE after == [row[r] EXCEPT !.status = "acknowledged"]
  <1>1. row[r] \in Row
    BY RowHasStatus DEF Acknowledge, Statuses
  <1>2. Begin(q, u, r, "acknowledge", after) /\ row[r].status \notin NotIssued
    BY DEF Acknowledge, NotIssued
  <1>3. after \in Row /\ after.approver = row[r].approver
    BY <1>1 DEF Row, Statuses
  <1>4. Orderly("acknowledge", row[r], after)
    BY <1>1 DEF Orderly, Proper, ApprovalAfter, Row, Acknowledge
  <1>5. Loaded(q, u, r, "acknowledge", after)
    BY <1>1, <1>2, <1>3, <1>4 DEF Loaded, Ops
  <1>. QED
    BY <1>5

LEMMA RejectBegins ==
    ASSUME TypeOK, NEW q \in Requests, NEW u \in Compliance, RejectIfti(q, u)
    PROVE  \E r, op, after : Loaded(q, u, r, op, after)
  <1>1. PICK r \in Ifti : /\ row[r] # NoRow
                         /\ Begin(q, u, r, "reject", [row[r] EXCEPT !.status = "rejected"])
    BY DEF RejectIfti
  <1>. DEFINE after == [row[r] EXCEPT !.status = "rejected"]
  <1>2. r \in Reports
    BY DEF Reports
  <1>3. row[r] \in Row
    BY <1>1, <1>2, RowOfReport
  <1>4. after \in Row /\ after.approver = row[r].approver
                      /\ after.status \in NotIssued
    BY <1>3 DEF Row, Statuses, NotIssued
  <1>5. Orderly("reject", row[r], after)
    BY <1>3 DEF Orderly, Proper, ApprovalAfter, Row
  <1>6. Loaded(q, u, r, "reject", after)
    BY <1>1, <1>2, <1>3, <1>4, <1>5 DEF Loaded, Ops
  <1>. QED
    BY <1>6

LEMMA RedraftBegins ==
    ASSUME TypeOK, NEW q \in Requests, NEW u \in Compliance, NEW r \in Reports,
           Redraft(q, u, r)
    PROVE  \E op, after : Loaded(q, u, r, op, after)
  <1>. DEFINE after == [row[r] EXCEPT !.status = "draft", !.approver = None]
  <1>1. row[r] \in Row
    BY RowHasStatus DEF Redraft, Statuses
  <1>2. Begin(q, u, r, "redraft", after)
    BY DEF Redraft
  <1>3. /\ after \in Row
        /\ after.approver = None
        /\ after.status \in NotIssued
    BY <1>1 DEF Row, Statuses, UserOrNone, NotIssued
  <1>4. Orderly("redraft", row[r], after)
    BY <1>1 DEF Orderly, Proper, ApprovalAfter, Row
  <1>5. Loaded(q, u, r, "redraft", after)
    BY <1>1, <1>2, <1>3, <1>4 DEF Loaded, Ops
  <1>. QED
    BY <1>5

(* Whatever endpoint is called, its handler begins as Loaded says. *)
LEMMA StartBegins ==
    ASSUME TypeOK, NEW q \in Requests, NEW u \in Compliance, Start(q, u)
    PROVE  \E r, op, after : Loaded(q, u, r, op, after)
  <1>1. CASE UpdateIfti(q, u) \/ UpdateTtr(q, u) \/ UpdateSmr(q, u)
    BY <1>1, PatchBegins DEF UpdateIfti, UpdateTtr, UpdateSmr, Reports
  <1>2. CASE ReviewIfti(q, u) \/ ReviewTtr(q, u) \/ ReviewSmr(q, u)
    BY <1>2, ReviewBegins DEF ReviewIfti, ReviewTtr, ReviewSmr, Reports
  <1>3. CASE ApproveIfti(q, u) \/ ApproveTtr(q, u) \/ MlroSignOffSmr(q, u)
    BY <1>3, ApproveBegins DEF ApproveIfti, ApproveTtr, MlroSignOffSmr, Reports
  <1>5. CASE SubmitIfti(q, u) \/ SubmitTtr(q, u) \/ SubmitSmr(q, u)
    BY <1>5, SubmitBegins, ReportsAssumption DEF SubmitIfti, SubmitTtr, SubmitSmr, Reports
  <1>6. CASE AcknowledgeIfti(q, u) \/ AcknowledgeTtr(q, u) \/ AcknowledgeSmr(q, u)
    BY <1>6, AcknowledgeBegins DEF AcknowledgeIfti, AcknowledgeTtr, AcknowledgeSmr, Reports
  <1>7. CASE RejectIfti(q, u)
    BY <1>7, RejectBegins
  <1>8. CASE RedraftIfti(q, u) \/ RedraftTtr(q, u) \/ RedraftSmr(q, u)
    BY <1>8, RedraftBegins DEF RedraftIfti, RedraftTtr, RedraftSmr, Reports
  <1>. QED
    BY <1>1, <1>2, <1>3, <1>5, <1>6, <1>7, <1>8 DEF Start

(* A step of the system, by what it does to the tables. *)
LEMMA StepCases ==
    ASSUME TypeOK, Next
    PROVE  \/ \E r \in Reports : Generate(r)
           \/ \E q \in Requests, u \in Compliance : \E r, op, after : Loaded(q, u, r, op, after)
           \/ \E q \in Requests : Commit(q)
           \/ \E q \in Requests : RegisterSubmission(q)
           \/ \E q \in Requests : LogAction(q)
           \/ \E q \in Requests : Abort(q)
  <1>1. CASE GenerateIfti \/ GenerateTtr \/ GenerateSmr
    BY <1>1 DEF GenerateIfti, GenerateTtr, GenerateSmr, Reports
  <1>2. CASE \E q \in Requests, u \in Compliance : Start(q, u)
    BY <1>2, StartBegins
  <1>3. CASE \E q \in Requests : Progress(q) \/ Abort(q)
    BY <1>3 DEF Progress
  <1>. QED
    BY <1>1, <1>2, <1>3 DEF Next

-----------------------------------------------------------------------------
(* What a handler holds, by where it is. *)
LEMMA Holding ==
    ASSUME TypeOK, NEW q \in Requests
    PROVE  /\ req[q].pc = "commit" => req[q] \in Pending
           /\ req[q].pc \in {"register", "audit"} => req[q] \in Filing
           /\ req[q].pc = "idle" <=> req[q] = Idle
  BY DEF TypeOK, Pending, Filing, Idle

LEMMA GenerateTypeOK ==
    ASSUME TypeOK, NEW r \in Reports, Generate(r)
    PROVE  TypeOK'
  <1>1. PICK b \in Bodies :
          row' = [row EXCEPT ![r] =
                    [status |-> "draft", reviewed_by |-> None,
                     approver |-> None, body |-> b]]
    BY DEF Generate
  <1>2. [status |-> "draft", reviewed_by |-> None, approver |-> None, body |-> b] \in Row
    BY DEF Row, Statuses, UserOrNone
  <1>. QED
    BY <1>1, <1>2, NoRowIsNotRow DEF TypeOK, Generate

LEMMA BeginTypeOK ==
    ASSUME TypeOK, NEW q \in Requests, NEW u \in Compliance,
           NEW r, NEW op, NEW after, Loaded(q, u, r, op, after)
    PROVE  TypeOK'
  <1>1. [pc |-> "commit", op |-> op, user |-> u, report |-> r,
         before |-> row[r], after |-> after] \in Pending
    BY DEF Loaded, Pending
  <1>. QED
    BY <1>1, NoRowIsNotRow DEF Loaded, Begin, TypeOK

LEMMA CommitTypeOK ==
    ASSUME TypeOK, NEW q \in Requests, Commit(q)
    PROVE  TypeOK'
  <1>. DEFINE h == req[q]
              new == Flush(row[h.report], h.before, h.after)
              next == IF h.op = "submit"
                        THEN [pc |-> "register", user |-> h.user, report |-> h.report]
                        ELSE Idle
  <1>1. h \in Pending /\ h # Idle
    BY Holding DEF Commit, Idle
  <1>2. h.report \in Reports /\ h.user \in Compliance /\ h.before \in Row /\ h.after \in Row
    BY <1>1 DEF Pending
  <1>3. row[h.report] \in Row
    BY <1>1, <1>2 DEF TypeOK
  <1>4. new \in Row
    BY <1>2, <1>3, FlushedIsRow
  <1>5. row' = [row EXCEPT ![h.report] = new]
    BY DEF Commit
  <1>6. row' \in [Reports -> Row \union {NoRow}]
    BY <1>4, <1>5 DEF TypeOK
  <1>7. next \in Filing \union {Idle} /\ (next # Idle => next.report = h.report)
    BY <1>2 DEF Filing
  <1>8. req' = [req EXCEPT ![q] = next]
    BY DEF Commit
  <1>9. approval' \in [Reports -> Approval]
    <2>1. [body |-> h.before.body, cycle |-> cycle[h.report]] \in Approval
      BY <1>2 DEF Row, Approval, TypeOK
    <2>. QED
      BY <2>1, <1>2 DEF Commit, TypeOK
  <1>10. cycle' \in [Reports -> Nat]
    BY <1>2 DEF Commit, TypeOK
  <1>11. \A p \in Requests : req'[p] # Idle => row'[req'[p].report] # NoRow
    <2>. TAKE p \in Requests
    <2>. HAVE req'[p] # Idle
    <2>1. CASE p = q
      BY <2>1, <1>1, <1>2, <1>4, <1>5, <1>7, <1>8, NoRowIsNotRow DEF TypeOK
    <2>2. CASE p # q
      <3>1. req'[p] = req[p]
        BY <2>2, <1>8 DEF TypeOK
      <3>2. row[req[p].report] # NoRow
        BY <3>1 DEF TypeOK
      <3>3. req[p].report \in Reports
        BY <3>1 DEF TypeOK, Pending, Filing
      <3>. QED
        BY <3>1, <3>2, <3>3, <1>4, <1>5, NoRowIsNotRow DEF TypeOK
    <2>. QED
      BY <2>1, <2>2
  <1>12. req' \in [Requests -> Pending \union Filing \union {Idle}]
    BY <1>7, <1>8 DEF TypeOK
  <1>13. astray' \in [Reports -> SUBSET Deviations]
    BY <1>2 DEF TypeOK, Commit, Noted, Deviations
  <1>. QED
    BY <1>6, <1>9, <1>10, <1>11, <1>12, <1>13 DEF TypeOK, Commit

LEMMA RegisterTypeOK ==
    ASSUME TypeOK, NEW q \in Requests, RegisterSubmission(q)
    PROVE  TypeOK'
  <1>. DEFINE h == req[q]
              entry == [report |-> h.report, by |-> h.user, cycle |-> cycle[h.report]]
  <1>1. h \in Filing /\ h # Idle
    BY Holding DEF RegisterSubmission, Idle
  <1>2. entry \in Entry
    BY <1>1 DEF Filing, Entry, TypeOK
  <1>3. register' \subseteq Entry
    BY <1>2 DEF RegisterSubmission, TypeOK
  <1>4. PICK next : /\ req' = [req EXCEPT ![q] = next]
                    /\ next = Idle \/ (next \in Filing /\ next.report = h.report)
    <2>1. [h EXCEPT !.pc = "audit"] \in Filing /\ [h EXCEPT !.pc = "audit"].report = h.report
      BY <1>1 DEF Filing
    <2>2. \/ req' = [req EXCEPT ![q] = Idle]
          \/ req' = [req EXCEPT ![q] = [h EXCEPT !.pc = "audit"]]
      BY DEF RegisterSubmission
    <2>. QED
      BY <2>1, <2>2
  <1>5. req' \in [Requests -> Pending \union Filing \union {Idle}]
    BY <1>4 DEF TypeOK
  <1>6. \A p \in Requests : req'[p] # Idle => row[req'[p].report] # NoRow
    BY <1>1, <1>4 DEF TypeOK
  <1>. QED
    BY <1>3, <1>5, <1>6 DEF TypeOK, RegisterSubmission

LEMMA LogTypeOK ==
    ASSUME TypeOK, NEW q \in Requests, LogAction(q)
    PROVE  TypeOK'
  <1>1. req[q] \in Filing
    BY Holding DEF LogAction
  <1>2. [report |-> req[q].report, by |-> req[q].user] \in AuditEntry
    BY <1>1 DEF Filing, AuditEntry
  <1>. QED
    BY <1>2 DEF LogAction, TypeOK

LEMMA AbortTypeOK ==
    ASSUME TypeOK, NEW q \in Requests, Abort(q)
    PROVE  TypeOK'
  <1>1. req[q].report \in Reports
    BY DEF Abort, TypeOK, Pending, Filing
  <1>2. astray' \in [Reports -> SUBSET Deviations]
    BY <1>1 DEF Abort, Noted, TypeOK, Deviations
  <1>. QED
    BY <1>2 DEF Abort, TypeOK

(* TypeOK holds in every state of every behaviour: whatever handlers overlap *)
(* or are cut short, a row stays a row and a handler's report exists.        *)
THEOREM TypeCorrect == Spec => []TypeOK
  <1>1. Init => TypeOK
    BY DEF Init, TypeOK, Idle, Approval, NoApproval
  <1>2. TypeOK /\ [Next]_vars => TypeOK'
    <2>. SUFFICES ASSUME TypeOK, [Next]_vars PROVE TypeOK'
      OBVIOUS
    <2>1. CASE UNCHANGED vars
      BY <2>1 DEF vars, TypeOK
    <2>2. CASE \E r \in Reports : Generate(r)
      BY <2>2, GenerateTypeOK
    <2>3. CASE \E q \in Requests, u \in Compliance : \E r, op, after : Loaded(q, u, r, op, after)
      BY <2>3, BeginTypeOK
    <2>4. CASE \E q \in Requests : Commit(q)
      BY <2>4, CommitTypeOK
    <2>5. CASE \E q \in Requests : RegisterSubmission(q)
      BY <2>5, RegisterTypeOK
    <2>6. CASE \E q \in Requests : LogAction(q)
      BY <2>6, LogTypeOK
    <2>7. CASE \E q \in Requests : Abort(q)
      BY <2>7, AbortTypeOK
    <2>. QED
      BY StepCases, <2>1, <2>2, <2>3, <2>4, <2>5, <2>6, <2>7
  <1>. QED
    BY <1>1, <1>2, PTL DEF Spec

-----------------------------------------------------------------------------
(* The register and the audit log.  Only a handler that has just inserted   *)
(* its register row writes an audit entry, and only MLROs submit.           *)
Registered(r, u) == \E e \in register : e.report = r /\ e.by = u

FilingInv ==
    /\ RegisterOnce
    /\ AuditedIsRegistered
    /\ \A e \in register : e.by \in Mlro
    /\ \A q \in Requests : req[q].pc = "audit" => Registered(req[q].report, req[q].user)
    /\ \A q \in Requests : req[q].pc \in {"register", "audit"} => req[q].user \in Mlro
    /\ \A q \in Requests :
          req[q].pc = "commit" /\ req[q].op = "submit" => req[q].user \in Mlro

(* A step that neither inserts a filing nor an audit entry keeps FilingInv  *)
(* if each handler that moves satisfies it where it arrives.                *)
LEMMA FilingInvFrame ==
    ASSUME TypeOK, FilingInv, UNCHANGED <<register, audit>>,
           NEW q \in Requests, NEW next, req' = [req EXCEPT ![q] = next],
           next.pc # "audit",
           next.pc = "register" => next.user \in Mlro,
           next.pc = "commit" /\ next.op = "submit" => next.user \in Mlro
    PROVE  FilingInv'
  <1>1. \A p \in Requests : req'[p] = IF p = q THEN next ELSE req[p]
    BY DEF TypeOK
  <1>. QED
    BY <1>1 DEF FilingInv, RegisterOnce, AuditedIsRegistered, Registered

LEMMA RegisterFilingInv ==
    ASSUME TypeOK, FilingInv, NEW q \in Requests, RegisterSubmission(q)
    PROVE  FilingInv'
  <1>. DEFINE h == req[q]
              entry == [report |-> h.report, by |-> h.user, cycle |-> cycle[h.report]]
  <1>1. h.pc = "register" /\ h.user \in Mlro
    BY DEF RegisterSubmission, FilingInv
  <1>2. CASE \E e \in register : e.report = h.report
    <2>1. req' = [req EXCEPT ![q] = Idle] /\ UNCHANGED <<register, audit>>
      BY <1>2 DEF RegisterSubmission
    <2>. QED
      BY <2>1, IdlePc, FilingInvFrame
  <1>3. CASE ~ \E e \in register : e.report = h.report
    <2>1. /\ register' = register \union {entry}
          /\ audit' = audit
          /\ req' = [req EXCEPT ![q] = [h EXCEPT !.pc = "audit"]]
      BY <1>3 DEF RegisterSubmission
    <2>2. entry.report = h.report /\ entry.by = h.user
      OBVIOUS
    <2>3. h \in Filing
      BY <1>1, Holding
    <2>4. [h EXCEPT !.pc = "audit"] = [pc |-> "audit", user |-> h.user, report |-> h.report]
      BY <2>3 DEF Filing
    <2>5. \A p \in Requests :
            req'[p] = IF p = q THEN [pc |-> "audit", user |-> h.user, report |-> h.report]
                               ELSE req[p]
      BY <2>1, <2>4 DEF TypeOK
    <2>6. RegisterOnce'
      BY <1>3, <2>1, <2>2 DEF FilingInv, RegisterOnce
    <2>7. AuditedIsRegistered'
      BY <2>1 DEF FilingInv, AuditedIsRegistered
    <2>8. \A e \in register' : e.by \in Mlro
      BY <1>1, <2>1, <2>2 DEF FilingInv
    <2>9. ASSUME NEW p \in Requests, req'[p].pc = "audit"
          PROVE  Registered(req[p].report, req[p].user)'
      <3>1. CASE p = q
        <4>1. req'[p].report = h.report /\ req'[p].user = h.user
          BY <2>5, <3>1
        <4>2. entry \in register'
          BY <2>1
        <4>. QED
          BY <2>2, <4>1, <4>2 DEF Registered
      <3>2. CASE p # q
        BY <2>1, <2>5, <2>9, <3>2 DEF FilingInv, Registered
      <3>. QED
        BY <3>1, <3>2
    <2>10. \A p \in Requests : req'[p].pc \in {"register", "audit"} => req'[p].user \in Mlro
      BY <1>1, <2>5 DEF FilingInv
    <2>11. \A p \in Requests :
             req'[p].pc = "commit" /\ req'[p].op = "submit" => req'[p].user \in Mlro
      BY <2>5 DEF FilingInv
    <2>. QED
      BY <2>6, <2>7, <2>8, <2>9, <2>10, <2>11 DEF FilingInv
  <1>. QED
    BY <1>2, <1>3

LEMMA LogFilingInv ==
    ASSUME TypeOK, FilingInv, NEW q \in Requests, LogAction(q)
    PROVE  FilingInv'
  <1>1. \A p \in Requests : req'[p] = IF p = q THEN Idle ELSE req[p]
    BY DEF LogAction, TypeOK
  <1>2. register' = register /\ audit' = audit \union {[report |-> req[q].report, by |-> req[q].user]}
    BY DEF LogAction
  <1>3. AuditedIsRegistered'
    BY <1>2 DEF LogAction, FilingInv, AuditedIsRegistered, Registered
  <1>. QED
    BY <1>1, <1>2, <1>3 DEF FilingInv, RegisterOnce, Registered, Idle

LEMMA StepFilingInv == TypeOK /\ FilingInv /\ [Next]_vars => FilingInv'
  <1>. SUFFICES ASSUME TypeOK, FilingInv, [Next]_vars PROVE FilingInv'
    OBVIOUS
  <1>1. CASE UNCHANGED vars
    BY <1>1 DEF vars, FilingInv, RegisterOnce, AuditedIsRegistered, Registered
  <1>2. CASE \E r \in Reports : Generate(r)
    BY <1>2 DEF Generate, FilingInv, RegisterOnce, AuditedIsRegistered, Registered
  <1>3. CASE \E q \in Requests, u \in Compliance : \E r, op, after : Loaded(q, u, r, op, after)
    <2>1. PICK q \in Requests, u \in Compliance : \E r, op, after : Loaded(q, u, r, op, after)
      BY <1>3
    <2>2. PICK r, op, after : Loaded(q, u, r, op, after)
      BY <2>1
    <2>. DEFINE next == [pc |-> "commit", op |-> op, user |-> u, report |-> r,
                         before |-> row[r], after |-> after]
    <2>3. req' = [req EXCEPT ![q] = next] /\ UNCHANGED <<register, audit>>
      BY <2>2 DEF Loaded, Begin
    <2>4. next.pc = "commit" /\ (next.op = "submit" => next.user \in Mlro)
      BY <2>2 DEF Loaded
    <2>. HIDE DEF next
    <2>. QED
      BY <2>3, <2>4, FilingInvFrame
  <1>4. CASE \E q \in Requests : Commit(q)
    <2>1. PICK q \in Requests : Commit(q)
      BY <1>4
    <2>. DEFINE next == IF req[q].op = "submit"
                          THEN [pc |-> "register", user |-> req[q].user, report |-> req[q].report]
                          ELSE Idle
    <2>2. req' = [req EXCEPT ![q] = next] /\ UNCHANGED <<register, audit>>
      BY <2>1 DEF Commit
    <2>3. next.pc \in {"register", "idle"} /\ (next.pc = "register" => next.user \in Mlro)
      BY <2>1 DEF Commit, FilingInv, Idle
    <2>. HIDE DEF next
    <2>. QED
      BY <2>2, <2>3, FilingInvFrame
  <1>5. CASE \E q \in Requests : RegisterSubmission(q)
    BY <1>5, RegisterFilingInv
  <1>6. CASE \E q \in Requests : LogAction(q)
    BY <1>6, LogFilingInv
  <1>7. CASE \E q \in Requests : Abort(q)
    BY <1>7, IdlePc, FilingInvFrame DEF Abort
  <1>. QED
    BY StepCases, <1>1, <1>2, <1>3, <1>4, <1>5, <1>6, <1>7

LEMMA FilingCorrect == Spec => []FilingInv
  <1>1. Init => FilingInv
    BY DEF Init, FilingInv, RegisterOnce, AuditedIsRegistered, Registered, Idle
  <1>. QED
    BY <1>1, StepFilingInv, TypeCorrect, PTL DEF Spec

(* A filing is registered once, whatever submissions of a report overlap,   *)
(* fail half way or are repeated.                                           *)
THEOREM RegisteredOnce == Spec => []RegisterOnce
  <1>1. FilingInv => RegisterOnce
    BY DEF FilingInv
  <1>. QED
    BY <1>1, FilingCorrect, PTL

(* An audit entry "*_submitted" always has its row in the register, by the  *)
(* same user: register_submission commits before log_action runs.           *)
THEOREM AuditTrailSound == Spec => []AuditedIsRegistered
  <1>1. FilingInv => AuditedIsRegistered
    BY DEF FilingInv
  <1>. QED
    BY <1>1, FilingCorrect, PTL

-----------------------------------------------------------------------------
(* The register and the audit log implement FilingLedger.                   *)
ledgerBar == {[report |-> e.report, by |-> e.by] : e \in register}

LEMMA LedgerBar == Ledger!Spec <=>
    /\ ledgerBar = {} /\ audit = {}
    /\ [][Ledger!Next]_<<ledgerBar, audit>>
  BY PTL DEF Ledger!Spec, Ledger!Init, ledgerBar

LEMMA LedgerStep ==
    TypeOK /\ FilingInv /\ [Next]_vars => [Ledger!Next]_<<ledgerBar, audit>>
  <1>. SUFFICES ASSUME TypeOK, FilingInv, [Next]_vars
                PROVE  [Ledger!Next]_<<ledgerBar, audit>>
    OBVIOUS
  <1>1. ASSUME UNCHANGED <<register, audit>> PROVE UNCHANGED <<ledgerBar, audit>>
    BY <1>1 DEF ledgerBar
  <1>2. CASE \E q \in Requests : RegisterSubmission(q)
    <2>1. PICK q \in Requests : RegisterSubmission(q)
      BY <1>2
    <2>. DEFINE f == [report |-> req[q].report, by |-> req[q].user]
    <2>2. CASE \E e \in register : e.report = req[q].report
      BY <1>1, <2>1, <2>2 DEF RegisterSubmission
    <2>3. CASE ~ \E e \in register : e.report = req[q].report
      <3>1. PICK g \in [report : Reports, by : Mlro] : g = f
        BY <2>1, Holding DEF RegisterSubmission, Filing, FilingInv
      <3>2. \A x \in ledgerBar : x.report # f.report
        BY <2>3 DEF ledgerBar
      <3>3. register' = register \union
               {[report |-> req[q].report, by |-> req[q].user, cycle |-> cycle[req[q].report]]}
        BY <2>1, <2>3 DEF RegisterSubmission
      <3>4. ledgerBar' = ledgerBar \union {f}
        <4>1. ledgerBar' = {[report |-> e.report, by |-> e.by] : e \in register'}
          BY DEF ledgerBar
        <4>2. \A e \in register' : e \in register \/ [report |-> e.report, by |-> e.by] = f
          BY <3>3
        <4>3. f \in ledgerBar'
          <5>. DEFINE e == [report |-> req[q].report, by |-> req[q].user,
                            cycle |-> cycle[req[q].report]]
          <5>1. e \in register' /\ e.report = f.report /\ e.by = f.by
            BY <3>3
          <5>2. [report |-> e.report, by |-> e.by] = f
            OBVIOUS
          <5>. QED
            BY <4>1, <5>1, <5>2
        <4>4. ledgerBar \subseteq ledgerBar'
          BY <3>3, <4>1 DEF ledgerBar
        <4>5. ledgerBar' \subseteq ledgerBar \union {f}
          BY <4>1, <4>2 DEF ledgerBar
        <4>. QED
          BY <4>3, <4>4, <4>5
      <3>5. audit' = audit
        BY <2>1 DEF RegisterSubmission
      <3>6. Ledger!File(g)
        BY <3>1, <3>2, <3>4, <3>5 DEF Ledger!File, ledgerBar
      <3>. QED
        BY <3>6 DEF Ledger!Next
    <2>. QED
      BY <2>2, <2>3
  <1>3. CASE \E q \in Requests : LogAction(q)
    <2>1. PICK q \in Requests : LogAction(q)
      BY <1>3
    <2>. DEFINE f == [report |-> req[q].report, by |-> req[q].user]
    <2>2. f \in [report : Reports, by : Mlro]
      BY <2>1, Holding DEF LogAction, Filing, FilingInv
    <2>3. f \in ledgerBar
      <3>1. PICK e \in register : e.report = req[q].report /\ e.by = req[q].user
        BY <2>1 DEF LogAction, FilingInv, Registered
      <3>. QED
        BY <3>1 DEF ledgerBar
    <2>4. audit' = audit \union {f} /\ ledgerBar' = ledgerBar
      BY <2>1 DEF LogAction, ledgerBar
    <2>5. Ledger!Log(f)
      BY <2>3, <2>4 DEF Ledger!Log, ledgerBar
    <2>. QED
      BY <2>2, <2>5 DEF Ledger!Next
  <1>4. CASE UNCHANGED <<register, audit>>
    BY <1>1, <1>4
  <1>5. \/ UNCHANGED <<register, audit>>
        \/ \E q \in Requests : RegisterSubmission(q)
        \/ \E q \in Requests : LogAction(q)
    <2>1. CASE Next
      <3>1. \A r \in Reports : Generate(r) => UNCHANGED <<register, audit>>
        BY DEF Generate
      <3>2. \A q, u, r, op, after : Loaded(q, u, r, op, after) => UNCHANGED <<register, audit>>
        BY DEF Loaded, Begin
      <3>3. \A q \in Requests : Commit(q) \/ Abort(q) => UNCHANGED <<register, audit>>
        BY DEF Commit, Abort
      <3>. QED
        BY <2>1, <3>1, <3>2, <3>3, StepCases
    <2>. QED
      BY <2>1 DEF vars
  <1>. QED
    BY <1>2, <1>3, <1>4, <1>5

(* The register and the audit log, whatever the endpoints do, take only the *)
(* steps of FilingLedger.                                                   *)
THEOREM LedgerImplemented == Spec => LedgerRefined
  <1>1. Init => ledgerBar = {} /\ audit = {}
    BY DEF Init, ledgerBar
  <1>. QED
    BY <1>1, LedgerStep, LedgerBar, TypeCorrect, FilingCorrect, PTL DEF Spec, LedgerRefined

-----------------------------------------------------------------------------
(* Sign-off of SMRs.  A column of a row changes only to what a handler puts *)
(* there, so a sign-off that a handler has loaded came from an approval,    *)
(* however old the row it loaded is.                                        *)
Signed(r) == approval[r].body # None

SignedInv ==
    /\ RegisteredSmrWasSignedOff
    /\ \A r \in Smr : row[r] # NoRow /\ row[r].approver # None => Signed(r)
    /\ \A q \in Requests :
          req[q].pc \in {"register", "audit"} /\ req[q].report \in Smr => Signed(req[q].report)
    /\ \A q \in Requests : req[q].pc = "commit" /\ req[q].report \in Smr =>
          /\ req[q].before.approver # None => Signed(req[q].report)
          /\ req[q].op = "submit" => req[q].before.approver # None
          /\ req[q].after.approver # None =>
                req[q].op = "approve" \/ req[q].before.approver # None

LEMMA BeginSignedInv ==
    ASSUME TypeOK, SignedInv, NEW q \in Requests, NEW u \in Compliance,
           NEW r, NEW op, NEW after, Loaded(q, u, r, op, after)
    PROVE  SignedInv'
  <1>. DEFINE next == [pc |-> "commit", op |-> op, user |-> u, report |-> r,
                       before |-> row[r], after |-> after]
  <1>1. \A p \in Requests : req'[p] = IF p = q THEN next ELSE req[p]
    BY DEF Loaded, Begin, TypeOK
  <1>2. UNCHANGED <<row, register, approval>>
    BY DEF Loaded, Begin
  <1>3. r \in Smr => (row[r].approver # None => Signed(r))
    BY NoRowIsNotRow DEF Loaded, SignedInv
  <1>4. ASSUME NEW p \in Requests, req'[p].pc = "commit", req'[p].report \in Smr
        PROVE  /\ req'[p].before.approver # None => approval'[req'[p].report].body # None
               /\ req'[p].op = "submit" => req'[p].before.approver # None
               /\ req'[p].after.approver # None =>
                     req'[p].op = "approve" \/ req'[p].before.approver # None
    <2>1. CASE p = q
      BY <1>1, <1>2, <1>3, <1>4, <2>1 DEF Loaded, Signed
    <2>2. CASE p # q
      BY <1>1, <1>2, <1>4, <2>2 DEF SignedInv, Signed
    <2>. QED
      BY <2>1, <2>2
  <1>5. \A p \in Requests :
          req'[p].pc \in {"register", "audit"} /\ req'[p].report \in Smr => approval'[req'[p].report].body # None
    BY <1>1, <1>2 DEF SignedInv, Signed
  <1>. QED
    BY <1>2, <1>4, <1>5 DEF SignedInv, RegisteredSmrWasSignedOff, Signed

LEMMA CommitSignedInv ==
    ASSUME TypeOK, SignedInv, NEW q \in Requests, Commit(q)
    PROVE  SignedInv'
  <1>. DEFINE h == req[q]
              new == Flush(row[h.report], h.before, h.after)
              given == [body |-> h.before.body, cycle |-> cycle[h.report]]
              next == IF h.op = "submit"
                        THEN [pc |-> "register", user |-> h.user, report |-> h.report]
                        ELSE Idle
  <1>1. h \in Pending /\ h # Idle /\ h.pc = "commit"
    BY Holding DEF Commit, Idle
  <1>2. h.report \in Reports /\ h.before \in Row /\ h.after \in Row /\ row[h.report] \in Row
    BY <1>1 DEF Pending, TypeOK
  <1>3. \A p \in Requests : req'[p] = IF p = q THEN next ELSE req[p]
    BY DEF Commit, TypeOK
  <1>4. \A r \in Reports : row'[r] = IF r = h.report THEN new ELSE row[r]
    BY DEF Commit, TypeOK
  <1>5. \A r \in Reports : approval'[r] = IF h.op = "approve" /\ r = h.report
                                             THEN given ELSE approval[r]
    BY <1>2 DEF Commit, TypeOK
  <1>6. given.body # None
    BY <1>2, NoneAssumption DEF Row
  <1>. HIDE DEF given
  <1>7. \A r \in Reports : Signed(r) => approval'[r].body # None
    BY <1>5, <1>6 DEF Signed
  <1>8. h.op = "approve" => approval'[h.report].body # None
    BY <1>2, <1>5, <1>6 DEF Signed
  <1>9. new.approver \in {row[h.report].approver, h.after.approver}
    BY <1>2 DEF Flush, Row
  <1>10. Smr \subseteq Reports
    BY DEF Reports
  <1>11. \A r \in Smr : row'[r] # NoRow /\ row'[r].approver # None => approval'[r].body # None
    <2>. TAKE r \in Smr
    <2>1. CASE r = h.report
      <3>1. row[r] # NoRow
        BY <1>2, <2>1, NoRowIsNotRow
      <3>2. h.after.approver # None => approval'[r].body # None
        BY <1>1, <1>7, <1>8, <1>10, <2>1 DEF SignedInv
      <3>3. row[r].approver # None => approval'[r].body # None
        BY <1>7, <1>10, <3>1 DEF SignedInv
      <3>. QED
        BY <1>2, <1>4, <1>9, <2>1, <3>2, <3>3
    <2>2. CASE r # h.report
      BY <1>4, <1>7, <1>10, <2>2 DEF SignedInv
    <2>. QED
      BY <2>1, <2>2
  <1>12. ASSUME NEW p \in Requests, req'[p].pc \in {"register", "audit"}, req'[p].report \in Smr
         PROVE  approval'[req'[p].report].body # None
    <2>1. CASE p = q
      <3>1. next.pc # "idle"
        BY <1>3, <1>12, <2>1
      <3>2. h.op = "submit" /\ next.report = h.report
        BY <3>1, IdlePc
      <3>3. h.report \in Smr
        BY <1>3, <1>12, <2>1, <3>2
      <3>4. Signed(h.report)
        BY <1>1, <3>2, <3>3 DEF SignedInv
      <3>. QED
        BY <1>2, <1>3, <1>7, <2>1, <3>2, <3>4
    <2>2. CASE p # q
      BY <1>3, <1>7, <1>10, <1>12, <2>2 DEF SignedInv
    <2>. QED
      BY <2>1, <2>2
  <1>13. ASSUME NEW p \in Requests, req'[p].pc = "commit", req'[p].report \in Smr
         PROVE  /\ req'[p].before.approver # None => approval'[req'[p].report].body # None
                /\ req'[p].op = "submit" => req'[p].before.approver # None
                /\ req'[p].after.approver # None =>
                      req'[p].op = "approve" \/ req'[p].before.approver # None
    <2>1. p # q
      BY <1>3, <1>13, IdlePc
    <2>. QED
      BY <1>3, <1>7, <1>10, <1>13, <2>1 DEF SignedInv
  <1>14. RegisteredSmrWasSignedOff'
    BY <1>7, <1>10 DEF Commit, SignedInv, RegisteredSmrWasSignedOff, Signed
  <1>. QED
    BY <1>11, <1>12, <1>13, <1>14 DEF SignedInv, Signed

LEMMA RegisterSignedInv ==
    ASSUME TypeOK, SignedInv, NEW q \in Requests, RegisterSubmission(q)
    PROVE  SignedInv'
  <1>. DEFINE h == req[q]
  <1>1. h.pc = "register" /\ h \in Filing
    BY Holding DEF RegisterSubmission
  <1>2. UNCHANGED <<row, approval>>
    BY DEF RegisterSubmission
  <1>3. \A e \in register' : e \in register \/ e.report = h.report
    BY DEF RegisterSubmission
  <1>4. [h EXCEPT !.pc = "audit"] = [pc |-> "audit", user |-> h.user, report |-> h.report]
    BY <1>1 DEF Filing
  <1>5. \/ req' = [req EXCEPT ![q] = Idle]
        \/ req' = [req EXCEPT ![q] = [pc |-> "audit", user |-> h.user, report |-> h.report]]
    BY <1>4 DEF RegisterSubmission
  <1>6. \A p \in Requests : p # q => req'[p] = req[p]
    BY <1>5 DEF TypeOK
  <1>7. req'[q] = Idle \/ req'[q] = [pc |-> "audit", user |-> h.user, report |-> h.report]
    BY <1>5 DEF TypeOK
  <1>8. RegisteredSmrWasSignedOff'
    BY <1>1, <1>2, <1>3 DEF SignedInv, RegisteredSmrWasSignedOff, Signed
  <1>9. \A p \in Requests :
          req'[p].pc \in {"register", "audit"} /\ req'[p].report \in Smr => approval'[req'[p].report].body # None
    BY <1>1, <1>2, <1>6, <1>7, IdlePc DEF SignedInv, Signed
  <1>10. \A p \in Requests : req'[p].pc = "commit" => p # q
    BY <1>7, IdlePc
  <1>. QED
    BY <1>2, <1>6, <1>8, <1>9, <1>10 DEF SignedInv, Signed

LEMMA StepSignedInv == TypeOK /\ SignedInv /\ [Next]_vars => SignedInv'
  <1>. SUFFICES ASSUME TypeOK, SignedInv, [Next]_vars PROVE SignedInv'
    OBVIOUS
  <1>1. CASE UNCHANGED vars
    BY <1>1 DEF vars, SignedInv, RegisteredSmrWasSignedOff, Signed
  <1>2. CASE \E r \in Reports : Generate(r)
    <2>1. PICK r \in Reports, b \in Bodies :
            row' = [row EXCEPT ![r] =
                      [status |-> "draft", reviewed_by |-> None,
                       approver |-> None, body |-> b]]
      BY <1>2 DEF Generate
    <2>2. UNCHANGED <<register, req, approval>>
      BY <1>2 DEF Generate
    <2>3. \A s \in Smr : row'[s] # NoRow /\ row'[s].approver # None => Signed(s)
      BY <2>1 DEF SignedInv, TypeOK, Reports
    <2>. QED
      BY <2>2, <2>3 DEF SignedInv, RegisteredSmrWasSignedOff, Signed
  <1>3. CASE \E q \in Requests, u \in Compliance : \E r, op, after : Loaded(q, u, r, op, after)
    BY <1>3, BeginSignedInv
  <1>4. CASE \E q \in Requests : Commit(q)
    BY <1>4, CommitSignedInv
  <1>5. CASE \E q \in Requests : RegisterSubmission(q)
    BY <1>5, RegisterSignedInv
  <1>6. CASE \E q \in Requests : LogAction(q) \/ Abort(q)
    <2>1. PICK q \in Requests : req' = [req EXCEPT ![q] = Idle] /\ UNCHANGED <<row, register, approval>>
      BY <1>6 DEF LogAction, Abort
    <2>2. \A p \in Requests : req'[p] = IF p = q THEN Idle ELSE req[p]
      BY <2>1 DEF TypeOK
    <2>3. \A p \in Requests : req'[p].pc # "idle" => req'[p] = req[p]
      BY <2>2, IdlePc
    <2>. QED
      BY <2>1, <2>3 DEF SignedInv, RegisteredSmrWasSignedOff, Signed
  <1>. QED
    BY StepCases, <1>1, <1>2, <1>3, <1>4, <1>5, <1>6

(* No SMR reaches the register that an MLRO has not signed off, even if     *)
(* handlers overlap and PATCH bodies set any workflow column.               *)
THEOREM SmrSignedOff == Spec => []RegisteredSmrWasSignedOff
  <1>1. Init => SignedInv
    BY IdlePc DEF Init, SignedInv, RegisteredSmrWasSignedOff, Reports
  <1>2. SignedInv => RegisteredSmrWasSignedOff
    BY DEF SignedInv
  <1>. QED
    BY <1>1, <1>2, StepSignedInv, TypeCorrect, PTL DEF Spec

-----------------------------------------------------------------------------
(* Submitted reports.  A report in an issued status has been filed, is being *)
(* filed or has gone astray, and that is never undone.                      *)
Filed(r) == HasRegisterRow(r) \/ InRegistration(r) \/ astray[r] # {}

SubmittedInv ==
    /\ \A r \in Reports : row[r] # NoRow /\ row[r].status \notin NotIssued => Filed(r)
    /\ \A q \in Requests : req[q].pc = "commit" =>
          /\ req[q].before.status \notin NotIssued => Filed(req[q].report)
          /\ req[q].after.status \notin NotIssued =>
                req[q].op \in {"submit", "patch"} \/ req[q].before.status \notin NotIssued

(* Steps that keep the register, every registering handler and what went    *)
(* astray keep filings.                                                     *)
LEMMA FiledKept ==
    ASSUME NEW r, Filed(r), register \subseteq register',
           astray[r] # {} => astray'[r] # {},
           \A q \in Requests : req[q].pc = "register" =>
              \/ req'[q] = req[q]
              \/ \E e \in register' : e.report = req[q].report
    PROVE  Filed(r)'
  BY DEF Filed, HasRegisterRow, InRegistration

(* A step after which each handler is where it was, or not about to commit. *)
LEMMA FiledFrame ==
    ASSUME SubmittedInv, row' = row, NEW q \in Requests, req'[q].pc # "commit",
           \A p \in Requests : p # q => req'[p] = req[p],
           ASSUME NEW s, Filed(s) PROVE Filed(s)'
    PROVE  SubmittedInv'
  <1>1. \A s \in Reports : row'[s] # NoRow /\ row'[s].status \notin NotIssued => Filed(s)'
    BY DEF SubmittedInv
  <1>2. ASSUME NEW p \in Requests, req'[p].pc = "commit"
        PROVE  /\ req'[p].before.status \notin NotIssued => Filed(req[p].report)'
               /\ req'[p].after.status \notin NotIssued =>
                     req'[p].op \in {"submit", "patch"} \/ req'[p].before.status \notin NotIssued
    <2>1. PICK s : s = req[p].report
      OBVIOUS
    <2>2. req'[p] = req[p]
      BY <1>2
    <2>3. req[p].before.status \notin NotIssued => Filed(s)'
      BY <1>2, <2>1, <2>2 DEF SubmittedInv
    <2>4. Filed(s)' => Filed(req[p].report)'
      BY <2>1, <2>2 DEF Filed, HasRegisterRow, InRegistration
    <2>. QED
      BY <1>2, <2>2, <2>3, <2>4 DEF SubmittedInv
  <1>. QED
    BY <1>1, <1>2 DEF SubmittedInv

LEMMA StepSubmittedInv == TypeOK /\ SubmittedInv /\ [Next]_vars => SubmittedInv'
  <1>. SUFFICES ASSUME TypeOK, SubmittedInv, [Next]_vars PROVE SubmittedInv'
    OBVIOUS
  <1>1. CASE UNCHANGED vars
    BY <1>1 DEF vars, SubmittedInv, Filed, HasRegisterRow, InRegistration
  <1>2. CASE \E r \in Reports : Generate(r)
    <2>1. PICK r \in Reports, b \in Bodies :
            row' = [row EXCEPT ![r] =
                      [status |-> "draft", reviewed_by |-> None,
                       approver |-> None, body |-> b]]
      BY <1>2 DEF Generate
    <2>2. UNCHANGED <<register, req, astray>>
      BY <1>2 DEF Generate
    <2>3. \A s \in Reports : row'[s] # NoRow /\ row'[s].status \notin NotIssued => Filed(s)
      BY <2>1, <2>2 DEF SubmittedInv, NotIssued, TypeOK
    <2>. QED
      BY <2>2, <2>3 DEF SubmittedInv, Filed, HasRegisterRow, InRegistration
  <1>3. CASE \E q \in Requests, u \in Compliance : \E r, op, after : Loaded(q, u, r, op, after)
    <2>1. PICK q \in Requests, u \in Compliance : \E r, op, after : Loaded(q, u, r, op, after)
      BY <1>3
    <2>2. PICK r, op, after : Loaded(q, u, r, op, after)
      BY <2>1
    <2>. DEFINE next == [pc |-> "commit", op |-> op, user |-> u, report |-> r,
                         before |-> row[r], after |-> after]
    <2>3. \A p \in Requests : req'[p] = IF p = q THEN next ELSE req[p]
      BY <2>2 DEF Loaded, Begin, TypeOK
    <2>4. row' = row /\ register' = register /\ astray' = astray /\ req[q] = Idle
      BY <2>2 DEF Loaded, Begin
    <2>5. ASSUME NEW s, Filed(s) PROVE Filed(s)'
      BY <2>3, <2>4, <2>5, IdlePc, FiledKept
    <2>6. row[r].status \notin NotIssued => Filed(r)
      BY <2>2, NoRowIsNotRow DEF Loaded, SubmittedInv
    <2>7. \A s \in Reports : row'[s] # NoRow /\ row'[s].status \notin NotIssued => Filed(s)'
      BY <2>4, <2>5 DEF SubmittedInv
    <2>8. ASSUME NEW p \in Requests, req'[p].pc = "commit"
          PROVE  /\ req'[p].before.status \notin NotIssued => Filed(req[p].report)'
                 /\ req'[p].after.status \notin NotIssued =>
                       req'[p].op \in {"submit", "patch"} \/ req'[p].before.status \notin NotIssued
      <3>1. CASE p = q
        <4>1. req'[p] = next
          BY <2>3, <3>1
        <4>2. next.before = row[r] /\ next.after = after /\ next.op = op /\ next.report = r
          OBVIOUS
        <4>3. row[r].status \notin NotIssued => Filed(r)'
          BY <2>5, <2>6
        <4>4. after.status \notin NotIssued => op \in {"submit", "patch"} \/ row[r].status \notin NotIssued
          BY <2>2 DEF Loaded
        <4>. HIDE DEF next
        <4>. QED
          BY <4>1, <4>2, <4>3, <4>4 DEF Filed, HasRegisterRow, InRegistration
      <3>2. CASE p # q
        <4>1. req'[p] = req[p]
          BY <2>3, <3>2
        <4>. QED
          BY <2>5, <2>8, <4>1 DEF SubmittedInv, Filed, HasRegisterRow, InRegistration
      <3>. QED
        BY <3>1, <3>2
    <2>. QED
      BY <2>7, <2>8 DEF SubmittedInv
  <1>4. CASE \E q \in Requests : Commit(q)
    <2>1. PICK q \in Requests : Commit(q)
      BY <1>4
    <2>. DEFINE h == req[q]
                new == Flush(row[h.report], h.before, h.after)
                next == IF h.op = "submit"
                          THEN [pc |-> "register", user |-> h.user, report |-> h.report]
                          ELSE Idle
    <2>2. h \in Pending /\ h # Idle /\ h.pc = "commit"
      BY <2>1, Holding DEF Commit, Idle
    <2>3. h.report \in Reports /\ h.before \in Row /\ h.after \in Row /\ row[h.report] \in Row
      BY <2>2 DEF Pending, TypeOK
    <2>4. \A p \in Requests : req'[p] = IF p = q THEN next ELSE req[p]
      BY <2>1 DEF Commit, TypeOK
    <2>5. \A r \in Reports : row'[r] = IF r = h.report THEN new ELSE row[r]
      BY <2>1 DEF Commit, TypeOK
    <2>6. register' = register
      BY <2>1 DEF Commit
    <2>7. new.status \in {row[h.report].status, h.after.status}
      BY <2>3 DEF Flush, Row
    <2>8. ASSUME NEW s, Filed(s) PROVE Filed(s)'
      <3>1. \A p \in Requests : req[p].pc = "register" => req'[p] = req[p]
        BY <2>2, <2>4
      <3>2. astray[s] # {} => astray'[s] # {}
        BY <2>1 DEF Commit, Noted, TypeOK
      <3>. QED
        BY <2>6, <2>8, <3>1, <3>2, FiledKept
    <2>9. ASSUME NEW s, s = h.report, h.op = "submit" PROVE Filed(s)'
      <3>1. req'[q] = [pc |-> "register", user |-> h.user, report |-> h.report]
        BY <2>4, <2>9
      <3>2. req'[q].pc = "register" /\ req'[q].report = s
        BY <2>9, <3>1
      <3>. QED
        BY <3>2 DEF Filed, InRegistration
    <2>10. ASSUME NEW s \in Reports, row'[s] # NoRow, row'[s].status \notin NotIssued
           PROVE  Filed(s)'
      <3>1. CASE s # h.report
        BY <2>5, <2>8, <2>10, <3>1 DEF SubmittedInv
      <3>2. CASE s = h.report /\ row[s].status \notin NotIssued
        BY <2>3, <2>8, <3>2, NoRowIsNotRow DEF SubmittedInv
      <3>3. CASE s = h.report /\ h.after.status \notin NotIssued
        <4>1. CASE h.op = "patch" /\ h.before.status \in NotIssued
          <5>1. SetsWorkflow(h)
            BY <3>3, <4>1 DEF SetsWorkflow
          <5>2. astray' = [astray EXCEPT ![h.report] = @ \union {"patched"}]
            BY <2>1, <5>1 DEF Commit, Noted
          <5>. QED
            BY <2>3, <3>3, <5>2 DEF Filed, TypeOK
        <4>2. CASE ~(h.op = "patch" /\ h.before.status \in NotIssued)
          <5>1. h.op = "submit" \/ Filed(s)
            BY <2>2, <3>3, <4>2 DEF SubmittedInv
          <5>. QED
            BY <2>8, <2>9, <3>3, <5>1
        <4>. QED
          BY <4>1, <4>2
      <3>. QED
        BY <2>5, <2>7, <2>10, <3>1, <3>2, <3>3
    <2>11. ASSUME NEW p \in Requests, req'[p].pc = "commit"
           PROVE  /\ req'[p] = req[p]
                  /\ req[p].before.status \notin NotIssued => Filed(req[p].report)
      BY <2>4, <2>11, IdlePc DEF SubmittedInv
    <2>12. ASSUME NEW p \in Requests, req'[p].pc = "commit"
           PROVE  /\ req'[p].before.status \notin NotIssued => Filed(req[p].report)'
                  /\ req'[p].after.status \notin NotIssued =>
                        req'[p].op \in {"submit", "patch"} \/ req'[p].before.status \notin NotIssued
      <3>1. PICK s : s = req[p].report
        OBVIOUS
      <3>2. req'[p] = req[p] /\ (req[p].before.status \notin NotIssued => Filed(s)')
        BY <2>8, <2>11, <2>12, <3>1
      <3>3. Filed(s)' => Filed(req[p].report)'
        BY <3>1, <3>2 DEF Filed, HasRegisterRow, InRegistration
      <3>. QED
        BY <2>12, <3>2, <3>3 DEF SubmittedInv
    <2>. QED
      BY <2>10, <2>12 DEF SubmittedInv
  <1>5. CASE \E q \in Requests : RegisterSubmission(q)
    <2>1. PICK q \in Requests : RegisterSubmission(q)
      BY <1>5
    <2>. DEFINE h == req[q]
    <2>2. h \in Filing /\ row' = row /\ astray' = astray
      BY <2>1, Holding DEF RegisterSubmission
    <2>3. register \subseteq register' /\ \E e \in register' : e.report = h.report
      <3>1. CASE \E e \in register : e.report = h.report
        BY <2>1, <3>1 DEF RegisterSubmission
      <3>2. CASE ~ \E e \in register : e.report = h.report
        <4>1. PICK e : e = [report |-> h.report, by |-> h.user, cycle |-> cycle[h.report]]
          OBVIOUS
        <4>2. register' = register \union {e} /\ e.report = h.report
          BY <2>1, <3>2, <4>1 DEF RegisterSubmission
        <4>. QED
          BY <4>2
      <3>. QED
        BY <3>1, <3>2
    <2>4. [h EXCEPT !.pc = "audit"] = [pc |-> "audit", user |-> h.user, report |-> h.report]
      BY <2>2 DEF Filing
    <2>5. \A p \in Requests : p # q => req'[p] = req[p]
      BY <2>1 DEF RegisterSubmission, TypeOK
    <2>6. req'[q].pc # "commit"
      BY <2>1, <2>4, IdlePc DEF RegisterSubmission, TypeOK
    <2>7. ASSUME NEW s, Filed(s) PROVE Filed(s)'
      BY <2>2, <2>3, <2>5, <2>7, FiledKept
    <2>. QED
      BY <2>2, <2>5, <2>6, <2>7, FiledFrame
  <1>6. CASE \E q \in Requests : LogAction(q)
    <2>1. PICK q \in Requests : LogAction(q)
      BY <1>6
    <2>2. \A p \in Requests : p # q => req'[p] = req[p]
      BY <2>1 DEF LogAction, TypeOK
    <2>3. /\ req'[q].pc # "commit" /\ req[q].pc # "register"
          /\ row' = row /\ register' = register /\ astray' = astray
      BY <2>1, IdlePc DEF LogAction, TypeOK
    <2>4. ASSUME NEW s, Filed(s) PROVE Filed(s)'
      BY <2>2, <2>3, <2>4, FiledKept
    <2>. QED
      BY <2>2, <2>3, <2>4, FiledFrame
  <1>7. CASE \E q \in Requests : Abort(q)
    <2>1. PICK q \in Requests : Abort(q)
      BY <1>7
    <2>2. \A p \in Requests : p # q => req'[p] = req[p]
      BY <2>1 DEF Abort, TypeOK
    <2>3. req'[q].pc # "commit" /\ row' = row /\ register' = register
      BY <2>1, IdlePc DEF Abort, TypeOK
    <2>4. req[q].report \in Reports
      BY <2>1 DEF Abort, TypeOK, Pending, Filing
    <2>5. \A s : astray[s] # {} => astray'[s] # {}
      BY <2>1 DEF Abort, Noted, TypeOK
    <2>6. req[q].pc = "register" => astray'[req[q].report] # {}
      BY <2>1, <2>4 DEF Abort, Noted, TypeOK
    <2>7. ASSUME NEW s, Filed(s) PROVE Filed(s)'
      <3>1. CASE req[q].pc = "register" /\ req[q].report = s
        BY <2>6, <3>1 DEF Filed
      <3>2. CASE ~(req[q].pc = "register" /\ req[q].report = s)
        BY <2>2, <2>3, <2>5, <2>7, <3>2 DEF Filed, HasRegisterRow, InRegistration
      <3>. QED
        BY <3>1, <3>2
    <2>. QED
      BY <2>2, <2>3, <2>7, FiledFrame
  <1>. QED
    BY StepCases, <1>1, <1>2, <1>3, <1>4, <1>5, <1>6, <1>7

(* A submitted or acknowledged report has its row in the register or its    *)
(* submit handler about to insert it, unless a submission was cut short or  *)
(* a PATCH body wrote a workflow column.                                    *)
THEOREM SubmittedRegistered == Spec => []SubmittedHasRegisterRow
  <1>1. Init => SubmittedInv
    BY IdlePc DEF Init, SubmittedInv
  <1>2. TypeOK /\ SubmittedInv => SubmittedHasRegisterRow
    BY DEF TypeOK, SubmittedInv, SubmittedHasRegisterRow, Filed, NotIssued, NoRow
  <1>. QED
    BY <1>1, <1>2, StepSubmittedInv, TypeCorrect, PTL DEF Spec

-----------------------------------------------------------------------------
(* One request at a time.  A handler then commits into the row it loaded,   *)
(* and, since every handler is orderly, a report is in order until a PATCH  *)
(* body writes a workflow column.                                           *)
InOrder(r) == "patched" \in astray[r] \/ Proper(row[r], approval[r], cycle[r])

SerialInv ==
    /\ \A r \in Reports : row[r] # NoRow => InOrder(r)
    /\ \A q \in Requests : req[q].pc = "commit" =>
          /\ req[q].before = row[req[q].report]
          /\ Orderly(req[q].op, req[q].before, req[q].after)

(* Committing into the row that was loaded leaves the handler's row. *)
LEMMA FlushUnchanged ==
    ASSUME NEW before \in Row, NEW after \in Row
    PROVE  \A c \in {"status", "reviewed_by", "approver", "body"} :
              Flush(before, before, after)[c] = after[c]
  BY DEF Flush, Row

LEMMA CommitInOrder ==
    ASSUME TypeOK, SerialInv, NEW q \in Requests, Commit(q),
           NEW r \in Reports, row'[r] # NoRow
    PROVE  InOrder(r)'
  <1>. DEFINE h == req[q]
              new == Flush(row[h.report], h.before, h.after)
  <1>1. h \in Pending /\ h # Idle /\ h.pc = "commit"
    BY Holding DEF Commit, Idle
  <1>2. /\ h.report \in Reports /\ h.before \in Row /\ h.after \in Row
        /\ h.before = row[h.report] /\ Orderly(h.op, h.before, h.after)
    BY <1>1 DEF Pending, SerialInv
  <1>3. \A s \in Reports : row'[s] = IF s = h.report THEN new ELSE row[s]
    BY DEF Commit, TypeOK
  <1>4. "patched" \in astray[r] => "patched" \in astray'[r]
    BY DEF Commit, Noted, TypeOK
  <1>5. CASE r # h.report
    <2>1. row'[r] = row[r] /\ approval'[r] = approval[r] /\ cycle'[r] = cycle[r]
      BY <1>3, <1>5 DEF Commit, TypeOK
    <2>. QED
      BY <1>4, <2>1 DEF SerialInv, InOrder
  <1>6. CASE r = h.report /\ "patched" \in astray[r]
    BY <1>4, <1>6 DEF InOrder
  <1>7. CASE r = h.report /\ Writes(h.op, h.before, h.after)
    <2>1. SetsWorkflow(h)
      BY <1>7 DEF Writes, SetsWorkflow
    <2>. QED
      BY <1>2, <1>7, <2>1 DEF Commit, Noted, InOrder, TypeOK
  <1>8. CASE r = h.report /\ "patched" \notin astray[r] /\ ~Writes(h.op, h.before, h.after)
    <2>. DEFINE c == IF h.op = "redraft" THEN cycle[r] + 1 ELSE cycle[r]
                a == ApprovalAfter(h.op, h.before, approval[r], cycle[r])
    <2>1. Proper(h.before, approval[r], cycle[r])
      BY <1>2, <1>8, NoRowIsNotRow DEF SerialInv, InOrder
    <2>2. Proper(h.after, a, c)
      BY <1>2, <1>8, <2>1 DEF Orderly
    <2>3. approval'[r] = a /\ cycle'[r] = c
      BY <1>8 DEF Commit, TypeOK, ApprovalAfter
    <2>. HIDE DEF a, c
    <2>4. Proper(new, approval'[r], cycle'[r])
      BY <1>2, <2>2, <2>3, FlushUnchanged DEF Proper
    <2>. QED
      BY <1>3, <1>8, <2>4 DEF InOrder
  <1>. QED
    BY <1>5, <1>6, <1>7, <1>8

LEMMA StepSerialInv ==
    ASSUME \A p, q \in Requests : p = q
    PROVE  TypeOK /\ SerialInv /\ [Next]_vars => SerialInv'
  <1>. SUFFICES ASSUME TypeOK, SerialInv, [Next]_vars PROVE SerialInv'
    OBVIOUS
  <1>1. CASE UNCHANGED vars
    BY <1>1 DEF vars, SerialInv, InOrder
  <1>2. CASE \E r \in Reports : Generate(r)
    <2>1. PICK r \in Reports, b \in Bodies :
            /\ row[r] = NoRow
            /\ row' = [row EXCEPT ![r] =
                         [status |-> "draft", reviewed_by |-> None,
                          approver |-> None, body |-> b]]
      BY <1>2 DEF Generate
    <2>2. UNCHANGED <<req, approval, cycle, astray>>
      BY <1>2 DEF Generate
    <2>3. \A s \in Reports : row'[s] # NoRow => InOrder(s)'
      BY <2>1, <2>2 DEF SerialInv, InOrder, Proper, TypeOK
    <2>4. ASSUME NEW q \in Requests, req[q].pc = "commit"
          PROVE  row'[req[q].report] = row[req[q].report]
      <3>1. req[q] \in Pending /\ req[q] # Idle
        BY <2>4, Holding DEF Idle
      <3>2. req[q].report \in Reports /\ row[req[q].report] # NoRow
        BY <3>1 DEF Pending, TypeOK
      <3>. QED
        BY <2>1, <3>2 DEF TypeOK
    <2>. QED
      BY <2>2, <2>3, <2>4 DEF SerialInv
  <1>3. CASE \E q \in Requests, u \in Compliance : \E r, op, after : Loaded(q, u, r, op, after)
    <2>1. PICK q \in Requests, u \in Compliance : \E r, op, after : Loaded(q, u, r, op, after)
      BY <1>3
    <2>2. PICK r, op, after : Loaded(q, u, r, op, after)
      BY <2>1
    <2>3. \A p \in Requests :
             req'[p] = [pc |-> "commit", op |-> op, user |-> u, report |-> r,
                        before |-> row[r], after |-> after]
      BY <2>2 DEF Loaded, Begin, TypeOK
    <2>4. UNCHANGED <<row, approval, cycle, astray>> /\ Orderly(op, row[r], after)
      BY <2>2 DEF Loaded, Begin
    <2>. QED
      BY <2>3, <2>4 DEF SerialInv, InOrder
  <1>4. CASE \E q \in Requests : Commit(q)
    <2>1. PICK q \in Requests : Commit(q)
      BY <1>4
    <2>2. \A p \in Requests : req'[p].pc # "commit"
      BY <2>1, IdlePc DEF Commit, TypeOK
    <2>. QED
      BY <2>1, <2>2, CommitInOrder DEF SerialInv
  <1>5. CASE \E q \in Requests : RegisterSubmission(q)
    <2>1. PICK q \in Requests : RegisterSubmission(q)
      BY <1>5
    <2>2. req[q] \in Filing
      BY <2>1, Holding DEF RegisterSubmission
    <2>3. [req[q] EXCEPT !.pc = "audit"].pc = "audit"
      BY <2>2 DEF Filing
    <2>4. \A p \in Requests : req'[p].pc # "commit"
      BY <2>1, <2>3, IdlePc DEF RegisterSubmission, TypeOK
    <2>5. UNCHANGED <<row, approval, cycle, astray>>
      BY <2>1 DEF RegisterSubmission
    <2>. QED
      BY <2>4, <2>5 DEF SerialInv, InOrder
  <1>6. CASE \E q \in Requests : LogAction(q) \/ Abort(q)
    <2>1. PICK q \in Requests : LogAction(q) \/ Abort(q)
      BY <1>6
    <2>2. \A p \in Requests : req'[p].pc # "commit"
      BY <2>1, IdlePc DEF LogAction, Abort, TypeOK
    <2>3. UNCHANGED <<row, approval, cycle>>
      BY <2>1 DEF LogAction, Abort
    <2>4. \A r \in Reports : "patched" \in astray[r] => "patched" \in astray'[r]
      BY <2>1 DEF LogAction, Abort, Noted, TypeOK
    <2>. QED
      BY <2>2, <2>3, <2>4 DEF SerialInv, InOrder
  <1>. QED
    BY StepCases, <1>1, <1>2, <1>3, <1>4, <1>5, <1>6

LEMMA Serial ==
    ASSUME \A p, q \in Requests : p = q
    PROVE  Spec => [](TypeOK /\ SerialInv)
  <1>1. Init => SerialInv
    BY IdlePc DEF Init, SerialInv
  <1>. QED
    BY <1>1, StepSerialInv, TypeCorrect, PTL DEF Spec

(* A lodged report has a row. *)
LEMMA LodgedHasRow ==
    ASSUME TypeOK, NEW r \in Reports, Lodged(r)
    PROVE  row[r] # NoRow
  BY DEF Lodged, NoRow

(* Who approved a report, or signed an SMR off, is not who reviewed it, when *)
(* requests come one after the other and no PATCH body writes a workflow column.  With two    *)
(* handlers in flight the code does not keep this: a run shows it.          *)
THEOREM FourEyes ==
    ASSUME \A p, q \in Requests : p = q
    PROVE  Spec => []MakerChecker
  <1>1. TypeOK /\ SerialInv => MakerChecker
    BY LodgedHasRow DEF SerialInv, InOrder, Proper, MakerChecker, Lodged
  <1>. QED
    BY <1>1, Serial, PTL

(* What is submitted is what was approved, under the same conditions. *)
THEOREM ApprovedBodySubmitted ==
    ASSUME \A p, q \in Requests : p = q
    PROVE  Spec => []SubmittedAsApproved
  <1>1. TypeOK /\ SerialInv => SubmittedAsApproved
    BY LodgedHasRow DEF SerialInv, InOrder, Proper, SubmittedAsApproved, Lodged
  <1>. QED
    BY <1>1, Serial, PTL

============================================================================
