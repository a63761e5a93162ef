----------------------------- MODULE AmlPrograms -----------------------------
(***************************************************************************)
(* An organisation's AML/CTF programs with the enterprise-wide risk        *)
(* assessment (app/api/routes/aml_program.py), and the generated program   *)
(* with its version history and the retrievals of old versions             *)
(* (app/services/aml_program_service.py, program_retention_service.py).    *)
(***************************************************************************)
EXTENDS RowRequests, Naturals, FiniteSets

CONSTANTS
    Programs,      \* organisations that write their programs themselves
    Generated,     \* organisations with a generated program
    MaxVersion,    \* bound on the versions of a generated program
    MaxRetrievals  \* MAX_LIFETIME_RETRIEVALS

ASSUME ProgramAssumption == MaxVersion \in Nat /\ MaxRetrievals \in Nat \ {0}

Drafts == {"v1", "v2"}  \* program versions
ProgramStatuses == {"draft", "under_review", "active", "superseded"}
EwraStatuses == {"draft", "in_progress", "completed", "approved"}
Wordings == {"before", "after"}

(* "signed" is history: the wording the MLRO activated or approved. *)
ProgramRow == [status : ProgramStatuses \union {"none"}, text : Wordings,
               signed : Wordings \union {"none"}]
ProgramRows ==
    [v1 : ProgramRow, v2 : ProgramRow,
     ewra : [status : EwraStatuses \union {"none"}, text : Wordings,
             signed : Wordings \union {"none"}]]

NewProgram ==
    LET none == [status |-> "none", text |-> "before", signed |-> "none"]
    IN  [v1 |-> none, v2 |-> none, ewra |-> none]

Editable == {"draft", "under_review"}

CreateProgram(q, e, v) ==
    /\ Free(e, v, "status", "none")
    /\ Handle(q, e, [rows[e] EXCEPT ![v].status = "draft"])

UpdateProgram(q, e, v, text) ==
    /\ rows[e][v].status \in Editable
    /\ Handle(q, e, [rows[e] EXCEPT ![v].text = text])

SubmitForReview(q, e, v) ==
    /\ rows[e][v].status = "draft"
    /\ Handle(q, e, [rows[e] EXCEPT ![v].status = "under_review"])

(* Mutant of Superseded: the program in force stays. *)
SupersededNot(r) == r

(* The bulk UPDATE of whatever program is active. *)
Superseded(r) ==
    [r EXCEPT !.v1.status = IF @ = "active" THEN "superseded" ELSE @,
              !.v2.status = IF @ = "active" THEN "superseded" ELSE @]

(* From a draft or from review. *)
ActivateProgram(q, e, v) ==
    /\ rows[e][v].status \in Editable
    /\ Handle(q, e, [Superseded(rows[e]) EXCEPT ![v].status = "active",
                                                ![v].signed = rows[e][v].text])

RecordAnnualReview(q, e, v, changes) ==
    /\ rows[e][v].status = "active"
    /\ Handle(q, e, [rows[e] EXCEPT ![v].status = IF changes THEN "under_review" ELSE @])

CreateEwra(q, e) ==
    /\ Free(e, "ewra", "status", "none")
    /\ Handle(q, e, [rows[e] EXCEPT !.ewra.status = "draft"])

(* Also when it is completed, and without a change of that status. *)
UpdateEwra(q, e, text) ==
    /\ rows[e].ewra.status \in EwraStatuses \ {"approved"}
    /\ Handle(q, e, [rows[e] EXCEPT !.ewra.text = text,
            !.ewra.status = IF @ = "draft" THEN "in_progress" ELSE @])

CompleteEwra(q, e) ==
    /\ rows[e].ewra.status \in EwraStatuses \ {"approved"}
    /\ Handle(q, e, [rows[e] EXCEPT !.ewra.status = "completed"])

ApproveEwra(q, e) ==
    /\ rows[e].ewra.status = "completed"
    /\ Handle(q, e, [rows[e] EXCEPT !.ewra.status = "approved", !.ewra.signed = rows[e].ewra.text])

ProgramRequest(q, e) ==
    \/ \E v \in Drafts :
         \/ CreateProgram(q, e, v) \/ SubmitForReview(q, e, v) \/ ActivateProgram(q, e, v)
         \/ \E text \in Wordings : UpdateProgram(q, e, v, text)
         \/ \E changes \in BOOLEAN : RecordAnnualReview(q, e, v, changes)
    \/ CreateEwra(q, e) \/ CompleteEwra(q, e) \/ ApproveEwra(q, e)
    \/ \E text \in Wordings : UpdateEwra(q, e, text)

-----------------------------------------------------------------------------
(* The generated program: its version counter, the snapshots of its versions  *)
(* and the log of retrievals, whose places requests fill.                      *)
Places == 1 .. MaxVersion + 1
Visits == 1 .. MaxRetrievals + Cardinality(Requests)
GeneratedRows ==
    [program : [version : 0 .. MaxVersion],
     snapshots : [Places -> 0 .. MaxVersion],
     retrievals : [Visits -> 0 .. MaxVersion]]

NewGenerated ==
    [program |-> [version |-> 0], snapshots |-> [s \in Places |-> 0],
     retrievals |-> [s \in Visits |-> 0]]

(* The first program of an organisation is unique. *)
GenerateProgram(q, e, s) ==
    LET next == rows[e].program.version + 1 IN
    /\ next <= MaxVersion
    /\ next = 1 => Free(e, "program", "version", 0)
    /\ Free(e, "snapshots", s, 0)
    /\ Handle(q, e, [rows[e] EXCEPT !.program.version = next, !.snapshots[s] = next])

Retrieved(r) == {s \in Visits : r.retrievals[s] # 0}

(* The subscription has lapsed, and the cooldown since the last retrieval is  *)
(* over (it is counted in hours, and one that lasts is not modelled).         *)
RequestOldVersion(q, e, s, v) ==
    /\ v < rows[e].program.version
    /\ Cardinality(Retrieved(rows[e])) < MaxRetrievals
    /\ Free(e, "retrievals", s, 0)
    /\ Handle(q, e, [rows[e] EXCEPT !.retrievals[s] = v])

GeneratedRequest(q, e) ==
    \/ \E s \in Places : GenerateProgram(q, e, s)
    \/ \E s \in Visits, v \in 1 .. MaxVersion : RequestOldVersion(q, e, s, v)

-----------------------------------------------------------------------------
(* One program is in force, as the MLRO activated it: through reviews, edits  *)
(* and reactivations an organisation never has two active programs, and the   *)
(* wording of the active one, and of an approved assessment, is the one that  *)
(* was signed.                                                                *)
OneProgramAsSigned ==
    \A e \in Programs \ raced :
        /\ \A v, w \in Drafts : rows[e][v].status = "active" /\ rows[e][w].status = "active" => v = w
        /\ \A v \in Drafts : rows[e][v].status = "active" => rows[e][v].signed = rows[e][v].text
        /\ rows[e].ewra.status = "approved" => rows[e].ewra.signed = rows[e].ewra.text

(* No version of the generated program is without its snapshot, also when     *)
(* generations overlap (two of them then have one number).  Requests that do  *)
(* not overlap keep the lifetime limit of retrievals.  Each tests the limit   *)
(* before the others have inserted, so that those that overlap get past what  *)
(* request_old_version says is "capped", by at most one for each request in   *)
(* flight beside the last.                                                    *)
VersionsKept ==
    \A e \in Generated :
        /\ \A v \in 1 .. rows[e].program.version : \E s \in Places : rows[e].snapshots[s] = v
        /\ e \notin raced => Cardinality(Retrieved(rows[e])) <= MaxRetrievals
        /\ Cardinality(Retrieved(rows[e])) <= MaxRetrievals + Cardinality(Requests) - 1

=============================================================================
