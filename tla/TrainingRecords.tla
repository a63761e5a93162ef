--------------------------- MODULE TrainingRecords ---------------------------
(***************************************************************************)
(* One person's records of one training course and the regulatory update   *)
(* that assigns it (app/api/routes/governance/training.py, the trigger     *)
(* rules of app/services/risk_triggered_training_service.py, and the       *)
(* overdue check of app/services/notification_scheduler.py).               *)
(*                                                                         *)
(* A record's status column is a calculation over the other columns and    *)
(* the date; handlers store it at different times, and some store one of   *)
(* their own.  A date is over when it is in "overdue".                     *)
(***************************************************************************)
EXTENDS RowRequests, Naturals

CONSTANTS
    Trainees,    \* a person and a course
    MaxAttempts  \* of the course: attempts at its assessment

ASSUME AttemptsAssumption == MaxAttempts \in Nat \ {0}

Cycles == {"cycle", "next"}  \* the first record, and one more for the next cycle
Days == {"d1", "d2"}
TrainingStatuses == {"assigned", "in_progress", "completed", "expired", "overdue", "exempt"}

TrainingRecordRow ==
    [status : TrainingStatuses \union {"none"}, due : Days, started : BOOLEAN,
     done : BOOLEAN, passed : {"none", "yes", "no"}, expiry : Days \union {"never"},
     attempt : 1 .. MaxAttempts, exempt : BOOLEAN]
TrainingRows == [cycle : TrainingRecordRow, next : TrainingRecordRow,
                 update : [status : {"draft", "published", "archived"}]]

NewRecord(due) ==
    [status |-> "assigned", due |-> due, started |-> FALSE, done |-> FALSE, passed |-> "none",
     expiry |-> "never", attempt |-> 1, exempt |-> FALSE]
NewTraining ==
    LET none == [NewRecord("d1") EXCEPT !.status = "none"]
    IN  [cycle |-> none, next |-> none, update |-> [status |-> "draft"]]

ComputeStatus(r) ==
    IF r.exempt THEN "exempt"
    ELSE IF r.done THEN IF r.expiry \in overdue THEN "expired" ELSE "completed"
    ELSE IF r.due \in overdue THEN "overdue"
    ELSE IF r.started THEN "in_progress"
    ELSE "assigned"

SyncStatus(r) == IF r.status = "none" THEN r ELSE [r EXCEPT !.status = ComputeStatus(r)]

Recorded(e, t) == rows[e][t].status # "none"

-----------------------------------------------------------------------------
(* Assigning: each of these inserts a record, and create_record does no more. *)

Insert(q, e, t, due) ==
    /\ Free(e, t, "status", "none")
    /\ t = "next" => Recorded(e, "cycle")
    /\ Handle(q, e, [rows[e] EXCEPT ![t] = NewRecord(due)])

(* Nobody is assigned a course twice, unless overdue or expired. *)
CreateAssignment(q, e, t, due) ==
    /\ \A u \in Cycles : rows[e][u].status \notin {"assigned", "in_progress", "completed"}
    /\ Insert(q, e, t, due)

RenewTraining(q, e, due) ==
    /\ rows[e].cycle.status \in {"expired", "completed"}
    /\ Insert(q, e, "next", due)

(* _is_in_cooldown: the course was assigned recently; it ends with d1. *)
Cooldown(e) == "d1" \notin overdue /\ \E t \in Cycles : Recorded(e, t)

EvaluateRiskEvent(q, e, t, due) == ~Cooldown(e) /\ Insert(q, e, t, due)

PublishRegulatoryUpdate(q, e, t, due) ==
    /\ rows[e].update.status = "draft"
    /\ ~Cooldown(e) => Free(e, t, "status", "none") /\ (t = "next" => Recorded(e, "cycle"))
    /\ Handle(q, e, [rows[e] EXCEPT !.update.status = "published",
                                    ![t] = IF Cooldown(e) THEN @ ELSE NewRecord(due)])

ArchiveRegulatoryUpdate(q, e) == Handle(q, e, [rows[e] EXCEPT !.update.status = "archived"])

-----------------------------------------------------------------------------
(* The life of a record. *)

(* The status is stored whenever the record is looked at. *)
GetRecord(q, e, t) == Recorded(e, t) /\ Handle(q, e, [rows[e] EXCEPT ![t] = SyncStatus(@)])

ListRecords(q, e) ==
    /\ \E t \in Cycles : Recorded(e, t)
    /\ Handle(q, e, [rows[e] EXCEPT !.cycle = SyncStatus(@), !.next = SyncStatus(@)])

(* In progress, also when overdue. *)
StartTraining(q, e, t) ==
    /\ Recorded(e, t) /\ ~rows[e][t].exempt /\ ~rows[e][t].done
    /\ Handle(q, e, [rows[e] EXCEPT ![t].started = TRUE, ![t].status = "in_progress"])

(* A completed record that has expired may be completed once more. *)
CompleteTraining(q, e, t, passed, expiry) ==
    /\ Recorded(e, t) /\ ~rows[e][t].exempt
    /\ ~(rows[e][t].done /\ rows[e][t].status = "completed")
    /\ Handle(q, e, [rows[e] EXCEPT
            ![t] = SyncStatus([@ EXCEPT !.done = TRUE, !.passed = passed, !.expiry = expiry])])

GrantExemption(q, e, t) ==
    /\ Recorded(e, t) /\ ~rows[e][t].done
    /\ Handle(q, e, [rows[e] EXCEPT ![t].exempt = TRUE, ![t].status = "exempt"])

RevokeExemption(q, e, t) ==
    /\ rows[e][t].exempt
    /\ Handle(q, e, [rows[e] EXCEPT ![t] = SyncStatus([@ EXCEPT !.exempt = FALSE])])

NextAttempt(r) ==
    [r EXCEPT !.attempt = @ + 1, !.done = FALSE, !.passed = "none", !.expiry = "never",
              !.started = FALSE]

(* Mutant of RetakeTraining: the number of attempts is not looked at. *)
RetakeTrainingAnyNumber(q, e, t) ==
    /\ ~rows[e][t].exempt
    /\ rows[e][t].passed = "no"
    /\ Handle(q, e, [rows[e] EXCEPT ![t] = SyncStatus(NextAttempt(@))])

RetakeTraining(q, e, t) ==
    /\ ~rows[e][t].exempt
    /\ rows[e][t].passed = "no"
    /\ rows[e][t].attempt < MaxAttempts
    /\ Handle(q, e, [rows[e] EXCEPT ![t] = SyncStatus(NextAttempt(@))])

(* Mutant of OverdueSet: a completed record past its date counts. *)
OverdueSetCompleted(e) ==
    {t \in Cycles : Recorded(e, t) /\ rows[e][t].due \in overdue /\ ~rows[e][t].exempt}

OverdueSet(e) ==
    {t \in Cycles : /\ Recorded(e, t) /\ rows[e][t].due \in overdue
                    /\ ~rows[e][t].done /\ ~rows[e][t].exempt}

MarkedOverdue(r, ts) ==
    [r EXCEPT !.cycle.status = IF "cycle" \in ts THEN "overdue" ELSE @,
              !.next.status = IF "next" \in ts THEN "overdue" ELSE @]

ListOverdue(q, e) ==
    OverdueSet(e) # {} /\ Handle(q, e, MarkedOverdue(rows[e], OverdueSet(e)))

(* The daily check goes by the stored status, and only on some days. *)
CheckTrainingOverdue(q, e) ==
    LET late == {t \in Cycles : /\ rows[e][t].status \in {"assigned", "in_progress"}
                                /\ rows[e][t].due \in overdue}
    IN  late # {} /\ Handle(q, e, MarkedOverdue(rows[e], late))

TrainingRequest(q, e) ==
    \/ \E t \in Cycles, due \in Days \ overdue :
         \/ CreateAssignment(q, e, t, due) \/ Insert(q, e, t, due)
         \/ EvaluateRiskEvent(q, e, t, due) \/ PublishRegulatoryUpdate(q, e, t, due)
    \/ \E due \in Days \ overdue : RenewTraining(q, e, due)
    \/ ArchiveRegulatoryUpdate(q, e)
    \/ \E t \in Cycles :
         \/ GetRecord(q, e, t) \/ StartTraining(q, e, t) \/ GrantExemption(q, e, t)
         \/ RevokeExemption(q, e, t) \/ RetakeTraining(q, e, t)
         \/ \E passed \in {"yes", "no"}, expiry \in Days \union {"never"} :
                CompleteTraining(q, e, t, passed, expiry)
    \/ ListRecords(q, e) \/ ListOverdue(q, e) \/ CheckTrainingOverdue(q, e)

-----------------------------------------------------------------------------
(* Nothing takes a pass back while it is valid: a record that was completed   *)
(* with a pass and has not expired keeps its completion, its result and its   *)
(* expiry date, whatever status the sweeps and reads have stored meanwhile.   *)
PassStands ==
    [][\A e \in Trainees, t \in Cycles :
         rows[e][t].done /\ rows[e][t].passed = "yes" /\ rows[e][t].expiry \notin overdue
           => /\ rows'[e][t].done /\ rows'[e][t].passed = "yes"
              /\ rows'[e][t].expiry = rows[e][t].expiry
      ]_rows

=============================================================================
