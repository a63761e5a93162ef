----------------------------- MODULE Obligations -----------------------------
(***************************************************************************)
(* What has to be done by when: a task with its event log                  *)
(* (app/api/routes/tasks.py), and an item of the compliance calendar with  *)
(* its next occurrence and their reminders                                 *)
(* (app/services/compliance_calendar_service.py).                          *)
(***************************************************************************)
EXTENDS RowRequests, Naturals

CONSTANTS
    Tasks,    \* tasks
    Calendars \* items of the calendar, each with its next occurrence

TaskStatuses == {"open", "in_progress", "waiting_response", "completed", "cancelled"}

(* "trail" is the latest event that names a transition. *)
TaskRows ==
    [task  : [status : TaskStatuses \union {"none"}, assigned : BOOLEAN,
              sent : BOOLEAN, received : BOOLEAN],
     trail : [from : TaskStatuses \union {"none"}, to : TaskStatuses \union {"none"}]]
NewTask ==
    [task  |-> [status |-> "none", assigned |-> FALSE, sent |-> FALSE, received |-> FALSE],
     trail |-> [from |-> "none", to |-> "none"]]

Moved(r, to) == [r EXCEPT !.trail = [from |-> r.task.status, to |-> to], !.task.status = to]

CreateTask(q, e, assigned) ==
    /\ rows[e].task.status = "none"
    /\ Handle(q, e, [Moved(rows[e], "open") EXCEPT !.task.assigned = assigned])

OpenTask(e) == rows[e].task.status \notin {"none", "completed", "cancelled"}

(* An assignment starts an open task; its event names no statuses. *)
AssignTask(q, e) ==
    /\ OpenTask(e)
    /\ Handle(q, e, [rows[e] EXCEPT !.task.assigned = TRUE,
                                    !.task.status = IF @ = "open" THEN "in_progress" ELSE @])

CompleteTask(q, e) == OpenTask(e) /\ Handle(q, e, Moved(rows[e], "completed"))

CancelTask(q, e) == OpenTask(e) /\ Handle(q, e, Moved(rows[e], "cancelled"))

(* A request for information may be sent again after its response. *)
SendRfi(q, e) ==
    /\ OpenTask(e)
    /\ Handle(q, e, [Moved(rows[e], "waiting_response") EXCEPT !.task.sent = TRUE])

RfiReceived(q, e) ==
    /\ rows[e].task.status = "waiting_response"
    /\ Handle(q, e, [Moved(rows[e], "in_progress") EXCEPT !.task.received = TRUE])

TaskRequest(q, e) ==
    \/ \E assigned \in BOOLEAN : CreateTask(q, e, assigned)
    \/ AssignTask(q, e) \/ CompleteTask(q, e) \/ CancelTask(q, e)
    \/ SendRfi(q, e) \/ RfiReceived(q, e)

-----------------------------------------------------------------------------
ItemStatuses == {"scheduled", "completed", "overdue", "escalated"}

ReminderStages == {"30_days", "14_days", "7_days", "due_date", "overdue"}

(* "reached" is how far an item is: from more than 30 days ahead to after its *)
(* due date.                                                                  *)
CalendarRows ==
    [items     : [1 .. 2 -> [status : ItemStatuses \union {"none"}, assigned : BOOLEAN,
                             recurring : BOOLEAN, late : BOOLEAN, escalated : BOOLEAN,
                             reached : 0 .. 5]],
     reminders : [1 .. 2 -> [ReminderStages -> 0 .. 2]],
     sent      : [1 .. 2 -> BOOLEAN]]
Scheduled(assigned, recurring) ==
    [status |-> "scheduled", assigned |-> assigned, recurring |-> recurring, late |-> FALSE,
     escalated |-> FALSE, reached |-> 0]
NewCalendar ==
    [items     |-> [i \in 1 .. 2 |-> [Scheduled(FALSE, FALSE) EXCEPT !.status = "none"]],
     reminders |-> [i \in 1 .. 2 |-> [s \in ReminderStages |-> 0]],
     sent      |-> [i \in 1 .. 2 |-> FALSE]]

CreateItem(q, e, assigned, recurring) ==
    /\ rows[e].items[1].status = "none"
    /\ Handle(q, e, [rows[e] EXCEPT !.items[1] = Scheduled(assigned, recurring)])

(* Items of customers are scheduled for everyone, and for nobody in particular. *)
ScheduleReviews(q, e) ==
    \E i \in 1 .. 2 :
        /\ rows[e].items[i].status = "none" /\ (i = 2 => rows[e].items[1].status # "none")
        /\ Handle(q, e, [rows[e] EXCEPT !.items[i] = Scheduled(FALSE, TRUE)])

(* Completing a recurring item adds its next occurrence; bound: one. *)
CompleteItem(q, e, i) ==
    /\ rows[e].items[i].status \notin {"none", "completed"}
    /\ IF rows[e].items[i].recurring
       THEN \E j \in 1 .. 2 :
              /\ rows[e].items[j].status = "none"
              /\ Handle(q, e, [rows[e] EXCEPT !.items[i].status = "completed",
                                  !.items[j] = Scheduled(rows[e].items[i].assigned, TRUE)])
       ELSE Handle(q, e, [rows[e] EXCEPT !.items[i].status = "completed"])

Due(x) == x.status \notin {"none", "completed"}

(* process_due_reminders: a reminder for each stage that is reached, and one  *)
(* when the item becomes overdue, or does so again after its escalation.      *)
Reminded(r, i) ==
    LET at(s) == CASE s = "30_days" -> 1 [] s = "14_days" -> 2 [] s = "7_days" -> 3
                   [] s = "due_date" -> 4 [] s = "overdue" -> 5
    IN
    [s \in ReminderStages |->
        IF /\ r.reminders[i][s] = 0 /\ r.items[i].assigned /\ Due(r.items[i])
           /\ r.items[i].reached >= at(s)
           /\ s = "overdue" => r.items[i].status # "overdue"
        THEN 1 ELSE r.reminders[i][s]]

ProcessDueReminders(q, e) ==
    /\ \E i \in 1 .. 2 : Due(rows[e].items[i])
    /\ Handle(q, e, [rows[e] EXCEPT
            !.reminders = [i \in 1 .. 2 |-> Reminded(rows[e], i)],
            !.items = [i \in 1 .. 2 |->
                IF Due(@[i]) /\ @[i].reached = 5
                THEN [@[i] EXCEPT !.status = "overdue", !.late = TRUE]
                ELSE @[i]]])

(* What was late is escalated once, also when it was completed meanwhile. *)
EscalateOverdue(q, e) ==
    LET escalated(x) == x.late /\ ~x.escalated
    IN  /\ \E i \in 1 .. 2 : escalated(rows[e].items[i])
        /\ Handle(q, e, [rows[e] EXCEPT !.items = [i \in 1 .. 2 |->
                IF escalated(@[i]) THEN [@[i] EXCEPT !.status = "escalated", !.escalated = TRUE]
                ELSE @[i]]])

MarkReminderSent(q, e, i) ==
    /\ \E s \in ReminderStages : rows[e].reminders[i][s] > 0
    /\ Handle(q, e, [rows[e] EXCEPT !.sent[i] = TRUE])

(* Time goes by to the next stage. *)
Nearer(x) == IF x.status # "none" /\ x.reached < 5 THEN [x EXCEPT !.reached = @ + 1] ELSE x
DaysPass(e) ==
    /\ Pending = {} /\ Touch(e)
    /\ \E i \in 1 .. 2 : Due(rows[e].items[i]) /\ rows[e].items[i].reached < 5
    /\ rows' = [rows EXCEPT ![e].items = [i \in 1 .. 2 |-> Nearer(rows[e].items[i])]]
    /\ UNCHANGED <<req, overdue, raced>>

CalendarRequest(q, e) ==
    \/ \E assigned \in BOOLEAN, recurring \in BOOLEAN : CreateItem(q, e, assigned, recurring)
    \/ ScheduleReviews(q, e)
    \/ \E i \in 1 .. 2 : CompleteItem(q, e, i) \/ MarkReminderSent(q, e, i)
    \/ ProcessDueReminders(q, e) \/ EscalateOverdue(q, e)
    \/ DaysPass(e)

-----------------------------------------------------------------------------
(* The event log accounts for the status of a task: its latest transition     *)
(* leads to it, but for the start by an assignment; and no information is     *)
(* received that was not asked for.                                           *)
TaskTraced ==
    \A e \in Tasks \ raced :
        LET t == rows[e].task
        IN  /\ \/ rows[e].trail.to = t.status
               \/ rows[e].trail.to = "open" /\ t.status = "in_progress" /\ t.assigned
            /\ t.received => t.sent

(* However often reminders are processed, between escalations and             *)
(* completions, an item gets one reminder for each stage, and one that was    *)
(* found late got the overdue one.                                            *)
RemindedOnce ==
    \A e \in Calendars : \A i \in 1 .. 2 :
        LET x == rows[e].items[i]
        IN  /\ \A s \in ReminderStages : rows[e].reminders[i][s] <= 1
            /\ x.late /\ x.assigned => rows[e].reminders[i]["overdue"] = 1

=============================================================================
