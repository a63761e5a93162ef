--------------------------- MODULE DeadlineChecks ---------------------------
(***************************************************************************)
(* Runs of run_all_deadline_checks (app/services/notification_scheduler.py)*)
(* on one day, and the notifications they create through                   *)
(* app/services/compliance_event_notifier.py.                              *)
(*                                                                         *)
(* The cron job and POST /notifications/run-deadline-check both start a    *)
(* run, and nothing keeps two runs apart.  A run is one database session:  *)
(* it goes through the checks in order, and for each due item looks each   *)
(* target user's dedupe key up, inserts the row if there is none, and      *)
(* commits the item.  dedupe_key is unique: an insert waits for the        *)
(* transaction that has inserted the same key, and fails if that commits.  *)
(* Database steps that PostgreSQL decides are marked external.             *)
(***************************************************************************)
EXTENDS Naturals, Sequences, FiniteSets

CONSTANTS
    Runs,          \* the runs of one day
    Users,         \* MLROs and admins of the organisation
    CheckOrder,    \* the checks that run_all_deadline_checks calls, in order
    Due,           \* the items each check finds due today
    Newcomers,     \* users that become active during the day
    MaxFaults      \* bound on the faults: failed statements and dead workers

Checks == {CheckOrder[i] : i \in DOMAIN CheckOrder}
Items == UNION {Due[c] : c \in Checks}
Keys == Items \X Users

ASSUME OrderAssumption == CheckOrder \in Seq(STRING)
ASSUME DueAssumption == DOMAIN Due = Checks
ASSUME NewcomersAssumption == Newcomers \subseteq Users
ASSUME FaultsAssumption == MaxFaults \in Nat

VARIABLES
    table,     \* committed rows: who inserted the row of a key
    flushed,   \* the keys each run has inserted and not yet committed
    run,       \* where each run is
    active,    \* users whose status is active
    faults,    \* faults so far
    sent       \* history: the keys each run has reported as sent

vars == <<table, flushed, run, active, faults, sent>>

-----------------------------------------------------------------------------
Start == [pc |-> "new", at |-> 0, todo |-> {}, item |-> <<>>, targets |-> {},
          reached |-> {}, key |-> <<>>, broken |-> FALSE]

Init ==
    /\ table = {}
    /\ flushed = [r \in Runs |-> {}]
    /\ run = [r \in Runs |-> Start]
    /\ active = Users \ Newcomers
    /\ faults = 0
    /\ sent = [r \in Runs |-> {}]

Committed == {row.key : row \in table}

(* The report checks filter by ReportStatus.draft and .pending_review. *)
ReportStatuses == {"draft", "under_review", "approved", "submitted",
                   "acknowledged", "rejected"}
FilterStatuses == {"draft", "pending_review"}
ReportChecks == {"smr_deadlines", "ifti_deadlines", "ttr_deadlines"}

(* Naming a status that the enum does not have raises AttributeError. *)
FilterRaises(c) == c \in ReportChecks /\ ~(FilterStatuses \subseteq ReportStatuses)

(* Mutant of NextCheck: one check too many. *)
NextCheckTooFar(r) ==
    IF run[r].at <= Len(CheckOrder)
      THEN [run[r] EXCEPT !.pc = "check", !.at = @ + 1]
      ELSE [run[r] EXCEPT !.pc = "returned"]

(* The call that follows in run_all_deadline_checks, or its return. *)
NextCheck(r) ==
    IF run[r].at < Len(CheckOrder)
      THEN [run[r] EXCEPT !.pc = "check", !.at = @ + 1]
      ELSE [run[r] EXCEPT !.pc = "returned"]

Begin(r) ==
    /\ run[r].pc = "new"
    /\ run' = [run EXCEPT ![r] = NextCheck(r)]
    /\ UNCHANGED <<table, flushed, active, faults, sent>>

Check(r) == CheckOrder[run[r].at]

(* Mutant of QueryRaises: the check is tried again until its query succeeds. *)
QueryRetried(r) ==
    /\ run[r].pc = "check"
    /\ run[r].broken \/ FilterRaises(Check(r))
    /\ UNCHANGED vars

(* The query of a check raises, because of its filter or because the        *)
(* session is broken; the check logs it and returns 0.                      *)
QueryRaises(r) ==
    /\ run[r].pc = "check"
    /\ run[r].broken \/ FilterRaises(Check(r))
    /\ run' = [run EXCEPT ![r] = NextCheck(r)]
    /\ UNCHANGED <<table, flushed, active, faults, sent>>

Query(r) ==
    /\ run[r].pc = "check"
    /\ ~run[r].broken /\ ~FilterRaises(Check(r))
    /\ run' = [run EXCEPT ![r].pc = "items", ![r].todo = Due[Check(r)]]
    /\ UNCHANGED <<table, flushed, active, faults, sent>>

CheckDone(r) ==
    /\ run[r].pc = "items"
    /\ run[r].todo = {}
    /\ run' = [run EXCEPT ![r] = NextCheck(r)]
    /\ UNCHANGED <<table, flushed, active, faults, sent>>

(* notify_*: the item's targets are the users active now. *)
Notify(r) ==
    /\ run[r].pc = "items"
    /\ \E i \in run[r].todo :
          run' = [run EXCEPT ![r].pc = "targets", ![r].item = i,
                             ![r].todo = @ \ {i}, ![r].targets = active,
                             ![r].reached = active]
    /\ UNCHANGED <<table, flushed, active, faults, sent>>

(* Mutant of Select: the dedupe key does not name the user. *)
SelectByItem(r) ==
    /\ run[r].pc = "targets"
    /\ \E u \in run[r].targets :
          run' = [run EXCEPT
                    ![r].targets = @ \ {u},
                    ![r].key = <<run[r].item, u>>,
                    ![r].pc = IF \E k \in Committed \union flushed[r] : k[1] = run[r].item
                                THEN "targets" ELSE "insert"]
    /\ UNCHANGED <<table, flushed, active, faults, sent>>

(* _create looks the key of the next target up.  The query for the targets  *)
(* has no ORDER BY: they come in any order.                                 *)
Select(r) ==
    /\ run[r].pc = "targets"
    /\ \E u \in run[r].targets :
          run' = [run EXCEPT
                    ![r].targets = @ \ {u},
                    ![r].key = <<run[r].item, u>>,
                    ![r].pc = IF <<run[r].item, u>> \in Committed \union flushed[r]
                                THEN "targets" ELSE "insert"]
    /\ UNCHANGED <<table, flushed, active, faults, sent>>

(* External: the unique index makes the insert wait. *)
WaitsFor(r, s) ==
    /\ r # s
    /\ run[r].pc = "insert"
    /\ run[r].key \in flushed[s]

Blocked(r) == \E s \in Runs : WaitsFor(r, s)

(* The email that goes with the row has no effect on the session: its       *)
(* errors are logged.                                                       *)
Insert(r) ==
    /\ run[r].pc = "insert"
    /\ ~Blocked(r)
    /\ run[r].key \notin Committed
    /\ flushed' = [flushed EXCEPT ![r] = @ \union {run[r].key}]
    /\ run' = [run EXCEPT ![r].pc = "targets"]
    /\ UNCHANGED <<table, active, faults, sent>>

(* Mutant of Conflict: dedupe_key is not unique, the insert goes through. *)
ConflictIgnored(r) ==
    /\ run[r].pc = "insert"
    /\ ~Blocked(r)
    /\ run[r].key \in Committed
    /\ flushed' = [flushed EXCEPT ![r] = @ \union {run[r].key}]
    /\ run' = [run EXCEPT ![r].pc = "targets"]
    /\ UNCHANGED <<table, active, faults, sent>>

(* IntegrityError: _create rolls the whole session back, finds the row of   *)
(* the other run and returns it; the item goes on with the next target.     *)
Conflict(r) ==
    /\ run[r].pc = "insert"
    /\ ~Blocked(r)
    /\ run[r].key \in Committed
    /\ flushed' = [flushed EXCEPT ![r] = {}]
    /\ run' = [run EXCEPT ![r].pc = "targets"]
    /\ UNCHANGED <<table, active, faults, sent>>

(* A statement raises anything else: the transaction is gone, the check     *)
(* swallows the exception, and without a rollback() the session stays       *)
(* broken for the checks that follow.                                       *)
Swallow(r) ==
    /\ flushed' = [flushed EXCEPT ![r] = {}]
    /\ run' = [run EXCEPT ![r] = [NextCheck(r) EXCEPT !.broken = TRUE]]
    /\ UNCHANGED <<table, active, sent>>

(* External: runs that wait for each other in a circle; the database aborts *)
(* one of them.                                                             *)
Deadlock(r) ==
    /\ \E C \in SUBSET Runs :
          /\ r \in C
          /\ \A s \in C : \E t \in C : WaitsFor(s, t)
          /\ \A s \in C : \E t \in C : WaitsFor(t, s)
    /\ Swallow(r)
    /\ UNCHANGED faults

(* A lost connection or a statement the database refuses. *)
Fault(r) ==
    /\ run[r].pc \in {"check", "targets", "insert"}
    /\ ~run[r].broken
    /\ faults < MaxFaults
    /\ faults' = faults + 1
    /\ Swallow(r)

(* The worker dies in the middle of the run; the database rolls it back. *)
Die(r) ==
    /\ run[r].pc \notin {"new", "returned", "dead"}
    /\ faults < MaxFaults
    /\ faults' = faults + 1
    /\ flushed' = [flushed EXCEPT ![r] = {}]
    /\ run' = [run EXCEPT ![r].pc = "dead"]
    /\ UNCHANGED <<table, active, sent>>

(* Mutant of Commit: notify_* counts its targets and does not commit. *)
CommitForgotten(r) ==
    /\ run[r].pc = "targets"
    /\ run[r].targets = {}
    /\ flushed' = [flushed EXCEPT ![r] = {}]
    /\ sent' = [sent EXCEPT ![r] = @ \union ({run[r].item} \X run[r].reached)]
    /\ run' = [run EXCEPT ![r].pc = "items"]
    /\ UNCHANGED <<table, active, faults>>

(* The commit of notify_*, which then returns the number of its targets. *)
Commit(r) ==
    /\ run[r].pc = "targets"
    /\ run[r].targets = {}
    /\ table' = table \union {[key |-> k, by |-> r] : k \in flushed[r]}
    /\ flushed' = [flushed EXCEPT ![r] = {}]
    /\ sent' = [sent EXCEPT ![r] = @ \union ({run[r].item} \X run[r].reached)]
    /\ run' = [run EXCEPT ![r].pc = "items"]
    /\ UNCHANGED <<active, faults>>

(* A user is activated, or promoted, during the day. *)
Activate(u) ==
    /\ u \in Newcomers \ active
    /\ active' = active \union {u}
    /\ UNCHANGED <<table, flushed, run, faults, sent>>

-----------------------------------------------------------------------------
Step(r) ==
    \/ Begin(r) \/ QueryRaises(r) \/ Query(r) \/ CheckDone(r)
    \/ Notify(r) \/ Select(r) \/ Insert(r) \/ Conflict(r) \/ Deadlock(r)
    \/ Commit(r)

Next ==
    \/ \E r \in Runs : Step(r) \/ Fault(r) \/ Die(r)
    \/ \E u \in Users : Activate(u)

Spec == Init /\ [][Next]_vars

(* A run is a thread that keeps going until it returns. *)
FairSpec == Spec /\ \A r \in Runs : WF_vars(Step(r))

-----------------------------------------------------------------------------
RunStates == [pc : {"new", "check", "items", "targets", "insert", "returned", "dead"},
              at : 0 .. Len(CheckOrder), todo : SUBSET Items,
              item : Items \union {<<>>}, targets : SUBSET Users,
              reached : SUBSET Users, key : Keys \union {<<>>}, broken : BOOLEAN]

(* Each variable has its type, and a run is at a check when it works on one. *)
TypeOK ==
    /\ table \subseteq [key : Keys, by : Runs]
    /\ flushed \in [Runs -> SUBSET Keys]
    /\ run \in [Runs -> RunStates]
    /\ active \in SUBSET Users
    /\ faults \in 0 .. MaxFaults
    /\ sent \in [Runs -> SUBSET Keys]
    /\ \A r \in Runs : run[r].pc \notin {"new", "returned"} => run[r].at >= 1

(* A user gets one notification a day about an item, however many runs      *)
(* overlap.                                                                 *)
NotifiedOnce == \A a, b \in table : a.key = b.key => a = b

(* What a run reports as sent is in the table, even if its inserts clashed  *)
(* with another run's and its session was rolled back, as long as the users *)
(* that are notified do not change during the day.                          *)
ReportedIsStored ==
    active = Users \ Newcomers => \A r \in Runs : sent[r] \subseteq Committed

AllReturned == \A r \in Runs : run[r].pc = "returned"

(* Users that are active all day have a notification of each due item of a  *)
(* check that can query.                                                    *)
AllNotified ==
    \A c \in Checks : ~FilterRaises(c) => Due[c] \X (Users \ Newcomers) \subseteq Committed

(* Once the runs of a day without faults have returned, nobody active all   *)
(* day has been passed over, even if deadlocks cut runs short.              *)
DueNotified == AllReturned /\ faults = 0 => AllNotified

(* Every run comes to its end: waiting for another run's key does not last. *)
RunsReturn == \A r \in Runs : <>(run[r].pc \in {"returned", "dead"})

=============================================================================
