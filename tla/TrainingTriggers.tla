--------------------------- MODULE TrainingTriggers ---------------------------
(***************************************************************************)
(* One training course of an organisation and everything that assigns it:  *)
(* trigger rules that answer risk events, regulatory updates that are      *)
(* published (app/api/routes/training_triggers.py,                         *)
(* app/services/risk_triggered_training_service.py), and assignments in    *)
(* bulk (app/api/routes/governance/training.py).                           *)
(*                                                                         *)
(* A person's records are counted; "recent" says that one is younger than  *)
(* the cooldown, "live" that one is stored as assigned, in progress or     *)
(* completed.  TrainingRecords has the life of a record.                   *)
(***************************************************************************)
EXTENDS TrainingRecords

CONSTANTS
    Teams,        \* organisations with one course each
    Trained,      \* the active users of an organisation
    TriggerRules, \* what rules are created and seeded with
    MaxGiven      \* bound: records of one person

ASSUME GivenAssumption == MaxGiven \in Nat \ {0} /\ IsFiniteSet(Trained)

TriggerStatuses == {"active", "inactive", "archived"}
RulePlaces == 1 .. 2

(* "to" is who the rule is for, unless it is for whoever handled the entity;  *)
(* "suits" says whether the event meets its conditions; a rule of the         *)
(* platform belongs to no organisation and is inserted by hand.               *)
TriggerRule == [handled : BOOLEAN, to : SUBSET Trained, suits : BOOLEAN, cooldown : BOOLEAN,
                override : BOOLEAN, platform : BOOLEAN]

ASSUME TriggersAssumption == TriggerRules \subseteq TriggerRule

NoRule == [status |-> "none", rule |-> <<>>]

TeamRows ==
    [course : [offered : BOOLEAN, custom : BOOLEAN, active : BOOLEAN],
     rules  : [RulePlaces -> {NoRule} \union
                  [status : TriggerStatuses, rule : {<<x>> : x \in TriggerRule}]],
     given  : [Trained -> [count : 0 .. MaxGiven, recent : BOOLEAN, live : BOOLEAN]],
     books  : [assigned : Nat, logged : Nat, bulk : Nat],
     update : [status : {"none", "draft", "published", "archived"}, to : SUBSET Trained,
               notified : 0 .. 1, created : Nat],
     flag   : [status : {"none", "open", "reviewed", "cleared"}, oversight : BOOLEAN]]
NewTeam ==
    [course |-> [offered |-> FALSE, custom |-> FALSE, active |-> FALSE],
     rules  |-> [k \in RulePlaces |-> NoRule],
     given  |-> [u \in Trained |-> [count |-> 0, recent |-> FALSE, live |-> FALSE]],
     books  |-> [assigned |-> 0, logged |-> 0, bulk |-> 0],
     update |-> [status |-> "none", to |-> {}, notified |-> 0, created |-> 0],
     flag   |-> [status |-> "none", oversight |-> FALSE]]

-----------------------------------------------------------------------------
(* The course. *)

SeedCourses(q, e) ==
    /\ ~rows[e].course.offered
    /\ Handle(q, e, [rows[e] EXCEPT !.course = [offered |-> TRUE, custom |-> FALSE, active |-> TRUE]])

CreateCourse(q, e) ==
    /\ ~rows[e].course.offered
    /\ Handle(q, e, [rows[e] EXCEPT !.course = [offered |-> TRUE, custom |-> TRUE, active |-> TRUE]])

UpdateCourse(q, e, active) ==
    /\ rows[e].course.offered
    /\ Handle(q, e, [rows[e] EXCEPT !.course.active = active])

DeleteCourse(q, e) ==
    /\ rows[e].course.custom
    /\ Handle(q, e, [rows[e] EXCEPT !.course.active = FALSE])

-----------------------------------------------------------------------------
(* The rules. *)

CreateRule(q, e, k, x) ==
    /\ rows[e].rules[k].status = "none" /\ rows[e].course.offered
    /\ Handle(q, e, [rows[e] EXCEPT !.rules[k] = [status |-> "active", rule |-> <<x>>]])

OursIs(r, k) == r.rules[k].status # "none" /\ ~r.rules[k].rule[1].platform

(* An edit changes anything but the course, also of an archived rule. *)
UpdateRule(q, e, k, x, status) ==
    /\ OursIs(rows[e], k) /\ ~x.platform
    /\ Handle(q, e, [rows[e] EXCEPT !.rules[k] = [status |-> status, rule |-> <<x>>]])

DeactivateRule(q, e, k) ==
    /\ OursIs(rows[e], k)
    /\ Handle(q, e, [rows[e] EXCEPT !.rules[k].status = "archived"])

-----------------------------------------------------------------------------
(* Assigning. *)

(* Each person's records, numbered in their order. *)
RecordsOf(given) == UNION {{u} \X (1 .. given[u].count) : u \in Trained}
GivenTo(r) == Cardinality(RecordsOf(r.given))

(* So many more records for each person. *)
WithMore(given, more) ==
    [u \in Trained |->
        IF more[u] = 0 THEN given[u]
        ELSE [count |-> given[u].count + more[u], recent |-> TRUE, live |-> TRUE]]

(* _create_training_records_direct: an assignment, and a record for each      *)
(* target that is not in its cooldown; a flush after each record lets the     *)
(* next look for a cooldown find it.                                          *)
Assigned(r, targets, cooldown) ==
    LET new == {u \in targets : ~(cooldown /\ r.given[u].recent)}
    IN  [r EXCEPT !.given = WithMore(r.given, [u \in Trained |-> IF u \in new THEN 1 ELSE 0]),
                  !.books.assigned = @ + Cardinality(new),
                  !.books.logged = @ + Cardinality(new)]

TargetUsers(x, handler) == IF x.handled THEN handler ELSE x.to

(* The rules an event meets: those of the organisation, and those of the      *)
(* platform unless one of the organisation's overrides them.                  *)
RulesFor(r) ==
    LET active == {k \in RulePlaces : r.rules[k].status = "active"}
        own == {k \in active : OursIs(r, k)}
    IN  IF \E k \in own : r.rules[k].rule[1].override THEN own ELSE active

FiredBy(r, handler) ==
    LET one(k, s) == LET x == r.rules[k].rule[1] IN
            IF k \in RulesFor(r) /\ x.suits /\ TargetUsers(x, handler) # {}
            THEN Assigned(s, TargetUsers(x, handler), x.cooldown)
            ELSE s
    IN  one(2, one(1, r))

WithinBound(r) == \A u \in Trained : r.given[u].count <= MaxGiven

(* manual_fire evaluates all rules of the event. *)
ManualFire(q, e, k, handler) ==
    /\ OursIs(rows[e], k) /\ rows[e].rules[k].status = "active"
    /\ WithinBound(FiredBy(rows[e], handler))
    /\ Handle(q, e, FiredBy(rows[e], handler))

(* Assigning in bulk asks whether a record is live, and does not see the ones *)
(* it has just added: who is named twice gets two.                            *)
BulkAssign(q, e, users) ==
    /\ rows[e].course.offered /\ rows[e].course.active
    /\ LET new == {i \in DOMAIN users : ~rows[e].given[users[i]].live}
           times == [u \in Trained |-> Cardinality({i \in new : users[i] = u})]
           r == [rows[e] EXCEPT !.given = WithMore(rows[e].given, times),
                                !.books.assigned = @ + Cardinality(new),
                                !.books.bulk = @ + Cardinality(new)]
       IN  WithinBound(r) /\ Handle(q, e, r)

-----------------------------------------------------------------------------
(* Regulatory updates and assessment flags. *)

CreateRegulatoryUpdate(q, e, to) ==
    /\ rows[e].update.status = "none"
    /\ Handle(q, e, [rows[e] EXCEPT !.update = [status |-> "draft", to |-> to,
                                                notified |-> 0, created |-> 0]])

UpdateRegulatoryUpdate(q, e, to) ==
    /\ rows[e].update.status = "draft"
    /\ Handle(q, e, [rows[e] EXCEPT !.update.to = to])

(* Without a course, or without anyone it is for, an organisation is passed   *)
(* over and the update is published all the same.                             *)
Broadcast(r) ==
    IF r.course.active /\ r.update.to # {}
    THEN LET s == Assigned(r, r.update.to, TRUE)
         IN  [s EXCEPT !.update = [status |-> "published", to |-> r.update.to, notified |-> 1,
                                   created |-> s.books.assigned - r.books.assigned]]
    ELSE [r EXCEPT !.update.status = "published"]

PublishUpdate(q, e) ==
    /\ rows[e].update.status = "draft"
    /\ WithinBound(Broadcast(rows[e]))
    /\ Handle(q, e, Broadcast(rows[e]))

ArchiveUpdate(q, e) ==
    /\ rows[e].update.status # "none"
    /\ Handle(q, e, [rows[e] EXCEPT !.update.status = "archived"])

(* create_assessment_flag, for a failed attempt: the first or a later one. *)
CreateAssessmentFlag(q, e, again) ==
    /\ rows[e].flag.status = "none" /\ rows[e].course.offered
    /\ Handle(q, e, [rows[e] EXCEPT !.flag = [status |-> "open", oversight |-> again]])

ReviewAssessmentFlag(q, e, oversight) ==
    /\ rows[e].flag.status # "none"
    /\ Handle(q, e, [rows[e] EXCEPT !.flag = [status |-> "reviewed", oversight |-> oversight]])

ClearAssessmentFlag(q, e) ==
    /\ rows[e].flag.status # "none"
    /\ Handle(q, e, [rows[e] EXCEPT !.flag = [status |-> "cleared", oversight |-> FALSE]])

(* The cooldown ends; a person's records are overdue or expired. *)
CooldownEnds(e) ==
    /\ Pending = {} /\ Touch(e)
    /\ \E u \in Trained : rows[e].given[u].recent
    /\ rows' = [rows EXCEPT ![e].given = [u \in Trained |->
                    [rows[e].given[u] EXCEPT !.recent = FALSE]]]
    /\ UNCHANGED <<req, overdue, raced>>
RecordsEnd(e, u) ==
    /\ Pending = {} /\ Touch(e)
    /\ rows[e].given[u].live
    /\ rows' = [rows EXCEPT ![e].given[u].live = FALSE]
    /\ UNCHANGED <<req, overdue, raced>>

TeamRequest(q, e) ==
    \/ SeedCourses(q, e) \/ CreateCourse(q, e) \/ DeleteCourse(q, e)
    \/ \E active \in BOOLEAN : UpdateCourse(q, e, active)
    \/ \E k \in RulePlaces, x \in TriggerRules : CreateRule(q, e, k, x)
    \/ \E k \in RulePlaces, x \in TriggerRules, status \in TriggerStatuses : UpdateRule(q, e, k, x, status)
    \/ \E k \in RulePlaces : DeactivateRule(q, e, k)
    \/ \E k \in RulePlaces, handler \in {{}} \union {{u} : u \in Trained} : ManualFire(q, e, k, handler)
    \/ \E n \in 1 .. 2 : \E users \in [1 .. n -> Trained] : BulkAssign(q, e, users)
    \/ \E to \in SUBSET Trained : CreateRegulatoryUpdate(q, e, to) \/ UpdateRegulatoryUpdate(q, e, to)
    \/ PublishUpdate(q, e) \/ ArchiveUpdate(q, e)
    \/ \E b \in BOOLEAN : CreateAssessmentFlag(q, e, b) \/ ReviewAssessmentFlag(q, e, b)
    \/ ClearAssessmentFlag(q, e)
    \/ CooldownEnds(e)
    \/ \E u \in Trained : RecordsEnd(e, u)

-----------------------------------------------------------------------------
(* The registers agree with the records: what the assignments count is what   *)
(* the trigger log and the bulk requests count, and what the people have.     *)
AssignmentsCounted ==
    \A e \in Teams \ raced :
        /\ rows[e].books.assigned = GivenTo(rows[e])
        /\ rows[e].books.assigned = rows[e].books.logged + rows[e].books.bulk

(* Whatever rules an event meets, it assigns the course to a person once, and *)
(* not at all within the cooldown, unless a rule that has none is active; and *)
(* when an update has been broadcast, everyone it is for has the course.      *)
AssignedOnce ==
    [][\A e \in Teams, u \in Trained :
         /\ \/ rows'[e].given[u].count <= rows[e].given[u].count + (IF rows[e].given[u].recent THEN 0 ELSE 1)
            \/ rows'[e].books.bulk # rows[e].books.bulk
            \/ \E k \in RulesFor(rows[e]) : ~rows[e].rules[k].rule[1].cooldown
         /\ rows[e].update.notified = 0 /\ rows'[e].update.notified = 1 /\ u \in rows[e].update.to
              => rows'[e].given[u].recent
      ]_rows

=============================================================================
