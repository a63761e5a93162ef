---------------------------- MODULE RuleBuilder ----------------------------
(***************************************************************************)
(* Automation rules and decision panels (app/api/routes/rule_builder.py),  *)
(* and the evaluation of the rules for an event                            *)
(* (app/services/automation_engine.py).                                    *)
(*                                                                         *)
(* Creating or updating a rule is two transactions: the row, and then its  *)
(* snapshot.  An evaluation is one database session that commits after     *)
(* each rule, and each commit makes it read the next rule's row afresh.    *)
(* An action that commits and fails leaves the session unusable; the       *)
(* exception is swallowed, and the next use of the session raises.         *)
(***************************************************************************)
EXTENDS Naturals, Sequences, FiniteSets

CONSTANTS
    Rules,        \* automation rules of one event type, as a sequence by priority
    Defs,         \* what conditions and actions a rule can hold
    Actions,      \* the actions of each definition, by their effect on the session
    Panels,       \* decision support panels
    Reviewers,    \* users that pass require_compliance_or_above
    Requests,     \* requests of the rule builder in flight at one time
    Evaluations,  \* calls of evaluate_automation_rules
    MaxVersions,  \* bound: snapshots of a rule before its last update
    MaxReviews,   \* bound: review steps before the last ones submitted
    None

RuleIds == {Rules[i] : i \in DOMAIN Rules}

ASSUME ActionsAssumption == Actions \in [Defs -> Seq({"commits", "fails", "other"})]
ASSUME PanelsAssumption == Panels \intersect RuleIds = {}
ASSUME BoundsAssumption == MaxVersions \in Nat \ {0} /\ MaxReviews \in Nat \ {0}

VARIABLES
    rule,     \* the automation_rules table
    version,  \* automation_rule_versions, by rule
    log,      \* automation_rule_executions
    panel,    \* the decision_support_panels table
    review,   \* approval_workflow_steps
    req,      \* where each request is
    eval,     \* where each evaluation is
    lapsed    \* history: rules and panels whose requests overlapped or were cut off

tables == <<rule, version, log, panel, review>>
vars == <<tables, req, eval, lapsed>>

-----------------------------------------------------------------------------
(* AutomationRuleStatus: inactive and archived rules are both not evaluated. *)
Statuses == {"active", "testing", "off"}
RuleRow == [status : Statuses, def : Defs]
NoRow == [status |-> "none"]
Deleted == [status |-> "deleted"]

(* The stages of ApprovalStepType and ApprovalDecisionType. *)
Stages == 1 .. 4
Decisions == {"approved", "rejected", "more_information", "escalated"}
ASSUME NoneAssumption == None \notin Reviewers \union Decisions

NewPanel == [stage |-> 1, final |-> None, by |-> None]

Idle == [pc |-> "idle"]
NewEval == [pc |-> "new", todo |-> {}, at |-> 0, loaded |-> [r \in RuleIds |-> NoRow],
            row |-> NoRow, acts |-> <<>>, counted |-> FALSE, broken |-> FALSE]

Init ==
    /\ rule = [r \in RuleIds |-> NoRow]
    /\ version = [r \in RuleIds |-> <<>>]
    /\ log = {}
    /\ panel = [p \in Panels |-> NoRow]
    /\ review = {}
    /\ req = [q \in Requests |-> Idle]
    /\ eval = [e \in Evaluations |-> NewEval]
    /\ lapsed = {}

Exists(r) == rule[r] \in RuleRow
Busy(x) == \E q \in Requests : req[q] # Idle /\ req[q].of = x

-----------------------------------------------------------------------------
(* The handlers on rules. *)

(* create_rule, its first transaction. *)
CreateRule(q) ==
    \E r \in RuleIds, d \in Defs :
      /\ req[q] = Idle
      /\ rule[r] = NoRow
      /\ rule' = [rule EXCEPT ![r] = [status |-> "active", def |-> d]]
      /\ req' = [req EXCEPT ![q] = [pc |-> "saved", of |-> r, first |-> TRUE]]
      /\ UNCHANGED <<version, log, panel, review, eval, lapsed>>

(* update_rule, its first transaction: no column depends on another's value. *)
UpdateRule(q) ==
    \E r \in RuleIds, s \in Statuses, d \in Defs :
      /\ req[q] = Idle
      /\ Exists(r)
      /\ Len(version[r]) < MaxVersions
      /\ rule' = [rule EXCEPT ![r] = [status |-> s, def |-> d]]
      /\ req' = [req EXCEPT ![q] = [pc |-> "saved", of |-> r, first |-> FALSE]]
      /\ lapsed' = IF Busy(r) THEN lapsed \union {r} ELSE lapsed
      /\ UNCHANGED <<version, log, panel, review, eval>>

(* Mutant of NextNumber: the count alone. *)
NumberFromCount(q) == IF req[q].first THEN 1 ELSE Len(version[req[q].of])

NextNumber(q) == IF req[q].first THEN 1 ELSE Len(version[req[q].of]) + 1

(* db.refresh and the count of the versions: the snapshot is of the row as it *)
(* is now.  A row deleted meanwhile ends the request with an error.           *)
TakeSnapshot(q) ==
    /\ req[q].pc = "saved"
    /\ req' = [req EXCEPT ![q] =
         IF Exists(req[q].of)
           THEN [pc |-> "snapshot", of |-> req[q].of, first |-> req[q].first,
                 number |-> NextNumber(q), row |-> rule[req[q].of]]
           ELSE Idle]
    /\ UNCHANGED <<tables, eval, lapsed>>

(* Mutant of CommitSnapshot: only the first snapshot is stored. *)
CommitFirstSnapshot(q) ==
    /\ req[q].pc = "snapshot"
    /\ version' = IF req[q].first
                    THEN [version EXCEPT ![req[q].of] =
                            Append(@, [number |-> req[q].number, row |-> req[q].row])]
                    ELSE version
    /\ req' = [req EXCEPT ![q] = Idle]
    /\ UNCHANGED <<rule, log, panel, review, eval, lapsed>>

(* The second transaction; its foreign key needs the rule. *)
CommitSnapshot(q) ==
    /\ req[q].pc = "snapshot"
    /\ version' = IF Exists(req[q].of)
                    THEN [version EXCEPT ![req[q].of] =
                            Append(@, [number |-> req[q].number, row |-> req[q].row])]
                    ELSE version
    /\ req' = [req EXCEPT ![q] = Idle]
    /\ UNCHANGED <<rule, log, panel, review, eval, lapsed>>

(* Mutant of DeleteRule: the executions go with the rule they are about. *)
DeleteRuleExecuted(q) ==
    \E r \in RuleIds :
      /\ req[q] = Idle
      /\ Exists(r)
      /\ rule' = [rule EXCEPT ![r] = Deleted]
      /\ version' = [version EXCEPT ![r] = <<>>]
      /\ UNCHANGED <<log, panel, review, req, eval, lapsed>>

(* delete_rule: executions refer to their rule and keep it from being        *)
(* deleted; snapshots lose their rule_id.                                    *)
DeleteRule(q) ==
    \E r \in RuleIds :
      /\ req[q] = Idle
      /\ Exists(r)
      /\ \A x \in log : x.rule # r
      /\ rule' = [rule EXCEPT ![r] = Deleted]
      /\ version' = [version EXCEPT ![r] = <<>>]
      /\ UNCHANGED <<log, panel, review, req, eval, lapsed>>

(* The worker or its connection is lost. *)
Abort(q) ==
    /\ req[q] # Idle
    /\ req' = [req EXCEPT ![q] = Idle]
    /\ lapsed' = lapsed \union ({req[q].of} \ Panels)
    /\ UNCHANGED <<tables, eval>>

-----------------------------------------------------------------------------
(* The evaluation of the rules for an event. *)

Continue(e, state) == eval' = [eval EXCEPT ![e] = state]

(* The query for the active and testing rules, by priority. *)
Trigger(e) ==
    LET Selected(r) == Exists(r) /\ rule[r].status # "off"
    IN  /\ eval[e].pc = "new"
        /\ Continue(e, [NewEval EXCEPT !.pc = "rule",
                                       !.todo = {i \in DOMAIN Rules : Selected(Rules[i])},
                                       !.loaded = [r \in RuleIds |-> IF Selected(r) THEN rule[r]
                                                                     ELSE NoRow]])
        /\ UNCHANGED <<tables, req, lapsed>>

(* The rule's row: as the query loaded it, or, after a commit, as it is now. *)
RowOf(e, r) == IF eval[e].loaded[r] = NoRow THEN rule[r] ELSE eval[e].loaded[r]

(* The conditions of the next rule match or not.  Reading a rule that has     *)
(* been deleted raises.                                                       *)
TakeRule(e) ==
    /\ eval[e].pc = "rule"
    /\ \E i \in eval[e].todo, match \in BOOLEAN :
          LET row == RowOf(e, Rules[i])
              acts == match /\ row.status # "testing"
          IN  /\ \A j \in eval[e].todo : i <= j
              /\ Continue(e,
                   IF row = Deleted THEN [NewEval EXCEPT !.pc = "raised"]
                   ELSE [eval[e] EXCEPT !.todo = @ \ {i}, !.at = i, !.row = row, !.counted = FALSE,
                                        !.pc = IF acts THEN "act" ELSE "log",
                                        !.acts = IF acts THEN Actions[row.def] ELSE <<>>])
    /\ UNCHANGED <<tables, req, lapsed>>

(* _execute_action never raises: an action that fails in its commit is put    *)
(* down as an error.  The first commit writes the rule's statistics too, and   *)
(* fails when the rule has been deleted.                                      *)
Act(e) ==
    LET r == Rules[eval[e].at]
        kind == Head(eval[e].acts)
        ok == ~eval[e].broken /\ kind = "commits" /\ (eval[e].counted \/ Exists(r))
    IN  /\ eval[e].pc = "act"
        /\ eval[e].acts # <<>>
        /\ Continue(e, [eval[e] EXCEPT !.acts = Tail(@), !.counted = @ \/ ok,
                                     !.broken = @ \/ (kind # "other" /\ ~ok)])
        /\ UNCHANGED <<tables, req, lapsed>>

ActionsDone(e) ==
    /\ eval[e].pc = "act"
    /\ eval[e].acts = <<>>
    /\ Continue(e, [eval[e] EXCEPT !.pc = "log"])
    /\ UNCHANGED <<tables, req, lapsed>>

(* The execution row and its commit.  They fail on a broken session and for a *)
(* deleted rule; the exception leaves evaluate_automation_rules.              *)
LogExecution(e) ==
    LET r == Rules[eval[e].at]
    IN  /\ eval[e].pc = "log"
        /\ IF eval[e].broken \/ ~Exists(r)
             THEN /\ Continue(e, [NewEval EXCEPT !.pc = "raised"])
                  /\ UNCHANGED log
             ELSE /\ log' = log \union {[rule |-> r, by |-> e, row |-> eval[e].row]}
                  /\ Continue(e, [NewEval EXCEPT !.pc = "rule", !.todo = eval[e].todo])
        /\ UNCHANGED <<rule, version, panel, review, req, lapsed>>

Return(e) ==
    /\ eval[e].pc = "rule"
    /\ eval[e].todo = {}
    /\ Continue(e, [eval[e] EXCEPT !.pc = "returned"])
    /\ UNCHANGED <<tables, req, lapsed>>

-----------------------------------------------------------------------------
(* Decision support panels. *)

CreatePanel ==
    \E p \in Panels :
      /\ panel[p] = NoRow
      /\ panel' = [panel EXCEPT ![p] = NewPanel]
      /\ UNCHANGED <<rule, version, log, review, req, eval, lapsed>>

(* Mutant of Outcome: an escalation out of the last stage completes the panel. *)
OutcomeEscalated(row, stage, decision, u) ==
    CASE decision = "rejected" \/ (decision \in {"approved", "escalated"} /\ stage = 4) ->
           [row EXCEPT !.final = IF decision = "rejected" THEN decision ELSE "approved", !.by = u]
      [] decision \in {"approved", "escalated"} /\ stage # 4 -> [row EXCEPT !.stage = stage + 1]
      [] OTHER -> row

(* What a decision makes of the panel: an approval of the last stage and a    *)
(* rejection of any complete it.                                              *)
Outcome(row, stage, decision, u) ==
    CASE decision = "rejected" \/ (decision = "approved" /\ stage = 4) ->
           [row EXCEPT !.final = decision, !.by = u]
      [] decision \in {"approved", "escalated"} /\ stage # 4 -> [row EXCEPT !.stage = stage + 1]
      [] OTHER -> row

(* submit_review_step loads the panel and checks is_complete; the stage is    *)
(* the request's, not the panel's.                                            *)
SubmitReview(q) ==
    \E p \in Panels, stage \in Stages, decision \in Decisions, u \in Reviewers :
      /\ req[q] = Idle
      /\ panel[p] # NoRow
      /\ panel[p].final = None
      /\ Cardinality(review) < MaxReviews
      /\ req' = [req EXCEPT ![q] =
           [pc |-> "review", of |-> p, was |-> panel[p],
            will |-> Outcome(panel[p], stage, decision, u),
            step |-> [panel |-> p, stage |-> stage, decision |-> decision, by |-> u]]]
      /\ lapsed' = IF Busy(p) THEN lapsed \union {p} ELSE lapsed
      /\ UNCHANGED <<tables, eval>>

(* The commit writes the columns that changed. *)
CommitReview(q) ==
    LET h == req[q]
        Column(f) == IF h.will[f] # h.was[f] THEN h.will[f] ELSE panel[h.of][f]
    IN  /\ h.pc = "review"
        /\ panel' = [panel EXCEPT ![h.of] = [stage |-> Column("stage"), final |-> Column("final"),
                                             by |-> Column("by")]]
        /\ review' = review \union {h.step}
        /\ req' = [req EXCEPT ![q] = Idle]
        /\ UNCHANGED <<rule, version, log, eval, lapsed>>

-----------------------------------------------------------------------------
Next ==
    \/ CreatePanel
    \/ \E q \in Requests :
          \/ CreateRule(q) \/ UpdateRule(q) \/ TakeSnapshot(q) \/ CommitSnapshot(q)
          \/ DeleteRule(q) \/ SubmitReview(q) \/ CommitReview(q) \/ Abort(q)
    \/ \E e \in Evaluations :
          \/ Trigger(e) \/ TakeRule(e) \/ Act(e) \/ ActionsDone(e)
          \/ LogExecution(e) \/ Return(e)

Spec == Init /\ [][Next]_vars

-----------------------------------------------------------------------------
Versions == [number : Nat \ {0}, row : RuleRow]
Executions == [rule : RuleIds, by : Evaluations, row : RuleRow]
PanelRow == [stage : Stages, final : Decisions \union {None}, by : Reviewers \union {None}]
Steps == [panel : Panels, stage : Stages, decision : Decisions, by : Reviewers]

ReqStates ==
    {Idle} \union [pc : {"saved"}, of : RuleIds, first : BOOLEAN]
           \union [pc : {"snapshot"}, of : RuleIds, first : BOOLEAN, number : Nat \ {0},
                   row : RuleRow]
           \union [pc : {"review"}, of : Panels, was : PanelRow, will : PanelRow, step : Steps]

EvalStates ==
    [pc : {"new", "rule", "act", "log", "raised", "returned"}, todo : SUBSET DOMAIN Rules,
     at : DOMAIN Rules \union {0}, loaded : [RuleIds -> RuleRow \union {NoRow}],
     row : RuleRow \union {NoRow}, acts : Seq({"commits", "fails", "other"}),
     counted : BOOLEAN, broken : BOOLEAN]

(* Each variable has its type. *)
TypeOK ==
    /\ rule \in [RuleIds -> RuleRow \union {NoRow, Deleted}]
    /\ version \in [RuleIds -> Seq(Versions)]
    /\ log \subseteq Executions
    /\ panel \in [Panels -> PanelRow \union {NoRow}]
    /\ review \subseteq Steps
    /\ req \in [Requests -> ReqStates]
    /\ eval \in [Evaluations -> EvalStates]
    /\ lapsed \subseteq RuleIds \union Panels

(* An execution can be traced: the conditions and actions it logged are in a  *)
(* snapshot of the rule, or the request that wrote them is about to store     *)
(* one, and the snapshots are numbered from 1 without a gap, unless updates   *)
(* of the rule overlapped or one was cut off.                                 *)
ExecutionsTraceable ==
    /\ \A r \in RuleIds \ lapsed :
         \A i \in DOMAIN version[r] : version[r][i].number = i
    /\ \A x \in log :
         \/ x.rule \in lapsed
         \/ \E i \in DOMAIN version[x.rule] : version[x.rule][i].row = x.row
         \/ Busy(x.rule)

(* A rule that was executed is never deleted: its executions keep it. *)
ExecutedRulesStay == \A x \in log : Exists(x.rule)

(* The decision of a step of the panel, recorded by the reviewer it names;    *)
(* approval takes the approval of the last stage.                             *)
DecidedOnRecord(p) ==
    \E s \in review :
      /\ s.panel = p /\ s.decision = panel[p].final /\ s.by = panel[p].by
      /\ s.decision = "approved" => s.stage = 4

(* The final decision of a panel is that of a recorded step of the reviewer   *)
(* it names, however reviews overlap; where none of the panel did, it stands. *)
(* A rejection is final too, though the docstring of submit_review_step says  *)
(* "rejected or more_information -> panel remains open".                      *)
FinalDecisionStands ==
    [][\A p \in Panels :
         (panel'[p] # NoRow /\ panel'[p].final # None) =>
           /\ DecidedOnRecord(p)'
           /\ (panel[p] # NoRow /\ panel[p].final # None) =>
                p \in lapsed \/ (panel'[p].final = panel[p].final /\ panel'[p].by = panel[p].by)]_vars

=============================================================================
