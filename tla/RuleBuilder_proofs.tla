------------------------- MODULE RuleBuilder_proofs -------------------------
(***************************************************************************)
(* Theorems about RuleBuilder, for any number of rules, panels, editors,   *)
(* reviewers and evaluations.                                              *)
(*                                                                         *)
(* ExecutedRulesStay needs to know where the rows of an evaluation come    *)
(* from: a rule it has loaded was there and can only have been deleted     *)
(* since.  FinalDecisionStands needs the copy of the panel that a review   *)
(* goes by followed through the review.                                    *)
(*                                                                         *)
(* ExecutionsTraceable needs TraceInv: a rule that has not lapsed has one  *)
(* editor at most, which is going to store the row as it is now with the   *)
(* next number, and whatever an evaluation holds of it, or has logged, is  *)
(* in a snapshot or that row.                                              *)
(***************************************************************************)
EXTENDS RuleBuilder, TLAPS

LEMMA RowsDiffer ==
    /\ Deleted \notin RuleRow /\ NoRow \notin RuleRow /\ Deleted # NoRow
    /\ NoRow \notin PanelRow
  <1>1. \A x \in RuleRow : x.status \in Statuses
    BY DEF RuleRow
  <1>2. Deleted.status = "deleted" /\ NoRow.status = "none"
    BY DEF Deleted, NoRow
  <1>3. ASSUME NoRow \in PanelRow PROVE FALSE
    <2>1. "final" \in DOMAIN NoRow
      BY <1>3 DEF PanelRow
    <2>2. DOMAIN NoRow = {"status"}
      BY DEF NoRow
    <2>. QED
      BY <2>1, <2>2
  <1>. QED
    BY <1>1, <1>2, <1>3 DEF Statuses

(* A rule that an evaluation is going to look at was there when it began. *)
LookedAt ==
    \A e \in Evaluations :
      /\ \A i \in eval[e].todo : rule[Rules[i]] # NoRow
      /\ eval[e].pc \in {"act", "log"} =>
           eval[e].at \in DOMAIN Rules /\ eval[e].row \in RuleRow

(* A review goes by a copy of the panel that had no decision. *)
Reviewed ==
    \A q \in Requests : req[q].pc = "review" =>
        LET h == req[q]
        IN  /\ panel[h.of] # NoRow
            /\ h.step.panel = h.of
            /\ h.was.final = None /\ h.was.by = None
            /\ h.will.final # None =>
                 /\ h.will.final = h.step.decision /\ h.will.by = h.step.by
                 /\ h.step.decision = "approved" => h.step.stage = 4
            /\ h.will.final = None => h.will.by = None

(* No decision without the user who made it. *)
Undecided ==
    \A p \in Panels : panel[p] # NoRow /\ panel[p].final = None => panel[p].by = None

TypeInv == TypeOK /\ LookedAt /\ Reviewed /\ Undecided

LEMMA Typed ==
    ASSUME TypeOK
    PROVE  /\ rule \in [RuleIds -> RuleRow \union {NoRow, Deleted}]
           /\ version \in [RuleIds -> Seq(Versions)] /\ log \subseteq Executions
           /\ panel \in [Panels -> PanelRow \union {NoRow}] /\ review \subseteq Steps
           /\ req \in [Requests -> ReqStates] /\ eval \in [Evaluations -> EvalStates]
           /\ lapsed \subseteq RuleIds \union Panels
  BY DEF TypeOK

(* What a request holds, by where it is. *)
LEMMA Held ==
    ASSUME NEW h \in ReqStates
    PROVE  /\ h.pc = "saved" => h.of \in RuleIds /\ h.first \in BOOLEAN
           /\ h.pc = "snapshot" =>
                h.of \in RuleIds /\ h.first \in BOOLEAN /\ h.number \in Nat \ {0} /\ h.row \in RuleRow
           /\ h.pc = "review" =>
                h.of \in Panels /\ h.was \in PanelRow /\ h.will \in PanelRow /\ h.step \in Steps
           /\ h # Idle => h.of \in RuleIds \union Panels
           /\ h.pc \in {"idle", "saved", "snapshot", "review"} /\ (h.pc = "idle" <=> h = Idle)
  BY DEF ReqStates, Idle

LEMMA OutcomeTyped ==
    ASSUME NEW row \in PanelRow, NEW stage \in Stages, NEW decision \in Decisions, NEW u \in Reviewers
    PROVE  /\ Outcome(row, stage, decision, u) \in PanelRow
           /\ row.final = None =>
                LET new == Outcome(row, stage, decision, u)
                IN  \/ new.final = None /\ new.by = row.by
                    \/ /\ new.final = decision /\ new.by = u
                       /\ decision = "approved" => stage = 4
  <1>1. CASE decision = "rejected" \/ (decision = "approved" /\ stage = 4)
    BY <1>1 DEF Outcome, PanelRow
  <1>2. CASE decision \in {"approved", "escalated"} /\ stage # 4
    <2>1. Outcome(row, stage, decision, u) = [row EXCEPT !.stage = stage + 1]
      BY <1>2 DEF Outcome
    <2>2. stage + 1 \in Stages
      BY <1>2 DEF Stages
    <2>. QED
      BY <2>1, <2>2 DEF PanelRow
  <1>3. CASE ~(decision = "rejected" \/ (decision = "approved" /\ stage = 4))
             /\ ~(decision \in {"approved", "escalated"} /\ stage # 4)
    BY <1>3 DEF Outcome
  <1>. QED
    BY <1>1, <1>2, <1>3

(* The steps of editors and reviewers. *)
LEMMA RequestTyped ==
    ASSUME TypeInv, NEW q \in Requests,
           \/ CreateRule(q) \/ UpdateRule(q) \/ TakeSnapshot(q) \/ CommitSnapshot(q)
           \/ DeleteRule(q) \/ SubmitReview(q) \/ CommitReview(q) \/ Abort(q)
    PROVE  TypeOK'
  <1>0. TypeOK
    BY DEF TypeInv
  <1>h. req[q] \in ReqStates
    BY <1>0, Typed
  <1>i. Idle \in ReqStates
    BY DEF ReqStates
  <1>1. CASE CreateRule(q)
    <2>1. PICK r \in RuleIds, d \in Defs :
            /\ rule' = [rule EXCEPT ![r] = [status |-> "active", def |-> d]]
            /\ req' = [req EXCEPT ![q] = [pc |-> "saved", of |-> r, first |-> TRUE]]
            /\ UNCHANGED <<version, log, panel, review, eval, lapsed>>
      BY <1>1 DEF CreateRule
    <2>2. [status |-> "active", def |-> d] \in RuleRow
      BY DEF RuleRow, Statuses
    <2>3. [pc |-> "saved", of |-> r, first |-> TRUE] \in ReqStates
      BY DEF ReqStates
    <2>. QED
      BY <1>0, <2>1, <2>2, <2>3 DEF TypeOK
  <1>2. CASE UpdateRule(q)
    <2>1. PICK r \in RuleIds, s \in Statuses, d \in Defs :
            /\ rule' = [rule EXCEPT ![r] = [status |-> s, def |-> d]]
            /\ req' = [req EXCEPT ![q] = [pc |-> "saved", of |-> r, first |-> FALSE]]
            /\ lapsed' \in {lapsed, lapsed \union {r}}
            /\ UNCHANGED <<version, log, panel, review, eval>>
      BY <1>2 DEF UpdateRule
    <2>2. [status |-> s, def |-> d] \in RuleRow
      BY DEF RuleRow
    <2>3. [pc |-> "saved", of |-> r, first |-> FALSE] \in ReqStates
      BY DEF ReqStates
    <2>. QED
      BY <1>0, <2>1, <2>2, <2>3 DEF TypeOK
  <1>3. CASE TakeSnapshot(q)
    <2>. DEFINE new == IF Exists(req[q].of)
           THEN [pc |-> "snapshot", of |-> req[q].of, first |-> req[q].first,
                 number |-> NextNumber(q), row |-> rule[req[q].of]]
           ELSE Idle
    <2>1. req[q].of \in RuleIds /\ req[q].first \in BOOLEAN
      BY <1>3, <1>h, Held DEF TakeSnapshot
    <2>2. Len(version[req[q].of]) \in Nat
      BY <1>0, <2>1, Typed
    <2>3. NextNumber(q) \in Nat \ {0}
      BY <2>2 DEF NextNumber
    <2>4. new \in ReqStates
      BY <1>i, <2>1, <2>3 DEF ReqStates, Exists
    <2>5. req' = [req EXCEPT ![q] = new] /\ UNCHANGED <<tables, eval, lapsed>>
      BY <1>3 DEF TakeSnapshot
    <2>. HIDE DEF new
    <2>. QED
      BY <1>0, <2>4, <2>5 DEF TypeOK, tables
  <1>4. CASE CommitSnapshot(q)
    <2>. DEFINE v == [number |-> req[q].number, row |-> req[q].row]
    <2>1. req[q].of \in RuleIds /\ v \in Versions
      BY <1>4, <1>h, Held DEF CommitSnapshot, Versions
    <2>2. version' \in {version, [version EXCEPT ![req[q].of] = Append(@, v)]}
      BY <1>4 DEF CommitSnapshot
    <2>. HIDE DEF v
    <2>3. Append(version[req[q].of], v) \in Seq(Versions)
      BY <1>0, <2>1, Typed
    <2>4. version' \in [RuleIds -> Seq(Versions)]
      BY <1>0, <2>1, <2>2, <2>3, Typed
    <2>. QED
      BY <1>0, <1>4, <1>i, <2>4 DEF TypeOK, CommitSnapshot
  <1>5. CASE DeleteRule(q)
    <2>1. <<>> \in Seq(Versions)
      OBVIOUS
    <2>. QED
      BY <1>0, <1>5, <2>1 DEF TypeOK, DeleteRule
  <1>6. CASE SubmitReview(q)
    <2>1. PICK p \in Panels, stage \in Stages, decision \in Decisions, u \in Reviewers :
            /\ req[q] = Idle
            /\ panel[p] # NoRow
            /\ panel[p].final = None
            /\ Cardinality(review) < MaxReviews
            /\ req' = [req EXCEPT ![q] =
                 [pc |-> "review", of |-> p, was |-> panel[p],
                  will |-> Outcome(panel[p], stage, decision, u),
                  step |-> [panel |-> p, stage |-> stage, decision |-> decision, by |-> u]]]
            /\ lapsed' = IF Busy(p) THEN lapsed \union {p} ELSE lapsed
            /\ UNCHANGED <<tables, eval>>
      BY <1>6 DEF SubmitReview
    <2>2. panel[p] \in PanelRow
      BY <1>0, <2>1, Typed
    <2>. DEFINE will == Outcome(panel[p], stage, decision, u)
                step == [panel |-> p, stage |-> stage, decision |-> decision, by |-> u]
                new == [pc |-> "review", of |-> p, was |-> panel[p], will |-> will, step |-> step]
    <2>3. will \in PanelRow
      BY <2>2, OutcomeTyped
    <2>4. step \in Steps
      BY DEF Steps
    <2>. HIDE DEF will, step
    <2>5. new \in ReqStates
      BY <2>2, <2>3, <2>4 DEF ReqStates
    <2>6. req' = [req EXCEPT ![q] = new]
      BY <2>1 DEF will, step
    <2>. HIDE DEF new
    <2>. QED
      BY <1>0, <2>1, <2>5, <2>6 DEF TypeOK, tables
  <1>7. CASE CommitReview(q)
    <2>. DEFINE h == req[q]
                Column(f) == IF h.will[f] # h.was[f] THEN h.will[f] ELSE panel[h.of][f]
                new == [stage |-> Column("stage"), final |-> Column("final"), by |-> Column("by")]
    <2>1. h.pc = "review" /\ h.of \in Panels /\ h.was \in PanelRow /\ h.will \in PanelRow /\ h.step \in Steps
      BY <1>7, <1>h, Held DEF CommitReview
    <2>2. panel[h.of] \in PanelRow
      BY <1>0, <2>1, Typed DEF TypeInv, Reviewed
    <2>3. new \in PanelRow
      BY <2>1, <2>2 DEF PanelRow
    <2>4. /\ panel' = [panel EXCEPT ![h.of] = new] /\ review' = review \union {h.step}
          /\ req' = [req EXCEPT ![q] = Idle] /\ UNCHANGED <<rule, version, log, eval, lapsed>>
      BY <1>7 DEF CommitReview
    <2>. HIDE DEF h, new
    <2>. QED
      BY <1>0, <1>i, <2>1, <2>3, <2>4 DEF TypeOK
  <1>8. CASE Abort(q)
    <2>1. req[q].of \in RuleIds \union Panels
      BY <1>8, <1>h, Held DEF Abort
    <2>. QED
      BY <1>0, <1>8, <1>i, <2>1 DEF TypeOK, Abort, tables
  <1>. QED
    BY <1>1, <1>2, <1>3, <1>4, <1>5, <1>6, <1>7, <1>8

(* The steps of evaluations. *)
LEMMA EvaluationTyped ==
    ASSUME TypeInv, NEW e \in Evaluations,
           \/ Trigger(e) \/ TakeRule(e) \/ Act(e) \/ ActionsDone(e)
           \/ LogExecution(e) \/ Return(e)
    PROVE  TypeOK'
  <1>0. TypeOK /\ LookedAt
    BY DEF TypeInv
  <1>e. eval[e] \in EvalStates
    BY <1>0, Typed
  <1>n. NewEval \in EvalStates
    <2>1. [r \in RuleIds |-> NoRow] \in [RuleIds -> RuleRow \union {NoRow}]
      OBVIOUS
    <2>2. <<>> \in Seq({"commits", "fails", "other"})
      OBVIOUS
    <2>. QED
      BY <2>1, <2>2 DEF NewEval, EvalStates
  <1>c. ASSUME NEW x \in EvalStates, Continue(e, x), UNCHANGED <<tables, req, lapsed>> PROVE TypeOK'
    BY <1>0, <1>c DEF TypeOK, Continue, tables
  <1>1. CASE Trigger(e)
    <2>. DEFINE Sel(r) == Exists(r) /\ rule[r].status # "off"
                todo == {i \in DOMAIN Rules : Sel(Rules[i])}
                loaded == [r \in RuleIds |-> IF Sel(r) THEN rule[r] ELSE NoRow]
                x == [NewEval EXCEPT !.pc = "rule", !.todo = todo, !.loaded = loaded]
    <2>1. todo \in SUBSET DOMAIN Rules
      OBVIOUS
    <2>2. loaded \in [RuleIds -> RuleRow \union {NoRow}]
      BY DEF Exists
    <2>3. Continue(e, x) /\ UNCHANGED <<tables, req, lapsed>>
      BY <1>1 DEF Trigger
    <2>. HIDE DEF todo, loaded
    <2>4. x \in EvalStates
      BY <1>n, <2>1, <2>2 DEF EvalStates
    <2>. HIDE DEF x
    <2>. QED
      BY <1>c, <2>3, <2>4
  <1>2. CASE TakeRule(e)
    <2>1. PICK i \in eval[e].todo, match \in BOOLEAN :
            LET row == RowOf(e, Rules[i])
                acts == match /\ row.status # "testing"
            IN  Continue(e,
                   IF row = Deleted THEN [NewEval EXCEPT !.pc = "raised"]
                   ELSE [eval[e] EXCEPT !.todo = @ \ {i}, !.at = i, !.row = row, !.counted = FALSE,
                                        !.pc = IF acts THEN "act" ELSE "log",
                                        !.acts = IF acts THEN Actions[row.def] ELSE <<>>])
      BY <1>2 DEF TakeRule
    <2>. DEFINE row == RowOf(e, Rules[i])
                acts == match /\ row.status # "testing"
                pc == IF acts THEN "act" ELSE "log"
                list == IF acts THEN Actions[row.def] ELSE <<>>
                x == [eval[e] EXCEPT !.todo = @ \ {i}, !.at = i, !.row = row, !.counted = FALSE,
                                     !.pc = pc, !.acts = list]
    <2>2. i \in DOMAIN Rules /\ Rules[i] \in RuleIds
      BY <1>e DEF EvalStates, RuleIds
    <2>u. UNCHANGED <<tables, req, lapsed>>
      BY <1>2 DEF TakeRule
    <2>3. CASE row = Deleted
      <3>1. Continue(e, [NewEval EXCEPT !.pc = "raised"])
        BY <2>1, <2>3
      <3>2. [NewEval EXCEPT !.pc = "raised"] \in EvalStates
        BY <1>n DEF EvalStates
      <3>. QED
        BY <1>c, <2>u, <3>1, <3>2
    <2>4. CASE row # Deleted
      <3>1. Continue(e, x)
        BY <2>1, <2>4
      <3>2. row \in RuleRow
        <4>1. eval[e].loaded[Rules[i]] \in RuleRow \union {NoRow}
          BY <1>e, <2>2 DEF EvalStates
        <4>2. rule[Rules[i]] \in RuleRow \union {Deleted}
          BY <1>0, <2>2, Typed DEF LookedAt
        <4>. QED
          BY <2>4, <4>1, <4>2 DEF RowOf
      <3>3. pc \in {"act", "log"} /\ list \in Seq({"commits", "fails", "other"})
        BY <3>2, ActionsAssumption DEF RuleRow
      <3>. HIDE DEF row, acts, pc, list
      <3>4. x \in EvalStates
        BY <1>e, <2>2, <3>2, <3>3 DEF EvalStates
      <3>. HIDE DEF x
      <3>. QED
        BY <1>c, <2>u, <3>1, <3>4
    <2>. QED
      BY <2>3, <2>4
  <1>3. CASE Act(e)
    <2>. DEFINE r == Rules[eval[e].at]
                kind == Head(eval[e].acts)
                ok == ~eval[e].broken /\ kind = "commits" /\ (eval[e].counted \/ Exists(r))
                counted == eval[e].counted \/ ok
                broken == eval[e].broken \/ (kind # "other" /\ ~ok)
                x == [eval[e] EXCEPT !.acts = Tail(@), !.counted = counted, !.broken = broken]
    <2>1. Tail(eval[e].acts) \in Seq({"commits", "fails", "other"})
      BY <1>3, <1>e DEF Act, EvalStates
    <2>2. counted \in BOOLEAN /\ broken \in BOOLEAN
      BY <1>e DEF EvalStates
    <2>3. Continue(e, x) /\ UNCHANGED <<tables, req, lapsed>>
      BY <1>3 DEF Act
    <2>. HIDE DEF counted, broken
    <2>4. x \in EvalStates
      BY <1>e, <2>1, <2>2 DEF EvalStates
    <2>. HIDE DEF x
    <2>. QED
      BY <1>c, <2>3, <2>4
  <1>4. CASE ActionsDone(e)
    <2>1. [eval[e] EXCEPT !.pc = "log"] \in EvalStates
      BY <1>e DEF EvalStates
    <2>. QED
      BY <1>4, <1>c, <2>1 DEF ActionsDone
  <1>5. CASE LogExecution(e)
    <2>. DEFINE x == [rule |-> Rules[eval[e].at], by |-> e, row |-> eval[e].row]
                go == [NewEval EXCEPT !.pc = "rule", !.todo = eval[e].todo]
                stop == [NewEval EXCEPT !.pc = "raised"]
    <2>1. x \in Executions
      BY <1>0, <1>5 DEF LookedAt, LogExecution, Executions, RuleIds
    <2>2. go \in EvalStates /\ stop \in EvalStates
      BY <1>n, <1>e DEF EvalStates
    <2>3. /\ log' \in {log, log \union {x}} /\ (Continue(e, go) \/ Continue(e, stop))
          /\ UNCHANGED <<rule, version, panel, review, req, lapsed>>
      BY <1>5 DEF LogExecution
    <2>. HIDE DEF x, go, stop
    <2>. QED
      BY <1>0, <2>1, <2>2, <2>3 DEF TypeOK, Continue
  <1>6. CASE Return(e)
    <2>1. [eval[e] EXCEPT !.pc = "returned"] \in EvalStates
      BY <1>e DEF EvalStates
    <2>. QED
      BY <1>6, <1>c, <2>1 DEF Return
  <1>. QED
    BY <1>1, <1>2, <1>3, <1>4, <1>5, <1>6

(* A rule never goes back to one that was not created, nor comes back when   *)
(* deleted, and a panel stays.                                               *)
LEMMA RowsRemain ==
    ASSUME TypeInv, [Next]_vars
    PROVE  /\ \A r \in RuleIds : rule[r] # NoRow => rule'[r] # NoRow
           /\ \A r \in RuleIds : rule[r] = Deleted => rule'[r] = Deleted
           /\ \A p \in Panels : panel[p] # NoRow => panel'[p] # NoRow
           /\ lapsed \subseteq lapsed'
  <1>0. /\ rule \in [RuleIds -> RuleRow \union {NoRow, Deleted}]
        /\ panel \in [Panels -> PanelRow \union {NoRow}]
    BY Typed DEF TypeInv
  <1>1. CASE UNCHANGED <<rule, panel, lapsed>>
    BY <1>1
  <1>2. CASE CreatePanel
    <2>1. NewPanel # NoRow
      <3>1. NewPanel \in PanelRow
        BY DEF NewPanel, PanelRow, Stages
      <3>. QED
        BY <3>1, RowsDiffer
    <2>. QED
      BY <1>0, <1>2, <2>1 DEF CreatePanel
  <1>3. ASSUME NEW q \in Requests, CreateRule(q) \/ UpdateRule(q) PROVE
           /\ \A r \in RuleIds : rule[r] # NoRow => rule'[r] # NoRow
           /\ \A r \in RuleIds : rule[r] = Deleted => rule'[r] = Deleted
           /\ lapsed \subseteq lapsed' /\ UNCHANGED panel
    <2>1. PICK r \in RuleIds, s \in Statuses, d \in Defs :
            /\ rule[r] # Deleted
            /\ rule' = [rule EXCEPT ![r] = [status |-> s, def |-> d]]
            /\ lapsed \subseteq lapsed' /\ UNCHANGED panel
      <3>1. CASE CreateRule(q)
        BY <3>1, RowsDiffer DEF CreateRule, Statuses
      <3>2. CASE UpdateRule(q)
        BY <3>2, RowsDiffer DEF UpdateRule, Exists
      <3>. QED
        BY <1>3, <3>1, <3>2
    <2>2. [status |-> s, def |-> d] \in RuleRow
      BY DEF RuleRow
    <2>. QED
      BY <1>0, <2>1, <2>2, RowsDiffer
  <1>4. ASSUME NEW q \in Requests, DeleteRule(q) PROVE
           /\ \A r \in RuleIds : rule[r] # NoRow => rule'[r] # NoRow
           /\ \A r \in RuleIds : rule[r] = Deleted => rule'[r] = Deleted
           /\ UNCHANGED <<panel, lapsed>>
    BY <1>0, <1>4, RowsDiffer DEF DeleteRule
  <1>5. ASSUME NEW q \in Requests, CommitReview(q) PROVE
           /\ \A p \in Panels : panel[p] # NoRow => panel'[p] # NoRow
           /\ UNCHANGED <<rule, lapsed>>
    <2>1. /\ panel' = [panel EXCEPT ![req[q].of] = panel'[req[q].of]]
          /\ panel'[req[q].of] # NoRow \/ req[q].of \notin Panels
          /\ UNCHANGED <<rule, lapsed>>
      <3>1. req[q].pc = "review" /\ req[q] \in ReqStates
        BY <1>5, Typed DEF CommitReview, TypeInv
      <3>2. req[q].of \in Panels
        BY <3>1, Held
      <3>3. TypeOK'
        BY <1>5, RequestTyped
      <3>4. panel' = [panel EXCEPT ![req[q].of] = panel'[req[q].of]] /\ UNCHANGED <<rule, lapsed>>
        BY <1>0, <1>5, <3>2 DEF CommitReview
      <3>5. DOMAIN panel'[req[q].of] = {"stage", "final", "by"}
        BY <1>0, <1>5, <3>2 DEF CommitReview
      <3>6. DOMAIN NoRow = {"status"}
        BY DEF NoRow
      <3>. QED
        BY <3>4, <3>5, <3>6
    <2>. QED
      BY <1>0, <2>1
  <1>6. ASSUME NEW q \in Requests, TakeSnapshot(q) \/ CommitSnapshot(q) \/ SubmitReview(q) \/ Abort(q)
        PROVE  lapsed \subseteq lapsed' /\ UNCHANGED <<rule, panel>>
    BY <1>6 DEF TakeSnapshot, CommitSnapshot, SubmitReview, Abort, tables
  <1>7. ASSUME NEW e \in Evaluations,
               \/ Trigger(e) \/ TakeRule(e) \/ Act(e) \/ ActionsDone(e)
               \/ LogExecution(e) \/ Return(e)
        PROVE  UNCHANGED <<rule, panel, lapsed>>
    BY <1>7 DEF Trigger, TakeRule, Act, ActionsDone, LogExecution, Return, tables
  <1>. QED
    BY <1>1, <1>2, <1>3, <1>4, <1>5, <1>6, <1>7 DEF Next, vars, tables

LEMMA LookedAtStep == ASSUME TypeInv, [Next]_vars, TypeOK' PROVE LookedAt'
  <1>0. /\ eval \in [Evaluations -> EvalStates] /\ LookedAt
        /\ rule \in [RuleIds -> RuleRow \union {NoRow, Deleted}]
    BY Typed DEF TypeInv
  <1>r. \A i \in DOMAIN Rules : Rules[i] \in RuleIds /\ (rule[Rules[i]] # NoRow => rule'[Rules[i]] # NoRow)
    BY RowsRemain DEF RuleIds
  <1>a. \A e \in Evaluations :
          /\ eval[e].todo \subseteq DOMAIN Rules
          /\ \A i \in eval[e].todo : rule'[Rules[i]] # NoRow
          /\ eval[e].pc \in {"act", "log"} => eval[e].at \in DOMAIN Rules /\ eval[e].row \in RuleRow
    <2>1. \A e \in Evaluations : eval[e].todo \subseteq DOMAIN Rules
      BY <1>0 DEF EvalStates
    <2>. QED
      BY <1>0, <1>r, <2>1 DEF LookedAt
  <1>1. CASE UNCHANGED eval
    BY <1>1, <1>a DEF LookedAt
  <1>2. ASSUME NEW e \in Evaluations, NEW x, Continue(e, x),
               \A i \in x.todo : i \in DOMAIN Rules /\ rule'[Rules[i]] # NoRow,
               x.pc \in {"act", "log"} => x.at \in DOMAIN Rules /\ x.row \in RuleRow
        PROVE  LookedAt'
    BY <1>0, <1>2, <1>a DEF LookedAt, Continue
  <1>3. ASSUME NEW e \in Evaluations,
               \/ Trigger(e) \/ TakeRule(e) \/ Act(e) \/ ActionsDone(e)
               \/ LogExecution(e) \/ Return(e)
        PROVE  LookedAt'
    <2>e. eval[e] \in EvalStates
      BY <1>0
    <2>n. NewEval.todo = {} /\ NewEval.pc = "new"
      BY DEF NewEval
    <2>1. CASE Trigger(e)
      <3>. DEFINE Sel(r) == Exists(r) /\ rule[r].status # "off"
                  todo == {i \in DOMAIN Rules : Sel(Rules[i])}
                  loaded == [r \in RuleIds |-> IF Sel(r) THEN rule[r] ELSE NoRow]
                  x == [NewEval EXCEPT !.pc = "rule", !.todo = todo, !.loaded = loaded]
      <3>1. Continue(e, x) /\ UNCHANGED rule
        BY <2>1 DEF Trigger, tables
      <3>2. \A i \in todo : i \in DOMAIN Rules /\ rule[Rules[i]] # NoRow
        BY RowsDiffer DEF Exists
      <3>. HIDE DEF todo, loaded
      <3>3. x.todo = todo /\ x.pc = "rule"
        BY DEF NewEval
      <3>. HIDE DEF x
      <3>. QED
        BY <1>2, <3>1, <3>2, <3>3
    <2>2. CASE TakeRule(e)
      <3>1. PICK i \in eval[e].todo : \E x :
              /\ Continue(e, x)
              /\ x.todo \subseteq eval[e].todo
              /\ x.pc \in {"act", "log"} => x.at = i /\ x.row = RowOf(e, Rules[i]) /\ x.row # Deleted
        <4>1. PICK i \in eval[e].todo, match \in BOOLEAN :
                LET row == RowOf(e, Rules[i])
                    acts == match /\ row.status # "testing"
                IN  Continue(e,
                       IF row = Deleted THEN [NewEval EXCEPT !.pc = "raised"]
                       ELSE [eval[e] EXCEPT !.todo = @ \ {i}, !.at = i, !.row = row, !.counted = FALSE,
                                            !.pc = IF acts THEN "act" ELSE "log",
                                            !.acts = IF acts THEN Actions[row.def] ELSE <<>>])
          BY <2>2 DEF TakeRule
        <4>. DEFINE row == RowOf(e, Rules[i])
                    acts == match /\ row.status # "testing"
                    pc == IF acts THEN "act" ELSE "log"
                    list == IF acts THEN Actions[row.def] ELSE <<>>
                    stop == [NewEval EXCEPT !.pc = "raised"]
                    x == [eval[e] EXCEPT !.todo = @ \ {i}, !.at = i, !.row = row, !.counted = FALSE,
                                         !.pc = pc, !.acts = list]
        <4>2. CASE row = Deleted
          <5>1. Continue(e, stop) /\ stop.todo = {} /\ stop.pc = "raised"
            BY <4>1, <4>2 DEF NewEval
          <5>. HIDE DEF stop
          <5>. QED
            BY <5>1
        <4>3. CASE row # Deleted
          <5>1. Continue(e, x)
            BY <4>1, <4>3
          <5>. HIDE DEF row, list, acts
          <5>2. x.todo = eval[e].todo \ {i} /\ x.at = i /\ x.row = row
            BY <2>e DEF EvalStates
          <5>. HIDE DEF x
          <5>. QED
            BY <4>3, <5>1, <5>2 DEF row
        <4>. QED
          BY <4>2, <4>3
      <3>2. i \in DOMAIN Rules /\ Rules[i] \in RuleIds
        BY <1>a, <1>r
      <3>3. RowOf(e, Rules[i]) # Deleted => RowOf(e, Rules[i]) \in RuleRow
        <4>1. eval[e].loaded[Rules[i]] \in RuleRow \union {NoRow}
          BY <2>e, <3>2 DEF EvalStates
        <4>2. rule[Rules[i]] \in RuleRow \union {Deleted}
          BY <1>0, <3>2 DEF LookedAt
        <4>. QED
          BY <4>1, <4>2 DEF RowOf
      <3>. QED
        BY <1>2, <1>a, <3>1, <3>2, <3>3
    <2>3. CASE Act(e) \/ ActionsDone(e) \/ Return(e)
      <3>1. PICK x : /\ Continue(e, x) /\ x.todo = eval[e].todo /\ x.at = eval[e].at /\ x.row = eval[e].row
                     /\ x.pc \in {"act", "log"} => eval[e].pc \in {"act", "log"}
        <4>1. CASE Act(e)
          <5>. DEFINE kind == Head(eval[e].acts)
                      ok == ~eval[e].broken /\ kind = "commits"
                              /\ (eval[e].counted \/ Exists(Rules[eval[e].at]))
                      counted == eval[e].counted \/ ok
                      broken == eval[e].broken \/ (kind # "other" /\ ~ok)
                      x == [eval[e] EXCEPT !.acts = Tail(@), !.counted = counted, !.broken = broken]
          <5>1. Continue(e, x) /\ eval[e].pc = "act"
            BY <4>1 DEF Act
          <5>. HIDE DEF counted, broken
          <5>2. x.todo = eval[e].todo /\ x.at = eval[e].at /\ x.row = eval[e].row
            BY <2>e DEF EvalStates
          <5>. HIDE DEF x
          <5>. QED
            BY <5>1, <5>2
        <4>2. CASE ActionsDone(e)
          <5>. DEFINE x == [eval[e] EXCEPT !.pc = "log"]
          <5>1. Continue(e, x) /\ eval[e].pc = "act"
            BY <4>2 DEF ActionsDone
          <5>2. x.todo = eval[e].todo /\ x.at = eval[e].at /\ x.row = eval[e].row
            BY <2>e DEF EvalStates
          <5>. HIDE DEF x
          <5>. QED
            BY <5>1, <5>2
        <4>3. CASE Return(e)
          <5>. DEFINE x == [eval[e] EXCEPT !.pc = "returned"]
          <5>1. Continue(e, x)
            BY <4>3 DEF Return
          <5>2. x.todo = eval[e].todo /\ x.at = eval[e].at /\ x.row = eval[e].row /\ x.pc = "returned"
            BY <2>e DEF EvalStates
          <5>. HIDE DEF x
          <5>. QED
            BY <5>1, <5>2
        <4>. QED
          BY <2>3, <4>1, <4>2, <4>3
      <3>. QED
        BY <1>2, <1>a, <3>1
    <2>4. CASE LogExecution(e)
      <3>. DEFINE go == [NewEval EXCEPT !.pc = "rule", !.todo = eval[e].todo]
                  stop == [NewEval EXCEPT !.pc = "raised"]
      <3>1. Continue(e, go) \/ Continue(e, stop)
        BY <2>4 DEF LogExecution
      <3>2. go.todo = eval[e].todo /\ go.pc = "rule" /\ stop.todo = {} /\ stop.pc = "raised"
        BY DEF NewEval
      <3>. HIDE DEF go, stop
      <3>. QED
        BY <1>2, <1>a, <3>1, <3>2
    <2>. QED
      BY <1>3, <2>1, <2>2, <2>3, <2>4
  <1>4. CASE CreatePanel
    BY <1>1, <1>4 DEF CreatePanel
  <1>5. ASSUME NEW q \in Requests,
               \/ CreateRule(q) \/ UpdateRule(q) \/ TakeSnapshot(q) \/ CommitSnapshot(q)
               \/ DeleteRule(q) \/ SubmitReview(q) \/ CommitReview(q) \/ Abort(q)
        PROVE  LookedAt'
    BY <1>1, <1>5 DEF CreateRule, UpdateRule, TakeSnapshot, CommitSnapshot, DeleteRule, SubmitReview,
                      CommitReview, Abort
  <1>. QED
    BY <1>1, <1>3, <1>4, <1>5 DEF Next, vars

(* What the commit of a review makes of the panel: the decision of its step  *)
(* and the user who made it, or what they are now.                           *)
LEMMA ReviewCommits ==
    ASSUME TypeInv, NEW q \in Requests, CommitReview(q)
    PROVE  LET h == req[q]
           IN  /\ h.of \in Panels /\ h.step \in Steps /\ h.pc = "review"
               /\ \A p \in Panels \ {h.of} : panel'[p] = panel[p]
               /\ review' = review \union {h.step}
               /\ \/ panel'[h.of].final = panel[h.of].final /\ panel'[h.of].by = panel[h.of].by
                  \/ /\ panel'[h.of].final = h.step.decision /\ panel'[h.of].by = h.step.by
                     /\ h.step.panel = h.of
                     /\ h.step.decision = "approved" => h.step.stage = 4
               /\ req' = [req EXCEPT ![q] = Idle]
  <1>. DEFINE h == req[q]
  <1>1. h \in ReqStates /\ h.pc = "review" /\ panel \in [Panels -> PanelRow \union {NoRow}]
    BY Typed DEF TypeInv, CommitReview
  <1>2. h.of \in Panels /\ h.was \in PanelRow /\ h.will \in PanelRow /\ h.step \in Steps
    BY <1>1, Held
  <1>3. /\ h.was.final = None /\ h.was.by = None /\ h.step.panel = h.of
        /\ h.will.final # None =>
             /\ h.will.final = h.step.decision /\ h.will.by = h.step.by
             /\ h.step.decision = "approved" => h.step.stage = 4
        /\ h.will.final = None => h.will.by = None
    BY <1>1 DEF TypeInv, Reviewed
  <1>4. h.step.by # None
    BY <1>2, NoneAssumption DEF Steps
  <1>5. /\ panel'[h.of].final = IF h.will.final # h.was.final THEN h.will.final ELSE panel[h.of].final
        /\ panel'[h.of].by = IF h.will.by # h.was.by THEN h.will.by ELSE panel[h.of].by
        /\ \A p \in Panels \ {h.of} : panel'[p] = panel[p]
    BY <1>1, <1>2 DEF CommitReview
  <1>6. review' = review \union {h.step} /\ req' = [req EXCEPT ![q] = Idle]
    BY DEF CommitReview
  <1>. QED
    BY <1>1, <1>2, <1>3, <1>4, <1>5, <1>6

(* What submitting a review leaves behind. *)
LEMMA ReviewSubmits ==
    ASSUME TypeInv, NEW q \in Requests, SubmitReview(q)
    PROVE  \E p \in Panels, h \in ReqStates :
             /\ req' = [req EXCEPT ![q] = h] /\ h.pc = "review" /\ h.of = p
             /\ panel[p] # NoRow /\ panel[p].final = None
             /\ h.step.panel = p
             /\ h.was = panel[p]
             /\ h.will.final # None =>
                  /\ h.will.final = h.step.decision /\ h.will.by = h.step.by
                  /\ h.step.decision = "approved" => h.step.stage = 4
             /\ h.will.final = None => h.will.by = None
             /\ Busy(p) => p \in lapsed'
             /\ UNCHANGED <<tables, eval>>
  <1>0. panel \in [Panels -> PanelRow \union {NoRow}] /\ Undecided
    BY Typed DEF TypeInv
  <1>1. PICK p \in Panels, stage \in Stages, decision \in Decisions, u \in Reviewers :
          /\ req[q] = Idle
          /\ panel[p] # NoRow
          /\ panel[p].final = None
          /\ Cardinality(review) < MaxReviews
          /\ req' = [req EXCEPT ![q] =
               [pc |-> "review", of |-> p, was |-> panel[p],
                will |-> Outcome(panel[p], stage, decision, u),
                step |-> [panel |-> p, stage |-> stage, decision |-> decision, by |-> u]]]
          /\ lapsed' = IF Busy(p) THEN lapsed \union {p} ELSE lapsed
          /\ UNCHANGED <<tables, eval>>
    BY DEF SubmitReview
  <1>. DEFINE will == Outcome(panel[p], stage, decision, u)
              step == [panel |-> p, stage |-> stage, decision |-> decision, by |-> u]
              h == [pc |-> "review", of |-> p, was |-> panel[p], will |-> will, step |-> step]
  <1>2. panel[p] \in PanelRow /\ panel[p].by = None
    BY <1>0, <1>1 DEF Undecided
  <1>3. /\ will \in PanelRow
        /\ \/ will.final = None /\ will.by = None
           \/ /\ will.final = decision /\ will.by = u
              /\ decision = "approved" => stage = 4
    BY <1>1, <1>2, OutcomeTyped
  <1>4. decision # None
    BY NoneAssumption
  <1>5. step \in Steps /\ step.panel = p /\ step.stage = stage /\ step.decision = decision /\ step.by = u
    BY DEF Steps
  <1>6. req' = [req EXCEPT ![q] = h]
    BY <1>1
  <1>. HIDE DEF will, step
  <1>7. h \in ReqStates
    BY <1>2, <1>3, <1>5 DEF ReqStates
  <1>8. /\ h.pc = "review" /\ h.of = p /\ h.was = panel[p] /\ h.will = will /\ h.step = step
    OBVIOUS
  <1>. HIDE DEF h
  <1>. QED
    BY <1>1, <1>3, <1>4, <1>5, <1>6, <1>7, <1>8

(* The steps other than reviews leave panels and reviews alone. *)
LEMMA NoReview ==
    ASSUME TypeInv, [Next]_vars
    PROVE  \/ CreatePanel
           \/ \E q \in Requests : SubmitReview(q) \/ CommitReview(q)
           \/ /\ UNCHANGED <<panel, review>>
              /\ \A q \in Requests : req'[q] = req[q] \/ req'[q].pc # "review"
  <1>r. req \in [Requests -> ReqStates]
    BY Typed DEF TypeInv
  <1>1. CASE UNCHANGED vars
    BY <1>1 DEF vars, tables
  <1>2. ASSUME NEW q \in Requests, NEW h, req' = [req EXCEPT ![q] = h], h.pc # "review"
        PROVE  \A s \in Requests : req'[s] = req[s] \/ req'[s].pc # "review"
    BY <1>r, <1>2
  <1>i. Idle.pc # "review"
    BY DEF Idle
  <1>3. ASSUME NEW q \in Requests, CreateRule(q) \/ UpdateRule(q)
        PROVE  UNCHANGED <<panel, review>> /\ \A s \in Requests : req'[s] = req[s] \/ req'[s].pc # "review"
    <2>1. UNCHANGED <<panel, review>>
      BY <1>3 DEF CreateRule, UpdateRule
    <2>2. PICK r \in RuleIds, b \in BOOLEAN : req' = [req EXCEPT ![q] = [pc |-> "saved", of |-> r, first |-> b]]
      BY <1>3 DEF CreateRule, UpdateRule
    <2>. QED
      BY <1>2, <2>1, <2>2
  <1>4. ASSUME NEW q \in Requests, TakeSnapshot(q)
        PROVE  UNCHANGED <<panel, review>> /\ \A s \in Requests : req'[s] = req[s] \/ req'[s].pc # "review"
    <2>. DEFINE new == IF Exists(req[q].of)
           THEN [pc |-> "snapshot", of |-> req[q].of, first |-> req[q].first,
                 number |-> NextNumber(q), row |-> rule[req[q].of]]
           ELSE Idle
    <2>1. req' = [req EXCEPT ![q] = new] /\ UNCHANGED <<panel, review>>
      BY <1>4 DEF TakeSnapshot, tables
    <2>2. new.pc # "review"
      BY <1>i
    <2>. HIDE DEF new
    <2>. QED
      BY <1>2, <2>1, <2>2
  <1>5. ASSUME NEW q \in Requests, CommitSnapshot(q) \/ Abort(q)
        PROVE  UNCHANGED <<panel, review>> /\ \A s \in Requests : req'[s] = req[s] \/ req'[s].pc # "review"
    BY <1>5, <1>2, <1>i DEF CommitSnapshot, Abort, tables
  <1>6. ASSUME NEW q \in Requests, DeleteRule(q) PROVE UNCHANGED <<panel, review, req>>
    BY <1>6 DEF DeleteRule
  <1>7. ASSUME NEW e \in Evaluations,
               \/ Trigger(e) \/ TakeRule(e) \/ Act(e) \/ ActionsDone(e)
               \/ LogExecution(e) \/ Return(e)
        PROVE  UNCHANGED <<panel, review, req>>
    BY <1>7 DEF Trigger, TakeRule, Act, ActionsDone, LogExecution, Return, tables
  <1>. QED
    BY <1>1, <1>3, <1>4, <1>5, <1>6, <1>7 DEF Next

LEMMA PanelCreated ==
    ASSUME TypeInv, CreatePanel
    PROVE  \E p \in Panels :
             /\ panel[p] = NoRow /\ panel'[p].final = None /\ panel'[p].by = None
             /\ \A s \in Panels \ {p} : panel'[s] = panel[s]
             /\ UNCHANGED <<review, req, lapsed>>
  <1>1. panel \in [Panels -> PanelRow \union {NoRow}]
    BY Typed DEF TypeInv
  <1>2. NewPanel.final = None /\ NewPanel.by = None
    BY DEF NewPanel
  <1>. QED
    BY <1>1, <1>2 DEF CreatePanel

LEMMA ReviewedStep == ASSUME TypeInv, [Next]_vars PROVE Reviewed' /\ Undecided'
  <1>0. /\ req \in [Requests -> ReqStates] /\ Reviewed /\ Undecided
        /\ \A p \in Panels : panel[p] # NoRow => panel'[p] # NoRow
        /\ Idle.pc # "review"
    BY Typed, RowsRemain DEF TypeInv, Idle
  <1>h. \A q \in Requests : req[q].pc = "review" => req[q].of \in Panels
    BY <1>0, Held
  <1>p. \A q \in Requests : req[q].pc = "review" => panel[req[q].of] # NoRow
    BY <1>0 DEF Reviewed
  <1>1. CASE CreatePanel
    <2>1. PICK p \in Panels :
            /\ panel[p] = NoRow /\ panel'[p].final = None /\ panel'[p].by = None
            /\ \A s \in Panels \ {p} : panel'[s] = panel[s]
            /\ UNCHANGED <<review, req, lapsed>>
      BY <1>1, PanelCreated
    <2>2. Undecided'
      BY <1>0, <2>1 DEF Undecided
    <2>3. req' = req /\ \A q \in Requests : req[q].pc = "review" => panel'[req[q].of] # NoRow
      BY <1>0, <1>h, <1>p, <2>1
    <2>4. Reviewed'
      BY <1>0, <2>3 DEF Reviewed
    <2>. QED
      BY <2>2, <2>4
  <1>2. ASSUME NEW q \in Requests, SubmitReview(q) PROVE Reviewed' /\ Undecided'
    <2>1. PICK p \in Panels, h \in ReqStates :
             /\ req' = [req EXCEPT ![q] = h] /\ h.pc = "review" /\ h.of = p
             /\ panel[p] # NoRow /\ panel[p].final = None
             /\ h.step.panel = p
             /\ h.was = panel[p]
             /\ h.will.final # None =>
                  /\ h.will.final = h.step.decision /\ h.will.by = h.step.by
                  /\ h.step.decision = "approved" => h.step.stage = 4
             /\ h.will.final = None => h.will.by = None
             /\ Busy(p) => p \in lapsed'
             /\ UNCHANGED <<tables, eval>>
      BY <1>2, ReviewSubmits
    <2>2. UNCHANGED panel
      BY <2>1 DEF tables
    <2>3. req'[q] = h /\ \A s \in Requests \ {q} : req'[s] = req[s]
      BY <1>0, <2>1
    <2>4. panel[p].by = None
      BY <1>0, <2>1 DEF Undecided
    <2>5. Reviewed'
      BY <1>0, <2>1, <2>2, <2>3, <2>4 DEF Reviewed
    <2>. QED
      BY <1>0, <2>2, <2>5 DEF Undecided
  <1>3. ASSUME NEW q \in Requests, CommitReview(q) PROVE Reviewed' /\ Undecided'
    <2>1. LET h == req[q]
           IN  /\ h.of \in Panels /\ h.step \in Steps /\ h.pc = "review"
               /\ \A p \in Panels \ {h.of} : panel'[p] = panel[p]
               /\ \/ panel'[h.of].final = panel[h.of].final /\ panel'[h.of].by = panel[h.of].by
                  \/ panel'[h.of].final = h.step.decision /\ panel'[h.of].by = h.step.by
               /\ req' = [req EXCEPT ![q] = Idle]
      BY <1>3, ReviewCommits
    <2>2. req[q].step.decision # None
      BY <2>1, NoneAssumption DEF Steps
    <2>3. panel[req[q].of] # NoRow
      BY <1>0, <2>1 DEF Reviewed
    <2>4. Undecided'
      BY <1>0, <2>1, <2>2, <2>3 DEF Undecided
    <2>5. \A s \in Requests : req'[s].pc = "review" => req'[s] = req[s]
      BY <1>0, <2>1
    <2>6. Reviewed'
      BY <1>0, <1>h, <2>5 DEF Reviewed
    <2>. QED
      BY <2>4, <2>6
  <1>4. CASE /\ UNCHANGED <<panel, review>>
             /\ \A q \in Requests : req'[q] = req[q] \/ req'[q].pc # "review"
    <2>1. Reviewed'
      BY <1>0, <1>4 DEF Reviewed
    <2>. QED
      BY <1>0, <1>4, <2>1 DEF Undecided
  <1>. QED
    BY <1>1, <1>2, <1>3, <1>4, NoReview

LEMMA TypeStep == ASSUME TypeInv, [Next]_vars PROVE TypeInv'
  <1>1. TypeOK'
    <2>0. TypeOK
      BY DEF TypeInv
    <2>1. CASE UNCHANGED vars
      BY <2>0, <2>1 DEF TypeOK, vars, tables
    <2>2. CASE CreatePanel
      <3>1. NewPanel \in PanelRow
        BY DEF NewPanel, PanelRow, Stages
      <3>. QED
        BY <2>0, <2>2, <3>1 DEF TypeOK, CreatePanel
    <2>. QED
      BY <2>1, <2>2, RequestTyped, EvaluationTyped DEF Next
  <1>. QED
    BY <1>1, LookedAtStep, ReviewedStep DEF TypeInv

LEMMA TypedAlways == Spec => []TypeInv
  <1>1. Init => TypeInv
    <2>. SUFFICES ASSUME Init PROVE TypeInv
      OBVIOUS
    <2>1. /\ rule \in [RuleIds -> RuleRow \union {NoRow, Deleted}]
          /\ version \in [RuleIds -> Seq(Versions)] /\ log \subseteq Executions
          /\ panel \in [Panels -> PanelRow \union {NoRow}] /\ review \subseteq Steps
          /\ lapsed \subseteq RuleIds \union Panels
      BY DEF Init
    <2>2. Idle \in ReqStates
      BY DEF ReqStates
    <2>3. NewEval \in EvalStates
      <3>1. [r \in RuleIds |-> NoRow] \in [RuleIds -> RuleRow \union {NoRow}]
        OBVIOUS
      <3>2. <<>> \in Seq({"commits", "fails", "other"})
        OBVIOUS
      <3>. QED
        BY <3>1, <3>2 DEF NewEval, EvalStates
    <2>4. TypeOK
      BY <2>1, <2>2, <2>3 DEF Init, TypeOK
    <2>5. LookedAt
      BY DEF Init, LookedAt, NewEval
    <2>6. Reviewed /\ Undecided
      BY DEF Init, Reviewed, Undecided, Idle
    <2>. QED
      BY <2>4, <2>5, <2>6 DEF TypeInv
  <1>2. TypeInv /\ [Next]_vars => TypeInv'
    BY TypeStep
  <1>. QED
    BY <1>1, <1>2, PTL DEF Spec

(* Every variable keeps its type, however editors, reviewers and evaluations *)
(* overlap or are cut off.                                                   *)
THEOREM RulesTypeCorrect == Spec => []TypeOK
  <1>1. TypeInv => TypeOK
    BY DEF TypeInv
  <1>. QED
    BY <1>1, TypedAlways, PTL

-----------------------------------------------------------------------------
LEMMA ExecutedStep == ASSUME TypeInv, ExecutedRulesStay, [Next]_vars PROVE ExecutedRulesStay'
  <1>0. /\ rule \in [RuleIds -> RuleRow \union {NoRow, Deleted}] /\ log \subseteq Executions
        /\ \A x \in log : Exists(x.rule) /\ x.rule \in RuleIds
    BY Typed DEF TypeInv, ExecutedRulesStay, Executions
  <1>1. ASSUME UNCHANGED <<rule, log>> PROVE ExecutedRulesStay'
    BY <1>0, <1>1 DEF ExecutedRulesStay, Exists
  <1>2. ASSUME NEW q \in Requests, CreateRule(q) \/ UpdateRule(q) PROVE ExecutedRulesStay'
    <2>1. PICK r \in RuleIds, s \in Statuses, d \in Defs :
            rule' = [rule EXCEPT ![r] = [status |-> s, def |-> d]] /\ UNCHANGED log
      BY <1>2 DEF CreateRule, UpdateRule, Statuses
    <2>2. [status |-> s, def |-> d] \in RuleRow
      BY DEF RuleRow
    <2>. QED
      BY <1>0, <2>1, <2>2 DEF ExecutedRulesStay, Exists
  <1>3. ASSUME NEW q \in Requests, DeleteRule(q) PROVE ExecutedRulesStay'
    BY <1>0, <1>3 DEF DeleteRule, ExecutedRulesStay, Exists
  <1>4. ASSUME NEW e \in Evaluations, LogExecution(e) PROVE ExecutedRulesStay'
    <2>. DEFINE x == [rule |-> Rules[eval[e].at], by |-> e, row |-> eval[e].row]
    <2>1. UNCHANGED rule /\ (log' = log \/ (log' = log \union {x} /\ Exists(Rules[eval[e].at])))
      BY <1>4 DEF LogExecution
    <2>2. x.rule = Rules[eval[e].at]
      OBVIOUS
    <2>. HIDE DEF x
    <2>. QED
      BY <1>0, <2>1, <2>2 DEF ExecutedRulesStay, Exists
  <1>5. ASSUME NEW e \in Evaluations,
               Trigger(e) \/ TakeRule(e) \/ Act(e) \/ ActionsDone(e) \/ Return(e)
        PROVE  ExecutedRulesStay'
    BY <1>1, <1>5 DEF Trigger, TakeRule, Act, ActionsDone, Return, tables
  <1>6. ASSUME NEW q \in Requests,
               TakeSnapshot(q) \/ CommitSnapshot(q) \/ SubmitReview(q) \/ CommitReview(q) \/ Abort(q)
        PROVE  ExecutedRulesStay'
    BY <1>1, <1>6 DEF TakeSnapshot, CommitSnapshot, SubmitReview, CommitReview, Abort, tables
  <1>7. CASE CreatePanel \/ UNCHANGED vars
    BY <1>1, <1>7 DEF CreatePanel, vars, tables
  <1>. QED
    BY <1>2, <1>3, <1>4, <1>5, <1>6, <1>7 DEF Next

(* A rule that was executed is never deleted, whatever editors do while its  *)
(* evaluation runs.                                                          *)
THEOREM ExecutedRulesKept == Spec => []ExecutedRulesStay
  <1>1. Init => ExecutedRulesStay
    BY DEF Init, ExecutedRulesStay
  <1>2. TypeInv /\ ExecutedRulesStay /\ [Next]_vars => ExecutedRulesStay'
    BY ExecutedStep
  <1>. QED
    BY <1>1, <1>2, TypedAlways, PTL DEF Spec

-----------------------------------------------------------------------------
(* A panel's decision is on record. *)
OnRecord == \A p \in Panels : panel[p] # NoRow /\ panel[p].final # None => DecidedOnRecord(p)

Reviews(q, p) == req[q].pc = "review" /\ req[q].of = p

(* Reviews that overlap are noted, and so is one that goes by a copy of a    *)
(* panel that has been decided on since.                                     *)
OverlapsNoted ==
    \A p \in Panels \ lapsed, q \in Requests : Reviews(q, p) =>
        panel[p].final = None /\ \A s \in Requests : Reviews(s, p) => s = q

DecisionInv == OnRecord /\ OverlapsNoted

LEMMA DecisionStep ==
    ASSUME TypeInv, DecisionInv, [Next]_vars
    PROVE  /\ DecisionInv'
           /\ \A p \in Panels : panel[p] # NoRow /\ panel[p].final # None =>
                \/ p \in lapsed
                \/ panel'[p].final = panel[p].final /\ panel'[p].by = panel[p].by
  <1>. DEFINE Stands(p) == panel[p] # NoRow /\ panel[p].final # None =>
                \/ p \in lapsed
                \/ panel'[p].final = panel[p].final /\ panel'[p].by = panel[p].by
  <1>0. /\ req \in [Requests -> ReqStates] /\ OnRecord /\ OverlapsNoted /\ lapsed \subseteq lapsed'
        /\ \A p \in Panels : panel[p] # NoRow => panel'[p] # NoRow
        /\ Idle.pc # "review"
    BY Typed, RowsRemain DEF TypeInv, DecisionInv, Idle
  <1>1. CASE CreatePanel
    <2>1. PICK p \in Panels :
            /\ panel[p] = NoRow /\ panel'[p].final = None /\ panel'[p].by = None
            /\ \A s \in Panels \ {p} : panel'[s] = panel[s]
            /\ UNCHANGED <<review, req, lapsed>>
      BY <1>1, PanelCreated
    <2>2. OnRecord'
      BY <1>0, <2>1 DEF OnRecord, DecidedOnRecord
    <2>3. OverlapsNoted'
      BY <1>0, <2>1 DEF OverlapsNoted, Reviews
    <2>4. \A s \in Panels : Stands(s)
      BY <2>1
    <2>. QED
      BY <2>2, <2>3, <2>4 DEF DecisionInv
  <1>2. ASSUME NEW q \in Requests, SubmitReview(q)
        PROVE  DecisionInv' /\ \A p \in Panels : Stands(p)
    <2>1. PICK p \in Panels, h \in ReqStates :
             /\ req' = [req EXCEPT ![q] = h] /\ h.pc = "review" /\ h.of = p
             /\ panel[p] # NoRow /\ panel[p].final = None
             /\ h.step.panel = p
             /\ h.was = panel[p]
             /\ h.will.final # None =>
                  /\ h.will.final = h.step.decision /\ h.will.by = h.step.by
                  /\ h.step.decision = "approved" => h.step.stage = 4
             /\ h.will.final = None => h.will.by = None
             /\ Busy(p) => p \in lapsed'
             /\ UNCHANGED <<tables, eval>>
      BY <1>2, ReviewSubmits
    <2>2. UNCHANGED <<panel, review>>
      BY <2>1 DEF tables
    <2>3. req'[q] = h /\ \A s \in Requests \ {q} : req'[s] = req[s]
      BY <1>0, <2>1
    <2>4. \A s \in Requests : Reviews(s, p) => p \in lapsed'
      BY <2>1 DEF Reviews, Busy, Idle
    <2>5. OnRecord'
      BY <1>0, <2>2 DEF OnRecord, DecidedOnRecord
    <2>6. OverlapsNoted'
      BY <1>0, <2>1, <2>2, <2>3, <2>4 DEF OverlapsNoted, Reviews
    <2>. QED
      BY <2>2, <2>5, <2>6 DEF DecisionInv
  <1>3. ASSUME NEW q \in Requests, CommitReview(q)
        PROVE  DecisionInv' /\ \A p \in Panels : Stands(p)
    <2>. DEFINE h == req[q]
    <2>1. /\ h.of \in Panels /\ h.step \in Steps /\ h.pc = "review"
          /\ \A p \in Panels \ {h.of} : panel'[p] = panel[p]
          /\ review' = review \union {h.step}
          /\ \/ panel'[h.of].final = panel[h.of].final /\ panel'[h.of].by = panel[h.of].by
             \/ /\ panel'[h.of].final = h.step.decision /\ panel'[h.of].by = h.step.by
                /\ h.step.panel = h.of
                /\ h.step.decision = "approved" => h.step.stage = 4
          /\ req' = [req EXCEPT ![q] = Idle]
      BY <1>3, ReviewCommits
    <2>2. UNCHANGED lapsed
      BY <1>3 DEF CommitReview
    <2>3. Reviews(q, h.of) /\ panel[h.of] # NoRow
      BY <2>1 DEF Reviews, TypeInv, Reviewed
    <2>4. h.of \in lapsed \/ panel[h.of].final = None
      BY <1>0, <2>1, <2>3 DEF OverlapsNoted
    <2>5. \A p \in Panels : Stands(p)
      BY <2>1, <2>4
    <2>6. OnRecord'
      <3>1. ASSUME NEW p \in Panels \ {h.of}, panel'[p] # NoRow, panel'[p].final # None
            PROVE  DecidedOnRecord(p)'
        BY <1>0, <2>1, <3>1 DEF OnRecord, DecidedOnRecord
      <3>2. ASSUME NEW p \in Panels, p = h.of, panel'[p].final # None PROVE DecidedOnRecord(p)'
        <4>1. CASE panel'[p].final = panel[p].final /\ panel'[p].by = panel[p].by
          BY <1>0, <2>1, <2>3, <3>2, <4>1 DEF OnRecord, DecidedOnRecord
        <4>2. CASE panel'[p].final = h.step.decision /\ panel'[p].by = h.step.by
                   /\ h.step.panel = p /\ (h.step.decision = "approved" => h.step.stage = 4)
          BY <2>1, <4>2 DEF DecidedOnRecord
        <4>. QED
          BY <2>1, <3>2, <4>1, <4>2
      <3>. QED
        BY <3>1, <3>2 DEF OnRecord
    <2>7. OverlapsNoted'
      <3>1. \A s \in Requests : req'[s].pc = "review" => req'[s] = req[s] /\ s # q
        BY <1>0, <2>1
      <3>2. \A p \in Panels, s \in Requests : Reviews(s, p)' => Reviews(s, p) /\ s # q
        BY <3>1 DEF Reviews
      <3>3. \A p \in Panels \ lapsed, s \in Requests : Reviews(s, p)' => p # h.of
        BY <1>0, <2>3, <3>2 DEF OverlapsNoted
      <3>. QED
        BY <1>0, <2>1, <2>2, <3>2, <3>3 DEF OverlapsNoted
    <2>. QED
      BY <2>5, <2>6, <2>7 DEF DecisionInv
  <1>4. CASE /\ UNCHANGED <<panel, review>>
             /\ \A q \in Requests : req'[q] = req[q] \/ req'[q].pc # "review"
    <2>1. OnRecord'
      BY <1>0, <1>4 DEF OnRecord, DecidedOnRecord
    <2>2. OverlapsNoted'
      BY <1>0, <1>4 DEF OverlapsNoted, Reviews
    <2>. QED
      BY <1>4, <2>1, <2>2 DEF DecisionInv
  <1>. QED
    BY <1>1, <1>2, <1>3, <1>4, NoReview

(* The final decision of a panel is on record and stands, for any number of  *)
(* reviewers, unless reviews of the panel overlap.                           *)
THEOREM DecisionsStand == Spec => FinalDecisionStands
  <1>1. Init => DecisionInv
    BY DEF Init, DecisionInv, OnRecord, OverlapsNoted, Reviews, Idle
  <1>2. TypeInv /\ DecisionInv /\ [Next]_vars => DecisionInv'
    BY DecisionStep
  <1>3. TypeInv /\ DecisionInv /\ [Next]_vars =>
          [\A p \in Panels :
             (panel'[p] # NoRow /\ panel'[p].final # None) =>
               /\ DecidedOnRecord(p)'
               /\ (panel[p] # NoRow /\ panel[p].final # None) =>
                    p \in lapsed \/ (panel'[p].final = panel[p].final /\ panel'[p].by = panel[p].by)]_vars
    <2>. SUFFICES ASSUME TypeInv, DecisionInv, [Next]_vars
                  PROVE  \A p \in Panels :
                           (panel'[p] # NoRow /\ panel'[p].final # None) =>
                             /\ DecidedOnRecord(p)'
                             /\ (panel[p] # NoRow /\ panel[p].final # None) =>
                                  p \in lapsed
                                  \/ (panel'[p].final = panel[p].final /\ panel'[p].by = panel[p].by)
      OBVIOUS
    <2>. QED
      BY DecisionStep DEF DecisionInv, OnRecord
  <1>. QED
    BY <1>1, <1>2, <1>3, TypedAlways, PTL DEF Spec, FinalDecisionStands

-----------------------------------------------------------------------------
(* The requests that change a rule, and the rows of it that can be traced:   *)
(* those in a snapshot, and the one whose snapshot is under way.             *)
Writes(q, r) == req[q].pc \in {"saved", "snapshot"} /\ req[q].of = r
Recorded(r, row) == \E i \in DOMAIN version[r] : version[r][i].row = row
Known(r, row) == Recorded(r, row) \/ (row = rule[r] /\ \E q \in Requests : Writes(q, r))

(* Nothing is about a rule that was not created. *)
Unborn(r) == rule[r] = NoRow =>
    /\ version[r] = <<>>
    /\ \A q \in Requests : ~Writes(q, r)
    /\ \A e \in Evaluations : /\ eval[e].loaded[r] = NoRow
                              /\ eval[e].pc \in {"act", "log"} => Rules[eval[e].at] # r

OneEditor(r) == \A q, s \in Requests : Writes(q, r) /\ Writes(s, r) => q = s
Numbered(r) == \A i \in DOMAIN version[r] : version[r][i].number = i
InOrder(r) == \A q \in Requests : Writes(q, r) =>
    /\ req[q].pc = "saved" /\ req[q].first => version[r] = <<>>
    /\ req[q].pc = "snapshot" => req[q].number = Len(version[r]) + 1 /\ req[q].row = rule[r]
RowsKnown(r) ==
    /\ Known(r, rule[r])
    /\ \A e \in Evaluations :
         /\ eval[e].loaded[r] # NoRow => Known(r, eval[e].loaded[r])
         /\ eval[e].pc \in {"act", "log"} /\ Rules[eval[e].at] = r => Known(r, eval[e].row)
LogKnown(r) == \A x \in log : x.rule = r => Known(r, x.row)

Traced(r) ==
    /\ OneEditor(r) /\ Numbered(r) /\ LogKnown(r)
    /\ Exists(r) => InOrder(r) /\ RowsKnown(r)

TraceInv == (\A r \in RuleIds : Unborn(r)) /\ (\A r \in RuleIds \ lapsed : Traced(r))

(* A step that leaves everything about r alone. *)
LEMMA TraceFrame ==
    ASSUME TypeInv, NEW r \in RuleIds, rule'[r] = rule[r], version'[r] = version[r],
           \A q \in Requests : req'[q] = req[q] \/ (~Writes(q, r) /\ ~Writes(q, r)'),
           UNCHANGED <<log, eval>>
    PROVE  (Unborn(r) => Unborn(r)') /\ (Traced(r) => Traced(r)')
  <1>1. \A q \in Requests : /\ Writes(q, r)' <=> Writes(q, r)
                            /\ Writes(q, r) => req'[q] = req[q]
    BY DEF Writes
  <1>2. \A row : Known(r, row) <=> Recorded(r, row) \/ (row = rule'[r] /\ \E q \in Requests : Writes(q, r)')
    BY <1>1 DEF Known
  <1>3. \A row : Recorded(r, row) <=> \E i \in DOMAIN version'[r] : version'[r][i].row = row
    BY DEF Recorded
  <1>4. Unborn(r) => Unborn(r)'
    BY <1>1 DEF Unborn
  <1>5. OneEditor(r) => OneEditor(r)'
    BY <1>1 DEF OneEditor
  <1>6. Numbered(r) => Numbered(r)'
    BY DEF Numbered
  <1>7. InOrder(r) => InOrder(r)'
    BY <1>1 DEF InOrder
  <1>8. (RowsKnown(r) => RowsKnown(r)') /\ (LogKnown(r) => LogKnown(r)')
    BY <1>2, <1>3 DEF RowsKnown, LogKnown, Known, Recorded
  <1>9. Exists(r)' <=> Exists(r)
    BY DEF Exists
  <1>. QED
    BY <1>4, <1>5, <1>6, <1>7, <1>8, <1>9 DEF Traced

(* The steps of evaluations. *)
LEMMA TraceEvaluation ==
    ASSUME TypeInv, ExecutedRulesStay, TraceInv, NEW e \in Evaluations,
           \/ Trigger(e) \/ TakeRule(e) \/ Act(e) \/ ActionsDone(e)
           \/ LogExecution(e) \/ Return(e)
    PROVE  TraceInv'
  <1>0. /\ eval \in [Evaluations -> EvalStates] /\ eval[e] \in EvalStates
        /\ rule \in [RuleIds -> RuleRow \union {NoRow, Deleted}]
        /\ LookedAt /\ UNCHANGED <<rule, version, req, lapsed>>
    BY Typed DEF TypeInv, Trigger, TakeRule, Act, ActionsDone, LogExecution, Return, tables
  <1>1. /\ \A r, row : Known(r, row)' <=> Known(r, row)
        /\ \A q, r : Writes(q, r)' <=> Writes(q, r)
        /\ \A r : Exists(r)' <=> Exists(r)
    BY <1>0 DEF Known, Recorded, Writes, Exists
  (* What the evaluation holds of r afterwards is what it held, or the row.  *)
  <1>2. PICK x :
          /\ Continue(e, x)
          /\ \A r \in RuleIds : x.loaded[r] \in {NoRow, eval[e].loaded[r], rule[r]}
          /\ x.pc \in {"act", "log"} =>
               \/ eval[e].pc \in {"act", "log"} /\ x.at = eval[e].at /\ x.row = eval[e].row
               \/ /\ Rules[x.at] \in RuleIds /\ rule[Rules[x.at]] # NoRow
                  /\ x.row \in {eval[e].loaded[Rules[x.at]], rule[Rules[x.at]]} \ {NoRow}
          /\ \A r \in RuleIds : rule[r] = NoRow => x.loaded[r] \in {NoRow, eval[e].loaded[r]}
    <2>n. NewEval.todo = {} /\ NewEval.pc = "new" /\ \A r \in RuleIds : NewEval.loaded[r] = NoRow
      BY DEF NewEval
    <2>1. CASE Trigger(e)
      <3>. DEFINE Sel(r) == Exists(r) /\ rule[r].status # "off"
                  todo == {i \in DOMAIN Rules : Sel(Rules[i])}
                  loaded == [r \in RuleIds |-> IF Sel(r) THEN rule[r] ELSE NoRow]
                  x == [NewEval EXCEPT !.pc = "rule", !.todo = todo, !.loaded = loaded]
      <3>1. Continue(e, x)
        BY <2>1 DEF Trigger
      <3>2. \A r \in RuleIds : loaded[r] \in {NoRow, rule[r]}
        OBVIOUS
      <3>. HIDE DEF todo, loaded
      <3>3. x.loaded = loaded /\ x.pc = "rule"
        BY DEF NewEval
      <3>. HIDE DEF x
      <3>. QED
        BY <3>1, <3>2, <3>3
    <2>2. CASE TakeRule(e)
      <3>1. PICK i \in eval[e].todo, match \in BOOLEAN :
              LET row == RowOf(e, Rules[i])
                  acts == match /\ row.status # "testing"
              IN  Continue(e,
                     IF row = Deleted THEN [NewEval EXCEPT !.pc = "raised"]
                     ELSE [eval[e] EXCEPT !.todo = @ \ {i}, !.at = i, !.row = row, !.counted = FALSE,
                                          !.pc = IF acts THEN "act" ELSE "log",
                                          !.acts = IF acts THEN Actions[row.def] ELSE <<>>])
        BY <2>2 DEF TakeRule
      <3>. DEFINE row == RowOf(e, Rules[i])
                  acts == match /\ row.status # "testing"
                  pc == IF acts THEN "act" ELSE "log"
                  list == IF acts THEN Actions[row.def] ELSE <<>>
                  stop == [NewEval EXCEPT !.pc = "raised"]
                  x == [eval[e] EXCEPT !.todo = @ \ {i}, !.at = i, !.row = row, !.counted = FALSE,
                                       !.pc = pc, !.acts = list]
      <3>2. i \in DOMAIN Rules /\ Rules[i] \in RuleIds /\ rule[Rules[i]] # NoRow
        BY <1>0 DEF EvalStates, LookedAt, RuleIds
      <3>3. row \in {eval[e].loaded[Rules[i]], rule[Rules[i]]} \ {NoRow}
        BY <3>2 DEF RowOf
      <3>4. CASE row = Deleted
        <4>1. Continue(e, stop) /\ stop.loaded = NewEval.loaded /\ stop.pc = "raised"
          BY <3>1, <3>4 DEF NewEval
        <4>. HIDE DEF stop
        <4>. QED
          BY <2>n, <4>1
      <3>5. CASE row # Deleted
        <4>1. Continue(e, x)
          BY <3>1, <3>5
        <4>. HIDE DEF row, list, acts
        <4>2. x.loaded = eval[e].loaded /\ x.at = i /\ x.row = row
          BY <1>0 DEF EvalStates
        <4>. HIDE DEF x
        <4>. QED
          BY <3>2, <3>3, <4>1, <4>2
      <3>. QED
        BY <3>4, <3>5
    <2>3. CASE Act(e)
      <3>. DEFINE kind == Head(eval[e].acts)
                  ok == ~eval[e].broken /\ kind = "commits"
                          /\ (eval[e].counted \/ Exists(Rules[eval[e].at]))
                  counted == eval[e].counted \/ ok
                  broken == eval[e].broken \/ (kind # "other" /\ ~ok)
                  x == [eval[e] EXCEPT !.acts = Tail(@), !.counted = counted, !.broken = broken]
      <3>1. Continue(e, x) /\ eval[e].pc = "act"
        BY <2>3 DEF Act
      <3>. HIDE DEF counted, broken
      <3>2. x.loaded = eval[e].loaded /\ x.at = eval[e].at /\ x.row = eval[e].row
        BY <1>0 DEF EvalStates
      <3>. HIDE DEF x
      <3>. QED
        BY <3>1, <3>2
    <2>4. CASE ActionsDone(e)
      <3>. DEFINE x == [eval[e] EXCEPT !.pc = "log"]
      <3>1. Continue(e, x) /\ eval[e].pc = "act"
        BY <2>4 DEF ActionsDone
      <3>2. x.loaded = eval[e].loaded /\ x.at = eval[e].at /\ x.row = eval[e].row
        BY <1>0 DEF EvalStates
      <3>. HIDE DEF x
      <3>. QED
        BY <3>1, <3>2
    <2>5. CASE Return(e)
      <3>. DEFINE x == [eval[e] EXCEPT !.pc = "returned"]
      <3>1. Continue(e, x)
        BY <2>5 DEF Return
      <3>2. x.loaded = eval[e].loaded /\ x.pc = "returned"
        BY <1>0 DEF EvalStates
      <3>. HIDE DEF x
      <3>. QED
        BY <3>1, <3>2
    <2>6. CASE LogExecution(e)
      <3>. DEFINE go == [NewEval EXCEPT !.pc = "rule", !.todo = eval[e].todo]
                  stop == [NewEval EXCEPT !.pc = "raised"]
      <3>1. Continue(e, go) \/ Continue(e, stop)
        BY <2>6 DEF LogExecution
      <3>2. /\ go.loaded = NewEval.loaded /\ go.pc = "rule"
            /\ stop.loaded = NewEval.loaded /\ stop.pc = "raised"
        BY DEF NewEval
      <3>. HIDE DEF go, stop
      <3>. QED
        BY <2>n, <3>1, <3>2
    <2>. QED
      BY <2>1, <2>2, <2>3, <2>4, <2>5, <2>6
  <1>3. eval'[e] = x /\ \A s \in Evaluations \ {e} : eval'[s] = eval[s]
    BY <1>0, <1>2 DEF Continue
  <1>4. ASSUME NEW r \in RuleIds PROVE Unborn(r)'
    <2>1. Unborn(r)
      BY DEF TraceInv
    <2>. QED
      BY <1>0, <1>1, <1>2, <1>3, <2>1 DEF Unborn
  <1>5. ASSUME NEW r \in RuleIds \ lapsed PROVE Traced(r)'
    <2>1. Traced(r)
      BY DEF TraceInv
    <2>2. OneEditor(r)' /\ Numbered(r)' /\ (Exists(r) => InOrder(r)')
      BY <1>0, <1>1, <2>1 DEF Traced, OneEditor, Numbered, InOrder
    <2>3. ASSUME Exists(r) PROVE RowsKnown(r)'
      <3>1. RowsKnown(r)
        BY <2>1, <2>3 DEF Traced
      <3>2. Known(r, rule[r])'
        BY <1>0, <1>1, <3>1 DEF RowsKnown
      <3>3. ASSUME NEW s \in Evaluations, eval'[s].loaded[r] # NoRow
            PROVE  Known(r, eval'[s].loaded[r])
        BY <1>2, <1>3, <3>1, <3>3 DEF RowsKnown
      <3>4. ASSUME NEW s \in Evaluations, eval'[s].pc \in {"act", "log"}, Rules[eval'[s].at] = r
            PROVE  Known(r, eval'[s].row)
        BY <1>2, <1>3, <3>1, <3>4 DEF RowsKnown
      <3>. QED
        BY <1>1, <3>2, <3>3, <3>4 DEF RowsKnown
    <2>4. LogKnown(r)'
      <3>1. CASE log' = log
        BY <1>1, <2>1, <3>1 DEF Traced, LogKnown
      <3>2. CASE log' # log
        <4>. DEFINE y == [rule |-> Rules[eval[e].at], by |-> e, row |-> eval[e].row]
        <4>1. log' = log \union {y} /\ Exists(Rules[eval[e].at]) /\ eval[e].pc = "log"
          BY <3>2 DEF Trigger, TakeRule, Act, ActionsDone, LogExecution, Return, tables
        <4>2. y.rule = Rules[eval[e].at] /\ y.row = eval[e].row
          OBVIOUS
        <4>. HIDE DEF y
        <4>3. y.rule = r => Known(r, y.row)
          BY <2>1, <4>1, <4>2 DEF Traced, RowsKnown
        <4>. QED
          BY <1>1, <2>1, <4>1, <4>3 DEF Traced, LogKnown
      <3>. QED
        BY <3>1, <3>2
    <2>. QED
      BY <1>1, <2>2, <2>3, <2>4 DEF Traced
  <1>. QED
    BY <1>0, <1>4, <1>5 DEF TraceInv

(* The steps of editors and reviewers. *)
LEMMA TraceRequest ==
    ASSUME TypeInv, ExecutedRulesStay, TraceInv, NEW q \in Requests,
           \/ CreateRule(q) \/ UpdateRule(q) \/ TakeSnapshot(q) \/ CommitSnapshot(q)
           \/ DeleteRule(q) \/ SubmitReview(q) \/ CommitReview(q) \/ Abort(q)
    PROVE  TraceInv'
  <1>0. /\ rule \in [RuleIds -> RuleRow \union {NoRow, Deleted}]
        /\ version \in [RuleIds -> Seq(Versions)]
        /\ req \in [Requests -> ReqStates] /\ req[q] \in ReqStates
        /\ Idle.pc = "idle" /\ lapsed \subseteq lapsed' /\ UNCHANGED <<log, eval>>
    BY Typed DEF TypeInv, CreateRule, UpdateRule, TakeSnapshot, CommitSnapshot, DeleteRule,
                 SubmitReview, CommitReview, Abort, tables, Idle
  <1>n. \A x \in log : Exists(x.rule)
    BY DEF ExecutedRulesStay
  <1>t. /\ \A r \in RuleIds : Unborn(r)
        /\ \A r \in RuleIds \ lapsed : Traced(r)
    BY DEF TraceInv
  <1>d. /\ \A r : rule[r] = NoRow => ~Exists(r)
        /\ \A r : rule[r] = Deleted => ~Exists(r)
    BY RowsDiffer DEF Exists
  (* Rules that the step does not touch. *)
  <1>f. ASSUME NEW r \in RuleIds, rule'[r] = rule[r], version'[r] = version[r],
               ~Writes(q, r), ~Writes(q, r)', \A s \in Requests \ {q} : req'[s] = req[s]
        PROVE  Unborn(r)' /\ (r \notin lapsed' => Traced(r)')
    BY <1>0, <1>t, <1>f, TraceFrame
  <1>. SUFFICES ASSUME NEW r \in RuleIds
                PROVE  Unborn(r)' /\ (r \notin lapsed' => Traced(r)')
    BY DEF TraceInv
  <1>1. CASE CreateRule(q)
    <2>1. PICK c \in RuleIds, d \in Defs :
            /\ req[q] = Idle
            /\ rule[c] = NoRow
            /\ rule' = [rule EXCEPT ![c] = [status |-> "active", def |-> d]]
            /\ req' = [req EXCEPT ![q] = [pc |-> "saved", of |-> c, first |-> TRUE]]
            /\ UNCHANGED <<version, log, panel, review, eval, lapsed>>
      BY <1>1 DEF CreateRule
    <2>2. \A s \in Requests \ {q} : req'[s] = req[s]
      BY <1>0, <2>1
    <2>3. req'[q].pc = "saved" /\ req'[q].of = c /\ req'[q].first
      BY <1>0, <2>1
    <2>4. CASE r # c
      BY <1>0, <1>f, <2>1, <2>2, <2>3, <2>4 DEF Writes
    <2>5. CASE r = c
      <3>1. /\ version'[r] = <<>>
            /\ \A s \in Requests : ~Writes(s, r)
            /\ \A e \in Evaluations : /\ eval'[e].loaded[r] = NoRow
                                      /\ eval'[e].pc \in {"act", "log"} => Rules[eval'[e].at] # r
            /\ \A x \in log' : x.rule # r
        BY <1>0, <1>n, <1>d, <1>t, <2>1, <2>5 DEF Unborn
      <3>2. \A s \in Requests : Writes(s, r)' <=> s = q
        BY <1>0, <2>2, <2>3, <2>5, <3>1 DEF Writes
      <3>3. rule'[r] # NoRow
        BY <1>0, <2>1, <2>5 DEF NoRow
      <3>4. OneEditor(r)' /\ Numbered(r)' /\ LogKnown(r)'
        BY <3>1, <3>2 DEF OneEditor, Numbered, LogKnown
      <3>5. InOrder(r)'
        BY <2>3, <3>1, <3>2 DEF InOrder
      <3>6. Known(r, rule[r])'
        BY <3>2 DEF Known
      <3>7. RowsKnown(r)'
        BY <3>1, <3>6 DEF RowsKnown
      <3>. QED
        BY <3>3, <3>4, <3>5, <3>7 DEF Traced, Unborn
    <2>. QED
      BY <2>4, <2>5
  <1>2. CASE UpdateRule(q)
    <2>1. PICK c \in RuleIds, s \in Statuses, d \in Defs :
            /\ req[q] = Idle
            /\ Exists(c)
            /\ rule' = [rule EXCEPT ![c] = [status |-> s, def |-> d]]
            /\ req' = [req EXCEPT ![q] = [pc |-> "saved", of |-> c, first |-> FALSE]]
            /\ lapsed' = IF Busy(c) THEN lapsed \union {c} ELSE lapsed
            /\ UNCHANGED <<version, log, panel, review, eval>>
      BY <1>2 DEF UpdateRule
    <2>2. \A t \in Requests \ {q} : req'[t] = req[t]
      BY <1>0, <2>1
    <2>3. req'[q].pc = "saved" /\ req'[q].of = c /\ ~req'[q].first
      BY <1>0, <2>1
    <2>4. CASE r # c
      BY <1>0, <1>f, <2>1, <2>2, <2>3, <2>4 DEF Writes
    <2>5. CASE r = c
      <3>1. rule'[r] # NoRow
        BY <1>0, <2>1, <2>5 DEF NoRow
      <3>2. ASSUME r \notin lapsed' PROVE Traced(r)'
        <4>1. ~Busy(r) /\ Traced(r) /\ Exists(r)
          BY <1>0, <1>t, <2>1, <2>5, <3>2
        <4>2. \A t \in Requests : ~Writes(t, r)
          BY <1>0, <4>1 DEF Busy, Writes
        <4>3. \A t \in Requests : Writes(t, r)' <=> t = q
          BY <2>2, <2>3, <2>5, <4>2 DEF Writes
        <4>4. \A row : Known(r, row) => Known(r, row)'
          BY <2>1, <4>2 DEF Known, Recorded
        <4>5. Known(r, rule[r])'
          BY <4>3 DEF Known
        <4>6. OneEditor(r)' /\ Numbered(r)'
          BY <2>1, <4>1, <4>3 DEF OneEditor, Numbered, Traced
        <4>7. InOrder(r)'
          BY <2>3, <4>3 DEF InOrder
        <4>8. LogKnown(r)'
          BY <1>0, <4>1, <4>4 DEF LogKnown, Traced
        <4>9. RowsKnown(r)'
          BY <1>0, <4>1, <4>4, <4>5 DEF RowsKnown, Traced
        <4>. QED
          BY <4>6, <4>7, <4>8, <4>9 DEF Traced
      <3>. QED
        BY <3>1, <3>2 DEF Unborn
    <2>. QED
      BY <2>4, <2>5
  (* A request that ends without a snapshot, or stores one of a deleted rule. *)
  <1>e. ASSUME UNCHANGED <<rule, version>>, req' = [req EXCEPT ![q] = Idle], ~Exists(r)
        PROVE  Unborn(r)' /\ (r \notin lapsed' => Traced(r)')
    <2>1. \A s \in Requests : Writes(s, r)' <=> Writes(s, r) /\ s # q
      BY <1>0, <1>e DEF Writes
    <2>2. Unborn(r)'
      BY <1>0, <1>e, <1>t, <2>1 DEF Unborn
    <2>3. LogKnown(r)' /\ ~Exists(r)'
      BY <1>0, <1>e, <1>n DEF LogKnown, Exists
    <2>4. ASSUME r \notin lapsed' PROVE OneEditor(r)' /\ Numbered(r)'
      BY <1>0, <1>e, <1>t, <2>1, <2>4 DEF Traced, OneEditor, Numbered
    <2>. QED
      BY <2>2, <2>3, <2>4 DEF Traced
  <1>3. CASE TakeSnapshot(q)
    <2>. DEFINE c == req[q].of
                new == [pc |-> "snapshot", of |-> c, first |-> req[q].first,
                        number |-> NextNumber(q), row |-> rule[c]]
    <2>1. /\ req[q].pc = "saved" /\ c \in RuleIds /\ UNCHANGED <<rule, version, lapsed>>
          /\ Exists(c) => req' = [req EXCEPT ![q] = new]
          /\ ~Exists(c) => req' = [req EXCEPT ![q] = Idle]
      BY <1>0, <1>3, Held DEF TakeSnapshot, tables
    <2>2. \A s \in Requests \ {q} : req'[s] = req[s]
      BY <1>0, <2>1
    <2>3. Exists(c) => /\ req'[q].pc = "snapshot" /\ req'[q].of = c
                       /\ req'[q].number = NextNumber(q) /\ req'[q].row = rule[c]
      BY <1>0, <2>1
    <2>. HIDE DEF new
    <2>4. CASE r # c
      BY <1>0, <1>f, <2>1, <2>2, <2>3, <2>4 DEF Writes
    <2>5. CASE r = c /\ ~Exists(r)
      BY <1>e, <2>1, <2>5
    <2>6. CASE r = c /\ Exists(r)
      <3>1. \A s \in Requests : Writes(s, r)' <=> Writes(s, r)
        BY <2>1, <2>2, <2>3, <2>6 DEF Writes
      <3>2. \A row : Known(r, row)' <=> Known(r, row)
        BY <2>1, <3>1 DEF Known, Recorded
      <3>3. Unborn(r)' /\ Exists(r)'
        BY <1>d, <2>1, <2>6 DEF Unborn, Exists
      <3>4. ASSUME r \notin lapsed' PROVE Traced(r)'
        <4>1. Traced(r)
          BY <1>t, <2>1, <3>4
        <4>2. /\ Writes(q, r) /\ \A s \in Requests : Writes(s, r) => s = q
              /\ req[q].first => version[r] = <<>>
          BY <2>1, <2>6, <4>1 DEF Traced, OneEditor, InOrder, Writes
        <4>3. NextNumber(q) = Len(version[r]) + 1
          BY <2>6, <4>2 DEF NextNumber
        <4>4. InOrder(r)'
          BY <2>1, <2>3, <2>6, <3>1, <4>2, <4>3 DEF InOrder
        <4>5. OneEditor(r)' /\ Numbered(r)'
          BY <2>1, <3>1, <4>1 DEF OneEditor, Numbered, Traced
        <4>6. RowsKnown(r)' /\ LogKnown(r)'
          BY <1>0, <2>1, <2>6, <3>2, <4>1 DEF RowsKnown, LogKnown, Traced
        <4>. QED
          BY <4>4, <4>5, <4>6 DEF Traced
      <3>. QED
        BY <3>3, <3>4
    <2>. QED
      BY <2>4, <2>5, <2>6
  <1>4. CASE CommitSnapshot(q)
    <2>. DEFINE c == req[q].of
                v == [number |-> req[q].number, row |-> req[q].row]
    <2>1. /\ req[q].pc = "snapshot" /\ c \in RuleIds /\ UNCHANGED <<rule, lapsed>>
          /\ req' = [req EXCEPT ![q] = Idle]
          /\ version' = IF Exists(c) THEN [version EXCEPT ![c] = Append(@, v)] ELSE version
      BY <1>0, <1>4, Held DEF CommitSnapshot
    <2>2. \A s \in Requests \ {q} : req'[s] = req[s]
      BY <1>0, <2>1
    <2>3. v.number = req[q].number /\ v.row = req[q].row
      OBVIOUS
    <2>. HIDE DEF v
    <2>4. CASE r # c
      BY <1>0, <1>f, <2>1, <2>2, <2>4 DEF Writes
    <2>5. CASE r = c /\ ~Exists(r)
      BY <1>e, <2>1, <2>5
    <2>6. CASE r = c /\ Exists(r)
      <3>1. version[r] \in Seq(Versions) /\ version'[r] = Append(version[r], v)
        BY <1>0, <2>1, <2>6
      <3>2. /\ Len(version'[r]) = Len(version[r]) + 1
            /\ DOMAIN version'[r] = DOMAIN version[r] \union {Len(version[r]) + 1}
            /\ \A i \in DOMAIN version[r] : version'[r][i] = version[r][i]
            /\ version'[r][Len(version[r]) + 1] = v
        BY <3>1
      <3>3. Unborn(r)' /\ Exists(r)'
        BY <1>d, <2>1, <2>6 DEF Unborn, Exists
      <3>4. ASSUME r \notin lapsed' PROVE Traced(r)'
        <4>1. Traced(r)
          BY <1>t, <2>1, <3>4
        <4>2. /\ Writes(q, r) /\ \A s \in Requests : Writes(s, r) => s = q
              /\ v.number = Len(version[r]) + 1 /\ v.row = rule[r]
          BY <2>1, <2>3, <2>6, <4>1 DEF Traced, OneEditor, InOrder, Writes
        <4>3. \A s \in Requests : ~Writes(s, r)'
          BY <1>0, <2>1, <2>2, <4>2 DEF Writes
        <4>4. \A row : Known(r, row) => Recorded(r, row)'
          BY <3>2, <4>2 DEF Known, Recorded
        <4>5. \A row : Known(r, row) => Known(r, row)'
          BY <4>4 DEF Known
        <4>6. OneEditor(r)' /\ InOrder(r)'
          BY <4>3 DEF OneEditor, InOrder
        <4>7. Numbered(r)'
          BY <3>2, <4>1, <4>2 DEF Numbered, Traced
        <4>8. RowsKnown(r)' /\ LogKnown(r)'
          BY <1>0, <2>1, <2>6, <4>1, <4>5 DEF RowsKnown, LogKnown, Traced
        <4>. QED
          BY <4>6, <4>7, <4>8 DEF Traced
      <3>. QED
        BY <3>3, <3>4
    <2>. QED
      BY <2>4, <2>5, <2>6
  <1>5. CASE DeleteRule(q)
    <2>1. PICK c \in RuleIds :
            /\ req[q] = Idle
            /\ \A x \in log : x.rule # c
            /\ rule' = [rule EXCEPT ![c] = Deleted]
            /\ version' = [version EXCEPT ![c] = <<>>]
            /\ UNCHANGED <<log, panel, review, req, eval, lapsed>>
      BY <1>5 DEF DeleteRule
    <2>2. CASE r # c
      BY <1>0, <1>f, <2>1, <2>2 DEF Writes
    <2>3. CASE r = c
      <3>1. rule'[r] = Deleted /\ version'[r] = <<>> /\ \A x \in log' : x.rule # r
        BY <1>0, <2>1, <2>3
      <3>2. Unborn(r)' /\ ~Exists(r)'
        BY <3>1, RowsDiffer DEF Unborn, Exists
      <3>3. Numbered(r)' /\ LogKnown(r)'
        BY <3>1 DEF Numbered, LogKnown
      <3>4. ASSUME r \notin lapsed' PROVE OneEditor(r)'
        BY <1>t, <2>1, <3>4 DEF Traced, OneEditor, Writes
      <3>. QED
        BY <3>2, <3>3, <3>4 DEF Traced
    <2>. QED
      BY <2>2, <2>3
  <1>6. CASE SubmitReview(q)
    <2>1. PICK h :
            h.pc = "review" /\ req[q] = Idle /\ req' = [req EXCEPT ![q] = h] /\ UNCHANGED <<rule, version>>
      BY <1>6 DEF SubmitReview, tables
    <2>2. ~Writes(q, r) /\ ~Writes(q, r)'
      BY <1>0, <2>1 DEF Writes
    <2>. QED
      BY <1>0, <1>f, <2>1, <2>2
  <1>7. CASE CommitReview(q)
    <2>1. req[q].pc = "review" /\ req' = [req EXCEPT ![q] = Idle] /\ UNCHANGED <<rule, version>>
      BY <1>7 DEF CommitReview
    <2>2. ~Writes(q, r) /\ ~Writes(q, r)'
      BY <1>0, <2>1 DEF Writes
    <2>. QED
      BY <1>0, <1>f, <2>1, <2>2
  <1>8. CASE Abort(q)
    <2>1. /\ req[q] # Idle /\ req' = [req EXCEPT ![q] = Idle]
          /\ lapsed' = lapsed \union ({req[q].of} \ Panels) /\ UNCHANGED <<rule, version>>
      BY <1>8 DEF Abort, tables
    <2>2. \A s \in Requests : Writes(s, r)' <=> Writes(s, r) /\ s # q
      BY <1>0, <2>1 DEF Writes
    <2>3. Unborn(r)'
      BY <1>0, <1>t, <2>1, <2>2 DEF Unborn
    <2>4. ASSUME r \notin lapsed' PROVE ~Writes(q, r)
      BY <2>1, <2>4, PanelsAssumption DEF Writes
    <2>. QED
      BY <1>0, <1>f, <2>1, <2>2, <2>3, <2>4
  <1>. QED
    BY <1>1, <1>2, <1>3, <1>4, <1>5, <1>6, <1>7, <1>8

(* An execution of a rule can be traced to a snapshot of it, for any number  *)
(* of rules, editors and evaluations, unless updates of the rule overlapped  *)
(* or one was cut off.                                                       *)
THEOREM ExecutionsTraced == Spec => []ExecutionsTraceable
  <1>1. Init => TraceInv
    BY DEF Init, TraceInv, Unborn, Traced, OneEditor, Numbered, LogKnown, Exists, RuleRow, Statuses,
           NoRow, Writes, Idle, NewEval
  <1>2. TypeInv /\ ExecutedRulesStay /\ TraceInv /\ [Next]_vars => TraceInv'
    <2>. SUFFICES ASSUME TypeInv, ExecutedRulesStay, TraceInv, [Next]_vars PROVE TraceInv'
      OBVIOUS
    <2>1. CASE CreatePanel
      BY <2>1, TraceFrame DEF CreatePanel, TraceInv
    <2>2. CASE UNCHANGED vars
      BY <2>2, TraceFrame DEF vars, tables, TraceInv
    <2>. QED
      BY <2>1, <2>2, TraceRequest, TraceEvaluation DEF Next
  <1>3. TypeInv /\ TraceInv => ExecutionsTraceable
    <2>. SUFFICES ASSUME TypeInv, TraceInv PROVE ExecutionsTraceable
      OBVIOUS
    <2>1. ASSUME NEW r \in RuleIds \ lapsed PROVE Numbered(r)
      BY <2>1 DEF TraceInv, Traced
    <2>2. ASSUME NEW x \in log, x.rule \notin lapsed PROVE Recorded(x.rule, x.row) \/ Busy(x.rule)
      <3>1. x.rule \in RuleIds \ lapsed
        BY <2>2, Typed DEF TypeInv, Executions
      <3>2. Known(x.rule, x.row)
        BY <2>2, <3>1 DEF TraceInv, Traced, LogKnown
      <3>3. ASSUME NEW q \in Requests, Writes(q, x.rule) PROVE Busy(x.rule)
        BY <3>3 DEF Writes, Busy, Idle
      <3>. QED
        BY <3>2, <3>3 DEF Known
    <2>. QED
      BY <2>1, <2>2 DEF ExecutionsTraceable, Numbered, Recorded
  <1>. QED
    BY <1>1, <1>2, <1>3, TypedAlways, ExecutedRulesKept, PTL DEF Spec

=============================================================================
