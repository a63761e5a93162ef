------------------------------ MODULE RiskRuns ------------------------------
(***************************************************************************)
(* A run of the ML/TF risk assessment with its factor scores and the       *)
(* framework it goes by (app/api/routes/risk_assessment.py,                *)
(* models/risk_engine.py), and its arithmetic (services/risk_engine.py).   *)
(* The control effectiveness factors are fifths, 0.2 to 1.0, so scores     *)
(* after controls are counted in fifths of a point and all comparisons are *)
(* exact.                                                                  *)
(***************************************************************************)
EXTENDS RowRequests, Integers

CONSTANTS
    RiskModels,  \* frameworks, each with one run
    Marks        \* the grades that are entered

Grades == 1 .. 5  \* likelihood, consequence, control effectiveness

RiskRatings == {"low", "medium", "high", "critical"}

Clamped(x) == IF x < 1 THEN 1 ELSE IF x > 5 THEN 5 ELSE x

InherentRisk(likelihood, consequence) == Clamped(likelihood) * Clamped(consequence)

(* In fifths of a point: control_effectiveness_factor is that many fifths. *)
ResidualRisk(inherent, ce) == inherent * Clamped(ce)

(* The rating of total/shares fifths of a point. *)
AverageRating(total, shares) ==
    IF total <= 25 * shares THEN "low"
    ELSE IF total <= 60 * shares THEN "medium"
    ELSE IF total <= 95 * shares THEN "high"
    ELSE "critical"

RiskRating(fifths) == AverageRating(fifths, 1)

(* Ratings in the order of their thresholds. *)
Rank(rating) == CASE rating = "low" -> 1 [] rating = "medium" -> 2
                  [] rating = "high" -> 3 [] rating = "critical" -> 4

(* The grade a tested control of the register stands for                    *)
(* (app/services/control_effectiveness.py).                                 *)
GovernanceRatingToScore(rating) ==
    CASE rating = "effective" -> 1 [] rating = "largely" -> 2 [] rating = "partially" -> 3
      [] rating = "not_tested" -> 4 [] rating = "ineffective" -> 5

-----------------------------------------------------------------------------
ASSUME MarksAssumption == Marks \subseteq Grades

(* Two categories with one factor each: a mandatory one of the library, and   *)
(* a custom one, which is in use once it was added.                           *)
Factors == {"mandatory", "custom"}
MitigationStatuses == {"not_started", "in_progress", "completed", "overdue", "not_required"}
Weightings == {w \in [Factors -> 0 .. 1] : \E f \in Factors : w[f] > 0}

(* 0 is a grade that was not entered.  "inherent" and "residual" are the      *)
(* stored columns, in points and in fifths; "rating" is the residual_rating.  *)
(* "total" and "shares" make the stored overall residual: total fifths over   *)
(* the sum of the weights.  "by" is history: the weights it was made with.    *)
ScoreRow ==
    [exists : BOOLEAN, likelihood : {0} \union Grades, consequence : {0} \union Grades,
     ce : {0} \union Grades, inherent : 0 .. 25, residual : 0 .. 125,
     override : {"none", "minimum", "maximum"}, rating : RiskRatings \union {"none"}]
RunRow ==
    [status : {"none", "draft", "in_progress", "completed", "approved"}, total : 0 .. 250,
     shares : 0 .. 2, rating : RiskRatings \union {"none"}, by : Weightings]
RiskRows ==
    [framework : [weights : Weightings, custom : BOOLEAN], run : RunRow,
     score : [Factors -> ScoreRow],
     mitigation : [status : MitigationStatuses \union {"none"}]]

NoScore == [exists |-> FALSE, likelihood |-> 0, consequence |-> 0, ce |-> 0, inherent |-> 0,
            residual |-> 0, override |-> "none", rating |-> "none"]
Even == [f \in Factors |-> 1]
NewRisk ==
    [framework |-> [weights |-> Even, custom |-> FALSE],
     run |-> [status |-> "none", total |-> 0, shares |-> 0, rating |-> "none", by |-> Even],
     score |-> [f \in Factors |-> NoScore],
     mitigation |-> [status |-> "none"]]

UpdateCategoryWeights(q, e, w) == Handle(q, e, [rows[e] EXCEPT !.framework.weights = w])

AddCustomFactor(q, e) ==
    /\ ~rows[e].framework.custom
    /\ Handle(q, e, [rows[e] EXCEPT !.framework.custom = TRUE])

(* A blank score for every factor in use. *)
CreateRun(q, e) ==
    /\ Free(e, "run", "status", "none")
    /\ Handle(q, e, [rows[e] EXCEPT !.run.status = "draft",
            !.score = [f \in Factors |-> [NoScore EXCEPT !.exists = f = "mandatory" \/ rows[e].framework.custom]]])

OverrideValue(s) == IF s.override = "maximum" THEN 125 ELSE 0

(* _calculate_run_scores: a category without scores counts as 0. *)
Recalculated(r) ==
    LET w == r.framework.weights
        effective(f) == IF r.score[f].override = "none" THEN r.score[f].residual
                        ELSE OverrideValue(r.score[f])
        total == w["mandatory"] * effective("mandatory") + w["custom"] * effective("custom")
        shares == w["mandatory"] + w["custom"]
    IN  [r EXCEPT !.run.total = total, !.run.shares = shares,
                  !.run.rating = AverageRating(total, shares), !.run.by = w]

(* What a grade entered for s makes of its calculated columns. *)
Calculated(s) ==
    LET inherent == InherentRisk(s.likelihood, s.consequence)
        residual == ResidualRisk(inherent, s.ce)
    IN  IF s.likelihood = 0 \/ s.consequence = 0 THEN s
        ELSE IF s.ce = 0 THEN [s EXCEPT !.inherent = inherent]
        ELSE [s EXCEPT !.inherent = inherent, !.residual = residual, !.rating = RiskRating(residual)]

Graded(s, l, c, ce) ==
    Calculated([s EXCEPT !.likelihood = IF l = 0 THEN @ ELSE l,
                         !.consequence = IF c = 0 THEN @ ELSE c,
                         !.ce = IF ce = 0 THEN @ ELSE ce])

Scored(q, e, f, s) ==
    /\ rows[e].score[f].exists
    /\ Handle(q, e, [rows[e] EXCEPT !.score[f] = s,
            !.run.status = IF @ = "draft" THEN "in_progress" ELSE @])

(* Mutant of ScoreFactor: also when the run is completed. *)
ScoreFactorAnytime(q, e, f, l, c, ce) ==
    /\ rows[e].run.status # "none"
    /\ Scored(q, e, f, Graded(rows[e].score[f], l, c, ce))

(* Each grade may be left out; the effectiveness may come from a control.  *)
ScoreFactor(q, e, f, l, c, ce) ==
    /\ rows[e].run.status \in {"draft", "in_progress"}
    /\ Scored(q, e, f, Graded(rows[e].score[f], l, c, ce))

(* The grades that were entered stay, and no override is ever taken back. *)
OverrideScore(q, e, f, value) ==
    /\ rows[e].run.status \in {"draft", "in_progress"}
    /\ LET s == [Calculated(rows[e].score[f]) EXCEPT !.override = value] IN
         Scored(q, e, f, [s EXCEPT !.rating = RiskRating(OverrideValue(s))])

(* For a run of any status. *)
RecalculateScores(q, e) ==
    rows[e].run.status # "none" /\ Handle(q, e, Recalculated(rows[e]))

AddMitigation(q, e) ==
    /\ rows[e].run.status # "none"
    /\ Free(e, "mitigation", "status", "none")
    /\ Handle(q, e, [rows[e] EXCEPT !.mitigation.status = "not_started"])

UpdateMitigation(q, e, status) ==
    /\ rows[e].mitigation.status # "none"
    /\ Handle(q, e, [rows[e] EXCEPT !.mitigation.status = status])

(* Mandatory factors need a likelihood and a consequence, and no more. *)
SubmitRun(q, e) ==
    /\ rows[e].run.status = "in_progress"
    /\ rows[e].score["mandatory"].likelihood # 0 /\ rows[e].score["mandatory"].consequence # 0
    /\ Handle(q, e, Recalculated([rows[e] EXCEPT !.run.status = "completed"]))

ApproveRun(q, e) ==
    /\ rows[e].run.status = "completed"
    /\ Handle(q, e, [rows[e] EXCEPT !.run.status = "approved"])

RiskRequest(q, e) ==
    \/ \E w \in Weightings : UpdateCategoryWeights(q, e, w)
    \/ AddCustomFactor(q, e) \/ CreateRun(q, e) \/ RecalculateScores(q, e)
    \/ \E f \in Factors :
         \/ \E l, c, ce \in {0} \union Marks : ScoreFactor(q, e, f, l, c, ce)
         \/ \E value \in {"minimum", "maximum"} : OverrideScore(q, e, f, value)
    \/ AddMitigation(q, e)
    \/ \E status \in MitigationStatuses : UpdateMitigation(q, e, status)
    \/ SubmitRun(q, e) \/ ApproveRun(q, e)

-----------------------------------------------------------------------------
(* The overall result of a completed or approved run is what its factor       *)
(* scores give under the weights it was last calculated with: nothing is      *)
(* scored behind the back of the result that the MLRO approves.               *)
RatedAsScored ==
    \A e \in RiskModels \ raced :
        LET r == rows[e]
            then == [r EXCEPT !.framework.weights = r.run.by]
        IN  r.run.status \in {"completed", "approved"}
              => Recalculated(then).run = r.run

(* Controls never raise a risk: whatever order grades are entered in, the     *)
(* stored residual score of a factor is at most its stored inherent score,    *)
(* and the rating of a factor without an override is that of its residual.    *)
ResidualBounded ==
    \A e \in RiskModels \ raced, f \in Factors :
        LET s == rows[e].score[f] IN
        /\ s.residual <= 5 * s.inherent
        /\ s.override = "none" /\ s.rating # "none" => s.rating = RiskRating(s.residual)

=============================================================================
