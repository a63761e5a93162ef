---------------------------- MODULE RiskProfiles ----------------------------
(***************************************************************************)
(* What risk a customer is stored with: the profile of the assessment      *)
(* (run_risk_assessment of app/api/routes/customer_workflow.py), and the   *)
(* rescoring, reviews and overrides of app/api/routes/customers.py.        *)
(***************************************************************************)
EXTENDS RowRequests, CustomerScores, FiniteSets, Sequences

CONSTANTS
    Profiles,    \* customers that are assessed
    Rescored,    \* customers that are rescored with their checklist
    People,      \* what is known of a customer
    Entered,     \* what analysts enter
    Questions,   \* questions of the customer checklist
    WeightLimit  \* custom_question_weight, clamped, in hundredths

ASSUME ProfilesAssumption ==
    /\ People \subseteq CustomerFacts
    /\ Entered \subseteq Expectations
    /\ WeightLimit \in 0 .. 40
    /\ IsFiniteSet(Questions)

RiskLevels == {"low", "medium", "high", "critical"}
CddLevels == {"simplified", "standard", "enhanced"}

Scores == 0 .. 2000  \* twentieths of a point
KnownFacts == {<<>>} \union {<<c>> : c \in CustomerFacts}
AssessedFacts == {<<>>} \union (CustomerFacts \X Expectations)

(* The profile row keeps the facts of the assessment and its results. *)
ProfileRows ==
    [customer : [facts : KnownFacts, level : RiskLevels, cdd : CddLevels],
     profile  : [facts : AssessedFacts, overall : Scores,
                 level : RiskLevels, gateway : {"none", "cdd", "edd"}]]

NewProfile ==
    [customer |-> [facts |-> <<>>, level |-> "low", cdd |-> "standard"],
     profile  |-> [facts |-> <<>>, overall |-> 0, level |-> "low", gateway |-> "none"]]

(* The flags for PEPs and matches are written here and never again, whatever *)
(* screenings find later.                                                    *)
CreateProfile(q, e, c) ==
    /\ Free(e, "customer", "facts", <<>>)
    /\ Handle(q, e, [rows[e] EXCEPT !.customer.facts = <<c>>])

UpdateFacts(q, e, occupation, taxId) ==
    /\ rows[e].customer.facts # <<>>
    /\ Handle(q, e, [rows[e] EXCEPT
            !.customer.facts = <<[@[1] EXCEPT !.occupation = occupation, !.taxId = taxId]>>])

AssessRisk(q, e, x) ==
    /\ rows[e].customer.facts # <<>>
    /\ LET c == rows[e].customer.facts[1]
           overall == Overall(c, x)
           gateway == DetermineGateway(c, x)
       IN  Handle(q, e, [rows[e] EXCEPT
               !.profile = [facts |-> <<c, x>>, overall |-> overall,
                            level |-> LevelOf(overall), gateway |-> gateway],
               !.customer.level = LevelOf(overall),
               !.customer.cdd = CddLevelOf(gateway, overall)])

ProfileRequest(q, e) ==
    \/ \E c \in People : CreateProfile(q, e, c)
    \/ \E occupation, taxId \in BOOLEAN : UpdateFacts(q, e, occupation, taxId)
    \/ \E x \in Entered : AssessRisk(q, e, x)

-----------------------------------------------------------------------------
(* Rescoring, with the answers of the checklist. *)

Answers == {"none", "yes", "no", "not_applicable"}

(* Who is rescored: the facts that rescore_customer looks at.                 *)
RescoredRows ==
    [customer : [pep : BOOLEAN, matched : BOOLEAN, embargoed : BOOLEAN,
                 level : RiskLevels, cdd : CddLevels],
     answers  : [Questions -> Answers],
     history  : [trigger : {"none", "manual_rescore", "periodic_review", "mlro_override"},
                 base : RiskLevels, level : RiskLevels]]

NewRescored ==
    [customer |-> [pep |-> FALSE, matched |-> FALSE, embargoed |-> FALSE, level |-> "low",
                   cdd |-> "standard"],
     answers  |-> [s \in Questions |-> "none"],
     history  |-> [trigger |-> "none", base |-> "low", level |-> "low"]]

FactorPoints(c) ==
    Capped((IF c.matched THEN 100 ELSE If(c.pep, 40)) + If(c.embargoed, 20)
           + If(c.cdd = "enhanced", 10))

(* Points are counted in shares of n. *)
LevelFor(points, n) ==
    IF points >= n * 75 THEN "critical" ELSE IF points >= n * 50 THEN "high"
    ELSE IF points >= n * 25 THEN "medium" ELSE "low"

BaseLevel(r) == LevelFor(FactorPoints(r.customer), 1)

Answered(r) == {s \in Questions : r.answers[s] \in {"yes", "no"}}
Compliant(r) == {s \in Questions : r.answers[s] = "yes"}

(* The reduction is 10 * (weight / 0.40) * compliant / answered, at most 10.  *)
(* No answer of yes or no, no reduction; and the checklist does not make a    *)
(* customer low.                                                              *)
RescoredLevel(r) ==
    LET n == 4 * Cardinality(Answered(r))
        reduced == LevelFor(n * FactorPoints(r.customer) - WeightLimit * Cardinality(Compliant(r)), n)
    IN  IF Answered(r) = {} THEN BaseLevel(r)
        ELSE IF reduced = "low" /\ BaseLevel(r) # "low" THEN "medium" ELSE reduced

(* _record_risk_history; "base" is what the factors alone would give. *)
RiskRecorded(r, trigger) ==
    [r EXCEPT !.history = [trigger |-> trigger, base |-> BaseLevel(r), level |-> r.customer.level]]

CreateWithFlags(q, e, pep, matched, embargoed) ==
    /\ rows[e] = NewRescored
    /\ Handle(q, e, [rows[e] EXCEPT !.customer.pep = pep, !.customer.matched = matched,
                                    !.customer.embargoed = embargoed])

AnswerQuestions(q, e, s, a) == Handle(q, e, [rows[e] EXCEPT !.answers[s] = a])

Rescore(q, e) ==
    Handle(q, e, RiskRecorded([rows[e] EXCEPT !.customer.level = RescoredLevel(rows[e])],
                           "manual_rescore"))

(* A periodic review stores a CDD level and a score, and leaves the level. *)
ReviewRisk(q, e, cdd) ==
    Handle(q, e, RiskRecorded([rows[e] EXCEPT !.customer.cdd = cdd], "periodic_review"))

OverrideRisk(q, e, level, cdd) ==
    Handle(q, e, RiskRecorded([rows[e] EXCEPT !.customer.level = level, !.customer.cdd = cdd],
                           "mlro_override"))

RescoredRequest(q, e) ==
    \/ \E pep, matched, embargoed \in BOOLEAN : CreateWithFlags(q, e, pep, matched, embargoed)
    \/ \E s \in Questions, a \in Answers \ {"none"} : AnswerQuestions(q, e, s, a)
    \/ Rescore(q, e)
    \/ \E cdd \in CddLevels : ReviewRisk(q, e, cdd)
    \/ \E level \in RiskLevels, cdd \in CddLevels : OverrideRisk(q, e, level, cdd)

-----------------------------------------------------------------------------
(* More risk never lowers the result: when a customer is assessed again and   *)
(* all that was said against him before is still said, then neither the       *)
(* score, nor the risk level, nor the CDD level gets lower, and a customer    *)
(* who was sent to EDD is sent there again.                                   *)
RiskierNeverLower ==
    [][\A e \in Profiles :
         LET was == rows[e].profile
             now == rows'[e].profile
         IN  was.facts # <<>> /\ now # was
               /\ WorseCustomer(was.facts[1], now.facts[1]) /\ WorseExpectations(was.facts[2], now.facts[2])
             => /\ was.overall <= now.overall
                /\ LevelRank(was.level) <= LevelRank(now.level)
                /\ was.gateway = "edd" => now.gateway = "edd" /\ rows'[e].customer.cdd = "enhanced"
      ]_rows

(* The checklist never makes a customer low: a rescoring that ends low is one *)
(* whose factors alone give low, whatever was answered, reviewed and          *)
(* overridden before.                                                         *)
ChecklistNeverLow ==
    \A e \in Rescored \ raced :
        rows[e].history.trigger = "manual_rescore" /\ rows[e].history.level = "low"
          => rows[e].history.base = "low"

=============================================================================
