------------------------------ MODULE Payments ------------------------------
(***************************************************************************)
(* Payments of one customer: the monitoring engine that scores them        *)
(* (app/services/monitoring_engine.py, app/services/risk_matrix_service.py)*)
(* the recommendations it leaves (app/services/recommendation_engine.py),  *)
(* and the checklist answered before one is approved                       *)
(* (app/api/routes/transactions.py).                                       *)
(*                                                                         *)
(* Scores are whole points and weights twentieths, as in CustomerScores.   *)
(* The flags for round, structured and cash-intensive amounts are columns  *)
(* that nothing sets, so the points they give are left out.                *)
(***************************************************************************)
EXTENDS RiskProfiles, FiniteSetsExt

CONSTANTS
    Payers,          \* customers whose payments are monitored
    PaymentFacts,    \* the payments that are entered
    PayerFacts,      \* who makes them
    MonitoringRules, \* the active rules of the organisation
    Watched,         \* AUSTRAC_WATCH_JURISDICTIONS
    Australia        \* the country of the organisation

PaymentMethods == {"cash", "bank_transfer", "other"}

(* A payment: "ends" are its source and destination, "via" the other two      *)
(* country columns, "remote" is a delivery channel that scores.  It stands    *)
(* for so many equal ones made at "times".                                    *)
Payment ==
    [kind : {"crypto", "crypto_sale", "remittance", "real_estate_settlement", "other"},
     method : PaymentMethods, amount : Nat, times : Nat, crossBorder : BOOLEAN,
     ends : SUBSET Countries, via : SUBSET Countries, remote : BOOLEAN,
     wallet : SUBSET {"mixer", "darknet", "sanctioned"}]
(* A payer: "home" is nationality and residence. *)
Payer == [pep : {"none", "domestic", "foreign", "other"}, level : RiskLevels, score : 0 .. 100,
          business : BOOLEAN, online : BOOLEAN, lowIncome : BOOLEAN, home : SUBSET Countries,
          verified : BOOLEAN, reviewOverdue : BOOLEAN]
ASSUME PaymentsAssumption ==
    /\ PaymentFacts \subseteq Payment
    /\ PayerFacts \subseteq Payer
    /\ MonitoringRules \subseteq
         [groups : SUBSET SUBSET {"large", "cash", "cross_border", "mixer", "pep"}, score : 0 .. 100]
    /\ Watched \union {Australia} \subseteq Countries
    /\ IsFiniteSet(Countries)

AdviceTypes == {"consider_ttr", "consider_ifti", "consider_smr", "consider_edd",
                "request_source_of_funds", "request_source_of_wealth", "senior_approval_required",
                "create_case", "enhanced_monitoring", "trigger_customer_review"}

(* Dates are relative to now: within the hour, before that within 30 days, or *)
(* more than 90 days ago.  "evaluated" is history.                            *)
PayerRows ==
    [customer : [facts : {<<>>} \union {<<c>> : c \in PayerFacts}],
     baseline : [known : BOOLEAN, count : Nat, volume : Nat, methods : SUBSET PaymentMethods,
                 countries : SUBSET Countries, lapsed : BOOLEAN, reactivated : BOOLEAN],
     payments : [1 .. 2 -> [facts : {<<>>} \union {<<x>> : x \in PaymentFacts},
                            dated : {"hour", "month", "before"},
                            completed : BOOLEAN, evaluated : BOOLEAN]],
     alerts   : [1 .. 2 -> [of : 0 .. 2, status : {"none", "open", "closed"}, score : 0 .. 10000,
                            final : {<<>>} \union {<<n>> : n \in 0 .. 10000}]],
     answers  : [Questions -> Answers],
     advice   : [AdviceTypes -> {"none", "pending", "actioned", "dismissed"}]]
NewPayer ==
    [customer |-> [facts |-> <<>>],
     baseline |-> [known |-> FALSE, count |-> 0, volume |-> 0, methods |-> {}, countries |-> {},
                   lapsed |-> FALSE, reactivated |-> FALSE],
     payments |-> [t \in 1 .. 2 |-> [facts |-> <<>>, dated |-> "hour", completed |-> FALSE,
                                     evaluated |-> FALSE]],
     alerts   |-> [a \in 1 .. 2 |-> [of |-> 0, status |-> "none", score |-> 0, final |-> <<>>]],
     answers  |-> [s \in Questions |-> "none"],
     advice   |-> [a \in AdviceTypes |-> "none"]]

-----------------------------------------------------------------------------
(* The six signals.  x is the payment, c the payer, h the baseline, and n and *)
(* v the number and volume of the payments of the last hour.                  *)

(* The account that was idle is marked when the payment that ends it has been *)
(* scored; three times the daily average is a tenth of the monthly count.     *)
FrequencySignal(h, n) ==
    Capped(If(h.known /\ h.reactivated, 40) + If(h.known /\ n * 10 > h.count, 30) + If(n >= 10, 20))
VelocitySignal(h, n, v) ==
    Capped(If(n >= 5, 30) + If(v >= 50000, 40) + If(h.known /\ v * 6 > h.volume, 25))
ValueSignal(x, h) ==
    If(x.amount >= 10000, 30) + If(x.amount \in 9000 .. 9999, 25)
    + If(h.known /\ x.amount * h.count > 5 * h.volume, 25)
(* A country counts for the first list that has it. *)
ListedPoints(cs, grey) ==
    60 * Cardinality(cs \intersect Blacklist)
    + 50 * Cardinality((cs \intersect Sanctioned) \ Blacklist)
    + grey * Cardinality((cs \intersect Greylist) \ (Blacklist \union Sanctioned))
GeographicSignal(x) == Capped(ListedPoints(x.ends \union x.via, 20) + If(x.crossBorder, 10))
BehaviourSignal(x, c, h) ==
    If(c.pep # "none", 20)
    + If(c.lowIncome /\ x.kind \in {"crypto", "remittance", "real_estate_settlement"}
         /\ x.amount >= 5000, 25)
    + If(h.known /\ x.method \notin h.methods, 15)
    + If(h.known /\ x.ends # {} /\ x.ends \intersect h.countries = {}, 20)
CryptoSignal(x) ==
    Capped(If("mixer" \in x.wallet, 50) + If("darknet" \in x.wallet, 60)
           + If("sanctioned" \in x.wallet, 70))

(* In twentieths. *)
CombinedSignals(x, c, h, n, v) ==
    3 * FrequencySignal(h, n) + 4 * VelocitySignal(h, n, v) + 4 * ValueSignal(x, h)
    + 4 * GeographicSignal(x) + 3 * BehaviourSignal(x, c, h) + 2 * CryptoSignal(x)

(* The four dimensions of the matrix. *)
CustomerDimension(c) ==
    Capped((CASE c.pep = "foreign" -> 55 [] c.pep = "domestic" -> 40 [] c.pep = "other" -> 45
              [] c.pep = "none" -> 0)
           + (CASE c.level = "critical" -> 40 [] c.level = "high" -> 30 [] c.level = "medium" -> 15
                [] c.level = "low" -> 0)
           + (IF c.score >= 80 THEN 20 ELSE If(c.score >= 60, 10))
           + If(c.business, 10) + If(c.online, 8))
MatrixPoints(cs) ==
    ListedPoints(cs, 30)
    + 15 * Cardinality((cs \intersect Watched) \ (Blacklist \union Sanctioned \union Greylist))
GeographicDimension(x, c) ==
    Capped(MatrixPoints((x.ends \union c.home) \ {Australia}) + If(x.crossBorder, 15)
           + If(Cardinality(x.ends) = 2 /\ Australia \notin x.ends, 10))
ProductDimension(x) ==
    (CASE x.kind \in {"crypto", "crypto_sale"} -> 40 [] x.kind = "remittance" -> 35
       [] x.kind = "real_estate_settlement" -> 30 [] x.kind = "other" -> 0)
    + (IF x.method = "cash" THEN 25 ELSE If(x.method = "bank_transfer", 10)) + If(x.remote, 10)
TransactionDimension(x) ==
    (IF x.amount \in 9000 .. 9999 THEN 35 ELSE If(x.amount >= 10000, 15))
    + (IF x.amount >= 100000 THEN 25 ELSE If(x.amount >= 50000, 15))
RiskMatrix(x, c) ==
    6 * CustomerDimension(c) + 5 * GeographicDimension(x, c) + 4 * ProductDimension(x)
    + 5 * TransactionDimension(x)

(* A rule matches when all conditions of one of its groups hold. *)
Matched(x, c) ==
    LET holds(k) == CASE k = "large" -> x.amount >= 10000
                      [] k = "cash" -> x.method = "cash"
                      [] k = "cross_border" -> x.crossBorder
                      [] k = "mixer" -> "mixer" \in x.wallet
                      [] k = "pep" -> c.pep # "none"
    IN  {m \in MonitoringRules : \E g \in m.groups : \A k \in g : holds(k)}

(* In hundredths of a point, rounded. *)
CalculateAlertScore(x, c, h, n, v) ==
    LET rules == Max({0} \union {m.score : m \in Matched(x, c)})
        total == 6 * CombinedSignals(x, c, h, n, v) + 100 * rules + 40 * c.score
                 + 7 * RiskMatrix(x, c)
    IN  Min({(total + 2) \div 4, 10000})

Recommendations(x, c, score) ==
    LET all == x.ends \union x.via
        risky == c.level \in {"high", "critical"}
        listed == all \intersect (Sanctioned \union Blacklist) # {}
    IN  {a \in AdviceTypes :
          CASE a = "consider_ttr" -> x.amount >= 9000
            [] a = "consider_ifti" -> x.crossBorder
            [] a = "consider_smr" -> listed \/ score >= 7000
            [] a = "consider_edd" ->
                 risky \/ c.pep # "none" \/ all \intersect Blacklist # {} \/ score >= 5000
            [] a = "request_source_of_funds" ->
                 ~c.verified /\ (x.amount >= 10000 \/ risky \/ c.pep # "none")
            [] a = "request_source_of_wealth" ->
                 ~c.verified /\ (c.pep # "none" \/ (c.level = "critical" /\ x.amount >= 50000))
            [] a = "senior_approval_required" ->
                 (c.pep # "none" \/ c.level = "critical") /\ x.amount >= 10000
            [] a = "create_case" -> score >= 5000
            [] a = "enhanced_monitoring" ->
                 (all \intersect Greylist # {} /\ ~listed) \/ risky
            [] a = "trigger_customer_review" -> c.reviewOverdue}

-----------------------------------------------------------------------------
(* The requests. *)

Booked(r) == {t \in 1 .. 2 : r.payments[t].facts # <<>>}
Fact(r, t) == r.payments[t].facts[1]
Made(r, when) == {t \in Booked(r) : r.payments[t].dated \in when}
Paid(x) == x.times * x.amount
CountOf(r, ts) == If(1 \in ts, Fact(r, 1).times) + If(2 \in ts, Fact(r, 2).times)
VolumeOf(r, ts) == If(1 \in ts, Paid(Fact(r, 1))) + If(2 \in ts, Paid(Fact(r, 2)))

CreatePayment(q, e, t, c, x, dated) ==
    /\ rows[e].payments[t].facts = <<>>
    /\ t = 1 \/ rows[e].payments[1].facts # <<>>
    /\ rows[e].customer.facts \in {<<>>, <<c>>}
    /\ Handle(q, e, [rows[e] EXCEPT !.customer.facts = <<c>>, !.payments[t].facts = <<x>>,
                                    !.payments[t].dated = dated])

CompletePayment(q, e, t) ==
    /\ t \in Booked(rows[e]) /\ ~rows[e].payments[t].completed
    /\ Handle(q, e, [rows[e] EXCEPT !.payments[t].completed = TRUE])

(* update_behaviour_profile: the other payments of the last 30 days, and this *)
(* one, whenever it was made.                                                 *)
Rebased(r, t) ==
    LET x == Fact(r, t)
        rest == Made(r, {"hour", "month"}) \ {t}
    IN  [r EXCEPT !.baseline =
            [known |-> TRUE, count |-> CountOf(r, rest) + x.times,
             volume |-> VolumeOf(r, rest) + Paid(x),
             methods |-> {Fact(r, u).method : u \in rest \union {t}},
             countries |-> UNION {Fact(r, u).ends : u \in rest \union {t}},
             lapsed |-> FALSE, reactivated |-> r.baseline.lapsed]]

AlertsOf(r, t) == {a \in 1 .. 2 : r.alerts[a].of = t}

(* One alert, if the payment is elevated and has no open one, with the        *)
(* recommendations; those of the first payment are kept here.                 *)
Alerted(r, t) ==
    LET x == Fact(r, t)
        c == r.customer.facts[1]
        n == CountOf(r, Made(r, {"hour"}))
        v == VolumeOf(r, Made(r, {"hour"}))
        score == CalculateAlertScore(x, c, r.baseline, n, v)
        a == Min({k \in 1 .. 2 : r.alerts[k].of = 0})
        elevated == \/ CombinedSignals(x, c, r.baseline, n, v) >= 20 * 20
                    \/ Matched(x, c) # {}
                    \/ RiskMatrix(x, c) >= 30 * 20
    IN  IF \/ ~elevated
           \/ \E k \in AlertsOf(r, t) : r.alerts[k].status = "open"
        THEN r
        ELSE [r EXCEPT !.alerts[a] = [of |-> t, status |-> "open", score |-> score, final |-> <<>>],
                       !.advice = [k \in AdviceTypes |->
                           IF t = 1 /\ k \in Recommendations(x, c, score) /\ r.advice[k] = "none"
                           THEN "pending" ELSE r.advice[k]]]

(* run_monitoring on a payment that is stored; bound: two alerts. *)
RunMonitoring(q, e, t) ==
    /\ t \in Booked(rows[e]) /\ rows[e].customer.facts # <<>>
    /\ rows[e].alerts[2].of = 0 \/ \E k \in AlertsOf(rows[e], t) : rows[e].alerts[k].status = "open"
    /\ Handle(q, e, [Rebased(Alerted(rows[e], t), t) EXCEPT !.payments[t].evaluated = TRUE])

CloseAlertOf(q, e, a) ==
    /\ rows[e].alerts[a].status = "open"
    /\ Handle(q, e, [rows[e] EXCEPT !.alerts[a].status = "closed"])

(* compute_question_score and compute_final_approval_score, in hundredths. *)
FinalApprovalScore(r, score) ==
    LET n == Cardinality(Answered(r))
        questions == (20000 * Cardinality(Compliant(r)) + n) \div (2 * n)
    IN  IF n = 0 THEN score
        ELSE ((100 - WeightLimit) * score + WeightLimit * (10000 - questions) + 50) \div 100

(* The answers about the first payment; the score is stored with its latest   *)
(* alert.                                                                     *)
AnswerApprovalQuestions(q, e, s, answer) ==
    /\ 1 \in Booked(rows[e])
    /\ LET r == [rows[e] EXCEPT !.answers[s] = answer]
           a == Max(AlertsOf(r, 1))
       IN  Handle(q, e, IF AlertsOf(r, 1) = {} THEN r
                        ELSE [r EXCEPT !.alerts[a].final = <<FinalApprovalScore(r, r.alerts[a].score)>>])

DecideAdvice(q, e, k, status) ==
    /\ rows[e].advice[k] = "pending"
    /\ Handle(q, e, [rows[e] EXCEPT !.advice[k] = status])

(* More than 90 days go by. *)
Lapse(e) ==
    /\ Pending = {} /\ Touch(e)
    /\ rows' = [rows EXCEPT ![e].payments = [t \in 1 .. 2 |->
                    IF t \in Booked(rows[e]) THEN [rows[e].payments[t] EXCEPT !.dated = "before"]
                    ELSE rows[e].payments[t]],
                            ![e].baseline.lapsed = rows[e].baseline.known]
    /\ UNCHANGED <<req, overdue, raced>>

PayerRequest(q, e) ==
    \/ \E t \in 1 .. 2, c \in PayerFacts, x \in PaymentFacts, dated \in {"hour", "month"} :
         CreatePayment(q, e, t, c, x, dated)
    \/ \E t \in 1 .. 2 : CompletePayment(q, e, t)
    \/ \E t \in 1 .. 2 : RunMonitoring(q, e, t)
    \/ \E a \in 1 .. 2 : CloseAlertOf(q, e, a)
    \/ \E s \in Questions, answer \in Answers \ {"none"} : AnswerApprovalQuestions(q, e, s, answer)
    \/ \E k \in AdviceTypes, status \in {"actioned", "dismissed"} : DecideAdvice(q, e, k, status)
    \/ Lapse(e)

-----------------------------------------------------------------------------
(* However often payments are evaluated again, the baseline they are judged   *)
(* by counts each of them at most once, unless an outdated copy was committed.*)
BaselineCountsOnce ==
    \A e \in Payers \ raced :
        /\ rows[e].baseline.count <= CountOf(rows[e], Booked(rows[e]))
        /\ rows[e].baseline.volume <= VolumeOf(rows[e], Booked(rows[e]))

(* The latest alert of a payment has no approval score, or that of the        *)
(* answers as they are now, whichever alert they were first given for, where  *)
(* answers and evaluations did not overlap.                                   *)
LatestAlertScored ==
    \A e \in Payers \ raced : AlertsOf(rows[e], 1) # {} =>
        LET x == rows[e].alerts[Max(AlertsOf(rows[e], 1))]
        IN  x.final \in {<<>>, <<FinalApprovalScore(rows[e], x.score)>>}

(* A cross-border payment over the threshold with a blacklisted country that  *)
(* was evaluated has an alert, whoever made it, however usual it is for him   *)
(* and whatever the rules are: the weighted sum reaches its limit.            *)
BlacklistedAlerted ==
    \A e \in Payers \ raced : \A t \in Booked(rows[e]) :
        LET x == Fact(rows[e], t)
        IN  rows[e].payments[t].evaluated /\ x.crossBorder /\ x.amount >= 10000
              /\ (x.ends \union x.via) \intersect Blacklist # {}
            => AlertsOf(rows[e], t) # {}

(* A recommendation that was actioned or dismissed stays so when the payment  *)
(* is evaluated again.                                                        *)
AdviceStands ==
    [][\A e \in Payers, k \in AdviceTypes :
         rows[e].advice[k] \in {"actioned", "dismissed"} => rows'[e].advice[k] = rows[e].advice[k]]_rows

=============================================================================
