---------------------------- MODULE ControlTests ----------------------------
(***************************************************************************)
(* A control of the register with its tests, their findings and the        *)
(* remediations (app/api/routes/governance/controls.py).                   *)
(***************************************************************************)
EXTENDS RowRequests, Naturals

CONSTANTS
    Controls,  \* controls
    Tests      \* their tests, numbered by test date

ASSUME TestsAssumption == Tests \subseteq Nat

ControlStatuses == {"active", "inactive", "under_review", "remediation", "suspended"}
Ratings == {"effective", "largely", "ineffective", "not_tested"}
Severities == {"critical", "high", "low"}
RemediationStatuses == {"open", "in_progress", "completed", "overdue", "risk_accepted", "not_required"}

TestRow ==
    [samples : {"absent", "none", "most", "few"}, finalised : BOOLEAN,
     rating : Ratings \union {"none"}, findings : SUBSET Severities,
     remedied : [Severities -> RemediationStatuses \union {"none"}]]
ControlRows ==
    [control : [status : ControlStatuses \union {"none"}, effectiveness : Ratings],
     tests   : [Tests -> TestRow],
     extra   : [status : RemediationStatuses \union {"none"}]]

UnratedTest(samples) ==
    [samples |-> samples, finalised |-> FALSE, rating |-> "none", findings |-> {},
     remedied |-> [s \in Severities |-> "none"]]
NoTest == UnratedTest("absent")

NewControl ==
    [control |-> [status |-> "none", effectiveness |-> "not_tested"],
     tests   |-> [t \in Tests |-> NoTest],
     extra   |-> [status |-> "none"]]

CreateControl(q, e) ==
    /\ Free(e, "control", "status", "none")
    /\ Handle(q, e, [rows[e] EXCEPT !.control.status = "active"])

(* The effectiveness is never set by a user; the status is. *)
UpdateControl(q, e, status) ==
    /\ rows[e].control.status # "none"
    /\ Handle(q, e, [rows[e] EXCEPT !.control.status = status])

(* Most samples pass, with or without deductions, or few do. *)
CalculateEffectiveness(t) ==
    IF t.samples = "none" THEN "not_tested"
    ELSE IF t.samples = "few" \/ "critical" \in t.findings THEN "ineffective"
    ELSE IF "high" \in t.findings THEN "largely"
    ELSE "effective"

Finalised(r) == {t \in Tests : r.tests[t].finalised}

(* _refresh_control_effectiveness: the latest finalised test that "stored"    *)
(* holds rates the control of r.                                              *)
Refreshed(r, stored) ==
    LET done == Finalised(stored)
        latest == CHOOSE t \in done : \A u \in done : u <= t
        rating == IF done = {} THEN "not_tested" ELSE CalculateEffectiveness(stored.tests[latest])
    IN  [r EXCEPT !.control.effectiveness = rating,
                  !.control.status = IF rating = "ineffective" /\ @ = "active"
                                     THEN "remediation" ELSE @]

CreateTest(q, e, t, samples) ==
    /\ rows[e].control.status # "none"
    /\ Free(e, "tests", t, NoTest)
    /\ Handle(q, e, [rows[e] EXCEPT !.tests[t] = UnratedTest(samples)])

AddFinding(q, e, t, severity) ==
    /\ rows[e].tests[t] # NoTest /\ ~rows[e].tests[t].finalised
    /\ severity \notin rows[e].tests[t].findings
    /\ Handle(q, e, [rows[e] EXCEPT !.tests[t].findings = @ \union {severity}])

(* The session does not flush before a query (autoflush is off), and nothing *)
(* flushes here: the refresh finds the tests that were finalised before.     *)
FinaliseTest(q, e, t) ==
    /\ rows[e].tests[t] # NoTest /\ ~rows[e].tests[t].finalised
    /\ LET this == rows[e].tests[t]
           final == [this EXCEPT
                        !.finalised = TRUE, !.rating = CalculateEffectiveness(this),
                        !.remedied = [s \in Severities |->
                            IF s \in this.findings \ {"low"} /\ @[s] = "none" THEN "open" ELSE @[s]]]
       IN  Handle(q, e, Refreshed([rows[e] EXCEPT !.tests[t] = final], rows[e]))

CreateRemediation(q, e) ==
    /\ rows[e].control.status # "none"
    /\ Free(e, "extra", "status", "none")
    /\ Handle(q, e, [rows[e] EXCEPT !.extra.status = "open"])

(* Completing a remediation refreshes the control. *)
AfterRemediation(r, status) == IF status = "completed" THEN Refreshed(r, r) ELSE r

UpdateRemediation(q, e, status) ==
    \/ /\ rows[e].extra.status # "none"
       /\ Handle(q, e, AfterRemediation([rows[e] EXCEPT !.extra.status = status], status))
    \/ \E t \in Finalised(rows[e]), s \in Severities :
         /\ rows[e].tests[t].remedied[s] # "none"
         /\ Handle(q, e, AfterRemediation([rows[e] EXCEPT !.tests[t].remedied[s] = status], status))

ControlRequest(q, e) ==
    \/ CreateControl(q, e)
    \/ \E status \in ControlStatuses : UpdateControl(q, e, status)
    \/ \E t \in Tests :
         \/ \E samples \in {"none", "most", "few"} : CreateTest(q, e, t, samples)
         \/ \E severity \in Severities : AddFinding(q, e, t, severity)
         \/ FinaliseTest(q, e, t)
    \/ CreateRemediation(q, e)
    \/ \E status \in RemediationStatuses : UpdateRemediation(q, e, status)

-----------------------------------------------------------------------------
(* Every critical or high finding of a finalised test has a remediation, and  *)
(* the rating on the test is the one that its findings give.                  *)
FindingsRemediated ==
    \A e \in Controls \ raced : \A t \in Finalised(rows[e]) :
        LET test == rows[e].tests[t] IN
        /\ \A s \in test.findings \ {"low"} : test.remedied[s] # "none"
        /\ test.rating = CalculateEffectiveness(test)

=============================================================================
