----------------------------- MODULE DueDiligence -----------------------------
(***************************************************************************)
(* Enhanced due diligence of a customer (ECDD: app/api/routes/reports.py,  *)
(* app/services/ecdd_service.py), articles about it and the wallets it     *)
(* pays from (app/api/routes/screening.py, customers.py).                  *)
(***************************************************************************)
EXTENDS RowRequests

CONSTANTS
    Examined,   \* ECDD records
    Screened    \* customers with an article and a wallet

-----------------------------------------------------------------------------
(* The facts of an assessment, a decision, and the audit log, which says what *)
(* was decided.  "notes" stands for what a decision leaves next to the status *)
(* (its notes, by whom, when): it is that of the status it is equal to.       *)

Facts == {"pep", "media", "owner", "wealth", "tax"}
Decisions == {"pending", "completed", "rejected"}
ExaminedRows ==
    [record : [status : Decisions \union {"none"}, facts : SUBSET Facts, score : 0 .. 110,
               recommendation : {"none", "approve", "monitor", "reject"},
               notes : Decisions \union {"none"}],
     log    : [said : SUBSET Decisions]]
NewExamined ==
    [record |-> [status |-> "none", facts |-> {}, score |-> 0, recommendation |-> "none",
                 notes |-> "none"],
     log    |-> [said |-> {}]]

(* What is verified takes its weight away; the others add theirs. *)
EcddScore(facts) ==
    LET points == [pep |-> 30, media |-> 35, owner |-> 20, wealth |-> 15, tax |-> 10]
        Of(f) == IF (f \in facts) = (f \notin {"owner", "wealth"}) THEN points[f] ELSE 0
        sum == Of("pep") + Of("media") + Of("owner") + Of("wealth") + Of("tax")
    IN  IF sum > 100 THEN 100 ELSE sum

Recommended(score, facts) ==
    IF "media" \in facts \/ score >= 80 THEN "reject"
    ELSE IF "pep" \in facts \/ score >= 50 THEN "monitor"
    ELSE "approve"

(* A request that has decided says so in the audit log, in a transaction of   *)
(* its own.                                                                   *)
ToLog == [pending |-> "log_pending", completed |-> "log_completed", rejected |-> "log_rejected"]
Logging == {ToLog[d] : d \in Decisions}

CreateEcdd(q, e, facts) ==
    /\ Free(e, "record", "status", "none")
    /\ Handle(q, e, [rows[e] EXCEPT
           !.record = [status |-> "pending", facts |-> facts, score |-> EcddScore(facts),
                       recommendation |-> Recommended(EcddScore(facts), facts),
                       notes |-> "none"]])

(* A decision may be any status, whatever was decided before. *)
DecideEcdd(q, e, d) ==
    /\ req[q] = Idle
    /\ rows[e].record.status # "none"
    /\ Save(q, e, [rows[e] EXCEPT !.record.status = d, !.record.notes = d], ToLog[d])

LogDecision(q, e, d) ==
    /\ req[q] = [pc |-> ToLog[d], of |-> e]
    /\ Save(q, e, [rows[e] EXCEPT !.log.said = @ \union {d}], "idle")

ExaminedRequest(q, e) ==
    \/ \E facts \in SUBSET Facts : CreateEcdd(q, e, facts)
    \/ \E d \in Decisions : DecideEcdd(q, e, d) \/ LogDecision(q, e, d)

-----------------------------------------------------------------------------
(* An article about a customer, and a wallet.  "answer" is what a provider    *)
(* said of the wallet; "asked" who is entered as having said so.              *)

ScreenedRows ==
    [media  : [status : {"none", "open", "under_review", "dismissed"}, confirmed : BOOLEAN,
               falsePositive : BOOLEAN],
     wallet : [status : {"none", "pending", "clear", "potential_match"},
               score : {"none", "lowest", "highest"}],
     answer : [said : {"none", "unlisted", "listed"}]]
NewScreened ==
    [media  |-> [status |-> "none", confirmed |-> FALSE, falsePositive |-> FALSE],
     wallet |-> [status |-> "none", score |-> "none"],
     answer |-> [said |-> "none"]]

RecordAdverseMedia(q, e) ==
    /\ Free(e, "media", "status", "none")
    /\ Handle(q, e, [rows[e] EXCEPT !.media.status = "open"])

(* A review may be repeated, and leaves the flag of the one before. *)
ReviewAdverseMedia(q, e, confirm) ==
    /\ rows[e].media.status # "none"
    /\ Handle(q, e, IF confirm
                    THEN [rows[e] EXCEPT !.media.confirmed = TRUE, !.media.status = "under_review"]
                    ELSE [rows[e] EXCEPT !.media.falsePositive = TRUE, !.media.status = "dismissed"])

(* Each request makes a row; the latest is kept.  Without a provider it is    *)
(* clear, and has no score.                                                   *)
ScreenWallet(q, e, said) ==
    Handle(q, e, [rows[e] EXCEPT !.answer.said = said, !.wallet =
        CASE said = "listed"   -> [status |-> "potential_match", score |-> "highest"]
          [] said = "unlisted" -> [status |-> "clear", score |-> "lowest"]
          [] said = "none"     -> [status |-> "clear", score |-> "none"]])

(* The form of the customer's page asks nobody, and nothing answers later. *)
EnterWallet(q, e) ==
    Handle(q, e, [rows[e] EXCEPT !.wallet = [status |-> "pending", score |-> "none"],
                                 !.answer.said = "none"])

ScreenedRequest(q, e) ==
    \/ RecordAdverseMedia(q, e) \/ EnterWallet(q, e)
    \/ \E confirm \in BOOLEAN : ReviewAdverseMedia(q, e, confirm)
    \/ \E said \in {"none", "unlisted", "listed"} : ScreenWallet(q, e, said)

-----------------------------------------------------------------------------
Caution == [none |-> 0, approve |-> 1, monitor |-> 2, reject |-> 3]

(* More against a customer recommends no less caution; no one with adverse    *)
(* media is recommended and no PEP without monitoring; and where decisions    *)
(* did not overlap, the notes on record are those of the status on record.    *)
DecidedAsNoted ==
    \A e \in Examined :
        LET r == rows[e].record
            worse(f) == IF f \in {"owner", "wealth"} THEN r.facts \ {f} ELSE r.facts \union {f}
        IN  r.status # "none" =>
              /\ \A f \in Facts :
                   Caution[Recommended(EcddScore(worse(f)), worse(f))] >= Caution[r.recommendation]
              /\ "media" \in r.facts => r.recommendation = "reject"
              /\ "pep" \in r.facts => r.recommendation # "approve"
              /\ e \notin raced /\ r.notes # "none" => r.notes = r.status

(* However reviews overlap, an article that is dismissed was found false and  *)
(* one under review was confirmed; and no wallet is given a score, or called  *)
(* a match, that no provider gave.                                            *)
ScreenedAsAnswered ==
    \A e \in Screened :
        LET r == rows[e]
        IN  /\ r.media.status = "dismissed" => r.media.falsePositive
            /\ r.media.status = "under_review" => r.media.confirmed
            /\ e \notin raced =>
                 /\ r.wallet.status = "potential_match" <=> r.answer.said = "listed"
                 /\ r.wallet.score = "none" <=> r.answer.said = "none"

=============================================================================
