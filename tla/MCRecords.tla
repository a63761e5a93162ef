------------------------------ MODULE MCRecords ------------------------------
(* Records on small instances. *)
EXTENDS Records, FiniteSets, TLC

CONSTANTS
    p, q, training, review, matter, board, policy, control, risk, matrix,
    program, generated, transfer, receipts, profile, rescored, account, payer,
    team, task, agenda, file, retained, evidence, register, hub, hook, check,
    login, firm, pack, checklist, monitor, group, solution, examined, wallet,
    kp, ru, ht, au

(* Who is assessed: by kind of PEP, match, nationality, lists and occupation. *)
Known == [pep |-> "none", matched |-> FALSE, nationality |-> au, dual |-> "none",
          lived |-> {au}, occupation |-> FALSE, taxId |-> TRUE]
SomePeople ==
    {Known, [Known EXCEPT !.pep = "foreign", !.dual = kp],
     [Known EXCEPT !.nationality = ht, !.occupation = TRUE], [Known EXCEPT !.matched = TRUE]}

(* What is entered: the weights of a level below and above its limit. *)
Plain == [products |-> {}, countries |-> {}, channel |-> "branch", introduced |-> FALSE,
          reliance |-> FALSE, volume |-> 0, largest |-> 0, frequency |-> "occasional",
          crosses |-> FALSE]
Busiest == [Plain EXCEPT !.channel = "agent", !.introduced = TRUE, !.reliance = TRUE,
            !.volume = 1000000, !.largest = 100000, !.frequency = "daily", !.crosses = TRUE]
SomeEntered ==
    {[x EXCEPT !.products = ps, !.countries = cs] :
        x \in {Plain, Busiest}, ps \in {{}, {"remittance", "fx", "cash"}, {"crypto", "bearer"}},
        cs \in {{}, {ru}, {ht, ru}}}

Transfer500 == [kind |-> "other", method |-> "other", amount |-> 500, times |-> 1,
                crossBorder |-> FALSE, ends |-> {au}, via |-> {}, remote |-> FALSE, wallet |-> {}]
SomePayments ==
    {Transfer500,
     [Transfer500 EXCEPT !.amount = 10000, !.crossBorder = TRUE, !.ends = {au, kp}],
     [Transfer500 EXCEPT !.amount = 20000, !.crossBorder = TRUE, !.via = {kp, ht}],
     [Transfer500 EXCEPT !.amount = 9500, !.times = 6, !.method = "cash"],
     [Transfer500 EXCEPT !.amount = 60000, !.kind = "crypto", !.wallet = {"mixer"}]}
Ordinary == [pep |-> "none", level |-> "low", score |-> 0, business |-> FALSE, online |-> FALSE,
             lowIncome |-> FALSE, home |-> {au}, verified |-> FALSE, reviewOverdue |-> FALSE]
SomePayers == {Ordinary, [Ordinary EXCEPT !.pep = "foreign", !.level = "critical", !.score = 90,
                                          !.lowIncome = TRUE, !.reviewOverdue = TRUE]}
SomeRules == {[groups |-> {{"mixer"}, {"cash", "large"}}, score |-> 90]}

(* Rules: for whoever handled the entity, whenever asked; for all, instead of *)
(* the platform's; and one of the platform.                                   *)
Handling == [handled |-> TRUE, to |-> {}, suits |-> TRUE, cooldown |-> FALSE, override |-> FALSE,
             platform |-> FALSE]
SomeTriggers ==
    {Handling,
     [Handling EXCEPT !.handled = FALSE, !.to = Trained, !.cooldown = TRUE, !.override = TRUE],
     [Handling EXCEPT !.handled = FALSE, !.to = Trained, !.cooldown = TRUE, !.platform = TRUE]}

(* Files: an address twice, a row without one, and rows with errors. *)
Row(address, named, valid) == [address |-> address, named |-> named, valid |-> valid]
SomeFiles ==
    {<<Row(a, TRUE, TRUE)>> : a \in Addresses}
        \union {<<Row(a, n, TRUE), Row(a, TRUE, v), Row(NoAddress, TRUE, TRUE)>> :
                   a \in Addresses, n, v \in BOOLEAN}

(* An assessment has one section next to its checklist. *)
AssessmentScene(r) == \A s \in Sections5 \ {"sof"} : r.sections[s] # "none" =>
    r.checklist = NewAssessment.checklist /\ \A u \in Sections5 \ {s} : r.sections[u] = "none"

(* A policy in use is not withdrawn; requests overlap with a publication or   *)
(* an attestation, and when an outdated copy was committed, those in flight   *)
(* end.                                                                       *)
Publishing == {i \in Pending : req[i].of = policy}
Saved == {req[i].new : i \in Publishing}
PolicyScene ==
    /\ Cardinality(Publishing') > 1 => \E r \in Saved' :
         r.versions # rows[policy].versions \/ r.attested # rows[policy].attested
    /\ rows'[policy].policy.status \notin {"superseded", "archived"} \/ Publishing' = {}
    /\ \A r \in Saved' : r.versions[2] # <<>> =>
         \E x \in Saved' \union {rows'[policy]} : x.versions[1] # <<>>
    /\ policy \in raced => Publishing' \subseteq Publishing

(* The next cycle starts when the first record is completed or late, and ends *)
(* after it.                                                                  *)
TrainingScene(r) ==
    r.next.status # "none" => /\ r.cycle.due = "d1" /\ (r.cycle.done \/ "d1" \in overdue)
                              /\ r.next.due = "d2" /\ r.next.expiry # "d1"

(* Actions are worked on while the review is in progress.                     *)
ReviewScene(r) == r.advice.status # "none" => r.review.status = "in_progress"

(* Of two tests, one has a finding; or one has several.  A control is tested, *)
(* or its status and an extra remediation are worked on.                      *)
ControlScene(r) ==
    /\ \A t, u \in Tests : t # u /\ r.tests[u] # NoTest => Cardinality(r.tests[t].findings) <= 1
    /\ (\E t \in Tests : r.tests[t] # NoTest) =>
         /\ r.control.status \in {"none", "active", "remediation"}
         /\ r.extra.status = "none"
    /\ \A t \in Tests, s \in Severities :
         \/ r.tests[t].remedied[s] \in {"none", "open", "completed"}
         \/ r.tests[t].findings = {s} /\ \A u \in Tests \ {t} : r.tests[u] = NoTest

(* One factor is worked on at a time: while the mandatory one is, the custom  *)
(* one has no grades and weights are even; after it, the mandatory one has    *)
(* all its grades and no override.  Mitigations come before the grades.       *)
Ungraded(s) == s.likelihood = 0 /\ s.consequence = 0 /\ s.ce = 0 /\ s.override = "none"
RiskScene(r) ==
    /\ \/ Ungraded(r.score["custom"]) /\ r.framework.weights = Even
       \/ /\ r.score["mandatory"].likelihood = 5 /\ r.score["mandatory"].consequence = 5
          /\ r.score["mandatory"].ce = 1 /\ r.score["mandatory"].override = "none"
          /\ r.score["custom"].override # "minimum"
          /\ r.score["custom"].ce \in {0, 5}
          /\ r.framework.weights = Even \/ r.run.status \in {"completed", "approved"}
       \/ \A f \in Factors : Ungraded(r.score[f])
    /\ r.mitigation.status = "none" \/ \A f \in Factors : Ungraded(r.score[f])

(* The second checkout changes plan and interval, and with it no subscription *)
(* of Stripe's is to end with its period.  Custom terms, invoices and the     *)
(* add-on are worked on while Stripe does little else.                        *)
Quiet(r, n) == /\ \A m \in n + 1 .. MaxCheckouts : r.stripe.status[m] = "none"
               /\ \A m \in 1 .. n : r.stripe.status[m] \in {"none", "active"} /\ ~r.stripe.ends[m]
AccountScene(r) ==
    /\ r.stripe.order[1] \in {NewAccount.stripe.order[1], <<"starter", "monthly">>}
    /\ r.stripe.order[2] \in {NewAccount.stripe.order[2], <<"enterprise", "annual">>}
    /\ r.stripe.status[2] # "none" =>
         \A n \in 1 .. MaxCheckouts : ~r.stripe.ends[n]
    /\ r.subscription.custom # {} => Quiet(r, 2) /\ r.stripe.invoice = "none"
    /\ r.stripe.invoice # "none" => Quiet(r, 1) /\ r.subscription.status \in {"none", "active"}
    /\ r.addon.status # "none" => Quiet(r, 0)

(* With a second payment, or one that is completed, there are no answers and   *)
(* no decisions, and only an ordinary payer makes one; a decision is about one *)
(* recommendation, and there are no answers with it.                           *)
PayerScene(r) ==
    LET decided == {k \in AdviceTypes : r.advice[k] \in {"actioned", "dismissed"}}
        answered == \E s \in Questions : r.answers[s] # "none"
    IN  /\ r.payments[2].facts # <<>> =>
             /\ decided = {} /\ ~answered /\ r.customer.facts = <<Ordinary>>
             /\ Fact(r, 1).amount < 10000 \/ Fact(r, 2).amount < 10000
        /\ decided = {} \/ \E k \in AdviceTypes : decided = {k} /\ ~answered
        /\ \A t \in 1 .. 2 : r.payments[t].completed =>
             t = 1 /\ r.payments[2].facts = <<>> /\ decided = {} /\ ~answered
        /\ answered => r.payments[1].dated = "hour"

(* Rules are edited before they give anything, and one rule is enough next to *)
(* an update; flags and courses of its own have no part in any of this.       *)
TeamScene(r, s) ==
    /\ s.rules # r.rules => GivenTo(r) = 0 /\ r.update.status = "none" /\ r.course.active
    /\ s.update.status # "none" => s.rules[2].status = "none"
    /\ \A k \in RulePlaces : s.rules[k].status # "inactive"
    /\ s.rules[2].status # "none" => s.course.active
    /\ s.rules # NewTeam.rules => \A u \in Trained : s.given[u].live <=> s.given[u].count > 0
    /\ s.flag.status # "none" \/ s.course.custom =>
         s.rules = NewTeam.rules /\ s.update = NewTeam.update /\ s.given = NewTeam.given

(* Contacts and selfies are looked at before anything is screened; types are  *)
(* screened one after the other, and the one before the last is settled; an   *)
(* owner only matters to a company.                                           *)
Screens == <<"pep", "sanctions", "ubo_pep", "ubo_sanctions">>
EvidenceScene(r) ==
    LET asked == {i \in 1 .. 4 : r.latest[Screens[i]] # "none"}
    IN  /\ asked # {} => /\ \A what \in {"phone", "email", "selfie"} : r.files[what] = "none"
                        /\ r.files.identity \in {"pass", "uploaded"}
        /\ \A i \in asked : /\ (i > 1 => i - 1 \in asked)
                             /\ (i + 1 \in asked => r.latest[Screens[i]] = "clear")
        /\ (r.files.owner # "none" \/ asked \intersect {3, 4} # {}) => r.customer.company

(* The customer is under hold while the policy is that of the law. *)
RetentionScene(r) ==
    \/ \A o \in Officers : r.policy[o] = NoYears
    \/ \A i \in 1 .. 2 : r.holds[i].state = "none"

(* The second factor is worked on with no link but the first; of the other    *)
(* links, those of one purpose.                                               *)
SignInScene(r) ==
    LET sent == {x \in Purposes : r.links[x] # NewUser.links[x]}
    IN  /\ Cardinality(sent \ {"verify"}) <= 1
        /\ r.mfa # NewUser.mfa => sent \subseteq {"verify"} /\ r.links["verify"][2] = "none"

SerialScenes ==
    /\ overdue' # {} => touched' \subseteq Trainees
    /\ TrainingScene(rows'[training])
    /\ ReviewScene(rows'[review])
    /\ AssessmentScene(rows'[matter])
    /\ ControlScene(rows'[control])
    /\ RiskScene(rows'[risk])
    /\ AccountScene(rows'[account])
    /\ SignInScene(rows'[login])
    /\ TeamScene(rows[team], rows'[team])

(* The older credentials are worked with before the hub is; what is expiring  *)
(* is noticed while nothing fails.                                            *)
HubScene(r) ==
    /\ r.older # NewHub.older => r.oauth = NewHub.oauth /\ r.notices = NewHub.notices
                                 /\ r.expires = NewHub.expires
    /\ r.notices # NewHub.notices => r.integration.failures = 0

(* Decisions are taken on the assessment of a PEP, and when an outdated copy   *)
(* was committed those in flight end; articles and wallets are worked on one  *)
(* without the other.                                                         *)
ExaminedScene(r) ==
    /\ r.status # "none" /\ r.facts # {"pep"} => \A i \in Requests : req'[i] = Idle
    /\ examined \in raced => Pending' \subseteq Pending
ScreenedScene(r) == r.media.status = "none" \/ r.wallet.status = "none"

OverlapScenes ==
    /\ overdue' = {}
    /\ PolicyScene
    /\ EvidenceScene(rows'[evidence])
    /\ RetentionScene(rows'[retained])
    /\ HubScene(rows'[hub])
    /\ PayerScene(rows'[payer])
    /\ ExaminedScene(rows'[examined].record)
    /\ ScreenedScene(rows'[wallet])

Symmetry == Permutations(Requests)

=============================================================================
