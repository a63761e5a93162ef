# Verigo, modelled in TLA+

Verigo is a compliance platform for Australian AML/CTF obligations: a FastAPI
application (`app/`) over PostgreSQL through SQLAlchemy, with Redis for locks,
rate limits and tokens, an APScheduler in every worker process, and a React front
end (`web/`). This directory holds TLA+ modules of its logic, TLC configurations
that check them on small instances, and proofs that TLAPS checks for every
instance.

The code has one shape almost everywhere, and the models follow it. A request
handler runs in a thread of one of several worker processes with a database
session of its own. It *loads* a row, *checks* it in memory, *changes* the object
and *commits*; the session's UPDATE names the columns that changed. Nothing locks
the row between the load and the commit (no `SELECT ... FOR UPDATE`, no version
column), many handlers commit more than once, and unique indexes are the only
thing that stops two handlers from inserting the same thing. What is hard here is
what follows from that: overlapping handlers, stale rows, handlers that stop
between two commits, exceptions that are swallowed with a session left unusable,
workers that run the same job; and, in the record-keeping parts, long sequences of
requests each of which is in order and that together lead to records that
contradict each other.

Contents: 1 inventory, 2 modules, 3 runs, 4 theorems, 5 what is model-checked
only, 6 what the models found, 7 not modelled, and what could come next.

## 1. Inventory

Every component, with its files and what of it is left out, is listed in
`PROJECT.json` under "components"; the hazards are listed there line by line.

| component | module | operations | hard behaviour | correct when |
|---|---|---|---|---|
| Regulatory reports (IFTI, TTR, SMR) | `ReportWorkflow` | generate, patch, review, approve or sign off, submit, acknowledge, reject, redraft | a submission is three commits; PATCH sets any column; overlapping reviews, edits, submissions | no submission registered twice, reviewer is not approver, what is lodged was approved, no SMR without sign-off |
| Scheduler and job lock | `JobLock` | acquire, skip, fail open, retry, release, expire, crash, restart | the key has no owner and a TTL; timers drift; Redis can fail | one worker at a time, a release deletes its own key, no tick is skipped by everyone |
| Deadline checks and notifications | `DeadlineChecks` | query, look a key up, insert, commit, roll back | runs overlap; unique keys wait, deadlock; whole-session rollback; swallowed exceptions | nobody is told twice or passed over, what is counted as sent is stored |
| Transaction alerts; cases and SMR decisions | `AlertCases` | raise, assign, review, escalate, flag, record a result; open, update, transition, close, link, consider, lodge, draft | overlapping evaluations, reviews, MLRO decisions and closes; endpoints that ignore the status | one open alert per transaction, consideration before lodgement, decisions are not undone, what is closed stays closed |
| Automation rules, decision panels | `RuleBuilder` | create, update, delete, evaluate; review a panel | a rule and its snapshot are two commits; an evaluation rereads the next rule after each commit; failed commits are swallowed | executions lead to a snapshot, executed rules stay, a final decision is on record and stands |
| Customers, onboarding, KYC, review workflow, screening | `CustomerReview` | status, checklist, screenings and reviews, KYC, identity score, workflow transitions, gateway, EDD, final decision | five ways to become active, each of which looks at something else; transitions test their target only | nobody is reviewed before the risk assessment, an open customer was cleared |
| Customer portal | `CustomerPortal` | session, links, uploads, answers, submission, staff review | the link is validated in one transaction and used in the next | a submission is complete and final |
| Customer risk assessment | `CustomerScores`, `RiskProfiles` | five dimensions, gateway, rescoring, review, override, checklist | lists overlap, weights are fractions | more risk never lowers the result |
| Training records | `TrainingRecords` | assign, renew, complete, exempt, retake, sweep | three places store a status; dates pass between requests | a valid pass stands |
| Courses, triggers, regulatory updates | `TrainingTriggers` | fire rules, publish, broadcast, bulk assignment | cooldown, overriding rules, four ways to assign one course | one assignment per event and person, registers agree |
| Independent review | `Governance` | review, findings, recommendation, action | counters beside the rows they count | counts agree, four eyes |
| Professional assessment | `Assessments` | sections, checklist, complete, escalate | sections stay writable | a completed assessment stands |
| Board reporting | `Governance` | generate, edit, submit, approve, return, distribute | edits after approval, new editions | what is distributed was approved |
| Policies | `Governance` | edit, approve, publish, attest | publications and attestations overlap | an attestation names a recorded version |
| Controls and tests | `ControlTests` | test, finding, remediation, finalise | findings added to finalised tests | serious findings have remediations |
| Risk engine and risk runs | `RiskRuns` | grades, overrides, weights, mitigations, approval | some handlers recompute, others read | a rating follows from its scores |
| Risk matrix | `RiskMatrices` | factors, profiles, versions | a change and its version are written by different code | the latest version is the matrix |
| AML programs | `AmlPrograms` | review, activate, supersede; generate, retrieve versions | reactivation, version numbers by count | one program in force, as signed |
| IFTI records, receipts | `Transfers` | edit, mark ready, submit; issue, supersede, void | voiding and linking are two commits | a submitted record stays, one receipt in force |
| Billing | `Subscriptions` | checkout, change, cancel, invoices, webhooks | events repeated, late, out of order, of an older checkout | what is cancelled or paid is so at Stripe, the row mirrors it where events come in order, the price is the plan's |
| Transaction monitoring | `Payments` | evaluate, score, answer, recommend, approve | re-evaluation after anything | nothing counts twice, decisions stand |
| Tasks; calendar | `Obligations` | assign, transition, ask; remind, escalate, recur | status and event log written apart; reminders repeated | the log explains the status, one reminder per stage |
| Documents; retention | `Documents` | upload, archive, hold, delete; policies, holds, purge report | row and object are two systems; two calculations of one answer | held documents stay, report and check agree |
| Customer files, import | `CustomerEvidence` | upload, verify, screen, import | flags beside the files they stand for | the checklist says what is on file |
| Integrations, API keys and webhooks, marketplace | `Connections` | connect, test, expire, migrate, deliver, order | everything is repeated | counters agree with logs, repeating is harmless |
| Sign-in; organisations | `SignIn` | links, sessions, logout, second factor, members and roles | single-use links, in-process and Redis blacklists | ended sessions stay ended, used links stay used |
| Examination packs | `ExaminationPacks` | build section by section, deliver, archive | registers change while they are read | each section was true at some time, a failed one says so |
| Settings, groups, solutions | `Settings` | questions, monitoring rules, members, solution program | minimum and maximum tested apart | questions remain, logged rules stay |
| Due diligence, media, wallets | `DueDiligence` | assess, recommend, decide, log; articles; wallets | decision and audit entry are two commits | status and notes belong together |

How they interact. `transactions.py` runs the monitoring engine and then the rules
for a payment; a rule's action may raise an alert or open a case; an alert becomes a
case, a case an SMR draft, and the draft is a report with a life cycle of its own.
A customer's screening, review workflow and portal meet in the customer's row and
its checklist. The scheduler starts the deadline checks, which read reports, cases,
training and controls and write notifications. Examination packs and board reports
read what the others have registered. All of them share one database, and each
handler's session commits by itself.

## 2. Modules

Two groups. The components whose handlers race each other closely have modules with
every commit as an action, from the ground up. The record-keeping components share
one description of a request, `RowRequests`.

| module | models | state corresponds to |
|---|---|---|
| `ReportWorkflow` | the report handlers | `row` the report tables, `register` the filing register, `audit` the `*_submitted` audit entries, `req` what an in-flight handler holds |
| `FilingLedger` | abstract: what register and audit trail promise | `ledger`, `log` |
| `JobLock` | one cron job under its lock | `tick` and `fired` cron time and each worker's timer, `pc` and `attempt` the job, `key` the Redis key |
| `DeadlineChecks` | runs of `run_all_deadline_checks` | `table` committed notifications, `flushed` each session's uncommitted inserts, `run` each run's place, `active` the users queried for |
| `AlertCases` | alert and case handlers, the alert step of `run_monitoring` | `alert`, `case`, `link`, `drafts` the tables, `req` what a handler is about to write |
| `SmrDecisions` | abstract: the SMR decisions of the cases | `considered`, `lodged`, `drafted` |
| `RuleBuilder` | rules, their evaluation, panels | `rule`, `version`, `log`, `panel`, `review` the tables, `req` the editors' and reviewers' requests, `eval` the evaluations |
| `RowRequests` | reading, computing, committing and losing a request | `rows` the tables by entity, `req` the requests in flight, `overdue` the dates that have passed |
| `CustomerReview`, `CustomerPortal` | a customer's way to an open relationship | `rows[customer]`: customer, checklist, screening, workflow, session |
| the modules named in section 1 | one component each, as handlers from rows to rows | `rows[entity]`, a record of the component's tables |
| `CustomerScores` | the scores of customers, as operators on whole numbers | none |
| `Records` | the record-keeping components over one set of requests | `EntityKinds`, `Tables`, `FirstRows`: for each kind of entity its entities, the type of their rows and the first one; `RowsOf(e)` and `NewOf(e)` for an entity |
| `MC...` | the instances TLC checks | |
| `..._proofs` | theorems and their proofs | |

**Handlers.** A handler of `ReportWorkflow`, `AlertCases` and the panels of
`RuleBuilder` is a first action with the guard of the code (role dependency, 404,
status test, maker-checker, validation) and a last action that commits. Between
the two the request holds the row it loaded and the row it wants (`before` and
`after`, or the `writes` that differ), and the commit writes only the columns that
differ, as the session's UPDATE does. A handler that commits more than once has an
action for each commit: a submission is `Commit`, `RegisterSubmission`,
`LogAction`; a rule update is `UpdateRule`, `TakeSnapshot` (the row is read back
and the versions counted after the first commit), `CommitSnapshot`. `Abort` is
the worker or its connection lost at any point: nothing resumes a handler. A
request that fails its checks changes nothing and is no step.

**Row requests.** In the other modules a handler is a formula
`Handle(q, e, new)`: request `q` has read the rows of entity `e` and computed `new`
from them, everything the handler does, recounts and refreshes included. Where `e`
is in `Overlapping`, the handler ends in `Save`, and `Commit` is a later action that
writes the columns in which `new` differs from what was read (`Written`) into the
rows as they are then; a handler with a second transaction names it in `Save`.
Elsewhere it is one step. `Lose` is a request lost before a commit, `Pass` a date
that goes by. `raced` remembers the entities where an outdated copy was committed:
properties that hold only without that say so by naming it.

`MaxTouched` bounds the number of entities that requests are about in one behaviour.
An entity stands for all the rows that one component's handlers read together, and the
components composed in `Records` share none of them, so behaviours about one entity at a
time are all there is to see, and the runs set it to 1: the state space is the sum of
the components' and not their product. What a component needs from another (a
customer's risk level, whether a course exists) is among its inputs, and is whatever
the other component can make it.

**Approvers.** `approver` of a report's row is the column `approved_by` of an IFTI or
TTR report, and `mlro_sign_off` of an SMR. `SMRReport` has no `approved_by`: what
`mlro_sign_off_smr` assigns to it (`reports.py:866`) is an attribute of the object that is
gone with the session. `approve` and `redraft` of the three kinds are one operator each
for that reason; only IFTI reports have a reject endpoint, and an SMR or a TTR is rejected by a
PATCH of its status.

**PATCH.** `Patch` loops over the payload and sets every column that is not
protected, workflow columns included: `PatchedColumns` says which workflow columns
the payloads of an instance mention, and each may get any value of its type. The
runs use `status`; the theorems hold for any set.

**Sessions.** A run of the deadline checks, and an evaluation of rules, is one
session. `DeadlineChecks` has the three consequences that matter: an insert of a
key that another session has flushed waits for it, and fails if it commits; the
failure is answered with a rollback of the *whole* session; and any other failed
statement is swallowed by the check, without a rollback, so the session is `broken`
for what follows. `RuleBuilder` has the same for an action's failed commit, and
expiry: after a commit the rules that the query loaded are read again, as they are
then.

**Calculations.** `RiskRuns` counts in fifths of a point, `CustomerScores` and
`Payments` in twentieths (all factors and weights of the code are such fractions), so
that comparisons are exact. They are used by the handlers that store their results
and checked through them (`ResidualBounded`, `RiskierNeverLower`,
`BlacklistedAlerted`).

**External.** Steps that PostgreSQL, Redis, APScheduler, SQLAlchemy, Stripe or a
provider decide (unique index, deadlock abort, key expiry, misfire, expiry on commit,
delivery of an event) are modelled from how the code uses them and marked external in
the map.

**History variables** record what the tables do not and no guard reads them, except that
bounds count them: in `ReportWorkflow` `approval` (the body an approval was given for, and
after how many redrafts), `cycle` (redrafts) and `astray` (a submission cut before its
register row, a PATCHed workflow column); in `JobLock` `lapsed` (a SET that failed, a key
that expired under its job) and `runs`; in `DeadlineChecks` `sent` and `faults`; in
`RuleBuilder` `lapsed` (rules and panels whose requests overlapped or were cut off); in
`RowRequests` `raced` and `touched`. Some rows of the record-keeping modules have a history
column for what was approved, published or counted, said in a comment there.

**Abstraction.** A report's data columns are one `body`, valid or not; wordings are
`before` and `after`; transactions, users, reasons and conditions are model values or
choices. Actions of a rule are told apart by what they do to the session. A register
of an examination pack is one of its records. Organisations do not meet in these
handlers (queries filter by one), so the models have one.

## 3. Runs and what they show

| run | instance | shows |
|---|---|---|
| `reports_overlap` | two requests, two MLROs, an IFTI or an SMR, one redraft, PATCHed status of the SMR | `RegisterOnce`, `AuditedIsRegistered`, `RegisteredSmrWasSignedOff`, `SubmittedHasRegisterRow` under any overlap and cut, and `LedgerRefined`: register and audit trail implement `FilingLedger` |
| `reports_serial` | one request, three users, one report of any kind, two bodies, two redrafts, fair handlers | `TypeOK`, `MakerChecker` and `SubmittedAsApproved`, which hold only without overlaps, and `SubmissionGetsRegistered`: the first submission of a report ends with its row |
| `reports_overlapping_review` | two requests on a TTR | violation: `MakerChecker` fails when an approval and a review overlap |
| `lock` | two workers, three ticks, two tries, fair timers and expiry | `TypeOK`; `MutualExclusion`, `ReleasesOwnKey` while no SET raised and no key expired under its job; `TickServed`: a tick that comes when all is quiet is not skipped by every worker |
| `deadlines` | two runs, three checks of which one raises, three users of whom one becomes active, one fault | `TypeOK`, `NotifiedOnce`, `ReportedIsStored`, `DueNotified`, and `RunsReturn`: conflicts and deadlocks end every wait |
| `cases_serial` | one request, all handlers, at most two rows, payloads that name an alert up to twice | `NotLinkedAgain`, `NoSecondAlert`, `ClosedAlertsStayClosed`, `ClosedCasesStayClosed` |
| `cases_overlap` | two requests on an alert and a case | `TypeOK` and `SmrDecisionsKept`: considered, lodged and drafted implement `SmrDecisions` under any overlap |
| `alerts_rerun` | two evaluations of one transaction | violation: `NoSecondAlert` fails, both raise an alert |
| `rules` | two rules, two editors, one evaluation; or a panel and two reviewers | `TypeOK`, `ExecutionsTraceable`, `ExecutedRulesStay`, `FinalDecisionStands` |
| `customers` | one customer, two screening records, two requests, two links | `TypeOK`, `ReviewedAfterAssessment`, `SubmittedComplete`, `ClearedWhenOpened`, `SubmittedStays` |
| `records` | twenty-one entities, one request at a time | `TypeOK`, `AsSigned`, `BooksAgree`, `RatingsSound`, `OutcomesStand` |
| `records_overlap` | thirteen entities, two requests, of which those on policies, generated programs, receipts, due diligence and wallets overlap | `HistoryKept`, `RepeatedAsBefore` |

The properties of the last two are conjunctions, each of one kind of promise; the
parts are defined, and said in words, in the modules of their components:

| property | parts |
|---|---|
| `AsSigned`: what was signed stays what was signed | `DistributedAsSigned` board reports; `OneProgramAsSigned` programs and the enterprise assessment; `InForceAsApproved` a solution's program; `SubmittedImmutable` IFTI-E records; `FourEyes` actions of a review |
| `BooksAgree`: two places that tell one story agree | `FindingsCounted` reviews; `FindingsRemediated` control tests; `LatestSnapshot` risk matrix; `AssignmentsCounted` training registers; `TaskTraced` event log; `MirrorsStripe`, `PriceOfPlan` billing; `SignedInSound` links, factors, sessions, owners; `PackOfItsTime` examination packs; `QuestionsRemain`, `LoggedRulesKept`, `MembersOnce` settings |
| `RatingsSound`: a rating is no better than what it is calculated from | `RatedAsScored` and `ResidualBounded` risk runs; `ChecklistNeverLow` customers |
| `OutcomesStand`: what is done is neither undone nor done twice | `PassStands` training; `CompletedStands` assessments; `AssignedOnce` triggers; `RemindedOnce` calendar; `RiskierNeverLower` customer risk |
| `HistoryKept`: what is on record is complete | `TypeOK`; `AttestedOnRecord` policies; `VersionsKept` programs; `ReceiptInForce` receipts; `DocumentsKept`; `EvidenceOnFile`, `ImportedOnce` customers' files; `ConnectionsCounted`; `BaselineCountsOnce`, `LatestAlertScored`, `BlacklistedAlerted` payments; `DecidedAsNoted`, `ScreenedAsAnswered` due diligence |
| `RepeatedAsBefore`: what is asked again is answered as before | `PurgeAsEligible` retention; `AdviceStands` recommendations; `RepeatsHarmless` connections |

The parts of `AsSigned`, `BooksAgree` and `RatingsSound` speak of the entities that are not
`raced`, and so do the parts of `HistoryKept` except `AttestedOnRecord`, `VersionsKept` (but
for the limit of retrievals as such), `ReceiptInForce` and what `DecidedAsNoted` says of the
recommendation and `ScreenedAsAnswered` of articles: those hold for entities that are raced
too, and these are the ones whose requests overlap in `records_overlap`. On the others the
two runs have one request at a time, so there the properties speak of all; the theorems of
section 4 hold with any overlap, and there the exception is the honest one: a copy that is
outdated when it is committed can undo what each of these promises.

Each property of a passing run has a mutant in `PROJECT.json`: a plausible bug in the
code, defined beside the definition it replaces, under which TLC finds the property
violated.

`CHECK_DEADLOCK FALSE` is set everywhere because the bounded systems stop: every
report acknowledged, every tick handled, every run returned, every record at its end.
That nothing gets stuck *before* that is what `SubmissionGetsRegistered`, `TickServed`
and `RunsReturn` say.

**Bounds.** Two requests are enough for every overlap the properties are about: each
compares one handler's stale row, or one pending insert, with what one other handler
committed meanwhile; the theorems confirm this for the properties that are proved, for any
number of requests. `LoneReport` keeps to one report because no handler touches another's
row, and `PatchedWithoutReject` has PATCH bodies set the status of the SMR only: that is how
an SMR is rejected, and an IFTI has an endpoint for it. One redraft is needed to meet the
register row of an earlier submission, two to do so twice. `MaxRepeat` is how often a
payload may name an alert: `create_case` makes a link for each mention, and two are the
least that is more than one. `FewRows` allows two alerts (the second one monitoring must not
raise), an alert and its case, or two cases. In `JobLock` two tries show that a retry keeps
the lock, and the third tick is the first one that can meet a key left over while another
worker restarts. The three checks of `deadlines` are a failing one between two that work, so
a broken session, or a rollback, has something before and after it to spoil; the third user
is the one who becomes active. In `rules` the second rule is updated and deleted by two
editors; a first rule, one that acts before it and makes its row be reread, stays as it is
and comes with one editor; panels and rules, which do not meet, exist in different
behaviours.

In `customers` and `records` the counts are the least at which the case happens: two
screening records (one to be a match, one to be cleared), two links, two tests of a
control, two checkouts, two payments, two editions of a report, two cycles of a
training record, two rules of triggers, three versions of a program, three receipts.
Amounts, countries, people and answers are picked on both sides of the thresholds in
the code (500, 9,500, 10,000; black, grey and sanctioned lists; the least and the
most that can be entered). The action constraints `Scenes`, `SerialScenes` and
`OverlapScenes` leave out products of things that do not depend on each other: each
is a conjunction of *scenes*, one for a component, with a comment that says what is
worked on without what. They bound, they are not assumptions: what happens inside a
scene is every order of its requests. `MaxVersions`, `MaxReviews`, `MaxRedrafts`,
`MaxTicks`, `MaxFaults`, `MaxRepeat`, `MaxTouched`, `MaxAttempts`, `MaxPublished`,
`MaxVersion`, `MaxRetrievals`, `MaxReceipts`, `MaxCheckouts`, `MaxQueue`, `MaxGiven`,
`MaxErrors`, `MaxStarts`, `MaxSessions`, `MaxRuns` and `MaxLinks` bound what could
grow for ever, in the guards.

**Fairness.** Safety is checked without. Weak fairness of a request's `Progress`
says that a handler that has started gets to its end unless it is aborted: a
thread of the server keeps running. New requests are never fair: nobody has to
submit a report. In `JobLock` the timers of running workers fire and jobs end
(tries are counted, each try returns or raises), and keys expire, since `SET` has an
`EX`; crashes and restarts are not fair. In `DeadlineChecks` each run keeps taking
steps, and a wait for a unique key ends because PostgreSQL aborts a circle of them.
The record-keeping modules state no fairness: a request there is one or two steps,
and nothing but a user's next request makes anything go on.

## 4. Theorems

Proved with TLAPS for every value of the constants, from the constants' named
assumptions in the modules (roles: MLROs are compliance users; the kinds of report
are disjoint, and so are rules and panels; `None`, `Free` are no user, worker, body
or decision; the list of checks is a sequence with its due items; the entities of the
requests of `CustomerPortal` are its customers; the kinds of `Records` are disjoint sets
of entities and their first rows are rows; the sets that are counted, that of the requests
among them, are finite; points and bounds are natural numbers, and a program may be
retrieved at least once; an import's `NoAddress` is no address). Where a
theorem needs more it says so in its `ASSUME`, and the table repeats it.

| theorem | states |
|---|---|
| `TypeCorrect`, `LockTypeCorrect`, `CasesTypeCorrect`, `ChecksTypeCorrect`, `RulesTypeCorrect`, `PortalTypes` | type correctness of the six modules |
| `RegisteredOnce`, `AuditTrailSound` | `RegisterOnce`, `AuditedIsRegistered` |
| `LedgerImplemented` | the report handlers implement `FilingLedger` |
| `SmrSignedOff` | `RegisteredSmrWasSignedOff` |
| `SubmittedRegistered` | `SubmittedHasRegisterRow` |
| `FourEyes`, `ApprovedBodySubmitted` | `MakerChecker`, `SubmittedAsApproved`, with one request at a time |
| `LockExcludes`, `ReleaseIsOwn` | `MutualExclusion`, `ReleasesOwnKey` |
| `SmrDecisionsImplemented` | alerts and cases implement `SmrDecisions` |
| `OneOpenAlert`, `AlertsStayClosed`, `CasesStayClosed` | `NoSecondAlert`, `ClosedAlertsStayClosed`, `ClosedCasesStayClosed`, with one request at a time |
| `LinksStand` | `NotLinkedAgain`, with one request at a time |
| `NobodyTwice`, `ReportsAreStored` | `NotifiedOnce`, `ReportedIsStored` |
| `EverybodyTold` | `DueNotified`, with at least one run |
| `ExecutedRulesKept`, `ExecutionsTraced` | `ExecutedRulesStay`, `ExecutionsTraceable` |
| `DecisionsStand` | `FinalDecisionStands` |
| `AssessedFirst`, `OpenedOnClearedChecks` | `ReviewedAfterAssessment`, also where outdated copies were committed, and `ClearedWhenOpened`, where none was |
| `CompleteWhenSubmitted`, `SubmissionIsFinal` | `SubmittedComplete`, `SubmittedStays` |
| `RecordsTyped` | type correctness of the record-keeping components, for any number of requests and entities and with any overlap |
| `SignedStands` | `AsSigned`, unless an outdated copy of the entity was committed |
| `RegistersAgree` | `BooksAgree`, under the same condition |
| `RatingsStand` | `RatingsSound`, under the same condition |
| `HistoryStands` | `HistoryKept`, whose parts name that condition where they need it |

*Filing.* `RegisterOnce` and `AuditedIsRegistered` are not inductive together with
`TypeOK`: an audit entry is written by a handler whose register row must already be
there. `FilingInv` adds that a handler at `audit` has its own row in the register and
that all filings, and all handlers that submit, are MLROs'. The refinement follows: a
`RegisterSubmission` that inserts is `File`, `LogAction` is `Log`, everything else
stutters.

*Sign-off.* The columns a handler writes come from a row it loaded some time ago, so
the sign-off has to be followed through what the handlers hold. `SignedInv` says so: a
sign-off in a row, in a loaded row or in a row about to be written belongs to an
approval; a submission loaded a row with a sign-off. A redraft that clears the sign-off
meanwhile does not undo that there was one, which is what the property says.

*Submitted reports.* `SubmittedInv`: a status outside draft, review, approved and
rejected, in the table or in a loaded row, means that the report is filed, in
registration, or has gone astray, and each of these is for ever.

*One request at a time.* Maker-checker, the submission of what was approved, and what is
said of alerts and cases are false when handlers overlap: the two runs that expect a
violation show it, and section 6 names other cases. The theorems assume that there is one
request (`\A p, q \in Requests : p = q`) and prove that this is the only thing wrong. They
need an invariant that links what the request loaded with the table (`SerialInv`): nothing
but the request itself has written since, so the tests it passed still hold when it commits.
In `ReportWorkflow` it also says that reviewer and approver differ and that an approval is
for the present body in every row whose status lies behind them (`Proper`, `InOrder`), where
a PATCH of a workflow column has not led it `astray`; in `AlertCases` that an evaluation in
flight found no open alert and a closed row is not being written (`Timely`).

*The lock.* Before anything lapses `HoldsKey` (a running job's key is its own) is
inductive: SET NX puts a key only where none is, an expiry under a job lapses, and a
DEL comes from the holder. `MutualExclusion` is its corollary.

*SMR decisions.* `SmrInv` says what every in-flight handler may write: a consideration
only as true, a lodgement only as true and with a consideration in the same write or
already in the table, a draft only for a considered case. Considerations are never
taken back, so what was in order when loaded is in order when committed.

*Notifications.* `Separate` is what the unique index gives: a key that a session has
flushed is in no other session and not in the table. `NotifiedOnce` follows. For
`ReportedIsStored` that is not enough: when an insert conflicts, the rollback takes the
rows of the item's other users with it, and the run goes on and counts them as sent.
They are stored all the same, by the run it conflicted with, if no user becomes active
during the day: `WholeItems` says that a committed item is committed for all users,
because an item is one transaction; `ItemsReached` that a run has flushed, or found, the
key of every user it has passed; `SentStored` is the property. With a newcomer the
item can be whole for one run and not for the other, and the property is false: hence
its condition. `DueNotified` is the other direction, when all runs have ended: `DueInv`
follows a run on a day without faults past each item, whose users it has told or
another run's committed rows have. A run of which there are several may be the victim of a
deadlock and tell nobody, but a deadlock spares one of its parties, and that one goes on.

*Rules.* `ExecutedRulesStay` needs `LookedAt`: a rule an evaluation is going to look at
was there when it began, so that its row is there or deleted, and an execution is
logged only for one that is there; a deletion then meets the foreign key. For
`ExecutionsTraceable` the definitions have to be followed from the editor's request to
the evaluation: `TraceInv` says of each rule that has not lapsed that one request at
most is writing it, that this request will store the row as it is now under the next
number, and that every row an evaluation has loaded, is acting on or has logged is in a
snapshot or is that row; and of each rule that was not created that nothing is about
it. `TraceFrame` leaves the rules a step does not touch; the others are one step of the
proof for each handler. `FinalDecisionStands` needs `Reviewed`, what the copy of a panel
says that a review goes by, and `OverlapsNoted`: two reviews of a panel that are in
flight together are noted in `lapsed`.

*Customers.* Each of the customer's, the staff's and the portal's handlers computes a row
from the row it read, and `Legal` says what all of them respect in that computation: a
workflow behind the decision gateway was assessed, and stays so; a checklist flag has a
clear record behind it; a customer becomes active by the status endpoint or the KYC
review only with all flags and no match; a submitted session stays submitted and was
ready to be; documents and answers do not get lost. That is one lemma for each kind of
change and one case for each handler, and says nothing of time. `PortalInv` then needs
commits only. One whose copy is the present row makes a legal step; of any other,
`Written` takes column by column the stored value or the request's, which is not legal in
general, and the customer is a `raced` one. What survives that is monotone:
`SubmittedComplete` holds for raced customers too, because what a request found uploaded
and answered when it read (`Held`) is still so when it commits, and so does
`ReviewedAfterAssessment`, because the assessment of the copy a request read is never
taken back.

*Records.* Thirty-five kinds of entities and more than two hundred handlers share one argument,
split in two. `RecordKinds_proofs` begins with what is true of requests whatever they are
about. It takes a set of rows and a set of *good* rows as parameters: a writer `KeepsTo` them
if it computes a row from a row and a good row from a good one (`WritesGood`), and the
rows are `ByColumn` if the mixture of three rows that a commit may leave (`Written`) is
again a row. Then `Typed` (the table, and what every request in flight has read and is
going to write, are rows) and `Sound` (they are good where no outdated copy was committed,
and what a request is going to write is good if what it read was) are kept by
the writers of the kind (`GoodKeep`), by writers of the other kinds (`OthersKeep`), by
commits (`CommitKeeps`) and by losses (`LoseKeeps`). Then come, for each kind, its good
rows, the lemma that each of its handlers keeps to them (`...Keeps`, one step for each
handler) and the lemma that its rows are by column: sixteen kinds in `RecordKinds_proofs`,
the others in `Records_proofs`, which ends with `IInv`, that says `KindSound` of every kind,
the three facts about it, and the theorems. `TypeOK` follows from `Typed`, the others from
`Sound`.

The good rows are the inductive strengthening, and where they say more than the property
that is where the component is hard. `GoodAccounts` follows Stripe's queue, of which any
event may be delivered next. Whatever the order, an event tells of a cancellation or a
payment that is so at Stripe (`EventTrue`), and an invoice that has no date of payment has
the event of its opening still to come. Where no event overtook another about the same, the
last event about a checkout says what Stripe says, and the subscription is in step with the
checkout it is linked to once nothing about that is queued (`InStep`). `GoodGenerated`
counts the retrievals. `GoodPacks` says of the worker's half-built sections what
`PackOfItsTime` says of a finished pack: each is a number the register had since the work
began. `GoodRisk` keeps the run equal to the result of its scores under the weights it was
calculated with, because some handlers recalculate and others only change a score.
`GoodTeams` counts assignments: the set `RecordsOf` of a person's numbered records is
compared before and after each of the four ways to assign, so that the proof is one of
cardinalities and not of sums. `GoodUsers` has one open link of a purpose, a followed link
behind a verified address, and ended sessions that stay on the list as long as they would
have lived. `GoodCalendars` and `GoodDocuments` are stronger than any property of a run: an
item is overdue only when its date has passed and it was reminded of, and an object is
stored exactly for the documents that are there. `GoodPayers` has the score of the latest
alert, each payment in the baseline once, and an alert for each large evaluated payment to a
blacklisted country, because the points for its value and its countries alone reach the
alert's limit (`ListedElevated`). `GoodImported` and `GoodEvidence` count what an import or
a checklist stands for.

*Overlapping requests.* What `HistoryKept` says of raced entities does not follow from good
rows, as a commit leaves some columns of the row as it is and some of the request's. The
second invariant, `Lasting`, is about three rows and about five. `Held` says of a kind that
its rows are lasting ones, that what a request read and is going to write *fits* the row as
it is now, and that what two requests in flight read and are going to write are *apart*. A
request `Joins` if its writes fit the row it read and are apart from those in flight; fits
and apart are `Closed` if a commit (`Committed`, the mixture column by column) leaves a
lasting row that every other request still fits. What fits is the component's argument
why overlaps do no harm: versions of a policy are only added, a row of the history is
written once; flags of an article are only set; the recommendation is written when the
record is made, which a unique key lets one request do. Receipts need `LinkDue` beside
that: a correction that has issued the new receipt and not yet linked it names a receipt
that is voided. Retrievals are counted before they are in the row: `WithinLimit` bounds
the persons who have retrieved together with those whose retrieval is in flight, which is
why one for each request beside the last may exceed the limit. `Lasting` rests on `IInv`.
TLC finds both true of every state of `records_overlap`.

## 5. Model-checked only

Liveness (`SubmissionGetsRegistered`, `TickServed`, `RunsReturn`), which needs
fairness and is out of the prover's reach. Of the record-keeping components
`OutcomesStand` and `RepeatedAsBefore`, which compare a row with the next one and with
the dates that have passed; and the calculations of `CustomerScores` as such, of which the
proofs use only the ranges.

## 6. What the models found

The two runs that expect a violation show disagreements between the code and what it says
of itself:

- Reviewer and approver of a report can be one person when review and approval overlap
  (`reports.py:113` against its header).
- Two overlapping evaluations of one transaction raise two open alerts
  (`monitoring_engine.py:1043` against its comment).

Other disagreements with a docstring or a message of the code, which the passing runs do
not show because their properties say what holds in spite of them:

- The filing register is to have one row for each submission, and new rows for corrections
  (`models/report.py:594`). A report keeps its unique `report_ref` through rejection and
  redraft, so the row of a second submission is refused; its status is committed by then, and
  neither register nor audit trail has it. `RegisterOnce`, `LedgerRefined` and
  `SubmissionGetsRegistered` speak of a report's first submission for that reason.
- A redraft clears the MLRO's sign-off (`reports.py:1250`), unless it read the SMR before the
  sign-off was committed: then it writes nothing there, and the sign-off of the draft before
  stays. `RegisteredSmrWasSignedOff` takes any earlier sign-off; `SubmittedAsApproved`, for
  requests one at a time, one since the last redraft.
- Two overlapping requests link an alert to a case twice, in spite of the 409
  (`cases.py:515`). `NotLinkedAgain` is about requests one at a time.
- A rejection completes a decision panel, which the docstring says remains open
  (`rule_builder.py:913`), and a review that was read before a panel was decided decides it
  again, where the handler answers others with a 409 (`rule_builder.py:931`).
  `FinalDecisionStands` takes a rejection as final and exempts panels whose reviews overlapped.
- An escalation that overlaps the submission for approval leaves a trigger of enhanced due
  diligence that the final decision does not look at, although that is to have a "senior
  approval gate" (`customer_workflow.py:10`). The documented way of a high risk through
  `edd_senior_approval` back to `cdd_review` (`models/customer_workflow.py:9`) ends at a
  submission nobody can make, as it asks for two flags that nothing sets. "Valid transitions
  only" (`customer_workflow.py:15`) tests targets and not actions: the completion of a
  periodic review that nobody started closes a pending approval.
  `ReviewedAfterAssessment` is what holds through all of that.
- The retrievals of a lapsed organisation are "capped" (`program_retention_service.py:48`,
  and at 3 in `organisations.py:273`), and overlapping requests pass the cap: each counts
  before the others insert. `VersionsKept` has the cap for requests that did not overlap, and
  bounds the excess of others: fewer than there are requests in flight.

The rest was met while modelling: conditions in properties, transitions that never fire,
handlers that always fail. It is listed here for the code's authors.

**Reports, lock, checks, cases, rules.** A PATCH may set `reviewed_by` and `status`
(`astray`), and an edit loaded before an approval can commit after it (why
`SubmittedAsApproved` is serial). A submission cut between its commits stays without
register row for ever. An ownerless key whose TTL runs out under a job is deleted by that
job later, whoever holds it then; and once a first run has ended, a worker whose timer is
late runs the tick again. A check swallows a database failure, so the retry built for it
never happens. A rollback in one user's notification drops rows of other users flushed
before it, and a user activated in between can be reported and not stored. The report checks
filter by a status the enum does not have. Overlapping alert reviews mix their columns; a
result can be recorded on an alert nobody reviewed; a transition overlapping a close reopens
the case; the transition endpoint closes without `closed_by`, also as `closed_no_smr` with
an SMR lodged; a payload of `create_case` that repeats an alert links it as often.
Overlapping rule updates share a version number and leave one definition in no snapshot; a
rule taken out of testing while an evaluation runs acts, whatever status it got; an action
that fails in its commit loses the execution row that is "always" written, and `create_case`
always fails so, as it sets no `created_by`.

**Customers.** Enhanced due diligence is a dead end, so no workflow gets out of it in order,
and `approve-edd` works from `on_hold` only, for workflows where nobody asked for it, and
then sets the flag that lets an enhanced customer be opened. The final decision, the
override and the identity score open customers without the tests of the status endpoint.
`create_review` changes the score without the level. Rescoring history is written for some
paths only. Onboarding sessions and their two imports always fail (`User` has no `user_id`;
three values are unpacked into two), so no invitation session exists; `submit_onboarding`
would answer `already_completed`, as creation sets `customer_id`, and a step would reopen a
completed session. The checklist's `ubo_screened` follows whichever of its two screenings
was reviewed last; a flag stays after a later failure; `overall_clear` ignores potential and
pending screenings; the hub's simulation is always clear, so no alert is ever raised. An
import makes individuals of businesses, duplicates rows without e-mail, sets a level without
a score, and numbers customers by count.

**Due diligence and payments.** Overlapping ECDD decisions leave the status of one
next to the notes of the other; the decision is committed before its audit entry; a
recommendation to reject can be accepted. Wallets of a customer stay pending for ever,
and a wallet screened without a provider is stored as clear under the name the request
gave. Media confirmed and then dismissed keep both flags. A remittance of 500 or 9,500
to a blacklisted country gives no alert, and none does 10,000 or more to a country that
is sanctioned only; a sum exactly at the limit is not over it; 50,000 to 100,000 scores
lower than 9,500. Comparisons of `str(enum)` never match, so a potential TTR is never
indicated. `rapid_repeat` is true for anyone with fewer than ten payments a month. The
baseline a payment is re-evaluated against contains the payment; a re-run after a
dismissal duplicates the recommendation. Questions' scores ignore `compliant_answer`
(`models/risk_matrix.py:175`), and the answers called immutable are updated.

**Programs, policies, matrix, risk.** Overlapping activations leave two active
programs; overlapping generations take one version number. A published policy can be
edited. Deleting a factor writes the matrix's version before the deletion. An override
of a risk run writes no history, and a regrade after it leaves rating and effective
residual apart. Weights PATCHed in part escape the test of their sum
("Must sum to 1.0; validated in the API layer"). With `autoflush=False` the refresh of
a control at the end of a test does not see the test just finalised. Assessment
checklists are changed in place and not stored; sections are writable after
completion. A board report's training section raises. `mark_ready` reopens a submitted
IFTI-DRA record; overlapping supersessions leave two active receipts.

**Training and obligations.** `evaluate_risk_event` is called by a manual fire only,
and assessment flags are created by nothing; "score_below" tests for at least; rules of
the platform are never found by their id (`NULL` in an `IN` list); a publication can
assign another organisation's course, or nobody; a user named twice in a bulk
request gets two records; starting an overdue record sets it in progress. Task numbers
are unique over the platform and counted per organisation; assigning starts a task
without naming the transition; a repeated request for information keeps the earlier
answer's date; escalation reopens completed items that were late, and an escalated one
goes back to overdue; nobody assigned means no reminder.

**Documents and retention.** A new version of a document always fails (an `async`
function called without `await`, with unknown parameters); archiving ignores the legal
hold that `models/document.py:74` says blocks it; a deletion tests the hold before it
awaits the storage, and the object is gone before the commit. Zero retention years let
the purge report list everyone and the eligibility check no one; the report never
passes the organisation, ignores the extra years of a PEP, and lists all tenants' KYC
records; the extra years turn an indefinite retention into ten. A hold placed by an
admin cannot be released by the MLRO.

**Connections and billing.** The migration of two older credentials of one provider
meets a unique constraint, so "safe to re-run" never succeeds; an API key and OAuth that
expire together add two calendar items of which one is lost; enabling with other
credentials leaves the old health, an OAuth success the failure count; API keys
authenticate nothing and events are dispatched by nothing; a failed webhook can still
be fired; overlapping completions of an order bill twice. Immediate cancellation only
tells Stripe not to end the subscription, and its next event revives the row; a second
checkout leaves the first one live at Stripe; an unknown status becomes active; a paid
invoice has no date. The handlers assume that events come in order, which Stripe does not
promise: a late update puts back a status that Stripe has left, and an invoice finalised late
is open again after it was paid (`Mirrored` names the order where it needs it).

**Sign-in, packs, settings.** Starting MFA enrolment replaces the secret of an enabled
factor, and abandoning it locks the user out; a link is spent before the account's
status is looked at; sessions stay open after a password reset; an organisation is
committed before its owner; the last owner can be removed; adding a member again
returns the old role silently. Examination packs are not of one moment; three of their
sections always fail or fail once their register is used, and count as zero; "filed"
counts drafts; a lost worker leaves a pack generating for ever, which cannot be
archived; a database error in one section aborts the rest. Deactivating questions
counts both contexts together, and overlapping deactivations go below the minimum;
seeding ignores the maximum; nothing reactivates what the 409 says to reactivate; a
monitoring rule that ran cannot be deleted (500); any member of a group may add or
remove anyone; the group dashboard filters by a status that does not exist and always
fails.

## 7. Not modelled

- Text and tables without a guard: TTR texts, regulatory decisions, templates and
  seeded libraries, narratives, heat maps, exports. They store nothing that a handler
  reads.
- Aggregates: benchmarks, analytics, dashboards, listings.
- Configuration without a rule: tenants, branding, storage back ends, premium services.
- Append-only logs apart from the entries that `ReportWorkflow` and `DueDiligence` need.
- What cannot be reached in the code: invitation sessions, screening alerts, the
  submission of EDD, new versions of documents, API keys, the dispatch of events.
- Middleware and cache: they decide whether a request is served and how fresh a listing
  is, and no record depends on them.
- Adapters of outside services, schema and migrations, and the web front end, which
  keeps no state of its own.

Hazards that no property covers, because no guard reads what they spoil: overlapping
evaluations lose counts (`trigger_count`, `automation_engine.py:584`; `alerts_generated`
and the rule statistics, `monitoring_engine.py:1086`); a `report_ref` is unique and ends in
four hexadecimal digits (`reporting_service.py:78`), so that a generation fails now and
then; mail is sent inside a transaction that may be rolled back
(`compliance_event_notifier.py:163`); an overdue record is not in the statuses whose
reminders are due (`notification_scheduler.py:212`).

What could come next: `OutcomesStand` and `RepeatedAsBefore` as theorems, for the
entities that are not raced in the step; the scheduler's job under `JobLock` running
`DeadlineChecks`; the chain from `AlertCases` over the SMR draft to `ReportWorkflow` as
one composition; overlapping requests for the components that are checked one request
at a time, whose properties would then name the overlaps they exclude.
