# Onsite service system: a TLA+ verification of the case core

This directory models the part of the repository that decides what happens to a
repair case: the services that write the table `cases` and the tables hanging
off it, when several requests run at once; and the ways into and around that
core where requests overlap, fail and are sent again: LINE webhooks, repair
intake, AI jobs and the migration runner. TLC checks the modules on small
instances; TLAPS proves the main invariants for any number of cases, rows,
sessions and request bodies. Paths below are relative to the repository.

## 1. The system

A Node/Express API over PostgreSQL (`src/server.js`, `src/routes/index.js`).
Every state-changing admin request runs one service method inside
`withTransaction` (`src/db/transaction.js`): a client from a pool of ten, BEGIN,
reads and checks, writes, COMMIT; any thrown error is a ROLLBACK. The isolation
level is PostgreSQL's default, READ COMMITTED. One statement takes a row lock
before it decides (`FieldServiceReportRepository.getServiceReportByIdForUpdate`);
everything else is check-then-act on rows nobody holds. No service calls another
of the core ones: they interact only through the rows they share, `cases.status`
above all, which five of them write and four of them test.

Three parts work otherwise. A LINE webhook handles all the events of a delivery
in one transaction, and so may wait for rows in the middle of it. The repair
intake writes through the pool: each of its statements commits on its own. A
run of the migrations is a process with a transaction per file, and nothing
keeps two of them apart.

### Inventory

| Component | State | Operations | What is hard |
|---|---|---|---|
| Case store (`CaseRepository`, `withTransaction`) | status, decision timestamps, dispatch unit of a case; the pool's clients | summary updates, status update, COMMIT, ROLLBACK | summary updates test nothing about the status they replace |
| Case workflow (`WorkflowService`) | the case row | submit, review, accept, reject, cancel, close | transitions checked on a stale status; a close reads three tables before it writes |
| Dispatch (`DispatchService`) | `dispatch_assignments` | assign a unit, assign or change the engineer | "latest" is by `created_at`, the start of a transaction, not by commit |
| Appointments (`AppointmentService`) | `appointments` | book; one PATCH to move, cancel, finish, annotate | one open appointment per case, and completion consistency, are checked on rows not locked |
| Field service reports (`FieldServiceReportService`) | `field_service_reports` and their row locks | create, edit, complete, service parts | an unlocked edit races a locked completion; the choice of the final appointment |
| Billing and settlement (`BillingService`) | `billing_records`, `settlement_records` | create and edit a record, submit and update settlements | total computed from one row and written over another; limits checked once, on amounts that each column then rounds on its own |
| LINE webhook and identities (`LineService`, `CustomerLineIdentityService`) | `customer_line_identities`, `line_events` | a delivery of several events; link and unlink by administrators | redelivery while the first attempt runs; row locks taken in the order of the events; a check on an identity read before |
| Messages, audit log | append-only rows | append | a message of a LINE customer also updates its case; messages of AI jobs wait for the case's row |
| Repair intake, draft to case (`src/repairIntake`) | drafts, cases, conversions, audit events, idempotency records | submit a draft as a case, naming a tenant or none | eight statements that commit one by one; retries; the key is looked up first and recorded last, and within the tenant the request names |
| AI orchestration (`AIOrchestrationService`) | `ai_jobs`, OCR columns of `case_attachments`, the pool | run a job of a case, a report or an attachment; delete an attachment | a provider call inside a transaction that keeps a client of the pool and a row |
| Migration runner (`src/db/migrate.js`) | `schema_migrations`, the schema | run the files of a release | overlapping runs, of different releases too; files are known by name, so one that is renamed or fills a gap is new; crashes between file and record |
| Repair intake guards, adapters, DTOs | none | normalize, guard, present | stateless |
| Engineer mobile (`src/engineerMobile`) | visit status | visit actions | transition and audit are two injected writers |
| Appointment assignment ports, data correction | assignments, corrections | planned transitions | read, plan, blind update through injected executors |
| Depot workshop | none | classify states and transitions | tables and pure functions |
| Customer access, brand channel, SaaS and security policies | none | classify, mask, project | pure |
| Customers, users, organizations, attachments, notifications | single rows | CRUD | none of their own |
| HTTP shell, admin frontend, migration files, scripts | none | | |

What makes the core correct, per component:

- *Appointments*: a case has one open appointment; a completed appointment has
  a completed visit, and never no result at all.
- *Reports*: one report per case; it is completed once, and with it its case;
  its final appointment belongs to its case; a completed report does not change.
- *Billing*: source amounts stay within the total and the total is the sum of its
  parts, as far as amounts rounded to cents can be; settlements stay within the total.
- *Workflow*: one decision per case; timestamps tell a possible history; a case
  is billed only after it was completed and closed only with its bills in order.
- *Dispatch*: what the case shows is what one of its assignments says.
- *Together*: billing and closing are always preceded by a completed report,
  although other services overwrite the status in between.
- *LINE*: a delivery is stored as a whole, each time it is handled; a user has
  one active identity; an identity goes to another customer without being unlinked
  only where links overlap; deliveries that wait for each other are still answered; a text of
  a customer with an open case is stored.
- *Intake*: one idempotency key, with the tenant named, stands for one case,
  whatever overlaps, crashes and is sent again; a case the client was told of is complete; a draft is not
  converted again and again.
- *AI jobs*: a job is seen whole or not at all; a deleted attachment stays as it
  is; requests that keep clients of the pool while they wait never block it.
- *Migrations*: what a version's record says is what was executed; no file is
  applied before those a release puts before it; a run that completes has applied
  every file of its release as it is there.

## 2. Modules and how they correspond to the code

A request is a record `tx[s]` of the session (pool client) that runs it. Each
service method is cut where other sessions can interfere: one action for each
group of reads whose result the code goes on with, which stores that result in
`tx[s]`, and one action for all its writes and the COMMIT. Writes are updates by
primary key, a row written stays locked until COMMIT, and child rows are written
before the case row, so overlapping writers serialize and one atomic commit per
request loses no behaviour. A SELECT reads the committed rows of its own
instant. A rollback may come at any point: every failed check, lost connection or
thrown error ends there.

| Module | Code | State | Actions |
|---|---|---|---|
| `CaseStore` | `transaction.js`, `CaseRepository.js`, migration 002 | `caseRow`, `tx` | operators the others use |
| `Appointments` | `AppointmentService.js`, `AppointmentRepository.js` | `appt` | `ReadForCreate`, `CommitCreate`; `ReadAppointment`, `CheckNoOther`, `CommitUpdate`; rollback |
| `ServiceReports` | `FieldServiceReportService.js` beside appointments | `report`, `reportLock` | `ReadCaseForReport`, `CheckFinal`, `CommitCreateReport`; `ReadReport`, `CommitUpdateReport`; `RequestCompletion`, `LockReport`, `ChooseFinal`, `CommitCompletion`; `FailReport`, rollback |
| `ReportLifecycle` | what a report promises, with no requests or locks | `phase`, `final` | `Create`, `Edit`, `Complete` |
| `ServiceParts` | the parts of a report, `FieldServiceReportService.js`, `ServicePartRepository.js` | `part` | `ReadReportForPart`, `CommitCreatePart`; `ReadPart`, `CommitUpdatePart`, `CommitDeletePart`; rollback |
| `Billing` | `BillingService.js` and its repositories | `billing`, `settlement` | read and commit of creation, edit, settlement submission, settlement update; rollback |
| `Workflow` | `WorkflowService.js` beside billing | none of its own | `ReadForTransition`, `CheckBilling`, `CheckSettlements`, `CommitTransition`, rollback |
| `Dispatch` | `DispatchService.js`, `DispatchRepository.js` | `assignment`, `caseUnit` | `ReadCaseForDispatch`, `CommitDispatch`; `ReadCaseForReassign`, `FindAssignment`, `CommitReassign`; rollback |
| `CaseLifecycle` | all five services on the same cases | all of the above | their steps |
| `CaseHistory` | what is left of the rules of a case when requests overlap, with no statuses or requests | `reached`, `reported`, `billed` | `Report`, `Reach`, `Bill` |
| `LineWebhook` | `LineService.handleWebhook`, `CustomerLineIdentityService.js`, `CustomerLineIdentityRepository.js`, migration 012 | `identity`, `stored`, `attempts` | `Deliver`; per event `Ignore`, `FindIdentity`, `InsertIdentity`, `UnlinkIdentity`, `RejectMessage`; `CommitDelivery`; `ReadForLink`, `CommitLink`, `CommitLinkNew`, `ReadForUnlink`, `CommitUnlink`; rollback, `BreakDeadlock` |
| `DeliveryLog` | what handling a delivery promises | `recorded` | `Handle` |
| `RepairIntake` | `repairIntakeDraftToCaseApplicationService.js` and the ports the server gives it | `caseOf`, `conversions`, `converted`, `audited`, `records`, `answers` | `Submit`, `LookUp`, `LookUpFails`, `ReadDraft`, `CreateCase`, `RecordConversion`, `MarkConverted`, `WriteAudit`, `RecordResult`, `Abandon` |
| `AIJobs` | `AIOrchestrationService.js`, `db/pool.js`, `MessageService.createMessage`, `AttachmentService.softDeleteAttachment` | `attachment`, `jobs`, `timeline` | `RequestJob`, `RequestDelete`, `Connect`, `ConnectTimeout`, `ReadTarget`, `StartJob`, `ProviderAnswers`, `ProviderFails`, `PostMessage`, `MessageRefused`, `CommitJob`, `CommitDelete`, rollback |
| `Migrations` | `db/migrate.js` | `applied`, `schema`, `run` | `Start`, `ReadApplied`, `Compare`, `RunSql`, `InsertVersion`, `CommitMigration`, `Complete`, `Fail` |
| `*_proofs` | | | theorems of the module they are named for; `Office_proofs` of `Dispatch`, `Workflow` and `Billing`, `ServiceReports_proofs` of `ServiceParts` too |
| `MC*` | | | instances for TLC |

Abstractions to know when reading them:

- Times are left out. A PATCH of an appointment says only whether it moves it; the
  choice of the latest eligible final appointment is a choice of any eligible one.
- A request body is a record of the columns the properties distinguish; `"null"`
  is a column the body does not bring, and `Coalesce` is SQL's coalesce.
- Amounts are counted in units of 1/`Cent` of a cent, so bodies may bring parts of
  cents. Sums and comparisons are on what a body brings and on the row it was
  merged into; `Round` is what a `numeric(12,2)` column makes of an amount. The
  code adds doubles: they are off by far less than a unit, which matters only where
  a sum lies half way between two cents, and there `Nearest` leaves it open which of
  the two is stored. Comparisons of doubles are taken to be exact, and
  amounts too large for the columns are left out: the request fails.
- The status column of an assignment is left out: nothing reads it. An
  assignment's id is its place in the order of `created_at`; BEGIN and the first
  read of a dispatch are one step.
- Whether a submission's fields are filled in, and access, permissions and the
  existence of users and units, only decide whether a request fails, which it
  always may.
- `LineWebhook` cuts a transaction at every statement that can wait, and keeps its
  uncommitted rows with the session (`Wrote`, `Seen`). A session holds a LINE user
  once it has inserted or unlinked a row of his (`Holds`); whoever wants to
  change that row, or to insert another, waits until it is free, since a waiter
  on the unique index must learn whether the row stays. Channels, signatures
  and a failed constraint (`unlinked_at` is compared with `linked_at`, and both are
  times at which transactions began) only decide whether a request fails. An
  unlinked row is never read again and frees its id.
- `RepairIntake`: the tenant is one of the request (the user's, the context's or the
  body's), never the draft's own. A submission that names none finds drafts and
  records of every tenant, since the lookups leave the clause out, but writes NULL, and
  its UPDATE of the draft compares `tenant_id` with NULL and marks nothing.
  Planning the case reads and fails, nothing else.
- `AIJobs`: a failed OCR stores NULL over an earlier result, and a job whose message
  is refused after the provider answered is stored as failed with its response;
  both are in `CommitJob` as the code has them.
- `Migrations`: a file is a name, a number that sorts as it does, and a content, whose
  checksum is itself (collisions are left out). `Makes` says what a content creates:
  another file that makes the same makes CREATE TABLE fail, under whatever name.
  What a file needs of those before it is left out; `EarlierFilesFirst` is about it.
- Slips: operators such as `ReadForCreateUnchecked`, placed before the definition
  they imitate, are that definition with a plausible mistake. No specification uses
  them; each shows that some property notices the mistake.

## 3. Runs

Passing runs. "Races" have several sessions in any interleaving; "serial" has
one, where each request runs alone but requests come in any order.

| Run | States | What it shows |
|---|---|---|
| `appointments_races` | 314 thousand | Two sessions, three appointments, 24 PATCH bodies. A case never has more open appointments than there are sessions (`OpenAppointmentsBounded`); a completed appointment always has a visit result (`CompletedHasResult`). |
| `reports_races` | 1.4 million | Two sessions, two cases, two appointments. The final appointment is one of the same case with a visit result (`FinalOfSameCase`); the row lock keeps completions apart (`CompletionsExclude`); a completed report goes with a completed case (`CompletedReportCompletesCase`). |
| `reports_live` | 9 thousand | Every request is answered; nobody waits for a row lock for ever (`RequestsFinish`). |
| `workflow_races` | 77 thousand | Three sessions decide, bill, settle and close, with amounts of half a cent. No timestamp without those before it (`DecisionTrail`). |
| `dispatch_races` | 230 thousand | Three sessions, three assignments, two units. An assigned case has an assignment with an engineer, and shows the unit of one of its assignments, whatever the order of the commits. |
| `lifecycle_serial` | 1.9 million | One case from draft on through every service. All the rules above that hold one request at a time, across services: one open appointment, completion recorded on both columns, source amounts within the total (`ChargeNearTotal`) and total the sum (`TotalNearSum`) but for rounding, one decision, case summary of the latest of two assignments, closed or billed only with a completed report, closed once, closed with bills in order, a completion names a completed visit, the parts of a completed report stay as they are, and the report implements `ReportLifecycle` (`LifecycleKept`). |
| `lifecycle_races` | 1.2 million | Two sessions, every service. Although booking a visit resets the status of any case, a case is billed only after a report completed it (`BilledWasServiced`); a part removed from the report stays removed, whatever update had read it before (`RemovedStays`); timestamps, reports and bills tell a history `CaseHistory` allows (`HistoryKept`). |
| `line_deliveries` | 232 thousand | Two webhook sessions, two deliveries with every kind of event that meet two users in opposite order, one of them delivered twice, and two administrators who link and unlink. One active identity per user (`OneActiveIdentity`); the webhook implements `DeliveryLog` (`RecordedWhole`); an identity passes from one customer to another only by a link that had read it before it had a customer, and each such link does so once (`TakeoversContested`); every request is answered, deadlocks included (`LineAnswers`). |
| `intake_races` | 1.4 million | Two overlapping submissions of two drafts, one of a tenant and one of none, under two keys, naming either of two tenants or none, each abandoned anywhere and sent again. One case per key and tenant named, two at most per key (`OneAnswerPerKey`); a case told of is complete (`AnsweredComplete`); submissions that name the tenant convert a draft at most as often as requests overlap (`ConversionsBounded`), although the retries could go on for ever. |
| `migrations_overlap` | 619 thousand | Three runs of five releases: one, the next, one with an edited file, one with a renamed file, one with a file of another branch that fills a gap. `RecordedAsRun`; `EarlierFilesFirst`; a run that says it is complete is (`CompleteIsWhole`). |
| `ai_jobs` | 24 thousand | Three requests, a pool of two, an attachment and its case. `JobsWhole`, `DeletedUntouched`; everybody is answered (`AIAnswers`). |

One run finds a violation, and is a finding:

| Run | Disagreement |
|---|---|
| `line_text_lost` | `README.md:2175` and `docs/task-006-api-endpoint-design.md:722`: a text of a LINE customer who has an open case becomes a message of the case. `CaseRepository.touchCustomerMessage` (`:266`) stores the customer's id in `cases.updated_by`, which references `users`: the statement fails, and the whole delivery is rolled back, each time it is delivered. The run assumes that nothing else fails and every request goes on. |

The serial rules are serial on purpose. Over several sessions TLC refutes
`AtMostOneOpen`, `CompletionRecorded`, `ChargeNearTotal`, `TotalNearSum`,
`OneDecision`, `ClosesClean`, `ClosedOnce`, `CompletionNamesVisit`,
`PartsFrozen` and `SummaryOfLatest` by the same pattern, a check on a row another
request then changes. What survives races is the subject of the `_races` runs.
Documents that speak of these rules as of facts, and what refutes them:

- `docs/PROJECT_GUARDRAILS.md:258`, a case should not have several open appointments: two
  overlapping bookings both pass `assertNoOtherOpenAppointment`; no lock and no
  index stops them. `OpenAppointmentsBounded` is what remains.
- `docs/PROJECT_GUARDRAILS.md:267`, the final appointment of a completed report is
  stable: an edit reads the report, a completion commits, and the edit's
  UPDATE writes over it. `FinalOfSameCase` is what remains.
- `docs/task-004-case-workflow-design.md:35` and `:477`, one decision and no transition
  races: two reviewers accept and reject the case they both read under
  review. `DecisionTrail` is what remains.
- `docs/multi-visit-field-service-design.md:214`, the visit result of the final
  appointment is completed: one session completes the report and then PATCHes the
  appointment, which never looks at reports.
- `src/services/BillingService.js:46`, a settlement cannot exceed the total: one session
  submits a settlement and then lowers the amounts, which reads no settlements.
- `src/services/BillingService.js:33`, the source amounts must not exceed the total: the
  comparison is on the amounts of the body, and labour of 1 cent with two source
  amounts of half a cent is stored as 2 cents against 1. Likewise labour and parts
  of half a cent are stored as 2 cents with a total of 1. Whole cents, the only
  amounts for which `ChargeNearTotal` and `TotalNearSum` say what the rules
  do (`Cent` = 1), are checked by no validator.
- `docs/task-1680` (`:63`), a draft is converted once: overlapping submissions create as
  many cases as there are of them, and those that name no tenant one per key. A draft of a
  tenant, submitted without it and then, under the same key, with it, is converted twice
  and both cases are told: neither submission sees what the other left.
- `migrations/README.md:7`, files run in the order of their names: so they do in one run. But
  the runner knows files by name alone, and one that was renamed, or that fills a gap
  (prefix 023 is one, `:48` and `:89`) where later ones are applied, is run as a new
  one; the schema may then be that of no release. `EarlierFilesFirst` and
  `CompleteIsWhole` are what remains.

Also of one session: `createAppointment` tests no status, so it schedules a draft or
a closed case. `ClosedOnce` still holds serially, because the report of such
a case is completed already and nothing else leads back to `completed`. With
two administrators `LinkKept`, that no identity is given to another customer without
being unlinked, fails: both read an identity without a customer, and the UPDATE of
the second tests only that it is still active
(`CustomerLineIdentityRepository.js:94`). `TakeoversContested` is what remains.

### Bounds

Sessions: two suffice for every race between a check and a write; dispatch and
workflow have a third because their races involve the order of commits among the
others. Rows: `OpenAppointmentsBounded` needs one appointment more than sessions
(three for two); a wrong final appointment needs a second case; a stale latest
assignment needs two, and three let one be stale twice. `Cent` 2 gives half cents,
the amounts rounding moves the most; a record of six of them is
rounded by as much as `ChargeNearTotal` allows, and two amounts well above it are below
and above the limit. Two assignments in `lifecycle_serial` give a latest one among several. Bodies are the smallest set in which every
column can be brought, left out, and made to conflict; `appointments_races` takes
all combinations of four statuses, three visit results and moving or not. The ids of a table are a
fixed set, so an INSERT beyond it is not modelled: it fails, or in
`Dispatch` and `AIJobs` cannot begin. Symmetry is over sessions and row ids where no
constant singles one out; never in a run with liveness, `lifecycle_serial` or
`lifecycle_races`.

`line_deliveries` is the smallest instance in which transactions wait for each other
in a circle: two texts of two users in one delivery, sent twice, and a follow and an
unfollow of the same users in the other, in opposite order. Three identities are
enough for two users, an unlinked row's id being free again. The administrators link
one user to two customers: a takeover needs no more. In `intake_races` four cases let a
draft be converted more often than two requests overlap, so that `ConversionsBounded`
could fail; two tenants, one of them no draft's, and a draft without one give every
outcome of the comparisons. `migrations_overlap` needs three runs for two that disagree
and one that comes after both. In `ai_jobs` the
pool is smaller than the number of requests, which is what matters of ten clients:
someone has to wait for a client while the others wait for rows.

Deadlock is checked in all runs but `workflow_races`, where a rejected or cancelled case
with nothing to bill really has no further request that changes it, and the runs
of LINE and AI jobs, where every delivery has been sent as often as LINE does,
every job made, and nothing is left to ask.

### Fairness

`ReportsFairSpec` assumes that a request, once it has arrived, goes on: Node
resumes an awaiting handler and the database answers (weak fairness of each step
of a request). A step that needs a report row another session may hold is
strongly fair: PostgreSQL queues the waiters of a row, so one that finds it free
again and again gets it. Nothing is assumed of clients, who may never send
anything, or of connection failures. A rollback frees the lock, as COMMIT does;
with a version that keeps the lock `RequestsFinish` fails.

`LineFairSpec` assumes of a request only that it goes on if nothing keeps it from
doing so (weak fairness), that a deadlock is found, and nothing of the senders. It
needs no more, although rows are waited for: no delivery is sent without end, and
administrators hold no row while they wait. `AIJobsFairSpec` assumes that a request that
can go on, again and again, goes on (strong fairness, since it may find a row held
each time it is looked at, and requests come without end). `LineSteadySpec`
leaves out failures, for `TextRecorded`, which speaks of the code's own doing.
`AIJobsFairSpec` takes the provider's answer or error for granted: the server
gives it no timeout. No fairness is assumed for the connection timeout, so
`AIAnswers` does not rest on it: a client is free in the end because the
requests that hold one never need a second.

## 4. Proofs

All theorems are checked by TLAPS for arbitrary constants satisfying the named
assumptions of the modules (finite `Sessions`; bodies and initial rows of their
types).

- `Appointments_proofs`: `AppointmentsInvariant` proves `AppointmentsInv`
  inductive. The bound on open appointments is not inductive: a booking that
  passed its check will add one. `OpenOrOpeningBounded` counts the
  appointments open now, those a checked PATCH is about to reopen, and the
  sessions about to insert one; a check passes only when none of another session's
  is visible, and each session adds at most one. The rest follows from cardinality
  lemmas. `CompletedHasResult` needs `UpdatesBacked`: a PATCH that will store a
  completed status brings a result, or the row has one, and no PATCH can clear it.
  Corollaries: type correctness, the bound, `OneSessionOneOpen` (with one session
  at most one is open, the rule of the guardrails), `CompletedAlwaysHasResult`.
  Assuming one session, `AppointmentsSerial` is inductive too, and with it
  `CompletionAlwaysRecorded`.
- `Office_proofs`, for workflow and billing: `WorkflowInvariant` proves `WorkflowInv`
  inductive. Timestamps are never erased, so what a check saw of them still holds
  at its commit (`TransitionsBacked`, `CreationBacked`), although the status it saw
  may be gone; `StatusStamped` turns a status into its timestamp. Corollaries:
  `WorkflowTypeCorrect` and `TrailAlwaysOrdered`. That a billed case was completed is part
  of the invariant (`BilledWasCompleted`). Initial cases are assumed to have a possible
  history themselves (`WorkflowAssumption`). For one session its lemmas prove
  `BillingSerial`, `SumSerial`, `TransitionsSerial` and `CasesDecidedOnce` inductive; the
  theorems that rest on them are in `CaseLifecycle_proofs`. `BillingSerial` says of a
  request under way that the row it will store is near its total: the
  UPDATE merges the body into the row as it is by then, and with one session
  that is the row the amounts were checked on. `HalfType`, `RoundType` and
  `NearAmounts` bound what rounding makes of each column, whatever `Cent` is; the two
  properties add these bounds up.
- `Office_proofs`, for dispatch: `DispatchInvariant` proves `DispatchInv` inductive.
  `CreationsApart` says the creations under way write rows of their own,
  `ReassignsBacked` that a reassignment works on a row of its case. The subtle case
  is a reassignment that changes the row which backed the status: engineers and
  units are only ever replaced, so the same commit leaves the case backed by the
  new values. Corollaries: `DispatchTypeCorrect`, `CaseUnitAlwaysAssigned`;
  `AssignedAlwaysHasEngineer` if no case starts out assigned (`NoneAssigned`); with
  one session `SummaryAlwaysOfLatest`.
- `LineWebhook_proofs`: `LineInvariant` proves `LineInv` inductive, for any number of
  sessions, users, identities and deliveries. Transactions under way write
  different rows (`WritesApart`) of different users (`UsersApart`), a row
  one has inserted is in nobody else's sight (`InsertsNew`), and what a request
  remembers of an identity stays true or the identity is gone
  (`ReferencesHold`). Then `OneRowInSight`, that no session sees two rows of a
  user, survives a COMMIT: it changes the sight of another session only in users
  that one does not hold, and therefore has no rows of its own of. Corollaries:
  `OneIdentityPerUser`; `DeliveriesRecordedWhole`, the refinement: a COMMIT is one
  `Handle` of the log, since the attempts not yet finished leave room for it
  (`DeliveriesCounted`), and every other step is a stutter; `TakeoversAlwaysContested`,
  by looking at each step: only a commit of a link changes the customer of a linked
  row, which ends its request (`TakeoverByStep`), and nobody joins the contestants, as an
  identity that has a customer is no longer read as one without (`ReadsForLink`,
  `OthersContest`); `LinksKeptByOneAdmin`, assuming one administrator, by `LinkBacked`: whatever webhooks commit between his
  reading an identity and his linking it, it is without a customer or gone.
- `RepairIntake_proofs`: `IntakeInvariant` proves `IntakeInv` inductive. A submission has
  written what its stage says (`SubmissionBacked`), a record stands for a complete
  case (`RecordsComplete`), and an answer is the record's (`AnswersRecorded`);
  `ConversionsCounted` bounds the conversions of a draft by submissions that name its
  tenant, by counting those made and the requests that will still make one: once
  a draft is marked nobody joins them.
  Corollaries: `OneCaseToldPerKey`, `ToldCasesComplete`, `ConversionsAreBounded`.
- `AIJobs_proofs`: `AIJobsInvariant` proves `AIJobsInv` inductive. A request works on a
  job of its own (`JobsApart`, `RequestBacked`), and an attachment it holds is not
  deleted. Corollaries: `JobsAreWhole`, `DeletedStaysUntouched`.
- `Migrations_proofs`: `MigrationsInvariant` proves `MigrationsInv` inductive. What a run
  saw recorded stays recorded like that (`SnapshotHolds`), rows inserted and not
  committed are new and of different names (`InsertsNew`, `InsertsApart`), and the
  files a run has walked past are applied as its release has them (`WalkedFiles`). So
  when a file is committed, those its release puts before it are in the schema:
  `FilesInReleaseOrder`; and when none is left, all are: `CompleteRunsAreWhole`.
  The other corollaries are `MigrationsTypeCorrect` and `VersionsRecordedAsRun`.
- `ServiceReports_proofs`: `ReportsInvariant` proves `ReportsInv` inductive, beside
  appointments. None of `FinalOfSameCase`, `CompletionsExclude` and
  `CompletedReportCompletesCase` is inductive alone: `ReportBacked` adds that a
  request works on a report that exists, that an edit never brings the status
  completed, and that a final appointment about to be stored has a visit result;
  `UpdatesOfRows` that a PATCH in flight works on a row that exists. What makes them
  survive other sessions is that a visit result is replaced but never cleared and a
  timestamp never erased (`VisitsKept`, `StampsKept`), so a check stays true without
  a lock. Corollaries: `ReportsTypeCorrect`, `FinalsBelongToTheCase`,
  `OneCompletionAtATime`, `ReportAndCaseCompleteTogether`. Assuming one session,
  `ReportsSerial` is inductive too: what a request read still holds when it writes.
  From it follow `LifecycleOfOneSession`, the refinement (a commit that writes a
  report is `Create`, `Edit` or `Complete`, every other step a stutter), and
  `CompletionsNameAVisit`.

- `CaseLifecycle_proofs`: the same for the services together, on the same cases.
  `ServicesCompose` proves that the five invariants hold beside each other
  (`ServicesInv`). The argument is compositional: what a service has to know of a
  step of another is that it is on a request of other operations
  (`StepElsewhere`), and which statuses and which timestamps it can give to a
  case (`CasesMoved`). Each service has one lemma that says this of its own steps
  (`AppointmentStepSeen`, `ReportStepSeen`, `PartStepSeen`, `WorkflowStepSeen`,
  `DispatchStepSeen`) and one that its invariant survives such a step
  of another (`ReportsUndisturbed`, `WorkflowUndisturbed`, ...). The invariants had
  to be stated so that they say nothing of requests that are not the service's own
  (`ReportShapes`, `WorkflowShapes`, `DispatchShapes`).
  - *However requests overlap*: `CaseInvariant` adds `CompletedHasReport`, which is
    inductive only with `ServicesInv`; `BilledAlwaysServiced` follows.
    `HistoryAlwaysKept` is the refinement of `CaseHistory`: a creation of a
    report is `Report`, a completion or a decision `Reach` or a stutter (a timestamp
    can be written twice), a creation of a billing record `Bill`, everything else a
    stutter. `RemovedPartsStay`, `EngineerBesideAll`, `OpenBoundedBesideAll` carry
    over what single services promise.
  - *With one session*, `OneSession`: `ServicesSerialCompose` proves that what any
    request has read still holds when it writes (`ServicesSerial`).
    `CompletedForGood`, a case that was completed has a completed report and
    looks completed no more once it is closed, is inductive with it, since no edit
    takes a report back and nothing else completes a case. All properties of
    `lifecycle_serial` follow: `OneOpenBesideAll`, `CompletionRecordedBesideAll`,
    `ChargeAlwaysNearTotal`, `TotalAlwaysNearSum`, `SummaryOfLatestBesideAll`,
    `CaseDecidedOnce`, `CasesCloseClean`, `CompletedPartsFrozen`,
    `LifecycleBesideAll`, `CompletionNamesVisitBesideAll`, `ClosedAlwaysHasReport`,
    `CasesCloseOnce`.
  - Assumed, each by name and only where it is needed: no case starts out
    completed (`NoneCompleted`: `completed_at` is written by the completion of a report
    and by nothing else), none starts out assigned (`NoneAssigned`), bodies bring no
    total (`NoTotals`, as those of the admin panel), and cases start with at most one
    decision, none while they await it (in `CaseDecidedOnce`).

Every invariant, action property and refinement a passing run checks is stated by
one of these theorems. Only model-checked: `RequestsFinish`, `LineAnswers` and
`AIAnswers`, because liveness under fairness is beyond the prover; and the
violation of `TextRecorded`, which a theorem cannot show. `AppointmentsTypeOK` is
proved and no run checks it by itself: `ReportsTypeOK` says the same of
appointments, beside reports.

## 5. Not modelled, and what is left

Not modelled, and why:

- *Engineer mobile, appointment assignment, data correction*: the order of their
  writes matters, but the writers, executors and transaction runners are
  injected. `startServer` (`src/server.js:857-863`) passes the pool, once more as the client of the
  mobile work list, which reads, and nothing else; so in the server of this repository these ports are missing, the routes refuse, and
  which statements share a transaction is not in the code. A model would be of an
  invention.
- *Depot workshop*: constants and pure functions over them; a model would
  restate the tables.
- *Customer access, brand channel, SaaS boundaries, policies; guards, adapters and
  DTOs of the intake*: pure, or read-only.
- *Customers, users, organizations, permissions, notifications*: rows that are
  created and edited alone. Their effect on the core, a permission or an
  organization that is gone, is a request that fails.
- *HTTP shell, admin frontend, migration files, seeds, smoke scripts*: no state of
  the system. The constraints modules rely on are mapped from the migrations.

Together these are nearly all of the repository's lines: the frontend alone is
ten thousand lines of pages, and the pure policies and the scripts that
exercise them are the largest directories. The state of a case is decided by the
few files the modules cover.

Left out of modelled components: activity timestamps and descriptive columns of a
case, deletion of cases and appointments, editing of LINE channels, the
uncalled `markDispatchPending`.
