# VoxelVeda ERP: verification project

TLA+ models of the coordination logic of the VoxelVeda business application (a
Node/Express monolith over one MySQL database, run on several replicas), the
TLC runs that check them on small instances, and TLAPS proofs of the properties
that matter most for every size of instance.

Almost all of the application's concurrency lives in MySQL: replicas, timers,
HTTP requests and overlapping worker cycles interleave between `await`s, and
what protects them is row locks, conditional `UPDATE`s, unique keys, leases with
expiry, and status columns. That is what the models are about. A model step is
one SQL statement, one transaction, or one call of an external service; code
between two awaits touches only locals and is part of the step it follows.

## 1. Inventory

| Component | State | Operations and interactions | Hard behaviour | Modules |
|---|---|---|---|---|
| Background jobs (`backgroundJobService`, `backgroundJobStore`) | leases, runs, failures, dead letters; scheduler timers | `runJob`, heartbeat, retry/back-off, dead letters, manual retry; runs every recurring worker below | several replicas, lease expiry under a live holder, crashes, lost answers | `BackgroundJobs`, `SingletonJob` |
| E-mail queue (`emailQueue`, `emailController`, `emailService`) | `email_queue` rows, e-mail logs | `queueEmail`, `processEmailQueue` (leased worker *and* an endpoint without lease), sweep, operator retry | at-most-once delivery with an uncertain transport, overlapping cycles, stale snapshots | `EmailQueue` |
| Invoices (`invoiceController`) | invoices, revisions, payments | create/edit/approve/reject/send/pay/void/archive, review of historical claims | chains of edits, payments and voids | `Invoices` |
| Document delivery (`documentDeliveryService`) | delivery requests, their queue rows | competing senders generate, queue and cancel documents; the e-mail worker marks invoices sent | edits and payments racing senders and worker | `InvoiceDelivery` |
| Approval workflow (`workflowService`, `workflowEscalationService`) | definitions, instances, steps, assignments, SLA events | publish, submit, decide, reassign, request changes, cancel, escalate | concurrent approvers, reassignment, escalation | `ApprovalWorkflow` |
| Timesheet workflow (`timesheetWorkflowService`, refresh in `attendanceController`) | weekly timesheets, versions, payroll entries | submit, approve, reject, return, amend; edits of attendance refresh the hours | edits racing decisions, a refresh without a lock | `Timesheets` |
| Weekly delivery (`weeklyTimesheetScheduler`) | deliveries, frozen versions, generation claims | reserve, render, queue, validate at send, revise; reads the week under the employee's lock | claims that lapse, corrections racing the transport, sources that change after freezing | `WeeklyDelivery` |
| Procurement (`procurementService`) | requisitions, supplier RFQs, orders, receipts, returns, credits | submission and cancellation in several transactions each, award, receipt, inspection, return | requests racing for one record, a crash between two transactions, sums over partial receipts | `Procurement` |
| Procurement import (`procurementImportService`, `procurementEntryService`) | batch, files with extraction leases, rows, draft entries | upload and its repetition, extraction, mapping, review, confirmation | late uploads and workers, two screens on one batch | `ProcurementImport` |
| Stock and materials, trash, RFQs, expenses, applications | rows, balances, trash items, revisions, retry keys | issues and their correction, delete/restore, edit dialogs, payments and reversals, resubmission | stale snapshots and dialogs, lost answers, concurrent restores | `Inventory`, `Trash`, `Rfqs`, `Expenses`, `Careers`, composed in `Records` |
| Accounts, sessions, MFA, step-up, users | accounts, sessions, links, challenges, one-time codes | login, verify, enrol, reset, invite, and every administrator route | statements of two requests interleaved, single use under races, closing racing login | `Access` |
| Attendance, roster, shop floor, inspection and release, controlled forms, recovery drills, public submissions, migrations | sessions and corrections, shifts, operations, plans and runs, records, drills, request keys, schema history | clocking over a lossy network, publication, inspection, release, review, decision, start-up of replicas | checks read before a lock, lost requests, a process that dies between statements | `Attendance`, `Roster`, `ShopFloor`, `QualityRelease`, `ControlledForms`, `RecoveryDrills`, `Submissions`, `Migrations`, composed in `Operations` |
| Notifications, documents and PDF, permissions, security registers, reports, tasks, webhooks, front end, native shells | see `PROJECT.json` | | single-statement record keeping, I/O or presentation | not modelled (section 13) |

What makes each correct, in a sentence:

* *Background jobs*: at most one replica executes a job while its lease lives,
  every failure leaves evidence, verdicts are never rewritten, and no dead
  letter is lost or closed without cause.
* *E-mail queue*: the provider is never handed a message again that it may have
  taken; nothing stays `SENDING` for ever.
* *Invoices*: `paid` is backed by payments, and what is approved, sent or paid is
  what was approved; a document that was withdrawn is not sent.
* *Weekly delivery*: one current version per employee and week; what is sent is
  the attendance as it stands when it is sent.
* *Timesheets*: what is approved, and ready for payroll, is what was worked.
* *Approval workflow*: a request is decided once, by the people asked, and
  every request can still be decided.
* *Procurement*: nothing is ordered or received without an approval, and lines,
  receipts, returns and credits agree; a submission happens as a whole, or what it
  leaves half done has a failed statement behind it.
* *Import*: what is confirmed is what was shown, and becomes one entry.
* *Office registers*: what is booked adds up, what is deleted comes back whole,
  a submission sent again acts once, no edit goes over one its author never saw.
* *Accounts*: a session never outlives the password it was opened with, a closed
  account stays out, a code is good once.
* *Plant*: nobody has two sessions or the same shift twice, an approved period
  stays settled, a certificate rests on what was inspected, a decision stands.

## 2. Plan

Done: the modules of the table above, a run for each composition (two where a
question needs another instance), and the theorems of section 11.

Left for later work:

The e-mail a published roster queues after its commit, on `EmailQueue`; the access
grants of a stored CV.

A module has one run, or two where its questions need different instances; one
that is composed into another is checked there.

## 3. Background jobs

`BackgroundJobs` models one job key: the lease row, the run ledger, failures and
dead letters, and any number of `runJob` invocations (constant `Workers`) on any
replicas. `pc[w]` is the await an invocation is at; the operators `Store...` are
the store's transactions and are used by the steps that call them. `ok`, `lost`
and `error` are the ways a MySQL call ends for its caller: done; committed but
unanswered; not done. `Crash` ends an invocation anywhere. Time is abstract: a
lease lapses and a back-off elapses by a step of its own. `SingletonJob` is the
promise: a job that one worker executes at a time.

| Run | Shows | Bounds |
|---|---|---|
| `BackgroundJobs_safety` | the ledger's invariants, the finality of verdicts, and that a dead letter is closed by a success only and is in somebody's hands while claimed (`LettersAreKept`) | 2 invocations, 4 runs, 2 attempts, 1 crash, 1 failed call, 1 lapse |
| `BackgroundJobs_live` | refinement of `SingletonJob`; an open run is eventually closed though its process died; a claimed letter is eventually reopened or resolved, unless a process dies | 2 invocations, 4 runs, 1 crash, no lapse, fair |

Two invocations are enough for every race the code guards against, which are
all between the holder of a lease and one other. Four runs give a dead letter
of two attempts, its manual retry and a successor. One fault of each kind already
combines with every point of an invocation; the proofs have no bound on any of
these.

Fairness is per invocation (its awaits return, its handler ends), on the timers
that start invocations (`setInterval` in `createScheduler`), and on the lapse of
an orphaned lease and of a back-off (the clock). None is assumed for operators,
crashes or faults.

Proved in `BackgroundJobsProofs`: every safety property of the run, and the
refinement. `LettersAreHeld` holds until a process dies or a call fails; see
section 12 for what happens then.

## 4. E-mail queue

`EmailQueue` models the rows of `email_queue` and concurrent cycles of
`processEmailQueue`. `batch` and `seen` are what the cycle's `SELECT` returned,
including the stale `attempts`; `Claim` is the conditional `UPDATE`; `Send` is
the mail transport, which takes the message or not and reports that truthfully
except when it answers "held" (uncertain); `Decide` is the catch block's choice
between `RETRY`, `FAILED` and `REVIEW_REQUIRED`; the steps after it are the
statements that record it, each of which can fail and then ends the cycle.
`accepted` counts what the provider really took.

| Run | Shows | Bounds |
|---|---|---|
| `EmailQueue_cycles` | at most one acceptance, nothing accepted is retryable, `SENT` is true, back-off is kept, no row stays `SENDING` | 2 cycles, a weekly or an invoice's row (constraint `Focus`: one at a time), 2 attempts, 3 claims, 1 fault of each kind, fair |

Races are between a row's claimer and one other cycle, the sweep or the operator,
and concern one row each: rows meet only in the batch of a cycle, which is then
busy for longer, and two cycles and a stall already delay each other as much. The
proofs have any number of rows.

Fairness: cycles keep being started (the 30 s scheduler, under its lease) and
their awaits return; the 15-minute age of a claim is reached.

Proved in `EmailQueueProofs`: all but the liveness property.

## 5. Invoices and their delivery

`Invoices` models one invoice and its payment register: every operation of
`invoiceController` locks the row for the whole transaction and is one action.
`content` stands for the items (the revision that last changed them), `revision`
for the `revision` column, and `history` for what `invoice_activity` and the
customer's mailbox hold. An invoice may start as a historical `paid` claim that
no payment supports (`legacy`), which the review operations settle.

`Records_registers` (section 9) checks it as the register "ledger": `paid` is backed
by payments, and approved content stands through every chain of edits, payments,
voids and reviews. Three payments make a balance of parts, one of which is voided;
total 0 is the boundary at which "fully paid" and "nothing paid" coincide.

`InvoiceDelivery` composes `Invoices` and `EmailQueue` (`INSTANCE`) with the calls
of `sendInvoice` (`Senders`) and the request table. A request, its document and
its queue row share a key (the content's idempotency key), so `Docs` indexes all
three. `Load`, `Request`, `ClaimGeneration`, `Commit` and `RecordFailure` are the
awaits of a sender; `Commit` is the transaction of `queueEmail` with
`beforeQueue`. `Edit` cancels queued mail and refuses while a row is `SENDING`;
`Confirm` composes the queue's bookkeeping with `MarkSent`.

| Run | Shows | Bounds |
|---|---|---|
| `InvoiceDelivery_senders` | requests and rows agree, a document is delivered once, cancelled mail stays cancelled, live mail is current, `sent` was accepted | 2 senders, 1 cycle, 2 revisions, 1 crash, 1 failed call, no claim swept under a live cycle |

The run leaves payments out (`Keys = {}`): they change a document in the same way
as an edit does, through `sourceVersion`'s amounts, and are checked with the ledger.
`MailIsCurrent` holds as long as no claim is swept under its living cycle (`MaxStalls = 0`) and fails otherwise: section 12.

`Invoices` is proved within `Records`, and all three properties of the run for
`InvoiceDelivery`, with payments: `MailIsCurrent` under the assumption
`MaxStalls = 0`, the others without it.

## 6. Approval workflow

`ApprovalWorkflow` models the requests of one business record. `startWorkflow`,
`actionWorkflow`, `cancelWorkflow` and `reassignWorkflow` each lock the instance
(and its definition or its active sibling) first, so each is one action;
`actionWorkflow` is split by its outcome: `ApproveMore`, `ApproveStep`,
`ApproveRequest`, `Reject`, `RequestChanges`. `assignments` is keyed by instance,
step and assignee, the table's unique key, with the due date that its two SLA
events recorded. `Assign` is the `INSERT IGNORE`, `Close` the conditional update
of pending rows. A run of `processWorkflowSla` (a `Sweeper`) reads its list in
`Select` and handles it row by row, each in a transaction that locks and checks
again, while everything else goes on.

| Run | Shows | Bounds |
|---|---|---|
| `ApprovalWorkflow_sla` | no obsolete review, final is final, an overdue review is noticed | 3 users, 1 request, 2 versions of 1 and 2 steps, 1 run of the job, clock up to 1, fair |
| `ApprovalWorkflow_v_stuck` | violation: an `ALL` step waits for nobody after a reassignment | 1 request, 1 step |

The quorum of a request and the review that an `ANY` step always has are checked by
`Records_registers` (register "approval"): 3 users, 2 requests, 2 published versions,
the first of 2 of 2, then 1 of 2 followed by both. Two requests and two versions are
what counting across a publication needs. In the `sla` run the first version asks boss
and admin at once, the second the boss twice and the admin never, so that the
escalation of a clerk's request adds a review: a job that did not look again would open one in a step already left or in a
request already decided, the mutant of both safety properties. A review is due one
unit of time after it is assigned, is warned about one unit before that, and
escalates to a review due one unit later; the clock moves on once. Deadlock is not
checked: once every request is final nothing remains to do.

Fairness: the job's timer keeps starting runs (weak fairness of `Select`), and a
row that run after run brings up is eventually processed (strong fairness per
row: `Abandon`, a run that fails half way, may happen any number of times, but
does not keep all runs from the row for ever). None for users or the clock.
`Limit` is above the number of rows; see the list of divergences.

Proved in `ApprovalWorkflowProofs`: everything but `OverdueIsNoticed`, which is
liveness.

## 7. Weekly timesheets and their delivery

`Timesheets` models one employee's week. `attendance` is what all its records
amount to, one of `Contents`; `sheet` is the row of `weekly_timesheets`, `versions`
the frozen snapshots, `payroll` the payroll entry. `Submit`, `Approve`, `Review` and
`Amend` are the four transactions of `timesheetWorkflowService`, which lock the
employee first; `Edit` stands for every operation that changes attendance under
that lock after `assertMutablePeriod`. What runs without a lock is the refresh of
the hours after an edit or on a read: `Load`, `Read`, then `Insert` or `Write`, each
a query of its own, with everything else in between.

`WeeklyDelivery` composes the week with `EmailQueue` (`INSTANCE`), which holds one
message per version of the e-mail. A `Sender` is a run of the routine job or an
operator's correction: `Reserve` or `Revise` freezes a source and takes a claim,
`Queue` or `QueueRefused` is the transaction that checks it again and queues it,
`RecordFailure` the catch block. `ReportUnfit`, `TakeForMailed` and
`HoldChangedSource` are the routine job's other endings. `letters` are the retained
versions. The steps of a cycle that touch a weekly row are composed with what
they do to its delivery: `Sweep`, `Prepare` (`validateQueuedWeeklyDelivery`, which
keeps the employee's row locked until the transport has answered), `RecordSent`,
`Mark`. `RecordsChange` and `AddressChanges` wait for that lock, `RefreshStep` does
not.

A claim lapses after 20 minutes and an attempt waits 15. The model lets both have
passed between any two steps, so it has more behaviours than the clock allows and
what holds in it holds whatever the delays are.

| Run | Shows | Bounds |
|---|---|---|
| `WeeklyDelivery_corrections` | what is sent is current when it is sent, links and retained versions agree, approved weeks stay as approved, submitted hours stay as submitted | 2 contents, 1 refresh at a time, 5 versions of the week, 2 senders, 2 versions of the e-mail, 2 routine attempts, 1 cycle, 1 crash, one address, constraint `Focus` |

The constraint `Focus` (in `MCWeeklyDelivery`) keeps TLC from multiplying histories
that do not meet: the week by itself runs through all its decisions; deliveries are
followed for a week that is edited while its employee loses account or address,
and for one that is submitted and approved meanwhile. Five versions are submission,
return, resubmission, approval and amendment. Two contents of equal hours tell a
changed source from changed hours. Two senders are the holder of a claim and the
one that takes it over; a second version is the correction that supersedes the
first. Deadlock is not checked: at the bounds of attempts and versions nothing may
remain to do.

Left out: a staff name that changes (it is part of the frozen source), a connection
that drops while the transport runs and releases the lock early, and the older
PDF format, which goes through document delivery.

Proved in `StaffAndPlantProofs`: all four properties of the run.

## 8. Procurement and its import

`Procurement` models requisitions, supplier RFQs, orders, receipts, inspections,
returns and credit notes. A requisition or an order (`doc`) is approved by a
workflow instance, of which the module keeps what `ApprovalWorkflow` promises: an
open instance is decided once, and a record has at most one open. Submitting and
cancelling are the hard part: each request reads the record, calls the workflow
in a transaction of its own and writes the record afterwards. `request[p]` is what
such a call holds; `SubmitRead`, `SubmitClaim`, `SubmitStart`, `SubmitUndo`, `SubmitLink`
and `CancelRead`, `CancelWithdraw`, `CancelRecord` are its statements, and
`RequestDies` ends it anywhere. Each statement of a submission may fail, and one that
writes may succeed and go unanswered: a start or a link that does enters the catch
block (`SubmitUndo`), whose own `UPDATE` may fail too and is then forgotten
(`.catch(() => {})`), and a claim without an answer is before the `try`. `stranded`
records what is left so: `<<d, None>>` for a record in `SUBMITTING`, `<<d, i>>` for an
instance that is open although its record was never told. All other operations are
one transaction under row locks and one action. `revived` holds the records that
were cancelled and came back.

| Run | Shows | Bounds |
|---|---|---|
| `Procurement_buying` | nothing is ordered or received without an approval, lines, receipts, returns and credits agree; a submission happens as a whole or what it leaves is due to a statement of it that failed, went unanswered or never ran | 2 requests, 1 requisition, 2 orders, 3 instances, 2 receipts, 2 returns, quantities to 2, constraint `Focus` |

`Focus` explores two halves: two requests racing for one record with plain
receipts and at most one thing stranded, and everything that is bought and
returned with one request at a time and nothing stranded.
They meet only in the status of a record, which both halves take through all its
values. Two orders are what "no more is ordered than the requisition asks for"
needs, two receipts and returns what sums need.

`ProcurementImport` models one batch of one owner. An upload registers its files
and then stores each in a transaction of its own, and may be repeated under its key
while the first still runs; workers claim stored files for five minutes
(`LeaseExpires` ends a claim at any time, with or without the worker); a screen
reads the batch and then its rows in two queries, maps, edits and confirms. A file
has one row. `token` is the preview token, taken as the revision it was made at.

| Run | Shows | Bounds |
|---|---|---|
| `ProcurementImport_batch` | what a screen confirms is what it showed, entries have one source each and keep what was confirmed, a pending file is extracted or given up | 2 files, 2 uploads, 2 workers, 2 screens, 2 values, 2 attempts, 6 revisions, constraint `Focus`, fair sweep and workers |

`Focus` explores overlapping uploads and workers on one file before its rows are
mapped, and two screens over one upload and one worker: a row is not mapped before
it is extracted, so the two meet in the status of the file only.

## 9. Office registers

`Records` is the composition of registers that share no rows, so a behaviour
follows one of them (`register`) from all its initial states and leaves the
others alone; a run of it is a run of each.

* `Inventory`: stock batches with a running balance beside the list of their
  issues, corrections and voids, retry keys; the material log.
* `Trash`: a record's row and its trash item, deletion, edits, and restores that
  read in one statement and write in later ones.
* `Rfqs`: an RFQ from the browser tab (`wire` holds requests whose answer is on its
  way or lost, `form` and `dialog` what a tab shows) to its invoice.
* `Expenses`: bills, payments, and reversals, whose totals come from a snapshot
  taken before the lock.
* `Careers`: applications sent again and side by side, the registration of their CV
  with a store that fails half way, their letters, the recruiters' decisions.
* `Invoices` (as `Ledger`, section 5) and `ApprovalWorkflow` without its job (as
  `Approval`, section 6), by `INSTANCE`.

| Run | Shows | Bounds |
|---|---|---|
| `Records_registers` | balances hold, what is deleted can be restored, submissions act once, approvals have their quorum, no edit is lost | 2 batches and 3 issues of up to 2 units; 3 records and 4 trash items, 2 restores; 2 RFQs, tabs and keys, 4 revisions; 1 bill and 3 payments; 2 applicants; 3 invoice payments, 5 revisions; 3 users, 2 requests; constraint `Focus` |

`Focus` keeps one initial state of what is not followed, and separates two
submissions that race from one RFQ worked on from two tabs, and recruiting from
applications that race.

## 10. Accounts and plant

`Access` models one account with its sessions, links, login challenges and second
factor. Requests interleave statement by statement: `req[r].at` is the statement a
request comes to next, `req[r]` what it read before. `Admitted` is the check of
`middleware/auth.js`, which every later request makes. Passwords are numbers that
only grow. `barred` is set by an administrator's closing and ended by a reopening.

| Run | Shows | Bounds |
|---|---|---|
| `Access_account` | a session let in has the account's present password, a closed account stays out, a code is good once | 2 requests, 2 sessions, 1 link, 1 challenge, 1 time step, 1 recovery code, 3 session versions, constraint `Focus` |

`Focus` explores password links, the second factor, failed sign-ins, a compromise,
a second session and a change of role one at a time, each against everything else
administrators do; the session version changes at most once before a second factor
is in use, and not before a second session or a change of role.

`Operations` composes what shares no rows in the plant; `followed` says which part a
behaviour is about.

* `Attendance`: the phone's clock with lost requests and answers, receipts,
  corrections, a supervisor's edits and archive, approved periods.
* `Roster`: saving, generating, archiving, publishing shifts, and a restore that
  reads whose shift it is before it locks that person.
* `ShopFloor` and, over it, `QualityRelease`: operations on one machine; plans,
  inspection runs, holds, a nonconformance and a concession, release and
  certificate. A release locks the job, reads its gate in a snapshot and locks the
  inspection afterwards.
* `ControlledForms`: publication of a form's definition, and one record through
  revision, review, signature and closing.
* `RecoveryDrills`: a drill and its items decided by several, without locks.
* `Submissions`: one key of the public forms, repeated, slow or lost.
* `Migrations`: replicas of several builds starting at once, crashes between the
  statements of a migration, each of which MySQL commits by itself.

| Run | Shows | Bounds |
|---|---|---|
| `Operations_plant` | `WorkforceHolds`, `RecordsHold`, `ServersHold` and, of steps, `NothingRewritten` | 2 sessions and phones, 1 correction, clock to 3; 3 shifts, 2 people; 2 jobs of 2 operations, 2 plans, 2 runs; 3 revisions of 2 fields; 2 clerks, 2 items; 3 posts; 2 replicas, 2 builds; constraint `Focus` |

`Focus` keeps one initial state of what is not followed; attendance is explored
from the clock, from the office, and with both on one session; a release with
one thing at a time that stops it. A plan has one characteristic, so that no run
adds one to a plan that already has some; `RecordsStaySound` proves what rests on
plans and measurements for any number of them.

Both are without fairness: all their properties are safety, and proved, those of
`Access` in `AccessAndDeliveryProofs`, those of `Operations` in `StaffAndPlantProofs`. Deadlock is not
checked in compositions of registers: at the bounds nothing may remain to do.

Mutants: every property of a run names in `PROJECT.json` one plausible bug that
violates it. For a property that is a conjunction of several parts, further
operators marked "Mutant:" beside the code they change violate its other parts.

## 11. Proofs

Each theorem is `Spec => []Property` or `Spec => [][Step]_vars` for every value of the
constants; the constants' assumptions are named in the modules and evaluated by
TLC in every run. TLC checked each inductive invariant before it was proved.

| Module | Theorems | The inductive invariant and why it is needed |
|---|---|---|
| `BackgroundJobsProofs` | `TypeCorrect`, `OpenRunIsAlwaysLatest`, `FailuresAreNeverLost`, `OnlyExhaustedRunsAreDeadLettered`, `HandlersOwnTheirRuns`, `VerdictsAreFinal`, `JobIsSingleton`, `DeadLettersAreKept` | `IInv` adds `RunsRecorded` (rows beyond `created` are empty, an invocation past `createRun` has a run, no two have the same), which makes a late verdict hit its own row or none, and `LeaseHeld` (while no lease lapsed, an invocation between acquisition and verdict holds the lease), which makes the handlers exclude one another. `LettersInv`, on top of it, says who carries a claimed letter: one operator's invocation that has not dispatched its run, or a run it started with none dead-lettered since; that a run's own letter is not there until its invocation's last statement; and that letters are closed only behind a completed run |
| `EmailQueueProofs` | `TypeCorrect`, `TakenOnce`, `TakenNeverRetryable`, `SentIsTaken`, `BackoffKept` | From its claim until its outcome is recorded a row has one holder (`OneHolder`); while it has one its status is none that a claim or a retry accepts, also when the sweep took it to `REVIEW_REQUIRED` (`HolderOK`); a row whose message was taken never leaves those statuses (`RowOK`) |
| `ApprovalWorkflowProofs` | `TypeCorrect`, `OneActiveRequest`, `FinalRequestsStand`, `NoObsoleteReviews`, `RequestsHaveTheirQuorum`, `SomebodyCanDecide` | `StepInVersion` (the step of an instance exists in its version), then per request: no rows ahead of its step, the steps behind it have their quorum, nobody but others approved where that is required, and the open step lacks some. Rows of a step are counted as users, by a bijection. Two lemmas keep the proofs apart: an operation changes rows of its own instance only while that is open, and the job changes reviews under way only |
| `StaffAndPlantProofs`, the week and its e-mail | `WeekIsTypeCorrect`, `WeekApprovedStands`, `WeekSubmissionStands`, `ApprovedStands`, `SubmissionStands`, `DeliveryConsistent`, `WhatIsSentIsCurrent` | The week by itself is inductive with its types; a step of the delivery leaves it alone or adds a draft. The invariant of `EmailQueueProofs` is used for the queue of versions (`INSTANCE`), where a superseded row is held by no cycle and a sender's reservation matches the delivery while it holds its token. While a message is in transport nobody else has the employee's lock, so all it reports stays |
| `StaffAndPlantProofs`, the plant | `WorkforceStaysSound`, `RecordsStaySound`, `ServersStaySound`, `NothingIsRewritten` | `PlantInv`: an invariant for each part of `Operations`, explained below |
| `AccessAndDeliveryProofs` | `AccessIsInvariant`, `AccountTypeCorrect`, `OldPasswordsOpenNothing`, `NobodyGetsPastAClosing`, `ProofsAreGoodOnce`; `DeliveryStaysConsistent`, `SentInvoiceWasTaken`, `NoStaleMail` | Two components that share nothing but the file. Access: what a request still believes fits the account or is dead: its version and password go together (`PasswordsMatch`), a barred account is inactive (`BarredIsInactive`), links of before are ended, what is spent is gone. Invoice delivery: the invariant of `EmailQueueProofs` for the queue of documents, with `TransportInv`: a cycle that goes on to log or confirm an acceptance has seen one, and, without stalls, the row a cycle transports still reads `SENDING`, so that no late verdict revives a row an edit or the sweep has ended; the content is no newer than the revision; a call of `sendInvoice` under way has a document. An edit is no step of the queue: it touches no row that a cycle holds |
| `RecordsProofs` | `BalancesAdd`, `DeletedComesBack`, `SubmissionsActOnce`, `EditsAreOfWhatWasSeen`, `ApprovalsHaveTheirQuorum`, `BilledAsApproved` | One invariant per register: what was issued is the sum of the live issues; payments within the bill, and reversals of live payments only; the ledger's claims are covered and what was voided is recorded; the material log chains; one live trash item per deleted record, whatever a restore still believes; the content an RFQ was approved with |
| `ProcurementProofs` | `OnlyApprovedIsSpent`, `GoodsAddUp`, `SubmissionsStayWhole`; `WhatWasShownIsConfirmed`, `EntriesAgree` | Orders: what a request still holds fits: an instance that a record or a request names is one of that record, and an approval is never taken back, so that no stale write of an instance id makes an approval; a record in `SUBMITTING` belongs to a request after its claim or is stranded; as long as a record has no instance, a request past its claim read it as a `DRAFT` with none, and the claim compares both, so that there is one such request (`FirstFit`, `OneSubmits`) and an instance it opened is on its way to the record or stranded (`Accounted`); one selected supplier per awarded RFQ; receipts and returns refer to rows that are there. Import: no screen is ahead of its batch, and one that shows the batch's revision shows its rows (`ShownIsRead`), because every change of a row makes a revision; a mapped row has a value; the row an entry came from stays accepted (`RowsAreEntered`), so that no confirmation enters it again. Every value a confirmation selects has an entry after it: the first selected row of that value, or an older one |

The parts of `Operations` share no variable, so a step of the plant is a step of
each part or leaves it alone (`PartsMove`), and each part is proved by itself:

* `AttendanceInv`: a request under way is of a tap of its own and names a session
  unless it opens one; a session that a tap opened has that tap's receipt, so that
  sending it again opens none; times are in order and not in the future; what the
  author of a pending correction saw is an older revision of the session, or the
  session as it is.
* `RosterInv`: the rows a request is about to write are of people it has locked, no
  shift is identical to one of them, and no two requests have locked one person or
  one shift (`LocksApart`). The check made before the write therefore still holds at
  the write. A restore reads whose shift it is before it locks, and looks again.
* `QualityInv`: on the shop floor, the machine runs exactly while an operation does,
  and a job nobody started has none under way (`FloorInv`). An inspection run is of an
  approved plan, and plans, once approved, stay (`InspectionInv`). A release is
  decided only while there is none, what it conceded was approved, and the draft of
  a certificate has the run that was released (`PaperInv`).
* `FormsInv`: a record has one revision in its history for each it counts, the last
  is what it shows, and the signatures of an approved one are of that revision.
* `DrillsInv`: what a clerk is about to write is what that kind of request may write,
  so that a write from before the decision changes contents (section 12) and never
  the decision.
* `SubmissionsInv`: who may act on the key is the holder of its claim, or one whose
  claim has expired; those who act are a lifetime apart.
* `MigrationsInv`: one replica has the lock; what it has found applied stays so, and
  the statements it counts as done were executed.

Their assumptions say that ids are positive, sets of rows finite, a job has
operations, the job inspected is one of the shop floor's, and a record can have a
revision. Rows that a generation adds are matched one to one with free ids
(`Numbering`).

`SumProofs` has the lemmas these need about sums over finite sets, which the models
write with the folds of the community modules: adding or changing one element
changes the sum by the difference, a subset has no greater sum, a finite set of
numbers has a largest element, and any set of naturals that is not empty a least
one. The sum's recursive definition is reached
through a smallest counterexample, and not by an induction theorem over an
operator.

Every invariant and every action property of the passing runs is thereby a
theorem, and so is the refinement of `SingletonJob`. Model-checked only:

* `OpenWorkIsSettled`, `SendingIsResolved`, `OverdueIsNoticed`, `PendingIsSettled`:
  liveness under fairness, and enabledness, are out of the proof system's reach.
* `MailIsCurrent` when a cycle does stall, where it fails (section 12): the theorem
  assumes `MaxStalls = 0`.

## 12. Divergences

With a run that shows it (`PROJECT.json`, "findings"): `ApprovalWorkflow_v_stuck`. An
`ALL` step counts the rows of replaced reviewers (`workflowService.js:479`), so that after
a reassignment nobody can complete it, and it is not reported as blocked.

Statements of the code, its documents or its tests that its behaviour refutes.
Each is a definition of the module, so that a run of it shows the counterexample;
no run of the project includes it:

* `BackgroundJobs.NoStrandedLetter`: "failed manual dispatch must not strand a dead
  letter in RETRYING" (`scripts/wave-b-pr2-worker-safety-test.js`). The claim commits
  before the manual run exists, and only the same process reopens it
  (`backgroundJobService.js:321`): a crash, or a failed call in the catch block,
  leaves it `RETRYING`.
* `Invoices.IssuedContentIsRetained`: "sent and paid invoices retain their issued
  content" (`invoiceController.js:622`). Voiding a payment of an invoice that was sent
  before it was paid makes it `approved` (`:654`), hence editable.
* `WeeklyDelivery.SentIsTheVersion`: "The provider accepted this message"
  (`weeklyTimesheetReconciliation.js:77`). `reserveDelivery` means to spare rows of the
  retired scheduler, but its query (`weeklyTimesheetScheduler.js:174`) matches messages of
  earlier versions as well: a correction that was never queued is marked `SENT` on
  the evidence of the version before it.
* `Procurement.ReceivedIsNotCancelled`: "Received or completed purchase orders cannot
  be cancelled" (`procurementService.js:607`). A received order may be returned for
  changes and submitted again, and is then `SUBMITTING` or pending, which can be.
* `Procurement.CancelledIsFinal`: a submission that was past its claim links its
  instance unconditionally and revives the record.
* `ProcurementImport.FailedIsNotStored`: "could not be stored durably ... it was not
  accepted" (`procurementImportService.js:79`). A second upload of the key that fails
  overwrites the status of a file the first has stored.
* `Expenses.PaidHasPayments`: "Status is calculated from payment history"
  (`public/expense-payments.js:113`). `saveExpense` stores the status the hidden field
  has when the bill has no payments.
* `QualityRelease.ClosedStaysClosed`: the transition table has no way out of `CLOSED`, but
  the transition reads without a lock, and a stale one reopens a nonconformance.
* `RecoveryDrills.FinalIsImmutable`: "Finalized recovery drill records are immutable"
  (`recoveryDrillEvidenceController.js:206`), "Closed remediation records are immutable"
  (`recoveryRemediationController.js:111`). Updates read before the decision are written
  after it (`:223`, `:142`).

Seen while modelling (behaviours of the models unless said otherwise):

* A verdict on an e-mail is recorded by row id alone (`emailQueue.js:289`). A cycle whose
  claim was swept after 15 minutes and whose invoice was edited meanwhile (an edit
  looks for `SENDING` rows only) puts mail of the old content back to `RETRY`:
  `MailIsCurrent` with two cycles, two attempts and `MaxStalls = 1` shows it. The same
  late verdict rewrites a weekly delivery (`weeklyTimesheetScheduler.js:421`): one
  already `SENT` can read `RETRY` again, though its row does not become claimable.
* A weekly version retained with one recipient and reserved again after the
  employee's address changed can never be queued: `retainDeliveryVersion` refuses
  it as a content conflict every time.
* Two refreshes of one draft may finish in either order, so that the older total
  stays until the next edit or read (`attendanceController.js:584`).
* A `REJECTED` timesheet cannot be submitted again.
* An orphaned run that was on its last attempt is closed as failed by
  `createRun` without a dead letter (`backgroundJobStore.js:99`). `runJob` reads the
  newest run and its back-off before it has the lease (`backgroundJobService.js:166`).
  `completeRun` deletes a scheduled run that had nothing to do
  (`backgroundJobStore.js:135`).
* The queue row and the invoice are updated by separate statements
  (`emailQueue.js:258`): an invoice edited and approved again between the two is marked
  sent with content the customer was not sent.
* `processWorkflowSla` selects the earliest due reviews with those already
  escalated among them (`workflowEscalationService.js:140`): as many of these as the
  limit starve all later ones. `Limit = 1` in `ApprovalWorkflow_sla`
  shows it. SLA events survive the renewal of an assignment (`:51`), and an
  escalation to somebody whose row for the step is `CANCELLED` reaches nobody.
* Procurement: a submission that dies between its claim and its link, whose claim
  goes unanswered, or whose undo fails, which is swallowed
  (`procurementService.js:324`, `:593`), leaves the record in `SUBMITTING`, which no
  operation accepts. One whose link fails, or whose workflow starts and goes
  unanswered, puts the old status back while the approval request stays open: the
  record cannot be submitted again before that request is decided, and its decision
  counts for nothing. What may be returned of a receipt is reduced by returns of the
  order's other receipts.
* Import: a file that is `STORED` with its attempts used up is neither extracted nor
  swept; a late first upload sets a file of a `COMMITTED` batch back to `STORED`; the
  preview of a batch whose file waits for another OCR cancels that retry.
* RFQs and trash: the dashboard offers "Approve" on rejected RFQs, which the server
  refuses (`rfqController.js:133`); a rejected RFQ can be edited but not approved
  again; an approval is not tied to a revision; an RFQ whose invoice is archived
  stays `quoted`. Concurrent restores or creations can give two live records one
  e-mail although `findRestoreConflict` (`trashService.js:309`) looks for it.
* Accounts: `updateUser` and `updateUserAccess` activate an account without the guard
  for compromised ones (`userSecurityService.js:114`); a plain edit of the profile
  turns `SUSPENDED`, `LOCKED` or `TERMINATED` into `DISABLED`, and
  `PASSWORD_RESET_REQUIRED` into `ACTIVE`; concurrent wrong passwords lose a count; a
  request for a link that is past its check issues one after the closing; "The last
  active admin account cannot be deleted" (`userController.js:804`) is a count without a
  lock (not modelled).
* Attendance: a restored session may overlap another and then blocks its period's
  approval; a phone whose lost request can no longer match stays on "Check pending
  attendance" until its tab closes; a correction of an archived session can be
  neither approved nor rejected.
* Quality: whoever measured may approve once somebody measured again; a failed
  inspection blocks its job for ever; a concession that lapsed between release and
  certificate is not listed; a release does not look at the operations.
* Controlled forms: the last editor may approve (`prepared_by` never changes); a
  definition is overwritten in place, so that an approved record may no longer be
  closable; a record's holds are looked at by no transition.
* Recovery drills: the loser of two finalizations still logs `DRILL_FINALIZED`; an item
  reopened after its closing can never be closed again and blocks new items.
* Roster: a stale form sets or unsets `published`; a roster changed back to an earlier
  content queues no new mail (the mail is not modelled).
* Public forms: a failed finalization or a lost process blocks the key until it
  expires, and then the form is acted on again. Outside the model: a handler's
  `COMMIT` that succeeds but goes unanswered is answered 500, and the key of work that
  was done is freed at once. Otherwise handlers commit and then answer 2xx.
* Careers: concurrent submissions can create two applications; a retry resets a
  decided one to `NEW`, and logs `RESUBMITTED` though its `UPDATE` matched nothing;
  concurrent retries may mix one's details with the other's CV.
* Not modelled, single statements behind a check without a lock: a stale form
  reopens a finished task (`taskController.js`), and "Closed incidents are immutable"
  is checked by a read before an unconditional update.

## 13. What is not modelled

`PROJECT.json` lists every component with its status and the reason. Contents of
messages, PDF rendering, HTML, formatting, cryptographic digests and validation
of single requests are outside the models; where a model depends on one (a hash
that changes when the attendance changes) it is a value that differs. The
approval model has no users that are deactivated during a review, no
notifications and no audit trail. The invoice model leaves out requests repeated
under one idempotency key, which change nothing. Rate limits only refuse requests.

The map covers the coordination logic of the services and controllers. Most of the
repository's lines are something else: the pages and dialogs under `public/`,
scripts and tests, table definitions, report queries, document templates and
validation of fields. Modelling them would state layout and record keeping, and
no property that interleavings could break.
