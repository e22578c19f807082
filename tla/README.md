# Formal model of the training-centre backend

This directory holds TLA+ specifications of the parts of the QUANLYCMS backend
where money, verdicts, sessions and events depend on the order in which concurrent steps
happen, the TLC instances that check them, and TLAPS proofs about them. Paths
such as `routes/studentRoutes.js` are relative to the repository root.

The backend is an Express server (one or more processes) on MongoDB through
mongoose, without transactions in the routes modelled here (the one exception is
the CQRS creation of students, which enqueues its event in a transaction). A
request handler is a sequence of awaited database operations; between two of
them any other handler, of the same or another process, may run, and the process
may die. **One awaited operation is one action** everywhere in these modules.

Two rules of mongoose decide most of what can go wrong, and the modules model
them rather than assume isolation:

- `findOneAndUpdate` / `updateOne` are atomic and conditional on what their
  filter says, but neither check nor increment the version `__v`;
- `save()` of a loaded document writes the paths that changed in the copy; a
  whole-array write (`markModified`) is conditional on `__v` and increments it
  (a mismatch is a `VersionError` for the whole save), `$push` increments it
  unconditionally, and plain scalar writes do neither. No schema turns
  `optimisticConcurrency` on.

So a versioned save notices another versioned save, and does *not* notice a claim.

## 1. Inventory

| Component | State | Operations | Hard behaviour | Correct when |
|---|---|---|---|---|
| **Transactional outbox** (`shared/outbox`, `shared/events`, `worker.js`) | `OutboxEvent`: status, retryCount, processingAt | enqueue in the command's transaction; poll, claim with lease, publish, save outcome | several processes, crash between claim and save, lease shorter than a publish, failing and lost saves, handlers that reject | one worker per claim, no early give-up, closed stays closed, all events closed in the end |
| **Tuition** (`routes/studentRoutes.js`, `services/studentFinanceService.js`, `services/enrollmentService.js`) | root fields `paid`, `paidAmount`, `price` and the `enrollments` array of a Student | pay, pay an enrollment, register with or without payment, cancel, refund, heal | the same facts twice in one document, claims against whole-array saves, compensation instead of transactions, retries with idempotency keys | what is open was paid once, at its price; root, array and ledger agree after every rollback |
| **Ledger** (`services/ledgerService.js`, `routes/financeRoutes.js`) | append-only entries under unique keys, credit notes with a drawn number | postEntry, settlePayment, postRefund, voidLedgerEntry, healOrphanEnrollmentPayments | key reuse, created:false, failing credit note, count-then-insert numbers | keys identify a payment; refunds and credit notes in step |
| **SePay gateway** (`routes/webhookRoutes.js`) | `PaymentSession`, `SepayWebhookEvent` | create and poll a session, deliver a transfer | at-least-once delivery, cashier and gateway at once, expiry checks, session and student-code paths, crash before the mark | a matched transfer is booked, once, for its amount |
| **Exam attempts of students** (`services/examAttempt*.js`, `examProgressService.js`, `routes/studentRoutes.js:1699-2136`) | `examProgress` array of a Student, signed attempt tokens, room flags | start, resume, expire, submit, forfeit, abandon, soft release, practical work, lock and unlock, administrators' writes | two tabs, late beacons, repeated answers, whole-array writes from old copies | a pass is earned; an attempt is graded once, not replaced; verdicts stand |
| **Teacher payroll and vouchers** (`routes/teacherRoutes.js:1700-2101`, `services/studentFinanceService.js:102-307`, `routes/transactionRoutes.js`, `services/workflowService.js`) | `Schedule.is_paid_to_teacher`, `teacher_payment_status` of the student, `Transaction`, salary entries `salary:tx:<id>`, `payout_request` workflows | pay flexibly, pay all, pay for one student, pay in advance; create, confirm, cancel, delete a voucher; open, approve, reject a payout | claim of sessions against an amount fixed earlier, two or three compensating writes that can fail, release of what another payment claimed, one voucher in several hands | a session is claimed by one payment and stays paid only for one that stands; what is answered as paid is booked; voucher and ledger agree |
| **Scheduling and attendance** (`routes/scheduleRoutes.js`, `services/schedulingValidation.js`, `services/attendanceService.js`, `services/enrollmentService.js`) | `Schedule` status, slot and confirmation; counters and log of grades of the enrollment | create, move, cancel, delete, set by hand; ask, accept, dispute, reject, approve, take directly; reset of today and of the history | check, then insert; claim, recount, two versioned saves; a reset that ignores the version; answers that cross | what was answered as taken is counted; a rejected session is not taken; the course is not overbooked by requests one after the other |
| Student records (`studentRoutes.js`, `userCascadeCleanup.js`) | Student | create (with payment), edit, price, assign, delete | creation books a payment a session already booked | one payment per registration |
| Authentication (`authRoutes.js`, `tokenBlacklist.js`) | refreshToken, tokenVersion, blacklist | login, refresh, logout | two tabs refresh at once: rotation against reuse detection | one live refresh token; reuse ends the session |
| Teacher exams (`teacherRoutes.js:130-380`) | one flat attempt on Teacher | as for students | as for students | as for students |
| Video course purchases (`videoCoursePurchaseService.js`) | VideoCoursePurchase, PaymentSession | checkout, fulfil | find-then-create of the pending purchase | one payable session per purchase |
| Business codes (`businessCodeService.js`) | counters | mint | none: one atomic `$inc`; fails above 999999 | unique codes |
| Job queue (`services/queue`) | BullMQ | enqueue, inline fallback | an add that times out after 1.5 s but still arrives | a duplicate is harmless |
| Workflow engine (`workflowService.js`) | WorkflowInstance | start, advance | effect before close | payouts are part of the payroll model; teacher approval and exam unlock are single writes |
| Messaging, notifications, AI support, certificate practice, training and quizzes, proctoring, reports, settings and permissions, backup and monitoring, files and pages, policy shadow, module scaffolding, client, scripts | their own documents | single-document reads and writes | none across steps | not modelled, reasons in PROJECT.json |

How they meet: the tuition handlers and the gateway write the *same* Student
document and post to the same ledger under keys chosen so that they collide;
`heal-orphans` compares both; the exam handlers, the administrators' `PUT
/students/:id` and lock/unlock share the Student document too, and its version.
Payroll posts to the same ledger under keys of its own, so that a tuition and a
salary never meet; it reads the sessions that attendance completes, and the two
models share only that act: in `Payroll` a session is completed by `Complete`,
in `Attendance` by a claim with everything that leads to it.
The outbox is fed by command handlers and calls in-memory event handlers.

PROJECT.json lists every hazard found at its line, with the properties that
watch it or the reason why none does yet. Smaller ones are listed at the end of
section 4.

## 2. Modules

| Module | Models | State ↔ code |
|---|---|---|
| `OutboxContract` | what producers may rely on | `phase`, `hand`, `tries`: no leases, no documents |
| `Outbox` | `OutboxWorker.js`, `OutboxEvent.js`, the event bus | `status`, `retryCount` as in the document; `leaseOver[e]` is "processingAt older than leaseMs"; `pc`, `cur`, `copy` are a worker's position and claimed copy; `published`, `handled`, `failures`, `dropped` are history |
| `Ledger` | `ledgerService.js` as operators | a function from idempotency keys to entries; the unique index is what makes it a function |
| `Tuition` (extends `Ledger`) | the seven requests on one student, an administrator's void of an entry | `doc` is the Student with `v` = `__v`; `pc`, `arg`, `snap` are a handler's position, locals and document copy; `notes` is the number of credit notes |
| `SePay` (extends `Tuition`) | sessions, expiry checks, deliveries and voids of their payments beside Tuition's requests | `sess`, `polls`, `event`; `received` are the ledger entries of sessions, which carry no enrollment; `wpc`, `warg`, `wsnap` as above |
| `Exam` | attempts and administrators on one progress array | `entry[s]` is an element of examProgress; `age` is time since the start; `tokens` the signed attempt tokens; `behind` are the requests whose `__v` another save has passed; `copy` is the array in an administrator's tab |
| `Payroll` (extends `Ledger`) | sessions, vouchers, salary entries and payouts of one teacher and one student | sessions are numbers in the order they were held; `paid` are those with is_paid_to_teacher; `tx[v]`, `ledger[v]`, `payout[v]` are the voucher, its entry `salary:tx:v`, its workflow; `pc[r]` is a request's next write or its outcome, `arg[r]` what it was sent, read (`pend`) and did (`claimed`, `undone`, `voucher`); `torn` is history |
| `Attendance` | the sessions of one enrollment and its progress | `sched[s]` is a Schedule (status, confirmation, slot); `stu` the counters of the enrollment and the days with a grade; `arg[r].copy` the copy of the student a request will save; `behind` as in `Exam`; `credit`, `ever`, `taken`, `reopened`, `overlap`, `edited` are history |
| `MCOutbox`, `MCTuition`, `MCSePay`, `MCExam`, `MCPayroll`, `MCAttendance` | instances for TLC | model values, prices, symmetry |
| `OutboxProofs`, `ExamProofs`, `PayrollProofs`, `AttendanceProofs` | theorems about one module each | see section 5 |
| `LedgerProofs` | lemmas about `Ledger`: what posting keeps and adds, and what its totals are | used by the next three |
| `TuitionProofs`, `TuitionBookingProofs` | theorems about `Tuition`: types and answered payments; what is booked | the second extends the first |
| `SePayProofs` | theorems about `SePay` | extends `TuitionProofs`, whose lemmas cover the cashier's steps |

Operators named `Bug...` stand for plausible mistakes. No specification uses
them; each documents, for one property, a change of the code the property
notices.

How a handler becomes actions, with `PUT /students/:id/pay` as the example:
`PayRead` (load, early returns), `PayClaim` (findOneAndUpdate `{paid:false}`),
`PaySave` (whole save of the claimed copy, VersionError included), `PaySettle`
(settlePayment, its collision check and its failures), `PayUndo` (rollback).
`Settle`, `PostRefund` to `VoidRefund` and `Undo` are shared by the handlers that
call the same service code. Reads whose result the next claim decides again are
merged with it, which is said at the action. In `SePay` a delivery is
`Deliver, SeekSession, ClaimSession, SettleSession, EnrollRead, EnrollSave, Mark`
on the session path and `SeekStudent, ClaimStudent` (or `FreshRead, FreshSave`)
`, SettleStudent, Mark` on the student-code path, with `ReleaseSession`,
`TakeBack`, `DropRead`/`DropSave` as rollbacks. `POST /finance/ledger/:id/void`,
by which an administrator voids any posted entry, is one action of each module
that has a ledger: `LedgerVoid` in `Tuition`, `VoidReceived` for the payments of
sessions in `SePay`, `LedgerVoid` for salary entries in `Payroll`. In `Exam` the claims of
`examAttemptStore.js` are `IsActive` and `IsOpen` with one writing action per
endpoint, and the whole writes are `PracticalSave`, `AdminGrade`, `AdminReset`.
In `Payroll` the three ways to pay share their writes: `PayStart` (early
returns, replay by key), `FlexFind`, `AllFind` or `StudentFind` and
`StudentLook` (reads), `Claim` (updateMany), `Mark` (the student's standing),
`Create` (the voucher; a duplicate key), `Post` (postSalary), and the
compensations `CancelTx` and `Release`, which run in one order for a payment of
one student and in the other for the rest, as in the code. A voucher is confirmed by
`Confirm, ConfirmPost, ConfirmUndo`, cancelled by `Cancel, CancelSet,
CancelVoid`, deleted by `Delete, DeleteTx`, paid out by `PayoutOpen,
PayoutAdvance, PayoutEffect, PayoutClose`. In `Attendance` a session is taken by
`Take` (checks), `Claim`, `Sync` and `SyncSave` (recount and first save),
`LogSave` (grade, second save), or `SaveFails`; it is planned by `Create, Insert`, changed by `Put, PutSave`. The
progress is set by hand by `Edit, EditSave`, in which staff save the student whole
and a teacher the number alone.

## 3. Runs

| Run | Instance | Shows |
|---|---|---|
| `outbox_prompt` | 2 workers, 2 events, 3 tries, 4 faults, publishes within the lease | claims exclude each other; no dispatch unaccounted for; closed is final; the outbox implements `OutboxContract` |
| `outbox_slow` | 2 workers, 2 events, 3 tries, 3 faults, publishes may outlast the lease, saves may be applied and report an error, fair | even stale saves never give up early or close what was not published; every event is closed in the end |
| `tuition_payments` | 4 payments or registrations at once, 3 enrollments | a tuition is booked once and at its price, what is open was collected |
| `tuition_serial` | 4 requests one after the other, 2 failing writes or crashes, heal | every rollback leaves root, enrollments and ledger in agreement; a heal run leaves no orphan |
| `tuition_all` | 3 requests, 2 at a time, all seven requests, all five faults, 2 faults | types; refunds match credit notes; a cancellation returns what was collected |
| `tuition_repay` (violation) | pay, refund in full, pay | the second payment meets the key of the first and books nothing |
| `sepay_gateway` | 2 deliveries, 2 sessions, 2 transfers, 1 cashier, 2 faults among ledger failure, lost reply, crash, replay of a delivery, entries voided by hand | a matched transfer is booked, and no two rest on one session or on one payment of the student; a paid session is booked; an answered payment of the cashier is booked; only a void by hand takes any of these out; without faults cashier and gateway never book the same tuition both |
| `exam_attempts` | 1 subject, 2 requests in progress, 2 attempts, 1 administrator's write, all eleven operations | a pass is earned; an attempt is neither replaced nor graded twice; verdicts stand |
| `payroll_payments` | 3 payments, 2 at a time, in three ways, 2 sessions, 2 vouchers, 1 fault of three kinds | no session is claimed twice unless a failed payment released it; none stays paid for a payment that failed |
| `payroll_vouchers` | 3 requests, 2 at a time, all operations but the payment PARTIAL (which `payroll_payments` has), 1 session, 1 voucher, 1 fault | when a payment or confirmation is answered as done its entry is posted with its amount, or an older one is void; a voucher at rest is confirmed exactly when its entry is posted, but for the ways named in section 4 |
| `payroll_twice` (violation) | 2 flexible payments without a key at once | one claims the sessions, the other none, and both pay |
| `attendance` | 2 sessions, 2 days with 2 times each, 2 requests, a course of 2 with or without a credited session, every operation, crash, edits of the progress, other saves | taken sessions are counted, rejected ones stay so; one request at a time neither overbooks the course or the day nor counts ahead |

Further instances are kept for the reader and are not among the runs. The last one
passes; each of the others has a counterexample that says something true of the code:

| Instance | Property | What TLC shows |
|---|---|---|
| `OutboxSwallow.cfg`, `MCOutbox` | `AtLeastOnce` | a rejecting handler is swallowed by `Promise.allSettled`: closed without having been handled |
| `PayrollReconfirm.cfg`, `MCPayroll` | `ConfirmIsBooked` | confirm, cancel, confirm again, one after the other: `postEntry` returns the void entry, the voucher is confirmed and answered so, and no salary is in the ledger (`docs/FINANCE_LEDGER_ERP_REDESIGN_2026-07-29.md:340` expects one per payment) |
| `TuitionVoidedCancel.cfg`, `MCTuition` | `CancelIsBooked` | cancel twice, first credit note fails: the retry takes the voided refund for done |
| `SePayHeal.cfg`, `MCSePay` | `NoDoublePayment` | the entry of a session names no enrollment, so heal books the tuition again |
| `ExamRetake.cfg`, `MCExam` | `FailIsFinal` | practical work beside a give-up reopens a failed subject without an administrator |
| `AttendanceRecount.cfg`, `MCAttendance` | `RecountIsIdempotent` | two sessions are claimed before either is counted; the second recount moves nothing, adds one again, and the progress is ahead |
| `SePayRefund.cfg`, `MCSePay` | `StudentMatchedOnce` | a full refund between the look-up of a delivery and its claim: the second transfer is matched on the payment of the first, and nothing is booked for it |
| `SePayStudents.cfg`, `MCSePay` | `StudentMatchedOnce` | holds: 3 deliveries of 3 transfers, a session without a student, a cashier, a registration or a heal run, 2 faults of all kinds; an instance of the hypotheses of `StudentsMatchedOnce` |

Bounds and why they are enough. Two workers and two events are the least with
contention and with order; three tries is the code's constant, and as many
faults or more are allowed, so that a document can run out of tries in both runs. Tuition's races are
between two handlers on one enrollment or on two; the third and fourth request
prepare a state for them (register, then pay twice) and two enrollments are the
least with a primary and another. Prices 2 and 1 differ so that amounts
can be confused. The gateway needs two deliveries for a replay or a race, one
session that names the student and one that does not, and transfers with the
session's ref, the student's code, or both; a third delivery (`SePayStudents.cfg`)
can find what two, or one and its rollback, have left. For attempts, two
requests in progress and two attempts give every pair of claims and every
"newer attempt" case; one administrator's write is enough for a copy to be
outdated, and a second subject would only add entries that a whole write
restores independently (claims of different subjects touch different entries;
the theorem below is for any number of subjects). Payments race in pairs, and the
third one meets what two have left behind; two sessions let one payment take
part of what another has read, and vouchers do not touch each other, so one is
enough where they are in question. One fault per run is one failed or
lost write, or a crash, at any point; the theorems below allow any number. For
attendance two sessions, two days and two times of a day are the least for a limit
per day, a limit per course and the unique index to be different things (with one time
the index alone would keep the day); a change by hand, of a session or of the
progress, is allowed once (`MaxEdits`), and the number sent is 1 (`Numbers`), which
is more than was done, less, or the same. New sessions are scheduled, completed or
cancelled in the run; the theorems cover any status. `MaxEnrollments`, `MaxFaults`, `MaxInFlight`, `MaxAttempts`,
`MaxWrites`, `MaxEvents`, `MaxSessions`, `MaxVouchers`, `MaxCredit`, `MaxEdits`
are the only bounds and appear in guards. Request slots of Tuition, SePay and Payroll serve one
request each and those of Exam and Attendance are reused. Deadlock checking is off where all slots can
be used up or nothing is left to do; it is on for the outbox, whose workers
always poll again.

Fairness is used in one place, `EventuallyClosed`: workers poll with
`setInterval` and are restarted by their supervisor (`autorestart` in
`ecosystem.config.cjs`, `restart: unless-stopped` in `docker-compose.prod.yml`), so `Start` and `Proceed` are weakly fair, and clocks advance
(`LeaseElapses`). Faults are not fair and are bounded, so a database that is
down for ever is not assumed away silently: it is the bound `MaxFaults`.
Nothing else here has a liveness promise: HTTP handlers end or die.

## 4. What the properties excuse, and why

- Tuition: `RootAgrees`, `AmountAgrees`, `HealLeavesNoOrphan` are checked one
  request at a time. With two they do not hold: `PUT /pay` and an enrollment
  payment of another enrollment both add to `paidAmount` from different copies,
  and a heal run may judge an enrollment whose payment is under way.
  `PaidIsBooked`, `RefundWasPaid`, `NotesMatchRefunds` are about executions in
  which no write failed; a crash leaves orphans, which heal is for.
  Beyond the instances of the runs there are further limits, which the
  hypotheses of the theorems in section 5 name:
  - Cancellations *and* refunds together can leave an open enrollment without a
    payment (`PaidIsBooked`; seven requests, at most two at a time). A
    cancellation of the only enrollment sets the root's price to zero; `PUT /pay`
    then collects nothing, a refund under way restores its amount to the root,
    the next refund turns the cancelled enrollment into a refunded one, and a
    last `PUT /pay` reopens it for nothing.
  - A ledger write that fails is undone from a copy. The undo of `PUT /pay`
    meets a VersionError when another request has saved meanwhile; what stays in
    `paidAmount` is the next amount collected, so `SettledAtPrice` and
    `PaidIsCollected` do not hold with failing ledger writes and several
    requests at once. `BookedOnce` does.
  - A ledger write that is applied and reports an error (`lostReply`) is undone in
    the document and stays in the ledger: then a tuition can be booked under two
    keys (`BookedOnce`).
  - Registering a paid enrollment of a course without a price leaves the root
    unpaid beside an open enrollment (`studentRoutes.js:2754` asks for an amount
    above zero), so `RootAgrees` needs prices where registrations are paid.
- Ledger: an administrator may void *any* posted entry, a payment or a refund
  (`POST /finance/ledger/:id/void`, `routes/financeRoutes.js:152-170`). Enrollment,
  root, credit note and session are left as they are, so that what is open need no longer
  be booked, and a heal run books again a payment that was voided on purpose.
  `SettledIsBooked` says what remains for an answered payment: it is booked when it is answered, and
  no other step takes it out. `MatchedIsBooked` and `PaidSessionIsBooked` accept
  a void entry where voids by hand are in play (and only there), and with them are checked those two,
  `StudentMatchedOnce`, `BookedOnce` and `NoDoublePayment` (`sepay_gateway`). The other properties of Tuition are
  about executions without voids by hand.
- SePay: `NoDoublePayment` holds while nothing fails or is repeated. A repeated
  delivery that finds the session no longer pending goes on to the student code
  and books the transfer under another key. The heal run takes the entry of a
  session for a missing payment and is left out (`SePayHeal.cfg` shows why)
  (compare `docs/FINANCE_FULL_AUDIT_2026-07-29.md:517` and
  `docs/SECURITY_CONTRACT_FREEZE.md:201`).
- SePay: `StudentMatchedOnce` rests on the claim `{ paid: false }` of the root,
  which is a lock as long as it is given back only by the rollback of its holder.
  - A full refund, or a cancellation, sets the root to unpaid as well. A delivery that looked
    the student up before claims it then, meets the posted payment under its key,
    and counts that as its own; no fault is needed (`SePayRefund.cfg`, where
    `docs/FINANCE_LEDGER_ERP_REDESIGN_2026-07-29.md:338` expects one payment for
    each transfer that succeeds).
  - `PUT /enrollments/:id/pay` claims an enrollment and leaves the root unpaid
    until its save; with two failing ledger writes of the gateway beside it, four deliveries
    match two transfers on one payment. The undo of a paid registration, after one
    failing write, takes the root and the array from the copy of its handler, which was read
    before the claim.
  - A session that names the student saves a whole copy. When that was read while
    another delivery held the claim, and that delivery takes it back, a root is left
    that is unpaid with no enrollment due, and further deliveries open new ones.
- Exam: `AttemptKept`, `GradedOnce`, `VerdictStands` excuse what follows a whole
  write from an outdated copy (`stale`), and `VerdictStands` a start delayed past
  the grading of another attempt (`late`): the claim of a new attempt asks only
  that the entry is not active, which a graded attempt waiting for its practical
  work is; failing the new attempt then fails a passed subject.
- Payroll: a payment that fails sets to unpaid *every* session it had read
  (`teacherRoutes.js:1828`, `studentFinanceService.js:262`), those another payment
  had claimed meanwhile included; `ClaimedOnce` excuses sessions released so.
  `PaidHasPayment` counts a payment cut off by a crash, or whose release failed
  (`kept`), as one that stands: its sessions stay paid and nothing repairs them.
  `VoucherAgrees` excuses vouchers that are `torn`: two requests on one voucher at
  once; a payout approved (confirmed without a salary entry) or rejected after a
  confirmation; a write made but answered as an error (of the voucher confirmed or
  cancelled, or of the entry); a failing compensation or a crash in between; an entry
  voided by hand, which leaves its voucher confirmed; and a voucher confirmed once
  more. Of the last there are two cases, both with one request at a time: after a cancellation the
  entry is void, `postEntry` returns it unlooked at (`ledgerService.js:62-64`) and the
  confirmation is answered as done with no salary in the ledger
  (`PayrollReconfirm.cfg`); and when a confirmed voucher is confirmed again and that
  fails, it is set back to pending (`transactionRoutes.js:263-278`) while its entry
  stays posted. `PaymentIsBooked` excuses the first of these, and nothing else.
- Attendance: `LimitsHold` excuses requests at once (two creations can pass the
  same check) and sessions set to scheduled by hand, and its half about the course
  a progress set by hand; `NeverAhead` requests at once; `RejectedStays` sessions
  whose status was set by hand. `TakenIsCounted` begins anew with a reset of today and
  with an edit of the progress by hand: `PUT /students/:id` (`studentRoutes.js:1246-1270`
  for teachers, `1400-1490` for staff) and `PUT .../settings` (`2888-2920`) write the number
  the client sends, which may be an hour old, so a session counted meanwhile can be
  undone. A teacher's write does not move the version, so that an attendance that is
  under way may in turn overwrite it; the count then begins at zero.

Seen while modelling and not turned into runs of their own: a lease that runs
out during a publish leads to a second dispatch, and events of one aggregate are
not dispatched in order; an enrollment payment that
reopens a cancelled enrollment; partial refunds that together with a cancellation
exceed what was paid; a cashier's rollback (`PayUndo`) of a root the gateway
has paid meanwhile; an expiry check that overwrites `paid` with `expired`; a
re-enrollment after a session payment lost to a swallowed VersionError, or
replacing `paidAmount`; a QR registration booked for the session and again by
`POST /students` (`studentRoutes.js:1068`); an exam start whose answer is lost,
after which the retry fails the student as having left; a page-close beacon that
names no attempt and closes a newer one; locking the exam room without touching
open attempts; unlocking one enrollment opens the room for all subjects; a pass
asks for a rounded 50 % of the questions where the practical work asks for half
(`examAttemptService.js:418`); a payment whose voucher meets a used key is
answered as a repeat and keeps its claim; a voucher keeps its idempotency key
after its salary entry failed, so that the retry with the key is answered as a
repeat of a payment that never was; a cancelled voucher leaves its sessions paid;
a change by hand cancels a completed session, which the progress keeps; the
reset of today counts days with a grade instead of sessions and leaves a finished
course closed; a mail whose `add` takes more than 1.5 s is sent inline and by the
queue (`services/queue/jobQueue.js:140`).

## 5. Proofs

| Theorem | Says | Argument |
|---|---|---|
| `OutboxProofs!TypeCorrect` | types, and a worker holds a document exactly while working | inductive as it stands |
| `OutboxProofs!GivenUpOnlyAfterRetries` | FAILED only after MaxRetries real failures | strengthened by `RetriesAreBacked`: each retry count, of a document *or of a claimed copy*, is backed by failures; needed because a stale copy is written back later |
| `OutboxProofs!ClosedWasPublished` | PROCESSED only after a publish | `PublishedFirst` adds that the bus was called for what a worker is about to close, because a late worker closes what others have touched since |
| `OutboxProofs!PromptWorkersExclude`, `PromptDispatchOnce`, `ClosedIsFinal`, `OutboxImplementsContract` | exclusion, accounting of dispatches, finality, refinement | under `~SlowWorkers` (and `~LostReply` for the last two): a document in hand is PROCESSING with a running lease, so nobody can claim it |
| `TuitionProofs!TypeCorrect` | types; `paidAmount` never negative | the copies handlers keep are typed documents too; each copy operator has a lemma |
| `TuitionProofs!SettledStaysBooked` | a payment is posted with its amount when it is answered with 200, and only a void of that entry by hand takes it out (an action property) | no request voids anything but the refund it posted, a taken key keeps its entry, and `settlePayment` answers only after it has compared what stands under the key; the one other step that changes an entry is `LedgerVoid` of that key |
| `TuitionBookingProofs!ShapeInvariance` | documents *and all copies* are well-shaped, and a request is at a step of its own operation | the base of what follows; `Shaped(d)` is an operator of a document, so that one lemma serves the document and the copies |
| `TuitionBookingProofs!OpenIsBooked`, `CancelledWasBooked` | what is open, or was given back, has a payment | `BackedInv`: while nothing failed, what the document *or any copy* has open is `Backed`, that is, covered by an entry or promised by a request; so is what `PUT /pay` would open for nothing, and what a request is about to take or give back. Backed stays backed: a refund leaves the payment where it is |
| `TuitionBookingProofs!NotesMatch` | as many credit notes as posted refunds | `NotesInv`: the notes are as many as the posted refunds whose request is not between entry and note (`Noted`); those requests hold different keys because each created its entry |
| `TuitionBookingProofs!CollectedOnce` | one payment of an enrollment | `PUT /pay` and the enrollment payment share one key, the paid registration has another. `AddedInv`: what was registered as paid is paid in the document and in every copy that knows it, and is not the first enrollment; so nobody else collects for it |
| `TuitionBookingProofs!CollectedAtPrice` | a confirmed payment is at the price of its enrollment | `PUT /pay` collects what the *root* shows, so an unpaid root must have no `paidAmount`, which holds as long as nothing is taken back. `PricedInv` says so, and what each step knows of the amount it collects; entries are at the price of their enrollment, so none collides with another amount |
| `TuitionBookingProofs!OpenIsCollected` | the ledger took in the prices of all open enrollments | the two above and `PlainInv` (no refund is posted; a fault is a crash, and a crash is not `Settled`) give every open enrollment a posted payment of its price; distinct enrollments have distinct keys, so `TotalInto` bounds one sum by the other |
| `TuitionBookingProofs!RootsAgree`, `AmountsAgree` | root, enrollments and ledger agree between requests | `SerialInv`: between requests document and ledger are `Balanced`; while one is at work, `Stage` says at each step what the document shows and the ledger lacks (`OwesFor`), and that the copy is current. The entry pays the debt (`DebtPaid`), the undo takes it back (`DebtTaken`), heal finds nothing to book |
| `TuitionBookingProofs!HealLeavesNone` | a heal run leaves no orphan (an action property) | `HealInv`: a heal run that is alone has all orphans on its list. It read what is open, drops what is covered, and what it takes off the list it has booked, since without voids by hand no payment is ever voided; all requests and all faults but its own may come before it |
| `SePayProofs!SePayTypeCorrect`, `ConfirmedStayBooked` | types; a confirmed payment is booked beside the gateway, until voided by hand | the cashier's steps by the lemmas of `TuitionProofs`; amounts need that the root's price is a course's price or zero |
| `SePayProofs!PaidSessionsAreBooked`, `MatchedAreBooked` | a paid session and a matched transfer are booked (void, if at all, by hand), a session matches one transfer | `PaidInv`: a paid session is posted, or the delivery that claimed it is about to post or release it, or one has died. `KnowsInv`: what a delivery about to mark rests on is booked with its amount, and of a booked payment no step changes more than an administrator who voids it, who leaves its amount (`BooksKept`). `OnceInv`: a claimed session is held by one delivery, is not pending, and matches no transfer before that delivery marks its own |
| `SePayProofs!NothingIsPaidTwice` | the ledger shows no more payments than money came in | `MoneyInv`: while nothing failed, a transfer is in the hands of one delivery, and what is booked is at most the transfers spent, by a delivery that has booked and not yet marked or by a mark, and the payments confirmed. Every step adds to both sides alike, and a void by hand adds nothing (`VoidingAddsNothing`) |
| `SePayProofs!StudentsMatchedOnce` | no two matched transfers rest on one payment of the student | `LockInv`, in four parts. `ClaimInv`: the claim on the root is a lock; its holders are one cashier, or one delivery, or one matched transfer, and while there is a holder the root is paid. It is not inductive alone, since a delivery that finds nothing due opens an enrollment from a copy, past the lock: `LedInv` says that an unpaid root has an enrollment due, in the document and in the copies that may be saved, `StepsInv` that nobody is on the path for new enrollments, and `StaysInv` that, while every write holds, no claim is taken back and a copy that shows the root paid is not saved over an unpaid one |
| `ExamProofs!ExamTypeCorrect`, `PassesAreEarned` | types; a pass has passed marks and, where required, good practical work | the invariant `IInv` says "sound" of the entries *and of every copy that a whole write can bring back*: the snapshots of requests about to save and the administrator's tab. Earned-ness of the entries alone is not inductive |
| `ExamProofs!AttemptsAreKept`, `AttemptsAreGradedOnce` | an attempt is neither replaced nor graded twice | `AttemptInv`: until a whole write is made from an outdated copy, an active attempt has not ended, is active in one subject, and a graded one has ended. Every step edits one entry, ends its attempt or begins one |
| `ExamProofs!VerdictsStand` | late and repeated requests leave verdicts alone (an action property) | `VerdictInv`: an active attempt has neither a verdict nor a passed part, unless a delayed start or an outdated copy brought it; claims ask for an active attempt |
| `PayrollProofs!PayrollTypeCorrect`, `SessionsClaimedOnce`, `PaidHasPaymentAlways` | types; one payment per claimed session; a paid session has a payment that did not fail | `ClaimsInv`: what was claimed is still paid *or* was released by an undone payment that had read it. `ClaimedOnce` alone says nothing of a session that is claimed and unpaid. Every step but `Claim` and `Release` is `Quiet`, which is one lemma |
| `PayrollProofs!PaymentsAreBooked` | at the step that answers a payment or confirmation its salary entry is posted with its amount, or was void before | vouchers and entries are never rewritten (`TxKept`, `LedgerKept`), the amount in a request is that of its voucher (`AmountsKept`), an entry can only be added by `Post` or `ConfirmPost` (`NewEntries`), and only these two answer so (`AnswersBook`) |
| `PayrollProofs!VouchersAgree` | a voucher at rest that is not torn is confirmed exactly when its entry is posted | `Fits(v)`: one request at work, and while it is, voucher and entry are related by how far it has come (`Progress`), e.g. confirmed and not booked before `Post`, agreeing before `Release`, not confirmed before `CancelVoid`. A step is about one voucher (`HereFits`) and leaves the others (`ElsewhereFits`) |
| `AttendanceProofs!AttendanceTypeCorrect`, `TakenAreCounted` | types; every answer that a session is taken since the last reset or edit by hand has moved the progress | `SavesCount`: a *current* copy about to be saved counts one more than was answered; a save makes all other copies outdated, and a reset or a teacher's edit, which do not, set the count to zero or leave no copy behind |
| `AttendanceProofs!RejectedStayRejected` | a rejected session is not completed (an action property) | a rejected session not set by hand is cancelled or deleted, so the claim finds it not scheduled |
| `AttendanceProofs!ProgressIsCompleted`, `PlanFits` | requests one after the other neither count ahead nor overbook | `SerialInv`: one request at a time; `Owed`, what is claimed and not yet counted; `Planned`, there is room for what a request is about to write (in the course until the progress is set by hand). A crash between claim and save leaves the count behind, never ahead |

### Hypotheses

The theorems hold for all values of the constants under the named assumptions
`OutboxAssumption`, `TuitionAssumption`, `ExamAssumption`, `PayrollAssumption`,
`SePayAssumption`, `AttendanceAssumption`, and, where sums and numbers of requests occur,
`RequestsAssumption` and `FiniteAssumption` (requests, sessions and transfers are
finite sets, of any size).
TLC evaluates them in every run. Some theorems have hypotheses of their
own, each of which excludes what section 4 says does break the property:

| Theorem | Hypothesis | Without it |
|---|---|---|
| `PromptWorkersExclude` and the like | publishes within the lease | a second worker claims |
| `OpenIsBooked`, `CancelledWasBooked` | cancellations and refunds not both; no void by hand | a refunded enrollment is reopened for nothing and is not backed; a voided payment backs nothing |
| `NotesMatch` | no void by hand | a refund voided by hand keeps its credit note |
| `CollectedOnce` | operations that collect; no lost replies | an enrollment registered as paid and then cancelled or refunded is paid again under the other key (three requests suffice) |
| `CollectedAtPrice`, `OpenIsCollected` | operations that collect; no failing ledger writes (crashes are in) | an undo that meets a VersionError leaves the amount behind |
| `RootsAgree`, `AmountsAgree` | `MaxInFlight = 1`; operations that collect, and heal; no lost replies; paid registrations have a price (failing ledger writes and crashes are in) | two requests add to the root from different copies |
| `HealLeavesNone` | `MaxInFlight = 1`; no failing write of the heal run; no void by hand | it judges an enrollment whose payment is under way, skips one it could not book, or misses one whose payment is voided after it looked |
| `NothingIsPaidTwice` | no heal run | heal books session payments again |
| `StudentsMatchedOnce` | cashiers, unpaid registrations and heal runs only; no session names the student, or no ledger write fails or loses its reply (crashes and replays are in) | what else writes past the claim on the root gives it up (section 4) |

The runs `tuition_payments`, `tuition_serial` and `sepay_gateway`, and for the last
one `SePayStudents.cfg`, are instances of these hypotheses, so that they are known
to be satisfiable.

### How sums are proved about

A total is `MapThenSumSet` over the posted keys, a fold, that is, a recursive
function over the finite subsets of a set. Induction principles that take a
predicate as a parameter are not available to the provers, so `LedgerProofs` argues by a
smallest counterexample: the subsets for which a claim fails form a set, `WFMin`
applied to their cardinalities yields a least one (`Smallest`), and taking an element out of
it contradicts minimality. From this come `TotalIsSum` (the recursive function
exists), `TotalSplit` (any element may be taken out first), `TotalLess` and
`TotalInto` (a sum is bounded by another along an injection), and `PostingAdds` (an entry adds
its amount). Everything about money above rests on these.

Proofs are laid out with one step per action and lemmas for operators.

### Only model-checked

`EventuallyClosed` (TLAPS does not prove ENABLED-based fairness here), and the
refutations. `PaidIsBooked` and `RefundWasPaid`, whose theorems exclude
cancellations and refunds together, are also checked with all seven requests
(`tuition_all`), on an instance too small for the exception.

## 6. What is left out, inside the modelled parts

- Outbox: the payload, `findOneAndUpdate` ties on `createdAt`, logging.
- Tuition: `learningAccess` (always written with `paid`), names, dates, invoices,
  cancellation of schedules, notifications, students from before enrollments
  existed. A failing `createTuitionInvoice` is a crash at that point. The reversal
  entry of a void, an adjustment that no total here counts, is left out, and so are
  the ledger's other entries by hand (adjustments, discounts, expenses).
- SePay: one student; that a code matches a second unpaid student is a choice.
  Prices identify courses; the tolerance of one unit on amounts is dropped.
  Sessions without an amount, video-course sessions, the 24 h expiry of the
  session document, failures of a rollback, the signature check. A removed
  enrollment's slot is reused only if no entry names it, as ids are never reused.
- Exam: the approval workflow's own write of the unlock flag, `exam_unlock` in
  `workflowService.js:204-208`, which touches neither the attempts nor the version;
  it opens the room as `SetRoom` may. Marks are pass or fail; questions and their sets; `lockUntil` (written
  with `khong_dat`, not read by the server); what staff may send to
  `exam-progress`; the button that clears countdowns; teachers' attempts. The
  duration of an exam is taken to be longer than the 90 s of a soft release.
- Payroll: star bonuses and rates (a session is worth one), notifications, the
  checks of permission and branch, other teachers and students, whose sessions
  no operation here mixes; a delete or a payout's effect that fails without having
  been made, which leaves what a crash before it leaves. An updateMany is one operation. Sessions completed are
  not taken back.
- Attendance: the clock (windows of attendance, twelve hours between sessions,
  refusals for past days), other students of the teacher, previews, notes, the
  values of grades, permissions. A student's credited sessions are a starting
  value. Of what an edit of the student may send, the number of sessions done alone:
  a new total, the list of grades, the status of the enrollment and a teacher's number
  above the total are left out, and so is the student's own copy of the counters, which
  staff write first and without the version; the enrollment's are what is counted.

Of the implementation's lines the map covers a small part, and most of the rest
cannot be modelled to any purpose: the React client and its services, about a
hundred generated domains under `modules/` that differ in a name, routes that
create, read, update and delete one document, scripts. What is modelled is where
steps of several requests meet.

## 7. Plan

1. **SePay extension**: `POST /students` with payment, `PATCH /price`, video course
   checkout and fulfilment.
2. **Refresh**: rotation, reuse detection and blacklist with two tabs and lost
   answers.
3. **Teacher exams** as an instance of `Exam` with one flat attempt.
4. More theorems: `RootAgrees` and `AmountAgrees` with cancellations and refunds,
   one request at a time; `StudentMatchedOnce` with enrollment payments while every
   write holds, for which no counterexample is known.

Order of what is done: outbox first as the smallest complete component with a
contract, then tuition and ledger as the core of the business, the gateway on
top of them, then exams, payroll, attendance.

## 8. Running

    tlc -workers 2 -config OutboxPrompt.cfg MCOutbox
    tlapm TuitionProofs.tla

`TuitionBookingProofs` takes about ten minutes from nothing.

Configurations are named after their runs (`TuitionAll.cfg` is `tuition_all`);
each belongs to the MC module with the same prefix.
