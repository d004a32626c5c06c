# Verification of the abdwash backend

abdwash is a booking and operations system for mobile car washing.  Customers
hold and book time of mobile teams on the web, staff carry the jobs out with a
mobile app, and one FastAPI backend over PostgreSQL is authoritative for all of
it.  This directory models the backend's own logic, and the synchronisation of
the mobile app with it, in TLA+, checks the models with TLC on small instances
and proves the main results with TLAPS.

## The system

| Part | State it keeps | Operations | What makes it correct | Module |
|---|---|---|---|---|
| scheduling (`services/scheduling.py`, `domain/scheduling.py`) | slot hold groups, schedule slots | `create_hold`, `_lock_slot_sequence` | a live hold keeps its slots; an expired one gives them back | TeamCapacity, CapacityRace |
| smart scheduling (`services/smart_scheduling.py`) | none; reads jobs, holds, teams, leave | evaluate and choose a team for an interval | no overlap on a team, the turnaround between automatic claims | TeamCapacity, CapacityRace |
| bookings (`services/bookings.py`) | bookings, jobs, payments, snapshots | `create_booking` | a hold becomes exactly one booking with one job | TeamCapacity, CapacityRace, Rewards |
| rescheduling (`services/customers.py`) | the same rows | by a second hold, or at an exact minute | the old time is released and the new one taken in one step; manual teams stay | TeamCapacity |
| cancellations (`services/booking_management.py`) | cancellation requests | request, review | one pending request, only for a confirmed booking | TeamCapacity, Rewards |
| staff operations (`services/staff_operations.py`) | jobs, payments, events | assign, work, record cash, review cancellations | money is recorded with its receipt and for completed work; an assignment takes free time only | each effect in its module |
| job quality (`services/job_quality.py`) | checklists, photos, complaints, corrections | create a rewash | a rewash uses up its hold once; it makes no capacity decision of its own | CapacityRace |
| notifications (`workers/notifications.py`) | outbox rows | claim, send, retry, discard reminders | every due message is sent or failed, no reminder after a cancellation | Outbox |
| invoices (`services/invoices.py`) | sequences, invoices | issue | consecutive numbers | CashSettlement |
| finance (`services/finance.py`) | handovers, expenses, evidence | hand over, void, upload, confirm | no cash is lost or counted twice; evidence was checked | Finance |
| loyalty, coupons, idempotency, reviews | ledger, rewards, redemptions, keyed records | credit, earn, redeem, adjust, answer again | every wash counts once, rewards are never overdrawn, a retry is answered | Rewards |
| inventory, job consumption | stock, movements, runs | move, count, consume at completion | stock is the sum of its movements, one consumption per job | Inventory |
| workforce | teams, members, shifts, leave, attendance | staff and assign | one session at a time, decisions on what is still so | Workforce |
| sync state, mobile cache | revisions; queries and their persisted copy | announce, compare, mark, refetch | a change is noticed, with named exceptions | Sync |
| profiles, accounts, catalogue, API, authentication, web | records and views | | | see "What is not modelled" |

Handlers run one per HTTP request, each in one PostgreSQL transaction at the
READ COMMITTED level, concurrently in several processes.  They meet in the
database: row locks (`FOR UPDATE`, and the key-share lock of a foreign key),
transaction advisory locks (the business day, one slot row, an idempotency key)
and unique constraints.  The hard behaviours are therefore the order in which
handlers of several actors commit, what a handler read before it waited for a
lock, expiry by the clock, requests sent twice by a client that timed out, the
outbox worker dying between sending a message and recording it, and a device
that keeps data across restarts.  `PROJECT.json` lists them, each at its line.

## How the models are made

Every action stands for statements of the source that `PROJECT.json` names.  A
module is as fine as its hazards need:

* one step per handler, where a lock covers all that the handler reads and
  writes (TeamCapacity, most of Outbox and Finance);
* two steps, `Begin` with locks and reads and `Commit` with the writes, where
  what was read may become stale (Workforce, Inventory, Sync);
* one step per lock or statement, where the order of locks is the question
  (CapacityRace, CashSettlement, Rewards, handovers in Finance).

Between the steps every other session may commit, and every open transaction may
be rolled back (`Abort`, `Rollback`, `Fail`): errors, crashes, and the victims
PostgreSQL picks from a circle of waits.

A definition named `...Unlocked`, `...Anyway`, `...Twice` and so on, with a
comment "Mutant", is the code with a plausible bug.  It is not used by the
model: put in the place of its original it must break a property, which shows
that the property depends on the code.

## Modules and runs

### TeamCapacity: who has which team when

One atomic step per handler, over the rows that claim a team's time: `hold`
(`slot_hold_groups`), `slot` (`schedule_slots`), `booking`, `job`, the latest
cancellation `request`, the set of `eligible` teams and the clock `now`.  A job
has the identity of its booking because `jobs.booking_id` is unique.  A handler
is one step because it runs in one transaction under the advisory lock of the
business day.  Rewashes are left out for the same reason: `_create_correction_job`
does not take that lock, and what it breaks is shown statement by statement (run
`race_rewash`).  So every claim of this module is about jobs that come from
bookings.

| Action | Code |
|---|---|
| `CreateHold` | `create_hold` with `_lock_slot_sequence`: any feasible team, since the ranking is a preference |
| `BookPayAfter`, `BookPayNow` | `create_booking`; the duration is chosen again because the code reads the catalogue again |
| `RescheduleByHold` | `_reschedule_booking`, for the customer and for staff |
| `RescheduleExact` | `_reschedule_managed_exact`: any minute within opening hours |
| `AssignAuto`, `AssignTeam`, `AssignStaff` | `assign_job` by mode, with `_move_booking_capacity` |
| `StartJob`, `CompleteJob` | `start_trip`, `transition_job` |
| `RequestCancellation`, `ApproveCancellation`, `RejectCancellation` | `request_booking_cancellation`, `review_cancellation` |
| `ChangeEligibility` | team, membership and leave changes as `get_eligible_teams` sees them |

The three statuses of a job under way are one status `active`, since capacity
does not tell them apart.  `UNASSIGNED` jobs and `BLOCKED` slots are never
written by the code; blocked slots may exist in the data and are the constant
`Blocked`.

What keeps overlap away is one discipline: a handler that gives a team an
interval has asked `Feasible` for exactly that interval, or takes over the
interval of a live hold.

| Run | Instance | Shows |
|---|---|---|
| `capacity_holds` | one team whose staffing changes, a blocked row, 3 holds of one or two slots, 2 bookings, durations 2 and 4 | `NoOverlap`: two claims never share a team and a moment; `LiveHoldKeepsSlots`: until it expires a hold owns the slots it acquired |
| `capacity_moves` | 2 teams, 2 holds, 2 bookings, turnaround 1, everything that moves a job | `TurnaroundKept`, `JobsHoldTheirSlots` (a job that blocks its team has a reserved slot at its start, and its slots lie in the booked time and on the team of the booking), `ManualStaysSticky` |

That the slots of a job lie on the team of the *job* is not claimed, as an
automatic assignment leaves them behind (see "Disagreements").

Bounds.  Overlap and slot ownership relate two claims; three holds let one
expire and be replaced beside a second, and two bookings let a booking be
rescheduled next to another.  The clock runs to `MaxTime`, which
is 1 where expiry matters and 0 in `capacity_moves`, where holds are given the
whole day and the interleaving of moves is the point.  One day is enough:
`Loaded` compares within the day of a start, and `WithinDay` keeps every
interval inside it.  The instances stop when identities and clock are used up,
so deadlock is not checked.  Identities are symmetric: no expression chooses
one, and only safety is checked.

### CapacityRace and TeamCalendar: the same decisions, statement by statement

`TeamCapacity` assumes that a handler is atomic.  `CapacityRace` takes
`create_hold`, `create_booking` and `_create_correction_job` apart into their
statements, for one business day.  A statement is one step; it sees what was
committed before it, the writes of a transaction appear at its commit, and locks
are held until then.

| State | Code |
|---|---|
| `hold`, `slot` | committed rows of `slot_hold_groups`, `schedule_slots` |
| `expired` | holds whose `expires_at` has passed |
| `day` | the advisory lock of `lock_schedule_day` |
| `holdLock`, `slotLock` | row locks of `FOR UPDATE` and of `UPDATE` |
| `tx` | what each session has read, and its next statement |

`Statements` gives the order of each handler.  Two things are easy to miss and
are in the model.  `create_hold` reads the grid before it locks it, and the
session keeps the attributes it loaded first, so the locked read shows it
nothing new (`seen`).  A confirmation judges the expiry of its hold by a time it
took before it waited for locks (`Begin`).  The advisory locks of single slot
rows are left out: only holders of the day lock take them.

`TeamCalendar` is the abstract specification: a claim is granted only while
nobody has its time, may lapse, and may be booked, even after it has lapsed, if
its time is still free.  `CapacityRace` implements it under the mapping
`Promise`, what the rows of a day mean for each claim (`ImplementsCalendar`,
checked on an instance and proved).

| Run | Instance | Shows |
|---|---|---|
| `race_calendar` | 3 holds, 2 confirmations, one team | `JobsHaveTheirSlots`, `ImplementsCalendar` |
| `race_together` | 2 holds of two slots, a confirmation and a rewash | `ConsumedOnce`, `NoDaySlotDeadlock`, and under fairness `Served` |
| `race_rewash` | 2 holds and a rewash | finding: `HardOverlapNever` fails |

`race_calendar` has no rewashes, because they break the calendar (`race_rewash`).  Three holds are needed for a hold that takes the slots of an
expired one while a third is decided; two confirmations may name one hold.  Grid
distance 2 and length 3 make starts that are distinct and overlap.
`race_together` has row ids opposite to starts, so that rewash and hold lock the
two slots in opposite orders.  Fairness: the database runs a statement whose
lock is free (`WF(Run)`) and breaks a circle of waits (`WF(Abort)`); clients
(`Begin`) and the clock (`Expire`) promise nothing.  Finished requests stop, so
deadlock of the whole model is normal; `Served` is the property about waiting.

### Outbox: messages to customers

| Action | Code |
|---|---|
| `Notify` | `queue_customer_email_if_available` |
| `Reschedule`, `Close`, `RequestCancellation`, `RejectCancellation` | handlers as far as reminders depend on them, with `discard_unsent_appointment_reminders` |
| `EnqueueReminders` | `enqueue_due_appointment_reminders` |
| `ClaimBatch`, `FinishBatch` | `claim_batch`, `dispatch_once` |
| `ReadRow`, `Recheck`, `Post`, `Record` | the sessions of `process_record` and the provider call between them |
| `Crash`, `RestartWorker` | death of a worker between two sessions, a new worker |
| `Tick` | time |

Every action is one transaction or the one call of the provider.  Time is
relative (`wait`, `age`, `lead`), which leaves the state finite and the clock
unbounded.  A row has an `id` besides its dedupe key, since a deleted row may
come back under the same key, and the id is the provider's idempotency key.
`SKIP LOCKED` is a choice of the rows that are skipped.  `EnqueueReminders`
takes any due bookings up to the batch size.

| Run | Instance | Shows |
|---|---|---|
| `outbox_messages` | 2 workers, 2 updates or a booking that moves between 2 starts, rows of an earlier release, one death or stall | `SentWasAccepted`, `UpdateDeliveredOnce`, `ClosedBookingsAreNotReminded`, and under fairness `Settles` |

The run is restricted (`MCOutbox`) in three ways.  A behaviour has messages of
one sort, updates or reminders: they share no row, and a worker's tasks are
independent.  With updates bookings stand still.  With reminders they change
until the last start has come, after which no reminder is current.  `MaxFaults`
counts deaths and stalls (an HTTP client that gives up after fifteen seconds
cannot normally outlive a five-minute claim); one is enough for a claim to
change hands, and the proofs below hold for any number.  `MaxRows` counts rows
per key; two attempts instead of eight reach the last one; a batch of one forces
a second batch.  Fairness: the loop and its coroutines go on, dead workers are
replaced by the host, time passes; nothing is assumed of the provider, of
customers or of faults.

### CashSettlement: cash and invoices

`record_cash` with `issue_revenue_invoice`, as transactions of several devices
that repeat a request when no answer comes.  `_locked_job` is one `SELECT` over
job, booking and payment that locks the job alone.  Its snapshot is older than
its lock: `Ask` reads the payment, `LockJob` waits.  `Check` is the comparison
with earlier events and the three refusals, `TakeNumber` locks the invoice
sequence of the year, `Commit` writes everything at once, `Fail` loses the
connection or the invoice at any point.  `ApproveCancellation` is
`review_cancellation` as far as cash is concerned: a request that was filed while
the job was under way may be approved when the job is completed, or paid, since
the review locks the job and does not read its status.

| Run | Instance | Shows |
|---|---|---|
| `cash_ways` | 4 requests, 2 jobs, 2 events; or what Finance has below | here: `PaidWithReceipt`, `NumbersAreConsecutive`, `OneReceiptPerEvent`, `RepetitionIsRecognised` |
| `cash_twice` | 2 requests, 1 job | finding: `SettledOnce` fails |

`PaidWithReceipt` says that a payment is paid exactly when it has a receipt, and
that the job is then no longer under way.  That it is still completed is false
(see "Disagreements"); what the code does ensure, and the property says as well, is
that the job is completed from the check of its status to the moment the receipt is
committed.  Four requests make two devices
repeat two events each.  A request is made once,
so the model ends; no liveness is claimed.

### Finance: handovers of cash, expenses and their files

State: the `collected` cash transactions, handovers `rec` with their active
payment links `link`; expenses, the upload status `evidence` of each file and
what the storage has under its path (`object`).  `BeginReconciliation` ..
`CommitReconciliation` is `create_cash_reconciliation`: the event is looked up,
the payments are locked one by one in the order of their ids (`LockPayment`),
their links are checked under the locks (`CheckLinks`), and sums are compared at
the end.  `BeginUpload`, `Store`, `AskObject`, `LockEvidence` and
`ConfirmEvidence` are the two requests of a file with the signed upload between
them; the API asks the storage *before* the transaction that confirms, and so
may read what is replaced afterwards.

| Run | Instance | Shows |
|---|---|---|
| `cash_ways` | 2 sessions; 3 payments of 2 collectors and 2 events, or 2 files of one expense | here: `CashIsAccounted` (collected cash is pending or handed over, up to declared differences), `CheckedCashIsFree`, `NoHandoverDeadlock`, `ReadyIsChecked`, `HandoverHistoryKept` |

One run asks the questions of both modules: recording cash, handing it over and
expenses touch no row in common, so a behaviour of `MCCash` has requests of one
sort only.  Amounts 2, 3, 1 and declared sums 2 and 5 give
handovers that match and that differ.  The code writes no refunds, so
the reversals that a handover looks for never exist and are not modelled.  Facts
the model shows and no document denies: a repetition that overlaps its first
request is refused and not answered; two confirmations may both set the receipt;
files may be confirmed of an expense that was voided meanwhile, although a
message (`finance.py:288`) says they cannot.

### Inventory: the stock ledger and usage by jobs

State: `stock` and `movement` (the balance and its ledger), `operation` by
`client_event_id`, `run` of each completed job, templates, and which items and
locations are active, linked or default.  `BeginRequest` inserts the operation
row and reads without locks; `CommitRequest` locks the stock rows and does
`ReceiveStock`, `TransferStock`, `Consume` or `RecordStockCount`.  Employees record
usage only (`AuthorizeUsage`), from a location linked to a team of theirs, for a
job of such a team or assigned to themselves.
`BeginCompletion` is what `process_job_consumption` reads before it locks (the
expected quantities, the source and the manual usage), `CommitCompletion` its
writes.  `Consume` waits while the job is being completed (`JobFree`): a movement
refers to its job by a foreign key, whose key-share lock conflicts with the
`FOR UPDATE` of `transition_job`.  Usage therefore commits before the completion
sums it, or after the completion, never between (`ManualUsageCountsFirst`).

| Run | Instance | Shows |
|---|---|---|
| `stock_ledger` | 2 sessions, 2 items, 2 locations, a job of two services, a team, an employee, 5 requests of which two share a key | `LedgerExplainsStock`, `CompletionAccounted`, `ManualUsageCountsFirst`, `HistoryIsKept` |

Sharing two units of soap between receipt, transfer, usage, count and completion
makes every shortfall happen; two services that use one item, up to two units of
it each, make the spreading of manual and of automatic usage matter.

### Workforce: attendance, shifts, members, leave and assignments

State: `enabled` profiles and teams, `member`, attendance sessions, `shift`,
`leave`, `job` and the clock.  `Begin...` takes the row locks of `clock_in`,
`assign_shift`, `replace_members`, `create_leave`, `review_leave` or
`assign_job` and reads; `Commit...` writes.  `AttendanceCategory` and
`HoursWorked` are the functions of the daily list and the report.

| Run | Instance | Shows |
|---|---|---|
| `workforce_staff` | 2 sessions, 2 employees (one followed), a team, a shift, a leave request, a job, one day of 2 instants | `SessionsApart`, `DecisionsHold`, `MembersAreTheWantedOnes`, `PresenceIsKept` |

`DecisionsHold` says that what was read under a lock is still so at the write.
It is stated only of what the code locks.  Not locked, and so in the model
without a property: `create_leave` checks and inserts (two requests for one day
can both pass), `assign_shift` may find a membership that is removed meanwhile,
a direct assignment ignores leave.  `BeginAssignJob` takes jobs in any
status, as a manager may reassign a closed one after a confirmation.  One day of two instants is enough for a
session that is closed before another opens and for a shift that starts late.

### Sync: revisions and the cache of a device

Server: a transaction of any of the requests of the API commits its change and
its revisions together (`bump_sync_revisions`).  The table `Request` has two
columns, taken from different places: what a request changes, from the tables its
service writes, and what it announces, from the arguments of its
`bump_sync_revisions`.  Device: a query in memory (`cache`), its request in flight
(`fetch`), the persisted copy (`disk`), the stored revisions and the stages of
`synchronizeOperations` (`SyncRead`, `SyncFirst`, `SyncInvalidate`, `SyncStore`),
loss of requests and restart of the app.  After a `Restart` memory is empty and
the copy is read in the background (`Restore`): screens open and the shell
synchronises meanwhile, but nothing is asked for or persisted.

A family of queries has two independent attributes as well: the domains it
`shows`, by the statements of its answer (`Shows`), and those that refetch it, by
`domainPrefixes` of `cache/sync.ts` (`Prefixes`).  They differ: the calendar has
names and limits of teams and is not refetched on `workforce`, reports have jobs
and attendance and are refetched on `finance` alone, the requests that wait for a
review are not refetched on `jobs` (`Unfollowed`).

| Run | Instance | Shows |
|---|---|---|
| `sync_device` | any 2 requests, a device that follows the calendar or a report, one restart | `RevisionsTellChanges`, `NothingElseMissed`, and under fairness `Converges` |

`Unannounced` is the list of changes that no revision tells: booking settings
(customers), delay notices (jobs), new reviews (customers), deleted accounts
(jobs, customers) and public holds (schedule).  `RevisionsTellChanges` says that
there are no others.  `blind` records that older data was kept where the code has
no remedy, in four ways: the first synchronisation stores revisions without
marking what was fetched before; an answer on its way clears the mark of a query
that is not asked for again; a crash between storing the revisions and persisting
the mark; a synchronisation while the cache is being restored, whose mark the
restored copy replaces.  Outside these and the gaps of `Unfollowed`,
`NothingElseMissed` and `Converges` hold.  Left out: writes of the device's own
mutations into the cache, and queries that the prefix table does not know
(coupons, service options).  Fairness: commits, answers, the reading of the copy
and the stages of a synchronisation come to an end; requests of others, screens
and restarts promise nothing.  Two commits let a second change fall between
comparison and storing.

### Rewards: bookings, loyalty, coupons and idempotency of one customer

State: `booking` with its lines, payment and review, `reward`, the `log` of
loyalty events by source key, idempotency `record`s, the programme `settings`
and the open transactions `tx` with their locks.  `Plan` gives the locks of each
request in the order of its statements; a request takes them one by one
(`Lock`), reads when it has them all, and writes.  A row that refers to the
customer locks the profile for key share (`Reference`), which conflicts with
`FOR UPDATE` (`Profile`) and not with itself.

| Action | Code |
|---|---|
| `BeginCreate`, `FindRecord`, `ReadCreate`, `CommitCreate` | `create_booking` under its key with rewards and a coupon |
| `ReadSettlement`, `CommitComplete`, `CommitCash` | `evaluate_loyalty_for_job` after `transition_job` and after `record_cash` |
| `ReadCancel`, `CommitCancel`, `CommitRefusal` | `review_cancellation` with the release of rewards |
| `ReadReview`, `CommitReview`, `GuestReview` | reviews and the bonus of the first one |
| `ReadAdjust`, `CommitAdjust`, `UpdateSettings` | manual adjustments, settings |
| `ExpireRecord` | the expiry of a record, which stays in its table |

| Run | Instance | Shows |
|---|---|---|
| `rewards_ledger` | 2 sessions, bookings of one and two vehicles, 2 rewards of 3 washes, a credit of 3 and a debit of 1, 2 keys | `WashesAreCredited`, `NeverOverdrawn`, `RewardsComeWhenDue`, `LedgerExplainsRewards`, `CustomerNeverDeadlocks`, `RepetitionIsAnswered` |

`MCRewards` bounds who does what: each booking has its role (one is reviewed,
one cancelled), a debit or a change of the settings comes before the second
booking, a record expires in behaviours without adjustments and review.  The
restrictions drop combinations of independent extras and keep every pair of
requests about one row; without them the instance does not finish.  Sessions are
symmetric.

What the model shows and no property denies: two completions or payments of one
customer may deadlock, since each refers to the profile before it locks it, and
PostgreSQL aborts one; a payment recorded twice (see `cash_twice`) is credited
once; an approved cancellation after completion keeps the credit; a request with
the key of an expired record fails at the unique index.

## Proofs

Eight modules of theorems, checked by TLAPS, for every value of the constants
that the assumptions of the modules allow.  `PROJECT.json` lists the theorems a
reader should know.  The scheme is the same everywhere: an inductive invariant
(`Sound`; in TeamCapacityProofs `Sane` and `Safe`, in CapacityRaceProofs `Locked` and
`Decided`), one lemma per action, and the
properties as consequences.

* **TeamCapacityProofs.**  Every property of the two passing runs, for jobs that
  come from bookings.  `NoOverlap` is not
  inductive: a handler compares the new interval with the items that touch the
  day of its start, so it finds every overlapping claim only if claims do not
  cross midnight, and a job moved by its duration still does not only if
  durations are known.  The invariant is `Safe == Sane /\ JobTimes /\ Apart`, from
  `WithinDay`.  `TurnaroundAlwaysKept` needs `Turnaround <= Opening` as well, or the
  day filter would miss a neighbour on the other side of midnight.  The slots
  have two more invariants, without hypotheses: `Held` (a live hold has its slots,
  and no merely held slot names a booking with a job, so moves free nothing that
  a live hold owns) and `PlacedAll` (the slots of a booking lie in its interval
  and on one team; it rests on `Held` for the slots a booking takes over).
  `ManualAssignmentsStick` rests on: only jobs that exist are manual.
* **CapacityRaceProofs.**  Two invariants.  `Locked`, for every instance: which
  locks a session has at each statement, so that `ConsumedOnce` follows from the
  row lock of the hold and `NoDaySlotDeadlock` from the order of `Statements`.
  `Decided`, without rewashes (`Correcting = {}`): between its reads and its
  commit a session has the day, so nobody else decides; what it read of jobs and
  holds is not behind the rows by more than holds that ran out since
  (`Informed`); a slot that is `held` or `reserved` names the hold it stands for.
  A hold that runs out is no obstacle: once a confirmation has locked its slots
  and found them its own, only who has the day could take them
  (`JobsKeepTheirSlots`).  The refinement is proved step by step
  (`RaceImplementsCalendar`): `CommitHold` is a grant, `Expire` a lapse,
  `CommitBooking` a booking of a time that is free, every other statement
  changes nothing.  `CalendarNeverOverlaps` for the abstract calendar then gives
  `DayNeverOverlaps`.  The hypothesis is needed: a rewash takes no day lock and
  may overlap (`race_rewash`).
* **CashProofs.**  The way of the cash in one module: CashSettlement, from the
  customer, and Finance, to the owner.  `SettlementSound` says what a request
  holds at each statement (`RequestSound`): the job lock keeps its event new and
  its job completed until the receipt is there (`CashOnlyForCompleted`: no
  cancellation comes between check and commit), the sequence lock keeps the
  number it took equal to `next`.  `PaidTogether` says no more of the job than that
  it is not under way, because a later cancellation is possible.  Consecutive numbers
  are stated without counting (`Numbered`: injective, bounded and onto), and the
  cardinality follows from a bijection.  For Finance, `CashSound`: a handover
  locks in the order of ids, locks exclude each other, and after the check its
  payments are free; `NoHandoverDeadlock` follows from the order.  `FilesSound`: a
  request about a file and what it was told of the storage agree, because a
  stored file of a path is not replaced by the signed upload.  `Booked`: the
  links are those of the confirmed handovers, which share no payment and expect
  the sum of their own.  So what was collected is parted into what is pending and
  what each handover has, and what is pending into what each collector has
  (`SumParts`): `CashIsAccounted`.
* **DeliveryProofs.**  What leaves the server and may be lost on its way, in one
  module.  For Outbox, `OutboxSound` ties rows to tasks: a worker that has seen
  the acceptance has its key among the accepted ones, a row is owned exactly
  while it is `processing`, which a row with a permanent error never is, and an
  update has only ever had the id 1.  Besides the properties of the run,
  `RejectedFinal` and `SettledForever`.  For Sync, `ServerSound`: what an open
  transaction will count is what it will change, for each request of the table
  (`RequestsTold`); `FamilySound`: what a family shows is refetched but for its gaps,
  from the tables (`FamilyOfTable`); `Restoring`: until the copy is read, memory is
  empty and nothing is asked for; `DeviceSound`: what the device has, or has been
  answered, is not behind what it stored, nor behind what a synchronisation is
  about to store, in the domains that are not gaps, unless `blind`.  So
  `NothingMissed` is a statement about four ways and the listed gaps; that the gaps
  do lose changes is a disagreement with the documents (below).
* **InventoryProofs.**  Every property of the run.  `Sound` has these parts
  besides the types and the properties.  `Sessions`: an open transaction has a key that no
  operation has and no other session, and a completion has a job in progress.
  `Recorded`: a movement has a key that has an operation, and a job in progress
  has no run.  So a commit adds rows under a key that has none (`Writes`), which
  is what makes a retry or a second completion harmless (`RecordsAreKept`), and
  each stock row moves by the sum of the rows it gets (`StockIsExplained`).
  `Fresh`: what an open completion has read as manual usage is what is recorded,
  as usage of its job waits for it; hence `ManualUsageIsCounted`.
  `CompletionAccounted` needs what sequences of services hand out: what
  `Spread` gives to the rows of an item adds up to the lesser of the total and
  the need (`SpreadSound`, by induction over the rows), so the automatic parts
  add up to what was applied, and a line is short only when the stock, or its
  place, was (`LineSound`).  Besides the properties of the run,
  `ShortfallsEmptyTheSource`: a completion that calls the stock insufficient
  leaves none of the item where it drew.
* **WorkforceProofs.**  Every property of the run.  Locks exclude each other and
  each transaction holds the row it decides on, so what it read is still so
  (`DecisionsHold`), and sessions follow each other (`SessionsInOrder`).  The hours
  fit into the time that passed because the first n sessions fit into the time
  until the end of the n-th (`HoursFit`, by induction over the sessions).
  `PresenceIsKept` rests on a reading of the attendance list: a person is seen at
  work exactly if a session of the day began (`SeenAtWork`), and no step removes a
  session or moves its beginning.  Besides, `LeaveDecidedOnce`.
* **RewardsProofs.**  `Locking`: a booking takes its key first and then the
  profile before anything else, reviews and adjustments the profile first.
  Hence `CustomerNeverDeadlocks`: who holds something and waits for another
  request of the customer waits for the profile, which only one holds.
  `LookedUp`: while the key is held no live record appears, hence
  `RepetitionIsAnswered`.  `Ledger`: what a request read of a job or of rewards under
  their locks is still so when it writes, and every source key in the log stands
  for a row as it is; hence `WashesAreCredited` and `LedgerExplainsRewards`.
  `Accounts`: who may earn rewards reckons the credits while it has the profile
  and the settings, so that the number it found due is due until it writes; the
  credits of the ledger are never fewer than what rewards have consumed
  (`NeverOverdrawn`), and after each step nothing is due (`RewardsComeWhenDue`).
  The last theorem has the hypothesis `Rewarded # Reward`: the rewards of the
  model are a finite set of rows, the table of the code is not, and when all
  rows are taken one may be due that cannot be given.
* **SumTheorems.**  What finite sums are, for CashProofs, RewardsProofs and
  InventoryProofs and for the hours of WorkforceProofs: their type, one element
  more or less, another value of one element, sums of unions, of parts, of
  constants and of sums, over renamed terms, monotony.  The provers cannot
  instantiate an induction theorem, which takes an operator; here the induction
  over the subsets of a finite set is itself proved, from the least number principle,
  with a set in place of the operator (`SubsetInduction`).

Model-checked only: liveness (`Settles`, `Served`, `Converges`), which needs fairness
and so is out of this prover's reach.  Every safety invariant and action property
of a passing run is also a theorem.  Some theorems carry hypotheses that the code
does not ensure by itself and that are named above: `WithinDay`, and for the
turnaround `Turnaround <= Opening`, for the intervals of teams; `Correcting = {}` for
the calendar of a day; a reward row that is left for `RewardsComeWhenDue`.

## Findings

| Run | The documents say | The code does |
|---|---|---|
| `cash_twice` | cash applies the outstanding amount (`docs/state-machines.md:45`) | two devices at once both find the payment unpaid (`staff_operations.py:832`), record it twice and issue two invoices |
| `race_rewash` | every capacity change takes the day lock, hard overlap is never allowed (`docs/scheduling.md:31`, `:15`) | a rewash does not take it (`job_quality.py:705`), and a hold that reads jobs before and holds after its commit overlaps it |

### Disagreements seen while modelling

The models follow the code in each of these, and no property or theorem claims
the contrary.

| The documents say | The code does |
|---|---|
| completed is terminal, an approved cancellation cancels a non-terminal job (`docs/state-machines.md:19`, `:58`) | a late review turns completed and paid work into cancelled work (`staff_operations.py:1300`): in CashSettlement, `payment[j] = "paid"` does not imply `job[j] = "completed"` |
| team reassignment moves the reserved slots (`docs/mobile-operations.md:22`) | mode `auto` changes the job only (`staff_operations.py:952`): in TeamCapacity, `job[b].team` may differ from the team of `SlotsOfBooking(b)` |
| reminders are deduplicated by booking and time (`docs/operations-calendar-communications.md:20`) | after a booking has left its time and come back, the withdrawn reminder in flight and its successor have two idempotency keys (`customer_communications.py:53`): in Outbox, with `MaxRows` at least 2, `accepted` may have two keys of one reminder |
| a changed revision marks the affected families stale (`docs/PERFORMANCE_ARCHITECTURE.md:145`) | reports show jobs and attendance and are marked on `finance` only (`cache/sync.ts:44`); likewise the rest of `Unfollowed`, and the cases of `blind` in Sync |
| leave approval blocks while work remains assigned (`docs/mobile-operations.md:27`) | work assigned at the same moment is not seen, as the two lock different rows (`workforce.py:1035`) |
| closing time is never a start (`docs/scheduling.md:3`) | the loop goes on while the cursor is not after closing (`domain/scheduling.py:39`), so a grid that meets closing time offers it to a claim that fits |
| evidence cannot be added to a voided expense (`finance.py:288`) | a file prepared before may be confirmed after (Finance) |

The paths are under `src/` (documents) and `src/backend/app` (code).

## Further hazards

`PROJECT.json` lists the hazards that the properties are for.  These are real as
well and no property covers them:

* services that run past midnight: `load_capacity_items` filters by the day of
  the start (`smart_scheduling.py:300`); `WithinDay` excludes them;
* `assign_job` reads the booking in the snapshot of a statement that locks the
  job alone, so a concurrent reschedule may be overwritten
  (`staff_operations.py:920`);
* reschedules lock the booking and then the job, staff handlers the reverse
  (`customers.py:300`), and completion against a new booking likewise on profile
  and rewards (`loyalty.py:192`): PostgreSQL aborts one;
* usage of a job locks stock and then refers to the job, completion locks the
  job and then stock (`inventory.py:737`, `job_consumption.py:192`): PostgreSQL
  aborts one, which `Abort` stands for;
* due reminders are taken in an order that may starve later bookings while the
  first ones stay in the batch (`workers/notifications.py:76`);
* a job that went back to assigned queues its dedupe key again, and the unique
  index refuses the second start of the trip (`staff_operations.py:680`);
* two leave requests for one day at once (`workforce.py:966`), and a team
  deactivated while a live hold of it may become a job (`workforce.py:279`).

## What is not modelled

`PROJECT.json` lists every component.  Left out for good: routing, validation
and authentication (I/O and cryptography), the web app and the screens of the
mobile app (presentation), texts of e-mails, reports and listings that only
read, the ranking of feasible teams as far as it is a preference, catalogue and
profiles, whose rows are changed one at a time.  Provider payments do not exist
in the code: `pending_payment` has no successor.

Left out of modelled components: checklists, photos and complaints of job
quality (a photo may be replaced after its check, since its upload grant is an
upsert, `job_quality.py:484`); the eligibility of coupons; the cutoff
of cancellations in Rewards; minimum amounts and saved vehicles of bookings;
the limiter of guests' reviews; an open attendance session that is
forgotten overnight; thresholds and the creation of inventory items and teams.
