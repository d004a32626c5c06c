------------------------------- MODULE Outbox -------------------------------
(***************************************************************************)
(* The notification outbox: rows written by booking handlers and by the    *)
(* dispatcher itself (appointment reminders), claimed by workers that run  *)
(* concurrently, posted to the e-mail provider outside any transaction,    *)
(* and recorded afterwards.  A worker is the polling process or one        *)
(* request of the scheduled dispatch endpoint; it may die at any point.    *)
(*                                                                         *)
(* Every action is one transaction or the one call of the provider.  Time  *)
(* is relative, which keeps it unbounded: wait is next_attempt_at - now,   *)
(* age is now - locked_at, lead[s] is how far ahead the instant s lies.    *)
(***************************************************************************)
EXTENDS Integers, FiniteSets

CONSTANTS
  Worker,        \* concurrent dispatchers
  NoWorker,      \* the null locked_by
  Lost,          \* locked_by names a worker that is dead; a new one has a new name
  Booking,       \* bookings with a customer e-mail
  Start,         \* instants a booking can be scheduled at
  Lead,          \* [Start -> Nat]: how far ahead they lie at first
  Update,        \* messages other than reminders, each with its dedupe key
  Window,        \* appointment_reminder_hours_before
  ReclaimAfter,  \* the five minutes after which a claim is stale
  MaxAttempts,   \* the eight attempts
  Backoff,       \* [1 .. MaxAttempts -> Nat]: 30 s, doubled with every attempt
  MaxDelay,      \* the hour that no back-off exceeds
  Batch,         \* outbox_batch_size
  MaxFaults,     \* bound: workers that die, or stall until a claim is stale
  MaxRows        \* bound: rows ever inserted with one dedupe key

Reminder == Booking \X Start

Message == Reminder \cup Update

ASSUME OutboxConstants ==
  /\ {NoWorker, Lost} \cap Worker = {}
  /\ NoWorker # Lost
  /\ Lead \in [Start -> Nat]
  /\ Update \cap Reminder = {}
  /\ Backoff \in [1 .. MaxAttempts -> Nat]
  /\ {Window, ReclaimAfter, MaxDelay, MaxFaults} \subseteq Nat
  /\ {MaxAttempts, Batch, MaxRows} \subseteq Nat \ {0}
  /\ IsFiniteSet(Message)

VARIABLES
  booking,   \* status and scheduled start of each booking
  lead,      \* how far ahead each instant lies, 0 once it has come
  row,       \* rows of notification_outbox by dedupe key
  phase,     \* what each worker does in dispatch_once
  task,      \* process_record of each worker for each message
  accepted,  \* idempotency keys the provider has accepted: <<message, row id>>
  faults     \* deaths and stalls so far

outboxVars == <<booking, lead, row, phase, task, accepted, faults>>
-----------------------------------------------------------------------------
Unsent == {"pending", "retry", "processing"}

BookingRow ==
  [status : {"confirmed", "cancellation_requested", "cancelled", "completed"},
   start  : Start]

(* id tells the rows apart that a dedupe key has had one after another;    *)
(* rejected says that last_error holds a permanent provider error.         *)
OutboxRow ==
  [status   : Unsent \cup {"none", "sent", "failed"},
   id       : Nat,
   attempts : Nat,
   wait     : Nat,
   age      : Nat,
   by       : Worker \cup {NoWorker, Lost},
   rejected : BOOLEAN]

Stage ==
  {"idle", "claimed", "read", "ready", "stale", "accepted", "error", "refused"}

OutboxTypeOK ==
  /\ booking \in [Booking -> BookingRow]
  /\ lead \in [Start -> Nat]
  /\ row \in [Message -> OutboxRow]
  /\ phase \in [Worker -> {"idle", "enqueued", "working", "dead"}]
  /\ task \in [Worker -> [Message -> [at : Stage, id : Nat]]]
  /\ accepted \subseteq Message \X Nat
  /\ faults \in Nat

NoRow ==
  [status |-> "none", id |-> 0, attempts |-> 0, wait |-> 0, age |-> 0,
   by |-> NoWorker, rejected |-> FALSE]

(* A row of an earlier release: it was left to retry after a permanent     *)
(* rejection.                                                              *)
HistoricalRow == [NoRow EXCEPT !.status = "retry", !.id = 1, !.attempts = 1, !.rejected = TRUE]

NoTask == [at |-> "idle", id |-> 0]

OutboxInit ==
  /\ booking \in [Booking -> {[status |-> "confirmed", start |-> s] : s \in Start}]
  /\ lead = Lead
  /\ \E old \in SUBSET Update :
       row = [m \in Message |-> IF m \in old THEN HistoricalRow ELSE NoRow]
  /\ phase = [w \in Worker |-> "idle"]
  /\ task = [w \in Worker |-> [m \in Message |-> NoTask]]
  /\ accepted = {}
  /\ faults = 0
-----------------------------------------------------------------------------
(* Inserting and withdrawing.                                              *)

NewRow(m) == [NoRow EXCEPT !.status = "pending", !.id = row[m].id + 1]

(* A deleted row leaves its id behind, so that the next one gets another.  *)
Deleted(m) == [NoRow EXCEPT !.id = row[m].id]

(* The unique index on dedupe_key.                                         *)
MayInsert(m) == row[m].status = "none" /\ row[m].id < MaxRows

Current(m) == booking[m[1]] = [status |-> "confirmed", start |-> m[2]] /\ lead[m[2]] > 0

(* queue_customer_email_if_available, in the transaction of a handler.     *)
Notify(u) ==
  /\ MayInsert(u)
  /\ row' = [row EXCEPT ![u] = NewRow(u)]
  /\ UNCHANGED <<booking, lead, phase, task, accepted, faults>>

UnsentReminders(b) == {m \in Reminder : m[1] = b /\ row[m].status \in Unsent}

(* discard_unsent_appointment_reminders: rows that another transaction     *)
(* has locked are skipped.                                                 *)
Discard(b) ==
  \E locked \in SUBSET UnsentReminders(b) :
    row' = [m \in Message |->
              IF m \in UnsentReminders(b) \ locked THEN Deleted(m) ELSE row[m]]

Reschedule(b, s) ==
  /\ booking[b].status \in {"confirmed", "cancellation_requested"}
  /\ lead[s] > 0
  /\ Discard(b)
  /\ booking' = [booking EXCEPT ![b].start = s]
  /\ UNCHANGED <<lead, phase, task, accepted, faults>>

(* request_booking_cancellation leaves the reminders alone.                *)
RequestCancellation(b) ==
  /\ booking[b].status = "confirmed"
  /\ booking' = [booking EXCEPT ![b].status = "cancellation_requested"]
  /\ UNCHANGED <<lead, row, phase, task, accepted, faults>>

RejectCancellation(b) ==
  /\ booking[b].status = "cancellation_requested"
  /\ booking' = [booking EXCEPT ![b].status = "confirmed"]
  /\ UNCHANGED <<lead, row, phase, task, accepted, faults>>

(* review_cancellation when it approves, transition_job when it completes. *)
Close(b, status) ==
  /\ booking[b].status \in {"confirmed", "cancellation_requested"}
  /\ status = "cancelled" => booking[b].status = "cancellation_requested"
  /\ Discard(b)
  /\ booking' = [booking EXCEPT ![b].status = status]
  /\ UNCHANGED <<lead, phase, task, accepted, faults>>
-----------------------------------------------------------------------------
(* One dispatch: reminders are materialised, a batch is claimed, and each  *)
(* claimed row is processed by a coroutine of its own.                     *)

DueReminders ==
  {m \in Reminder : Current(m) /\ lead[m[2]] <= Window /\ MayInsert(m)}

(* enqueue_due_appointment_reminders: bookings that a handler has locked   *)
(* are skipped, at most Batch are taken, and a failure is only logged.     *)
EnqueueReminders(w) ==
  /\ phase[w] = "idle"
  /\ \E due \in SUBSET DueReminders :
       /\ Cardinality(due) <= Batch
       /\ row' = [m \in Message |-> IF m \in due THEN NewRow(m) ELSE row[m]]
  /\ phase' = [phase EXCEPT ![w] = "enqueued"]
  /\ UNCHANGED <<booking, lead, task, accepted, faults>>

(* Mutant: a claim is never given up.                                      *)
ClaimableUnclaimed(m) == row[m].status \in {"pending", "retry"} /\ row[m].wait = 0

Claimable(m) ==
  /\ row[m].wait = 0
  /\ \/ row[m].status \in {"pending", "retry"}
     \/ row[m].status = "processing" /\ row[m].age > ReclaimAfter

(* A row that stores a permanent error becomes failed without a call.      *)
ClaimedRow(w, r) ==
  IF r.rejected
  THEN [r EXCEPT !.status = "failed", !.by = NoWorker, !.age = 0]
  ELSE [r EXCEPT !.status = "processing", !.by = w, !.age = 0]

(* claim_batch; rows that another claim has locked are skipped, and then   *)
(* they are no longer claimable.                                           *)
ClaimBatch(w) ==
  LET claimable == {m \in Message : Claimable(m)}
      size      == IF Cardinality(claimable) < Batch THEN Cardinality(claimable) ELSE Batch
  IN /\ phase[w] = "enqueued"
     /\ \E batch \in SUBSET claimable :
          /\ Cardinality(batch) = size
          /\ row' = [m \in Message |-> IF m \in batch THEN ClaimedRow(w, row[m]) ELSE row[m]]
          /\ task' = [task EXCEPT ![w] = [m \in Message |->
                        IF m \in batch /\ ~row[m].rejected
                        THEN [at |-> "claimed", id |-> row[m].id] ELSE NoTask]]
     /\ phase' = [phase EXCEPT ![w] = "working"]
     /\ UNCHANGED <<booking, lead, accepted, faults>>

(* asyncio.gather returns when every record has been processed.            *)
FinishBatch(w) ==
  /\ phase[w] = "working"
  /\ \A m \in Message : task[w][m].at = "idle"
  /\ phase' = [phase EXCEPT ![w] = "idle"]
  /\ UNCHANGED <<booking, lead, row, task, accepted, faults>>

Goto(w, m, stage) == task' = [task EXCEPT ![w][m].at = stage]

Done(w, m) == task' = [task EXCEPT ![w][m] = NoTask]

(* locked_by = worker_id on the row that was claimed.                      *)
Owns(w, m) == row[m].by = w /\ row[m].id = task[w][m].id

Holds(w, m) == Owns(w, m) /\ row[m].status = "processing"

(* The first session of process_record with delivery_payload, which may    *)
(* also fail for a reason of its own.                                      *)
ReadRow(w, m) ==
  /\ task[w][m].at = "claimed"
  /\ \/ ~Holds(w, m) /\ Done(w, m)
     \/ Holds(w, m) /\ m \in Reminder /\ ~Current(m) /\ Goto(w, m, "stale")
     \/ Holds(w, m) /\ m \in Reminder /\ Current(m) /\ Goto(w, m, "read")
     \/ Holds(w, m) /\ m \in Update /\ Goto(w, m, "ready")
     \/ Holds(w, m) /\ Goto(w, m, "error")
  /\ UNCHANGED <<booking, lead, row, phase, accepted, faults>>

(* Mutant: the booking is not looked at again.                             *)
StillCurrentByClaim(w, m) == Holds(w, m)

StillCurrent(w, m) == Holds(w, m) /\ Current(m)

(* ensure_reminder_current *)
Recheck(w, m) ==
  /\ task[w][m].at = "read"
  /\ \/ Goto(w, m, IF StillCurrent(w, m) THEN "ready" ELSE "stale")
     \/ Goto(w, m, "error")
  /\ UNCHANGED <<booking, lead, row, phase, accepted, faults>>

(* Mutant: the idempotency key is of the worker's own making.              *)
KeyOfAttempt(w, m) == <<m, row[m].attempts>>

Key(w, m) == <<m, task[w][m].id>>

(* Mutant: an error response of the provider is not looked at.             *)
PostTrusting(w, m) ==
  /\ task[w][m].at = "ready"
  /\ \/ Goto(w, m, "accepted") /\ accepted' = accepted \cup {Key(w, m)}
     \/ Goto(w, m, "accepted") /\ UNCHANGED accepted
  /\ UNCHANGED <<booking, lead, row, phase, faults>>

(* provider.send: accepted, accepted although no answer came back, failed  *)
(* on the way, or refused for good.                                        *)
Post(w, m) ==
  /\ task[w][m].at = "ready"
  /\ \/ Goto(w, m, "accepted") /\ accepted' = accepted \cup {Key(w, m)}
     \/ Goto(w, m, "error") /\ accepted' = accepted \cup {Key(w, m)}
     \/ Goto(w, m, "error") /\ UNCHANGED accepted
     \/ Goto(w, m, "refused") /\ UNCHANGED accepted
  /\ UNCHANGED <<booking, lead, row, phase, faults>>

Delay(n) == IF Backoff[n] < MaxDelay THEN Backoff[n] ELSE MaxDelay

(* mark_delivery_failed *)
Failed(r, permanent) ==
  LET n    == r.attempts + 1
      next == [r EXCEPT !.attempts = n, !.by = NoWorker, !.age = 0, !.rejected = permanent]
  IN IF permanent \/ n >= MaxAttempts
     THEN [next EXCEPT !.status = "failed", !.wait = 0]
     ELSE [next EXCEPT !.status = "retry", !.wait = Delay(n)]

(* mark_delivery_succeeded *)
Succeeded(r) ==
  [r EXCEPT !.status = "sent", !.by = NoWorker, !.age = 0, !.rejected = FALSE]

(* The last session of process_record: only under its own claim.           *)
Record(w, m) ==
  LET at == task[w][m].at
  IN /\ at \in {"accepted", "error", "refused", "stale"}
     /\ row' = IF ~Owns(w, m)
               THEN row
               ELSE [row EXCEPT ![m] = CASE at = "accepted" -> Succeeded(@)
                                         [] at = "stale" -> Deleted(m)
                                         [] OTHER -> Failed(@, at = "refused")]
     /\ Done(w, m)
     /\ UNCHANGED <<booking, lead, phase, accepted, faults>>

Process(w, m) == ReadRow(w, m) \/ Recheck(w, m) \/ Post(w, m) \/ Record(w, m)
-----------------------------------------------------------------------------
(* Death of a worker: its coroutines are gone, its claims remain.  So does *)
(* a dispatch end when an outcome cannot be recorded: nothing catches that. *)
Crash(w) ==
  /\ phase[w] # "dead"
  /\ faults < MaxFaults
  /\ faults' = faults + 1
  /\ phase' = [phase EXCEPT ![w] = "dead"]
  /\ task' = [task EXCEPT ![w] = [m \in Message |-> NoTask]]
  /\ row' = [m \in Message |-> IF row[m].by = w THEN [row[m] EXCEPT !.by = Lost] ELSE row[m]]
  /\ UNCHANGED <<booking, lead, accepted>>

(* The host restarts the process, the schedule calls the endpoint again.   *)
RestartWorker(w) ==
  /\ phase[w] = "dead"
  /\ phase' = [phase EXCEPT ![w] = "idle"]
  /\ UNCHANGED <<booking, lead, row, task, accepted, faults>>

Elapse(n) == IF n = 0 THEN 0 ELSE n - 1

(* An age is not counted beyond the first stale one.                       *)
Aged(r) ==
  [r EXCEPT !.wait = Elapse(@),
            !.age = IF r.status = "processing" /\ @ <= ReclaimAfter THEN @ + 1 ELSE @]

SlowClaims ==
  {m \in Message : /\ row[m].status = "processing"
                   /\ row[m].by \in Worker
                   /\ row[m].age = ReclaimAfter}

(* Time passes.  A live worker answers well within ReclaimAfter (the HTTP  *)
(* client gives up after fifteen seconds): that it does not is a fault, of *)
(* which there are few.                                                    *)
Tick ==
  /\ SlowClaims # {} => faults < MaxFaults
  /\ faults' = IF SlowClaims = {} THEN faults ELSE faults + 1
  /\ lead' = [s \in Start |-> Elapse(lead[s])]
  /\ row' = [m \in Message |-> Aged(row[m])]
  /\ UNCHANGED <<booking, phase, task, accepted>>

OutboxNext ==
  \/ \E u \in Update : Notify(u)
  \/ \E b \in Booking :
       \/ \E s \in Start : Reschedule(b, s)
       \/ RequestCancellation(b)
       \/ RejectCancellation(b)
       \/ \E status \in {"cancelled", "completed"} : Close(b, status)
  \/ \E w \in Worker :
       \/ EnqueueReminders(w)
       \/ ClaimBatch(w)
       \/ FinishBatch(w)
       \/ \E m \in Message : Process(w, m)
       \/ Crash(w)
       \/ RestartWorker(w)
  \/ Tick

OutboxSpec == OutboxInit /\ [][OutboxNext]_outboxVars

(* The worker loop and its coroutines go on, a dead worker is replaced,    *)
(* and time passes.  Nothing is assumed of customers, of the provider's    *)
(* answers or of faults.                                                   *)
OutboxFairness ==
  /\ \A w \in Worker :
       /\ WF_outboxVars(EnqueueReminders(w))
       /\ WF_outboxVars(ClaimBatch(w))
       /\ WF_outboxVars(FinishBatch(w))
       /\ WF_outboxVars(RestartWorker(w))
       /\ \A m \in Message : WF_outboxVars(Process(w, m))
  /\ WF_outboxVars(Tick)

OutboxFairSpec == OutboxSpec /\ OutboxFairness
-----------------------------------------------------------------------------
(* Properties.                                                             *)

(* A row says sent only if the provider has accepted the message of this   *)
(* very row, also when the claim went from one worker to another.          *)
SentWasAccepted ==
  \A m \in Message : row[m].status = "sent" => <<m, row[m].id>> \in accepted

(* A customer gets an update once, whatever dies, answers late or is       *)
(* claimed again: every attempt of every worker carries one key.           *)
UpdateDeliveredOnce ==
  \A u \in Update : Cardinality({k \in accepted : k[1] = u}) <= 1

(* A row with a permanent provider error is never delivered again, those   *)
(* that an earlier release left to retry included.                         *)
RejectedIsNotRetried ==
  \A m \in Message :
    row[m].rejected => /\ row[m].status \in {"failed", "retry"}
                       /\ \A w \in Worker : ~Owns(w, m)

(* Sent and failed are final: a worker that lost its claim and answers     *)
(* late, a second claim or a withdrawal never reopens or removes the row.  *)
SettledStays ==
  [][\A m \in Message : row[m].status \in {"sent", "failed"} => row'[m] = row[m]]_outboxVars

(* Once a booking is cancelled or completed no further reminder of it goes *)
(* to the provider, although withdrawing it skips rows that are locked and *)
(* a worker may hold it already; only a worker past its final check does.  *)
ClosedBookingsAreNotReminded ==
  [][\A w \in Worker, m \in Reminder :
       /\ booking[m[1]].status \in {"cancelled", "completed"}
       /\ task'[w][m].at = "ready"
       => task[w][m].at = "ready"]_outboxVars

(* Every queued message is sent, failed or withdrawn at last, although     *)
(* workers may die with it in their hands.                                 *)
Settles == \A m \in Message : row[m].status \in Unsent ~> row[m].status \notin Unsent
=============================================================================
