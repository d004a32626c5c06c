--------------------------- MODULE CashSettlement ---------------------------
(***************************************************************************)
(* Cash taken for completed jobs: record_cash with the invoice it issues,  *)
(* as concurrent transactions of several devices, which send a request     *)
(* again when no answer comes; and the two transactions that give a job    *)
(* its last status, of which a late cancellation also meets paid jobs.     *)
(*                                                                         *)
(* _locked_job is one SELECT over job, booking and payment FOR UPDATE OF   *)
(* the job alone.  The statement takes its snapshot, and only then waits   *)
(* for the lock; afterwards the job is the latest one, while the payment   *)
(* is still that of the snapshot.  So the statement is two steps, and so   *)
(* is the transaction around them.  Writes appear at the commit.           *)
(***************************************************************************)
EXTENDS Integers, FiniteSets

CONSTANTS
  Job,       \* jobs with their booking and payment
  Tender,     \* client_event_id: one for each logical tender of a device
  Request,   \* requests of the devices
  Nobody     \* owner of a free lock

ASSUME CashConstants == Nobody \notin Request /\ Job # {} /\ Tender # {}

VARIABLES
  job,       \* status of each job, as far as cash depends on it
  payment,   \* status of each payment
  receipt,   \* invoice number of each succeeded transaction, 0 if there is none
  next,      \* next_number of the invoice sequence of the year
  jobLock,   \* owners of the row locks of the jobs
  seqLock,   \* owner of the row lock of the sequence
  cashTx         \* what each request has read, and its answer

settlementVars == <<job, payment, receipt, next, jobLock, seqLock, cashTx>>

Stage == {"new", "asked", "locked", "checked", "numbered", "done"}

Answer == {"none", "recorded", "already_paid", "rejected"}

CashRequest ==
  [at : Stage, job : Job, event : Tender, seen : {"unpaid", "paid"},
   number : Nat, answer : Answer]

SettlementTypeOK ==
  /\ job \in [Job -> {"under_way", "completed", "cancelled"}]
  /\ payment \in [Job -> {"unpaid", "paid"}]
  /\ receipt \in [Job -> [Tender -> Nat]]
  /\ next \in Nat \ {0}
  /\ jobLock \in [Job -> Request \cup {Nobody}]
  /\ seqLock \in Request \cup {Nobody}
  /\ cashTx \in [Request -> CashRequest]

Fresh ==
  [at |-> "new", job |-> CHOOSE j \in Job : TRUE, event |-> CHOOSE e \in Tender : TRUE,
   seen |-> "unpaid", number |-> 0, answer |-> "none"]

(* A job exists only for a booking that was confirmed before it was paid.  *)
SettlementInit ==
  /\ job = [j \in Job |-> "under_way"]
  /\ payment = [j \in Job |-> "unpaid"]
  /\ receipt = [j \in Job |-> [e \in Tender |-> 0]]
  /\ next = 1
  /\ jobLock = [j \in Job |-> Nobody]
  /\ seqLock = Nobody
  /\ cashTx = [r \in Request |-> Fresh]
-----------------------------------------------------------------------------
At(r, step) == cashTx[r].at = step

Release(r) ==
  /\ jobLock' = [j \in Job |-> IF jobLock[j] = r THEN Nobody ELSE jobLock[j]]
  /\ seqLock' = IF seqLock = r THEN Nobody ELSE seqLock

(* The end of a request, with what the device is told.                     *)
Finish(r, answer, number) ==
  /\ cashTx' = [cashTx EXCEPT ![r] = [@ EXCEPT !.at = "done", !.seen = "unpaid",
                                           !.answer = answer, !.number = number]]
  /\ Release(r)

Rollback(r, answer) ==
  /\ Finish(r, answer, 0)
  /\ UNCHANGED <<job, payment, receipt, next>>

(* transition_job, which holds the lock of the job for its whole time.     *)
Complete(j) ==
  /\ job[j] = "under_way"
  /\ jobLock[j] = Nobody
  /\ job' = [job EXCEPT ![j] = "completed"]
  /\ UNCHANGED <<payment, receipt, next, jobLock, seqLock, cashTx>>

(* Mutant: the review does not lock the row of the job.                    *)
ApproveCancellationUnlocked(j) ==
  /\ job[j] \in {"under_way", "completed"}
  /\ job' = [job EXCEPT ![j] = "cancelled"]
  /\ UNCHANGED <<payment, receipt, next, jobLock, seqLock, cashTx>>

(* review_cancellation, approved: request, booking and job are locked, the *)
(* status of the job is not read.  A request that was filed while the job  *)
(* was under way stays pending when the job is completed, or paid.         *)
ApproveCancellation(j) ==
  /\ job[j] \in {"under_way", "completed"}
  /\ jobLock[j] = Nobody
  /\ job' = [job EXCEPT ![j] = "cancelled"]
  /\ UNCHANGED <<payment, receipt, next, jobLock, seqLock, cashTx>>

(* A request, the first of its event or a repetition, takes its snapshot.  *)
Ask(r) ==
  /\ At(r, "new")
  /\ \E j \in Job, e \in Tender :
       cashTx' = [cashTx EXCEPT ![r] = [@ EXCEPT !.at = "asked", !.job = j, !.event = e,
                                             !.seen = payment[j]]]
  /\ UNCHANGED <<job, payment, receipt, next, jobLock, seqLock>>

LockJob(r) ==
  /\ At(r, "asked")
  /\ jobLock[cashTx[r].job] = Nobody
  /\ jobLock' = [jobLock EXCEPT ![cashTx[r].job] = r]
  /\ cashTx' = [cashTx EXCEPT ![r].at = "locked"]
  /\ UNCHANGED <<job, payment, receipt, next, seqLock>>

(* Mutant: a repeated event is taken for a new one.                        *)
CheckAsNew(r) ==
  /\ At(r, "locked")
  /\ \/ /\ cashTx[r].seen = "paid"
        /\ Rollback(r, "already_paid")
     \/ /\ cashTx[r].seen # "paid"
        /\ job[cashTx[r].job] = "completed"
        /\ cashTx' = [cashTx EXCEPT ![r].at = "checked"]
        /\ UNCHANGED <<job, payment, receipt, next, jobLock, seqLock>>

(* Mutant: a repetition is answered with the latest receipt there is.      *)
CheckWithLatest(r) ==
  /\ At(r, "locked")
  /\ IF receipt[cashTx[r].job][cashTx[r].event] # 0
     THEN /\ Finish(r, "recorded", next - 1)
          /\ UNCHANGED <<job, payment, receipt, next>>
     ELSE /\ cashTx[r].seen # "paid"
          /\ job[cashTx[r].job] = "completed"
          /\ cashTx' = [cashTx EXCEPT ![r].at = "checked"]
          /\ UNCHANGED <<job, payment, receipt, next, jobLock, seqLock>>

(* _duplicate_event with the receipt of the first time, then the checks of *)
(* the payment, of the job and of the tender.                              *)
Check(r) ==
  /\ At(r, "locked")
  /\ IF receipt[cashTx[r].job][cashTx[r].event] # 0
     THEN /\ Finish(r, "recorded", receipt[cashTx[r].job][cashTx[r].event])
          /\ UNCHANGED <<job, payment, receipt, next>>
     ELSE \/ /\ cashTx[r].seen = "paid"
             /\ Rollback(r, "already_paid")
          \/ /\ cashTx[r].seen # "paid"
             /\ job[cashTx[r].job] # "completed"
             /\ Rollback(r, "rejected")
          \/ /\ cashTx[r].seen # "paid"
             /\ job[cashTx[r].job] = "completed"
             /\ \/ Rollback(r, "rejected")     \* the tender or the change is wrong
                \/ /\ cashTx' = [cashTx EXCEPT ![r].at = "checked"]
                   /\ UNCHANGED <<job, payment, receipt, next, jobLock, seqLock>>

(* Mutant: a database sequence, which no rollback sets back.               *)
TakeNumberForGood(r) ==
  /\ At(r, "checked")
  /\ next' = next + 1
  /\ cashTx' = [cashTx EXCEPT ![r].at = "numbered", ![r].number = next]
  /\ UNCHANGED <<job, payment, receipt, jobLock, seqLock>>

(* Mutant: the payment is committed before its invoice is issued.          *)
TakeNumberOfPaid(r) ==
  /\ At(r, "checked")
  /\ seqLock = Nobody
  /\ seqLock' = r
  /\ payment' = [payment EXCEPT ![cashTx[r].job] = "paid"]
  /\ cashTx' = [cashTx EXCEPT ![r].at = "numbered", ![r].number = next]
  /\ UNCHANGED <<job, receipt, next, jobLock>>

(* _next_invoice_number                                                    *)
TakeNumber(r) ==
  /\ At(r, "checked")
  /\ seqLock = Nobody
  /\ seqLock' = r
  /\ cashTx' = [cashTx EXCEPT ![r].at = "numbered", ![r].number = next]
  /\ UNCHANGED <<job, payment, receipt, next, jobLock>>

(* Payment, transaction, job event, invoice and sequence are committed     *)
(* together.                                                               *)
Commit(r) ==
  /\ At(r, "numbered")
  /\ payment' = [payment EXCEPT ![cashTx[r].job] = "paid"]
  /\ receipt' = [receipt EXCEPT ![cashTx[r].job][cashTx[r].event] = cashTx[r].number]
  /\ next' = cashTx[r].number + 1
  /\ Finish(r, "recorded", cashTx[r].number)
  /\ UNCHANGED job

(* The connection or the process is lost before the commit, or the invoice *)
(* finds that its lines do not add up to the payment: all is undone.       *)
Fail(r) ==
  /\ cashTx[r].at \in {"asked", "locked", "checked", "numbered"}
  /\ Rollback(r, "none")

SettlementNext ==
  \/ \E j \in Job : Complete(j) \/ ApproveCancellation(j)
  \/ \E r \in Request :
       \/ Ask(r)
       \/ LockJob(r)
       \/ Check(r)
       \/ TakeNumber(r)
       \/ Commit(r)
       \/ Fail(r)

SettlementSpec == SettlementInit /\ [][SettlementNext]_settlementVars
-----------------------------------------------------------------------------
(* Properties.                                                             *)

Receipts == {p \in Job \X Tender : receipt[p[1]][p[2]] # 0}

PaidIsReceipted ==
  \A j \in Job :
    /\ payment[j] = "paid" <=> \E e \in Tender : receipt[j][e] # 0
    /\ payment[j] = "paid" => job[j] # "under_way"

RecordedIsCompleted ==
  \A r \in Request :
    cashTx[r].at \in {"checked", "numbered"} => job[cashTx[r].job] = "completed"

(* A payment says paid exactly when a transaction with its invoice is      *)
(* there, whatever fails between the two, and then the job is no longer    *)
(* under way: it was completed, and may have been cancelled since.  Until  *)
(* the receipt is committed it was not: no cancellation comes between the  *)
(* check of its status and the commit (docs/state-machines.md:45).         *)
PaidWithReceipt == PaidIsReceipted /\ RecordedIsCompleted

(* So a receipt is issued for a job that is completed at that very moment. *)
CashForCompletedWork ==
  [][\A j \in Job, e \in Tender :
       receipt[j][e] = 0 /\ receipt'[j][e] # 0
         => job[j] = "completed" /\ job'[j] = "completed"]_settlementVars

(* The invoices of a year are numbered without gaps or repetitions, also   *)
(* when requests take numbers at once and some of them are rolled back.    *)
NumbersAreConsecutive ==
  /\ {receipt[p[1]][p[2]] : p \in Receipts} = 1 .. next - 1
  /\ Cardinality(Receipts) = next - 1

(* All answers to one event name the same receipt, the first one and those *)
(* to its repetitions.                                                     *)
OneReceiptPerEvent ==
  \A r \in Request :
    cashTx[r].answer = "recorded" => receipt[cashTx[r].job][cashTx[r].event] = cashTx[r].number

(* A device that repeats what was recorded is never told that somebody     *)
(* else has been paid.                                                     *)
RepetitionIsRecognised ==
  [][\A r \in Request :
       /\ cashTx'[r].answer = "already_paid"
       /\ cashTx[r].answer # "already_paid"
       => receipt[cashTx[r].job][cashTx[r].event] = 0]_settlementVars

(* What docs/state-machines.md:45 says of cash: a transaction applies the  *)
(* amount that is outstanding, so that a booking is settled once.          *)
SettledOnce ==
  \A j \in Job : Cardinality({e \in Tender : receipt[j][e] # 0}) <= 1
=============================================================================
