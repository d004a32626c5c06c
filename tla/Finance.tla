------------------------------ MODULE Finance ------------------------------
(* Handovers of the cash that staff collected, and expenses with the files  *)
(* that prove them (services/finance.py).  A request is a transaction; the  *)
(* ones whose reads and writes others may come between have steps.          *)
EXTENDS Integers, FiniteSets, Functions

CONSTANTS
  Payment,     \* cash transactions, by their place in the order of their ids
  Amount,      \* amount_minor of each
  Collector,   \* actor_staff_id of each
  Declared,    \* what a manager may count
  Event,       \* client_event_id of handovers
  Expense,     \* expenses, each of one client_event_id
  Evidence,    \* files, each of one client_request_id
  EvidenceOf,  \* the expense a file belongs to
  Session,     \* database sessions of the API
  NoEvidence

ASSUME CashAssumption ==
  /\ Payment \subseteq Nat /\ IsFiniteSet(Payment)
  /\ Amount \in [Payment -> Nat \ {0}]
  /\ DOMAIN Collector = Payment
  /\ Declared \subseteq Nat

ASSUME EvidenceAssumption ==
  /\ EvidenceOf \in [Evidence -> Expense]
  /\ NoEvidence \notin Evidence

VARIABLES
  collected,  \* the recorded transactions: succeeded payments in cash
  rec,        \* cash_reconciliations, by client_event_id
  link,       \* the active cash_reconciliation_payments
  expense,    \* expenses
  evidence,   \* expense_evidence: the upload status
  object,     \* what the storage has under the path of each file
  tx          \* the open request of each session

cash == <<collected, rec, link>>

files == <<expense, evidence, object>>

vars == <<cash, files, tx>>
-----------------------------------------------------------------------------
(* Rows.                                                                    *)

Total(payments) == SumFunctionOnSet(Amount, payments)

Sums == {0} \cup {Total(payments) : payments \in SUBSET Payment}

CashReconciliation ==
  [status : {"none", "confirmed", "voided"}, payments : SUBSET Payment,
   expected : Sums, declared : Declared \cup {0}]

NoReconciliation == [status |-> "none", payments |-> {}, expected |-> 0, declared |-> 0]

ExpenseRow ==
  [status : {"none", "active", "voided"},
   evidence : {"complete", "missing_evidence", "not_required"},
   receipt : Evidence \cup {NoEvidence}]

NoExpense == [status |-> "none", evidence |-> "missing_evidence", receipt |-> NoEvidence]

Idle == [kind |-> "idle"]

(* A handover reads what it hands over, locks its rows, and checks again.   *)
Handover ==
  [kind : {"handover"}, event : Event, payments : SUBSET Payment, declared : Declared,
   locked : SUBSET Payment, checked : BOOLEAN]

Upload == [kind : {"upload"}, file : Evidence]

(* A confirmation asks the storage, locks the row of the file, and writes.  *)
Confirm ==
  [kind : {"asked", "confirm"}, file : Evidence, info : {"valid", "invalid"},
   receipt : Evidence \cup {NoEvidence}]

Transaction == {Idle} \cup Handover \cup Upload \cup Confirm

TypeOK ==
  /\ collected \subseteq Payment
  /\ rec \in [Event -> CashReconciliation]
  /\ link \subseteq Event \X Payment
  /\ expense \in [Expense -> ExpenseRow]
  /\ evidence \in [Evidence -> {"none", "pending", "ready"}]
  /\ object \in [Evidence -> {"none", "valid", "invalid"}]
  /\ tx \in [Session -> Transaction]

Init ==
  /\ collected = {}
  /\ rec = [e \in Event |-> NoReconciliation]
  /\ link = {}
  /\ expense = [x \in Expense |-> NoExpense]
  /\ evidence = [v \in Evidence |-> "none"]
  /\ object = [v \in Evidence |-> "none"]
  /\ tx = [p \in Session |-> Idle]
-----------------------------------------------------------------------------
(* What the pages of finance show.                                          *)

Linked(c) == \E e \in Event : <<e, c>> \in link

(* Cash that nobody has handed over.                                        *)
Pending == {c \in collected : ~Linked(c)}

PendingCash(s) == Total({c \in Pending : Collector[c] = s})

(* A line of the list of handovers: short is below zero, over above.        *)
ReconciliationView(e) ==
  [payments |-> rec[e].payments, difference |-> rec[e].declared - rec[e].expected]

Confirmed == {e \in Event : rec[e].status = "confirmed"}

(* The overview of a range that covers everything.                          *)
FinanceOverview ==
  [collected |-> Total(collected),
   pending |-> Total(Pending),
   shortOver |-> SumFunction([e \in Confirmed |-> ReconciliationView(e).difference])]

ExpenseView(x) == [counted |-> expense[x].status = "active",
                   receipt |-> expense[x].receipt # NoEvidence]

(* The files that the voucher of an expense names.                          *)
Voucher(x) == {v \in Evidence : EvidenceOf[v] = x /\ evidence[v] = "ready"}
-----------------------------------------------------------------------------
(* Handovers of cash.                                                       *)

Begin(p, t) ==
  /\ tx[p] = Idle
  /\ tx' = [tx EXCEPT ![p] = t]

End(p) == tx' = [tx EXCEPT ![p] = Idle]

Abort(p) ==
  /\ tx[p] # Idle
  /\ End(p)
  /\ UNCHANGED <<cash, files>>

RecordCash(c) ==
  /\ c \notin collected
  /\ collected' = collected \cup {c}
  /\ UNCHANGED <<rec, link, files, tx>>

(* The statement that locks the rows takes its snapshot.  An event that has *)
(* its row is answered with it.                                             *)
BeginReconciliation(p, e, s, payments, declared) ==
  /\ rec[e].status = "none"
  /\ payments # {}
  /\ payments \subseteq {c \in Pending : Collector[c] = s}
  /\ Begin(p, [kind |-> "handover", event |-> e, payments |-> payments,
               declared |-> declared, locked |-> {}, checked |-> FALSE])
  /\ UNCHANGED <<cash, files>>

Missing(p) == tx[p].payments \ tx[p].locked

(* Mutant: the rows come in no order.                                       *)
NextRowUnordered(p, c) == c \in Missing(p)

(* ORDER BY the id, FOR UPDATE.                                             *)
NextRow(p, c) == c \in Missing(p) /\ \A d \in Missing(p) : c <= d

Holds(p, c) == tx[p].kind = "handover" /\ c \in tx[p].locked

LockPayment(p, c) ==
  /\ tx[p].kind = "handover"
  /\ NextRow(p, c)
  /\ \A q \in Session : ~Holds(q, c)
  /\ tx' = [tx EXCEPT ![p].locked = @ \cup {c}]
  /\ UNCHANGED <<cash, files>>

(* Mutant: the links are not read again under the locks.                    *)
CheckLinksNever(p) ==
  /\ tx[p].kind = "handover" /\ ~tx[p].checked /\ Missing(p) = {}
  /\ tx' = [tx EXCEPT ![p].checked = TRUE]
  /\ UNCHANGED <<cash, files>>

(* A payment linked since the snapshot is a conflict.                       *)
CheckLinks(p) ==
  /\ tx[p].kind = "handover" /\ ~tx[p].checked /\ Missing(p) = {}
  /\ \A c \in tx[p].payments : ~Linked(c)
  /\ tx' = [tx EXCEPT ![p].checked = TRUE]
  /\ UNCHANGED <<cash, files>>

(* Mutant: without the unique index on the event.                           *)
CommitReconciliationAnyway(p) ==
  LET t == tx[p] IN
  /\ t.kind = "handover" /\ t.checked
  /\ rec' = [rec EXCEPT ![t.event] =
               [status |-> "confirmed", payments |-> t.payments,
                expected |-> Total(t.payments), declared |-> t.declared]]
  /\ link' = link \cup ({t.event} \X t.payments)
  /\ End(p)
  /\ UNCHANGED <<collected, files>>

(* The unique indexes refuse an event that has a row by now and a second    *)
(* active link of a payment.  A difference needs a note, or else is refused.*)
CommitReconciliation(p) ==
  LET t == tx[p] IN
  /\ t.kind = "handover" /\ t.checked
  /\ rec[t.event].status = "none"
  /\ \A c \in t.payments : ~Linked(c)
  /\ rec' = [rec EXCEPT ![t.event] =
               [status |-> "confirmed", payments |-> t.payments,
                expected |-> Total(t.payments), declared |-> t.declared]]
  /\ link' = link \cup ({t.event} \X t.payments)
  /\ End(p)
  /\ UNCHANGED <<collected, files>>

(* Mutant: a void keeps its links.                                          *)
VoidReconciliationKeepsLinks(e) ==
  /\ rec[e].status = "confirmed"
  /\ rec' = [rec EXCEPT ![e].status = "voided"]
  /\ UNCHANGED <<collected, link, files, tx>>

(* A voided one is answered as it is.                                       *)
VoidReconciliation(e) ==
  /\ rec[e].status = "confirmed"
  /\ rec' = [rec EXCEPT ![e].status = "voided"]
  /\ link' = link \ ({e} \X Payment)
  /\ UNCHANGED <<collected, files, tx>>
-----------------------------------------------------------------------------
(* Expenses and their evidence.                                             *)

CreateExpense(x, told) ==
  /\ expense[x].status = "none"
  /\ expense' = [expense EXCEPT ![x] =
                   [status |-> "active", evidence |-> told, receipt |-> NoEvidence]]
  /\ UNCHANGED <<cash, evidence, object, tx>>

VoidExpense(x) ==
  /\ expense[x].status = "active"
  /\ expense' = [expense EXCEPT ![x].status = "voided"]
  /\ UNCHANGED <<cash, evidence, object, tx>>

(* The expense is read, not locked.                                         *)
BeginUpload(p, v) ==
  /\ expense[EvidenceOf[v]].status = "active"
  /\ evidence[v] = "none"
  /\ Begin(p, [kind |-> "upload", file |-> v])
  /\ UNCHANGED <<cash, files>>

CommitUpload(p) ==
  /\ tx[p].kind = "upload"
  /\ evidence[tx[p].file] = "none"
  /\ evidence' = [evidence EXCEPT ![tx[p].file] = "pending"]
  /\ End(p)
  /\ UNCHANGED <<cash, expense, object>>

(* Mutant: the grant lets a file be replaced.                               *)
StoreAgain(v, content) ==
  /\ evidence[v] # "none"
  /\ object' = [object EXCEPT ![v] = content]
  /\ UNCHANGED <<cash, expense, evidence, tx>>

(* The phone uses its grant, which does not replace a file (upsert).        *)
Store(v, content) ==
  /\ evidence[v] # "none"
  /\ object[v] = "none"
  /\ object' = [object EXCEPT ![v] = content]
  /\ UNCHANGED <<cash, expense, evidence, tx>>

(* The storage is asked between two transactions.                           *)
AskObject(p, v) ==
  /\ evidence[v] # "none"
  /\ object[v] # "none"
  /\ Begin(p, [kind |-> "asked", file |-> v, info |-> object[v], receipt |-> NoEvidence])
  /\ UNCHANGED <<cash, files>>

(* Only the row of the file is locked: the expense is that of a snapshot.   *)
LockEvidence(p) ==
  /\ tx[p].kind = "asked"
  /\ \A q \in Session : tx[q].kind = "confirm" => tx[q].file # tx[p].file
  /\ tx' = [tx EXCEPT ![p].kind = "confirm",
                      ![p].receipt = expense[EvidenceOf[tx[p].file]].receipt]
  /\ UNCHANGED <<cash, files>>

ConfirmEvidence(p) ==
  LET t == tx[p] IN
  /\ t.kind = "confirm"
  /\ evidence[t.file] = "pending"
  /\ t.info = "valid"
  /\ evidence' = [evidence EXCEPT ![t.file] = "ready"]
  /\ expense' = [expense EXCEPT
       ![EvidenceOf[t.file]].evidence = "complete",
       ![EvidenceOf[t.file]].receipt = IF t.receipt = NoEvidence THEN t.file ELSE @]
  /\ End(p)
  /\ UNCHANGED <<cash, object>>
-----------------------------------------------------------------------------
NextCash ==
  \/ \E c \in Payment : RecordCash(c)
  \/ \E p \in Session :
       \/ \E e \in Event, s \in {Collector[c] : c \in Payment},
            payments \in SUBSET collected, declared \in Declared :
            BeginReconciliation(p, e, s, payments, declared)
       \/ \E c \in Payment : LockPayment(p, c)
       \/ CheckLinks(p)
       \/ CommitReconciliation(p)
  \/ \E e \in Event : VoidReconciliation(e)

NextFiles ==
  \/ \E x \in Expense :
       \/ \E told \in {"complete", "missing_evidence", "not_required"} : CreateExpense(x, told)
       \/ VoidExpense(x)
  \/ \E p \in Session :
       \/ \E v \in Evidence : BeginUpload(p, v) \/ AskObject(p, v)
       \/ CommitUpload(p) \/ LockEvidence(p) \/ ConfirmEvidence(p)
  \/ \E v \in Evidence, content \in {"valid", "invalid"} : Store(v, content)

Next == NextCash \/ NextFiles \/ \E p \in Session : Abort(p)

Spec == Init /\ [][Next]_vars
-----------------------------------------------------------------------------
(* Properties.                                                              *)

(* No cash is lost or handed over twice: what was collected, with what was  *)
(* found short or over, is what is pending and what confirmed handovers     *)
(* declare, after any handovers at once, repeated and voided; and what each *)
(* collector is asked for adds up to what the overview reports.             *)
CashIsAccounted ==
  /\ FinanceOverview.collected + FinanceOverview.shortOver
       = FinanceOverview.pending + SumFunction([e \in Confirmed |-> rec[e].declared])
  /\ FinanceOverview.pending
       = SumFunction([s \in {Collector[c] : c \in Payment} |-> PendingCash(s)])

(* The second look at the links, under the locks, leaves nothing to the     *)
(* unique index: no payment of a checked handover can be linked before its  *)
(* commit, nor be in another checked one.                                   *)
CheckedCashIsFree ==
  \A p \in Session : tx[p].kind = "handover" /\ tx[p].checked =>
    /\ tx[p].payments \subseteq Pending
    /\ \A q \in Session \ {p} :
         tx[q].kind = "handover" /\ tx[q].checked => tx[p].payments \cap tx[q].payments = {}

(* Handovers are a record: one that was confirmed keeps its payments and    *)
(* sums for ever, and can only be voided, once.                             *)
HandoverHistoryKept ==
  [][\A e \in Event : rec[e].status # "none" =>
       \/ rec'[e] = rec[e]
       \/ rec[e].status = "confirmed" /\ rec'[e] = [rec[e] EXCEPT !.status = "voided"]]_vars

(* Handovers of the same payments wait in line and never for each other.    *)
Waits(p, q) ==
  /\ tx[p].kind = "handover"
  /\ \E c \in Payment : NextRow(p, c) /\ Holds(q, c)

NoHandoverDeadlock == \A p, q \in Session : ~(Waits(p, q) /\ Waits(q, p))

(* Evidence that counts was checked and is what the storage has, although   *)
(* it is looked at before the transaction; and the receipt of an expense is *)
(* among the files of its voucher, although two confirmations may set it.   *)
ReadyIsChecked ==
  /\ \A v \in Evidence : evidence[v] = "ready" =>
       object[v] = "valid" /\ expense[EvidenceOf[v]].evidence = "complete"
  /\ \A x \in Expense : ExpenseView(x).receipt => expense[x].receipt \in Voucher(x)
=============================================================================
