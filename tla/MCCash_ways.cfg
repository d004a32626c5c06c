SPECIFICATION MCSpec
CONSTANTS
  Job = {j1, j2}
  Tender = {e1, e2}
  Request = {r1, r2, r3, r4}
  Nobody = Nobody
  Payment <- MCPayment
  Amount <- MCAmount
  Collector <- MCCollector
  Declared = {2, 5}
  Event = {e1, e2}
  Expense = {x1}
  Evidence = {v1, v2}
  EvidenceOf <- MCEvidenceOf
  Session = {p1, p2}
  NoEvidence = NoEvidence
INVARIANTS
  
  NumbersAreConsecutive
  OneReceiptPerEvent
  CashIsAccounted
  CheckedCashIsFree
  NoHandoverDeadlock
  ReadyIsChecked
PROPERTIES
  RepetitionIsRecognised
  HandoverHistoryKept
CHECK_DEADLOCK FALSE
