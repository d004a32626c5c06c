SPECIFICATION SettlementSpec
CONSTANTS
  Job = {j1}
  Tender = {e1, e2}
  Request = {r1, r2}
  Nobody = Nobody
INVARIANT
  SettledOnce
CHECK_DEADLOCK FALSE
