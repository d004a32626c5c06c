SPECIFICATION FairSpec
CONSTANTS
  Holding = {h1, h2}
  Confirming = {b1}
  Correcting = {c1}
  Nobody = Nobody
  Team = {t1}
  Grid = {0, 2, 4}
  SlotLength = 2
  Required = 2
  Length = 5
  Turnaround = 0
  RowId <- Reversed
INVARIANTS
  ConsumedOnce
  NoDaySlotDeadlock
PROPERTIES
  Served
CHECK_DEADLOCK FALSE
