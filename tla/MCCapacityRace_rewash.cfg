SPECIFICATION Spec
CONSTANTS
  Holding = {h1, h2}
  Confirming = {}
  Correcting = {c1}
  Nobody = Nobody
  Team = {t1}
  Grid = {0, 2, 4}
  SlotLength = 2
  Required = 1
  Length = 3
  Turnaround = 0
  RowId <- Reversed
INVARIANTS
  HardOverlapNever
CHECK_DEADLOCK FALSE
