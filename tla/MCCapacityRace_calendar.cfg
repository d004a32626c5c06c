SPECIFICATION Spec
CONSTANTS
  Holding = {h1, h2, h3}
  Confirming = {b1, b2}
  Correcting = {}
  Nobody = Nobody
  Team = {t1}
  Grid = {0, 2, 4}
  SlotLength = 2
  Required = 1
  Length = 3
  Turnaround = 0
  RowId <- Reversed
INVARIANTS
  JobsHaveTheirSlots
PROPERTIES
  ImplementsCalendar
CHECK_DEADLOCK FALSE
