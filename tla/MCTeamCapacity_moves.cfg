SPECIFICATION Spec
CONSTANTS
  t1 = t1
  t2 = t2
  h1 = h1
  h2 = h2
  h3 = h3
  b1 = b1
  b2 = b2
  NoTeam = NoTeam
  NoHold = NoHold
  NoBooking = NoBooking
  Team = {t1, t2}
  HoldId = {h1, h2}
  BookingId = {b1, b2}
  Days = 1
  OpenDays = {0}
  DayLength = 5
  Opening = 1
  Closing = 4
  SlotLength = 2
  VehicleCounts = {1}
  Threshold = 3
  SlotsAtThreshold = 2
  Durations = {2}
  Turnaround = 1
  HoldLife = 1
  Cutoff = 1
  Blocked = {}
  Unsteady = {}
  MaxTime = 0
SYMMETRY Symmetry
INVARIANTS TurnaroundKept JobsHoldTheirSlots 
PROPERTIES ManualStaysSticky 
CHECK_DEADLOCK FALSE
