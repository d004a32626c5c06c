SPECIFICATION Spec
CONSTANTS
  t1 = t1
  t2 = t2
  h1 = h1
  h2 = h2
  h3 = h3
  b1 = b1
  b2 = b2
  NoTeam = NoTeam
  NoHold = NoHold
  NoBooking = NoBooking
  Team = {t1}
  HoldId = {h1, h2, h3}
  BookingId = {b1, b2}
  Days = 1
  OpenDays = {0}
  DayLength = 9
  Opening = 1
  Closing = 5
  SlotLength = 2
  VehicleCounts = {1, 3}
  Threshold = 3
  SlotsAtThreshold = 2
  Durations = {2, 4}
  Turnaround = 0
  HoldLife = 1
  Cutoff = 1
  Blocked <- OneBlocked
  Unsteady = {t1}
  MaxTime = 1
SYMMETRY Symmetry
INVARIANTS NoOverlap LiveHoldKeepsSlots
CHECK_DEADLOCK FALSE
