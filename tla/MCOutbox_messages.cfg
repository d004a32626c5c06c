SPECIFICATION MCSpec
CONSTANTS
  Worker = {w1, w2}
  NoWorker = NoWorker
  Lost = Lost
  s1 = s1
  s2 = s2
  ReclaimAfter = 1
  Backoff <- Doubled
  Booking = {b1}
  Start = {s1, s2}
  Lead <- TwoStarts
  Update = {u1, u2}
  Window = 1
  MaxAttempts = 2
  MaxDelay = 1
  Batch = 1
  MaxFaults = 1
  MaxRows = 1
INVARIANTS
  SentWasAccepted
  UpdateDeliveredOnce
PROPERTIES
  ClosedBookingsAreNotReminded
  Settles
