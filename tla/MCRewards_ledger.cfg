SPECIFICATION MCSpec
CONSTANTS
  b1 = b1
  b2 = b2
  k1 = k1
  k2 = k2
  Booking <- MCBooking
  Lines <- MCLines
  Price = 3
  Reward = {1, 2}
  Manual <- MCManual
  Required = {3}
  Percent = {100}
  Key = {k1, k2}
  MaxChanges = 1
  Session = {p1, p2}
  None = None
SYMMETRY MCSymmetry
INVARIANTS
  WashesAreCredited
  NeverOverdrawn
  RewardsComeWhenDue
  LedgerExplainsRewards
  CustomerNeverDeadlocks
  RepetitionIsAnswered
CHECK_DEADLOCK FALSE
