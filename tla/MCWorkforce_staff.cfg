SPECIFICATION Spec
CONSTANTS
  e1 = e1
  e2 = e2
  day = day
  j1 = j1
  p1 = p1
  p2 = p2
  t1 = t1
  l1 = l1
  Staff = {e1, e2}
  Team = {t1}
  Job = {j1}
  Shift = {day}
  Session = {p1, p2}
  Leave = {l1}
  DayLength = 2
  LastDay = 0
  ShiftStart <- StartsAt
  ShiftEnd <- EndsAt
  Grace = 0
  WorkDay <- LastDayWork
  Unsteady = {e2, t1}
  Followed = {e1}
  MaxSessions = 2
  NoTeam = NoTeam
  NoStaff = NoStaff
  NoShift = NoShift
SYMMETRY Sessions
INVARIANTS SessionsApart DecisionsHold
PROPERTIES MembersAreTheWantedOnes PresenceIsKept
