SPECIFICATION FairSpec
CONSTANTS
  p1 = p1
  Session = {p1}
  Followed = {"calendar", "reports"}
  MaxCommits = 2
  MaxRestarts = 1
INVARIANTS RevisionsTellChanges NothingElseMissed
PROPERTIES Converges
CHECK_DEADLOCK FALSE
