SPECIFICATION Spec
CONSTANTS
  Unrenderable = {2}
  AutoHeal = FALSE
  MaxChanges = 3
  MaxJobs = 1
INVARIANTS FileFollowsDatastore SnapshotAsked StaleGnbIsFlagged
PROPERTY GnbNeverGoesBack
