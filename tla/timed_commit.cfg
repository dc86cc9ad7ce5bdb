CONSTANTS
  x = x
  y = y
  u = u
  v = v
  NoSession = NoSession
  Sessions = {1, 2}
  Changes <- MCChanges
  ChangesOf <- MCChangesOf
  Valid <- MCValid
  Applicable <- MCApplicable
  UseTimestamps = TRUE
  MaxCandidate = 2
  executeAtStartOfPeriod = FALSE
  MaxTimedCommits = 1
SPECIFICATION Spec
CHECK_DEADLOCK FALSE
PROPERTY LockedRunningStable
