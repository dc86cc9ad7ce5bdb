CONSTANTS
  x = x
  y = y
  bad = bad
  other = other
  NoSession = NoSession
  Sessions = {1, 2}
  PlainClient = PlainClient
  N = 2
  Changes <- MCChanges
  Valid <- MCValid
  Applicable <- MCValid
  Plans <- MCAcceptedPlans
  ChangesOfOthers <- MCOthers
  executeAtStartOfPeriod = TRUE
  TimedApps = {}
  Lead = 2
  ReleaseLead = 1
  CommitDelay = 1
  MaxCandidate = 1
SPECIFICATION Spec
CHECK_DEADLOCK FALSE
INVARIANT AbortUnlocksAll
