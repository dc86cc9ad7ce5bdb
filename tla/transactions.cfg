CONSTANTS
  x = x
  y = y
  bad = bad
  other = other
  NoSession = NoSession
  Sessions = {1, 2}
  PlainClient = PlainClient
  N = 2
  Changes <- MCChanges
  Valid <- MCValid
  Applicable <- MCValid
  Plans <- MCPlans
  ChangesOfOthers <- MCOthers
  executeAtStartOfPeriod = TRUE
  TimedApps = {2}
  Lead = 2
  ReleaseLead = 1
  CommitDelay = 1
  MaxCandidate = 1
SPECIFICATION FairSpec
CHECK_DEADLOCK FALSE
INVARIANTS TransactionTypeOK AllOrNothing CommitsOwnChangesOnly LockBelief NothingLeftBehind CommitsReachTheirCycle
PROPERTIES ChangesInTheirCycle TransactionsEnd
