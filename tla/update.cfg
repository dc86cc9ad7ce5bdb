CONSTANTS
  a = a
  b = b
  c = c
  d = d
  NoSwitch = NoSwitch
  NoFrame = NoFrame
  Streams = {1,2}
  Switches <- Triangle
  FlowOf <- MCFlowOf
  Ingress <- TriangleIngress
  CandidatePaths <- TrianglePaths
  VersionSpace = 5
  LastVersion = 4
  Moves = "settled"
  RulesExpire = FALSE
  Observed = {}
  isTaggingEnabled = TRUE
  MaxFlowEntries = 0
SPECIFICATION FairSpec
CHECK_DEADLOCK FALSE
INVARIANTS TypeOK DeployInv ReleasedOnlyWhenDeployed
PROPERTIES AssignmentsTakeEffect ImplementsStreamUpdate
