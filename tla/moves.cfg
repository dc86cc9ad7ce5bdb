CONSTANTS
  a = a
  b = b
  c = c
  d = d
  NoSwitch = NoSwitch
  NoFrame = NoFrame
  Streams = {1,3}
  Switches <- Triangle
  FlowOf <- MCFlowOf
  Ingress <- TriangleIngress
  CandidatePaths <- TrianglePaths
  VersionSpace = 6
  LastVersion = 5
  Moves = "any"
  RulesExpire = TRUE
  Observed = {}
  isTaggingEnabled = TRUE
  MaxFlowEntries = 0
SPECIFICATION Spec
CHECK_DEADLOCK FALSE
INVARIANT VersionsUnique
