CONSTANTS
  a = a
  b = b
  c = c
  d = d
  NoSwitch = NoSwitch
  NoFrame = NoFrame
  Streams = {1,2}
  Switches <- Diamond
  FlowOf <- MCFlowOf
  Ingress <- DiamondIngress
  CandidatePaths <- DiamondPaths
  VersionSpace = 8
  LastVersion = 7
  Moves = "settled"
  RulesExpire = FALSE
  Observed = {1}
  isTaggingEnabled = TRUE
  MaxFlowEntries = 0
SPECIFICATION Spec
CHECK_DEADLOCK FALSE
INVARIANT ForwardedByItsVersion
