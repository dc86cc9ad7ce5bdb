CONSTANTS
  a = a
  b = b
  c = c
  d = d
  NoSwitch = NoSwitch
  NoFrame = NoFrame
  Streams = {1,3}
  Switches <- Diamond
  FlowOf <- MCFlowOf
  Ingress <- DiamondIngress
  CandidatePaths <- DiamondPaths
  VersionSpace = 6
  LastVersion = 5
  Moves = "settled"
  RulesExpire = FALSE
  Observed = {1}
  isTaggingEnabled = TRUE
  MaxFlowEntries = 0
SPECIFICATION Spec
CHECK_DEADLOCK FALSE
INVARIANTS VersionsBelongToTheirStream NoMissOnceActive
PROPERTY ActivationInOrder
