CONSTANTS
  h1 = h1
  h2 = h2
  h3 = h3
  h4 = h4
  s1 = s1
  s2 = s2
  App = App
  NoModule = NoModule
  Hosts = {h1, h2, h3, h4}
  Switches = {s1, s2}
  Links <- MCLinks
  Streams = {1, 2}
  TalkerOf <- MCTalkerOf
  SinksOf <- MCSinksOf
  Bandwidth <- MCBandwidth
  Reservable = 2
  MaxRenewals = 1
  MaxFlowEntries = 0
SPECIFICATION FairSpec
CHECK_DEADLOCK FALSE
INVARIANTS ReservationTypeOK NeverThrows WithinCapacity RuleBeforeReady ReservationsReachASink
PROPERTY SubscriptionsClimb
