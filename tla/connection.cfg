CONSTANTS
  N = 3
  Talkers = {1, 2}
  HostSwitches = {1, 2}
  ExampleSchedule = FALSE
SPECIFICATION FairSpec
CHECK_DEADLOCK FALSE
INVARIANTS ConnectionTypeOK HasControllerIsRegistered AcksAreAttributed
PROPERTIES FailsOnlyInSetup HandshakesComplete RequestsAnswered
