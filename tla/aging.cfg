CONSTANTS
  Listeners = {1, 2, 3}
  Keepers = {1}
  agingTime = 3
SPECIFICATION FairSpec
INVARIANTS AgingTypeOK StreamsForListeners
PROPERTY AgedEntriesGo
