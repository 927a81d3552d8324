SPECIFICATION PublicationFairSpec
CONSTANTS
  h1 = h1
  h2 = h2
  Hosts = {h1, h2}
  MaxManifests = 2
  MaxFaults = 2
  Pruning = TRUE
PROPERTY OutboxDrains
INVARIANTS PublishedIsInGraph NothingLost ReportHolds
