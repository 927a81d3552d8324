SPECIFICATION FairSpec
CONSTANTS
  c1 = c1
  k1 = k1
  k2 = k2
  Clients = {c1}
  RawClients = {c1}
  Keys = {k1, k2}
  Durable = {"commit", "close"}
  Local = {"mount", "shutdown"}
  Reads = {"status"}
  Shutdown = "shutdown"
  RequestAttempts = 2
  Capacity = 1
  MaxRequests = 2
  MaxCrashes = 1
  Faults = {"timeout", "store", "launch", "age"}
INVARIANT AnswersHonest
PROPERTIES EvidenceKept CallsReturn ImplementsDurableCall
