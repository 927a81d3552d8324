CONSTANTS
  Hosts <- MCHosts
  Commands <- MCCommands
  SessionBound = 2
  RequestAttempts = 2
  FaultBound = 1
  HeaderBytes = 2
  ByteValues = 2
  MaxFrameBytes = 3
SPECIFICATION FairSpec
INVARIANTS CommandsSound RunsMounted PlanSound
PROPERTY CommandsEnd
CHECK_DEADLOCK FALSE
