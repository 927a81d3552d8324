CONSTANTS
    i1 = i1  i2 = i2  d1 = d1  d2 = d2
    Invocations = {i1, i2}
    Ids = {d1}
    RequestId <- ReusedRequestId
    ModeOf <- AllUnary
    Callers = {x1}
    None = None
    MaxPerSession = 1
    MaxActive = 2
    History = 1
    MaxEvents = 1
    Faults = {"disconnect"}
SPECIFICATION FairSpec
INVARIANT TableSound
PROPERTY SessionDrains
CHECK_DEADLOCK FALSE
