CONSTANTS
    i1 = i1  i2 = i2  d1 = d1  d2 = d2
    Invocations = {i1}
    Ids = {d1}
    RequestId <- FreshRequestId
    ModeOf <- AllSubscriptions
    Callers = {x1, x2}
    None = None
    MaxPerSession = 1
    MaxActive = 1
    History = 2
    MaxEvents = 2
    Faults = {"disconnect", "abort"}
SPECIFICATION Spec
SYMMETRY CallerSymmetry
INVARIANTS StreamsLegal Handover DispositionsHonest ValidatedStaysValid TableSound
CHECK_DEADLOCK FALSE
