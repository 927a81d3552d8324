CONSTANTS
    a = a  b = b
    open = open  call = call  close = close  other = other
    Connections = {a, b}
    Requests = {open, call, close}
    ConnOf <- Connection
    KindOf <- Kind
    None = None
    MaxSessions = 1
    MaxInFlight = 2
    MaxConnections = 1
    Faults = {"read", "writer", "timeout", "listener", "cancel"}
SPECIFICATION FairSpec
INVARIANT HostSound
PROPERTY HostDrains
CHECK_DEADLOCK FALSE
