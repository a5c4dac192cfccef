SPECIFICATION Spec
CONSTANTS
    Callers = {"a"}
    Closers = {"d"}
    Programs <- ProgramsHere
    MaxConnections = 2
    MaxCuts = 1
    QueueSize = 1
INVARIANT NoneLeftOpen
PROPERTIES ImplementsClientSession NoBatchAfterDisconnect CallsReturn CutIsReported
CHECK_DEADLOCK FALSE
