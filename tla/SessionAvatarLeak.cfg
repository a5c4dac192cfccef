SPECIFICATION Spec
CONSTANTS
    Sessions = {1}
    Callers = {1}
    SendBufSize = 1
    MsgQueueSize = 2
    Scenarios <- SpawnElsewhere
INVARIANTS AvatarsReaped
CHECK_DEADLOCK FALSE
