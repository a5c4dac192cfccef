SPECIFICATION FairSpec
CONSTANTS
    Sessions = {1, 2}
    Callers = {1, 2}
    SendBufSize = 1
    MsgQueueSize = 2
    Scenarios <- Situations
INVARIANTS EventsInOrder NothingStranded ShutdownIsComplete NoZombie AvatarsReaped
PROPERTIES CloseIsFinal ClosesComplete
CHECK_DEADLOCK FALSE
