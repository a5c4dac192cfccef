SPECIFICATION Spec
CONSTANTS
    Sessions = {1, 2}
    MaxMessage = 8
    MaxChunk = 6
    MaxDatagram = 10
    Prefix = 1
    PacketHeader = 2
    MessageID = 1
    OrderedSeq = 1
    Token = 2
    AckHeader = 2
    SendBuf = 1
    Sizes = {0, 2, 4, 7}
    MaxFrames = 3
    MaxBatch = 3
    MaxCalls = 2
INVARIANTS DownlinkExact UplinkExact
PROPERTIES RefusedDoesNothing
CHECK_DEADLOCK FALSE
