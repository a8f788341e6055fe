CONSTANTS
    Mode = {"client", "udp", "tcp"}
    Conn = {c1, c2}
    NoConn = NoConn
    Capacity = 1
    MaxRead = 2
    MaxReplies = 1
    Direct = {"client", "udp"}
    MaxReceived = 2
    MaxGot = 2
SPECIFICATION FairSpec
INVARIANTS TypeOK NothingLost ClientOrderKept DeviceOrderKept
PROPERTY FailureSpreads
CHECK_DEADLOCK FALSE
