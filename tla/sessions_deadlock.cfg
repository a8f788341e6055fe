CONSTANTS
    c1 = c1
    c2 = c2
    c3 = c3
    Conn = {c1, c2}
    AddrOf <- DistinctAddr
    SessionId = {s1, s2}
    NoId = NoId
    NoConn = NoConn
    Token = {good}
    NoToken = NoToken
    ServerToken = good
    FirstId = 2
    OctetSpace = 3
    QueueCap = 1
    Expiry = 3
    MaxTime = 0
    MaxPackets = 2
    MaxHandshakes = 1
SPECIFICATION FairSpec
PROPERTY HandshakeFinishes
CHECK_DEADLOCK FALSE
