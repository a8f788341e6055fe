CONSTANTS
    c1 = c1
    c2 = c2
    c3 = c3
    Conn = {c1, c2}
    AddrOf <- DistinctAddr
    SessionId = {s1, s2}
    NoId = NoId
    NoConn = NoConn
    Token = {good, bad}
    NoToken = NoToken
    ServerToken = good
    FirstId = 2
    OctetSpace = 2
    QueueCap = 1
    Expiry = 1
    MaxTime = 1
    MaxPackets = 1
    MaxHandshakes = 2
SPECIFICATION Spec
SYMMETRY Symmetry
INVARIANTS TypeOK UniqueVirtualIP OneAddressPerSession  RouteIsCurrent RegisteredIsRoutable
PROPERTY NoStrayRemoval
CHECK_DEADLOCK FALSE
