CONSTANTS
    Client = {a}
    SessionId = {s1, s2}
    NoId = NoId
    Token = {good, other}
    NoToken = NoToken
    OctetSpace = 3
    MaxAttempts = 2
    ServerToken = good
    FirstId = 2
    MaxRestarts = 0
    MaxHours = 0
    ClientToken = good
    Torn = Torn
    MaxDelay = 2
SPECIFICATION Spec
SYMMETRY Symmetry
PROPERTY ReconnectKeepsAddress
CHECK_DEADLOCK FALSE
