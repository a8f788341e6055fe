CONSTANTS
    Client = {a}
    SessionId = {s1, s2, s3}
    NoId = NoId
    Token = {good, other}
    NoToken = NoToken
    OctetSpace = 3
    MaxAttempts = 3
    ServerToken = good
    FirstId = 2
    MaxRestarts = 1
    MaxHours = 1
    ClientToken = good
    Torn = Torn
    MaxDelay = 2
SPECIFICATION Spec
SYMMETRY Symmetry
INVARIANTS PersistedBeforeUse 
PROPERTIES RestartKeepsAddress
CHECK_DEADLOCK FALSE
