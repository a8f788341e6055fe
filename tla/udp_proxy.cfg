CONSTANTS
    Key = {k1, k2}
    Session = {s1, s2}
    NoSession = NoSession
    NoKey = NoKey
    MaxDatagrams = 3
    Stream = {t1, t2}
SPECIFICATION ProxyFairSpec
INVARIANTS TypeOK TableIsServing ActiveIsExact TcpActiveIsExact
PROPERTIES RelayedInOrder ChannelDrains SessionsEndAfterStop
CHECK_DEADLOCK FALSE
