\* Two programs ping one target; nothing fails or times out.
CONSTANTS
    k1 = k1
    k2 = k2
    t = t
    None = None
    Key = {k1, k2}
    TargetOf <- SameTarget
    Session = {s1, s2}
    IdentSpace = 3
    FirstIdent = 1
    MaxRequests = 2
    MaxFaults = 0
SPECIFICATION FairSpec
PROPERTY ForwardedIsAnswered
CHECK_DEADLOCK FALSE
