CONSTANTS
    k1 = k1
    k2 = k2
    t = t
    None = None
    Key = {k1, k2}
    TargetOf <- SameTarget
    Session = {s1, s2, s3}
    IdentSpace = 3
    FirstIdent = 1
    MaxRequests = 3
    MaxFaults = 2
SPECIFICATION FairSpec
INVARIANTS TypeOK RepliesGoHome ActiveIsExact NoDeadEntry
PROPERTY DeadEntryGoes
CHECK_DEADLOCK FALSE
