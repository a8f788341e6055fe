CONSTANTS
    empty = empty
    small = small
    large = large
    huge = huge
    Message = {empty, small, large, huge}
    SizeOf <- Sizes
    HeaderSize = 2
    MaxFrameSize = 5
    MaxSent = 4
SPECIFICATION FairSpec
INVARIANTS TypeOK NeverFails InStep
PROPERTIES StreamSpec AllReceived
CHECK_DEADLOCK FALSE
