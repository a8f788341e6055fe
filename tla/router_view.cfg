CONSTANTS
    Uppers <- UpperOf
    Lowers <- LowerOf
    Normals <- NormalOf
    Dashes <- DashesOf
    Number <- NumberOf
    Network <- NetworkOf
    Odd = {"a/b", "a b"}
    Files <- SomeFiles
    NoFile = NoFile
    Ip = {1, 2, 3}
    Private = {2}
    Country <- CountryOf
    Name = {"www.x", "WWW.x", "cdn", "..."}
    Below <- BelowOf
    Containing <- ContainingOf
    NoPort = NoPort
    Packets <- SomePackets
    Responses <- SomeResponses
    MaxClock = 2
SPECIFICATION Spec
INVARIANTS TypeOK EngineIsUnderstood SavedIsSame
PROPERTIES ViewSpec 
CHECK_DEADLOCK FALSE
