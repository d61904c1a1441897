SPECIFICATION FairSpec
CONSTANTS
    p = p
    q = q
    echo = echo
    x = x
    y = y
    gone = gone
    s1 = s1
    s2 = s2
    s3 = s3
    Plugins = {p, q}
    Rank <- MCRank
    Names = {echo, x, y, gone}
    CoreNames = {echo}
    Configs = {"first", "both", "swapped", "unset", "clash", "stray", "refused", "nowhere"}
    Enabled <- MCEnabled
    Provides <- MCProvides
    Routes <- MCRoutes
    Default <- MCDefault
    Fails <- MCFails
    FirstConfig = "first"
    DefaultConfig = "first"
    Torn = "torn"
    Services = {"core.events", "core.permission_grants"}
    Started = {"core.events"}
    Sessions = {s1, s2}
    SessionId <- MCSessionId
    MaxUpdates = 2
    MaxFaults = 2
    MaxStarts = 2
INVARIANTS
    TypeOK
    
    ServingIsWhole
    StopEndsSessions
PROPERTIES
    
    OperationsEnd
\* The core may be down for good.
CHECK_DEADLOCK FALSE
