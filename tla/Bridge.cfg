SPECIFICATION FairSpec
CONSTANTS
    c1 = c1
    c2 = c2
    Commands = {c1, c2}
    Kinds = {"query", "tool", "change", "unknown", "run", "cancel", "respond"}
    Nobody = Nobody
    Limit = 2
    MaxDeaths = 1
INVARIANTS
    TypeOK
    MutexCoversWait
    OneRequestAtATime
    EventsAreTheNewest
PROPERTIES
    ImplementsContract
    EveryCommandEnds
    OrphanEnds
\* The desktop may stop asking.
CHECK_DEADLOCK FALSE
