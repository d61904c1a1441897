\* One agent run, batches of two calls, two crashes and two resumes.
SPECIFICATION Spec
CONSTANTS
    a1 = a1
    c1 = c1
    k1 = k1
    Runs = {a1}
    ChatRuns = {}
    Conversations = {k1}
    Conv <- OneConversation
    Request <- SameRequests
    Tasks = {t1}
    NoRun = NoRun
    NoTask = NoTask
    MaxIterations = 1
    MaxBatch = 2
    MaxResumes = 2
    MaxCrashes = 2
    UniqueIds = TRUE
    ConcurrentResumes = FALSE
    VerifyIn = {"running"}
INVARIANTS
    TypeOK
    ExecutedWasRequested
    NoBlindReplay
    CompletedRunIsWhole
    LiveRunIsActive
    Inv
PROPERTIES
    
    ImplementsContract
\* Every request is answered in the end: the bounded system stops.
CHECK_DEADLOCK FALSE
