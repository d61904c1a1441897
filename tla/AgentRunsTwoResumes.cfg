\* Resume is asked for twice at the same time.
SPECIFICATION Spec
CONSTANTS
    a1 = a1
    c1 = c1
    k1 = k1
    Runs = {a1}
    ChatRuns = {}
    Conversations = {k1}
    Conv <- OneConversation
    Request <- SameRequests
    Tasks = {t1, t2}
    NoRun = NoRun
    NoTask = NoTask
    MaxIterations = 1
    MaxBatch = 1
    MaxResumes = 2
    MaxCrashes = 1
    UniqueIds = TRUE
    ConcurrentResumes = TRUE
    VerifyIn = {"running"}
INVARIANT
    LiveRunIsActive
\* Every request is answered in the end: the bounded system stops.
CHECK_DEADLOCK FALSE
