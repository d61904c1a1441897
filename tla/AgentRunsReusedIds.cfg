\* A provider that numbers its calls from tool-0 in every generation.
SPECIFICATION Spec
CONSTANTS
    a1 = a1
    c1 = c1
    k1 = k1
    Runs = {a1}
    ChatRuns = {}
    Conversations = {k1}
    Conv <- OneConversation
    Request <- SameRequests
    Tasks = {t1}
    NoRun = NoRun
    NoTask = NoTask
    MaxIterations = 2
    MaxBatch = 1
    MaxResumes = 1
    MaxCrashes = 1
    UniqueIds = FALSE
    ConcurrentResumes = FALSE
    VerifyIn = {"running"}
INVARIANT
    NoBlindReplay
\* Every request is answered in the end: the bounded system stops.
CHECK_DEADLOCK FALSE
