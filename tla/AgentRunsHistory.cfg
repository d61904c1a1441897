\* A chat turn after a cancelled agent run in the same conversation.
SPECIFICATION Spec
CONSTANTS
    a1 = a1
    c1 = c1
    k1 = k1
    Runs = {a1, c1}
    ChatRuns = {c1}
    Conversations = {k1}
    Conv <- OneConversation
    Request <- SameRequests
    Tasks = {t1}
    NoRun = NoRun
    NoTask = NoTask
    MaxIterations = 1
    MaxBatch = 1
    MaxResumes = 1
    MaxCrashes = 1
    UniqueIds = TRUE
    ConcurrentResumes = FALSE
    VerifyIn = {"running"}
INVARIANT
    HistoryIsWellFormed
\* Every request is answered in the end: the bounded system stops.
CHECK_DEADLOCK FALSE
