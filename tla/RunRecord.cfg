SPECIFICATION Spec
CONSTANTS
    a = a
    b = b
    c = c
    NoRequest = NoRequest
    Calls = {a, b, c}
    Batch <- MCBatch
    Id <- MCId
    Asked = {b}
    Modes = {"sequential", "parallel"}
    Limit = 2
    MaxEdits = 1
    MaxStarts = 1
INVARIANTS
    TypeOK
    OneReferencePerCall
    SequentialRecordIsComplete
    EndedRunIsReferenced
    EditsAreKept
    ActivityIsFaithful
PROPERTY
    StagesOnlyAdvance
\* The batch ends.
CHECK_DEADLOCK FALSE
