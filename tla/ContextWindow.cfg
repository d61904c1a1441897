SPECIFICATION Spec
CONSTANTS
    MaxMessages = 4
    MaxChars = 9
    MaxMessage = 5
    MaxTools = 2
    MaxSpec = 4
    MaxCatalog = 6
    MaxOutput = 4
    Marker = 2
    OutputMark = 1
    Texts = {1, 12}
    CallTexts <- MCCallTexts
    Outputs = {1, 7}
    Catalogs <- MCCatalogs
    MaxBatch = 2
    MaxLog = 6
INVARIANTS
    BudgetsHold
    
\* The log is bounded.
CHECK_DEADLOCK FALSE
