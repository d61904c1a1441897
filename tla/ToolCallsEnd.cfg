SPECIFICATION FairSpec
CONSTANTS
    m1 = m1
    m2 = m2
    p1 = p1
    p2 = p2
    u1 = u1
    seq = seq
    par = par
    ui = ui
    s1 = s1
    shell = shell
    read = read
    Calls = {m1, m2, u1}
    Batches = {seq, ui}
    RunBatches = {seq}
    Parallel = {}
    Sessions = {s1}
    Capabilities = {shell, read}
    Resources = {"file", "any"}
    Request <- MCRequest
    Covers <- MCCovers
    Offers <- MCOffers
    Interactive = TRUE
    MaxGrants = 0
PROPERTY
    CallsEnd
\* Calls end and the core may be down for good.
CHECK_DEADLOCK FALSE
