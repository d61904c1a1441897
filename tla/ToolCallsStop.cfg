SPECIFICATION FairSpec
CONSTANTS
    m1 = m1
    m2 = m2
    p1 = p1
    p2 = p2
    u1 = u1
    seq = seq
    par = par
    ui = ui
    s1 = s1
    shell = shell
    read = read
    Calls = {m1, m2}
    Batches = {seq}
    RunBatches = {seq}
    Parallel = {}
    Sessions = {s1}
    Capabilities = {shell, read}
    Resources = {"file", "any"}
    Request <- MCRequest
    Covers <- MCCovers
    Offers <- MCOffers
    Interactive = TRUE
    MaxGrants = 0
PROPERTY
    StopEnds
CHECK_DEADLOCK FALSE
