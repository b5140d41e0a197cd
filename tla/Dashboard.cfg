SPECIFICATION FairSpec
CONSTANTS
    a = a
    b = b
    Incidents = {a, b}
    SeedFile <- MCSeedFile
    Met = {b}
    SeedFaults = {"infer", "upsert", "insert", "kill"}
    RowActions = {"AGENT_FIXED"}
    MaxRows = 2
    MaxRuns = 1
    Polls = {p1, p2}
    Requests = {d1, d2}
    PageSize = 1
    ScrollLimit = 2
    NoIncident = NoIncident
INVARIANTS
    TypeOK
    SeedRowHasPoint
    PaneAgrees
PROPERTY
    ViewConverges
