SPECIFICATION Spec
CONSTANTS
    a = a
    b = b
    Incidents = {a, b}
    SeedFile <- MCSeedFile
    Met = {b}
    SeedFaults = {"orchestrator"}
    RowActions = {"AI_PROCESSED", "AGENT_FIXED"}
    MaxRows = 2
    MaxRuns = 0
    Polls = {p1}
    Requests = {d1}
    PageSize = 1
    ScrollLimit = 2
    NoIncident = NoIncident
PROPERTY TraceIsInspectable
