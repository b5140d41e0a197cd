SPECIFICATION FairSpec
CONSTANTS
    Workers = {w1, w2}
    Logs = {warn1, warn2, red}
    Vectors = {u, v, x}
    Seeded = {}
    Capacity = 2
    Faults = {"infer", "query", "slack"}
    MaxLogs = 2
    MaxWindows = 1
    MaxCrashes = 0
    warn1 = warn1
    warn2 = warn2
    red = red
    u = u
    v = v
    x = x
    pod1 = pod1
    pod2 = pod2
    db = db
    NoLog = NoLog
    NoVector = NoVector
    Pods = {pod1, pod2, db}
    Sigs <- MCSigs
    Embedding <- MCEmbedding
    Signature <- MCSignature
    PodOf <- MCPodOf
    Tagged <- MCTagged
    Similarity <- MCSimilarity
INVARIANTS
    CacheSound
    IncidentHasPoint
    BlastRadiusExpires
PROPERTIES
    ClaimIsRecorded
    GateSpec
