SPECIFICATION Spec
CONSTANTS
    Workers = {w1, w2}
    Logs = {warn1, warn2, red}
    Vectors = {u, v, x}
    Seeded = {}
    Capacity = 1
    Faults = {"query", "redis", "upsert", "db", "crash"}
    MaxLogs = 2
    MaxWindows = 1
    MaxCrashes = 1
    warn1 = warn1
    warn2 = warn2
    red = red
    u = u
    v = v
    x = x
    pod1 = pod1
    pod2 = pod2
    db = db
    NoLog = NoLog
    NoVector = NoVector
    Pods = {pod1, pod2, db}
    Sigs <- MCSigs
    Embedding <- MCEmbedding
    Signature <- MCSignature
    PodOf <- MCPodOf
    Tagged <- MCTagged
    Similarity <- MCSimilarity
SYMMETRY WorkerSymmetry
INVARIANTS
    TypeOK
    OneEventPerWindow
    OneRowPerWindow
    EveryWindowAccounted
    CacheSound
PROPERTY GateSpec
