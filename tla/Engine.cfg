SPECIFICATION TFairSpec
CONSTANTS
    r1 = r1
    r2 = r2
    r3 = r3
    c1 = c1
    Pill = Pill
    NoEmbedding = NoEmbedding
    Requests = {r1, r2, c1}
    Workers = {w1, w2}
    BatchSize = 2
    DepthLimit = 0
    MaxHandlers = 2
    SlowCalls = {r1}
    RunMayFail = TRUE
    ModelOf <- MCModelOf
    Loaded <- MCLoaded
    Chars <- MCChars
    VocabFile <- MCVocabFile
    MaxLength = 8
    Lower <- MCLower
    Text <- MCText
INVARIANTS
    TypeOK
    DepthBounded
    OwnEmbedding
    TakenOnce
    ActiveExact
    NoUpdateLost
    CountedOnce
    RowsAligned
PROPERTIES
    OnlyFailedBatchAbandons
    QueuedIsTaken
    CallReturns
    ServiceSpec
