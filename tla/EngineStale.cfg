SPECIFICATION TSpec
CONSTANTS
    r1 = r1
    r2 = r2
    r3 = r3
    c1 = c1
    Pill = Pill
    NoEmbedding = NoEmbedding
    Requests = {r1, r2}
    Workers = {w1, w2}
    BatchSize = 2
    DepthLimit = 1
    MaxHandlers = 2
    SlowCalls = {}
    RunMayFail = FALSE
    ModelOf <- MCModelOf
    Loaded <- MCLoaded
    Chars <- MCChars
    VocabFile <- MCVocabFile
    MaxLength = 8
    Lower <- MCLower
    Text <- MCText
INVARIANT LateIsReported
