SPECIFICATION FairSpec
CONSTANTS
    Workers = {w1, w2}
    ChanSize = 1
    Refusable = {2}
    MaxLines = 3
    MaxStarts = 2
INVARIANTS
    TypeOK
    TakenInOrder
    NothingSkipped
    CrashIsReported
PROPERTY LineIsTaken
