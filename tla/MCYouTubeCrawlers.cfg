SPECIFICATION CrawlSpec
CONSTANTS
    s1 = s1
    s2 = s2
    s3 = s3
    p1 = p1
    p2 = p2
    v1 = v1
    v2 = v2
    v3 = v3
    v4 = v4
    Shorts <- MCShorts
    Positions <- MCPositions
    Nothing = Nothing
    Limit = 2
    Queries = 2
    PerAnswer = 2
    Restarts = 4
    EmptyLimit = 2
    MinSteps = 4
    SpareSteps = 1
    DupLimit = 2
    StaleLimit = 2
    TabAttempts = 3
    MaxReplyPages = 2
    MaxThreads = 3
    MaxReplies = 2
    Videos <- MCVideoSet
    Blank = Blank
    Malformed = Malformed
    Inputs <- MCInputs
    MaxBatchIds = 3
    Concurrency = 2
    MaxComments = 2
CHECK_DEADLOCK FALSE
INVARIANTS
    NoShortTwice
    ShortOnlyIfExhausted
    TabResultIsEarned
    RepliesOfTheirOwn
    CommentsNotLost
    VerdictIsEarned
    BatchAnswersEveryVideo
    SlotsWellUsed
PROPERTY
    CrawlsEnd
