CONSTANTS
    a = a
    b = b
    c = c
    t1 = t1
    t2 = t2
    NoKey = NoKey
    Keys <- MCKeys
    Tasks <- MCTasks
    Ttl <- MCTtl
    MaxSize = 2
    MaxFetch = 1
    Changing = {a}
    MaxTime = 3
    MaxVersion = 2
SPECIFICATION Spec
SYMMETRY Symmetry
INVARIANTS
    TypeOK
    SizeBound
    RecentlyUsedIsKept
    FetchBesideLiveEntry
PROPERTY AnswersAreBoundedStale
