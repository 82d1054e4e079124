CONSTANTS
    a = a
    b = b
    c = c
    Items <- MCItems
    Feeds <- MCFeeds
    FirstPages <- MCFirstPages
    Requests <- MCRequests
    DefaultLimit = 2
    MaxLimit = 2
    MaxPages = 2
    MaxFailures = 1
    MaxChanges = 1
SPECIFICATION Spec
CHECK_DEADLOCK FALSE
INVARIANTS
    NothingSkipped
    InFeedOrder
    NoRepeatWithinCall
PROPERTIES
    CursorAdvances
    WalkEnds
