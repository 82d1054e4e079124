CONSTANTS
    a = a
    b = b
    c = c
    r1 = r1
    r2 = r2
    NoKey = NoKey
    Keys <- MCKeys
    Requests <- MCRequests
    MaxSize = 2
    Evict = 1
    Ttl = 2
    MaxCall = 1
    Changing = {a}
    MaxTime = 3
    MaxVersion = 2
SPECIFICATION Spec
SYMMETRY Symmetry
INVARIANTS
    TypeOK
    SearchBesideLiveEntry
    EmptyOnlyFromBoth
PROPERTIES
    OldestMakeRoom
    AnswersAreBoundedStale
