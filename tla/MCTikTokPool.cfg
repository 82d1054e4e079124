CONSTANTS
    i1 = i1
    i2 = i2
    i3 = i3
    r1 = r1
    r2 = r2
    j1 = j1
    j2 = j2
    j3 = j3
    Nobody = Nobody
    Idents = {i1, i2}
    Requests = {r1}
    Jobs = {j1, j2}
    PoolSize = 2
    TokenTtl = 1
    RefreshEvery = 1
    MaxWarm = 1
    Window = 4
SPECIFICATION Spec
INVARIANTS
    WithinWindow
    SessionExclusive
PROPERTY RequestEnds
