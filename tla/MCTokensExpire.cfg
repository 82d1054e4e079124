CONSTANTS
    i1 = i1
    i2 = i2
    i3 = i3
    r1 = r1
    r2 = r2
    j1 = j1
    j2 = j2
    j3 = j3
    Nobody = Nobody
    Idents = {i1}
    Requests = {r1}
    Jobs = {j1}
    PoolSize = 1
    TokenTtl = 2
    RefreshEvery = 6
    MaxWarm = 0
    Window = 6
SPECIFICATION Spec
PROPERTIES
    TokensExpire
