CONSTANTS
    t1 = t1
    t2 = t2
    VN = VN
    US = US
    direct = direct
    api = api
    broken = broken
    d1 = d1
    d2 = d2
    s1 = s1
    NoProxy = NoProxy
    Tasks <- MCTasks
    Countries <- MCCountries
    Entries = {direct, api, broken}
    Api = {api, broken}
    Unreachable = {broken}
    Pools <- MCPools
    Direct <- MCOneDirect
    Key <- MCKey
    Supplied = {s1}
    Prefixed <- MCPrefixed
    Errors = {"proxy", "server", "missing"}
    Attempts = 2
    DirectTtl = 1
    ApiTtl = 2
SPECIFICATION Spec
PROPERTIES
    CallEnds
INVARIANTS
    NoneOnlyWhenExhausted
    RetriedWhenWorthIt
    RetryLeavesCachedProxy
