CONSTANTS
    t1 = t1
    t2 = t2
    VN = VN
    US = US
    direct = direct
    api = api
    broken = broken
    d1 = d1
    d2 = d2
    s1 = s1
    NoProxy = NoProxy
    Tasks <- MCTasks
    Countries <- MCCountries
    Entries = {direct, api, broken}
    Api = {api, broken}
    Unreachable = {broken}
    Pools <- MCDirectOnly
    Direct <- MCTwoDirect
    Key <- MCKey
    Supplied = {s1}
    Prefixed <- MCPrefixed
    Errors = {"proxy", "missing"}
    Attempts = 3
    DirectTtl = 4
    ApiTtl = 1
SPECIFICATION Spec
INVARIANTS
    RetryGoesElsewhere
