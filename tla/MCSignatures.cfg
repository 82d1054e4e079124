CONSTANTS
    t1 = t1
    t2 = t2
    Threads = {t1, t2}
    Outputs = 2
    KeyWords = 3
    Wrap = 2
    WordBytes <- MCWordBytes
    Keystream <- MCKeystream
    Rc4Stream <- MCRc4Stream
    Agent <- MCAgent
    Body <- MCBody
    Queries <- MCQueries
    Clocks <- MCClocks
SPECIFICATION GeneratorSpec
SYMMETRY Symmetry
INVARIANTS
    IndexInBlock
    LoneKeyIsARun
    GnarlyOpens
    BogusAddsUp
