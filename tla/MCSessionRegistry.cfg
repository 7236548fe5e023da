CONSTANTS
    t1 = t1
    c1 = c1
    c2 = c2
    c3 = c3
    c4 = c4
    k1 = k1
    k2 = k2
    Tokens = {t1}
    Calls = {c1, c2, c3, c4}
    Fields <- MCOneField
    Keys <- MCOneKey
    PoolSize = 2
    Seeded = {t1}
SPECIFICATION MCSpec
INVARIANTS
    NoOrphanStore
    ClosedIsClosed
PROPERTIES
    ImplementsLife
    EveryCallEnds
