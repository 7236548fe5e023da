CONSTANTS
    s1 = s1
    s2 = s2
    g1 = g1
    g2 = g2
    g3 = g3
    Streams <- MCOneStream
    Guests <- MCOne
    Of <- MCOfOne
    Cores = 1
SPECIFICATION FairSpec
PROPERTIES
    TimeLimited
