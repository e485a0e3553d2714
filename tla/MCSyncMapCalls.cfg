CONSTANTS
    t1 = t1
    t2 = t2
    Threads <- MCThreads
    Ranges <- MCRanges
    QuadBits = 2
    Quads = 2
    MaxOwned = 2
SPECIFICATION Spec
INVARIANTS TypeOK HitIsFirst SequentialSearchIsLeast
PROPERTIES SigFailsOnlyWhenFull CallsReturn
