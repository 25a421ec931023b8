CONSTANTS
    p1 = p1
    p2 = p2
    p3 = p3
    Procs <- ThreeProcs
    MaxAppends = 2
    NoProc = NoProc
    NoCache = NoCache
SPECIFICATION SpoolSpec
SYMMETRY Symmetry
INVARIANTS
    CacheIsHonest
    UniqueUnlessTorn
PROPERTIES
    CursorsAscend
CHECK_DEADLOCK FALSE
