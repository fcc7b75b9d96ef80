\* Two slots, three words, three nested frames.  The simulation ends when the
\* report is made or the call fails, so deadlock is not checked.
CONSTANTS
    s1 = s1
    s2 = s2
    w0 = w0
    w1 = w1
    w2 = w2
    Slot = {s1, s2}
    Word = {w0, w1, w2}
    ZeroWord = w0
    Absent = Absent
    Chain <- MCChain
    OverrideLists <- MCOverrideLists
    MaxDepth = 3
SPECIFICATION SimSpec
INVARIANTS
    TypeOK
    CacheCoherent
    ReportExact
    TornIsZero
    OverrideIsBefore
PROPERTIES
    ReadsAreRight
    BeforeIsKept
    ImplementsOverlay
CHECK_DEADLOCK FALSE
