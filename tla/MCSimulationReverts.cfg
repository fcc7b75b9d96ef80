\* The constants of MCSimulation.cfg; the simulation ends, so deadlock is not
\* checked.
CONSTANTS
    s1 = s1
    s2 = s2
    w0 = w0
    w1 = w1
    w2 = w2
    Slot = {s1, s2}
    Word = {w0, w1, w2}
    ZeroWord = w0
    Absent = Absent
    Chain <- MCChain
    OverrideLists <- MCOverrideLists
    MaxDepth = 3
SPECIFICATION SimSpec
INVARIANTS
    RevertsLeaveNoTrace
CHECK_DEADLOCK FALSE
