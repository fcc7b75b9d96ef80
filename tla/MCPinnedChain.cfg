\* Two branches, three blocks above the first, one thing to read.  The chain always
\* moves on, by growth or reorganisation.
CONSTANTS
    Branch = {f, g}
    MaxHeight = 3
    Item = {i}
    None = None
SPECIFICATION Spec
INVARIANTS
    TypeOK
    OfPinnedBlock
    OneAnswer
PROPERTIES
    WalkEnds
