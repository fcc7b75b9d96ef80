\* Every nesting of four slots and every document with one layout and two contracts.
\* A lookup ends, so deadlock is not checked.
CONSTANTS
    MaxSlot = 3
    NoMapping = NoMapping
    Default = Default
    Contract = {c1, c2}
    Layout = {layout}
SPECIFICATION Spec
INVARIANTS
    TypeOK
    NearestDescription
    WholeDocument
PROPERTIES
    LookupEnds
CHECK_DEADLOCK FALSE
