\* Any of three accounts with one of four sets of records, and two lists of overrides.
\* A report ends, so deadlock is not checked.
CONSTANTS
    Address = {1, 2, 3}
    Key = {1, 2}
    Value = {0, 1}
    Named = {2}
    OverrideLists <- MCOverrideLists
    Diffs <- MCDiffs
    DefaultName = DefaultName
    NoName = NoName
SPECIFICATION Spec
INVARIANTS
    TypeOK
    ReportDetermined
    OverridesShown
CHECK_DEADLOCK FALSE
