\* Every command line and every link, each reduced to what decides a branch, and the
\* scripts of MCProgram.  The program ends, so deadlock is not checked.
CONSTANTS
    Script <- MCScript
    RawInput <- MCRawInput
SPECIFICATION Spec
INVARIANTS
    TypeOK
    StatusTellsTruth
    OneReport
    CleanIfWellFed
    HashesAsPrinted
    TransactionAsPrinted
    OverridesAsGiven
CHECK_DEADLOCK FALSE
