\* Every command line and every link, each reduced to what decides a branch, and the
\* scripts of MCProgram.  The program ends, so deadlock is not checked.
CONSTANTS
    Script <- MCScript
    RawInput <- MCRawInput
SPECIFICATION Spec
INVARIANTS
    StdoutIsReport
CHECK_DEADLOCK FALSE
