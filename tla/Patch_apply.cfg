\* Every update of a small file, and every pair of changes of two files.
CONSTANTS
    Outside = {"o"}
    Calls <- MCCalls
SPECIFICATION Spec
INVARIANTS AppliedAsWritten MoveKeepsText
PROPERTY OnlyApprovedChange
CHECK_DEADLOCK FALSE
