\* The system is built once.
SPECIFICATION Spec
CONSTANTS
    Inputs <- MCInputs
    Host <- MCHost
    Have <- MCHave
    IntSize = 4
INVARIANTS
    
    RowsGrouped
    DeclaredKept
CHECK_DEADLOCK FALSE
