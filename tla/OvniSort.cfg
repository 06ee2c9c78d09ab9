\* The tool ends: a trace is sorted or checked once.
SPECIFICATION Spec
CONSTANTS
    Traces <- MCTraces
    Torn <- MCTorn
    LookBack = {1, 3, 8}
INVARIANTS
    RingExact
    SortedOnSuccess
    GivesUpFar
CHECK_DEADLOCK FALSE
