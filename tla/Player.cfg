SPECIFICATION Spec
CONSTANTS
    NumStreams = 5
    Clocks <- MCClocks
    Torn <- MCTorn
    MaxGate = 1
INVARIANTS
    HeapHolds
PROPERTY Merges
CHECK_DEADLOCK FALSE
