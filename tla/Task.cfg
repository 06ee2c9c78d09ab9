SPECIFICATION Spec
CONSTANTS
    Thread = {"t1", "t2"}
    TaskId = {"A", "B", "C"}
    Type = {"y"}
    Gid <- MCGid
    BodyId = {1, 2}
    Runtime = {"nosv", "nanos6", "openmp"}
    MaxStack = 3
INVARIANTS
    StackExact
    StrictNesting
    ShowsRunning
    SubsystemDepth
    NoTaskRefused
CHECK_DEADLOCK FALSE
