SPECIFICATION Spec
CONSTANTS
    Thread = {"t1"}
    MaxEvBuf = 5
    HeaderSize = 1
    EvSizes = {1}
    JumboSizes = {}
    Key = {}
    Late = {}
    MoveToFinal = TRUE
    CopyOutcomes = {"whole"}
    MaxEvents = 1
    MaxClock = 0
INVARIANT FinishedComplete
CHECK_DEADLOCK FALSE
