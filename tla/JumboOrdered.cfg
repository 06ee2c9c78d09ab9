SPECIFICATION Spec
CONSTANTS
    Thread = {"t1"}
    MaxEvBuf = 5
    HeaderSize = 1
    EvSizes = {1}
    JumboSizes = {4}
    Key = {}
    Late = {}
    MoveToFinal = FALSE
    CopyOutcomes = {"whole"}
    MaxEvents = 3
    MaxClock = 3
INVARIANT StreamOrdered
CHECK_DEADLOCK FALSE
