SPECIFICATION Spec
CONSTANTS
    Thread = {"t1", "t2"}
    MaxEvBuf = 5
    HeaderSize = 1
    EvSizes = {2}
    JumboSizes = {}
    Key = {}
    Late = {"rank"}
    MoveToFinal = TRUE
    CopyOutcomes = {"whole"}
    MaxEvents = 2
    MaxClock = 0
INVARIANTS
    OneInitOneFini
    DirKept
    FreedComplete
PROPERTIES
    StreamKept
    AttrsKept
CHECK_DEADLOCK FALSE
