SPECIFICATION Spec
CONSTANTS
    Thread = {"t1"}
    MaxEvBuf = 5
    HeaderSize = 1
    EvSizes = {1, 2}
    JumboSizes = {3, 5}
    Key = {"k"}
    Late = {}
    MoveToFinal = FALSE
    CopyOutcomes = {"whole"}
    MaxEvents = 5
    MaxClock = 2
INVARIANTS
    TypeOK
    BufferFits
    NothingLost
    StreamOrdered
PROPERTY CallsReturn
CHECK_DEADLOCK FALSE
