SPECIFICATION Spec
CONSTANTS
    NThreads = 2
    NCpus = 2
    VirtualCpu = {1}
    View = {"mpi", "tampi", "nodes", "xtasks", "kernel", "flush", "mark", "single", "type", "hwc"}
    Label <- MCLabel
    XtasksEvent <- MCXtasksEvent
    Sample <- MCSample
    MaxHeld <- MCMaxHeld
    Null = Null
    MaxStack = 512
    Chan <- ViewChan
    Stack <- ViewStack
    DirtyWrite <- ViewMux
    AllowDup <- ViewAllowDup
    IgnoreDup <- ViewIgnoreDup
    Mux <- ViewMux
    MuxSel <- ViewSel
    MuxOut <- ViewOut
    MuxIn <- ViewIn
    MuxDef <- ViewDef
    Select <- ViewSelect
    SortIn <- MCNone
    SortOut <- MCNone
    Row <- ViewRow
    PrvFlags <- ViewFlags
INVARIANTS
    CleanWhenReady
    NoPanic
    ViewShows
PROPERTIES
    TraceFollows
CHECK_DEADLOCK FALSE
