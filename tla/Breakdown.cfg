SPECIFICATION Spec
CONSTANTS
    Model = {"nosv", "nanos6", "openmp"}
    NThreads = 2
    NCpus = 2
    MaxHeld <- MCMaxHeld
    MaxTasks = 2
    Null = Null
    MaxStack = 512
    Chan <- BdChan
    Stack <- BdStack
    DirtyWrite <- BdDirtyWrite
    AllowDup <- BdAllowDup
    IgnoreDup <- BdIgnoreDup
    Mux <- BdMux
    MuxSel <- BdSel
    MuxOut <- BdMuxOut
    MuxIn <- BdIn
    MuxDef <- BdDef
    Select <- BdSelect
    SortIn <- BdSortIn
    SortOut <- BdSortOut
    Row <- BdOut
    PrvFlags <- BdPrvFlags
INVARIANTS
    ListedOnce
    MuxFollows
    SortedOutputs
    NoPanic
    BreakdownShows
PROPERTY PropagationEnds
