SPECIFICATION Spec
CONSTANTS
    Model = {"nosv"}
    NThreads = 2
    NCpus = 2
    MaxHeld <- MCMaxHeld
    MaxTasks = 1
    Null = Null
    MaxStack = 512
    Chan <- BdChan
    Stack <- BdStack
    DirtyWrite <- BdDirtyWrite
    AllowDup <- BdAllowDup
    IgnoreDup <- BdIgnoreDup
    Mux <- BdMux
    MuxSel <- BdSel
    MuxOut <- BdMuxOut
    MuxIn <- BdIn
    MuxDef <- BdDef
    Select <- BdSelect
    SortIn <- BdSortIn
    SortOut <- BdSortOut
    Row <- BdOut
    PrvFlags <- BdPrvFlags
INVARIANT TaskTypeShown
