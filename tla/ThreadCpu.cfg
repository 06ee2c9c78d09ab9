SPECIFICATION Spec
CONSTANTS
    t1 = t1
    t2 = t2
    t3 = t3
    c1 = c1
    c2 = c2
    va = va
    c3 = c3
    vb = vb
    Thread <- MCThread
    Cpu <- MCCpu
    Virtual <- MCVirtual
    Loom <- MCLoom
    ThLoom <- MCThLoom
    CpuLoom <- MCCpuLoom
    ThProc <- MCThProc
    Tid <- MCTid
    NoCpu = NoCpu
    NoThread = NoThread
INVARIANTS
    ListsAgree
    CpuIffAlive
    LoomConfined
    CachesFresh
    RunningShown
    FinishedIsIdle
PROPERTIES
    OutOfCpuFrozen
CHECK_DEADLOCK FALSE
