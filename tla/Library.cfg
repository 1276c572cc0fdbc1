CONSTANTS
    Elem = {1, 2, 3}
    HeapSize = 3
    MaxDropped = 2
    Second = 2
    Freqs = {1, 3}
    Buckets = {1, 2}
    MaxNeed = 1
    WideNum = 3
    WideDen = 2
    MaxTime = 4
    WideMaxTime = 8
    KDuration = 2
    KGranularity = 2
    MaxCount = 1
    FnMaxTime = 9
    FdThread = {"a", "b"}
    Obj = {1, 2}
    Fd = {0, 1}
    FirstCapacity = 1
    Writer = {1, 2}
    Attr = {1, 2, 3}
    Capacity = 2
    MaxGiven = 3
    Proc = {1, 2, 3}
    ReadOnly = {3}
    Exact = {1}
    SegLen = 2
    MaxSeg = 2
    LkThread = {"a", "b", "c", "d"}
    FileOf <- LockFiles
    MaxAttempts = 0
    SeProc = {1, 2}
    Sem = {0, 1}
    SemOps <- Operations
    SeMax = 2
    MaxSets = 1
    PoolSize = 3
    LgThread = {"a", "b"}
    Pieces = 2
    MaxSize = 2
    MaxLogs = 2
    MaxLives = 2
    MaxFiles = 2
    MaxRemoved = 1
    MaxAgain = 2
    ReportSize = 1
    Coro = {"a", "b", "c"}
    Main = "main"
    File = {"a", "b"}
    Name = {"m", "n"}
    MaxFd = 2
    MaxIno = 2
    MaxLen = 1
    EpFd = {1, 2}
    MaxEvents = 1
    Addrs = {"a", "b", "c"}
    Addrs6 = {"c"}
    MaxData = 2
    Backlog = 1
    LiThread = {1, 2}
    Modulus = 4
    OrBits <- BitsOr
    AndBits <- BitsAnd
    XorBits <- BitsXor
    Operand = {1, 3}
    Program = {1, 2}
    Monitored = {1}
    KRestart = 3
    KTimeout = 2
    DmMaxTime = 3
SPECIFICATION Spec
INVARIANTS
    TypesOK
    
    ContainersOK
    SharingOK
    BookkeepingOK
    ServicesOK
PROPERTIES
    StepsOK
CHECK_DEADLOCK FALSE
