SPECIFICATION MCSpec
CONSTANTS
    t1 = t1
    t2 = t2
    ext1 = ext1
    ext2 = ext2
    w1 = w1
    w2 = w2
    NoTask = NoTask
    Tasks <- MCTasks
    PlicPriority <- MCPlicPriority
    UseNesting = TRUE
    RvUsed = {"E", "S", "T"}
    RvMaxRaises = 3
    RvBusyLevel = 1
    GicPriority <- MCGicPriority
    ArMaxRaises = 4
    AmPriority <- MCAmPriority
    AmLockMask = 64
    AmMaxRaises = 3
    SimPriority <- MCSimPriority
    SimDispatch = 9
    SimLowest = 20
    SimMaxRaises = 3
    Workers = {w1, w2}
    NoWorker = NoWorker
    Outside = Outside
    MaxRequests = 2
    Word = 8
    MicrosPerSec = 2
    HardHeadroom = 3
    TdOptions <- MCTdOptions
    TdNested = {"Stateless"}
    TdHorizon = 18
SYMMETRY Symmetry
INVARIANTS
    ContextIntact
    PriorityOrder
    NoLostDispatch
    LockHonoured
    UmsExclusive
    UmsNeverStuck
    TickCountExact
    AlarmInTime
PROPERTIES
    KeepsContract
CHECK_DEADLOCK FALSE
