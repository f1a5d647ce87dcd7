CONSTANTS
    c1 = c1
    c2 = c2
    w1 = w1
    w2 = w2
    a = a
    b = b
    d = d
    Clients <- TwoClients
    Workers <- TwoWorkers
    Tasks <- ThreeTasks
    Stoppers <- AllThreads
    Releasers <- OneReleaser
    WithDeleter <- NoTasks
    NoTask = NoTask
    Free = Free
SPECIFICATION FairSpec
INVARIANTS
    SerialExecution
    NeverPopsEmpty
    NeverStranded
    InOrder
    StopHolds
    PostedWhileStoppedWaits
    ExistsWhileUsed
PROPERTIES
    ImplementsExecutor
    EveryTaskRuns
    ReleasedIsDestroyed
