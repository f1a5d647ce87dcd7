SPECIFICATION Spec
CONSTANTS
    u1 = u1
    u2 = u2
    k1 = k1
    k2 = k2
    w1 = w1
    w2 = w2
    Executor = Executor
    Pool = Pool
    Clones <- TwoUsers
    Periods <- MicroSeconds
    Callers <- TwoUsers
    Clients <- TwoClients
    TimerThreads <- TwoWorkers
    Micros <- MicroSeconds
    MaxQueued = 2
    Admins <- TwoUsers
    Peers <- TwoClients
    Users <- OneUser
    Readers <- OneWorker
    Writers <- OtherWorker
    Managers <- UserAndExecutor
    MaxConnects = 1
    MaxWrites = 2
    MaxReads = 1
    WriteSize = 2
INVARIANTS
    StartReachesTimer
CHECK_DEADLOCK FALSE
