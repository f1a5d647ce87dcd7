CONSTANTS
    c1 = c1
    c2 = c2
    w1 = w1
    w2 = w2
    a = a
    b = b
    d = d
    Clients <- TwoClients
    Workers <- TwoWorkers
    Tasks <- TwoTasks
    Stoppers <- NoTasks
    NoTask = NoTask
SPECIFICATION FairSpec
PROPERTIES
    EveryTaskRuns
