CONSTANTS
    c1 = c1
    c2 = c2
    a = a
    b = b
    d = d
    u = u
    Clients <- TwoClients
    Tasks <- ThreeTasks
    NoTask = NoTask
    Users <- OneUser
    Queue = Queue
    Managers <- EveryThread
    MaxConnects = 1
    MaxWrites = 2
    WriteSize = 2
    Movers <- JustQueue
SPECIFICATION MCSpec
INVARIANTS
    Balanced
