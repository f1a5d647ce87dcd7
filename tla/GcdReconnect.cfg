CONSTANTS
    c1 = c1
    c2 = c2
    a = a
    b = b
    d = d
    u = u
    Clients <- TwoClients
    Tasks <- ThreeTasks
    NoTask = NoTask
    Users <- NoUsers
    Queue = Queue
    Managers <- OnlyQueue
    MaxConnects = 2
    MaxWrites = 2
    WriteSize = 2
    Movers <- JustStream
SPECIFICATION MCSpec
INVARIANTS
    AbortedByDisconnect
