--------------------------- MODULE MCWincpRunQueue ---------------------------
EXTENDS WincpRunQueue

CONSTANTS c1, c2, w1, w2, a, b, d

TwoClients == {c1, c2}
TwoWorkers == {w1, w2}
ThreeTasks == {a, b, d}
TwoTasks == {a, b}
NoTasks == {}
AllThreads == Clients \cup Workers
=============================================================================
