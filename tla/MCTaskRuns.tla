------------------------------ MODULE MCTaskRuns ------------------------------
\* Task trees with every kind of compound task, nested in each other.
EXTENDS TaskConformance

CONSTANTS r1, r2, q1, q2, x, y, E1, E2

MCKind ==
    [get |-> "simple", put |-> "simple", ask |-> "simple", step |-> "simple",
     spin |-> "simple", count |-> "simple", each |-> "simple", fix |-> "simple",
     log |-> "simple",
     pick |-> "conditional", maybe |-> "conditional", cycle |-> "loop",
     wait |-> "loop", times |-> "repeat",
     inner |-> "intercept", outer |-> "intercept",
     chain |-> "sequential", counted |-> "sequential", looped |-> "sequential"]

TaskNames == DOMAIN MCKind

MCSub ==
    [get |-> <<>>, put |-> <<>>, ask |-> <<>>, step |-> <<>>, spin |-> <<>>,
     count |-> <<>>, each |-> <<>>, fix |-> <<>>, log |-> <<>>,
     pick |-> <<"ask", "get", "put">>,
     maybe |-> <<"ask", "log">>,
     cycle |-> <<"ask", "step">>,
     wait |-> <<"spin">>,
     times |-> <<"each">>,
     inner |-> <<"chain", "fix", "put">>,
     outer |-> <<"inner", "fix">>,
     chain |-> <<"get", "pick", "put">>,
     counted |-> <<"count", "times", "wait">>,
     looped |-> <<"cycle", "maybe">>]

MCHome ==
    [t \in DOMAIN MCKind |-> IF t \in {"get", "step", "fix", "each"} THEN q1 ELSE q2]

MCReturns ==
    [t \in DOMAIN MCKind |->
        CASE t \in {"get", "step", "fix"} -> {x}
          [] t = "put" -> {y}
          [] t \in {"ask", "spin"} -> {Yes, No}
          [] t = "count" -> {1, 2}
          [] OTHER -> {NoValue}]

MCThrows ==
    [t \in DOMAIN MCKind |->
        CASE t \in {"get", "fix"} -> {E1, E2}
          [] t \in {"put", "each", "ask"} -> {E1}
          [] OTHER -> {}]

MCCatches ==
    [t \in DOMAIN MCKind |->
        CASE t = "inner" -> <<{E1}, {E1, E2}>> [] t = "outer" -> <<{E2}>> [] OTHER -> <<>>]

MCRoots == [r \in Runs |-> IF r = r1 THEN {"outer", "counted", "looped"} ELSE {"pick"}]

MCInputs ==
    [t \in DOMAIN MCKind |->
        CASE t = "counted" -> {NoValue} [] t = "times" -> {0, 1} [] OTHER -> {x}]
=============================================================================
