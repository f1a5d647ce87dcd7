----------------------------- MODULE TaskMeaning -----------------------------
(***************************************************************************)
(* The synchronous code that include/cool/ng/async/task.h gives for each   *)
(* compound task, as rules: t3(t2(t1(x))), if, while, for and try-catch.   *)
(* The outcomes of the functions of simple tasks are those of a trace.     *)
(*                                                                         *)
(* A task with an input, evaluated from a place k of the trace on, yields  *)
(* the place after it and a value or an exception, or "pending" where the  *)
(* trace ends before it does.  A relation R holds such statements, and is  *)
(* closed if it has what each rule concludes from what it has already; a   *)
(* statement follows from the code if every closed relation has it.        *)
(*                                                                         *)
(* TaskConformance gives the same code as recursive functions, which can   *)
(* be evaluated; rules can be reasoned about.                              *)
(***************************************************************************)
EXTENDS TaskRuns

\* A trace tells what a function returned (an any) from what it threw (an
\* exception_ptr).
ASSUME OutcomesAssumption ==
    \A t \in Tasks : Kind[t] = "simple" => Returns[t] \cap Throws[t] = {}

Yield(k, as, v) == [k |-> k, as |-> as, value |-> v]

\* An exception leaves the code that throws it, and so does a call that is pending.
Stops(y) == y.as # "value"

\* The statements: task t with input v, turn n of a sequence, while with the
\* result so far, for (from i on, below n), each from place k on, yields y.
Yields(R, t, v, k, y) == <<"task", t, v, k, y>> \in R
TurnYields(R, t, n, v, k, y) == <<"turn", t, n, v, k, y>> \in R
WhileYields(R, t, v, k, y) == <<"while", t, v, k, y>> \in R
ForYields(R, t, i, n, k, y) == <<"for", t, i, n, k, y>> \in R
-----------------------------------------------------------------------------
(***************************************************************************)
(* What is left of a compound task once a subtask has yielded y: it yields *)
(* z.                                                                      *)
(***************************************************************************)
\* ts[n+1]( ts[n](...) )
AfterTurn(R, t, n, y, z) ==
    IF Stops(y) \/ n = Len(Sub[t]) THEN z = y ELSE TurnYields(R, t, n + 1, y.value, y.k, z)

\* if (predicate(v)) ...
AfterIf(R, t, v, y, z) ==
    IF Stops(y) THEN z = y
    ELSE IF y.value = Yes THEN Yields(R, Sub[t][2], v, y.k, z)
    ELSE IF Len(Sub[t]) = 3 THEN Yields(R, Sub[t][3], v, y.k, z)
    ELSE z = Yield(y.k, "value", NoValue)

\* result = body(result)
AfterBody(R, t, y, z) ==
    IF Stops(y) THEN z = y ELSE WhileYields(R, t, y.value, y.k, z)

\* while (predicate(v)) ...
AfterTest(R, t, v, y, z) ==
    IF Stops(y) THEN z = y
    ELSE IF y.value = No THEN z = Yield(y.k, "value", v)
    ELSE IF Len(Sub[t]) = 1 THEN WhileYields(R, t, v, y.k, z)
    ELSE \E b : Yields(R, Sub[t][2], v, y.k, b) /\ AfterBody(R, t, b, z)

\* for (...; i < n; ++i) result = t(i)
AfterRound(R, t, i, n, y, z) ==
    IF Stops(y) \/ ~(i + 1 < n) THEN z = y ELSE ForYields(R, t, i + 1, n, y.k, z)

\* The catchers that accept an exception.
Handlers(t, e) == {i \in DOMAIN Catches[t] : e \in Catches[t][i]}

\* try { ... } catch ...
AfterTry(R, t, y, z) ==
    IF y.as = "exception" /\ Handlers(t, y.value) # {}
    THEN Yields(R, Sub[t][1 + Min(Handlers(t, y.value))], y.value, y.k, z)
    ELSE z = y
-----------------------------------------------------------------------------
\* A call of the function of a simple task is the call of the trace at that place.
CallRule(R, tr) ==
    \A k \in DOMAIN tr :
        LET c == tr[k]
        IN  /\ c.outcome \in Returns[c.task] =>
                  Yields(R, c.task, c.input, k, Yield(k + 1, "value", c.outcome))
            /\ c.outcome \in Throws[c.task] =>
                  Yields(R, c.task, c.input, k, Yield(k + 1, "exception", c.outcome))

SequentialRule(R) ==
    \A t \in Tasks : \A v, k, z : Kind[t] = "sequential" =>
        /\ \A n \in DOMAIN Sub[t] : \A y :
              Yields(R, Sub[t][n], v, k, y) /\ AfterTurn(R, t, n, y, z) =>
                  TurnYields(R, t, n, v, k, z)
        /\ TurnYields(R, t, 1, v, k, z) => Yields(R, t, v, k, z)

ConditionalRule(R) ==
    \A t \in Tasks : \A v, k, y, z : Kind[t] = "conditional" =>
        (Yields(R, Sub[t][1], v, k, y) /\ AfterIf(R, t, v, y, z) => Yields(R, t, v, k, z))

LoopRule(R) ==
    \A t \in Tasks : \A v, k, z : Kind[t] = "loop" =>
        /\ \A y : Yields(R, Sub[t][1], v, k, y) /\ AfterTest(R, t, v, y, z) =>
              WhileYields(R, t, v, k, z)
        /\ WhileYields(R, t, v, k, z) => Yields(R, t, v, k, z)

RepeatRule(R) ==
    \A t \in Tasks : \A k, n \in Nat : Kind[t] = "repeat" =>
        /\ \A i \in Nat : \A y, z :
              i < n /\ Yields(R, Sub[t][1], i, k, y) /\ AfterRound(R, t, i, n, y, z) =>
                  ForYields(R, t, i, n, k, z)
        /\ \A z : n > 0 /\ ForYields(R, t, 0, n, k, z) => Yields(R, t, n, k, z)
        /\ n = 0 => Yields(R, t, n, k, Yield(k, "value", Default))

InterceptRule(R) ==
    \A t \in Tasks : \A v, k, y, z : Kind[t] = "intercept" =>
        (Yields(R, Sub[t][1], v, k, y) /\ AfterTry(R, t, y, z) => Yields(R, t, v, k, z))

Closed(R, tr) ==
    /\ CallRule(R, tr)
    /\ SequentialRule(R)
    /\ ConditionalRule(R)
    /\ LoopRule(R)
    /\ RepeatRule(R)
    /\ InterceptRule(R)

\* It follows from the code that the task yields y.
Evaluates(t, v, tr, y) == \A R : Closed(R, tr) => Yields(R, t, v, 1, y)
-----------------------------------------------------------------------------
(***************************************************************************)
(* What it takes, the known differences between the code and what task.h   *)
(* says of it set aside: a value that the code reads again after it has    *)
(* copied it is not one that a copy moves (conditional_impl.h, loop_impl.h)*)
(* a repeat is given something to repeat, and what it repeats returns      *)
(* nothing or a value-initialized result (repeat_impl.h).                  *)
(***************************************************************************)
NothingMoved ==
    \A r \in Runs :
        /\ Creates(r, "conditional") \/ Creates(r, "loop") => call[r].value \notin Movable
        /\ Reports(r, "loop") /\ call[r].as = "body" => call[r].value \notin Movable

RepeatsSomething == \A r \in Runs : Creates(r, "repeat") => call[r].value \in Nat \ {0}

RepeatsForNothing == \A r \in Runs : Reports(r, "repeat") => call[r].value \in {NoValue, Default}

KnownDifferencesAside == NothingMoved /\ RepeatsSomething /\ RepeatsForNothing

(***************************************************************************)
(* A run does what the synchronous code of task.h does.  Whenever a        *)
(* function of its is executed, or posted to be, the code has made the     *)
(* calls of the trace and calls that function next, with the same input:   *)
(* if that call does not end, the code does not.  And when the run is      *)
(* over, unless a runner was gone, the code has ended, with the calls of   *)
(* the trace and no others.                                                *)
(***************************************************************************)
FollowsTheCode ==
    \A r \in Runs :
        LET end == Len(trace[r]) + 1
            pending == Yield(end, "pending", NoValue)
        IN  /\ at[r] \in {"kickstart", "queued", "executing"} =>
                  \A R : /\ Closed(R, trace[r])
                         /\ Yields(R, Top(r).task, Top(r).input, end, pending)
                         => Yields(R, job[r].task, job[r].input, 1, pending)
            /\ at[r] = "over" /\ (\A q \in Runners : owned[q]) =>
                  \E as \in {"value", "exception"} : \E v :
                     Evaluates(job[r].task, job[r].input, trace[r], Yield(end, as, v))

(***************************************************************************)
(* One outcome at most follows from the code for a task, its input and the *)
(* outcomes that the functions of its simple tasks had: "the code does"    *)
(* says one thing.                                                         *)
(***************************************************************************)
CodeDecides ==
    \A r \in Runs : \A y, z :
        /\ Evaluates(job[r].task, job[r].input, trace[r], y)
        /\ Evaluates(job[r].task, job[r].input, trace[r], z)
        => y = z
=============================================================================
