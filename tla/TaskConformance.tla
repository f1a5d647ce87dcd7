--------------------------- MODULE TaskConformance ---------------------------
(***************************************************************************)
(* What include/cool/ng/async/task.h promises of the compound tasks: each  *)
(* corresponds to synchronous code, t3(t2(t1(x))), if, while, for and      *)
(* try-catch, given there.  The synchronous code is evaluated here with    *)
(* the outcomes the functions of the simple tasks had in a run (its trace) *)
(* and must call the same functions, in the same order, with the same      *)
(* inputs.                                                                 *)
(*                                                                         *)
(* An evaluation starts at a place k of the trace and yields the place     *)
(* after it, and a value, an exception, "pending" if the trace ends before *)
(* it does, or "wrong" if the trace has another call than it makes.        *)
(* TaskMeaning has the same code as rules.                                 *)
(***************************************************************************)
EXTENDS TaskMeaning

\* A call of the function of the simple task t.
FunctionCall(t, input, k, tr) ==
    IF k > Len(tr) THEN Yield(k, "pending", NoValue)
    ELSE IF tr[k].task # t \/ tr[k].input # input THEN Yield(k, "wrong", NoValue)
    ELSE Yield(k + 1, IF tr[k].outcome \in Throws[t] THEN "exception" ELSE "value",
               tr[k].outcome)

RECURSIVE Synchronous(_, _, _, _), InTurn(_, _, _, _), While(_, _, _, _, _),
          For(_, _, _, _, _, _)

\* ts[n]( ... ts[1](input))
InTurn(ts, input, k, tr) ==
    LET first == Synchronous(ts[1], input, k, tr)
    IN  IF first.as # "value" \/ Len(ts) = 1 THEN first
        ELSE InTurn(Tail(ts), first.value, first.k, tr)

\* while (p(result)) result = body(result)
While(p, body, result, k, tr) ==
    LET again == Synchronous(p, result, k, tr)
        done == IF body = <<>> THEN again
                ELSE Synchronous(body[1], result, again.k, tr)
    IN  IF again.as # "value" THEN again
        ELSE IF again.value = No THEN Yield(again.k, "value", result)
        ELSE IF done.as # "value" THEN done
        ELSE While(p, body, IF body = <<>> THEN result ELSE done.value, done.k, tr)

\* for (i = 0; i < n; ++i) result = t(i)
For(t, i, n, result, k, tr) ==
    LET one == Synchronous(t, i, k, tr)
    IN  IF i >= n THEN Yield(k, "value", result)
        ELSE IF one.as # "value" THEN one
        ELSE For(t, i + 1, n, one.value, one.k, tr)

Synchronous(t, input, k, tr) ==
    CASE Kind[t] = "simple" -> FunctionCall(t, input, k, tr)
      [] Kind[t] = "sequential" -> InTurn(Sub[t], input, k, tr)
      [] Kind[t] = "conditional" ->
            LET p == Synchronous(Sub[t][1], input, k, tr)
            IN  IF p.as # "value" THEN p
                ELSE IF p.value = Yes THEN Synchronous(Sub[t][2], input, p.k, tr)
                ELSE IF Len(Sub[t]) = 3 THEN Synchronous(Sub[t][3], input, p.k, tr)
                ELSE Yield(p.k, "value", NoValue)
      [] Kind[t] = "loop" -> While(Sub[t][1], Tail(Sub[t]), input, k, tr)
      [] Kind[t] = "repeat" -> For(Sub[t][1], 0, input, Default, k, tr)
      [] Kind[t] = "intercept" ->
            LET try == Synchronous(Sub[t][1], input, k, tr)
                accept == {i \in DOMAIN Catches[t] : try.value \in Catches[t][i]}
            IN  IF try.as = "exception" /\ accept # {}
                THEN Synchronous(Sub[t][1 + Min(accept)], try.value, try.k, tr)
                ELSE try

(***************************************************************************)
(* A run calls exactly the functions that the synchronous code of task.h   *)
(* calls, with the same inputs, in the same order, and it ends when that   *)
(* code ends, unless a runner it needs is gone.                            *)
(***************************************************************************)
Conforms ==
    \A r \in Runs : at[r] # "new" =>
        LET code == Synchronous(job[r].task, job[r].input, 1, trace[r])
        IN  /\ code.as # "wrong"
            /\ code.k = Len(trace[r]) + 1
            /\ at[r] = "over" /\ (\A q \in Runners : owned[q]) => code.as # "pending"
=============================================================================
