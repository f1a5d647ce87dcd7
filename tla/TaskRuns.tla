------------------------------- MODULE TaskRuns -------------------------------
(***************************************************************************)
(* How a task runs: include/cool/ng/impl/async/{task,simple_impl,          *)
(* sequential_impl,conditional_impl,loop_impl,repeat_impl,intercept_impl}.h*)
(* and lib/src/async/runner.cpp.                                           *)
(*                                                                         *)
(* run() creates a stack of contexts, the task's and on top of it those of *)
(* its first subtasks down to a simple task, and posts the stack to the    *)
(* queue of that task's runner.  task_executor calls the simple task's     *)
(* function and its result or exception goes from context to context, each *)
(* popping itself or creating its next subtask; the stack is then posted   *)
(* again, or deleted when it is empty.                                     *)
(*                                                                         *)
(* The compound tasks are in the tree but out of the build at this commit, *)
(* and so is the simple task's use of contexts (simple_impl.h 225-387); the*)
(* module models that code, with the bodies of set_input and               *)
(* set_res_reporter (context.h 367-378), commented out since, as they read.*)
(*                                                                         *)
(* A queue is what SerialExecutor promises: one stack at a time, in the    *)
(* order they were posted.  A context bound in a reporter is its place in  *)
(* the stack.                                                              *)
(***************************************************************************)
EXTENDS Integers, SequencesExt

CONSTANTS
    Runs, NoRun,      \* the calls of run()
    Runners,
    Tasks,
    Kind,             \* of a task: "simple", "sequential", ...
    Sub,              \* its subtasks; of an intercept: try, catch_1, catch_2..
    Home,             \* the runner of a simple task
    Returns, Throws,  \* what the function of a simple task may return, throw
    Catches,          \* of an intercept: the exceptions each catcher accepts
    Roots, Inputs,    \* the tasks that a run may run, and with what
    NoValue,          \* an empty any
    Movable, Moved,   \* values that a move changes, and what it leaves
    Default,          \* a value-initialized result
    Yes, No,
    MaxSteps          \* bound: a predicate returns Yes only so many steps in

Compound == {"sequential", "conditional", "loop", "repeat", "intercept"}

ASSUME TasksAssumption ==
    /\ NoRun \notin Runs
    /\ \A t \in Tasks : Kind[t] \in Compound \cup {"simple"}
    /\ \A t \in Tasks : Kind[t] # "simple" => Sub[t] \in Seq(Tasks) /\ Sub[t] # <<>>
    /\ \A t \in Tasks : Kind[t] = "simple" => Home[t] \in Runners
    /\ \A r \in Runs : Roots[r] \subseteq Tasks
    /\ MaxSteps \in Nat

\* What the factories of task.h accept (sequence, conditional, loop, try_catch).
ASSUME ShapesAssumption ==
    \A t \in Tasks :
        /\ Kind[t] = "conditional" => Len(Sub[t]) \in {2, 3}
        /\ Kind[t] = "loop" => Len(Sub[t]) \in {1, 2}
        /\ Kind[t] = "intercept" => DOMAIN Catches[t] = 1..(Len(Sub[t]) - 1)

VARIABLES
    job,       \* what run() was called with
    stack,     \* the context_stack of a run, its top last
    call,      \* the call in progress among the contexts of a run
    at,        \* where the run is
    held,      \* the runner that kickstart or task_executor has locked
    trace,     \* history: the functions called, with input and outcome
    queue,     \* the stacks that wait in the queue of a runner
    worker,    \* the run the queue is executing
    owned      \* the user still owns the runner

vars == <<job, stack, call, at, held, trace, queue, worker, owned>>

NoCall == [op |-> "none"]
NoRunner == "none"

Context(t, input, to, as) ==
    [task |-> t, input |-> input, count |-> 0, to |-> to, as |-> as]

Init ==
    /\ job = [r \in Runs |-> NoCall]
    /\ stack = [r \in Runs |-> <<>>]
    /\ call = [r \in Runs |-> NoCall]
    /\ at = [r \in Runs |-> "new"]
    /\ held = [r \in Runs |-> NoRunner]
    /\ trace = [r \in Runs |-> <<>>]
    /\ queue = [q \in Runners |-> <<>>]
    /\ worker = [q \in Runners |-> NoRun]
    /\ owned = [q \in Runners |-> TRUE]

\* get_runner() of a compound task is that of its first subtask.
GetRunner[t \in Tasks] ==
    IF Kind[t] = "simple" THEN Home[t] ELSE GetRunner[Sub[t][1]]

\* So it is of trees: a simple task is below every task.
ASSUME RunnersAssumption == \A t \in Tasks : GetRunner[t] \in Runners

\* weak_ptr::lock()
Alive(q) == owned[q] \/ \E r \in Runs : held[r] = q

Top(r) == Last(stack[r])
Simple(r) == Kind[Top(r).task] = "simple"

\* What an any holds after it was copied: clone() moves the value out of it.
Copied(v) == IF v \in Movable THEN Moved ELSE v
-----------------------------------------------------------------------------
(***************************************************************************)
(* Calls among the contexts of one run.  No other thread has access to     *)
(* them.                                                                   *)
(***************************************************************************)

\* run() and kickstart go on in the caller, everything else in task_executor.
Return(r) ==
    /\ call' = [call EXCEPT ![r] = NoCall]
    /\ at' = [at EXCEPT ![r] = IF @ = "starting" THEN "kickstart" ELSE "tail"]

\* create_context(t, input) with reporters bound to the context on top of s.
Spawn(r, s, t, input, as) ==
    /\ stack' = [stack EXCEPT ![r] = s]
    /\ call' = [call EXCEPT ![r] = [op |-> "create", task |-> t, value |-> input,
                                    to |-> Len(s), as |-> as]]
    /\ UNCHANGED <<job, at, held, trace, queue, worker, owned>>

\* The context pops itself and calls the reporter it was given.
PassOn(r, op, v) ==
    LET self == stack[r][call[r].to]
    IN  /\ stack' = [stack EXCEPT ![r] = Front(@)]
        /\ call' = [call EXCEPT ![r] = [op |-> op, value |-> v, to |-> self.to,
                                        as |-> self.as]]
        /\ UNCHANGED <<job, at, held, trace, queue, worker, owned>>

Creates(r, kind) == call[r].op = "create" /\ Kind[call[r].task] = kind

Created(r) == Context(call[r].task, call[r].value, call[r].to, call[r].as)

\* The context created keeps what the copy for its first subtask leaves.
CreateAndSpawn(r, count, as) ==
    Spawn(r, Append(stack[r], [Created(r) EXCEPT !.input = Copied(@), !.count = count]),
          Sub[call[r].task][1], call[r].value, as)

CreateSimple(r) ==
    /\ Creates(r, "simple")
    /\ stack' = [stack EXCEPT ![r] = Append(@, Created(r))]
    /\ Return(r)
    /\ UNCHANGED <<job, held, trace, queue, worker, owned>>

CreateSequential(r) == Creates(r, "sequential") /\ CreateAndSpawn(r, 1, "result")

CreateConditional(r) == Creates(r, "conditional") /\ CreateAndSpawn(r, 0, "result")

CreateLoop(r) == Creates(r, "loop") /\ CreateAndSpawn(r, 0, "predicate")

CreateIntercept(r) == Creates(r, "intercept") /\ CreateAndSpawn(r, 0, "result")

\* The input is m_limit; the subtask's is m_counter.
CreateRepeat(r) ==
    /\ Creates(r, "repeat")
    /\ IF call[r].value > 0
       THEN Spawn(r, Append(stack[r], Created(r)), Sub[call[r].task][1], 0, "result")
       ELSE /\ stack' = [stack EXCEPT ![r] = Append(@, Created(r))]
            /\ Return(r)
            /\ UNCHANGED <<job, held, trace, queue, worker, owned>>
-----------------------------------------------------------------------------
\* `this' of the reporter that is called.
Self(r) == stack[r][call[r].to]

Reports(r, kind) ==
    call[r].op = "report" /\ call[r].to > 0 /\ Kind[Self(r).task] = kind

Subtasks(r) == Sub[Self(r).task]

\* The stack with fields of the context that is reported to changed.
WithInput(r, v, count) ==
    [stack[r] EXCEPT ![call[r].to].input = v, ![call[r].to].count = count]

ReportToNobody(r) ==
    /\ call[r].op \in {"report", "throw"}
    /\ call[r].to = 0
    /\ Return(r)
    /\ UNCHANGED <<job, stack, held, trace, queue, worker, owned>>

ReportSequential(r) ==
    /\ Reports(r, "sequential")
    /\ IF Self(r).count = Len(Subtasks(r))
       THEN PassOn(r, "report", call[r].value)
       ELSE Spawn(r, WithInput(r, Copied(call[r].value), Self(r).count + 1),
                  Subtasks(r)[Self(r).count + 1], call[r].value, "result")

\* count is 1 once the predicate has reported (m_predicate_result is false).
ReportConditional(r) ==
    /\ Reports(r, "conditional")
    /\ LET branch == IF call[r].value = Yes THEN 2 ELSE 3
       IN  CASE Self(r).count = 1 -> PassOn(r, "report", call[r].value)
             [] Self(r).count = 0 /\ branch <= Len(Subtasks(r)) ->
                   Spawn(r, WithInput(r, Copied(Self(r).input), 1),
                         Subtasks(r)[branch], Self(r).input, "result")
             [] OTHER -> PassOn(r, "report", NoValue)

\* Without a body the predicate runs again.
ReportLoopPredicate(r) ==
    /\ Reports(r, "loop")
    /\ call[r].as = "predicate"
    /\ LET body == Len(Subtasks(r)) = 2
       IN  IF call[r].value = No
           THEN PassOn(r, "report", Self(r).input)
           ELSE Spawn(r, WithInput(r, Copied(Self(r).input), 0),
                      Subtasks(r)[IF body THEN 2 ELSE 1], Self(r).input,
                      IF body THEN "body" ELSE "predicate")

ReportLoopBody(r) ==
    /\ Reports(r, "loop")
    /\ call[r].as = "body"
    /\ Spawn(r, WithInput(r, Copied(call[r].value), 0), Subtasks(r)[1], call[r].value,
             "predicate")

\* any::empty() returns TRUE of an any that holds a value.
RepeatResult(v) == IF v # NoValue THEN Default ELSE v

RepeatOnceMore(r) ==
    /\ Reports(r, "repeat")
    /\ IF Self(r).count < Self(r).input
       THEN Spawn(r, WithInput(r, Self(r).input, Self(r).count + 1), Subtasks(r)[1],
                  Self(r).count + 1, "result")
       ELSE PassOn(r, "report", RepeatResult(call[r].value))

ReportRepeat(r) ==
    /\ Reports(r, "repeat")
    /\ LET count == Self(r).count + 1
       IN  IF count < Self(r).input
           THEN Spawn(r, WithInput(r, Self(r).input, count), Subtasks(r)[1], count, "result")
           ELSE PassOn(r, "report", RepeatResult(call[r].value))

ReportIntercept(r) == Reports(r, "intercept") /\ PassOn(r, "report", call[r].value)
-----------------------------------------------------------------------------
AcceptingAgain(r) ==
    IF Kind[Self(r).task] = "intercept"
    THEN {i \in DOMAIN Catches[Self(r).task] : call[r].value \in Catches[Self(r).task][i]}
    ELSE {}

\* The catchers of an intercept that accept the exception.  A catcher's own
\* exception goes to final_exception_report.
Accepting(r) ==
    IF Kind[Self(r).task] = "intercept" /\ call[r].as # "caught"
    THEN {i \in DOMAIN Catches[Self(r).task] : call[r].value \in Catches[Self(r).task][i]}
    ELSE {}

ReportException(r) ==
    /\ call[r].op = "throw"
    /\ call[r].to > 0
    /\ IF Accepting(r) = {}
       THEN PassOn(r, "throw", call[r].value)
       ELSE Spawn(r, stack[r], Subtasks(r)[1 + Min(Accepting(r))], call[r].value, "caught")
-----------------------------------------------------------------------------
(***************************************************************************)
(* run(), the runner and its queue.                                        *)
(***************************************************************************)
Run(r, t, input) ==
    /\ at[r] = "new"
    /\ job' = [job EXCEPT ![r] = [task |-> t, input |-> input]]
    /\ at' = [at EXCEPT ![r] = "starting"]
    /\ call' = [call EXCEPT ![r] = [op |-> "create", task |-> t, value |-> input,
                                    to |-> 0, as |-> "none"]]
    /\ UNCHANGED <<stack, held, trace, queue, worker, owned>>

Discard(r) ==
    /\ stack' = [stack EXCEPT ![r] = <<>>]
    /\ at' = [at EXCEPT ![r] = "over"]

\* With the runner gone kickstart deletes the stack and throws.
Kickstart(r) ==
    /\ at[r] = "kickstart"
    /\ LET q == GetRunner[Top(r).task]
       IN  IF Alive(q)
           THEN /\ queue' = [queue EXCEPT ![q] = Append(@, r)]
                /\ at' = [at EXCEPT ![r] = "queued"]
                /\ UNCHANGED stack
           ELSE Discard(r) /\ UNCHANGED queue
    /\ UNCHANGED <<job, call, held, trace, worker, owned>>

\* task_executor in queue q, up to the user's function; the entry point of a
\* compound task does nothing.
TaskExecutor(q) ==
    /\ worker[q] = NoRun
    /\ queue[q] # <<>>
    /\ queue' = [queue EXCEPT ![q] = Tail(@)]
    /\ LET r == Head(queue[q])
           runner == GetRunner[Top(r).task]
       IN  IF Alive(runner)
           THEN /\ held' = [held EXCEPT ![r] = runner]
                /\ worker' = [worker EXCEPT ![q] = r]
                /\ at' = [at EXCEPT ![r] = IF Simple(r) THEN "executing" ELSE "tail"]
                /\ UNCHANGED stack
           ELSE Discard(r) /\ UNCHANGED <<held, worker>>
    /\ UNCHANGED <<job, call, trace, owned>>

\* The function of the simple task on top returns or throws; its context has
\* popped itself before.
CallEnds(r, op, v, popped) ==
    /\ at[r] = "executing"
    /\ trace' = [trace EXCEPT ![r] = Append(@, [task |-> Top(r).task,
                                                input |-> Top(r).input,
                                                outcome |-> v])]
    /\ call' = [call EXCEPT ![r] = [op |-> op, value |-> v, to |-> Top(r).to,
                                    as |-> Top(r).as]]
    /\ stack' = [stack EXCEPT ![r] = popped]
    /\ at' = [at EXCEPT ![r] = "reporting"]
    /\ UNCHANGED <<job, held, queue, worker, owned>>

CallReturnsUnpopped(r, v) == CallEnds(r, "report", v, stack[r])

CallReturns(r, v) == CallEnds(r, "report", v, Front(stack[r]))

CallThrows(r, e) == CallEnds(r, "throw", e, Front(stack[r]))

\* The end of task_executor: the stack goes to the queue of the runner locked.
EndWith(r, queues) ==
    /\ at[r] = "tail"
    /\ at' = [at EXCEPT ![r] = IF stack[r] = <<>> THEN "over" ELSE "queued"]
    /\ queue' = IF stack[r] = <<>> THEN queue ELSE queues
    /\ held' = [held EXCEPT ![r] = NoRunner]
    /\ worker' = [q \in Runners |-> IF worker[q] = r THEN NoRun ELSE worker[q]]
    /\ UNCHANGED <<job, stack, call, trace, owned>>

EndUnposted(r) == EndWith(r, queue)

End(r) == EndWith(r, [queue EXCEPT ![held[r]] = Append(@, r)])

\* The user drops the runner's last pointer.
DropRunner(q) ==
    /\ owned[q]
    /\ owned' = [owned EXCEPT ![q] = FALSE]
    /\ UNCHANGED <<job, stack, call, at, held, trace, queue, worker>>
-----------------------------------------------------------------------------
Create(r) ==
    \/ CreateSimple(r)
    \/ CreateSequential(r)
    \/ CreateConditional(r)
    \/ CreateLoop(r)
    \/ CreateIntercept(r)
    \/ CreateRepeat(r)

Report(r) ==
    \/ ReportToNobody(r)
    \/ ReportSequential(r)
    \/ ReportConditional(r)
    \/ ReportLoopPredicate(r)
    \/ ReportLoopBody(r)
    \/ ReportRepeat(r)
    \/ ReportIntercept(r)
    \/ ReportException(r)

\* A predicate that answers Yes for ever is a loop for ever.
CallEndsSomehow(r) ==
    /\ at[r] = "executing"
    /\ \/ \E v \in Returns[Top(r).task] :
             (v = Yes => Len(trace[r]) < MaxSteps) /\ CallReturns(r, v)
       \/ \E e \in Throws[Top(r).task] : CallThrows(r, e)

Step(r) == Create(r) \/ Report(r) \/ Kickstart(r) \/ CallEndsSomehow(r) \/ End(r)

Next ==
    \/ \E r \in Runs :
          \/ \E t \in Roots[r] : \E input \in Inputs[t] : Run(r, t, input)
          \/ Step(r)
    \/ \E q \in Runners : TaskExecutor(q) \/ DropRunner(q)
    \/ (\A r \in Runs : at[r] = "over") /\ UNCHANGED vars

Spec == Init /\ [][Next]_vars

\* Threads are scheduled, queues execute what is posted, functions return.
FairSpec ==
    /\ Spec
    /\ \A r \in Runs : WF_vars(Step(r))
    /\ \A q \in Runners : WF_vars(TaskExecutor(q))
-----------------------------------------------------------------------------
(***************************************************************************)
(* Each context reports to the one right below it, the context that is     *)
(* called is the one on top and pops no other than itself, and when a run  *)
(* ends nothing is left on its stack: contexts are deleted once and none   *)
(* is forgotten (pop() and delete this in the reporters, task_executor).   *)
(***************************************************************************)
StackDiscipline ==
    \A r \in Runs :
        /\ \A i \in DOMAIN stack[r] : stack[r][i].to = i - 1
        /\ call[r] # NoCall => call[r].to = Len(stack[r])
        /\ at[r] \in {"kickstart", "queued", "executing"} =>
              stack[r] # <<>> /\ Simple(r)
        /\ at[r] = "over" => stack[r] = <<>>

(***************************************************************************)
(* The functions of two tasks of one runner are never executed at once     *)
(* (task.h: "thus serializing the access to the data grouped around these  *)
(* runners").                                                              *)
(***************************************************************************)
SerializedByRunner ==
    \A r, s \in Runs :
        r # s /\ at[r] = "executing" /\ at[s] = "executing" =>
            Home[Top(r).task] # Home[Top(s).task]

(***************************************************************************)
(* Every run comes to its end: its stack is posted again as long as it has *)
(* contexts, behind those of the other runs (task_executor).               *)
(***************************************************************************)
EveryRunEnds == \A r \in Runs : (at[r] # "new") ~> (at[r] = "over")
=============================================================================
