---------------------------- MODULE DequeRunQueue ----------------------------
(***************************************************************************)
(* The run_queue of Linux and FreeBSD                                      *)
(* (lib/src/async/run_queue/deque/run_queue.{h,cpp}): a std::deque under a *)
(* mutex, and an atomic status word by which whoever makes the queue       *)
(* "not empty, active, not busy" wins the right to submit the next task to *)
(* the global concurrent dispatch queue.                                   *)
(*                                                                         *)
(* An atomic access to m_status and a critical section of m_mutex are      *)
(* separate steps.  An unlock commutes to the left of every other thread's *)
(* step and is merged with the step before it.                             *)
(***************************************************************************)
EXTENDS RunQueue

CONSTANTS Free,         \* the value of m_mutex when nobody holds it
          Releasers,    \* the clients that call release()
          WithDeleter   \* the tasks enqueued with a deleter and data

ASSUME DequeAssumption ==
    /\ Free \notin Threads
    /\ Releasers \subseteq Clients
    /\ WithDeleter \subseteq Tasks

VARIABLES
    m_mutex,      \* the thread that holds the mutex
    m_running,    \* the context handed to the pool
    seen,         \* release: m_self as it was read
    deleted       \* how often the deleter was called with the task's data

queueVars == <<m_status, m_mutex, m_fifo, m_running, m_self, useCount, dispatched>>
ghostVars == <<deleted, released, posted, begun, mark>>
vars == <<queueVars, pc, holds, executing, seen, ghostVars>>

Bits == {"EMPTY", "ACTIVE", "BUSY"}

\* A context: its task (NoTask when m_data is null) and whether m_queue is set.
Context == [task : Tasks \cup {NoTask}, queue : BOOLEAN]
ClearContext == [task |-> NoTask, queue |-> FALSE]

\* A context with a deleter is destroyed or cleared.
Deletes(d) ==
    IF d \in WithDeleter THEN [deleted EXCEPT ![d] = @ + 1] ELSE deleted

Labels == {"idle", "outside", "unmark", "submit", "pop", "mark", "dispatch",
           "reset", "activate", "unbusy", "leave"}

Init ==
    /\ InitQueue
    /\ m_mutex = Free
    /\ m_running = ClearContext
    /\ seen = [t \in Clients |-> FALSE]
    /\ deleted = [d \in Tasks |-> 0]
-----------------------------------------------------------------------------
(* enqueue: push under the lock, clear EMPTY and unlock, check_submit_next. *)

PushAs(t, d, fifo) ==
    /\ Caller(t)
    /\ ~released
    /\ ~Posted(d)
    /\ m_mutex = Free
    /\ m_mutex' = t
    /\ m_fifo' = fifo
    /\ useCount' = useCount + References(m_self)
    /\ deleted' = Deletes(d)
    /\ posted' = Append(posted, d)
    /\ pc' = [pc EXCEPT ![t] = "unmark"]
    /\ UNCHANGED <<m_status, m_running, m_self, dispatched, holds, executing,
                   seen, released, begun, mark>>

PushFront(t, d) == PushAs(t, d, <<[task |-> d, queue |-> m_self]>> \o m_fifo)
PushUncounted(t, d) == PushAs(t, d, Append(m_fifo, [task |-> d, queue |-> FALSE]))

\* The temporary that push_back copies is destroyed, which calls the deleter.
\* Nothing is enqueued once release() was called: the queue's notes leave the
\* outcome undefined, and the runner never does it.
EnqueuePush(t, d) == PushAs(t, d, Append(m_fifo, [task |-> d, queue |-> m_self]))

EnqueueUnmark(t) ==
    /\ pc[t] = "unmark"
    /\ m_status' = m_status \ {"EMPTY"}
    /\ m_mutex' = Free
    /\ pc' = [pc EXCEPT ![t] = "submit"]
    /\ UNCHANGED <<m_fifo, m_running, m_self, useCount, dispatched, holds,
                   executing, seen, ghostVars>>
-----------------------------------------------------------------------------
(* check_submit_next: the compare-exchange, and what its winner does.       *)

SubmitFrom(t, expected) ==
    /\ pc[t] = "submit"
    /\ m_status \in expected
    /\ m_status' = m_status \cup {"BUSY"}
    /\ pc' = [pc EXCEPT ![t] = "pop"]
    /\ UNCHANGED <<m_mutex, m_fifo, m_running, m_self, useCount, dispatched,
                   holds, executing, seen, ghostVars>>

SubmitWhileBusy(t) == SubmitFrom(t, {{"ACTIVE"}, {"ACTIVE", "BUSY"}})
SubmitWhileStopped(t) == SubmitFrom(t, {{}, {"ACTIVE"}})

SubmitWon(t) == SubmitFrom(t, {NOT_EMPTY_ACTIVE_NOT_BUSY})

SubmitLost(t) ==
    /\ pc[t] = "submit"
    /\ m_status # NOT_EMPTY_ACTIVE_NOT_BUSY
    /\ pc' = [pc EXCEPT ![t] = AfterSubmit(t)]
    /\ UNCHANGED <<queueVars, holds, executing, seen, ghostVars>>

\* Copying front() into m_running drops the pointer m_running held; pop_front
\* destroys the original, which calls the deleter.
PopFront(t) ==
    /\ pc[t] = "pop"
    /\ m_mutex = Free
    /\ m_fifo # <<>>
    /\ m_mutex' = t
    /\ m_running' = Head(m_fifo)
    /\ m_fifo' = Tail(m_fifo)
    /\ useCount' = useCount - References(m_running.queue)
    /\ deleted' = Deletes(Head(m_fifo).task)
    /\ pc' = [pc EXCEPT ![t] = "mark"]
    /\ UNCHANGED <<m_status, m_self, dispatched, holds, executing, seen,
                   released, posted, begun, mark>>

MarkAs(t, bits) ==
    /\ pc[t] = "mark"
    /\ m_status' = m_status \cup bits
    /\ pc' = [pc EXCEPT ![t] = "dispatch"]
    /\ UNCHANGED <<m_mutex, m_fifo, m_running, m_self, useCount, dispatched,
                   holds, executing, seen, ghostVars>>

MarkNothing(t) == MarkAs(t, {})

MarkEmpty(t) == MarkAs(t, IF m_fifo = <<>> THEN {"EMPTY"} ELSE {})

Dispatch(t) ==
    /\ pc[t] = "dispatch"
    /\ dispatched' = dispatched + 1
    /\ m_mutex' = Free
    /\ pc' = [pc EXCEPT ![t] = AfterSubmit(t)]
    /\ UNCHANGED <<m_status, m_fifo, m_running, m_self, useCount, holds,
                   executing, seen, ghostVars>>
-----------------------------------------------------------------------------
(* stop, start, release, and an owner that drops its pointer.               *)

Stop(t) == Deactivate(t) /\ UNCHANGED <<m_mutex, m_running, seen, deleted>>

ActivateThen(t, label) ==
    /\ m_status' = m_status \cup {"ACTIVE"}
    /\ pc' = [pc EXCEPT ![t] = label]
    /\ UNCHANGED <<m_mutex, m_fifo, m_running, m_self, useCount, dispatched,
                   holds, executing, seen, ghostVars>>

ActivateOnly(t) == ActivateThen(t, "outside")
Activate(t) == ActivateThen(t, "submit")

Start(t) == Caller(t) /\ Activate(t)

\* m_self.reset() reads the pointer, then clears it and drops the reference it
\* read: nothing makes the two one step.
ReleaseRead(t) ==
    /\ t \in Releasers
    /\ Caller(t)
    /\ seen' = [seen EXCEPT ![t] = m_self]
    /\ released' = TRUE
    /\ pc' = [pc EXCEPT ![t] = "reset"]
    /\ UNCHANGED <<queueVars, holds, executing, deleted, posted, begun, mark>>

ReleaseReset(t) ==
    /\ pc[t] = "reset"
    /\ m_self' = FALSE
    /\ useCount' = useCount - References(seen[t])
    /\ seen' = [seen EXCEPT ![t] = FALSE]
    /\ pc' = [pc EXCEPT ![t] = "activate"]
    /\ UNCHANGED <<m_status, m_mutex, m_fifo, m_running, dispatched, holds,
                   executing, ghostVars>>

ReleaseStart(t) == pc[t] = "activate" /\ Activate(t)

DropPointer(t) == Drop(t) /\ UNCHANGED <<m_mutex, m_running, seen, deleted>>
-----------------------------------------------------------------------------
(* run_next, on a worker of the pool.                                       *)

\* The worker copies the context's queue pointer and calls the function.
RunBegin(w) ==
    /\ pc[w] = "idle"
    /\ dispatched > 0
    /\ dispatched' = dispatched - 1
    /\ holds' = [holds EXCEPT ![w] = m_running.queue]
    /\ useCount' = useCount + References(m_running.queue)
    /\ executing' = [executing EXCEPT ![w] = m_running.task]
    /\ begun' = Append(begun, m_running.task)
    /\ pc' = [pc EXCEPT ![w] = "outside"]
    /\ UNCHANGED <<m_status, m_mutex, m_fifo, m_running, m_self, seen, deleted,
                   released, posted, mark>>

ClearTo(w, context) ==
    /\ w \in Workers
    /\ pc[w] = "outside"
    /\ m_running' = context
    /\ useCount' = useCount - References(m_running.queue) + References(context.queue)
    /\ deleted' = Deletes(m_running.task)
    /\ executing' = [executing EXCEPT ![w] = NoTask]
    /\ pc' = [pc EXCEPT ![w] = "unbusy"]
    /\ UNCHANGED <<m_status, m_mutex, m_fifo, m_self, dispatched, holds, seen,
                   released, posted, begun, mark>>

ClearDataOnly(w) == ClearTo(w, [m_running EXCEPT !.task = NoTask])

\* The function returns or throws, and the context is cleared.
RunClear(w) == ClearTo(w, ClearContext)

UnbusyThen(w, label) ==
    /\ pc[w] = "unbusy"
    /\ m_status' = m_status \ {"BUSY"}
    /\ pc' = [pc EXCEPT ![w] = label]
    /\ UNCHANGED <<m_mutex, m_fifo, m_running, m_self, useCount, dispatched,
                   holds, executing, seen, ghostVars>>

UnbusyOnly(w) == UnbusyThen(w, "leave")
RunUnbusy(w) == UnbusyThen(w, "submit")

\* The local copy of the queue pointer is destroyed.
RunLeave(w) ==
    /\ pc[w] = "leave"
    /\ holds' = [holds EXCEPT ![w] = FALSE]
    /\ useCount' = useCount - References(holds[w])
    /\ pc' = [pc EXCEPT ![w] = "idle"]
    /\ UNCHANGED <<m_status, m_mutex, m_fifo, m_running, m_self, dispatched,
                   executing, seen, ghostVars>>
-----------------------------------------------------------------------------
Call(t) ==
    \/ \E d \in Tasks : EnqueuePush(t, d)
    \/ Stop(t)
    \/ Start(t)
    \/ ReleaseRead(t)
    \/ DropPointer(t)

\* A step inside a call, which its thread takes sooner or later.
Inside(t) ==
    \/ EnqueueUnmark(t)
    \/ SubmitWon(t)
    \/ SubmitLost(t)
    \/ PopFront(t)
    \/ MarkEmpty(t)
    \/ Dispatch(t)
    \/ ReleaseReset(t)
    \/ ReleaseStart(t)

Run(w) ==
    \/ RunBegin(w)
    \/ RunClear(w)
    \/ RunUnbusy(w)
    \/ RunLeave(w)

\* Every pointer is dropped, the pool is at rest, and the queue is destroyed or
\* was stopped again after its release.
Terminated ==
    /\ AtRest
    /\ useCount = 0 \/ "ACTIVE" \notin m_status
    /\ UNCHANGED vars

Next ==
    \/ \E t \in Threads : Call(t) \/ Inside(t)
    \/ \E w \in Workers : Run(w)
    \/ Terminated

Spec == Init /\ [][Next]_vars

(***************************************************************************)
(* The operating system schedules every thread; the pool takes what was    *)
(* submitted; the function of a task returns, however often it called the  *)
(* queue meanwhile (strong fairness: its own calls disable RunClear).      *)
(***************************************************************************)
Fairness ==
    /\ \A t \in Threads : WF_vars(Inside(t))
    /\ \A w \in Workers :
           /\ WF_vars(RunBegin(w))
           /\ WF_vars(RunUnbusy(w))
           /\ WF_vars(RunLeave(w))
           /\ SF_vars(RunClear(w))

FairSpec == Spec /\ Fairness
-----------------------------------------------------------------------------
TypeOK ==
    /\ m_status \in SUBSET Bits
    /\ m_mutex \in Threads \cup {Free}
    /\ m_fifo \in Seq([task : Tasks, queue : BOOLEAN])
    /\ m_running \in Context
    /\ m_self \in BOOLEAN
    /\ useCount \in Int
    /\ dispatched \in Nat
    /\ pc \in [Threads -> Labels]
    /\ holds \in [Threads -> BOOLEAN]
    /\ executing \in [Workers -> Tasks \cup {NoTask}]
    /\ seen \in [Clients -> BOOLEAN]
    /\ deleted \in [Tasks -> Nat]
    /\ released \in BOOLEAN
    /\ posted \in Seq(Tasks)
    /\ begun \in Seq(Tasks)
    /\ mark \in [posted : Nat, begun : Nat]

\* Whoever may touch m_running: the winner of the compare-exchange until it has
\* dispatched, and the worker that executes until it clears BUSY.
Owner(t) ==
    \/ pc[t] \in {"pop", "mark", "dispatch", "unbusy"}
    \/ t \in Workers /\ executing[t] # NoTask

(***************************************************************************)
(* m_running has one owner at a time, or one submission of it waits in the *)
(* pool, and BUSY says so: no task executes beside another one, and no     *)
(* context is overwritten while the pool or a worker uses it               *)
(* (run_queue.cpp, check_submit_next and run_next).                        *)
(***************************************************************************)
SerialExecution ==
    /\ \A t, u \in Threads : Owner(t) /\ Owner(u) => t = u
    /\ dispatched <= 1
    /\ dispatched = 1 => \A t \in Threads : ~Owner(t)
    /\ "BUSY" \in m_status <=> dispatched = 1 \/ \E t \in Threads : Owner(t)

(***************************************************************************)
(* front() and pop_front() are never called on an empty deque: the EMPTY   *)
(* bit, read without the mutex, is clear only when there is something to   *)
(* pop for whoever wins the compare-exchange (check_submit_next).          *)
(***************************************************************************)
NeverPopsEmpty == \A t \in Threads : pc[t] = "pop" => m_fifo # <<>>

(***************************************************************************)
(* No wakeup is lost: whenever tasks wait in an active queue that is not   *)
(* busy, a thread is on its way to the compare-exchange.  The thread that  *)
(* loses it may leave, because whoever made it lose comes after it         *)
(* (check_submit_next; notes of run_queue.h, 1.2.1).                       *)
(***************************************************************************)
NeverStranded ==
    m_fifo # <<>> /\ "ACTIVE" \in m_status /\ "BUSY" \notin m_status
        => \E t \in Threads : pc[t] \in {"unmark", "submit"}

(***************************************************************************)
(* Tasks begin in the order in which they were posted, each once and none  *)
(* is lost: what was posted is what has begun, then the context handed to  *)
(* the pool, then m_fifo (notes of run_queue.h, 1.2.1).                    *)
(***************************************************************************)
HandedOver ==
    IF dispatched > 0 \/ \E t \in Threads : pc[t] \in {"mark", "dispatch"}
    THEN <<m_running.task>> ELSE <<>>

InOrder == posted = begun \o HandedOver \o Waiting

(***************************************************************************)
(* The queue exists as long as a thread is inside one of its methods, a    *)
(* client owns a pointer to it, or a task waits or executes, even when the *)
(* owners dropped their pointers after release (notes of run_queue.h, 2).  *)
(***************************************************************************)
InUse ==
    \/ m_fifo # <<>>
    \/ dispatched > 0
    \/ \E t \in Threads : holds[t] \/ pc[t] \notin {"idle", "outside"}
    \/ ~Idle

ExistsWhileUsed ==
    /\ InUse => useCount > 0
    /\ \A w \in Workers : pc[w] \in {"unbusy", "leave"} => holds[w]

(***************************************************************************)
(* A task's data is deleted only after the task was executed, and once     *)
(* (notes of run_queue.h, 1.2.1).                                          *)
(***************************************************************************)
DeletedOnceAfterExecution ==
    \A d \in WithDeleter :
        /\ deleted[d] <= 1
        /\ deleted[d] = 1 => /\ Begun(d)
                             /\ ~Executing(d)
-----------------------------------------------------------------------------
(***************************************************************************)
(* The queue implements the serial executor.  A task is taken when the     *)
(* compare-exchange is won, before it leaves m_fifo; it is finished when   *)
(* its context is cleared, before BUSY is.                                 *)
(***************************************************************************)
Popping == \E t \in Threads : pc[t] = "pop"

Pending == IF Popping THEN Tail(Waiting) ELSE Waiting

Taken ==
    IF Popping THEN Head(Waiting)
    ELSE IF HandedOver # <<>> THEN m_running.task ELSE NoTask

Current == IF Idle THEN NoTask ELSE m_running.task

Executed == {d \in Tasks : Begun(d) /\ ~Executing(d)}

Executor == INSTANCE SerialExecutor WITH
    pending <- Pending,
    taken <- Taken,
    executing <- Current,
    executed <- Executed,
    active <- "ACTIVE" \in m_status

ImplementsExecutor == Executor!Spec
ImplementsFairExecutor == Executor!FairSpec
=============================================================================
