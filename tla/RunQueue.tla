------------------------------- MODULE RunQueue -------------------------------
(***************************************************************************)
(* What the Linux/FreeBSD run_queue (DequeRunQueue) and the Windows one    *)
(* (WincpRunQueue) have in common: the threads that call it, the reference *)
(* count of the queue object, the tasks, and the promises the notes in     *)
(* both run_queue.h files make.                                            *)
(*                                                                         *)
(* A thread is a client, which owns a shared pointer to the queue, or a    *)
(* worker of the platform's thread pool, which executes run_next.  The     *)
(* function a worker executes is user code and may itself enqueue, stop    *)
(* and start.                                                              *)
(***************************************************************************)
EXTENDS Integers, Sequences, FiniteSets

CONSTANTS Clients,    \* threads that own a pointer to the queue
          Workers,    \* threads of the pool
          Tasks,      \* the tasks; each is enqueued at most once
          NoTask,     \* the data_ of a cleared context
          Stoppers    \* the threads that call stop()

Threads == Clients \cup Workers

ASSUME RolesAssumption ==
    /\ IsFiniteSet(Clients)
    /\ Clients \cap Workers = {}
    /\ NoTask \notin Tasks
    /\ Stoppers \subseteq Threads

VARIABLES
    m_status,     \* the bits that are set
    m_fifo,       \* contexts waiting to be executed
    m_self,       \* TRUE while the queue points to itself
    useCount,     \* the reference count in the control block of the queue
    dispatched,   \* submissions to the pool that no worker has taken
    pc,           \* where a thread is in the run_queue's code
    holds,        \* the thread's shared pointer to the queue is not null
    executing,    \* the task whose function a worker is calling
    released,     \* history: release() was called
    posted,       \* history: tasks in the order they entered m_fifo
    begun,        \* history: tasks in the order their execution began
    mark          \* history: what was posted and begun at the last stop

NOT_EMPTY_ACTIVE_NOT_BUSY == {"ACTIVE"}
EMPTY_ACTIVE_NOT_BUSY == {"EMPTY", "ACTIVE"}

References(b) == IF b THEN 1 ELSE 0

Posted(d) == \E i \in DOMAIN posted : posted[i] = d
Begun(d) == \E i \in DOMAIN begun : begun[i] = d
Waiting == [i \in DOMAIN m_fifo |-> m_fifo[i].task]
Executing(d) == \E w \in Workers : executing[w] = d
Idle == \A w \in Workers : executing[w] = NoTask

\* Who may call the queue's methods: an owner of a pointer to it, in its own
\* code ("outside"), or a worker in the function that it executes.
Caller(t) == pc[t] = "outside" /\ holds[t]

\* The label after check_submit_next returns: run_next, which is done with its
\* context, returns to the pool; any other caller to the user's code.
AfterSubmit(t) ==
    IF t \in Workers /\ executing[t] = NoTask THEN "leave" ELSE "outside"

\* create(): an active queue that points to itself; its clients share it.
InitQueue ==
    /\ m_status = EMPTY_ACTIVE_NOT_BUSY
    /\ m_fifo = <<>>
    /\ m_self = TRUE
    /\ useCount = 1 + Cardinality(Clients)
    /\ dispatched = 0
    /\ pc = [t \in Threads |-> IF t \in Clients THEN "outside" ELSE "idle"]
    /\ holds = [t \in Threads |-> t \in Clients]
    /\ executing = [w \in Workers |-> NoTask]
    /\ released = FALSE
    /\ posted = <<>>
    /\ begun = <<>>
    /\ mark = [posted |-> 0, begun |-> 0]

\* stop() is one atomic access.
Deactivate(t) ==
    /\ t \in Stoppers
    /\ Caller(t)
    /\ m_status' = m_status \ {"ACTIVE"}
    /\ mark' = IF "ACTIVE" \in m_status
               THEN [posted |-> Len(posted), begun |-> Len(begun)] ELSE mark
    /\ UNCHANGED <<m_fifo, m_self, useCount, dispatched, pc, holds, executing,
                   released, posted, begun>>

\* release() is mandatory before the pointers to the queue are gone.
Drop(t) ==
    /\ t \in Clients
    /\ Caller(t)
    /\ released
    /\ holds' = [holds EXCEPT ![t] = FALSE]
    /\ useCount' = useCount - 1
    /\ UNCHANGED <<m_status, m_fifo, m_self, dispatched, pc, executing,
                   released, posted, begun, mark>>

\* Every pointer is dropped and no thread has anything left to do.
AtRest ==
    /\ \A t \in Threads : ~holds[t] /\ pc[t] \in {"outside", "idle"}
    /\ dispatched = 0
-----------------------------------------------------------------------------
(***************************************************************************)
(* A stop lets at most one more task begin, the one already on its way to  *)
(* the pool (notes of run_queue.h, 1.3.1).                                 *)
(***************************************************************************)
StopHolds == "ACTIVE" \notin m_status => Len(begun) <= mark.begun + 1

(***************************************************************************)
(* A task that was posted while the queue is stopped does not begin before *)
(* the queue is started again (notes of run_queue.h, 1.3.1).               *)
(***************************************************************************)
PostedWhileStoppedWaits == "ACTIVE" \notin m_status => Len(begun) <= mark.posted

(***************************************************************************)
(* A task that was posted is executed, unless the queue is stopped again   *)
(* and again, or for good (notes of run_queue.h, 1.2.1 and 1.3.2).         *)
(***************************************************************************)
EveryTaskRuns ==
    <>[]("ACTIVE" \in m_status) => \A d \in Tasks : Posted(d) ~> Begun(d)

(***************************************************************************)
(* After release() and after the last owner dropped its pointer the queue  *)
(* is destroyed, if nobody stops it again: the pointers its contexts hold  *)
(* do not keep it alive for ever (notes of run_queue.h, 2).                *)
(***************************************************************************)
ReleasedIsDestroyed ==
    <>[]("ACTIVE" \in m_status /\ \A c \in Clients : ~holds[c]) => <>(useCount = 0)
=============================================================================
