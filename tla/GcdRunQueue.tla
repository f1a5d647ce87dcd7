----------------------------- MODULE GcdRunQueue -----------------------------
(***************************************************************************)
(* The run_queue of macOS (lib/src/async/run_queue/gcd/run_queue.{h,cpp}): *)
(* a serial dispatch queue of libdispatch and an atomic flag that keeps    *)
(* resume and suspend in balance.                                          *)
(*                                                                         *)
(* External is what libdispatch does with a serial queue: it executes one  *)
(* block at a time, in order, and none while the suspension count is above *)
(* zero; to resume a queue that is not suspended, or to drop the last      *)
(* reference to a suspended one, is an error that ends the program.  The   *)
(* queue lives on without the run_queue until its last block is done.      *)
(***************************************************************************)
EXTENDS Integers, Sequences, FiniteSets

CONSTANTS Clients,    \* threads that own a pointer to the run_queue
          Tasks,      \* the tasks; each is enqueued at most once
          NoTask

ASSUME GcdAssumption == IsFiniteSet(Clients) /\ NoTask \notin Tasks

VARIABLES
    m_active,      \* the atomic flag
    m_queue,       \* the blocks that wait in the dispatch queue
    suspensions,   \* its suspension count
    executing,     \* the block being executed
    executed,      \* history: the tasks executed
    at,            \* where a client is in the run_queue's code
    owners,        \* the clients that still own a pointer
    gone,          \* the destructor released the dispatch queue
    error          \* libdispatch ended the program

queueVars == <<m_active, m_queue, suspensions, executing, executed, at, owners, gone, error>>

QueueInit ==
    /\ m_active = TRUE
    /\ m_queue = <<>>
    /\ suspensions = 0
    /\ executing = NoTask
    /\ executed = {}
    /\ at = [t \in Clients |-> "outside"]
    /\ owners = Clients
    /\ gone = FALSE
    /\ error = FALSE

Owner(t) == ~error /\ t \in owners /\ at[t] = "outside"
-----------------------------------------------------------------------------
Posted(d) == d \in executed \cup {executing} \/ \E i \in DOMAIN m_queue : m_queue[i] = d

Enqueue(t, d) ==
    /\ Owner(t)
    /\ ~Posted(d)
    /\ m_queue' = Append(m_queue, d)
    /\ UNCHANGED <<m_active, suspensions, executing, executed, at, owners, gone, error>>

\* Both toggles exchange the flag first, and go on only if it changed.
Exchange(t, value, label, otherwise) ==
    /\ m_active' = value
    /\ at' = [at EXCEPT ![t] = IF m_active # value THEN label ELSE otherwise]
    /\ UNCHANGED <<m_queue, suspensions, executing, executed, owners, gone, error>>

Stop(t) ==
    /\ Owner(t)
    /\ Exchange(t, FALSE, "suspend", "outside")

\* "release" follows the start() of the destructor.
AfterStart(t) == IF t \in owners THEN "outside" ELSE "release"

StartFlagOnly(t) ==
    /\ ~error
    /\ Owner(t) \/ at[t] = "start"
    /\ Exchange(t, TRUE, AfterStart(t), AfterStart(t))

Start(t) ==
    /\ ~error
    /\ Owner(t) \/ at[t] = "start"
    /\ Exchange(t, TRUE, "resume", AfterStart(t))

Suspend(t) ==
    /\ ~error
    /\ at[t] = "suspend"
    /\ suspensions' = suspensions + 1
    /\ at' = [at EXCEPT ![t] = "outside"]
    /\ UNCHANGED <<m_active, m_queue, executing, executed, owners, gone, error>>

Resume(t) ==
    /\ ~error
    /\ at[t] = "resume"
    /\ suspensions' = IF suspensions > 0 THEN suspensions - 1 ELSE 0
    /\ error' = (suspensions = 0)
    /\ at' = [at EXCEPT ![t] = AfterStart(t)]
    /\ UNCHANGED <<m_active, m_queue, executing, executed, owners, gone>>

DropTo(t, label) ==
    /\ Owner(t)
    /\ owners' = owners \ {t}
    /\ at' = [at EXCEPT ![t] = IF owners = {t} THEN label ELSE "outside"]
    /\ UNCHANGED <<m_active, m_queue, suspensions, executing, executed, gone, error>>

DropWithoutStart(t) == DropTo(t, "release")

\* Dropping the last pointer destroys the run_queue; release() does nothing.
DropPointer(t) == DropTo(t, "start")

Release(t) ==
    /\ ~error
    /\ at[t] = "release"
    /\ gone' = TRUE
    /\ error' = (suspensions > 0)
    /\ at' = [at EXCEPT ![t] = "outside"]
    /\ UNCHANGED <<m_active, m_queue, suspensions, executing, executed, owners>>
-----------------------------------------------------------------------------
\* libdispatch executes the blocks of the queue.
BlockBegin ==
    /\ ~error
    /\ suspensions = 0
    /\ executing = NoTask
    /\ m_queue # <<>>
    /\ executing' = Head(m_queue)
    /\ m_queue' = Tail(m_queue)
    /\ UNCHANGED <<m_active, suspensions, executed, at, owners, gone, error>>

BlockEnd ==
    /\ ~error
    /\ executing # NoTask
    /\ executed' = executed \cup {executing}
    /\ executing' = NoTask
    /\ UNCHANGED <<m_active, m_queue, suspensions, at, owners, gone, error>>
-----------------------------------------------------------------------------
QueueInside(t) ==
    \/ at[t] = "start" /\ Start(t)
    \/ Suspend(t)
    \/ Resume(t)
    \/ Release(t)

QueueNext ==
    \/ \E t \in Clients :
          \/ \E d \in Tasks : Enqueue(t, d)
          \/ Stop(t)
          \/ Start(t)
          \/ DropPointer(t)
          \/ QueueInside(t)
    \/ BlockBegin
    \/ BlockEnd
    \/ (error \/ (gone /\ m_queue = <<>> /\ executing = NoTask)) /\ UNCHANGED queueVars

QueueSpec == QueueInit /\ [][QueueNext]_queueVars

\* Threads are scheduled, libdispatch executes what it may, functions return.
QueueFairness ==
    /\ \A t \in Clients : WF_queueVars(QueueInside(t))
    /\ WF_queueVars(BlockBegin)
    /\ WF_queueVars(BlockEnd)
-----------------------------------------------------------------------------
Before(label) == {t \in Clients : at[t] = label}

(***************************************************************************)
(* However many threads start and stop the queue at once, the flag and the *)
(* suspension count agree but for the calls of libdispatch that have still *)
(* to come: when these are done the queue is suspended, once, exactly if   *)
(* the flag says that it was stopped.  And libdispatch can end the program *)
(* in one way only: a resume overtakes the suspend of another thread,      *)
(* which has exchanged the flag and not called yet (see Balanced).  The    *)
(* destructor never lets a suspended queue go.                             *)
(***************************************************************************)
TogglesAddUp ==
    /\ ~error => suspensions + Cardinality(Before("suspend")) - Cardinality(Before("resume"))
                    = IF m_active THEN 0 ELSE 1
    /\ error => Before("suspend") # {}

(***************************************************************************)
(* No call of start(), stop() or the destructor makes libdispatch end the  *)
(* program: the notes of run_queue.h say of start() and stop() that they   *)
(* "may be called simultaneously from multiple threads" (1.3.1, 1.3.2).    *)
(***************************************************************************)
Balanced == ~error

(***************************************************************************)
(* A task posted to a queue that is not stopped for good is executed,      *)
(* whatever starts and stops crossed before, unless libdispatch ended the  *)
(* program; also when the owners drop their pointers first: the destructor *)
(* resumes the queue (notes of run_queue.h, 2).                            *)
(***************************************************************************)
EveryTaskRuns ==
    \A d \in Tasks :
        (Posted(d) /\ (gone \/ [](m_active))) ~> (d \in executed \/ error)
=============================================================================
