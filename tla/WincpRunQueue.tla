---------------------------- MODULE WincpRunQueue ----------------------------
(***************************************************************************)
(* The run_queue of Windows (lib/src/async/run_queue/wincp/run_queue.      *)
(* {h,cpp}): tasks wait in an I/O completion port and nothing counts them. *)
(* A submission of the threadpool work object runs run_next, which polls   *)
(* the port and finds out there whether the queue is empty: a task is      *)
(* always followed by one poll more than there are tasks.                  *)
(*                                                                         *)
(* There is no mutex.  Every atomic access to m_status is a step; the      *)
(* submission that follows a won compare-exchange is merged with it (it    *)
(* commutes with every step but the poll it enables).                      *)
(*                                                                         *)
(* release() sets the RELEASED bit before start(); from then on no         *)
(* compare-exchange of the poll can succeed.                               *)
(***************************************************************************)
EXTENDS RunQueue

VARIABLES
    polled,       \* history: a submission was taken after the queue was gone
    stopped       \* history: stop() was called

vars == <<m_status, m_fifo, m_self, useCount, dispatched, pc, holds, executing,
          released, posted, begun, mark, polled, stopped>>

RELEASED_NOT_EMPTY_ACTIVE_NOT_BUSY == {"RELEASED", "ACTIVE"}
NOT_EMPTY_ACTIVE_BUSY == {"ACTIVE", "BUSY"}

Init == InitQueue /\ polled = FALSE /\ stopped = FALSE
-----------------------------------------------------------------------------
(* enqueue *)

PostAs(t, d, fifo) ==
    /\ Caller(t)
    /\ ~released
    /\ ~Posted(d)
    /\ m_fifo' = fifo
    /\ useCount' = useCount + References(m_self)
    /\ posted' = Append(posted, d)
    /\ pc' = [pc EXCEPT ![t] = "unmark"]
    /\ UNCHANGED <<m_status, m_self, dispatched, holds, executing, released,
                   begun, mark, polled, stopped>>

PostInFront(t, d) == PostAs(t, d, <<[task |-> d, queue |-> m_self]>> \o m_fifo)
PostUncounted(t, d) == PostAs(t, d, Append(m_fifo, [task |-> d, queue |-> FALSE]))

\* The port owns the new context.
EnqueuePost(t, d) == PostAs(t, d, Append(m_fifo, [task |-> d, queue |-> m_self]))

\* A step that only changes m_status and its thread's label.
StatusStep(t, from, status, to) ==
    /\ pc[t] = from
    /\ m_status' = status
    /\ pc' = [pc EXCEPT ![t] = to]
    /\ UNCHANGED <<m_fifo, m_self, useCount, dispatched, holds, executing,
                   released, posted, begun, mark, polled, stopped>>

EnqueueUnmark(t) == StatusStep(t, "unmark", m_status \ {"EMPTY"}, "submit")
-----------------------------------------------------------------------------
(* check_submit_next: two compare-exchanges, the second for a released      *)
(* queue.                                                                   *)

SubmitFrom(t, label, expected) ==
    /\ pc[t] = label
    /\ m_status \in expected
    /\ m_status' = m_status \cup {"BUSY"}
    /\ dispatched' = dispatched + 1
    /\ pc' = [pc EXCEPT ![t] = AfterSubmit(t)]
    /\ UNCHANGED <<m_fifo, m_self, useCount, holds, executing, released,
                   posted, begun, mark, polled, stopped>>

SubmitWhileBusy(t) == SubmitFrom(t, "submit", {{"ACTIVE"}, {"ACTIVE", "BUSY"}})
SubmitWhileStopped(t) == SubmitFrom(t, "submit", {{}, {"ACTIVE"}})

SubmitWon(t) == SubmitFrom(t, "submit", {NOT_EMPTY_ACTIVE_NOT_BUSY})

SubmitLost(t) ==
    /\ m_status # NOT_EMPTY_ACTIVE_NOT_BUSY
    /\ StatusStep(t, "submit", m_status, "resubmit")

ResubmitWon(t) == SubmitFrom(t, "resubmit", {RELEASED_NOT_EMPTY_ACTIVE_NOT_BUSY})

ResubmitLost(t) ==
    /\ m_status # RELEASED_NOT_EMPTY_ACTIVE_NOT_BUSY
    /\ StatusStep(t, "resubmit", m_status, AfterSubmit(t))
-----------------------------------------------------------------------------
(* stop, start, release, and an owner that drops its pointer.               *)

Stop(t) == Deactivate(t) /\ stopped' = TRUE /\ UNCHANGED polled

Start(t) ==
    /\ Caller(t)
    /\ StatusStep(t, "outside", m_status \cup {"ACTIVE"}, "submit")

\* One client releases, once: m_self.reset(), RELEASED, start().
ReleaseReset(t) ==
    /\ t \in Clients
    /\ Caller(t)
    /\ ~released
    /\ released' = TRUE
    /\ m_self' = FALSE
    /\ useCount' = useCount - 1
    /\ pc' = [pc EXCEPT ![t] = "setreleased"]
    /\ UNCHANGED <<m_status, m_fifo, dispatched, holds, executing, posted,
                   begun, mark, polled, stopped>>

ReleaseMark(t) == StatusStep(t, "setreleased", m_status \cup {"RELEASED"}, "activate")

ReleaseStart(t) == StatusStep(t, "activate", m_status \cup {"ACTIVE"}, "submit")

DropPointer(t) == Drop(t) /\ UNCHANGED <<polled, stopped>>
-----------------------------------------------------------------------------
(* run_next, on a worker of the pool: the work object's argument is a plain *)
(* pointer to the queue.                                                    *)

\* A poll takes a submission and calls GetQueuedCompletionStatus with no wait.
Poll(w) ==
    /\ pc[w] = "idle"
    /\ dispatched > 0
    /\ dispatched' = dispatched - 1
    /\ polled' = (polled \/ useCount = 0)
    /\ UNCHANGED <<m_status, m_self, useCount, released, posted, begun, mark,
                   stopped>>

\* It finds a task: the worker owns the context and the queue pointer in it.
RunPoll(w) ==
    /\ Poll(w)
    /\ m_fifo # <<>>
    /\ m_fifo' = Tail(m_fifo)
    /\ executing' = [executing EXCEPT ![w] = Head(m_fifo).task]
    /\ holds' = [holds EXCEPT ![w] = Head(m_fifo).queue]
    /\ pc' = [pc EXCEPT ![w] = "call"]

\* It finds none, and goes on to the compare-exchange.
RunDrained(w) ==
    /\ Poll(w)
    /\ m_fifo = <<>>
    /\ pc' = [pc EXCEPT ![w] = "drained"]
    /\ UNCHANGED <<m_fifo, holds, executing>>

RunCall(w) ==
    /\ pc[w] = "call"
    /\ begun' = Append(begun, executing[w])
    /\ pc' = [pc EXCEPT ![w] = "outside"]
    /\ UNCHANGED <<m_status, m_fifo, m_self, useCount, dispatched, holds,
                   executing, released, posted, mark, polled, stopped>>

DrainedTo(w, busy, status) ==
    StatusStep(w, "drained", IF m_status = busy THEN status ELSE m_status, "idle")

DrainedWhileBusy(w) == DrainedTo(w, NOT_EMPTY_ACTIVE_BUSY, EMPTY_ACTIVE_NOT_BUSY \cup {"BUSY"})

\* Without task, EMPTY replaces BUSY if nothing else changed in between;
\* otherwise run_next returns with BUSY set.
RunEmpty(w) == DrainedTo(w, NOT_EMPTY_ACTIVE_BUSY, EMPTY_ACTIVE_NOT_BUSY)

\* The function returns or throws; the context is deleted, the worker keeps its
\* queue pointer.
RunClear(w) ==
    /\ w \in Workers
    /\ pc[w] = "outside"
    /\ executing' = [executing EXCEPT ![w] = NoTask]
    /\ pc' = [pc EXCEPT ![w] = "unbusy"]
    /\ UNCHANGED <<m_status, m_fifo, m_self, useCount, dispatched, holds, released,
                   posted, begun, mark, polled, stopped>>

RunUnbusy(w) == StatusStep(w, "unbusy", m_status \ {"BUSY"}, "submit")

\* The local copy of the queue pointer is destroyed.
RunLeave(w) ==
    /\ pc[w] = "leave"
    /\ holds' = [holds EXCEPT ![w] = FALSE]
    /\ useCount' = useCount - References(holds[w])
    /\ pc' = [pc EXCEPT ![w] = "idle"]
    /\ UNCHANGED <<m_status, m_fifo, m_self, dispatched, executing, released,
                   posted, begun, mark, polled, stopped>>
-----------------------------------------------------------------------------
Call(t) ==
    \/ \E d \in Tasks : EnqueuePost(t, d)
    \/ Stop(t)
    \/ Start(t)
    \/ ReleaseReset(t)
    \/ DropPointer(t)

Inside(t) ==
    \/ EnqueueUnmark(t)
    \/ SubmitWon(t)
    \/ SubmitLost(t)
    \/ ResubmitWon(t)
    \/ ResubmitLost(t)
    \/ ReleaseMark(t)
    \/ ReleaseStart(t)

Run(w) ==
    \/ RunPoll(w)
    \/ RunDrained(w)
    \/ RunCall(w)
    \/ RunEmpty(w)
    \/ RunUnbusy(w)
    \/ RunLeave(w)

Next ==
    \/ \E t \in Threads : Call(t) \/ Inside(t)
    \/ \E w \in Workers : Run(w) \/ RunClear(w)
    \/ AtRest /\ UNCHANGED vars

Spec == Init /\ [][Next]_vars

\* As for the other run_queue: threads are scheduled, and functions return.
Fairness ==
    /\ \A t \in Threads : WF_vars(Inside(t))
    /\ \A w \in Workers : WF_vars(Run(w)) /\ SF_vars(RunClear(w))

FairSpec == Spec /\ Fairness
-----------------------------------------------------------------------------
\* Who acts on the right that BUSY stands for: a worker that polled.
Owner(w) == pc[w] \in {"drained", "unbusy"} \/ executing[w] # NoTask

(***************************************************************************)
(* One submission of the work object or one worker acts at a time, and     *)
(* never without BUSY: no task executes beside another one                 *)
(* (check_submit_next and run_next).                                       *)
(***************************************************************************)
SerialExecution ==
    /\ \A v, w \in Workers : Owner(v) /\ Owner(w) => v = w
    /\ dispatched <= 1
    /\ dispatched = 1 => \A w \in Workers : ~Owner(w)
    /\ (dispatched = 1 \/ \E w \in Workers : Owner(w)) => "BUSY" \in m_status

(***************************************************************************)
(* Tasks begin in the order in which they were posted, each once, and none *)
(* is dropped (notes of run_queue.h, 1.2.1).                               *)
(***************************************************************************)
Called(w) == pc[w] = "call"
InOrder ==
    \/ posted = begun \o Waiting /\ ~\E w \in Workers : Called(w)
    \/ \E w \in Workers : Called(w) /\ posted = begun \o <<executing[w]>> \o Waiting

(***************************************************************************)
(* The queue exists as long as a task waits or executes, and as long as a  *)
(* thread is inside one of its methods.  A poll is not among the things    *)
(* that keep it: see PollsLiveQueue.                                       *)
(***************************************************************************)
InUse ==
    \/ m_fifo # <<>>
    \/ ~Idle
    \/ \E t \in Threads : holds[t] \/ pc[t] \notin {"idle", "outside", "drained"}

ExistsWhileUsed ==
    /\ InUse => useCount > 0
    /\ \A w \in Workers : pc[w] \in {"unbusy", "leave"} => holds[w]

(***************************************************************************)
(* In an active queue a task that waits has somebody who will see to it: a *)
(* thread on its way to submit, a submission, or a worker with BUSY.  What *)
(* strands a task is one of two things only: the EMPTY bit that a poll set *)
(* after the task was posted, or a BUSY bit whose poll has gone, because   *)
(* its compare-exchange met a stop or a release (run_next returns with     *)
(* BUSY set).  While nobody stopped or released the queue, BUSY has an     *)
(* owner.                                                                  *)
(***************************************************************************)
Submitting ==
    \E t \in Threads : pc[t] \in {"unmark", "submit", "resubmit", "setreleased",
                                  "activate", "unbusy"}

Owned == dispatched > 0 \/ \E w \in Workers : Owner(w)

NotStranded ==
    m_fifo # <<>> /\ "ACTIVE" \in m_status /\ ~Submitting =>
        \/ Owned
        \/ "EMPTY" \in m_status
        \/ "BUSY" \in m_status /\ (stopped \/ "RELEASED" \in m_status)

(***************************************************************************)
(* The queue is destroyed after the execution of the last task             *)
(* (notes of run_queue.h, 2): its run_next is never called again.          *)
(***************************************************************************)
PollsLiveQueue == ~polled
-----------------------------------------------------------------------------
\* The queue implements the serial executor up to stop: a task is taken by a
\* poll, and a poll submitted before a stop takes what it finds.
Calling == \E w \in Workers : Called(w)
Taken == IF Calling THEN posted[Len(begun) + 1] ELSE NoTask
Current == IF Idle \/ Calling THEN NoTask ELSE begun[Len(begun)]
Executed == {d \in Tasks : Begun(d) /\ ~Executing(d)}

Executor == INSTANCE SerialExecutor WITH
    pending <- Waiting,
    taken <- Taken,
    executing <- Current,
    executed <- Executed,
    active <- TRUE

ImplementsUnstoppedExecutor == Executor!Spec
=============================================================================
