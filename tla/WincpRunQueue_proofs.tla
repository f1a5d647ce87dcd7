------------------------- MODULE WincpRunQueue_proofs -------------------------
(***************************************************************************)
(* What holds of WincpRunQueue for every set of threads and tasks.         *)
(***************************************************************************)
EXTENDS WincpRunQueue, TaskSequences, FiniteSetTheorems

Context == [task : Tasks, queue : BOOLEAN]
Bits == {"EMPTY", "ACTIVE", "BUSY", "RELEASED"}

CallLabels == {"outside", "unmark", "submit", "resubmit"}
ClientLabels == CallLabels \cup {"setreleased", "activate"}
WorkerLabels == CallLabels \cup {"idle", "call", "drained", "unbusy", "leave"}

Types ==
    /\ m_status \in SUBSET Bits
    /\ m_fifo \in Seq(Context)
    /\ m_self \in BOOLEAN
    /\ dispatched \in Nat
    /\ pc \in [Threads -> ClientLabels \cup WorkerLabels]
    /\ executing \in [Workers -> Tasks \cup {NoTask}]
    /\ posted \in Seq(Tasks) /\ begun \in Seq(Tasks)
    /\ mark \in [posted : Nat, begun : Nat]

\* A worker executes a task exactly while it is in the task's function, or has
\* just taken it from the port.
LabelsOfRoles ==
    /\ \A t \in Clients : pc[t] \in ClientLabels
    /\ \A w \in Workers :
          /\ pc[w] \in WorkerLabels
          /\ pc[w] \in {"call", "outside", "unmark"} => executing[w] # NoTask
          /\ pc[w] \in {"idle", "drained", "unbusy", "leave"} => executing[w] = NoTask

\* After a stop the one task that a submission may still find can begin.
OnTheWay == dispatched > 0 \/ \E w \in Workers : pc[w] = "call"
StopCounts ==
    "ACTIVE" \notin m_status =>
        /\ Len(begun) <= mark.begun + 1
        /\ OnTheWay => Len(begun) <= mark.begun

\* A thread between its two compare-exchanges is of help to the tasks of a
\* released queue only; for others one is there that still has both before it.
Helpers ==
    \/ \E t \in Threads : pc[t] \in {"unmark", "submit", "setreleased", "activate", "unbusy"}
    \/ "RELEASED" \in m_status /\ \E t \in Threads : pc[t] = "resubmit"

TasksHaveHelpers ==
    m_fifo # <<>> /\ "ACTIVE" \in m_status /\ "EMPTY" \notin m_status /\ "BUSY" \notin m_status
        => Helpers

\* BUSY without an owner is what a poll leaves whose compare-exchange failed; as
\* long as nobody stops or releases the queue that compare-exchange succeeds.
BusyHasOwner ==
    /\ ~stopped => "ACTIVE" \in m_status
    /\ ~stopped /\ "RELEASED" \notin m_status /\ "BUSY" \in m_status =>
           Owned /\ "EMPTY" \notin m_status

WincpInv ==
    /\ Types
    /\ LabelsOfRoles
    /\ SerialExecution
    /\ StopCounts
    /\ TasksHaveHelpers
    /\ BusyHasOwner

USE RolesAssumption
USE DEF Threads, CallLabels, ClientLabels, WorkerLabels, Owner,
        NOT_EMPTY_ACTIVE_NOT_BUSY, EMPTY_ACTIVE_NOT_BUSY, NOT_EMPTY_ACTIVE_BUSY,
        RELEASED_NOT_EMPTY_ACTIVE_NOT_BUSY
-----------------------------------------------------------------------------
\* The port gives out what was put into it.
LEMMA PortHoldsContexts ==
    ASSUME m_fifo \in Seq(Context)
    PROVE  /\ m_fifo # <<>> => Head(m_fifo) \in Context /\ Tail(m_fifo) \in Seq(Context)
           /\ \A x \in Context : Append(m_fifo, x) \in Seq(Context) /\ Append(m_fifo, x) # <<>>
  BY HeadTailProperties, AppendProperties

LEMMA WincpInitInv == Init => WincpInv
<1> SUFFICES ASSUME Init PROVE WincpInv
    OBVIOUS
<1> USE DEF Init, InitQueue
<1>1. Types
    BY DEF Types, Bits
<1>2. LabelsOfRoles
    BY DEF LabelsOfRoles
<1>3. SerialExecution
    BY DEF SerialExecution
<1>4. StopCounts /\ TasksHaveHelpers /\ BusyHasOwner
    BY DEF StopCounts, TasksHaveHelpers, BusyHasOwner
<1> QED
    BY <1>1, <1>2, <1>3, <1>4 DEF WincpInv

\* A step that changes m_status and a label keeps most of the types.
LEMMA StatusStepTypes ==
    ASSUME Types, NEW t \in Threads, NEW from, NEW status \in SUBSET Bits,
           NEW to \in ClientLabels \cup WorkerLabels, StatusStep(t, from, status, to)
    PROVE  Types'
  BY DEF Types, StatusStep

LEMMA TypesStep == WincpInv /\ [Next]_vars => Types'
<1> SUFFICES ASSUME WincpInv, [Next]_vars PROVE Types'
    OBVIOUS
<1> USE DEF WincpInv
<1>1. ASSUME NEW t \in Threads, NEW d \in Tasks, EnqueuePost(t, d) PROVE Types'
  <2>1. [task |-> d, queue |-> m_self] \in Context
      BY DEF Types, Context
  <2>2. m_fifo' \in Seq(Context)
      BY <1>1, <2>1, PortHoldsContexts DEF Types, EnqueuePost, PostAs
  <2> QED
      BY <1>1, <2>2 DEF Types, EnqueuePost, PostAs
<1>2. ASSUME NEW t \in Threads, EnqueueUnmark(t) PROVE Types'
    BY <1>2, StatusStepTypes DEF EnqueueUnmark, Types
<1>3. ASSUME NEW t \in Threads, SubmitWon(t) \/ ResubmitWon(t) PROVE Types'
  <2>1. m_status' \in SUBSET Bits /\ dispatched' \in Nat
      BY <1>3 DEF SubmitWon, ResubmitWon, SubmitFrom, Types, Bits
  <2>2. pc' \in [Threads -> ClientLabels \cup WorkerLabels]
      BY <1>3 DEF SubmitWon, ResubmitWon, SubmitFrom, AfterSubmit, Types
  <2> QED
      BY <1>3, <2>1, <2>2 DEF SubmitWon, ResubmitWon, SubmitFrom, Types
<1>4. ASSUME NEW t \in Threads, SubmitLost(t) \/ ResubmitLost(t) PROVE Types'
    BY <1>4, StatusStepTypes DEF SubmitLost, ResubmitLost, AfterSubmit, Types
<1>5. ASSUME NEW t \in Threads, Stop(t) PROVE Types'
  <2>1. Len(posted) \in Nat /\ Len(begun) \in Nat
      BY LenProperties DEF Types
  <2> QED
      BY <1>5, <2>1 DEF Types, Stop, Deactivate
<1>6. ASSUME NEW t \in Threads, Start(t) PROVE Types'
    BY <1>6, StatusStepTypes DEF Start, Types, Bits
<1>7. ASSUME NEW t \in Threads, ReleaseReset(t) PROVE Types'
    BY <1>7 DEF ReleaseReset, Types
<1>8. ASSUME NEW t \in Threads, ReleaseMark(t) \/ ReleaseStart(t) PROVE Types'
    BY <1>8, StatusStepTypes DEF ReleaseMark, ReleaseStart, Types, Bits
<1>9. ASSUME NEW t \in Threads, DropPointer(t) PROVE Types'
    BY <1>9 DEF DropPointer, Drop, Types
<1>10. ASSUME NEW w \in Workers, RunPoll(w) PROVE Types'
  <2>1. Head(m_fifo) \in Context /\ Tail(m_fifo) \in Seq(Context)
      BY <1>10, PortHoldsContexts DEF RunPoll, Types
  <2>2. Head(m_fifo).task \in Tasks
      BY <2>1 DEF Context
  <2> QED
      BY <1>10, <2>1, <2>2 DEF RunPoll, Poll, Types
<1>11. ASSUME NEW w \in Workers, RunDrained(w) PROVE Types'
    BY <1>11 DEF RunDrained, Poll, Types
<1>12. ASSUME NEW w \in Workers, RunCall(w) PROVE Types'
    BY <1>12 DEF RunCall, Types, LabelsOfRoles
<1>13. ASSUME NEW w \in Workers, RunEmpty(w) PROVE Types'
    BY <1>13, StatusStepTypes DEF RunEmpty, DrainedTo, Types, Bits
<1>14. ASSUME NEW w \in Workers, RunUnbusy(w) PROVE Types'
    BY <1>14, StatusStepTypes DEF RunUnbusy, Types
<1>15. ASSUME NEW w \in Workers, RunLeave(w) \/ RunClear(w) PROVE Types'
    BY <1>15 DEF RunLeave, RunClear, Types
<1>16. CASE UNCHANGED vars
    BY <1>16 DEF vars, Types
<1> QED
    BY <1>1, <1>2, <1>3, <1>4, <1>5, <1>6, <1>7, <1>8, <1>9, <1>10, <1>11, <1>12, <1>13,
       <1>14, <1>15, <1>16 DEF Next, Call, Inside, Run

\* The compare-exchanges are won only without BUSY, hence never by a worker that
\* executes a task, whatever the task's function enqueues or starts.
LEMMA WinnerExecutesNothing ==
    ASSUME WincpInv, NEW t \in Threads, SubmitWon(t) \/ ResubmitWon(t)
    PROVE  /\ \A w \in Workers : ~Owner(w)
           /\ dispatched = 0
  BY DEF WincpInv, Types, SerialExecution, SubmitWon, ResubmitWon, SubmitFrom

LEMMA LabelsStep == WincpInv /\ [Next]_vars => LabelsOfRoles'
<1> SUFFICES ASSUME WincpInv, [Next]_vars PROVE LabelsOfRoles'
    OBVIOUS
<1> USE DEF WincpInv, LabelsOfRoles, Types
<1>1. ASSUME NEW t \in Threads, NEW d \in Tasks, EnqueuePost(t, d) PROVE LabelsOfRoles'
    BY <1>1 DEF EnqueuePost, PostAs, Caller
<1>2. ASSUME NEW t \in Threads, EnqueueUnmark(t) PROVE LabelsOfRoles'
    BY <1>2 DEF EnqueueUnmark, StatusStep
<1>3. ASSUME NEW t \in Threads, SubmitWon(t) \/ ResubmitWon(t) PROVE LabelsOfRoles'
    BY <1>3, WinnerExecutesNothing DEF SubmitWon, ResubmitWon, SubmitFrom, AfterSubmit
<1>4. ASSUME NEW t \in Threads, SubmitLost(t) \/ ResubmitLost(t) PROVE LabelsOfRoles'
    BY <1>4 DEF SubmitLost, ResubmitLost, StatusStep, AfterSubmit
<1>5. ASSUME NEW t \in Threads, Stop(t) PROVE LabelsOfRoles'
    BY <1>5 DEF Stop, Deactivate
<1>6. ASSUME NEW t \in Threads, Start(t) PROVE LabelsOfRoles'
    BY <1>6 DEF Start, StatusStep
<1>7. ASSUME NEW t \in Threads, ReleaseReset(t) PROVE LabelsOfRoles'
    BY <1>7 DEF ReleaseReset
<1>8. ASSUME NEW t \in Threads, ReleaseMark(t) \/ ReleaseStart(t) PROVE LabelsOfRoles'
    BY <1>8 DEF ReleaseMark, ReleaseStart, StatusStep
<1>9. ASSUME NEW t \in Threads, DropPointer(t) PROVE LabelsOfRoles'
    BY <1>9 DEF DropPointer, Drop
<1>10. ASSUME NEW w \in Workers, RunPoll(w) PROVE LabelsOfRoles'
  <2>1. Head(m_fifo).task # NoTask
      BY <1>10, PortHoldsContexts DEF RunPoll, Context
  <2> QED
      BY <1>10, <2>1 DEF RunPoll, Poll
<1>11. ASSUME NEW w \in Workers, RunDrained(w) PROVE LabelsOfRoles'
    BY <1>11 DEF RunDrained, Poll
<1>12. ASSUME NEW w \in Workers, RunCall(w) PROVE LabelsOfRoles'
    BY <1>12 DEF RunCall
<1>13. ASSUME NEW w \in Workers, RunEmpty(w) \/ RunUnbusy(w) PROVE LabelsOfRoles'
    BY <1>13 DEF RunEmpty, DrainedTo, RunUnbusy, StatusStep
<1>14. ASSUME NEW w \in Workers, RunLeave(w) \/ RunClear(w) PROVE LabelsOfRoles'
    BY <1>14 DEF RunLeave, RunClear
<1>15. CASE UNCHANGED vars
    BY <1>15 DEF vars
<1> QED
    BY <1>1, <1>2, <1>3, <1>4, <1>5, <1>6, <1>7, <1>8, <1>9, <1>10, <1>11, <1>12, <1>13,
       <1>14, <1>15 DEF Next, Call, Inside, Run

\* A step that changes neither BUSY, nor who acts on it, nor the submissions.
LEMMA SerialUnlessMoved ==
    ASSUME SerialExecution, dispatched' = dispatched,
           "BUSY" \in m_status => "BUSY" \in m_status',
           \A w \in Workers : Owner(w)' => Owner(w)
    PROVE  SerialExecution'
  BY DEF SerialExecution

LEMMA SerialStep == WincpInv /\ [Next]_vars => SerialExecution'
<1> SUFFICES ASSUME WincpInv, [Next]_vars PROVE SerialExecution'
    OBVIOUS
<1> USE DEF WincpInv, LabelsOfRoles, Types
<1>1. ASSUME NEW t \in Threads, NEW d \in Tasks, EnqueuePost(t, d) PROVE SerialExecution'
    BY <1>1, SerialUnlessMoved DEF EnqueuePost, PostAs
<1>2. ASSUME NEW t \in Threads, EnqueueUnmark(t) PROVE SerialExecution'
    BY <1>2, SerialUnlessMoved DEF EnqueueUnmark, StatusStep
<1>3. ASSUME NEW t \in Threads, SubmitWon(t) \/ ResubmitWon(t) PROVE SerialExecution'
  <2>1. dispatched = 0 /\ \A w \in Workers : ~Owner(w)
      BY <1>3, WinnerExecutesNothing
  <2>2. dispatched' = 1 /\ "BUSY" \in m_status'
      BY <1>3, <2>1 DEF SubmitWon, ResubmitWon, SubmitFrom
  <2>3. \A w \in Workers : ~Owner(w)'
      BY <1>3, <2>1 DEF SubmitWon, ResubmitWon, SubmitFrom, AfterSubmit
  <2> QED
      BY <2>2, <2>3 DEF SerialExecution
<1>4. ASSUME NEW t \in Threads, SubmitLost(t) \/ ResubmitLost(t) PROVE SerialExecution'
    BY <1>4, SerialUnlessMoved DEF SubmitLost, ResubmitLost, StatusStep, AfterSubmit
<1>5. ASSUME NEW t \in Threads, Stop(t) PROVE SerialExecution'
    BY <1>5, SerialUnlessMoved DEF Stop, Deactivate
<1>6. ASSUME NEW t \in Threads, Start(t) PROVE SerialExecution'
    BY <1>6, SerialUnlessMoved DEF Start, StatusStep
<1>7. ASSUME NEW t \in Threads, ReleaseReset(t) PROVE SerialExecution'
    BY <1>7, SerialUnlessMoved DEF ReleaseReset
<1>8. ASSUME NEW t \in Threads, ReleaseMark(t) \/ ReleaseStart(t) PROVE SerialExecution'
    BY <1>8, SerialUnlessMoved DEF ReleaseMark, ReleaseStart, StatusStep
<1>9. ASSUME NEW t \in Threads, DropPointer(t) PROVE SerialExecution'
    BY <1>9, SerialUnlessMoved DEF DropPointer, Drop
<1>10. ASSUME NEW w \in Workers, RunPoll(w) PROVE SerialExecution'
    BY <1>10 DEF RunPoll, Poll, SerialExecution
<1>11. ASSUME NEW w \in Workers, RunDrained(w) PROVE SerialExecution'
    BY <1>11 DEF RunDrained, Poll, SerialExecution
<1>12. ASSUME NEW w \in Workers, RunCall(w) PROVE SerialExecution'
    BY <1>12, SerialUnlessMoved DEF RunCall
<1>13. ASSUME NEW w \in Workers, RunEmpty(w) PROVE SerialExecution'
    BY <1>13 DEF RunEmpty, DrainedTo, StatusStep, SerialExecution
<1>14. ASSUME NEW w \in Workers, RunUnbusy(w) PROVE SerialExecution'
    BY <1>14 DEF RunUnbusy, StatusStep, SerialExecution
<1>15. ASSUME NEW w \in Workers, RunLeave(w) PROVE SerialExecution'
    BY <1>15, SerialUnlessMoved DEF RunLeave
<1>16. ASSUME NEW w \in Workers, RunClear(w) PROVE SerialExecution'
    BY <1>16, SerialUnlessMoved DEF RunClear
<1>17. CASE UNCHANGED vars
    BY <1>17, SerialUnlessMoved DEF vars
<1> QED
    BY <1>1, <1>2, <1>3, <1>4, <1>5, <1>6, <1>7, <1>8, <1>9, <1>10, <1>11, <1>12, <1>13,
       <1>14, <1>15, <1>16, <1>17 DEF Next, Call, Inside, Run

\* Only a submission needs ACTIVE: after a stop none is made, and the one on its
\* way is used up by the task it finds.
LEMMA StopStep == WincpInv /\ [Next]_vars => StopCounts'
<1> SUFFICES ASSUME WincpInv, [Next]_vars PROVE StopCounts'
    OBVIOUS
<1> USE DEF WincpInv, LabelsOfRoles, Types, StopCounts, OnTheWay
<1>0. Len(begun) \in Nat
    BY LenProperties
<1>1. ASSUME NEW t \in Threads, NEW d \in Tasks, EnqueuePost(t, d) PROVE StopCounts'
    BY <1>1 DEF EnqueuePost, PostAs
<1>2. ASSUME NEW t \in Threads, EnqueueUnmark(t) PROVE StopCounts'
    BY <1>2 DEF EnqueueUnmark, StatusStep
<1>3. ASSUME NEW t \in Threads, SubmitWon(t) \/ ResubmitWon(t) PROVE StopCounts'
    BY <1>3 DEF SubmitWon, ResubmitWon, SubmitFrom
<1>4. ASSUME NEW t \in Threads, SubmitLost(t) \/ ResubmitLost(t) PROVE StopCounts'
    BY <1>4 DEF SubmitLost, ResubmitLost, StatusStep, AfterSubmit
<1>5. ASSUME NEW t \in Threads, Stop(t) PROVE StopCounts'
    BY <1>0, <1>5 DEF Stop, Deactivate
<1>6. ASSUME NEW t \in Threads, Start(t) PROVE StopCounts'
    BY <1>6 DEF Start, StatusStep
<1>7. ASSUME NEW t \in Threads, ReleaseReset(t) PROVE StopCounts'
    BY <1>7 DEF ReleaseReset
<1>8. ASSUME NEW t \in Threads, ReleaseMark(t) \/ ReleaseStart(t) PROVE StopCounts'
    BY <1>8 DEF ReleaseMark, ReleaseStart, StatusStep
<1>9. ASSUME NEW t \in Threads, DropPointer(t) PROVE StopCounts'
    BY <1>9 DEF DropPointer, Drop
<1>10. ASSUME NEW w \in Workers, RunPoll(w) \/ RunDrained(w) PROVE StopCounts'
    BY <1>10 DEF RunPoll, RunDrained, Poll
<1>11. ASSUME NEW w \in Workers, RunCall(w) PROVE StopCounts'
  <2>1. Len(begun') = Len(begun) + 1
      BY <1>11, AppendProperties DEF RunCall
  <2>2. ~OnTheWay'
      BY <1>11 DEF RunCall, SerialExecution
  <2> QED
      BY <1>0, <1>11, <2>1, <2>2 DEF RunCall
<1>12. ASSUME NEW w \in Workers, RunEmpty(w) \/ RunUnbusy(w) PROVE StopCounts'
    BY <1>12 DEF RunEmpty, DrainedTo, RunUnbusy, StatusStep
<1>13. ASSUME NEW w \in Workers, RunLeave(w) \/ RunClear(w) PROVE StopCounts'
    BY <1>13 DEF RunLeave, RunClear
<1>14. CASE UNCHANGED vars
    BY <1>14 DEF vars
<1> QED
    BY <1>1, <1>2, <1>3, <1>4, <1>5, <1>6, <1>7, <1>8, <1>9, <1>10, <1>11, <1>12, <1>13,
       <1>14 DEF Next, Call, Inside, Run

\* A thread whose two compare-exchanges both failed saw a queue that had no use
\* for them, or one that another thread has still to look at.
LEMMA HelpersStep == WincpInv /\ [Next]_vars => TasksHaveHelpers'
<1> SUFFICES ASSUME WincpInv, [Next]_vars PROVE TasksHaveHelpers'
    OBVIOUS
<1> USE DEF WincpInv, LabelsOfRoles, Types, TasksHaveHelpers, Helpers, Bits
<1>1. ASSUME NEW t \in Threads, NEW d \in Tasks, EnqueuePost(t, d) PROVE TasksHaveHelpers'
    BY <1>1 DEF EnqueuePost, PostAs
<1>2. ASSUME NEW t \in Threads, EnqueueUnmark(t) PROVE TasksHaveHelpers'
    BY <1>2 DEF EnqueueUnmark, StatusStep
<1>3. ASSUME NEW t \in Threads, SubmitWon(t) \/ ResubmitWon(t) PROVE TasksHaveHelpers'
    BY <1>3 DEF SubmitWon, ResubmitWon, SubmitFrom
<1>4. ASSUME NEW t \in Threads, SubmitLost(t) PROVE TasksHaveHelpers'
    BY <1>4 DEF SubmitLost, StatusStep
<1>5. ASSUME NEW t \in Threads, ResubmitLost(t) PROVE TasksHaveHelpers'
    BY <1>5 DEF ResubmitLost, StatusStep
<1>6. ASSUME NEW t \in Threads, Stop(t) PROVE TasksHaveHelpers'
    BY <1>6 DEF Stop, Deactivate
<1>7. ASSUME NEW t \in Threads, Start(t) PROVE TasksHaveHelpers'
    BY <1>7 DEF Start, StatusStep
<1>8. ASSUME NEW t \in Threads, ReleaseReset(t) PROVE TasksHaveHelpers'
    BY <1>8 DEF ReleaseReset
<1>9. ASSUME NEW t \in Threads, ReleaseMark(t) \/ ReleaseStart(t) PROVE TasksHaveHelpers'
    BY <1>9 DEF ReleaseMark, ReleaseStart, StatusStep
<1>10. ASSUME NEW t \in Threads, DropPointer(t) PROVE TasksHaveHelpers'
    BY <1>10 DEF DropPointer, Drop
<1>11. ASSUME NEW w \in Workers, RunPoll(w) PROVE TasksHaveHelpers'
  <2>1. "BUSY" \in m_status'
      BY <1>11 DEF RunPoll, Poll, SerialExecution
  <2> QED
      BY <2>1
<1>12. ASSUME NEW w \in Workers, RunDrained(w) PROVE TasksHaveHelpers'
    BY <1>12 DEF RunDrained, Poll
<1>13. ASSUME NEW w \in Workers, RunCall(w) PROVE TasksHaveHelpers'
    BY <1>13 DEF RunCall
<1>14. ASSUME NEW w \in Workers, RunEmpty(w) PROVE TasksHaveHelpers'
    BY <1>14 DEF RunEmpty, DrainedTo, StatusStep
<1>15. ASSUME NEW w \in Workers, RunUnbusy(w) PROVE TasksHaveHelpers'
    BY <1>15 DEF RunUnbusy, StatusStep
<1>16. ASSUME NEW w \in Workers, RunLeave(w) \/ RunClear(w) PROVE TasksHaveHelpers'
    BY <1>16 DEF RunLeave, RunClear
<1>17. CASE UNCHANGED vars
    BY <1>17 DEF vars
<1> QED
    BY <1>1, <1>2, <1>3, <1>4, <1>5, <1>6, <1>7, <1>8, <1>9, <1>10, <1>11, <1>12, <1>13,
       <1>14, <1>15, <1>16, <1>17 DEF Next, Call, Inside, Run

\* The poll that finds the port empty is the owner of BUSY and clears it, unless
\* a stop or a release came; every other owner hands BUSY on or clears it.
LEMMA OwnerStep == WincpInv /\ [Next]_vars => BusyHasOwner'
<1> SUFFICES ASSUME WincpInv, [Next]_vars PROVE BusyHasOwner'
    OBVIOUS
<1> USE DEF WincpInv, LabelsOfRoles, Types, BusyHasOwner, Owned, Bits
<1>1. ASSUME NEW t \in Threads, NEW d \in Tasks, EnqueuePost(t, d) PROVE BusyHasOwner'
  <2>1. UNCHANGED <<m_status, stopped, dispatched>>
      BY <1>1 DEF EnqueuePost, PostAs
  <2>2. \A w \in Workers : Owner(w) => Owner(w)'
      BY <1>1 DEF EnqueuePost, PostAs, Caller
  <2> QED
      BY <2>1, <2>2
<1>2. ASSUME NEW t \in Threads, EnqueueUnmark(t) PROVE BusyHasOwner'
    BY <1>2 DEF EnqueueUnmark, StatusStep
<1>3. ASSUME NEW t \in Threads, SubmitWon(t) \/ ResubmitWon(t) PROVE BusyHasOwner'
    BY <1>3 DEF SubmitWon, ResubmitWon, SubmitFrom
<1>4. ASSUME NEW t \in Threads, SubmitLost(t) \/ ResubmitLost(t) PROVE BusyHasOwner'
    BY <1>4 DEF SubmitLost, ResubmitLost, StatusStep, AfterSubmit
<1>5. ASSUME NEW t \in Threads, Stop(t) PROVE BusyHasOwner'
    BY <1>5 DEF Stop, Deactivate
<1>6. ASSUME NEW t \in Threads, Start(t) PROVE BusyHasOwner'
    BY <1>6 DEF Start, StatusStep
<1>7. ASSUME NEW t \in Threads, ReleaseReset(t) PROVE BusyHasOwner'
    BY <1>7 DEF ReleaseReset
<1>8. ASSUME NEW t \in Threads, ReleaseMark(t) \/ ReleaseStart(t) PROVE BusyHasOwner'
    BY <1>8 DEF ReleaseMark, ReleaseStart, StatusStep
<1>9. ASSUME NEW t \in Threads, DropPointer(t) PROVE BusyHasOwner'
    BY <1>9 DEF DropPointer, Drop
<1>10. ASSUME NEW w \in Workers, RunPoll(w) PROVE BusyHasOwner'
  <2>1. Head(m_fifo).task # NoTask
      BY <1>10, PortHoldsContexts DEF RunPoll, Context
  <2>2. Owner(w)'
      BY <1>10, <2>1 DEF RunPoll, Poll
  <2> QED
      BY <1>10, <2>2 DEF RunPoll, Poll
<1>11. ASSUME NEW w \in Workers, RunDrained(w) PROVE BusyHasOwner'
    BY <1>11 DEF RunDrained, Poll
<1>12. ASSUME NEW w \in Workers, RunCall(w) PROVE BusyHasOwner'
    BY <1>12 DEF RunCall
<1>13. ASSUME NEW w \in Workers, RunEmpty(w) PROVE BusyHasOwner'
  <2>1. CASE stopped \/ "RELEASED" \in m_status
      BY <1>13, <2>1 DEF RunEmpty, DrainedTo, StatusStep
  <2>2. CASE ~stopped /\ "RELEASED" \notin m_status
    <3>1. "BUSY" \in m_status
        BY <1>13 DEF RunEmpty, DrainedTo, StatusStep, SerialExecution
    <3>2. m_status = {"ACTIVE", "BUSY"}
        BY <2>2, <3>1
    <3> QED
        BY <1>13, <3>2 DEF RunEmpty, DrainedTo, StatusStep
  <2> QED
      BY <2>1, <2>2
<1>14. ASSUME NEW w \in Workers, RunUnbusy(w) PROVE BusyHasOwner'
    BY <1>14 DEF RunUnbusy, StatusStep
<1>15. ASSUME NEW w \in Workers, RunLeave(w) PROVE BusyHasOwner'
    BY <1>15 DEF RunLeave
<1>16. ASSUME NEW w \in Workers, RunClear(w) PROVE BusyHasOwner'
    BY <1>16 DEF RunClear
<1>17. CASE UNCHANGED vars
    BY <1>17 DEF vars
<1> QED
    BY <1>1, <1>2, <1>3, <1>4, <1>5, <1>6, <1>7, <1>8, <1>9, <1>10, <1>11, <1>12, <1>13,
       <1>14, <1>15, <1>16, <1>17 DEF Next, Call, Inside, Run

LEMMA InductiveWincp == Spec => []WincpInv
<1>1. WincpInv /\ [Next]_vars => WincpInv'
    BY TypesStep, LabelsStep, SerialStep, StopStep, HelpersStep, OwnerStep DEF WincpInv
<1> QED
    BY <1>1, WincpInitInv, PTL DEF Spec
-----------------------------------------------------------------------------
(***************************************************************************)
(* However many threads enqueue, stop, start and release, and however many *)
(* workers the pool has, one task executes at a time (check_submit_next,   *)
(* run_next).                                                              *)
(***************************************************************************)
THEOREM ExecutesSerially == Spec => []SerialExecution
<1> QED
    BY InductiveWincp, PTL DEF WincpInv

(***************************************************************************)
(* At most one task begins after a stop, as the notes of run_queue.h say,  *)
(* although nothing is locked.                                             *)
(***************************************************************************)
THEOREM StopLetsOneBegin == Spec => []StopHolds
<1>1. WincpInv => StopHolds
    BY DEF WincpInv, StopCounts, StopHolds
<1> QED
    BY <1>1, InductiveWincp, PTL

(***************************************************************************)
(* In an active queue that nobody stops or releases, a task that waits has *)
(* a thread on its way to submit it, a submission or a worker with BUSY    *)
(* that will, or was overtaken by the EMPTY bit of a late poll (run_next); *)
(* the two compare-exchanges of check_submit_next lose nothing between     *)
(* them.  A stop or a release may, beside EMPTY, leave BUSY to nobody.     *)
(***************************************************************************)
THEOREM TasksAreSubmitted == Spec => []NotStranded
<1>1. WincpInv => NotStranded
    BY DEF WincpInv, TasksHaveHelpers, Helpers, BusyHasOwner, NotStranded, Submitting
<1> QED
    BY <1>1, InductiveWincp, PTL
-----------------------------------------------------------------------------
\* What InOrder concatenates are sequences of tasks.
LEMMA OrderTypes ==
    WincpInv => /\ posted \in Seq(Tasks) /\ begun \in Seq(Tasks) /\ Waiting \in Seq(Tasks)
                /\ \A w \in Workers : Called(w) => executing[w] \in Tasks
<1> SUFFICES ASSUME WincpInv
             PROVE  /\ posted \in Seq(Tasks) /\ begun \in Seq(Tasks) /\ Waiting \in Seq(Tasks)
                    /\ \A w \in Workers : Called(w) => executing[w] \in Tasks
    OBVIOUS
<1>1. Waiting \in Seq(Tasks)
    BY TasksOfContexts DEF WincpInv, Types, Waiting, Context
<1> QED
    BY <1>1 DEF WincpInv, Types, LabelsOfRoles, Called

\* Only three steps change what InOrder speaks of.
LEMMA OrderKept ==
    ASSUME InOrder, UNCHANGED <<posted, begun, m_fifo>>,
           \A w \in Workers : Called(w)' <=> Called(w),
           \A w \in Workers : Called(w) => executing'[w] = executing[w]
    PROVE  InOrder'
  BY DEF InOrder, Waiting

\* Posting appends to both sides; polling and calling only move the cut.
LEMMA OrderStep == WincpInv /\ InOrder /\ [Next]_vars => InOrder'
<1> SUFFICES ASSUME WincpInv, InOrder, [Next]_vars PROVE InOrder'
    OBVIOUS
<1> DEFINE Alone == \A w \in Workers : ~Called(w)
<1>0. /\ posted \in Seq(Tasks) /\ begun \in Seq(Tasks) /\ Waiting \in Seq(Tasks)
      /\ \A w \in Workers : Called(w) => executing[w] \in Tasks
      /\ \A v, w \in Workers : Called(v) /\ Called(w) => v = w
    BY OrderTypes DEF WincpInv, SerialExecution, LabelsOfRoles, Called
<1>1. ASSUME NEW t \in Threads, NEW d \in Tasks, EnqueuePost(t, d) PROVE InOrder'
  <2>1. Waiting' = Append(Waiting, d)
      BY <1>1, TasksOfAppend DEF EnqueuePost, PostAs, Waiting, WincpInv, Types, Context
  <2>2. posted' = Append(posted, d) /\ begun' = begun /\ executing' = executing
      BY <1>1 DEF EnqueuePost, PostAs
  <2>3. \A w \in Workers : Called(w)' <=> Called(w)
      BY <1>1 DEF EnqueuePost, PostAs, Caller, Called, WincpInv, Types
  <2>4. CASE posted = begun \o Waiting /\ Alone
    <3>1. begun \o Append(Waiting, d) = Append(begun \o Waiting, d)
        BY <1>0, Recut, ConcatEmptySeq, EmptySeq
    <3> QED
        BY <2>1, <2>2, <2>3, <2>4, <3>1 DEF InOrder
  <2>5. ASSUME NEW w \in Workers, Called(w), posted = begun \o <<executing[w]>> \o Waiting
        PROVE  InOrder'
    <3>1. <<executing[w]>> \in Seq(Tasks)
        BY <1>0, <2>5
    <3>2. (begun \o <<executing[w]>>) \o Append(Waiting, d)
            = Append((begun \o <<executing[w]>>) \o Waiting, d)
        BY <1>0, <3>1, Recut
    <3> QED
        BY <2>1, <2>2, <2>3, <2>5, <3>2 DEF InOrder
  <2> QED
      BY <2>4, <2>5 DEF InOrder
<1>2. ASSUME NEW w \in Workers, RunPoll(w) PROVE InOrder'
  <2>1. m_fifo # <<>> /\ m_fifo' = Tail(m_fifo) /\ Called(w)'
        /\ executing'[w] = Head(m_fifo).task
      BY <1>2 DEF RunPoll, Poll, Called, WincpInv, Types
  <2>2. Waiting # <<>> /\ Head(Waiting) = Head(m_fifo).task /\ Waiting' = Tail(Waiting)
      BY <2>1, TasksOfTail DEF Waiting, WincpInv, Types, Context
  <2>3. Alone
      BY <1>2 DEF RunPoll, Poll, Called, WincpInv, Types, SerialExecution, LabelsOfRoles
  <2>4. (begun \o <<Head(Waiting)>>) \o Tail(Waiting) = begun \o Waiting
      BY <1>0, <2>2, Recut
  <2>5. posted' = posted /\ begun' = begun
      BY <1>2 DEF RunPoll, Poll
  <2>6. posted = begun \o Waiting
      BY <2>3 DEF InOrder
  <2> QED
      BY <2>1, <2>2, <2>4, <2>5, <2>6 DEF InOrder
<1>3. ASSUME NEW w \in Workers, RunCall(w) PROVE InOrder'
  <2>1. Called(w)
      BY <1>3 DEF RunCall, Called
  <2>2. posted = (begun \o <<executing[w]>>) \o Waiting
      BY <1>0, <2>1 DEF InOrder
  <2>3. begun' = Append(begun, executing[w]) /\ posted' = posted /\ Waiting' = Waiting
      BY <1>3 DEF RunCall, Waiting
  <2>4. (begun \o <<executing[w]>>) \o Waiting = Append(begun, executing[w]) \o Waiting
      BY <1>0, <2>1, Recut
  <2>5. \A v \in Workers : ~Called(v)'
      BY <1>0, <1>3, <2>1 DEF RunCall, Called, WincpInv, Types
  <2> QED
      BY <2>2, <2>3, <2>4, <2>5 DEF InOrder
<1> USE OrderKept DEF Called, WincpInv, Types, LabelsOfRoles
<1>4. ASSUME NEW t \in Threads, EnqueueUnmark(t) PROVE InOrder'
    BY <1>4 DEF EnqueueUnmark, StatusStep
<1>5. ASSUME NEW t \in Threads, SubmitWon(t) \/ ResubmitWon(t) PROVE InOrder'
    BY <1>5 DEF SubmitWon, ResubmitWon, SubmitFrom, AfterSubmit
<1>6. ASSUME NEW t \in Threads, SubmitLost(t) \/ ResubmitLost(t) PROVE InOrder'
    BY <1>6 DEF SubmitLost, ResubmitLost, StatusStep, AfterSubmit
<1>7. ASSUME NEW t \in Threads, Stop(t) PROVE InOrder'
    BY <1>7 DEF Stop, Deactivate
<1>8. ASSUME NEW t \in Threads, Start(t) PROVE InOrder'
    BY <1>8 DEF Start, StatusStep
<1>9. ASSUME NEW t \in Threads, ReleaseReset(t) PROVE InOrder'
    BY <1>9 DEF ReleaseReset
<1>10. ASSUME NEW t \in Threads, ReleaseMark(t) \/ ReleaseStart(t) PROVE InOrder'
    BY <1>10 DEF ReleaseMark, ReleaseStart, StatusStep
<1>11. ASSUME NEW t \in Threads, DropPointer(t) PROVE InOrder'
    BY <1>11 DEF DropPointer, Drop
<1>12. ASSUME NEW w \in Workers, RunDrained(w) PROVE InOrder'
    BY <1>12 DEF RunDrained, Poll
<1>13. ASSUME NEW w \in Workers, RunEmpty(w) \/ RunUnbusy(w) PROVE InOrder'
    BY <1>13 DEF RunEmpty, DrainedTo, RunUnbusy, StatusStep
<1>14. ASSUME NEW w \in Workers, RunLeave(w) \/ RunClear(w) PROVE InOrder'
    BY <1>14 DEF RunLeave, RunClear
<1>15. CASE UNCHANGED vars
    BY <1>15 DEF vars
<1> QED
    BY <1>1, <1>2, <1>3, <1>4, <1>5, <1>6, <1>7, <1>8, <1>9, <1>10, <1>11, <1>12, <1>13,
       <1>14, <1>15 DEF Next, Call, Inside, Run

(***************************************************************************)
(* The completion port keeps the order: what was posted is what has begun, *)
(* what a worker is about to call and what waits (enqueue, run_next).      *)
(***************************************************************************)
THEOREM OrderIsKept == Spec => []InOrder
<1>1. Init => InOrder
  <2> SUFFICES ASSUME Init PROVE InOrder
      OBVIOUS
  <2>1. posted = <<>> /\ begun = <<>> /\ m_fifo = <<>> /\ \A w \in Workers : pc[w] = "idle"
      BY DEF Init, InitQueue
  <2>2. Waiting = <<>>
      BY <2>1 DEF Waiting
  <2> QED
      BY <2>1, <2>2 DEF InOrder, Called
<1> QED
    BY <1>1, InductiveWincp, OrderStep, PTL DEF Spec
-----------------------------------------------------------------------------
(* The refinement: what the mapping to SerialExecutor shows, step by step.  *)

\* A task is posted once; the task a worker executes is the last that began.
History ==
    /\ \A i, j \in DOMAIN posted : posted[i] = posted[j] => i = j
    /\ \A w \in Workers : executing[w] # NoTask /\ ~Called(w) =>
          Len(begun) > 0 /\ executing[w] = begun[Len(begun)]

Mapped == <<Waiting, Taken, Current, Executed>>

\* Where the parts that InOrder lists are in what was posted.
LEMMA ListedIsPosted ==
    ASSUME WincpInv, InOrder
    PROVE  /\ \A d : Begun(d) => Posted(d)
           /\ \A i \in DOMAIN Waiting : Posted(Waiting[i])
           /\ \A w \in Workers : Called(w) =>
                 /\ Len(begun) + 1 \in DOMAIN posted
                 /\ posted[Len(begun) + 1] = executing[w]
           /\ ~Calling => /\ DOMAIN posted = 1 .. Len(begun) + Len(Waiting)
                          /\ \A i \in 1 .. Len(begun) : posted[i] = begun[i]
                          /\ \A i \in 1 .. Len(Waiting) : posted[Len(begun) + i] = Waiting[i]
<1>0. begun \in Seq(Tasks) /\ Waiting \in Seq(Tasks)
      /\ \A w \in Workers : Called(w) => executing[w] \in Tasks
    BY OrderTypes
<1>1. CASE ~Calling
  <2>1. posted = begun \o Waiting
      BY <1>1 DEF InOrder, Calling
  <2>2. /\ DOMAIN posted = 1 .. Len(begun) + Len(Waiting)
        /\ Len(begun) \in Nat /\ Len(Waiting) \in Nat
        /\ DOMAIN begun = 1 .. Len(begun) /\ DOMAIN Waiting = 1 .. Len(Waiting)
        /\ \A i \in 1 .. Len(begun) : posted[i] = begun[i]
        /\ \A i \in 1 .. Len(Waiting) : posted[Len(begun) + i] = Waiting[i]
      BY <1>0, <2>1, Together
  <2>3. \A d : Begun(d) => Posted(d)
      BY <2>2 DEF Begun, Posted
  <2>4. ASSUME NEW i \in DOMAIN Waiting PROVE Posted(Waiting[i])
    <3>1. Len(begun) + i \in DOMAIN posted
        BY <2>2
    <3> QED
        BY <2>2, <3>1 DEF Posted
  <2> QED
      BY <1>1, <2>2, <2>3, <2>4 DEF Calling
<1>2. ASSUME NEW w \in Workers, Called(w)
      PROVE  /\ \A d : Begun(d) => Posted(d)
             /\ \A i \in DOMAIN Waiting : Posted(Waiting[i])
             /\ Len(begun) + 1 \in DOMAIN posted
             /\ posted[Len(begun) + 1] = executing[w]
  <2> DEFINE H == Append(begun, executing[w])
  <2>1. posted = (begun \o <<executing[w]>>) \o Waiting
      BY <1>2 DEF InOrder, WincpInv, SerialExecution, LabelsOfRoles, Called
  <2>2. /\ H \in Seq(Tasks) /\ Len(H) = Len(begun) + 1
        /\ \A i \in 1 .. Len(begun) : H[i] = begun[i]
        /\ H[Len(begun) + 1] = executing[w]
      BY <1>0, <1>2, AppendProperties
  <2>3. posted = H \o Waiting
      BY <1>0, <1>2, <2>1, Recut
  <2> HIDE DEF H
  <2>4. /\ DOMAIN posted = 1 .. Len(begun) + 1 + Len(Waiting)
        /\ Len(begun) \in Nat /\ Len(Waiting) \in Nat
        /\ DOMAIN begun = 1 .. Len(begun) /\ DOMAIN Waiting = 1 .. Len(Waiting)
        /\ \A i \in 1 .. Len(begun) + 1 : posted[i] = H[i]
        /\ \A i \in 1 .. Len(Waiting) : posted[Len(begun) + 1 + i] = Waiting[i]
    <3>1. /\ DOMAIN posted = 1 .. Len(H) + Len(Waiting)
          /\ \A i \in 1 .. Len(H) : posted[i] = H[i]
          /\ \A i \in 1 .. Len(Waiting) : posted[Len(H) + i] = Waiting[i]
      <4>1. /\ DOMAIN (H \o Waiting) = 1 .. Len(H) + Len(Waiting)
            /\ \A i \in 1 .. Len(H) : (H \o Waiting)[i] = H[i]
            /\ \A i \in 1 .. Len(Waiting) : (H \o Waiting)[Len(H) + i] = Waiting[i]
        <5>1. H \in Seq(Tasks) /\ Waiting \in Seq(Tasks)
            BY <1>0, <2>2
        <5> QED
            BY ONLY <5>1, Together
      <4> QED
          BY <2>3, <4>1
    <3>2. /\ Len(begun) \in Nat /\ Len(Waiting) \in Nat
          /\ DOMAIN begun = 1 .. Len(begun) /\ DOMAIN Waiting = 1 .. Len(Waiting)
        BY <1>0, LenProperties
    <3>3. Len(H) = Len(begun) + 1
        BY <2>2
    <3> QED
        BY <3>1, <3>2, <3>3
  <2>5. ASSUME NEW i \in DOMAIN Waiting PROVE Posted(Waiting[i])
    <3>1. Len(begun) + 1 + i \in DOMAIN posted
        BY <2>4
    <3> QED
        BY <2>4, <3>1 DEF Posted
  <2>6. ASSUME NEW d, Begun(d) PROVE Posted(d)
    <3>1. PICK i \in 1 .. Len(begun) : begun[i] = d
        BY <2>4, <2>6 DEF Begun
    <3>2. i \in DOMAIN posted /\ posted[i] = d
        BY <2>2, <2>4, <3>1
    <3> QED
        BY <3>2 DEF Posted
  <2> QED
      BY <2>2, <2>4, <2>5, <2>6
<1>3. \A v, w \in Workers : Called(v) /\ Called(w) => v = w
    BY DEF WincpInv, SerialExecution, LabelsOfRoles, Called
<1> QED
    BY <1>1, <1>2, <1>3 DEF Calling

\* The task a poll finds has not begun before.
LEMMA FoundIsNew ==
    ASSUME WincpInv, InOrder, History, ~Calling, Waiting # <<>>
    PROVE  /\ ~Begun(Waiting[1])
           /\ Waiting[1] = posted[Len(begun) + 1]
<1>0. begun \in Seq(Tasks) /\ Waiting \in Seq(Tasks)
    BY OrderTypes
<1>1. /\ Len(begun) \in Nat /\ Len(Waiting) \in Nat /\ Len(Waiting) > 0
      /\ DOMAIN begun = 1 .. Len(begun)
    BY <1>0, EmptySeq, LenProperties
<1>2. Waiting[1] = posted[Len(begun) + 1] /\ Len(begun) + 1 \in DOMAIN posted
    BY <1>1, ListedIsPosted
<1>3. \A i \in 1 .. Len(begun) : i \in DOMAIN posted /\ posted[i] = begun[i]
    BY <1>1, ListedIsPosted
<1>4. \A i \in 1 .. Len(begun) : begun[i] # Waiting[1]
    BY <1>1, <1>2, <1>3 DEF History
<1> QED
    BY <1>1, <1>2, <1>4 DEF Begun
-----------------------------------------------------------------------------
\* What History and the mapping read.
LEMMA HistoryKept ==
    ASSUME History, UNCHANGED <<posted, begun>>,
           \A w \in Workers : executing'[w] # NoTask /\ ~Called(w)' =>
               executing[w] = executing'[w] /\ ~Called(w)
    PROVE  History'
  BY DEF History

LEMMA MappedKept ==
    ASSUME UNCHANGED <<m_fifo, posted, begun, executing>>,
           \A w \in Workers : Called(w)' <=> Called(w)
    PROVE  UNCHANGED Mapped
<1>1. Waiting' = Waiting /\ (Idle' <=> Idle) /\ Executed' = Executed /\ (Calling' <=> Calling)
    BY DEF Waiting, Idle, Executed, Begun, Executing, Calling
<1> QED
    BY <1>1 DEF Mapped, Taken, Current

\* The steps that change at most m_status, a label or the references.
LEMMA OtherStep ==
    ASSUME WincpInv, History, NEW t \in Threads,
           \/ EnqueueUnmark(t) \/ SubmitWon(t) \/ SubmitLost(t) \/ ResubmitWon(t)
           \/ ResubmitLost(t) \/ Stop(t) \/ Start(t) \/ ReleaseReset(t) \/ ReleaseMark(t)
           \/ ReleaseStart(t) \/ DropPointer(t)
           \/ t \in Workers /\ (RunDrained(t) \/ RunEmpty(t) \/ RunUnbusy(t) \/ RunLeave(t))
    PROVE  UNCHANGED Mapped /\ History'
<1>1. UNCHANGED <<m_fifo, posted, begun, executing>>
    BY DEF EnqueueUnmark, SubmitWon, SubmitLost, ResubmitWon, ResubmitLost, SubmitFrom, Stop,
           Deactivate, Start, ReleaseReset, ReleaseMark, ReleaseStart, DropPointer, Drop,
           StatusStep, RunDrained, RunEmpty, DrainedTo, RunUnbusy, RunLeave, Poll
<1>2. \A w \in Workers : Called(w)' <=> Called(w)
  <2> USE DEF Called, WincpInv, Types, LabelsOfRoles
  <2>1. CASE EnqueueUnmark(t) \/ SubmitLost(t) \/ ResubmitLost(t)
      BY <2>1 DEF EnqueueUnmark, SubmitLost, ResubmitLost, StatusStep, AfterSubmit
  <2>2. CASE SubmitWon(t) \/ ResubmitWon(t)
      BY <2>2 DEF SubmitWon, ResubmitWon, SubmitFrom, AfterSubmit
  <2>3. CASE Stop(t) \/ Start(t) \/ DropPointer(t)
      BY <2>3 DEF Stop, Deactivate, Start, StatusStep, DropPointer, Drop
  <2>4. CASE ReleaseReset(t) \/ ReleaseMark(t) \/ ReleaseStart(t)
      BY <2>4 DEF ReleaseReset, ReleaseMark, ReleaseStart, StatusStep
  <2>5. CASE t \in Workers /\ (RunDrained(t) \/ RunEmpty(t) \/ RunUnbusy(t) \/ RunLeave(t))
      BY <2>5 DEF RunDrained, Poll, RunEmpty, DrainedTo, RunUnbusy, RunLeave, StatusStep
  <2> QED
      BY <2>1, <2>2, <2>3, <2>4, <2>5
<1> QED
    BY <1>1, <1>2, MappedKept, HistoryKept

\* enqueue posts a task the executor does not know.
LEMMA PostStep ==
    ASSUME WincpInv, InOrder, History, NEW t \in Threads, NEW d \in Tasks, EnqueuePost(t, d)
    PROVE  Executor!Post(d) /\ History'
<1>0. /\ posted \in Seq(Tasks) /\ begun \in Seq(Tasks) /\ Waiting \in Seq(Tasks)
      /\ Len(begun) \in Nat /\ Len(posted) \in Nat
    BY OrderTypes, LenProperties
<1>1. /\ posted' = Append(posted, d) /\ ~Posted(d)
      /\ UNCHANGED <<begun, executing>>
    BY DEF EnqueuePost, PostAs
<1>2. \A w \in Workers : Called(w)' <=> Called(w)
    BY DEF EnqueuePost, PostAs, Caller, Called, WincpInv, Types
<1>3. Waiting' = Append(Waiting, d)
    BY TasksOfAppend DEF EnqueuePost, PostAs, Waiting, WincpInv, Types, Context
<1>4. /\ DOMAIN posted' = 1 .. Len(posted) + 1 /\ DOMAIN posted = 1 .. Len(posted)
      /\ posted'[Len(posted) + 1] = d
      /\ \A i \in 1 .. Len(posted) : posted'[i] = posted[i]
    BY <1>0, <1>1, AppendProperties, LenProperties
<1>5. (Calling' <=> Calling) /\ (Idle' <=> Idle) /\ Executed' = Executed
    BY <1>1, <1>2 DEF Calling, Idle, Executed, Begun, Executing
<1>6. Taken' = Taken
  <2>1. CASE Calling
    <3>1. Len(begun) + 1 \in DOMAIN posted
        BY <2>1, ListedIsPosted DEF Calling
    <3> QED
        BY <1>1, <1>4, <1>5, <2>1, <3>1 DEF Taken
  <2>2. CASE ~Calling
      BY <1>5, <2>2 DEF Taken
  <2> QED
      BY <2>1, <2>2
<1>7. Current' = Current
    BY <1>1, <1>5 DEF Current
<1>8. d \notin Executor!Posted
  <2>1. \A i \in DOMAIN Waiting : Waiting[i] # d
      BY <1>1, ListedIsPosted
  <2>2. d # NoTask
      OBVIOUS
  <2>3. d # Taken
    <3>1. CASE Calling
      <4>1. Len(begun) + 1 \in DOMAIN posted
          BY <3>1, ListedIsPosted DEF Calling
      <4> QED
          BY <1>1, <3>1, <4>1 DEF Taken, Posted
    <3>2. CASE ~Calling
        BY <2>2, <3>2 DEF Taken
    <3> QED
        BY <3>1, <3>2
  <2>4. d # Current
    <3>1. CASE Idle \/ Calling
        BY <2>2, <3>1 DEF Current
    <3>2. CASE ~Idle /\ ~Calling
      <4>1. Len(begun) > 0
          BY <3>2 DEF Idle, Calling, History
      <4>2. Begun(begun[Len(begun)])
          BY <1>0, <4>1, LenProperties DEF Begun
      <4> QED
          BY <1>1, <3>2, <4>2, ListedIsPosted DEF Current
    <3> QED
        BY <3>1, <3>2
  <2>5. d \notin Executed
      BY <1>1, ListedIsPosted DEF Executed
  <2> QED
      BY <2>1, <2>3, <2>4, <2>5 DEF Executor!Posted
<1>9. History'
  <2>1. \A i, j \in DOMAIN posted' : posted'[i] = posted'[j] => i = j
      BY <1>0, <1>1, <1>4 DEF History, Posted
  <2> QED
      BY <1>1, <1>2, <2>1 DEF History
<1> QED
    BY <1>3, <1>5, <1>6, <1>7, <1>8, <1>9 DEF Executor!Post

\* A poll that finds a task takes the oldest one, while none executes.
LEMMA TakeStep ==
    ASSUME WincpInv, InOrder, History, NEW w \in Workers, RunPoll(w)
    PROVE  Executor!Take /\ History'
<1> DEFINE d == Head(m_fifo).task
<1>1. \A v \in Workers : executing[v] = NoTask /\ ~Called(v)
    BY DEF RunPoll, Poll, WincpInv, SerialExecution, LabelsOfRoles, Types, Called
<1>2. Idle /\ ~Calling
    BY <1>1 DEF Idle, Calling
<1>3. /\ m_fifo # <<>> /\ m_fifo' = Tail(m_fifo) /\ executing' = [executing EXCEPT ![w] = d]
      /\ Called(w)' /\ UNCHANGED <<posted, begun>>
    BY DEF RunPoll, Poll, Called, WincpInv, Types
<1>4. Waiting # <<>> /\ Head(Waiting) = d /\ Waiting' = Tail(Waiting)
    BY <1>3, TasksOfTail DEF Waiting, WincpInv, Types, Context
<1>5. d = Waiting[1] /\ Calling'
    BY <1>3, <1>4, OrderTypes DEF Calling
<1>6. ~Begun(d) /\ d = posted[Len(begun) + 1]
    BY <1>2, <1>4, <1>5, FoundIsNew
<1> HIDE DEF d
<1>7. \A x \in Tasks : ~Executing(x) /\ (Executing(x)' => x = d)
    BY <1>1, <1>3 DEF Executing, WincpInv, Types
<1>8. Executed' = Executed
    BY <1>3, <1>6, <1>7 DEF Executed, Begun
<1>9. /\ Taken = NoTask /\ Current = NoTask
      /\ Taken' = d /\ Current' = NoTask
    BY <1>2, <1>3, <1>5, <1>6 DEF Taken, Current
<1>10. History'
    BY <1>1, <1>3, HistoryKept DEF WincpInv, Types
<1> QED
    BY <1>4, <1>8, <1>9, <1>10 DEF Executor!Take

\* The worker calls the function of the task it took.
LEMMA BeginStep ==
    ASSUME WincpInv, InOrder, History, NEW w \in Workers, RunCall(w)
    PROVE  Executor!Begin /\ History'
<1> DEFINE d == executing[w]
<1>1. Called(w) /\ d \in Tasks /\ posted[Len(begun) + 1] = d
    BY ListedIsPosted, OrderTypes DEF RunCall, Called
<1>2. \A v \in Workers : executing[v] # NoTask => v = w
    BY <1>1 DEF WincpInv, SerialExecution, LabelsOfRoles, Called
<1>3. /\ begun' = Append(begun, d) /\ begun \in Seq(Tasks)
      /\ UNCHANGED <<posted, executing, m_fifo>>
    BY OrderTypes DEF RunCall
<1>4. Waiting' = Waiting
    BY <1>3 DEF Waiting
<1>5. \A v \in Workers : ~Called(v)'
    BY <1>1, <1>2 DEF RunCall, Called, WincpInv, Types, LabelsOfRoles
<1>6. ~Idle /\ ~Idle' /\ Calling /\ ~Calling'
    BY <1>1, <1>3, <1>5 DEF Idle, Calling
<1> HIDE DEF d
<1>7. /\ Len(begun') = Len(begun) + 1 /\ Len(begun) \in Nat
      /\ DOMAIN begun' = 1 .. Len(begun) + 1 /\ DOMAIN begun = 1 .. Len(begun)
      /\ begun'[Len(begun) + 1] = d
      /\ \A i \in 1 .. Len(begun) : begun'[i] = begun[i]
    BY <1>1, <1>3, AppendProperties, LenProperties
<1>8. Taken = d /\ Taken' = NoTask /\ Current = NoTask /\ Current' = d
    BY <1>1, <1>6, <1>7 DEF Taken, Current
<1>9. Executed' = Executed
  <2>1. \A x \in Tasks : x # d => (Begun(x)' <=> Begun(x))
      BY <1>7 DEF Begun
  <2>2. \A x \in Tasks : Executing(x)' <=> Executing(x)
      BY <1>3 DEF Executing
  <2>3. Executing(d)
      BY DEF d, Executing
  <2> QED
      BY <2>1, <2>2, <2>3 DEF Executed
<1>10. History'
  <2>1. \A v \in Workers : executing'[v] # NoTask => executing'[v] = d
      BY <1>2, <1>3 DEF d
  <2> QED
      BY <1>3, <1>7, <2>1 DEF History
<1> QED
    BY <1>1, <1>4, <1>8, <1>9, <1>10 DEF Executor!Begin

\* The task is finished when its function has returned.
LEMMA FinishStep ==
    ASSUME WincpInv, InOrder, History, NEW w \in Workers, RunClear(w)
    PROVE  Executor!Finish /\ History'
<1> DEFINE d == executing[w]
<1>1. d \in Tasks /\ d # NoTask
    BY DEF RunClear, WincpInv, LabelsOfRoles, Types
<1>2. \A v \in Workers : executing[v] # NoTask => v = w
    BY <1>1 DEF WincpInv, SerialExecution
<1>3. \A v \in Workers : ~Called(v) /\ ~Called(v)'
    BY <1>2 DEF RunClear, Called, WincpInv, Types, LabelsOfRoles
<1>4. /\ UNCHANGED <<posted, begun, m_fifo>> /\ begun \in Seq(Tasks)
      /\ \A v \in Workers : executing'[v] = NoTask
    BY <1>2, OrderTypes DEF RunClear, WincpInv, Types
<1>5. Waiting' = Waiting
    BY <1>4 DEF Waiting
<1>6. ~Idle /\ Idle' /\ ~Calling /\ ~Calling'
    BY <1>1, <1>3, <1>4 DEF Idle, Calling
<1>7. Len(begun) > 0 /\ d = begun[Len(begun)]
    BY <1>1, <1>3 DEF History
<1>8. Begun(d)
    BY <1>4, <1>7, LenProperties DEF Begun
<1>9. /\ \A x \in Tasks : ~Executing(x)' /\ (Executing(x) <=> x = d)
      /\ \A x \in Tasks : Begun(x)' <=> Begun(x)
    BY <1>1, <1>2, <1>4 DEF Executing, Begun
<1> HIDE DEF d
<1>10. Executed' = Executed \cup {d}
    BY <1>1, <1>8, <1>9 DEF Executed
<1>11. Taken = NoTask /\ Taken' = NoTask /\ Current = d /\ Current' = NoTask
    BY <1>6, <1>7 DEF Taken, Current
<1>12. History'
    BY <1>4, HistoryKept
<1> QED
    BY <1>1, <1>5, <1>10, <1>11, <1>12 DEF Executor!Finish
-----------------------------------------------------------------------------
\* Every step of the queue is one of the executor's, or changes nothing of it.
LEMMA RefinementStep ==
    WincpInv /\ InOrder /\ History /\ [Next]_vars => [Executor!Next]_(Executor!vars) /\ History'
<1> SUFFICES ASSUME WincpInv, InOrder, History, [Next]_vars
             PROVE  [Executor!Next]_(Executor!vars) /\ History'
    OBVIOUS
<1>1. ASSUME UNCHANGED Mapped PROVE UNCHANGED Executor!vars
    BY <1>1 DEF Mapped, Executor!vars
<1>2. ASSUME NEW t \in Threads, NEW d \in Tasks, EnqueuePost(t, d)
      PROVE  Executor!Next /\ History'
    BY <1>2, PostStep DEF Executor!Next
<1>3. ASSUME NEW t \in Threads, Stop(t) \/ Start(t) \/ ReleaseReset(t) \/ DropPointer(t) \/ Inside(t)
      PROVE  UNCHANGED Mapped /\ History'
    BY <1>3, OtherStep DEF Inside
<1>4. ASSUME NEW w \in Workers, Run(w) \/ RunClear(w)
      PROVE  [Executor!Next]_(Executor!vars) /\ History'
  <2>1. CASE RunPoll(w)
      BY <2>1, TakeStep DEF Executor!Next
  <2>2. CASE RunCall(w)
      BY <2>2, BeginStep DEF Executor!Next
  <2>3. CASE RunClear(w)
      BY <2>3, FinishStep DEF Executor!Next
  <2>4. CASE RunDrained(w) \/ RunEmpty(w) \/ RunUnbusy(w) \/ RunLeave(w)
    <3>1. UNCHANGED Mapped /\ History'
        BY <2>4, OtherStep
    <3> QED
        BY <1>1, <3>1
  <2> QED
      BY <1>4, <2>1, <2>2, <2>3, <2>4 DEF Run
<1>5. ASSUME UNCHANGED vars PROVE UNCHANGED Mapped /\ History'
    BY <1>5, MappedKept, HistoryKept DEF vars, Called
<1> QED
    BY <1>1, <1>2, <1>3, <1>4, <1>5 DEF Next, Call

(***************************************************************************)
(* The run_queue of Windows implements the serial executor as long as stop *)
(* is left out of it: tasks are executed one at a time, in the order in    *)
(* which they were posted, each once (enqueue, run_next).                  *)
(***************************************************************************)
THEOREM WincpImplementsExecutor == Spec => ImplementsUnstoppedExecutor
<1>1. Init => History /\ Executor!Init
  <2> SUFFICES ASSUME Init PROVE History /\ Executor!Init
      OBVIOUS
  <2>1. /\ posted = <<>> /\ begun = <<>> /\ m_fifo = <<>>
        /\ \A w \in Workers : pc[w] = "idle" /\ executing[w] = NoTask
      BY DEF Init, InitQueue
  <2>2. Waiting = <<>> /\ Idle /\ ~Calling /\ Executed = {}
      BY <2>1 DEF Waiting, Idle, Calling, Called, Executed, Begun
  <2> QED
      BY <2>1, <2>2 DEF History, Executor!Init, Taken, Current
<1> QED
    BY <1>1, InductiveWincp, OrderIsKept, RefinementStep, PTL
    DEF Spec, ImplementsUnstoppedExecutor, Executor!Spec
-----------------------------------------------------------------------------
(* The lifetime of the queue object.                                        *)

\* The threads that have a pointer of their own.
Holders == {t \in Threads : holds[t]}

\* Who has a pointer: a client inside a method, and a worker from the context it
\* polled until it leaves run_next.
PointersOfRoles ==
    /\ holds \in [Threads -> BOOLEAN]
    /\ m_self <=> ~released
    /\ \A c \in Clients : pc[c] # "outside" => holds[c]
    /\ \A w \in Workers : holds[w] <=> pc[w] \notin {"idle", "drained"}

\* Every context in the port has a pointer to the queue.
ContextsPoint == \A i \in DOMAIN m_fifo : m_fifo[i].queue

\* The reference count is the number of the pointers there are.
Counted ==
    /\ IsFiniteSet(Holders)
    /\ useCount = References(m_self) + Len(m_fifo) + Cardinality(Holders)

LifeInv == PointersOfRoles /\ ContextsPoint /\ Counted

\* Who holds a pointer after a thread took or dropped one.
LEMMA HoldersChange ==
    PointersOfRoles =>
        \A t \in Threads, b \in BOOLEAN :
            holds' = [holds EXCEPT ![t] = b] =>
                Holders' = IF b THEN Holders \cup {t} ELSE Holders \ {t}
    BY DEF PointersOfRoles, Holders

\* Most steps touch no pointer.
LEMMA CountKept ==
    Counted /\ UNCHANGED <<m_self, m_fifo, holds, useCount>> => Counted'
    BY DEF Counted, Holders

\* Posting to the port adds a context that has a pointer.
LEMMA PortGrows ==
    ASSUME WincpInv, LifeInv, NEW t \in Threads, NEW d \in Tasks, EnqueuePost(t, d)
    PROVE  /\ m_self
           /\ Len(m_fifo') = Len(m_fifo) + 1
           /\ ContextsPoint'
<1>1. m_self
    BY DEF EnqueuePost, PostAs, LifeInv, PointersOfRoles
<1> DEFINE c == [task |-> d, queue |-> TRUE]
<1>2. m_fifo \in Seq(Context) /\ c \in Context /\ m_fifo' = Append(m_fifo, c)
    BY <1>1 DEF EnqueuePost, PostAs, WincpInv, Types, Context
<1>3. c.queue
    OBVIOUS
<1> HIDE DEF c
<1>4. /\ DOMAIN m_fifo' = 1..(Len(m_fifo) + 1) /\ DOMAIN m_fifo = 1..Len(m_fifo)
      /\ m_fifo'[Len(m_fifo) + 1] = c
      /\ \A i \in 1..Len(m_fifo) : m_fifo'[i] = m_fifo[i]
      /\ Len(m_fifo') = Len(m_fifo) + 1 /\ Len(m_fifo) \in Nat
    BY <1>2, AppendProperties
<1>5. ContextsPoint'
    BY <1>3, <1>4 DEF LifeInv, ContextsPoint
<1> QED
    BY <1>1, <1>4, <1>5

\* A poll that finds a task takes the pointer of its context.
LEMMA PortShrinks ==
    ASSUME WincpInv, LifeInv, m_fifo # <<>>, m_fifo' = Tail(m_fifo)
    PROVE  /\ Head(m_fifo).queue = TRUE
           /\ Len(m_fifo') = Len(m_fifo) - 1
           /\ ContextsPoint'
<1>1. m_fifo \in Seq(Context)
    BY DEF WincpInv, Types
<1>2. /\ Len(m_fifo') = Len(m_fifo) - 1
      /\ Head(m_fifo) = m_fifo[1] /\ 1 \in DOMAIN m_fifo
      /\ \A i \in DOMAIN m_fifo' : i + 1 \in DOMAIN m_fifo /\ m_fifo'[i] = m_fifo[i + 1]
    BY <1>1, HeadTailProperties, EmptySeq
<1>3. m_fifo[1] \in Context
    BY <1>1, <1>2
<1>4. m_fifo[1].queue /\ m_fifo[1].queue \in BOOLEAN
    BY <1>2, <1>3 DEF LifeInv, ContextsPoint, Context
<1> QED
    BY <1>2, <1>4 DEF LifeInv, ContextsPoint

\* The pointers are counted right in every step.
LEMMA CountStep == WincpInv /\ LifeInv /\ [Next]_vars => Counted' /\ ContextsPoint'
<1> SUFFICES ASSUME WincpInv, LifeInv, [Next]_vars PROVE Counted' /\ ContextsPoint'
    OBVIOUS
<1>0. /\ IsFiniteSet(Holders) /\ Cardinality(Holders) \in Nat
      /\ Len(m_fifo) \in Nat /\ References(m_self) \in Nat
      /\ useCount = References(m_self) + Len(m_fifo) + Cardinality(Holders)
    BY FS_CardinalityType DEF LifeInv, Counted, WincpInv, Types, References
<1>1. ASSUME NEW t \in Threads, NEW d \in Tasks, EnqueuePost(t, d)
      PROVE  Counted' /\ ContextsPoint'
  <2>1. Len(m_fifo') = Len(m_fifo) + 1 /\ ContextsPoint'
    BY <1>1, PortGrows
  <2>2. /\ useCount' = useCount + 1
        /\ References(m_self') = References(m_self) /\ Holders' = Holders
    BY <1>1, PortGrows DEF EnqueuePost, PostAs, References, Holders
  <2> QED
    BY <1>0, <2>1, <2>2 DEF Counted
<1>2. ASSUME NEW t \in Threads, ReleaseReset(t) PROVE Counted' /\ ContextsPoint'
  <2>1. References(m_self) = 1
    BY <1>2 DEF ReleaseReset, LifeInv, PointersOfRoles, References
  <2>2. /\ useCount' = useCount - 1 /\ References(m_self') = 0
        /\ m_fifo' = m_fifo /\ Holders' = Holders
    BY <1>2 DEF ReleaseReset, Holders, References
  <2> QED
    BY <1>0, <2>1, <2>2 DEF Counted, LifeInv, ContextsPoint
<1>3. ASSUME NEW t \in Threads, DropPointer(t) PROVE Counted' /\ ContextsPoint'
  <2>1. Holders' = Holders \ {t} /\ t \in Holders
    BY <1>3, HoldersChange DEF DropPointer, Drop, Caller, Holders, LifeInv
  <2>2. IsFiniteSet(Holders') /\ Cardinality(Holders') = Cardinality(Holders) - 1
    BY <1>0, <2>1, FS_RemoveElement
  <2>3. useCount' = useCount - 1 /\ References(m_self') = References(m_self) /\ m_fifo' = m_fifo
    BY <1>3 DEF DropPointer, Drop, References
  <2> QED
    BY <1>0, <2>2, <2>3 DEF Counted, LifeInv, ContextsPoint
<1>4. ASSUME NEW w \in Workers, RunPoll(w) PROVE Counted' /\ ContextsPoint'
  <2>1. /\ Head(m_fifo).queue = TRUE /\ Len(m_fifo') = Len(m_fifo) - 1
        /\ ContextsPoint'
    BY <1>4, PortShrinks DEF RunPoll
  <2>2. Holders' = Holders \cup {w} /\ w \notin Holders
    BY <1>4, <2>1, HoldersChange DEF RunPoll, Poll, Holders, LifeInv, PointersOfRoles
  <2>3. IsFiniteSet(Holders') /\ Cardinality(Holders') = Cardinality(Holders) + 1
    BY <1>0, <2>2, FS_AddElement
  <2>4. useCount' = useCount /\ References(m_self') = References(m_self)
    BY <1>4 DEF RunPoll, Poll, References
  <2> QED
    BY <1>0, <2>1, <2>3, <2>4 DEF Counted
<1>5. ASSUME NEW w \in Workers, RunLeave(w) PROVE Counted' /\ ContextsPoint'
  <2>1. holds[w]
    BY <1>5 DEF RunLeave, LifeInv, PointersOfRoles
  <2>2. Holders' = Holders \ {w} /\ w \in Holders
    BY <1>5, <2>1, HoldersChange DEF RunLeave, Holders, LifeInv
  <2>3. IsFiniteSet(Holders') /\ Cardinality(Holders') = Cardinality(Holders) - 1
    BY <1>0, <2>2, FS_RemoveElement
  <2>4. useCount' = useCount - 1 /\ References(m_self') = References(m_self) /\ m_fifo' = m_fifo
    BY <1>5, <2>1 DEF RunLeave, References
  <2> QED
    BY <1>0, <2>3, <2>4 DEF Counted, LifeInv, ContextsPoint
<1>6. CASE \/ \E t \in Threads :
                 \/ EnqueueUnmark(t) \/ SubmitWon(t) \/ SubmitLost(t)
                 \/ ResubmitWon(t) \/ ResubmitLost(t) \/ Stop(t) \/ Start(t)
                 \/ ReleaseMark(t) \/ ReleaseStart(t)
           \/ \E w \in Workers : RunDrained(w) \/ RunCall(w) \/ RunEmpty(w)
                                  \/ RunUnbusy(w) \/ RunClear(w)
           \/ UNCHANGED vars
  <2>1. UNCHANGED <<m_self, m_fifo, holds, useCount>>
    BY <1>6 DEF EnqueueUnmark, StatusStep, SubmitWon, SubmitFrom, SubmitLost,
                ResubmitWon, ResubmitLost, Stop, Deactivate, Start, ReleaseMark,
                ReleaseStart, RunDrained, Poll, RunCall, RunEmpty, DrainedTo,
                RunUnbusy, RunClear, vars
  <2> QED
    BY <2>1, CountKept DEF LifeInv, ContextsPoint
<1> QED
    BY <1>1, <1>2, <1>3, <1>4, <1>5, <1>6 DEF Next, Call, Inside, Run

\* A client calls a method through its own pointer and drops it outside only.
LEMMA PointersStep == WincpInv /\ LifeInv /\ [Next]_vars => PointersOfRoles'
<1> SUFFICES ASSUME WincpInv, LifeInv, [Next]_vars PROVE PointersOfRoles'
    OBVIOUS
<1> USE DEF WincpInv, Types, AfterSubmit, LifeInv, PointersOfRoles, LabelsOfRoles
<1>1. ASSUME NEW t \in Threads, NEW d \in Tasks, EnqueuePost(t, d) PROVE PointersOfRoles'
    BY <1>1 DEF EnqueuePost, PostAs, Caller
<1>2. ASSUME NEW t \in Threads, EnqueueUnmark(t) PROVE PointersOfRoles'
    BY <1>2 DEF EnqueueUnmark, StatusStep
<1>3. ASSUME NEW t \in Threads, SubmitWon(t) PROVE PointersOfRoles'
    BY <1>3 DEF SubmitWon, SubmitFrom
<1>4. ASSUME NEW t \in Threads, SubmitLost(t) PROVE PointersOfRoles'
    BY <1>4 DEF SubmitLost, StatusStep
<1>5. ASSUME NEW t \in Threads, ResubmitWon(t) PROVE PointersOfRoles'
    BY <1>5 DEF ResubmitWon, SubmitFrom
<1>6. ASSUME NEW t \in Threads, ResubmitLost(t) PROVE PointersOfRoles'
    BY <1>6 DEF ResubmitLost, StatusStep
<1>7. ASSUME NEW t \in Threads, Stop(t) PROVE PointersOfRoles'
    BY <1>7 DEF Stop, Deactivate
<1>8. ASSUME NEW t \in Threads, Start(t) PROVE PointersOfRoles'
    BY <1>8 DEF Start, StatusStep, Caller
<1>9. ASSUME NEW t \in Threads, ReleaseReset(t) PROVE PointersOfRoles'
    BY <1>9 DEF ReleaseReset, Caller
<1>10. ASSUME NEW t \in Threads, ReleaseMark(t) PROVE PointersOfRoles'
    BY <1>10 DEF ReleaseMark, StatusStep
<1>11. ASSUME NEW t \in Threads, ReleaseStart(t) PROVE PointersOfRoles'
    BY <1>11 DEF ReleaseStart, StatusStep
<1>12. ASSUME NEW t \in Threads, DropPointer(t) PROVE PointersOfRoles'
    BY <1>12 DEF DropPointer, Drop, Caller
<1>13. ASSUME NEW w \in Workers, RunPoll(w) PROVE PointersOfRoles'
  <2>1. Head(m_fifo).queue = TRUE
    BY <1>13, PortShrinks DEF RunPoll
  <2> QED
    BY <1>13, <2>1 DEF RunPoll, Poll
<1>14. ASSUME NEW w \in Workers, RunDrained(w) PROVE PointersOfRoles'
    BY <1>14 DEF RunDrained, Poll
<1>15. ASSUME NEW w \in Workers, RunCall(w) PROVE PointersOfRoles'
    BY <1>15 DEF RunCall
<1>16. ASSUME NEW w \in Workers, RunEmpty(w) PROVE PointersOfRoles'
    BY <1>16 DEF RunEmpty, DrainedTo, StatusStep
<1>17. ASSUME NEW w \in Workers, RunClear(w) PROVE PointersOfRoles'
    BY <1>17 DEF RunClear
<1>18. ASSUME NEW w \in Workers, RunUnbusy(w) PROVE PointersOfRoles'
    BY <1>18 DEF RunUnbusy, StatusStep
<1>19. ASSUME NEW w \in Workers, RunLeave(w) PROVE PointersOfRoles'
    BY <1>19 DEF RunLeave
<1>20. CASE UNCHANGED vars
    BY <1>20 DEF vars
<1> QED
    BY <1>1, <1>2, <1>3, <1>4, <1>5, <1>6, <1>7, <1>8, <1>9, <1>10, <1>11, <1>12,
       <1>13, <1>14, <1>15, <1>16, <1>17, <1>18, <1>19, <1>20
       DEF Next, Call, Inside, Run

\* The queue that create() returns is counted right.
LEMMA LifeInit == Init => LifeInv
<1> SUFFICES ASSUME Init PROVE LifeInv
    OBVIOUS
<1> USE DEF Init, InitQueue
<1>1. Holders = Clients
    BY DEF Holders
<1>2. Counted
  <2>1. useCount = 1 + Cardinality(Clients) /\ References(m_self) = 1 /\ Len(m_fifo) = 0
    BY DEF References
  <2>2. /\ IsFiniteSet(Holders) /\ Cardinality(Holders) = Cardinality(Clients)
        /\ Cardinality(Clients) \in Nat
    BY <1>1, FS_CardinalityType
  <2> QED
    BY <2>1, <2>2 DEF Counted
<1>3. PointersOfRoles
  <2>1. \A c \in Clients : holds[c]
    OBVIOUS
  <2>2. \A w \in Workers : ~holds[w] /\ pc[w] = "idle"
    OBVIOUS
  <2> QED
    BY <2>1, <2>2 DEF PointersOfRoles
<1>4. ContextsPoint
    BY DEF ContextsPoint
<1> QED
    BY <1>2, <1>3, <1>4 DEF LifeInv

\* A pointer is counted for whatever makes the queue used.
LEMMA LifeImplies == WincpInv /\ LifeInv => ExistsWhileUsed
<1> SUFFICES ASSUME WincpInv, LifeInv PROVE ExistsWhileUsed
    OBVIOUS
<1>0. /\ IsFiniteSet(Holders) /\ Cardinality(Holders) \in Nat /\ Len(m_fifo) \in Nat
      /\ References(m_self) \in Nat
      /\ useCount = References(m_self) + Len(m_fifo) + Cardinality(Holders)
    BY FS_CardinalityType DEF LifeInv, Counted, WincpInv, Types, References
<1>1. useCount \in Int /\ useCount >= Len(m_fifo) + Cardinality(Holders)
    BY <1>0
<1>2. m_fifo # <<>> => useCount > 0
  <2>1. m_fifo # <<>> => Len(m_fifo) > 0
    BY EmptySeq DEF WincpInv, Types
  <2>2. Len(m_fifo) > 0 => useCount > 0
    BY <1>0, <1>1
  <2> QED
    BY <2>1, <2>2
<1>3. (\E t \in Threads : holds[t]) => useCount > 0
  <2>1. (\E t \in Threads : holds[t]) => Holders # {}
    BY DEF Holders
  <2>2. Holders # {} => Cardinality(Holders) > 0
    BY <1>0, FS_EmptySet
  <2>3. Cardinality(Holders) > 0 => useCount > 0
    BY <1>0, <1>1
  <2> QED
    BY <2>1, <2>2, <2>3
<1>4. \A t \in Threads : pc[t] \notin {"idle", "outside", "drained"} => holds[t]
    BY DEF LifeInv, PointersOfRoles, WincpInv, LabelsOfRoles
<1>5. \A w \in Workers : executing[w] # NoTask => holds[w]
    BY DEF LifeInv, PointersOfRoles, WincpInv, LabelsOfRoles
<1>6. \A w \in Workers : pc[w] \in {"unbusy", "leave"} => holds[w]
    BY <1>4
<1> QED
    BY <1>2, <1>3, <1>4, <1>5, <1>6 DEF ExistsWhileUsed, InUse, Idle

(***************************************************************************)
(* The queue exists as long as a task waits or executes, a thread is       *)
(* inside one of its methods or owns a pointer to it, whoever releases it; *)
(* only a poll that finds nothing keeps no pointer (enqueue, release,      *)
(* run_next).                                                              *)
(***************************************************************************)
THEOREM ExistsForItsTasks == Spec => []ExistsWhileUsed
<1>1. WincpInv /\ LifeInv /\ [Next]_vars => LifeInv'
    BY PointersStep, CountStep DEF LifeInv
<1>2. Spec => []LifeInv
    BY InductiveWincp, LifeInit, <1>1, PTL DEF Spec
<1> QED
    BY InductiveWincp, <1>2, LifeImplies, PTL

=============================================================================
