------------------------- MODULE DequeRunQueue_proofs -------------------------
(***************************************************************************)
(* What holds of DequeRunQueue for every set of threads and tasks, and its *)
(* proof from one inductive invariant.                                     *)
(***************************************************************************)
EXTENDS DequeRunQueue, TaskSequences, FiniteSetTheorems

\* A worker executes a task exactly while it is in the task's function; a
\* label of run_next belongs to a worker, one of release to a client.
LabelsOfRoles ==
    /\ \A t \in Threads : pc[t] \in {"reset", "activate"} => t \in Clients
    /\ \A t \in Threads : pc[t] \in {"idle", "unbusy", "leave"} => t \in Workers
    /\ \A w \in Workers :
          /\ pc[w] = "outside" => executing[w] # NoTask
          /\ executing[w] # NoTask =>
                pc[w] \notin {"idle", "pop", "mark", "dispatch", "unbusy", "leave"}

\* The context that is being handed to the pool holds a task.
HandsOver(t) == pc[t] \in {"mark", "dispatch"}
RunningHoldsTask ==
    dispatched > 0 \/ (\E t \in Threads : HandsOver(t)) => m_running.task \in Tasks

MutexHeld ==
    \A t \in Threads : pc[t] \in {"unmark", "mark", "dispatch"} => m_mutex = t

\* EMPTY differs from the truth only inside the critical section that mends it.
EmptyBit ==
    /\ m_fifo = <<>> /\ "EMPTY" \notin m_status => \E t \in Threads : pc[t] = "mark"
    /\ m_fifo # <<>> /\ "EMPTY" \in m_status => \E t \in Threads : pc[t] = "unmark"
    /\ \A t \in Threads : pc[t] = "unmark" => m_fifo # <<>>

\* After a stop the one task on its way to the pool may still begin.
OnTheWay == dispatched > 0 \/ \E t \in Threads : pc[t] \in {"pop", "mark", "dispatch"}
StopCounts ==
    "ACTIVE" \notin m_status =>
        /\ Len(begun) <= mark.begun + 1
        /\ OnTheWay => Len(begun) <= mark.begun

Inv ==
    /\ TypeOK
    /\ LabelsOfRoles
    /\ SerialExecution
    /\ RunningHoldsTask
    /\ MutexHeld
    /\ EmptyBit
    /\ NeverPopsEmpty
    /\ NeverStranded
    /\ StopCounts

USE DEF Threads
-----------------------------------------------------------------------------
\* What m_fifo holds, first and last.
LEMMA FifoEnds ==
    TypeOK =>
        /\ m_fifo # <<>> => /\ Head(m_fifo) \in [task : Tasks, queue : BOOLEAN]
                            /\ Tail(m_fifo) \in Seq([task : Tasks, queue : BOOLEAN])
        /\ \A d \in Tasks, b \in BOOLEAN :
              Append(m_fifo, [task |-> d, queue |-> b]) # <<>>
<1> SUFFICES ASSUME TypeOK
             PROVE  /\ m_fifo # <<>> =>
                          /\ Head(m_fifo) \in [task : Tasks, queue : BOOLEAN]
                          /\ Tail(m_fifo) \in Seq([task : Tasks, queue : BOOLEAN])
                    /\ \A d \in Tasks, b \in BOOLEAN :
                          Append(m_fifo, [task |-> d, queue |-> b]) # <<>>
    OBVIOUS
<1> DEFINE S == [task : Tasks, queue : BOOLEAN]
<1>1. m_fifo \in Seq(S)
    BY DEF TypeOK
<1>2. \A d \in Tasks, b \in BOOLEAN : [task |-> d, queue |-> b] \in S
    OBVIOUS
<1> HIDE DEF S
<1>3. m_fifo # <<>> => Head(m_fifo) \in S /\ Tail(m_fifo) \in Seq(S)
    BY <1>1, HeadTailProperties
<1>4. \A x \in S : Append(m_fifo, x) # <<>>
    BY <1>1, AppendProperties
<1> QED
    BY <1>2, <1>3, <1>4 DEF S

\* The queue that create() returns satisfies the invariant.
LEMMA InitInv == Init => Inv
<1> SUFFICES ASSUME Init PROVE Inv
    OBVIOUS
<1>1. TypeOK
  <2>1. useCount \in Int
    BY FS_CardinalityType, RolesAssumption DEF Init, InitQueue
  <2>2. /\ m_fifo \in Seq([task : Tasks, queue : BOOLEAN])
        /\ posted \in Seq(Tasks) /\ begun \in Seq(Tasks)
    BY DEF Init, InitQueue
  <2>3. pc \in [Threads -> Labels]
    BY DEF Init, InitQueue, Labels
  <2>4. mark \in [posted : Nat, begun : Nat]
    BY DEF Init, InitQueue
  <2>5. m_status \in SUBSET Bits /\ m_mutex \in Threads \cup {Free} /\ m_running \in Context
    BY DEF Init, InitQueue, EMPTY_ACTIVE_NOT_BUSY, Bits, Context, ClearContext
  <2>6. /\ holds \in [Threads -> BOOLEAN]
        /\ executing \in [Workers -> Tasks \cup {NoTask}]
        /\ seen \in [Clients -> BOOLEAN]
        /\ deleted \in [Tasks -> Nat]
    BY DEF Init, InitQueue
  <2> QED
    BY <2>1, <2>2, <2>3, <2>4, <2>5, <2>6 DEF Init, InitQueue, TypeOK
<1>2. LabelsOfRoles
    BY RolesAssumption DEF Init, InitQueue, LabelsOfRoles
<1>3. \A t \in Threads : pc[t] \in {"idle", "outside"} /\ ~Owner(t)
  <2> SUFFICES ASSUME NEW t \in Threads PROVE pc[t] \in {"idle", "outside"} /\ ~Owner(t)
    OBVIOUS
  <2>1. pc[t] \in {"idle", "outside"}
    BY DEF Init, InitQueue
  <2>2. t \in Workers => executing[t] = NoTask
    BY DEF Init, InitQueue
  <2> QED
    BY <2>1, <2>2 DEF Owner
<1>4. SerialExecution
  <2>1. dispatched = 0 /\ "BUSY" \notin m_status
    BY DEF Init, InitQueue, EMPTY_ACTIVE_NOT_BUSY
  <2> QED
    BY <1>3, <2>1 DEF SerialExecution
<1>5. RunningHoldsTask /\ MutexHeld /\ NeverPopsEmpty
  <2>1. dispatched = 0
    BY DEF Init, InitQueue
  <2> QED
    BY <1>3, <2>1 DEF RunningHoldsTask, HandsOver, MutexHeld, NeverPopsEmpty
<1>6. EmptyBit /\ NeverStranded /\ StopCounts
    BY RolesAssumption DEF Init, InitQueue, EmptyBit, NeverStranded, StopCounts, EMPTY_ACTIVE_NOT_BUSY
<1> QED
    BY <1>1, <1>2, <1>3, <1>4, <1>5, <1>6 DEF Inv

\* No step leaves the types: what is executed and counted as begun is a task,
\* because m_running holds one whenever a worker may take it.
LEMMA TypeStep == Inv /\ [Next]_vars => TypeOK'
<1> SUFFICES ASSUME Inv, [Next]_vars PROVE TypeOK'
    OBVIOUS
<1> USE RolesAssumption, DequeAssumption
<1> USE DEF TypeOK, Bits, Labels, Context, ClearContext, References, Deletes,
           ghostVars, queueVars, AfterSubmit
<1>1. ASSUME NEW t \in Threads, NEW d \in Tasks, EnqueuePush(t, d) PROVE TypeOK'
    BY <1>1 DEF Inv, EnqueuePush, PushAs
<1>2. ASSUME NEW t \in Threads, EnqueueUnmark(t) PROVE TypeOK'
    BY <1>2 DEF Inv, EnqueueUnmark
<1>3. ASSUME NEW t \in Threads, SubmitWon(t) PROVE TypeOK'
    BY <1>3 DEF Inv, SubmitWon, SubmitFrom
<1>4. ASSUME NEW t \in Threads, SubmitLost(t) PROVE TypeOK'
    BY <1>4 DEF Inv, SubmitLost
<1>5. ASSUME NEW t \in Threads, PopFront(t) PROVE TypeOK'
  <2>1. /\ Head(m_fifo) \in [task : Tasks, queue : BOOLEAN]
        /\ Tail(m_fifo) \in Seq([task : Tasks, queue : BOOLEAN])
    BY <1>5, FifoEnds DEF Inv, PopFront
  <2>2. Deletes(Head(m_fifo).task) \in [Tasks -> Nat]
    BY <2>1 DEF Inv
  <2>3. useCount' \in Int /\ m_running' \in Context
    BY <1>5, <2>1 DEF Inv, PopFront
  <2>4. deleted' \in [Tasks -> Nat] /\ pc' \in [Threads -> Labels]
    BY <1>5, <2>2 DEF Inv, PopFront
  <2> QED
    BY <1>5, <2>1, <2>3, <2>4 DEF Inv, PopFront
<1>6. ASSUME NEW t \in Threads, MarkEmpty(t) PROVE TypeOK'
    BY <1>6 DEF Inv, MarkEmpty, MarkAs
<1>7. ASSUME NEW t \in Threads, Dispatch(t) PROVE TypeOK'
    BY <1>7 DEF Inv, Dispatch
<1>8. ASSUME NEW t \in Threads, Stop(t) PROVE TypeOK'
    BY <1>8 DEF Inv, Stop, Deactivate
<1>9. ASSUME NEW t \in Threads, Start(t) PROVE TypeOK'
    BY <1>9 DEF Inv, Start, Activate, ActivateThen
<1>10. ASSUME NEW t \in Threads, ReleaseRead(t) PROVE TypeOK'
    BY <1>10 DEF Inv, ReleaseRead
<1>11. ASSUME NEW t \in Threads, ReleaseReset(t) PROVE TypeOK'
  <2>1. t \in Clients
    BY <1>11 DEF Inv, ReleaseReset, LabelsOfRoles
  <2>2. useCount' \in Int
    BY <1>11, <2>1 DEF Inv, ReleaseReset
  <2>3. seen' \in [Clients -> BOOLEAN] /\ pc' \in [Threads -> Labels]
    BY <1>11, <2>1 DEF Inv, ReleaseReset
  <2> QED
    BY <1>11, <2>2, <2>3 DEF Inv, ReleaseReset
<1>12. ASSUME NEW t \in Threads, ReleaseStart(t) PROVE TypeOK'
    BY <1>12 DEF Inv, ReleaseStart, Activate, ActivateThen
<1>13. ASSUME NEW t \in Threads, DropPointer(t) PROVE TypeOK'
    BY <1>13 DEF Inv, DropPointer, Drop
<1>14. ASSUME NEW w \in Workers, RunBegin(w) PROVE TypeOK'
    BY <1>14 DEF Inv, RunBegin, RunningHoldsTask
<1>15. ASSUME NEW w \in Workers, RunClear(w) PROVE TypeOK'
    BY <1>15 DEF Inv, RunClear, ClearTo
<1>16. ASSUME NEW w \in Workers, RunUnbusy(w) PROVE TypeOK'
    BY <1>16 DEF Inv, RunUnbusy, UnbusyThen
<1>17. ASSUME NEW w \in Workers, RunLeave(w) PROVE TypeOK'
    BY <1>17 DEF Inv, RunLeave
<1>18. CASE UNCHANGED vars
    BY <1>18 DEF Inv, vars
<1> QED
    BY <1>1, <1>2, <1>3, <1>4, <1>5, <1>6, <1>7, <1>8, <1>9, <1>10, <1>11,
       <1>12, <1>13, <1>14, <1>15, <1>16, <1>17, <1>18
       DEF Next, Call, Inside, Run, Terminated
\* A worker that executes a task never wins the compare-exchange, whatever its
\* function enqueues or starts: the queue is busy with that very task.
LEMMA LabelsStep == Inv /\ [Next]_vars => LabelsOfRoles'
<1> SUFFICES ASSUME Inv, [Next]_vars PROVE LabelsOfRoles'
    OBVIOUS
<1> USE RolesAssumption, DequeAssumption DEF Inv, TypeOK, Labels, AfterSubmit,
           ghostVars, queueVars, LabelsOfRoles, RunningHoldsTask
<1>1. ASSUME NEW t \in Threads, NEW d \in Tasks, EnqueuePush(t, d)
      PROVE  LabelsOfRoles'
    BY <1>1 DEF EnqueuePush, PushAs, Caller
<1>2. ASSUME NEW t \in Threads, EnqueueUnmark(t) PROVE LabelsOfRoles'
    BY <1>2 DEF EnqueueUnmark
<1>3. ASSUME NEW t \in Threads, SubmitWon(t) PROVE LabelsOfRoles'
  <2>1. t \in Workers => executing[t] = NoTask
    BY <1>3 DEF SubmitWon, SubmitFrom, SerialExecution, Owner,
                NOT_EMPTY_ACTIVE_NOT_BUSY
  <2> QED
    BY <1>3, <2>1 DEF SubmitWon, SubmitFrom
<1>4. ASSUME NEW t \in Threads, SubmitLost(t) PROVE LabelsOfRoles'
    BY <1>4 DEF SubmitLost
<1>5. ASSUME NEW t \in Threads, PopFront(t) PROVE LabelsOfRoles'
    BY <1>5 DEF PopFront
<1>6. ASSUME NEW t \in Threads, MarkEmpty(t) PROVE LabelsOfRoles'
    BY <1>6 DEF MarkEmpty, MarkAs
<1>7. ASSUME NEW t \in Threads, Dispatch(t) PROVE LabelsOfRoles'
    BY <1>7 DEF Dispatch
<1>8. ASSUME NEW t \in Threads, Stop(t) PROVE LabelsOfRoles'
    BY <1>8 DEF Stop, Deactivate, Caller
<1>9. ASSUME NEW t \in Threads, Start(t) PROVE LabelsOfRoles'
    BY <1>9 DEF Start, Activate, ActivateThen, Caller
<1>10. ASSUME NEW t \in Threads, ReleaseRead(t) PROVE LabelsOfRoles'
    BY <1>10 DEF ReleaseRead, Caller
<1>11. ASSUME NEW t \in Threads, ReleaseReset(t) PROVE LabelsOfRoles'
    BY <1>11 DEF ReleaseReset
<1>12. ASSUME NEW t \in Threads, ReleaseStart(t) PROVE LabelsOfRoles'
    BY <1>12 DEF ReleaseStart, Activate, ActivateThen
<1>13. ASSUME NEW t \in Threads, DropPointer(t) PROVE LabelsOfRoles'
    BY <1>13 DEF DropPointer, Drop
<1>14. ASSUME NEW w \in Workers, RunBegin(w) PROVE LabelsOfRoles'
    BY <1>14 DEF RunBegin
<1>15. ASSUME NEW w \in Workers, RunClear(w) PROVE LabelsOfRoles'
    BY <1>15 DEF RunClear, ClearTo
<1>16. ASSUME NEW w \in Workers, RunUnbusy(w) PROVE LabelsOfRoles'
    BY <1>16 DEF RunUnbusy, UnbusyThen
<1>17. ASSUME NEW w \in Workers, RunLeave(w) PROVE LabelsOfRoles'
    BY <1>17 DEF RunLeave
<1>18. CASE UNCHANGED vars
    BY <1>18 DEF vars, queueVars
<1> QED
    BY <1>1, <1>2, <1>3, <1>4, <1>5, <1>6, <1>7, <1>8, <1>9, <1>10, <1>11,
       <1>12, <1>13, <1>14, <1>15, <1>16, <1>17, <1>18
       DEF Next, Call, Inside, Run, Terminated

\* BUSY passes from the winner of the compare-exchange to the submission, to the
\* worker that takes it, and is cleared by that worker: one owner at each point.
LEMMA SerialStep == Inv /\ [Next]_vars => SerialExecution' /\ RunningHoldsTask'
<1> SUFFICES ASSUME Inv, [Next]_vars PROVE SerialExecution' /\ RunningHoldsTask'
    OBVIOUS
<1> USE RolesAssumption, DequeAssumption DEF Inv, TypeOK, Labels, AfterSubmit,
           ghostVars, queueVars, LabelsOfRoles,
           SerialExecution, RunningHoldsTask, Owner, HandsOver,
           NOT_EMPTY_ACTIVE_NOT_BUSY, ClearContext
<1>1. ASSUME NEW t \in Threads, NEW d \in Tasks, EnqueuePush(t, d)
      PROVE  SerialExecution' /\ RunningHoldsTask'
    BY <1>1 DEF EnqueuePush, PushAs, Caller
<1>2. ASSUME NEW t \in Threads, EnqueueUnmark(t) PROVE SerialExecution' /\ RunningHoldsTask'
    BY <1>2 DEF EnqueueUnmark
<1>3. ASSUME NEW t \in Threads, SubmitWon(t) PROVE SerialExecution' /\ RunningHoldsTask'
    BY <1>3 DEF SubmitWon, SubmitFrom
<1>4. ASSUME NEW t \in Threads, SubmitLost(t) PROVE SerialExecution' /\ RunningHoldsTask'
    BY <1>4 DEF SubmitLost
<1>5. ASSUME NEW t \in Threads, PopFront(t) PROVE SerialExecution' /\ RunningHoldsTask'
  <2>1. m_running'.task \in Tasks
    BY <1>5, FifoEnds DEF PopFront
  <2>2. dispatched = 0 /\ \A u \in Threads : Owner(u) => u = t
    BY <1>5 DEF PopFront
  <2>3. SerialExecution'
    BY <1>5, <2>2 DEF PopFront
  <2> QED
    BY <2>1, <2>3
<1>6. ASSUME NEW t \in Threads, MarkEmpty(t) PROVE SerialExecution' /\ RunningHoldsTask'
    BY <1>6 DEF MarkEmpty, MarkAs
<1>7. ASSUME NEW t \in Threads, Dispatch(t) PROVE SerialExecution' /\ RunningHoldsTask'
    BY <1>7 DEF Dispatch
<1>8. ASSUME NEW t \in Threads, Stop(t) PROVE SerialExecution' /\ RunningHoldsTask'
    BY <1>8 DEF Stop, Deactivate, Caller
<1>9. ASSUME NEW t \in Threads, Start(t) PROVE SerialExecution' /\ RunningHoldsTask'
    BY <1>9 DEF Start, Activate, ActivateThen, Caller
<1>10. ASSUME NEW t \in Threads, ReleaseRead(t) PROVE SerialExecution' /\ RunningHoldsTask'
    BY <1>10 DEF ReleaseRead, Caller
<1>11. ASSUME NEW t \in Threads, ReleaseReset(t) PROVE SerialExecution' /\ RunningHoldsTask'
    BY <1>11 DEF ReleaseReset
<1>12. ASSUME NEW t \in Threads, ReleaseStart(t) PROVE SerialExecution' /\ RunningHoldsTask'
    BY <1>12 DEF ReleaseStart, Activate, ActivateThen
<1>13. ASSUME NEW t \in Threads, DropPointer(t) PROVE SerialExecution' /\ RunningHoldsTask'
    BY <1>13 DEF DropPointer, Drop
<1>14. ASSUME NEW w \in Workers, RunBegin(w) PROVE SerialExecution' /\ RunningHoldsTask'
    BY <1>14 DEF RunBegin
<1>15. ASSUME NEW w \in Workers, RunClear(w) PROVE SerialExecution' /\ RunningHoldsTask'
    BY <1>15 DEF RunClear, ClearTo
<1>16. ASSUME NEW w \in Workers, RunUnbusy(w) PROVE SerialExecution' /\ RunningHoldsTask'
    BY <1>16 DEF RunUnbusy, UnbusyThen
<1>17. ASSUME NEW w \in Workers, RunLeave(w) PROVE SerialExecution' /\ RunningHoldsTask'
    BY <1>17 DEF RunLeave
<1>18. CASE UNCHANGED vars
    BY <1>18 DEF vars, queueVars
<1> QED
    BY <1>1, <1>2, <1>3, <1>4, <1>5, <1>6, <1>7, <1>8, <1>9, <1>10, <1>11,
       <1>12, <1>13, <1>14, <1>15, <1>16, <1>17, <1>18
       DEF Next, Call, Inside, Run, Terminated

\* The EMPTY bit is mended inside the critical section that changed the deque, so
\* that who wins the compare-exchange finds something to pop.
LEMMA EmptyStep == Inv /\ [Next]_vars => MutexHeld' /\ EmptyBit' /\ NeverPopsEmpty'
<1> SUFFICES ASSUME Inv, [Next]_vars PROVE MutexHeld' /\ EmptyBit' /\ NeverPopsEmpty'
    OBVIOUS
<1> USE RolesAssumption, DequeAssumption DEF Inv, TypeOK, Labels, AfterSubmit,
           ghostVars, queueVars, LabelsOfRoles,
           MutexHeld, EmptyBit, NeverPopsEmpty, SerialExecution, Owner,
           NOT_EMPTY_ACTIVE_NOT_BUSY
<1>1. ASSUME NEW t \in Threads, NEW d \in Tasks, EnqueuePush(t, d)
      PROVE  MutexHeld' /\ EmptyBit' /\ NeverPopsEmpty'
  <2>1. m_fifo' # <<>>
    BY <1>1, FifoEnds DEF EnqueuePush, PushAs
  <2> QED
    BY <1>1, <2>1 DEF EnqueuePush, PushAs, Caller
<1>2. ASSUME NEW t \in Threads, EnqueueUnmark(t) PROVE MutexHeld' /\ EmptyBit' /\ NeverPopsEmpty'
    BY <1>2 DEF EnqueueUnmark
<1>3. ASSUME NEW t \in Threads, SubmitWon(t) PROVE MutexHeld' /\ EmptyBit' /\ NeverPopsEmpty'
    BY <1>3 DEF SubmitWon, SubmitFrom
<1>4. ASSUME NEW t \in Threads, SubmitLost(t) PROVE MutexHeld' /\ EmptyBit' /\ NeverPopsEmpty'
    BY <1>4 DEF SubmitLost
<1>5. ASSUME NEW t \in Threads, PopFront(t) PROVE MutexHeld' /\ EmptyBit' /\ NeverPopsEmpty'
    BY <1>5 DEF PopFront
<1>6. ASSUME NEW t \in Threads, MarkEmpty(t) PROVE MutexHeld' /\ EmptyBit' /\ NeverPopsEmpty'
    BY <1>6 DEF MarkEmpty, MarkAs
<1>7. ASSUME NEW t \in Threads, Dispatch(t) PROVE MutexHeld' /\ EmptyBit' /\ NeverPopsEmpty'
    BY <1>7 DEF Dispatch
<1>8. ASSUME NEW t \in Threads, Stop(t) PROVE MutexHeld' /\ EmptyBit' /\ NeverPopsEmpty'
    BY <1>8 DEF Stop, Deactivate, Caller
<1>9. ASSUME NEW t \in Threads, Start(t) PROVE MutexHeld' /\ EmptyBit' /\ NeverPopsEmpty'
    BY <1>9 DEF Start, Activate, ActivateThen, Caller
<1>10. ASSUME NEW t \in Threads, ReleaseRead(t) PROVE MutexHeld' /\ EmptyBit' /\ NeverPopsEmpty'
    BY <1>10 DEF ReleaseRead, Caller
<1>11. ASSUME NEW t \in Threads, ReleaseReset(t) PROVE MutexHeld' /\ EmptyBit' /\ NeverPopsEmpty'
    BY <1>11 DEF ReleaseReset
<1>12. ASSUME NEW t \in Threads, ReleaseStart(t) PROVE MutexHeld' /\ EmptyBit' /\ NeverPopsEmpty'
    BY <1>12 DEF ReleaseStart, Activate, ActivateThen
<1>13. ASSUME NEW t \in Threads, DropPointer(t) PROVE MutexHeld' /\ EmptyBit' /\ NeverPopsEmpty'
    BY <1>13 DEF DropPointer, Drop
<1>14. ASSUME NEW w \in Workers, RunBegin(w) PROVE MutexHeld' /\ EmptyBit' /\ NeverPopsEmpty'
    BY <1>14 DEF RunBegin
<1>15. ASSUME NEW w \in Workers, RunClear(w) PROVE MutexHeld' /\ EmptyBit' /\ NeverPopsEmpty'
    BY <1>15 DEF RunClear, ClearTo
<1>16. ASSUME NEW w \in Workers, RunUnbusy(w) PROVE MutexHeld' /\ EmptyBit' /\ NeverPopsEmpty'
    BY <1>16 DEF RunUnbusy, UnbusyThen
<1>17. ASSUME NEW w \in Workers, RunLeave(w) PROVE MutexHeld' /\ EmptyBit' /\ NeverPopsEmpty'
    BY <1>17 DEF RunLeave
<1>18. CASE UNCHANGED vars
    BY <1>18 DEF vars, queueVars
<1> QED
    BY <1>1, <1>2, <1>3, <1>4, <1>5, <1>6, <1>7, <1>8, <1>9, <1>10, <1>11,
       <1>12, <1>13, <1>14, <1>15, <1>16, <1>17, <1>18
       DEF Next, Call, Inside, Run, Terminated

\* A thread that loses the compare-exchange of a queue which is active, not busy
\* and not empty has read EMPTY, and the enqueue that will clear it comes after.
LEMMA StrandedStep == Inv /\ [Next]_vars => NeverStranded'
<1> SUFFICES ASSUME Inv, [Next]_vars PROVE NeverStranded'
    OBVIOUS
<1> USE RolesAssumption, DequeAssumption DEF Inv, TypeOK, Labels, AfterSubmit,
           ghostVars, queueVars,
           MutexHeld, EmptyBit, NeverStranded, SerialExecution, Owner,
           NOT_EMPTY_ACTIVE_NOT_BUSY
<1>1. ASSUME NEW t \in Threads, NEW d \in Tasks, EnqueuePush(t, d)
      PROVE  NeverStranded'
    BY <1>1 DEF EnqueuePush, PushAs, Caller
<1>2. ASSUME NEW t \in Threads, EnqueueUnmark(t) PROVE NeverStranded'
    BY <1>2 DEF EnqueueUnmark
<1>3. ASSUME NEW t \in Threads, SubmitWon(t) PROVE NeverStranded'
    BY <1>3 DEF SubmitWon, SubmitFrom
<1>4. ASSUME NEW t \in Threads, SubmitLost(t) PROVE NeverStranded'
  <2> SUFFICES ASSUME m_fifo # <<>>, "ACTIVE" \in m_status, "BUSY" \notin m_status
               PROVE  \E u \in Threads : pc'[u] \in {"unmark", "submit"}
    BY <1>4 DEF SubmitLost
  <2>1. "EMPTY" \in m_status
    BY <1>4 DEF SubmitLost, Bits
  <2>2. PICK u \in Threads : pc[u] = "unmark"
    BY <2>1
  <2> QED
    BY <1>4, <2>2 DEF SubmitLost
<1>5. ASSUME NEW t \in Threads, PopFront(t) PROVE NeverStranded'
    BY <1>5 DEF PopFront
<1>6. ASSUME NEW t \in Threads, MarkEmpty(t) PROVE NeverStranded'
    BY <1>6 DEF MarkEmpty, MarkAs
<1>7. ASSUME NEW t \in Threads, Dispatch(t) PROVE NeverStranded'
    BY <1>7 DEF Dispatch
<1>8. ASSUME NEW t \in Threads, Stop(t) PROVE NeverStranded'
    BY <1>8 DEF Stop, Deactivate, Caller
<1>9. ASSUME NEW t \in Threads, Start(t) PROVE NeverStranded'
    BY <1>9 DEF Start, Activate, ActivateThen, Caller
<1>10. ASSUME NEW t \in Threads, ReleaseRead(t) PROVE NeverStranded'
    BY <1>10 DEF ReleaseRead, Caller
<1>11. ASSUME NEW t \in Threads, ReleaseReset(t) PROVE NeverStranded'
    BY <1>11 DEF ReleaseReset
<1>12. ASSUME NEW t \in Threads, ReleaseStart(t) PROVE NeverStranded'
    BY <1>12 DEF ReleaseStart, Activate, ActivateThen
<1>13. ASSUME NEW t \in Threads, DropPointer(t) PROVE NeverStranded'
    BY <1>13 DEF DropPointer, Drop
<1>14. ASSUME NEW w \in Workers, RunBegin(w) PROVE NeverStranded'
    BY <1>14 DEF RunBegin
<1>15. ASSUME NEW w \in Workers, RunClear(w) PROVE NeverStranded'
    BY <1>15 DEF RunClear, ClearTo
<1>16. ASSUME NEW w \in Workers, RunUnbusy(w) PROVE NeverStranded'
    BY <1>16 DEF RunUnbusy, UnbusyThen
<1>17. ASSUME NEW w \in Workers, RunLeave(w) PROVE NeverStranded'
    BY <1>17 DEF RunLeave
<1>18. CASE UNCHANGED vars
    BY <1>18 DEF vars, queueVars
<1> QED
    BY <1>1, <1>2, <1>3, <1>4, <1>5, <1>6, <1>7, <1>8, <1>9, <1>10, <1>11,
       <1>12, <1>13, <1>14, <1>15, <1>16, <1>17, <1>18
       DEF Next, Call, Inside, Run, Terminated

\* The winner of the compare-exchange saw the queue active, and one of them at a
\* time is on its way: after a stop no other follows.
LEMMA StopStep == Inv /\ [Next]_vars => StopCounts'
<1> SUFFICES ASSUME Inv, [Next]_vars PROVE StopCounts'
    OBVIOUS
<1> USE RolesAssumption, DequeAssumption DEF Inv, TypeOK, Labels, AfterSubmit,
           ghostVars, queueVars, LabelsOfRoles,
           StopCounts, OnTheWay, SerialExecution, Owner,
           NOT_EMPTY_ACTIVE_NOT_BUSY
<1>1. ASSUME NEW t \in Threads, NEW d \in Tasks, EnqueuePush(t, d)
      PROVE  StopCounts'
    BY <1>1 DEF EnqueuePush, PushAs, Caller
<1>2. ASSUME NEW t \in Threads, EnqueueUnmark(t) PROVE StopCounts'
    BY <1>2 DEF EnqueueUnmark
<1>3. ASSUME NEW t \in Threads, SubmitWon(t) PROVE StopCounts'
    BY <1>3 DEF SubmitWon, SubmitFrom
<1>4. ASSUME NEW t \in Threads, SubmitLost(t) PROVE StopCounts'
    BY <1>4 DEF SubmitLost
<1>5. ASSUME NEW t \in Threads, PopFront(t) PROVE StopCounts'
    BY <1>5 DEF PopFront
<1>6. ASSUME NEW t \in Threads, MarkEmpty(t) PROVE StopCounts'
    BY <1>6 DEF MarkEmpty, MarkAs
<1>7. ASSUME NEW t \in Threads, Dispatch(t) PROVE StopCounts'
    BY <1>7 DEF Dispatch
<1>8. ASSUME NEW t \in Threads, Stop(t) PROVE StopCounts'
    BY <1>8 DEF Stop, Deactivate, Caller
<1>9. ASSUME NEW t \in Threads, Start(t) PROVE StopCounts'
    BY <1>9 DEF Start, Activate, ActivateThen, Caller
<1>10. ASSUME NEW t \in Threads, ReleaseRead(t) PROVE StopCounts'
    BY <1>10 DEF ReleaseRead, Caller
<1>11. ASSUME NEW t \in Threads, ReleaseReset(t) PROVE StopCounts'
    BY <1>11 DEF ReleaseReset
<1>12. ASSUME NEW t \in Threads, ReleaseStart(t) PROVE StopCounts'
    BY <1>12 DEF ReleaseStart, Activate, ActivateThen
<1>13. ASSUME NEW t \in Threads, DropPointer(t) PROVE StopCounts'
    BY <1>13 DEF DropPointer, Drop
<1>14. ASSUME NEW w \in Workers, RunBegin(w) PROVE StopCounts'
    BY <1>14 DEF RunBegin
<1>15. ASSUME NEW w \in Workers, RunClear(w) PROVE StopCounts'
    BY <1>15 DEF RunClear, ClearTo
<1>16. ASSUME NEW w \in Workers, RunUnbusy(w) PROVE StopCounts'
    BY <1>16 DEF RunUnbusy, UnbusyThen
<1>17. ASSUME NEW w \in Workers, RunLeave(w) PROVE StopCounts'
    BY <1>17 DEF RunLeave
<1>18. CASE UNCHANGED vars
    BY <1>18 DEF vars, queueVars
<1> QED
    BY <1>1, <1>2, <1>3, <1>4, <1>5, <1>6, <1>7, <1>8, <1>9, <1>10, <1>11,
       <1>12, <1>13, <1>14, <1>15, <1>16, <1>17, <1>18
       DEF Next, Call, Inside, Run, Terminated

\* The invariant is inductive, hence true of every reachable state.
THEOREM InvHolds == Spec => []Inv
<1>1. Inv /\ [Next]_vars => Inv'
    BY TypeStep, LabelsStep, SerialStep, EmptyStep, StrandedStep, StopStep DEF Inv
<1> QED
    BY InitInv, <1>1, PTL DEF Spec
-----------------------------------------------------------------------------
(* The order of execution.                                                  *)

\* What InOrder concatenates are sequences of tasks.
LEMMA OrderTypes == Inv => HandedOver \in Seq(Tasks) /\ Waiting \in Seq(Tasks)
<1> SUFFICES ASSUME Inv PROVE HandedOver \in Seq(Tasks) /\ Waiting \in Seq(Tasks)
    OBVIOUS
<1>1. HandedOver \in Seq(Tasks)
    BY DEF Inv, HandedOver, RunningHoldsTask, HandsOver
<1>2. Waiting \in Seq(Tasks)
    BY TasksOfContexts DEF Inv, TypeOK, Waiting
<1> QED
    BY <1>1, <1>2

\* Only three steps change what InOrder speaks of.
LEMMA OrderKept ==
    Inv /\ InOrder /\ UNCHANGED <<posted, begun, m_fifo>> /\ HandedOver' = HandedOver
        => InOrder'
    BY DEF InOrder, Waiting

\* Enqueuing appends to both sides; popping and beginning only move the cut.
LEMMA OrderStep == Inv /\ InOrder /\ [Next]_vars => InOrder'
<1> SUFFICES ASSUME Inv, InOrder, [Next]_vars PROVE InOrder'
    OBVIOUS
<1> USE RolesAssumption DEF Threads
<1>0. /\ begun \in Seq(Tasks) /\ posted \in Seq(Tasks)
      /\ HandedOver \in Seq(Tasks) /\ Waiting \in Seq(Tasks)
    BY OrderTypes DEF Inv, TypeOK
<1>1. ASSUME NEW t \in Threads, NEW d \in Tasks, EnqueuePush(t, d) PROVE InOrder'
  <2>1. Waiting' = Append(Waiting, d)
    BY <1>1, TasksOfAppend DEF EnqueuePush, PushAs, Waiting, Inv, TypeOK
  <2>2. HandedOver' = HandedOver
    BY <1>1 DEF EnqueuePush, PushAs, Caller, HandedOver, Inv, TypeOK
  <2>3. posted' = Append(posted, d) /\ begun' = begun
    BY <1>1 DEF EnqueuePush, PushAs
  <2>4. (begun \o HandedOver) \o Append(Waiting, d)
          = Append((begun \o HandedOver) \o Waiting, d)
    BY <1>0, Recut
  <2> QED
    BY <2>1, <2>2, <2>3, <2>4 DEF InOrder
<1>2. ASSUME NEW t \in Threads, PopFront(t) PROVE InOrder'
  <2>1. m_fifo # <<>> /\ m_running' = Head(m_fifo) /\ m_fifo' = Tail(m_fifo)
    BY <1>2 DEF PopFront
  <2>2. Waiting # <<>> /\ Head(Waiting) = Head(m_fifo).task /\ Waiting' = Tail(Waiting)
    BY <2>1, TasksOfTail DEF Waiting, Inv, TypeOK
  <2>3. HandedOver = <<>>
    BY <1>2 DEF PopFront, HandedOver, Inv, TypeOK, SerialExecution, Owner
  <2>4. HandedOver' = <<Head(Waiting)>>
    BY <1>2, <2>1, <2>2 DEF PopFront, HandedOver, Inv, TypeOK
  <2>5. posted' = posted /\ begun' = begun
    BY <1>2 DEF PopFront
  <2> QED
    BY <1>0, <2>2, <2>3, <2>4, <2>5, Recut DEF InOrder
<1>3. ASSUME NEW w \in Workers, RunBegin(w) PROVE InOrder'
  <2>1. HandedOver = <<m_running.task>> /\ m_running.task \in Tasks
    BY <1>3 DEF RunBegin, HandedOver, Inv, TypeOK, RunningHoldsTask
  <2>2. dispatched' = 0 /\ \A t \in Threads : pc'[t] \notin {"mark", "dispatch"}
    BY <1>3 DEF RunBegin, Inv, TypeOK, SerialExecution, Owner
  <2>3. HandedOver' = <<>>
    BY <2>2 DEF HandedOver
  <2>4. begun' = Append(begun, m_running.task) /\ posted' = posted /\ Waiting' = Waiting
    BY <1>3 DEF RunBegin, Waiting
  <2>5. begun' \in Seq(Tasks)
    BY <1>0, <2>1, <2>4
  <2>6. (begun' \o <<>>) \o Waiting = begun' \o Waiting
    BY <1>0, <2>5, Recut
  <2>7. (begun \o <<m_running.task>>) \o Waiting = begun' \o Waiting
    BY <1>0, <2>1, <2>4, Recut
  <2> QED
    BY <2>1, <2>3, <2>4, <2>6, <2>7 DEF InOrder
<1>4. ASSUME NEW w \in Workers, RunClear(w) PROVE InOrder'
  <2>1. Owner(w) /\ pc[w] = "outside"
    BY <1>4 DEF RunClear, ClearTo, Owner, Inv, LabelsOfRoles
  <2>2. dispatched = 0 /\ \A t \in Threads : pc[t] \notin {"mark", "dispatch"}
    BY <2>1 DEF Inv, TypeOK, SerialExecution, Owner
  <2>3. HandedOver = <<>> /\ HandedOver' = <<>>
    BY <1>4, <2>2 DEF RunClear, ClearTo, HandedOver, Inv, TypeOK
  <2> QED
    BY <1>4, <2>3, OrderKept DEF RunClear, ClearTo
<1> USE DEF Inv, TypeOK, HandedOver, AfterSubmit, queueVars, ghostVars
<1>5. ASSUME NEW t \in Threads, EnqueueUnmark(t) PROVE InOrder'
    BY <1>5, OrderKept DEF EnqueueUnmark
<1>6. ASSUME NEW t \in Threads, SubmitWon(t) PROVE InOrder'
    BY <1>6, OrderKept DEF SubmitWon, SubmitFrom
<1>7. ASSUME NEW t \in Threads, SubmitLost(t) PROVE InOrder'
    BY <1>7, OrderKept DEF SubmitLost
<1>8. ASSUME NEW t \in Threads, MarkEmpty(t) PROVE InOrder'
    BY <1>8, OrderKept DEF MarkEmpty, MarkAs
<1>9. ASSUME NEW t \in Threads, Dispatch(t) PROVE InOrder'
    BY <1>9, OrderKept DEF Dispatch
<1>10. ASSUME NEW t \in Threads, Stop(t) PROVE InOrder'
    BY <1>10, OrderKept DEF Stop, Deactivate, Caller
<1>11. ASSUME NEW t \in Threads, Start(t) PROVE InOrder'
    BY <1>11, OrderKept DEF Start, Activate, ActivateThen, Caller
<1>12. ASSUME NEW t \in Threads, ReleaseRead(t) PROVE InOrder'
    BY <1>12, OrderKept DEF ReleaseRead, Caller
<1>13. ASSUME NEW t \in Threads, ReleaseReset(t) PROVE InOrder'
    BY <1>13, OrderKept DEF ReleaseReset
<1>14. ASSUME NEW t \in Threads, ReleaseStart(t) PROVE InOrder'
    BY <1>14, OrderKept DEF ReleaseStart, Activate, ActivateThen
<1>15. ASSUME NEW t \in Threads, DropPointer(t) PROVE InOrder'
    BY <1>15, OrderKept DEF DropPointer, Drop
<1>16. ASSUME NEW w \in Workers, RunUnbusy(w) PROVE InOrder'
    BY <1>16, OrderKept DEF RunUnbusy, UnbusyThen
<1>17. ASSUME NEW w \in Workers, RunLeave(w) PROVE InOrder'
    BY <1>17, OrderKept DEF RunLeave
<1>18. CASE UNCHANGED vars
    BY <1>18, OrderKept DEF vars
<1> QED
    BY <1>1, <1>2, <1>3, <1>4, <1>5, <1>6, <1>7, <1>8, <1>9, <1>10, <1>11,
       <1>12, <1>13, <1>14, <1>15, <1>16, <1>17, <1>18
       DEF Next, Call, Inside, Run, Terminated

-----------------------------------------------------------------------------
(* What a stop lets begin, counted against what was posted before it.       *)

WaitCounts ==
    "ACTIVE" \notin m_status =>
        /\ Len(begun) <= mark.posted
        /\ OnTheWay => Len(begun) < mark.posted

\* A task on its way to the pool was posted and has not begun.
LEMMA OnTheWayCounts ==
    Inv /\ InOrder => /\ Len(begun) <= Len(posted)
                      /\ OnTheWay => Len(begun) < Len(posted)
<1> SUFFICES ASSUME Inv, InOrder
             PROVE  /\ Len(begun) <= Len(posted)
                    /\ OnTheWay => Len(begun) < Len(posted)
    OBVIOUS
<1>1. begun \in Seq(Tasks) /\ HandedOver \in Seq(Tasks) /\ Waiting \in Seq(Tasks)
    BY OrderTypes DEF Inv, TypeOK
<1>2. Len(posted) = Len(begun) + Len(HandedOver) + Len(Waiting)
  <2>1. begun \o HandedOver \in Seq(Tasks)
    BY <1>1, ConcatProperties
  <2> QED
    BY <1>1, <2>1, ConcatProperties DEF InOrder
<1>3. Len(begun) \in Nat /\ Len(HandedOver) \in Nat /\ Len(Waiting) \in Nat
    BY <1>1
<1>4. CASE \E t \in Threads : pc[t] = "pop"
  <2>1. Waiting # <<>>
    BY <1>4, TasksOfTail DEF Inv, TypeOK, NeverPopsEmpty, Waiting
  <2>2. Len(Waiting) > 0
    BY <1>1, <2>1, EmptySeq
  <2> QED
    BY <1>2, <1>3, <2>2
<1>5. CASE ~\E t \in Threads : pc[t] = "pop"
  <2>1. OnTheWay => Len(HandedOver) = 1
    BY <1>5 DEF OnTheWay, HandedOver
  <2> QED
    BY <1>2, <1>3, <2>1
<1> QED
    BY <1>4, <1>5

\* After a stop the number of begun tasks stays within what was posted before.
LEMMA WaitStep == Inv /\ InOrder /\ WaitCounts /\ [Next]_vars => WaitCounts'
<1> SUFFICES ASSUME Inv, InOrder, WaitCounts, [Next]_vars PROVE WaitCounts'
    OBVIOUS
<1>1. /\ Len(begun) <= Len(posted)
      /\ OnTheWay => Len(begun) < Len(posted)
    BY OnTheWayCounts
<1> USE RolesAssumption DEF Threads, Inv, TypeOK, Labels, AfterSubmit, ghostVars, queueVars,
           WaitCounts, OnTheWay, SerialExecution, Owner, NOT_EMPTY_ACTIVE_NOT_BUSY
<1>2. ASSUME NEW t \in Threads, NEW d \in Tasks, EnqueuePush(t, d) PROVE WaitCounts'
    BY <1>2 DEF EnqueuePush, PushAs, Caller
<1>3. ASSUME NEW t \in Threads, EnqueueUnmark(t) PROVE WaitCounts'
    BY <1>1, <1>3 DEF EnqueueUnmark
<1>4. ASSUME NEW t \in Threads, SubmitWon(t) PROVE WaitCounts'
    BY <1>1, <1>4 DEF SubmitWon, SubmitFrom
<1>5. ASSUME NEW t \in Threads, SubmitLost(t) PROVE WaitCounts'
    BY <1>1, <1>5 DEF SubmitLost
<1>6. ASSUME NEW t \in Threads, PopFront(t) PROVE WaitCounts'
    BY <1>1, <1>6 DEF PopFront
<1>7. ASSUME NEW t \in Threads, MarkEmpty(t) PROVE WaitCounts'
    BY <1>1, <1>7 DEF MarkEmpty, MarkAs
<1>8. ASSUME NEW t \in Threads, Dispatch(t) PROVE WaitCounts'
    BY <1>1, <1>8 DEF Dispatch
<1>9. ASSUME NEW t \in Threads, Stop(t) PROVE WaitCounts'
    BY <1>1, <1>9 DEF Stop, Deactivate, Caller
<1>10. ASSUME NEW t \in Threads, Start(t) PROVE WaitCounts'
    BY <1>1, <1>10 DEF Start, Activate, ActivateThen, Caller
<1>11. ASSUME NEW t \in Threads, ReleaseRead(t) PROVE WaitCounts'
    BY <1>1, <1>11 DEF ReleaseRead, Caller
<1>12. ASSUME NEW t \in Threads, ReleaseReset(t) PROVE WaitCounts'
    BY <1>1, <1>12 DEF ReleaseReset
<1>13. ASSUME NEW t \in Threads, ReleaseStart(t) PROVE WaitCounts'
    BY <1>1, <1>13 DEF ReleaseStart, Activate, ActivateThen
<1>14. ASSUME NEW t \in Threads, DropPointer(t) PROVE WaitCounts'
    BY <1>1, <1>14 DEF DropPointer, Drop
<1>15. ASSUME NEW w \in Workers, RunBegin(w) PROVE WaitCounts'
    BY <1>1, <1>15 DEF RunBegin
<1>16. ASSUME NEW w \in Workers, RunClear(w) PROVE WaitCounts'
    BY <1>1, <1>16 DEF RunClear, ClearTo
<1>17. ASSUME NEW w \in Workers, RunUnbusy(w) PROVE WaitCounts'
    BY <1>1, <1>17 DEF RunUnbusy, UnbusyThen
<1>18. ASSUME NEW w \in Workers, RunLeave(w) PROVE WaitCounts'
    BY <1>1, <1>18 DEF RunLeave
<1>19. CASE UNCHANGED vars
    BY <1>19 DEF vars
<1> QED
    BY <1>2, <1>3, <1>4, <1>5, <1>6, <1>7, <1>8, <1>9, <1>10, <1>11, <1>12,
       <1>13, <1>14, <1>15, <1>16, <1>17, <1>18, <1>19
       DEF Next, Call, Inside, Run, Terminated

-----------------------------------------------------------------------------
\* The order of execution and the count of what a stop lets begin, for every
\* behaviour of the queue.
THEOREM OrderHolds == Spec => [](InOrder /\ WaitCounts)
<1>1. Init => InOrder /\ WaitCounts
  <2> SUFFICES ASSUME Init PROVE InOrder /\ WaitCounts
    OBVIOUS
  <2>1. HandedOver = <<>>
    <3>1. dispatched = 0
      BY DEF Init, InitQueue
    <3>2. \A t \in Threads : pc[t] \in {"idle", "outside"}
      BY DEF Init, InitQueue, Threads
    <3> QED
      BY <3>1, <3>2 DEF HandedOver
  <2>2. Waiting = <<>>
    BY DEF Init, InitQueue, Waiting
  <2>3. InOrder
    BY <2>1, <2>2 DEF Init, InitQueue, InOrder
  <2>4. WaitCounts
    BY DEF Init, InitQueue, WaitCounts, EMPTY_ACTIVE_NOT_BUSY
  <2> QED
    BY <2>3, <2>4
<1>2. Inv /\ InOrder /\ WaitCounts /\ [Next]_vars => InOrder' /\ WaitCounts'
    BY OrderStep, WaitStep
<1> QED
    BY InvHolds, <1>1, <1>2, PTL DEF Spec
-----------------------------------------------------------------------------
(* What follows from the two invariants.                                    *)

(***************************************************************************)
(* Every step of the run_queue keeps its state well typed: whatever a      *)
(* worker takes from m_running is a task (run_next).                       *)
(***************************************************************************)
THEOREM TypeCorrect == Spec => []TypeOK
<1>1. Inv => TypeOK
    BY DEF Inv
<1> QED
    BY InvHolds, <1>1, PTL

(***************************************************************************)
(* At most one thread at a time may touch m_running, and BUSY says so:     *)
(* tasks of one queue never execute beside each other, on any number of    *)
(* workers (check_submit_next, run_next).                                  *)
(***************************************************************************)
THEOREM ExecutionIsSerial == Spec => []SerialExecution
<1>1. Inv => SerialExecution
    BY DEF Inv
<1> QED
    BY InvHolds, <1>1, PTL

(***************************************************************************)
(* front() and pop_front() are never called on an empty deque              *)
(* (check_submit_next).                                                    *)
(***************************************************************************)
THEOREM PopsAreSafe == Spec => []NeverPopsEmpty
<1>1. Inv => NeverPopsEmpty
    BY DEF Inv
<1> QED
    BY InvHolds, <1>1, PTL

(***************************************************************************)
(* No wakeup is lost: in an active queue that is not busy waiting tasks    *)
(* have a thread that will submit them (enqueue, start, run_next).         *)
(***************************************************************************)
THEOREM NothingIsStranded == Spec => []NeverStranded
<1>1. Inv => NeverStranded
    BY DEF Inv
<1> QED
    BY InvHolds, <1>1, PTL

(***************************************************************************)
(* Tasks begin in the order in which they were posted, and none is lost    *)
(* (enqueue, check_submit_next, run_next).                                 *)
(***************************************************************************)
THEOREM OrderIsKept == Spec => []InOrder
<1> QED
    BY OrderHolds, PTL

(***************************************************************************)
(* A stop lets at most one more task begin (stop, check_submit_next).      *)
(***************************************************************************)
THEOREM StopIsKept == Spec => []StopHolds
<1>1. Inv => StopHolds
    BY DEF Inv, StopCounts, StopHolds
<1> QED
    BY InvHolds, <1>1, PTL

(***************************************************************************)
(* A task that was posted to a stopped queue does not begin before the     *)
(* next start (stop, enqueue, check_submit_next).                          *)
(***************************************************************************)
THEOREM PostedTasksWait == Spec => []PostedWhileStoppedWaits
<1>1. WaitCounts => PostedWhileStoppedWaits
    BY DEF WaitCounts, PostedWhileStoppedWaits
<1> QED
    BY OrderHolds, <1>1, PTL
-----------------------------------------------------------------------------
(* DequeRunQueue implements SerialExecutor: every step of it is a step of   *)
(* the executor or changes nothing that the executor speaks of.             *)

\* A task is posted once; the task a worker executes has begun, and is the one
\* in m_running.
History ==
    /\ \A i, j \in DOMAIN posted : posted[i] = posted[j] => i = j
    /\ \A w \in Workers : executing[w] # NoTask =>
          executing[w] = m_running.task /\ Begun(executing[w])
-----------------------------------------------------------------------------
\* No task is posted twice, and m_running is not touched while a worker executes.
LEMMA HistoryStep == Inv /\ History /\ [Next]_vars => History'
<1> SUFFICES ASSUME Inv, History, [Next]_vars PROVE History'
    OBVIOUS
<1> USE RolesAssumption DEF Threads, Inv, TypeOK, History, Begun, ghostVars, queueVars
<1>1. ASSUME NEW t \in Threads, NEW d \in Tasks, EnqueuePush(t, d) PROVE History'
  <2>1. posted' = Append(posted, d) /\ ~Posted(d)
    BY <1>1 DEF EnqueuePush, PushAs
  <2>2. /\ DOMAIN posted' = 1..(Len(posted) + 1) /\ DOMAIN posted = 1..Len(posted)
        /\ posted'[Len(posted) + 1] = d
        /\ \A i \in 1..Len(posted) : posted'[i] = posted[i]
    BY <2>1, AppendProperties
  <2>3. Len(posted) \in Nat
    OBVIOUS
  <2>4. \A i, j \in DOMAIN posted' : posted'[i] = posted'[j] => i = j
    BY <2>1, <2>2, <2>3 DEF Posted
  <2> QED
    BY <1>1, <2>4 DEF EnqueuePush, PushAs
<1>2. ASSUME NEW t \in Threads, PopFront(t) PROVE History'
  <2>1. \A w \in Workers : executing[w] = NoTask
    BY <1>2 DEF PopFront, LabelsOfRoles, SerialExecution, Owner
  <2> QED
    BY <1>2, <2>1 DEF PopFront
<1>3. ASSUME NEW w \in Workers, RunBegin(w) PROVE History'
  <2>1. \A v \in Workers : executing[v] = NoTask
    BY <1>3 DEF RunBegin, SerialExecution, Owner
  <2>2. m_running.task \in Tasks
    BY <1>3 DEF RunBegin, RunningHoldsTask
  <2>3. begun' = Append(begun, m_running.task)
    BY <1>3 DEF RunBegin
  <2>4. Len(begun) + 1 \in DOMAIN begun' /\ begun'[Len(begun) + 1] = m_running.task
    BY <2>2, <2>3, AppendProperties
  <2> QED
    BY <1>3, <2>1, <2>4 DEF RunBegin
<1>4. ASSUME NEW w \in Workers, RunClear(w) PROVE History'
  <2>1. \A v \in Workers : v # w => executing[v] = NoTask
    BY <1>4 DEF RunClear, ClearTo, LabelsOfRoles, SerialExecution, Owner
  <2> QED
    BY <1>4, <2>1 DEF RunClear, ClearTo
<1>5. ASSUME NEW t \in Threads, EnqueueUnmark(t) PROVE History'
    BY <1>5 DEF EnqueueUnmark
<1>6. ASSUME NEW t \in Threads, SubmitWon(t) PROVE History'
    BY <1>6 DEF SubmitWon, SubmitFrom
<1>7. ASSUME NEW t \in Threads, SubmitLost(t) PROVE History'
    BY <1>7 DEF SubmitLost
<1>8. ASSUME NEW t \in Threads, MarkEmpty(t) PROVE History'
    BY <1>8 DEF MarkEmpty, MarkAs
<1>9. ASSUME NEW t \in Threads, Dispatch(t) PROVE History'
    BY <1>9 DEF Dispatch
<1>10. ASSUME NEW t \in Threads, Stop(t) PROVE History'
    BY <1>10 DEF Stop, Deactivate, Caller
<1>11. ASSUME NEW t \in Threads, Start(t) PROVE History'
    BY <1>11 DEF Start, Activate, ActivateThen, Caller
<1>12. ASSUME NEW t \in Threads, ReleaseRead(t) PROVE History'
    BY <1>12 DEF ReleaseRead, Caller
<1>13. ASSUME NEW t \in Threads, ReleaseReset(t) PROVE History'
    BY <1>13 DEF ReleaseReset
<1>14. ASSUME NEW t \in Threads, ReleaseStart(t) PROVE History'
    BY <1>14 DEF ReleaseStart, Activate, ActivateThen
<1>15. ASSUME NEW t \in Threads, DropPointer(t) PROVE History'
    BY <1>15 DEF DropPointer, Drop
<1>16. ASSUME NEW w \in Workers, RunUnbusy(w) PROVE History'
    BY <1>16 DEF RunUnbusy, UnbusyThen
<1>17. ASSUME NEW w \in Workers, RunLeave(w) PROVE History'
    BY <1>17 DEF RunLeave
<1>18. CASE UNCHANGED vars
    BY <1>18 DEF vars
<1> QED
    BY <1>1, <1>2, <1>3, <1>4, <1>5, <1>6, <1>7, <1>8, <1>9, <1>10, <1>11,
       <1>12, <1>13, <1>14, <1>15, <1>16, <1>17, <1>18
       DEF Next, Call, Inside, Run, Terminated

-----------------------------------------------------------------------------
(* What the mapping shows in each phase of a task.                          *)

\* The phases exclude one another.
LEMMA Phases ==
    Inv /\ History =>
        /\ Popping => Idle /\ HandedOver = <<>> /\ Waiting # <<>>
        /\ HandedOver # <<>> => Idle /\ ~Popping
        /\ ~Idle => /\ ~Popping
                    /\ HandedOver = <<>>
                    /\ m_running.task \in Tasks
                    /\ Begun(m_running.task)
                    /\ \A d \in Tasks : Executing(d) <=> d = m_running.task
<1> SUFFICES ASSUME Inv, History
             PROVE  /\ Popping => Idle /\ HandedOver = <<>> /\ Waiting # <<>>
                    /\ HandedOver # <<>> => Idle /\ ~Popping
                    /\ ~Idle => /\ ~Popping
                                /\ HandedOver = <<>>
                                /\ m_running.task \in Tasks
                                /\ Begun(m_running.task)
                                /\ \A d \in Tasks : Executing(d) <=> d = m_running.task
    OBVIOUS
<1> USE RolesAssumption DEF Threads, Inv, TypeOK, SerialExecution, Owner, HandedOver, Idle,
           Popping
<1>1. Popping => Idle /\ HandedOver = <<>>
    BY DEF LabelsOfRoles
<1>2. Popping => Waiting # <<>>
  <2>1. Popping => m_fifo # <<>>
    BY DEF NeverPopsEmpty
  <2> QED
    BY <2>1, TasksOfTail DEF Waiting
<1>3. HandedOver # <<>> => Idle /\ ~Popping
    BY DEF LabelsOfRoles
<1>4. ASSUME ~Idle
      PROVE  /\ m_running.task \in Tasks
             /\ Begun(m_running.task)
             /\ \A d \in Tasks : Executing(d) <=> d = m_running.task
  <2>1. PICK w \in Workers : executing[w] # NoTask
    BY <1>4
  <2>2. executing[w] = m_running.task /\ Begun(m_running.task)
    BY <2>1 DEF History
  <2>3. \A v \in Workers : v # w => executing[v] = NoTask
    BY <2>1
  <2> QED
    BY <2>1, <2>2, <2>3 DEF Executing
<1> QED
    BY <1>1, <1>2, <1>3, <1>4

\* Every task in a part of what InOrder lists was posted.
LEMMA ListedIsPosted ==
    Inv /\ InOrder =>
        /\ \A d : Begun(d) => Posted(d)
        /\ \A i \in DOMAIN HandedOver : Posted(HandedOver[i])
        /\ \A i \in DOMAIN Waiting : Posted(Waiting[i])
<1> SUFFICES ASSUME Inv, InOrder
             PROVE  /\ \A d : Begun(d) => Posted(d)
                    /\ \A i \in DOMAIN HandedOver : Posted(HandedOver[i])
                    /\ \A i \in DOMAIN Waiting : Posted(Waiting[i])
    OBVIOUS
<1> DEFINE H == begun \o HandedOver
<1>1. begun \in Seq(Tasks) /\ HandedOver \in Seq(Tasks) /\ Waiting \in Seq(Tasks)
    BY OrderTypes DEF Inv, TypeOK
<1>2. /\ H \in Seq(Tasks)
      /\ Len(H) = Len(begun) + Len(HandedOver)
      /\ \A i \in 1..Len(begun) : H[i] = begun[i]
      /\ \A i \in 1..Len(HandedOver) : H[Len(begun) + i] = HandedOver[i]
    BY <1>1, ConcatProperties
<1> HIDE DEF H
<1>3. /\ Len(posted) = Len(H) + Len(Waiting)
      /\ \A i \in 1..Len(H) : posted[i] = H[i]
      /\ \A i \in 1..Len(Waiting) : posted[Len(H) + i] = Waiting[i]
    BY <1>1, <1>2, ConcatProperties DEF InOrder, H
<1>4. /\ Len(begun) \in Nat /\ Len(HandedOver) \in Nat /\ Len(Waiting) \in Nat
      /\ DOMAIN begun = 1..Len(begun) /\ DOMAIN HandedOver = 1..Len(HandedOver)
      /\ DOMAIN Waiting = 1..Len(Waiting)
    BY <1>1
<1>5. DOMAIN posted = 1..(Len(begun) + Len(HandedOver) + Len(Waiting))
    BY <1>2, <1>3, <1>4 DEF Inv, TypeOK
<1>6. ASSUME NEW i \in 1..Len(begun) PROVE Posted(begun[i])
  <2>1. i \in DOMAIN posted /\ posted[i] = begun[i]
    BY <1>2, <1>3, <1>4, <1>5
  <2> QED
    BY <2>1 DEF Posted
<1>7. ASSUME NEW i \in 1..Len(HandedOver) PROVE Posted(HandedOver[i])
  <2>1. Len(begun) + i \in DOMAIN posted /\ posted[Len(begun) + i] = HandedOver[i]
    BY <1>2, <1>3, <1>4, <1>5
  <2> QED
    BY <2>1 DEF Posted
<1>8. ASSUME NEW i \in 1..Len(Waiting) PROVE Posted(Waiting[i])
  <2>1. Len(H) + i \in DOMAIN posted /\ posted[Len(H) + i] = Waiting[i]
    BY <1>2, <1>3, <1>4, <1>5
  <2> QED
    BY <2>1 DEF Posted
<1> QED
    BY <1>4, <1>6, <1>7, <1>8 DEF Begun

\* The task handed over has not begun yet.
LEMMA HandedOverIsNew ==
    Inv /\ InOrder /\ History /\ HandedOver # <<>> => ~Begun(m_running.task)
<1> SUFFICES ASSUME Inv, InOrder, History, HandedOver # <<>>, Begun(m_running.task)
             PROVE  FALSE
    OBVIOUS
<1>1. /\ begun \in Seq(Tasks) /\ HandedOver = <<m_running.task>>
      /\ HandedOver \in Seq(Tasks) /\ Waiting \in Seq(Tasks)
    BY OrderTypes DEF Inv, TypeOK, HandedOver
<1>2. begun \o HandedOver = Append(begun, m_running.task) /\ m_running.task \in Tasks
    BY <1>1
<1>3. PICK i \in 1..Len(begun) : begun[i] = m_running.task
    BY <1>1 DEF Begun
<1> DEFINE H == Append(begun, m_running.task)
<1>4. /\ H \in Seq(Tasks) /\ Len(H) = Len(begun) + 1 /\ H[i] = m_running.task
      /\ H[Len(begun) + 1] = m_running.task
    BY <1>1, <1>2, <1>3, AppendProperties
<1>5. posted = H \o Waiting
    BY <1>2 DEF InOrder
<1> HIDE DEF H
<1>6. /\ DOMAIN posted = 1..(Len(begun) + 1 + Len(Waiting))
      /\ posted[i] = m_running.task /\ posted[Len(begun) + 1] = m_running.task
  <2>1. /\ H \o Waiting \in Seq(Tasks)
        /\ Len(H \o Waiting) = Len(H) + Len(Waiting)
        /\ \A k \in 1..Len(H) + Len(Waiting) :
              (H \o Waiting)[k] = IF k <= Len(H) THEN H[k] ELSE Waiting[k - Len(H)]
    BY <1>1, <1>4, ConcatProperties
  <2>2. Len(begun) \in Nat /\ Len(Waiting) \in Nat
    BY <1>1
  <2>3. DOMAIN posted = 1..(Len(begun) + 1 + Len(Waiting))
    BY <1>4, <1>5, <2>1, LenProperties
  <2> QED
    BY <1>3, <1>4, <1>5, <2>1, <2>2, <2>3
<1>7. i \in DOMAIN posted /\ Len(begun) + 1 \in DOMAIN posted /\ i # Len(begun) + 1
    BY <1>1, <1>3, <1>6
<1> QED
    BY <1>6, <1>7 DEF History
-----------------------------------------------------------------------------
(* Steps of the queue are steps of the executor.                            *)

Mapped == <<Pending, Taken, Current, Executed>>

\* The tasks the executor knows are tasks that were posted.
LEMMA KnownIsPosted ==
    Inv /\ InOrder /\ History => \A d \in Tasks : d \in Executor!Posted => Posted(d)
<1> SUFFICES ASSUME Inv, InOrder, History, NEW d \in Tasks, d \in Executor!Posted
             PROVE  Posted(d)
    OBVIOUS
<1> USE RolesAssumption
<1>1. Waiting \in Seq(Tasks)
    BY OrderTypes
<1>2. CASE \E i \in DOMAIN Pending : Pending[i] = d
  <2>1. CASE Popping
    <3>1. Waiting # <<>> /\ Pending = Tail(Waiting)
      BY <2>1, Phases DEF Pending
    <3>2. PICK i \in 1..Len(Tail(Waiting)) : Tail(Waiting)[i] = d
      BY <1>1, <1>2, <3>1, HeadTailProperties
    <3>3. i + 1 \in DOMAIN Waiting /\ Waiting[i + 1] = d
      BY <1>1, <3>1, <3>2, HeadTailProperties
    <3> QED
      BY <3>3, ListedIsPosted
  <2>2. CASE ~Popping
    BY <1>2, <2>2, ListedIsPosted DEF Pending
  <2> QED
    BY <2>1, <2>2
<1>3. CASE d = Taken
  <2>1. CASE Popping
    <3>1. Waiting # <<>> /\ d = Head(Waiting)
      BY <1>3, <2>1, Phases DEF Taken
    <3>2. 1 \in DOMAIN Waiting /\ Waiting[1] = d
      BY <1>1, <3>1
    <3> QED
      BY <3>2, ListedIsPosted
  <2>2. CASE ~Popping
    <3>1. HandedOver # <<>> /\ d = m_running.task
      BY <1>3, <2>2 DEF Taken
    <3>2. 1 \in DOMAIN HandedOver /\ HandedOver[1] = d
      BY <3>1 DEF HandedOver
    <3> QED
      BY <3>2, ListedIsPosted
  <2> QED
    BY <2>1, <2>2
<1>4. CASE d = Current
    BY <1>4, Phases, ListedIsPosted DEF Current
<1>5. CASE d \in Executed
    BY <1>5, ListedIsPosted DEF Executed
<1> QED
    BY <1>2, <1>3, <1>4, <1>5 DEF Executor!Posted

\* What the mapping reads.
LEMMA MappedKept ==
    /\ UNCHANGED <<m_fifo, begun, executing, m_running>>
    /\ HandedOver' = HandedOver
    /\ Popping' <=> Popping
    => UNCHANGED Mapped
<1> SUFFICES ASSUME UNCHANGED <<m_fifo, begun, executing, m_running>>,
                    HandedOver' = HandedOver, Popping' <=> Popping
             PROVE  UNCHANGED Mapped
    OBVIOUS
<1>1. Waiting' = Waiting /\ (Idle' <=> Idle) /\ Executed' = Executed
    BY DEF Waiting, Idle, Executed, Begun, Executing
<1> QED
    BY <1>1 DEF Mapped, Pending, Taken, Current

\* enqueue posts a task the executor does not know, also in the middle of a pop.
LEMMA PostStep ==
    ASSUME Inv, InOrder, History, NEW t \in Threads, NEW d \in Tasks, EnqueuePush(t, d)
    PROVE  Executor!Post(d)
<1>1. d \notin Executor!Posted
    BY KnownIsPosted DEF EnqueuePush, PushAs
<1>2. Waiting' = Append(Waiting, d) /\ Waiting \in Seq(Tasks)
  <2>1. m_fifo' = Append(m_fifo, [task |-> d, queue |-> m_self]) /\ m_self \in BOOLEAN
    BY DEF EnqueuePush, PushAs, Inv, TypeOK
  <2>2. Waiting' = Append(Waiting, d)
    BY <2>1, TasksOfAppend DEF Waiting, Inv, TypeOK
  <2> QED
    BY <2>2, OrderTypes DEF Inv
<1>3. HandedOver' = HandedOver /\ (Popping' <=> Popping) /\ (Idle' <=> Idle)
    BY DEF EnqueuePush, PushAs, Caller, HandedOver, Popping, Idle, Inv, TypeOK
<1>4. Popping => Waiting # <<>>
    BY Phases
<1>5. Pending' = Append(Pending, d)
  <2>1. CASE Popping
    <3>1. Tail(Append(Waiting, d)) = Append(Tail(Waiting), d)
      BY <1>2, <1>4, <2>1, HeadTailAppend
    <3> QED
      BY <1>2, <1>3, <2>1, <3>1 DEF Pending
  <2>2. CASE ~Popping
    BY <1>2, <1>3, <2>2 DEF Pending
  <2> QED
    BY <2>1, <2>2
<1>6. Taken' = Taken
  <2>1. CASE Popping
    <3>1. Head(Append(Waiting, d)) = Head(Waiting)
      BY <1>2, <1>4, <2>1, HeadTailAppend
    <3> QED
      BY <1>2, <1>3, <2>1, <3>1 DEF Taken
  <2>2. CASE ~Popping
    BY <1>3, <2>2 DEF Taken, EnqueuePush, PushAs
  <2> QED
    BY <2>1, <2>2
<1>7. Current' = Current /\ Executed' = Executed /\ m_status' = m_status
    BY <1>3 DEF EnqueuePush, PushAs, Current, Executed, Begun, Executing
<1> QED
    BY <1>1, <1>5, <1>6, <1>7 DEF Executor!Post

\* Winning the compare-exchange takes the oldest task of an idle, active queue.
LEMMA TakeStep ==
    ASSUME Inv, InOrder, History, NEW t \in Threads, SubmitWon(t)
    PROVE  Executor!Take
<1> USE RolesAssumption
<1>1. m_status = {"ACTIVE"} /\ "ACTIVE" \in m_status'
    BY DEF SubmitWon, SubmitFrom, NOT_EMPTY_ACTIVE_NOT_BUSY
<1>2. dispatched = 0 /\ \A u \in Threads : ~Owner(u)
    BY <1>1 DEF Inv, TypeOK, SerialExecution
<1>3. Idle /\ ~Popping /\ HandedOver = <<>>
    BY <1>2 DEF Idle, Popping, HandedOver, Owner, Threads
<1>4. m_fifo # <<>>
    BY <1>1, <1>2 DEF Inv, EmptyBit, Owner
<1>5. Waiting # <<>>
    BY <1>4, TasksOfTail DEF Waiting, Inv, TypeOK
<1>6. /\ Popping' /\ (Idle' <=> Idle)
      /\ Waiting' = Waiting /\ Executed' = Executed
    BY DEF SubmitWon, SubmitFrom, Popping, Idle, Waiting, Executed, Begun, Executing,
           Inv, TypeOK, ghostVars
<1>7. /\ Pending = Waiting /\ Taken = NoTask /\ Current = NoTask
      /\ Pending' = Tail(Waiting) /\ Taken' = Head(Waiting) /\ Current' = NoTask
    BY <1>3, <1>6 DEF Pending, Taken, Current
<1> QED
    BY <1>1, <1>5, <1>6, <1>7 DEF Executor!Take

\* Moving the context to m_running changes nothing the executor speaks of.
LEMMA PopStep ==
    ASSUME Inv, InOrder, History, NEW t \in Threads, PopFront(t)
    PROVE  UNCHANGED <<Mapped, "ACTIVE" \in m_status>>
<1> USE RolesAssumption
<1>1. Popping /\ Idle /\ HandedOver = <<>> /\ Waiting # <<>>
    BY Phases DEF PopFront, Popping
<1>2. m_fifo # <<>> /\ m_running' = Head(m_fifo) /\ m_fifo' = Tail(m_fifo)
    BY DEF PopFront
<1>3. Head(Waiting) = Head(m_fifo).task /\ Waiting' = Tail(Waiting)
    BY <1>2, TasksOfTail DEF Waiting, Inv, TypeOK
<1>4. ~Popping'
    BY DEF PopFront, Popping, Inv, TypeOK, SerialExecution, Owner
<1>5. HandedOver' = <<m_running'.task>>
    BY DEF PopFront, HandedOver, Inv, TypeOK
<1>6. (Idle' <=> Idle) /\ Executed' = Executed /\ m_status' = m_status
    BY DEF PopFront, Idle, Executed, Begun, Executing
<1>7. Pending' = Pending /\ Taken' = Taken /\ Current' = Current
    BY <1>1, <1>2, <1>3, <1>4, <1>5, <1>6 DEF Pending, Taken, Current
<1> QED
    BY <1>6, <1>7 DEF Mapped

\* A worker of the pool begins the task that was taken.
LEMMA BeginStep ==
    ASSUME Inv, InOrder, History, NEW w \in Workers, RunBegin(w)
    PROVE  Executor!Begin
<1> USE RolesAssumption
<1> DEFINE d == m_running.task
<1>1. dispatched = 1 /\ \A t \in Threads : ~Owner(t)
    BY DEF RunBegin, Inv, TypeOK, SerialExecution
<1>2. Idle /\ ~Popping /\ HandedOver # <<>> /\ d \in Tasks
    BY <1>1 DEF Idle, Popping, HandedOver, Owner, Threads, Inv, RunningHoldsTask
<1>3. dispatched' = 0 /\ \A t \in Threads : pc'[t] \notin {"pop", "mark", "dispatch"}
    BY <1>1 DEF RunBegin, Inv, TypeOK, Owner
<1>4. ~Popping' /\ HandedOver' = <<>> /\ Waiting' = Waiting /\ ~Idle'
    BY <1>2, <1>3 DEF Popping, HandedOver, Waiting, Idle, RunBegin, Inv, TypeOK
<1>5. ~Begun(d)
    BY <1>2, HandedOverIsNew
<1>6. \A x \in Tasks : (Executing(x)' <=> x = d) /\ ~Executing(x)
    BY <1>2 DEF Executing, Idle, RunBegin, Inv, TypeOK
<1>7. \A x \in Tasks : x # d => (Begun(x)' <=> Begun(x))
  <2>1. begun' = Append(begun, d) /\ begun \in Seq(Tasks)
    BY DEF RunBegin, Inv, TypeOK
  <2>2. /\ DOMAIN begun' = 1..(Len(begun) + 1) /\ DOMAIN begun = 1..Len(begun)
        /\ begun'[Len(begun) + 1] = d /\ Len(begun) \in Nat
        /\ \A i \in 1..Len(begun) : begun'[i] = begun[i]
    BY <1>2, <2>1, AppendProperties
  <2> HIDE DEF d
  <2> QED
    BY <2>2 DEF Begun
<1>8. Executed' = Executed
    BY <1>5, <1>6, <1>7 DEF Executed
<1>9. /\ Taken = d /\ Taken' = NoTask /\ Current' = d /\ Pending' = Pending
      /\ m_status' = m_status /\ d # NoTask
    BY <1>2, <1>4 DEF Taken, Current, Pending, RunBegin
<1> QED
    BY <1>8, <1>9 DEF Executor!Begin

\* The task is finished when its context is cleared.
LEMMA FinishStep ==
    ASSUME Inv, InOrder, History, NEW w \in Workers, RunClear(w)
    PROVE  Executor!Finish
<1> USE RolesAssumption
<1> DEFINE d == m_running.task
<1>1. executing[w] # NoTask
    BY DEF RunClear, ClearTo, Inv, LabelsOfRoles
<1>2. ~Idle
    BY <1>1 DEF Idle
<1>3. /\ ~Popping /\ HandedOver = <<>> /\ d \in Tasks /\ Begun(d)
      /\ \A x \in Tasks : Executing(x) <=> x = d
    BY <1>2, Phases
<1>4. \A v \in Workers : executing'[v] = NoTask
    BY <1>1 DEF RunClear, ClearTo, Inv, TypeOK, SerialExecution, Owner, Threads
<1>5. Idle' /\ \A x \in Tasks : ~Executing(x)'
    BY <1>4 DEF Idle, Executing
<1>6. ~Popping' /\ HandedOver' = <<>>
  <2>1. dispatched = 0 /\ \A t \in Threads : pc[t] \notin {"pop", "mark", "dispatch"}
    BY <1>3 DEF HandedOver, Popping, Inv, TypeOK
  <2>2. dispatched' = 0 /\ \A t \in Threads : pc'[t] \notin {"pop", "mark", "dispatch"}
    BY <2>1 DEF RunClear, ClearTo, Inv, TypeOK
  <2> QED
    BY <2>2 DEF HandedOver, Popping
<1>7. begun' = begun /\ m_fifo' = m_fifo /\ m_status' = m_status
    BY DEF RunClear, ClearTo
<1>8. Executed' = Executed \cup {d}
    BY <1>3, <1>5, <1>7 DEF Executed, Begun
<1>9. /\ Current = d /\ Current' = NoTask /\ d # NoTask /\ Pending' = Pending
      /\ Taken = NoTask /\ Taken' = NoTask
    BY <1>2, <1>3, <1>5, <1>6, <1>7 DEF Current, Pending, Taken, Waiting
<1> QED
    BY <1>7, <1>8, <1>9 DEF Executor!Finish

\* The other steps change at most whether the queue is active.
LEMMA OtherStep ==
    ASSUME Inv, NEW t \in Threads,
           \/ EnqueueUnmark(t) \/ SubmitLost(t) \/ MarkEmpty(t) \/ Dispatch(t)
           \/ Stop(t) \/ Start(t) \/ ReleaseRead(t) \/ ReleaseReset(t)
           \/ ReleaseStart(t) \/ DropPointer(t)
           \/ t \in Workers /\ (RunUnbusy(t) \/ RunLeave(t))
    PROVE  UNCHANGED Mapped
<1> USE DEF Inv, TypeOK, AfterSubmit, HandedOver, Popping, queueVars, ghostVars
<1>1. CASE EnqueueUnmark(t)
    BY <1>1, MappedKept DEF EnqueueUnmark
<1>2. CASE SubmitLost(t)
    BY <1>2, MappedKept DEF SubmitLost
<1>3. CASE MarkEmpty(t)
    BY <1>3, MappedKept DEF MarkEmpty, MarkAs
<1>4. CASE Dispatch(t)
    BY <1>4, MappedKept DEF Dispatch
<1>5. CASE Stop(t)
    BY <1>5, MappedKept DEF Stop, Deactivate, Caller
<1>6. CASE Start(t)
    BY <1>6, MappedKept DEF Start, Activate, ActivateThen, Caller
<1>7. CASE ReleaseRead(t)
    BY <1>7, MappedKept DEF ReleaseRead, Caller
<1>8. CASE ReleaseReset(t)
    BY <1>8, MappedKept DEF ReleaseReset
<1>9. CASE ReleaseStart(t)
    BY <1>9, MappedKept DEF ReleaseStart, Activate, ActivateThen
<1>10. CASE DropPointer(t)
    BY <1>10, MappedKept DEF DropPointer, Drop
<1>11. CASE RunUnbusy(t)
    BY <1>11, MappedKept DEF RunUnbusy, UnbusyThen
<1>12. CASE RunLeave(t)
    BY <1>12, MappedKept DEF RunLeave
<1> QED
    BY <1>1, <1>2, <1>3, <1>4, <1>5, <1>6, <1>7, <1>8, <1>9, <1>10, <1>11, <1>12

\* A new queue is an empty executor.
LEMMA RefinementInit == Init => Executor!Init
<1> SUFFICES ASSUME Init PROVE Executor!Init
    OBVIOUS
<1>1. ~Popping /\ HandedOver = <<>>
  <2>1. dispatched = 0 /\ \A t \in Threads : pc[t] \in {"idle", "outside"}
    BY DEF Init, InitQueue
  <2> QED
    BY <2>1 DEF Popping, HandedOver
<1>2. Idle /\ Waiting = <<>> /\ "ACTIVE" \in m_status
    BY DEF Init, InitQueue, Idle, Waiting, EMPTY_ACTIVE_NOT_BUSY
<1>3. Executed = {}
    BY DEF Init, InitQueue, Executed, Begun
<1> QED
    BY <1>1, <1>2, <1>3 DEF Executor!Init, Pending, Taken, Current

\* Every step of the queue is one of the executor's, or none.
LEMMA RefinementStep ==
    Inv /\ InOrder /\ History /\ [Next]_vars => [Executor!Next]_(Executor!vars)
<1> SUFFICES ASSUME Inv, InOrder, History, [Next]_vars
             PROVE  [Executor!Next]_(Executor!vars)
    OBVIOUS
<1>1. ASSUME UNCHANGED Mapped PROVE Executor!Next
  <2>1. \E b \in BOOLEAN : Executor!SetActive(b)
    <3>1. CASE "ACTIVE" \in m_status'
      <4>1. Executor!SetActive(TRUE)
        BY <1>1, <3>1 DEF Executor!SetActive, Mapped
      <4> QED
        BY <4>1
    <3>2. CASE "ACTIVE" \notin m_status'
      <4>1. Executor!SetActive(FALSE)
        BY <1>1, <3>2 DEF Executor!SetActive, Mapped
      <4> QED
        BY <4>1
    <3> QED
      BY <3>1, <3>2
  <2> QED
    BY <2>1 DEF Executor!Next
<1>2. ASSUME NEW t \in Threads, Call(t) PROVE Executor!Next
  <2>1. ASSUME NEW d \in Tasks, EnqueuePush(t, d) PROVE Executor!Next
    BY <2>1, PostStep DEF Executor!Next
  <2> QED
    BY <1>1, <1>2, <2>1, OtherStep DEF Call
<1>3. ASSUME NEW t \in Threads, Inside(t) PROVE Executor!Next
  <2>1. CASE SubmitWon(t)
    BY <2>1, TakeStep DEF Executor!Next
  <2>2. CASE PopFront(t)
    BY <1>1, <2>2, PopStep
  <2> QED
    BY <1>1, <1>3, <2>1, <2>2, OtherStep DEF Inside
<1>4. ASSUME NEW w \in Workers, Run(w) PROVE Executor!Next
  <2>1. CASE RunBegin(w)
    BY <2>1, BeginStep DEF Executor!Next
  <2>2. CASE RunClear(w)
    BY <2>2, FinishStep DEF Executor!Next
  <2>3. w \in Threads
    BY DEF Threads
  <2> QED
    BY <1>1, <1>4, <2>1, <2>2, <2>3, OtherStep DEF Run
<1>5. ASSUME UNCHANGED vars PROVE Executor!Next
  <2>1. UNCHANGED Mapped
    BY <1>5, MappedKept DEF vars, queueVars, ghostVars, HandedOver, Popping
  <2> QED
    BY <1>1, <2>1
<1> QED
    BY <1>2, <1>3, <1>4, <1>5 DEF Next, Terminated

(***************************************************************************)
(* The run_queue of Linux and FreeBSD implements the serial executor: its  *)
(* tasks are executed one at a time, in the order in which they were       *)
(* posted, each once, and none is taken while the queue is stopped         *)
(* (run_queue.cpp; notes of run_queue.h, 1.2.1 and 1.3.1).                 *)
(***************************************************************************)
THEOREM DequeImplementsExecutor == Spec => ImplementsExecutor
<1>1. Init => History
    BY DEF Init, InitQueue, History
<1>2. Inv /\ History /\ [Next]_vars => History'
    BY HistoryStep
<1> QED
    BY InvHolds, OrderHolds, RefinementInit, RefinementStep, <1>1, <1>2, PTL
       DEF Spec, ImplementsExecutor, Executor!Spec
-----------------------------------------------------------------------------
(* The lifetime of the queue object, when one of its owners releases it:    *)
(* two that do so at once may both drop the reference that m_self held.     *)

SingleReleaser == \A c, d \in Releasers : c = d

\* The threads that have a pointer of their own.
Holders == {t \in Threads : holds[t]}

\* Who has a pointer, and what the releaser knows of m_self.
PointersOfRoles ==
    /\ ~m_self => released
    /\ m_running.task # NoTask => m_running.queue
    /\ \A c \in Clients : pc[c] # "outside" => holds[c]
    /\ \A w \in Workers : holds[w] <=> pc[w] # "idle"
    /\ \A t \in Threads : pc[t] = "reset" =>
           t \in Releasers /\ released /\ seen[t] = m_self

\* Every context that waits has a pointer to the queue.
ContextsPoint == \A i \in DOMAIN m_fifo : m_fifo[i].queue

\* The reference count is the number of the pointers there are.
Counted ==
    /\ IsFiniteSet(Holders)
    /\ useCount = References(m_self) + Len(m_fifo) + References(m_running.queue)
                    + Cardinality(Holders)

LifeInv == PointersOfRoles /\ ContextsPoint /\ Counted
-----------------------------------------------------------------------------
\* Whoever holds a pointer to the queue when a thread takes or drops one.
LEMMA HoldersChange ==
    TypeOK =>
        \A t \in Threads, b \in BOOLEAN :
            holds' = [holds EXCEPT ![t] = b] =>
                Holders' = IF b THEN Holders \cup {t} ELSE Holders \ {t}
    BY DEF TypeOK, Holders, Threads

\* Most steps touch no pointer.
LEMMA CountKept ==
    Counted /\ UNCHANGED <<m_self, m_fifo, m_running, holds, useCount>> => Counted'
    BY DEF Counted, Holders

\* The pointers are counted right in every step: a context enters m_fifo with a
\* pointer of its own, and who drops a pointer had one.
LEMMA CountStep ==
    ASSUME SingleReleaser, Inv, LifeInv, [Next]_vars
    PROVE  Counted'
<1> USE RolesAssumption, DequeAssumption DEF Threads
<1>0. /\ IsFiniteSet(Holders) /\ Cardinality(Holders) \in Nat
      /\ Len(m_fifo) \in Nat /\ useCount \in Int
      /\ useCount = References(m_self) + Len(m_fifo) + References(m_running.queue)
                    + Cardinality(Holders)
    BY FS_CardinalityType DEF LifeInv, Counted, Inv, TypeOK
<1>1. ASSUME NEW t \in Threads, NEW d \in Tasks, EnqueuePush(t, d) PROVE Counted'
  <2>1. m_self
    BY <1>1 DEF EnqueuePush, PushAs, LifeInv, PointersOfRoles
  <2>2. Len(m_fifo') = Len(m_fifo) + 1
    <3> DEFINE S == [task : Tasks, queue : BOOLEAN]
    <3>1. m_fifo \in Seq(S) /\ [task |-> d, queue |-> m_self] \in S
      BY DEF Inv, TypeOK
    <3>2. m_fifo' = Append(m_fifo, [task |-> d, queue |-> m_self])
      BY <1>1 DEF EnqueuePush, PushAs
    <3> HIDE DEF S
    <3> QED
      BY <3>1, <3>2, AppendProperties
  <2>3. /\ useCount' = useCount + 1 /\ References(m_self') = References(m_self)
        /\ References(m_running'.queue) = References(m_running.queue)
        /\ Holders' = Holders
    BY <1>1, <2>1 DEF EnqueuePush, PushAs, References, Holders
  <2>4. References(m_self) \in Nat /\ References(m_running.queue) \in Nat
    BY DEF References
  <2> QED
    BY <1>0, <2>2, <2>3, <2>4 DEF Counted
<1>2. ASSUME NEW t \in Threads, PopFront(t) PROVE Counted'
  <2>1. m_fifo # <<>> /\ m_running' = Head(m_fifo) /\ m_fifo' = Tail(m_fifo)
    BY <1>2 DEF PopFront
  <2>2. Head(m_fifo).queue /\ Len(Tail(m_fifo)) = Len(m_fifo) - 1
    <3> DEFINE S == [task : Tasks, queue : BOOLEAN]
    <3>1. m_fifo \in Seq(S)
      BY DEF Inv, TypeOK
    <3> HIDE DEF S
    <3>2. /\ Len(Tail(m_fifo)) = Len(m_fifo) - 1 /\ Head(m_fifo) = m_fifo[1]
          /\ 1 \in DOMAIN m_fifo
      BY <2>1, <3>1, HeadTailProperties, EmptySeq
    <3> QED
      BY <3>2 DEF LifeInv, ContextsPoint
  <2>3. /\ useCount' = useCount - References(m_running.queue)
        /\ m_self' = m_self /\ Holders' = Holders
    BY <1>2 DEF PopFront, Holders
  <2>4. References(m_running'.queue) = 1
    BY <2>1, <2>2 DEF References
  <2>5. References(m_self) \in Nat /\ References(m_running.queue) \in Nat
    BY DEF References
  <2> QED
    BY <1>0, <2>1, <2>2, <2>3, <2>4, <2>5 DEF Counted
<1>3. ASSUME NEW t \in Threads, ReleaseReset(t) PROVE Counted'
  <2>1. seen[t] = m_self
    BY <1>3 DEF ReleaseReset, LifeInv, PointersOfRoles
  <2>2. /\ useCount' = useCount - References(m_self) /\ References(m_self') = 0
        /\ m_fifo' = m_fifo /\ m_running' = m_running /\ Holders' = Holders
    BY <1>3, <2>1 DEF ReleaseReset, Holders, References
  <2>3. References(m_self) \in Nat /\ References(m_running.queue) \in Nat
    BY DEF References
  <2> QED
    BY <1>0, <2>2, <2>3 DEF Counted
<1>4. ASSUME NEW t \in Threads, DropPointer(t) PROVE Counted'
  <2>1. Holders' = Holders \ {t} /\ t \in Holders
    BY <1>4, HoldersChange DEF DropPointer, Drop, Caller, Holders, Inv
  <2>2. IsFiniteSet(Holders') /\ Cardinality(Holders') = Cardinality(Holders) - 1
    BY <1>0, <2>1, FS_RemoveElement
  <2>3. /\ useCount' = useCount - 1
        /\ m_self' = m_self /\ m_fifo' = m_fifo /\ m_running' = m_running
    BY <1>4 DEF DropPointer, Drop
  <2>4. References(m_self) \in Nat /\ References(m_running.queue) \in Nat
    BY DEF References
  <2> QED
    BY <1>0, <2>2, <2>3, <2>4 DEF Counted
<1>5. ASSUME NEW w \in Workers, RunBegin(w) PROVE Counted'
  <2>1. m_running.queue
    BY <1>5 DEF RunBegin, Inv, RunningHoldsTask, LifeInv, PointersOfRoles, TypeOK
  <2>2. Holders' = Holders \cup {w} /\ w \notin Holders
    BY <1>5, <2>1, HoldersChange DEF RunBegin, Holders, Inv, LifeInv, PointersOfRoles
  <2>3. IsFiniteSet(Holders') /\ Cardinality(Holders') = Cardinality(Holders) + 1
    BY <1>0, <2>2, FS_AddElement
  <2>4. /\ useCount' = useCount + 1
        /\ m_self' = m_self /\ m_fifo' = m_fifo /\ m_running' = m_running
    BY <1>5, <2>1 DEF RunBegin, References
  <2>5. References(m_self) \in Nat /\ References(m_running.queue) \in Nat
    BY DEF References
  <2> QED
    BY <1>0, <2>3, <2>4, <2>5 DEF Counted
<1>6. ASSUME NEW w \in Workers, RunClear(w) PROVE Counted'
  <2>1. /\ useCount' = useCount - References(m_running.queue)
                          + References(ClearContext.queue)
        /\ m_running' = ClearContext
        /\ m_self' = m_self /\ m_fifo' = m_fifo /\ Holders' = Holders
    BY <1>6 DEF RunClear, ClearTo, Holders
  <2>2. References(ClearContext.queue) = 0
    BY DEF References, ClearContext
  <2>3. References(m_self) \in Nat /\ References(m_running.queue) \in Nat
    BY DEF References
  <2> QED
    BY <1>0, <2>1, <2>2, <2>3 DEF Counted
<1>7. ASSUME NEW w \in Workers, RunLeave(w) PROVE Counted'
  <2>1. holds[w]
    BY <1>7 DEF RunLeave, LifeInv, PointersOfRoles
  <2>2. Holders' = Holders \ {w} /\ w \in Holders
    BY <1>7, <2>1, HoldersChange DEF RunLeave, Holders, Inv
  <2>3. IsFiniteSet(Holders') /\ Cardinality(Holders') = Cardinality(Holders) - 1
    BY <1>0, <2>2, FS_RemoveElement
  <2>4. /\ useCount' = useCount - 1
        /\ m_self' = m_self /\ m_fifo' = m_fifo /\ m_running' = m_running
    BY <1>7, <2>1 DEF RunLeave, References
  <2>5. References(m_self) \in Nat /\ References(m_running.queue) \in Nat
    BY DEF References
  <2> QED
    BY <1>0, <2>3, <2>4, <2>5 DEF Counted
<1>8. CASE \/ \E t \in Threads :
                 \/ EnqueueUnmark(t) \/ SubmitWon(t) \/ SubmitLost(t)
                 \/ MarkEmpty(t) \/ Dispatch(t) \/ Stop(t) \/ Start(t)
                 \/ ReleaseRead(t) \/ ReleaseStart(t)
           \/ \E w \in Workers : RunUnbusy(w)
           \/ UNCHANGED vars
  <2>1. UNCHANGED <<m_self, m_fifo, m_running, holds, useCount>>
    BY <1>8 DEF EnqueueUnmark, SubmitWon, SubmitFrom, SubmitLost, MarkEmpty, MarkAs,
                Dispatch, Stop, Deactivate, Start, Activate, ActivateThen, ReleaseRead,
                ReleaseStart, RunUnbusy, UnbusyThen, vars, queueVars
  <2> QED
    BY <2>1, CountKept DEF LifeInv
<1> QED
    BY <1>1, <1>2, <1>3, <1>4, <1>5, <1>6, <1>7, <1>8
       DEF Next, Call, Inside, Run, Terminated

\* A thread inside a method, a worker that runs a task and a context have a
\* pointer; only the releaser takes m_self away, and it alone knows what it read.
LEMMA PointersStep ==
    ASSUME SingleReleaser, Inv, LifeInv, [Next]_vars
    PROVE  PointersOfRoles'
<1> USE RolesAssumption, DequeAssumption DEF Threads, Inv, TypeOK, Labels, AfterSubmit,
        ghostVars, queueVars, LifeInv, PointersOfRoles, LabelsOfRoles
<1>1. ASSUME NEW t \in Threads, NEW d \in Tasks, EnqueuePush(t, d) PROVE PointersOfRoles'
    BY <1>1 DEF EnqueuePush, PushAs, Caller
<1>2. ASSUME NEW t \in Threads, EnqueueUnmark(t) PROVE PointersOfRoles'
    BY <1>2 DEF EnqueueUnmark
<1>3. ASSUME NEW t \in Threads, SubmitWon(t) PROVE PointersOfRoles'
    BY <1>3 DEF SubmitWon, SubmitFrom
<1>4. ASSUME NEW t \in Threads, SubmitLost(t) PROVE PointersOfRoles'
    BY <1>4 DEF SubmitLost
<1>5. ASSUME NEW t \in Threads, PopFront(t) PROVE PointersOfRoles'
  <2>1. Head(m_fifo).queue
    <3> DEFINE S == [task : Tasks, queue : BOOLEAN]
    <3>1. m_fifo \in Seq(S) /\ m_fifo # <<>>
      BY <1>5 DEF PopFront
    <3> HIDE DEF S
    <3>2. Head(m_fifo) = m_fifo[1] /\ 1 \in DOMAIN m_fifo
      BY <3>1, HeadTailProperties, EmptySeq
    <3> QED
      BY <3>2 DEF ContextsPoint
  <2> QED
    BY <1>5, <2>1 DEF PopFront
<1>6. ASSUME NEW t \in Threads, MarkEmpty(t) PROVE PointersOfRoles'
    BY <1>6 DEF MarkEmpty, MarkAs
<1>7. ASSUME NEW t \in Threads, Dispatch(t) PROVE PointersOfRoles'
    BY <1>7 DEF Dispatch
<1>8. ASSUME NEW t \in Threads, Stop(t) PROVE PointersOfRoles'
    BY <1>8 DEF Stop, Deactivate, Caller
<1>9. ASSUME NEW t \in Threads, Start(t) PROVE PointersOfRoles'
    BY <1>9 DEF Start, Activate, ActivateThen, Caller
<1>10. ASSUME NEW t \in Threads, ReleaseRead(t) PROVE PointersOfRoles'
    BY <1>10 DEF ReleaseRead, Caller
<1>11. ASSUME NEW t \in Threads, ReleaseReset(t) PROVE PointersOfRoles'
  <2>1. t \in Releasers /\ t \in Clients /\ released
    BY <1>11 DEF ReleaseReset
  <2>2. \A u \in Threads : pc[u] = "reset" => u = t
    BY <2>1 DEF SingleReleaser
  <2>3. /\ pc' = [pc EXCEPT ![t] = "activate"] /\ holds' = holds
        /\ m_running' = m_running /\ released' = released
    BY <1>11 DEF ReleaseReset
  <2>4. \A u \in Threads : pc'[u] # "reset"
    BY <2>2, <2>3
  <2>5. holds[t]
    BY <1>11, <2>1 DEF ReleaseReset
  <2>6. \A c \in Clients : pc'[c] # "outside" => holds'[c]
    BY <2>3, <2>5
  <2>7. \A w \in Workers : holds'[w] <=> pc'[w] # "idle"
    BY <2>1, <2>3
  <2> QED
    BY <2>1, <2>3, <2>4, <2>6, <2>7
<1>12. ASSUME NEW t \in Threads, ReleaseStart(t) PROVE PointersOfRoles'
    BY <1>12 DEF ReleaseStart, Activate, ActivateThen
<1>13. ASSUME NEW t \in Threads, DropPointer(t) PROVE PointersOfRoles'
    BY <1>13 DEF DropPointer, Drop, Caller
<1>14. ASSUME NEW w \in Workers, RunBegin(w) PROVE PointersOfRoles'
    BY <1>14 DEF RunBegin, RunningHoldsTask
<1>15. ASSUME NEW w \in Workers, RunClear(w) PROVE PointersOfRoles'
    BY <1>15 DEF RunClear, ClearTo, ClearContext
<1>16. ASSUME NEW w \in Workers, RunUnbusy(w) PROVE PointersOfRoles'
    BY <1>16 DEF RunUnbusy, UnbusyThen
<1>17. ASSUME NEW w \in Workers, RunLeave(w) PROVE PointersOfRoles'
    BY <1>17 DEF RunLeave
<1>18. CASE UNCHANGED vars
    BY <1>18 DEF vars
<1> QED
    BY <1>1, <1>2, <1>3, <1>4, <1>5, <1>6, <1>7, <1>8, <1>9, <1>10, <1>11,
       <1>12, <1>13, <1>14, <1>15, <1>16, <1>17, <1>18
       DEF Next, Call, Inside, Run, Terminated

\* A task is enqueued before release(), while the queue points to itself.
LEMMA ContextsStep ==
    ASSUME Inv, LifeInv, [Next]_vars
    PROVE  ContextsPoint'
<1> DEFINE S == [task : Tasks, queue : BOOLEAN]
<1>0. m_fifo \in Seq(S)
    BY DEF Inv, TypeOK
<1>1. ASSUME NEW t \in Threads, NEW d \in Tasks, EnqueuePush(t, d) PROVE ContextsPoint'
  <2> DEFINE c == [task |-> d, queue |-> TRUE]
  <2>1. m_fifo' = Append(m_fifo, c) /\ c \in S
    BY <1>1 DEF EnqueuePush, PushAs, LifeInv, PointersOfRoles
  <2>2. c.queue
    OBVIOUS
  <2> HIDE DEF S, c
  <2>3. /\ DOMAIN m_fifo' = 1..(Len(m_fifo) + 1) /\ DOMAIN m_fifo = 1..Len(m_fifo)
        /\ m_fifo'[Len(m_fifo) + 1] = c
        /\ \A i \in 1..Len(m_fifo) : m_fifo'[i] = m_fifo[i]
    BY <1>0, <2>1, AppendProperties
  <2>4. Len(m_fifo) \in Nat
    BY <1>0
  <2> QED
    BY <2>2, <2>3, <2>4 DEF LifeInv, ContextsPoint
<1>2. ASSUME NEW t \in Threads, PopFront(t) PROVE ContextsPoint'
  <2>1. m_fifo' = Tail(m_fifo) /\ m_fifo # <<>>
    BY <1>2 DEF PopFront
  <2> HIDE DEF S
  <2>2. \A i \in DOMAIN m_fifo' : i + 1 \in DOMAIN m_fifo /\ m_fifo'[i] = m_fifo[i + 1]
    BY <1>0, <2>1, HeadTailProperties
  <2> QED
    BY <2>2 DEF LifeInv, ContextsPoint
<1>3. CASE UNCHANGED m_fifo
    BY <1>3 DEF LifeInv, ContextsPoint
<1>4. CASE \/ \E t \in Threads :
                 \/ EnqueueUnmark(t) \/ SubmitWon(t) \/ SubmitLost(t)
                 \/ MarkEmpty(t) \/ Dispatch(t) \/ Stop(t) \/ Start(t)
                 \/ ReleaseRead(t) \/ ReleaseReset(t) \/ ReleaseStart(t) \/ DropPointer(t)
           \/ \E w \in Workers : RunBegin(w) \/ RunClear(w) \/ RunUnbusy(w) \/ RunLeave(w)
           \/ UNCHANGED vars
  <2>1. UNCHANGED m_fifo
    BY <1>4 DEF EnqueueUnmark, SubmitWon, SubmitFrom, SubmitLost, MarkEmpty, MarkAs,
                Dispatch, Stop, Deactivate, Start, Activate, ActivateThen, ReleaseRead,
                ReleaseReset, ReleaseStart, DropPointer, Drop, RunBegin, RunClear, ClearTo,
                RunUnbusy, UnbusyThen, RunLeave, vars, queueVars
  <2> QED
    BY <1>3, <2>1
<1> QED
    BY <1>1, <1>2, <1>4 DEF Next, Call, Inside, Run, Terminated

\* The queue that create() returns is counted right.
LEMMA LifeInit == Init => LifeInv
<1> SUFFICES ASSUME Init PROVE LifeInv
    OBVIOUS
<1> USE RolesAssumption, DequeAssumption DEF Init, InitQueue, Threads
<1>1. Holders = Clients
    BY DEF Holders
<1>2. Counted
  <2>1. /\ useCount = 1 + Cardinality(Clients) /\ References(m_self) = 1
        /\ Len(m_fifo) = 0 /\ References(m_running.queue) = 0
    BY DEF References, ClearContext
  <2>2. IsFiniteSet(Holders) /\ Cardinality(Holders) = Cardinality(Clients)
        /\ Cardinality(Clients) \in Nat
    BY <1>1, FS_CardinalityType
  <2> QED
    BY <2>1, <2>2 DEF Counted
<1>3. PointersOfRoles
    BY DEF PointersOfRoles, ClearContext
<1>4. ContextsPoint
    BY DEF ContextsPoint
<1> QED
    BY <1>2, <1>3, <1>4 DEF LifeInv

\* A pointer is counted for whatever makes the queue used.
LEMMA LifeImplies == Inv /\ LifeInv => ExistsWhileUsed
<1> SUFFICES ASSUME Inv, LifeInv PROVE ExistsWhileUsed
    OBVIOUS
<1>0. /\ IsFiniteSet(Holders) /\ Cardinality(Holders) \in Nat /\ Len(m_fifo) \in Nat
      /\ useCount = References(m_self) + Len(m_fifo) + References(m_running.queue)
                    + Cardinality(Holders)
      /\ References(m_self) \in Nat /\ References(m_running.queue) \in Nat
    BY FS_CardinalityType DEF LifeInv, Counted, Inv, TypeOK, References
<1>9. /\ useCount \in Int
      /\ useCount >= Len(m_fifo) + References(m_running.queue) + Cardinality(Holders)
    BY <1>0
<1>1. m_fifo # <<>> => useCount > 0
  <2> DEFINE S == [task : Tasks, queue : BOOLEAN]
  <2>1. m_fifo \in Seq(S)
    BY DEF Inv, TypeOK
  <2> HIDE DEF S
  <2>2. m_fifo # <<>> => Len(m_fifo) > 0
    BY <2>1, EmptySeq
  <2> QED
    BY <1>0, <2>2
<1>2. dispatched > 0 => useCount > 0
  <2>1. dispatched > 0 => m_running.queue
    BY RolesAssumption DEF Inv, RunningHoldsTask, LifeInv, PointersOfRoles
  <2>2. dispatched > 0 => References(m_running.queue) = 1
    BY <2>1 DEF References
  <2> QED
    BY <1>0, <1>9, <2>2
<1>3. \A t \in Threads : pc[t] \notin {"idle", "outside"} => holds[t]
    BY RolesAssumption DEF LifeInv, PointersOfRoles, Threads, Inv, LabelsOfRoles
<1>4. \A w \in Workers : executing[w] # NoTask => holds[w]
    BY DEF LifeInv, PointersOfRoles, Threads, Inv, LabelsOfRoles
<1>5. (\E t \in Threads : holds[t]) => useCount > 0
  <2>1. (\E t \in Threads : holds[t]) => Holders # {}
    BY DEF Holders
  <2>2. Holders # {} => Cardinality(Holders) > 0
    BY <1>0, FS_EmptySet
  <2>3. Cardinality(Holders) > 0 => useCount > 0
    BY <1>0, <1>9
  <2> QED
    BY <2>1, <2>2, <2>3
<1>6. \A w \in Workers : pc[w] \in {"unbusy", "leave"} => holds[w]
    BY <1>3, RolesAssumption DEF Threads
<1> QED
    BY <1>1, <1>2, <1>3, <1>4, <1>5, <1>6 DEF ExistsWhileUsed, InUse, Idle, Threads

(***************************************************************************)
(* The queue exists as long as a thread is inside one of its methods, owns *)
(* a pointer to it, or a task waits or executes, for any number of owners  *)
(* of which one calls release() (release, enqueue, check_submit_next,      *)
(* run_next).                                                              *)
(***************************************************************************)
THEOREM ExistsAsLongAsUsed == ASSUME SingleReleaser PROVE Spec => []ExistsWhileUsed
<1>1. Inv /\ LifeInv /\ [Next]_vars => LifeInv'
    BY PointersStep, ContextsStep, CountStep DEF LifeInv
<1>2. Spec => []LifeInv
    BY InvHolds, LifeInit, <1>1, PTL DEF Spec
<1> QED
    BY InvHolds, <1>2, LifeImplies, PTL

=============================================================================
