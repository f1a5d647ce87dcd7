---------------------------- MODULE SerialExecutor ----------------------------
(***************************************************************************)
(* What a run_queue promises to the runner built on it, whatever platform  *)
(* implements it: posted tasks are executed one at a time, in the order in *)
(* which they were posted, each exactly once, and no new task is taken     *)
(* while the queue is stopped.                                             *)
(*                                                                         *)
(* Taking a task (Take) and beginning to execute it (Begin) are separate   *)
(* steps: between them the task waits for a thread of the pool and a stop  *)
(* does not call it back.                                                  *)
(***************************************************************************)
EXTENDS Sequences

CONSTANTS Tasks,   \* what is posted; each is posted at most once
          NoTask   \* no task

VARIABLES pending,    \* posted and not yet taken, oldest first
          taken,      \* the task taken and not yet begun
          executing,  \* the task being executed
          executed,   \* the tasks already executed
          active      \* FALSE between a stop and the next start

vars == <<pending, taken, executing, executed, active>>

Posted == {pending[i] : i \in DOMAIN pending} \cup {taken, executing} \cup executed

Init ==
    /\ pending = <<>>
    /\ taken = NoTask
    /\ executing = NoTask
    /\ executed = {}
    /\ active = TRUE

Post(d) ==
    /\ d \notin Posted
    /\ pending' = Append(pending, d)
    /\ UNCHANGED <<taken, executing, executed, active>>

Take ==
    /\ active
    /\ pending # <<>>
    /\ taken = NoTask
    /\ executing = NoTask
    /\ taken' = Head(pending)
    /\ pending' = Tail(pending)
    /\ UNCHANGED <<executing, executed, active>>

Begin ==
    /\ taken # NoTask
    /\ executing' = taken
    /\ taken' = NoTask
    /\ UNCHANGED <<pending, executed, active>>

Finish ==
    /\ executing # NoTask
    /\ executed' = executed \cup {executing}
    /\ executing' = NoTask
    /\ UNCHANGED <<pending, taken, active>>

SetActive(b) ==
    /\ active' = b
    /\ UNCHANGED <<pending, taken, executing, executed>>

Next ==
    \/ \E d \in Tasks : Post(d)
    \/ Take
    \/ Begin
    \/ Finish
    \/ \E b \in BOOLEAN : SetActive(b)

Spec == Init /\ [][Next]_vars

\* An active executor with work takes it, begins it, and user code returns.
FairSpec == Spec /\ WF_vars(Take) /\ WF_vars(Begin) /\ WF_vars(Finish)
=============================================================================
