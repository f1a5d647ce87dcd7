-------------------------------- MODULE MCGcd --------------------------------
(***************************************************************************)
(* The run_queue and the stream on libdispatch in one run.  They share no  *)
(* state: only one of them moves in a behaviour.                           *)
(***************************************************************************)
EXTENDS GcdRunQueue, GcdStream

CONSTANTS c1, c2, a, b, d,   \* owners of the run_queue, its tasks
          u,                 \* a thread that uses the stream
          Movers             \* which of the two move

VARIABLE moving

TwoClients == {c1, c2}
ThreeTasks == {a, b, d}
OneUser == {u}
NoUsers == {}
OnlyQueue == {Queue}
EveryThread == Threads
Both == {"queue", "stream"}
JustQueue == {"queue"}
JustStream == {"stream"}

allVars == <<moving, queueVars, vars>>

MCInit == moving \in Movers /\ QueueInit /\ Init

MCNext ==
    /\ UNCHANGED moving
    /\ \/ moving = "queue" /\ QueueNext /\ UNCHANGED vars
       \/ moving = "stream" /\ Next /\ UNCHANGED queueVars

MCSpec == MCInit /\ [][MCNext]_allVars
MCFairSpec == MCSpec /\ QueueFairness /\ Fairness
=============================================================================
