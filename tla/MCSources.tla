------------------------------ MODULE MCSources ------------------------------
(***************************************************************************)
(* The event sources that are modelled without their user's tasks, in one  *)
(* run: timers and servers of both systems, and the Windows stream.  They  *)
(* share no state: only one of them moves in a behaviour.                  *)
(***************************************************************************)
EXTENDS GcdTimer, GcdServer, WincpTimer, WincpServer, WincpStream

CONSTANTS u1, u2,        \* threads of the user, also names of clones
          k1, k2,        \* clients
          w1, w2         \* threads of the pool

VARIABLE moving

OneUser == {u1}
TwoUsers == {u1, u2}
TwoClients == {k1, k2}
OneWorker == {w1}
OtherWorker == {w2}
TwoWorkers == {w1, w2}
UserAndExecutor == {u1, Executor}
MicroSeconds == {0, 1500, 2600}

vars == <<moving, timerVars, serverVars, winTimerVars, winServerVars, streamVars>>

Init ==
    /\ moving \in {"timer", "server", "win_timer", "win_server", "win_stream"}
    /\ TimerInit /\ ServerInit /\ WinTimerInit /\ WinServerInit /\ StreamInit
    /\ moving # "timer" => period = 0
    /\ moving # "win_timer" => m_period = 1

Next ==
    /\ UNCHANGED moving
    /\ \/ /\ moving = "timer" /\ TimerNext
          /\ UNCHANGED <<serverVars, winTimerVars, winServerVars, streamVars>>
       \/ /\ moving = "server" /\ ServerNext
          /\ UNCHANGED <<timerVars, winTimerVars, winServerVars, streamVars>>
       \/ /\ moving = "win_timer" /\ WinTimerNext
          /\ UNCHANGED <<timerVars, serverVars, winServerVars, streamVars>>
       \/ /\ moving = "win_server" /\ WinServerNext
          /\ UNCHANGED <<timerVars, serverVars, winTimerVars, streamVars>>
       \/ /\ moving = "win_stream" /\ StreamNext
          /\ UNCHANGED <<timerVars, serverVars, winTimerVars, winServerVars>>

Spec == Init /\ [][Next]_vars
FairSpec == Spec /\ TimerFairness /\ ServerFairness /\ StreamFairness
=============================================================================
