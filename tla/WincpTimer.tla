------------------------------ MODULE WincpTimer ------------------------------
(***************************************************************************)
(* The timer on the Windows thread pool (lib/src/async/wincp/              *)
(* event_sources.cpp, class impl::timer), used by one thread.  External is *)
(* the pool: an armed timer queues callbacks, which any thread of          *)
(* TimerThreads executes; to disarm it leaves the queued ones, to wait for *)
(* its callbacks drops these and lasts until none executes.                *)
(***************************************************************************)
EXTENDS Integers

CONSTANTS TimerThreads,  \* threads of the pool
          Micros,        \* periods the user asks for, in microseconds
          MaxQueued      \* bound: callbacks queued at a time

ASSUME MicrosAssumption == Micros \subseteq Nat /\ Micros # {}

VARIABLES
    m_active,
    m_period,            \* in milliseconds
    interval,            \* what the pool's timer is set to, or 0
    queued,              \* callbacks it queued
    closed,              \* CloseThreadpoolTimer was called
    user,                \* the step the user is at
    worker,              \* the step each thread of the pool is at
    quiet,               \* history: stop() returned, no start() since
    passed               \* history: threads past the flag when it returned, the
                         \* task not begun

winTimerVars ==
    <<m_active, m_period, interval, queued, closed, user, worker, quiet, passed>>

\* To the nearest millisecond, at least one.
Rounded(p) == IF (p + 500) \div 1000 = 0 THEN 1 ELSE (p + 500) \div 1000

WinTimerInit ==
    /\ m_active = FALSE
    /\ m_period \in {Rounded(p) : p \in Micros}
    /\ interval = 0
    /\ queued = 0
    /\ closed = FALSE
    /\ user = "idle"
    /\ worker = [w \in TimerThreads |-> "idle"]
    /\ quiet = TRUE
    /\ passed = {}

\* The flag is set before the timer.
Flag(to, active) ==
    /\ user = "idle"
    /\ user' = to
    /\ m_active' = active
    /\ UNCHANGED <<m_period, interval, queued, closed, worker, passed>>

Active == {w \in TimerThreads : worker[w] = "active"}

SetFrom(from, to, value) ==
    /\ user = from
    /\ user' = to
    /\ interval' = value
    /\ UNCHANGED <<m_active, m_period, queued, closed, worker>>

StartActive == Flag("start", TRUE) /\ quiet' = FALSE
StartSet == SetFrom("start", "idle", m_period) /\ UNCHANGED <<quiet, passed>>
StopUnflagged == Flag("stop", m_active) /\ UNCHANGED quiet
StopInactive == Flag("stop", FALSE) /\ UNCHANGED quiet
StopSet == SetFrom("stop", "idle", 0) /\ quiet' = TRUE /\ passed' = Active
ShutdownInactive == Flag("shutdown", FALSE) /\ UNCHANGED quiet
ShutdownSet == SetFrom("shutdown", "wait", 0) /\ UNCHANGED <<quiet, passed>>

ShutdownAtOnce ==
    /\ user = "wait"
    /\ user' = "gone"
    /\ queued' = 0
    /\ closed' = TRUE
    /\ UNCHANGED <<m_active, m_period, interval, worker, quiet, passed>>

\* WaitForThreadpoolTimerCallbacks(TRUE), then CloseThreadpoolTimer.
ShutdownWaits ==
    /\ \A w \in TimerThreads : worker[w] = "idle"
    /\ ShutdownAtOnce

ChangePeriod ==
    /\ user = "idle"
    /\ \E p \in Micros \ {0} : m_period' = Rounded(p)
    /\ UNCHANGED <<m_active, interval, queued, closed, user, worker, quiet, passed>>

Expire ==
    /\ interval > 0
    /\ queued < MaxQueued
    /\ queued' = queued + 1
    /\ UNCHANGED <<m_active, m_period, interval, closed, user, worker, quiet, passed>>

WorkerMoves(w, from, to) == worker[w] = from /\ worker' = [worker EXCEPT ![w] = to]

CallbackStarts(w) ==
    /\ queued > 0
    /\ queued' = queued - 1
    /\ WorkerMoves(w, "idle", "entered")
    /\ UNCHANGED <<m_active, m_period, interval, closed, user, quiet, passed>>

\* on_event looks at the flag; expired() runs the task afterwards.
OnTimerEvent(w) ==
    /\ WorkerMoves(w, "entered", IF m_active THEN "active" ELSE "idle")
    /\ UNCHANGED <<m_active, m_period, interval, queued, closed, user, quiet, passed>>

TaskBegins(w) ==
    /\ WorkerMoves(w, "active", "expired")
    /\ passed' = passed \ {w}
    /\ UNCHANGED <<m_active, m_period, interval, queued, closed, user, quiet>>

Expired(w) ==
    /\ WorkerMoves(w, "expired", "idle")
    /\ UNCHANGED <<m_active, m_period, interval, queued, closed, user, quiet, passed>>

WinTimerNext ==
    \/ StartActive \/ StartSet
    \/ StopInactive \/ StopSet
    \/ ShutdownInactive \/ ShutdownSet \/ ShutdownWaits
    \/ ChangePeriod
    \/ Expire
    \/ \E w \in TimerThreads :
          CallbackStarts(w) \/ OnTimerEvent(w) \/ TaskBegins(w) \/ Expired(w)
-----------------------------------------------------------------------------
(***************************************************************************)
(* Once stop() has returned, the task still begins on a thread of the pool *)
(* only if that thread had found the flag set before, and once on each     *)
(* such thread: the flag is not looked at again (on_event and expired).  A *)
(* callback queued before stop() and not begun never runs the task.  Once  *)
(* the timer is closed, and the object destroyed with it, no callback      *)
(* begins or goes on (the order of timer::shutdown: disarm, wait, close).  *)
(***************************************************************************)
OnlyPassedBegin ==
    [][\A w \in TimerThreads :
          worker'[w] # worker[w] =>
              ~closed /\ (quiet /\ worker'[w] = "expired" => w \in passed)]_winTimerVars
=============================================================================
